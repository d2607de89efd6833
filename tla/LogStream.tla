------------------------------ MODULE LogStream ------------------------------
(***************************************************************************)
(* GET /engine/logs: the bounded log ring, the threads that append to it,  *)
(* and one client's SSE stream with replay, live tail and resume.          *)
(*                                                                         *)
(* append() numbers and stores a record under the ring's lock and calls    *)
(* the subscribers after it has released the lock; the subscriber hands    *)
(* the record to the event loop, where _put moves it to a bounded queue    *)
(* that the stream's generator drains.  A record is its sequence number.   *)
(***************************************************************************)
EXTENDS Integers, Sequences, FiniteSets, SequencesExt

CONSTANTS
    Writers,      \* threads that append: tailers, monitors, lifecycle calls
    Capacity,     \* records the ring keeps
    QueueSize,    \* records a subscriber's queue holds
    MaxRecords,   \* bound: records ever appended
    MaxSessions   \* bound: connections of the client

ASSUME LogAssumption ==
    /\ IsFiniteSet(Writers)
    /\ Capacity \in Nat \ {0} /\ QueueSize \in Nat \ {0}
    /\ MaxRecords \in Nat /\ MaxSessions \in Nat

VARIABLES
    next,     \* _next: the all-time number of records
    subs,     \* the sessions whose push is in _subs
    push,     \* per writer, the push it has not made yet
    calls,    \* _put callbacks scheduled on the loop, in order
    session,  \* how many connections there have been
    at,       \* where the current connection's handler or generator is
    want,     \* the client's cursor: since, or Last-Event-ID + 1
    backlog,  \* records of the snapshot that are still to be yielded
    cursor,   \* boundary: the snapshot's next cursor
    last,     \* last_seq
    q, drop,  \* the subscriber's queue, and the drops not announced yet
    held,     \* the record the generator took and has not yielded yet
    got,      \* records the client received, in order
    lost,     \* records the client was told it lost
    mixed     \* history: records whose append overlapped another thread's

ring   == <<next, subs>>
stream == <<at, want, backlog, cursor, last, held>>
vars   == <<ring, push, calls, session, stream, q, drop, got, lost, mixed>>

None    == -1
NoPush  == [seq |-> None, to |-> 0]
NoDrop  == [n |-> 0, from |-> None, upto |-> None]

\* The deque with maxlen: the last Capacity records.
Oldest == IF next > Capacity THEN next - Capacity ELSE 0

\* since(): the records from a cursor on that the ring still has.
Since(c) == LET first == IF c > Oldest THEN c ELSE Oldest
            IN  [i \in 1 .. next - first |-> first + i - 1]

Init ==
    /\ next = 0 /\ subs = {}
    /\ push = [w \in Writers |-> NoPush]
    /\ calls = <<>> /\ session = 0
    /\ at = "none" /\ want = 0 /\ backlog = <<>> /\ cursor = 0 /\ last = None
    /\ q = <<>> /\ drop = NoDrop /\ held = None
    /\ got = <<>> /\ lost = {} /\ mixed = {}

-----------------------------------------------------------------------------
(* LogRing.append: the critical section, then the fan-out.                 *)

\* Records another thread has numbered for this subscriber and not pushed yet:
\* they and the next one may be pushed in either order.
Unsent == {push[v].seq : v \in {u \in Writers : push[u] # NoPush /\ push[u].to = session}}

\* A subscriber left behind by an earlier session fills a queue nobody reads
\* and is left out of the fan-out.
Store(w) ==
    /\ push[w] = NoPush /\ next < MaxRecords
    /\ next' = next + 1
    /\ push' = IF session \notin subs THEN push
               ELSE [push EXCEPT ![w] = [seq |-> next, to |-> session]]
    /\ mixed' = IF Unsent = {} THEN mixed ELSE mixed \cup Unsent \cup {next}
    /\ UNCHANGED <<subs, calls, session, stream, q, drop, got, lost>>

FanOut(w) ==
    /\ push[w] # NoPush
    /\ calls' = Append(calls, push[w])
    /\ push' = [push EXCEPT ![w] = NoPush]
    /\ UNCHANGED <<ring, session, stream, q, drop, got, lost, mixed>>

-----------------------------------------------------------------------------
(* _log_stream.                                                            *)

Connect ==
    /\ at = "none" /\ session < MaxSessions
    /\ session' = session + 1
    /\ subs' = subs \cup {session + 1}
    /\ at' = "subscribed"
    /\ UNCHANGED <<next, push, calls, want, backlog, cursor, last, q, drop,
                   held, got, lost, mixed>>

\* The backlog and the boundary, still before the handler yields the loop.
Snapshot ==
    /\ at = "subscribed"
    /\ backlog' = Since(want) /\ cursor' = next
    /\ at' = "gap"
    /\ UNCHANGED <<ring, push, calls, session, want, last, q, drop, held, got,
                   lost, mixed>>

\* The prefix the ring evicted before the client (re)connected.
ReplayGapSilent ==
    /\ at = "gap"
    /\ at' = "replay"
    /\ UNCHANGED <<ring, push, calls, session, want, backlog, cursor, last, q,
                   drop, held, got, lost, mixed>>

ReplayGap ==
    LET oldest == IF backlog = <<>> THEN cursor ELSE Head(backlog)
    IN  /\ at = "gap"
        /\ lost' = lost \cup (want .. oldest - 1)
        /\ at' = "replay"
        /\ UNCHANGED <<ring, push, calls, session, want, backlog, cursor, last,
                       q, drop, held, got, mixed>>

Receive(n) == got' = Append(got, n) /\ want' = n + 1

Replay ==
    /\ at = "replay" /\ backlog # <<>>
    /\ Receive(Head(backlog))
    /\ backlog' = Tail(backlog)
    /\ UNCHANGED <<ring, push, calls, session, at, cursor, last, q, drop, held,
                   lost, mixed>>

GoLive ==
    /\ at = "replay" /\ backlog = <<>>
    /\ last' = cursor - 1
    /\ at' = "live"
    /\ UNCHANGED <<ring, push, calls, session, want, backlog, cursor, q, drop,
                   held, got, lost, mixed>>

\* A drop that is not counted.
DroppedSilently(n) == drop

\* A drop counted in the range but not from its first record.
DroppedLast(n) == [n |-> drop.n + 1, from |-> n, upto |-> n]

Dropped(n) ==
    [n |-> drop.n + 1, from |-> IF drop.from = None THEN n ELSE drop.from,
     upto |-> n]

\* _put, on the loop: drop the oldest when the queue is full.  The loop runs
\* it only when no handler is between subscribe and snapshot, and a callback
\* of a closed stream puts into a queue nobody reads.
Put ==
    /\ calls # <<>> /\ at # "subscribed"
    /\ calls' = Tail(calls)
    /\ IF Head(calls).to # session \/ at = "none" \/ Head(calls).seq < cursor
       THEN UNCHANGED <<q, drop>>
       ELSE IF Len(q) = QueueSize
       THEN /\ drop' = Dropped(Head(q))
            /\ q' = Append(Tail(q), Head(calls).seq)
       ELSE /\ q' = Append(q, Head(calls).seq)
            /\ UNCHANGED drop
    /\ UNCHANGED <<ring, push, session, stream, got, lost, mixed>>

\* q.get(), the test for a record the backlog covered, and the gap sentinel.
Take ==
    /\ at = "live" /\ held = None /\ q # <<>>
    /\ q' = Tail(q)
    /\ IF Head(q) <= last
       THEN UNCHANGED <<held, lost, drop>>
       ELSE /\ held' = Head(q)
            /\ lost' = IF drop.n > 0 THEN lost \cup (drop.from .. drop.upto)
                       ELSE lost
            /\ drop' = NoDrop
    /\ UNCHANGED <<ring, push, calls, session, at, want, backlog, cursor, last,
                   got, mixed>>

Deliver ==
    /\ held # None
    /\ Receive(held)
    /\ last' = held /\ held' = None
    /\ UNCHANGED <<ring, push, calls, session, at, backlog, cursor, q, drop,
                   lost, mixed>>

Close ==
    /\ at' = "none"
    /\ backlog' = <<>> /\ cursor' = 0 /\ last' = None /\ held' = None
    /\ q' = <<>> /\ drop' = NoDrop
    /\ UNCHANGED <<next, push, calls, session, want, got, lost, mixed>>

\* The client goes away at any await or yield; finally: unsubscribe.
Disconnect ==
    /\ at \in {"replay", "live"}
    /\ subs' = subs \ {session}
    /\ Close

\* The client has left before the response runs the generator: its body is
\* never entered, and neither is its finally.
Abandon ==
    /\ at = "gap"
    /\ Close
    /\ UNCHANGED subs

Stream == Snapshot \/ ReplayGap \/ Replay \/ GoLive \/ Put \/ Take \/ Deliver

Next ==
    \/ \E w \in Writers : Store(w) \/ FanOut(w)
    \/ Connect \/ Stream \/ Disconnect \/ Abandon

Spec == Init /\ [][Next]_vars

\* The event loop and every appending thread keep running; nobody is obliged
\* to append, to connect or to disconnect.
FairSpec ==
    /\ Spec
    /\ WF_vars(Stream)
    /\ \A w \in Writers : WF_vars(FanOut(w))

-----------------------------------------------------------------------------
(* Properties.                                                             *)

\* Every variable stays in its range.
TypeOK ==
    /\ next \in 0 .. MaxRecords
    /\ subs \subseteq 1 .. MaxSessions /\ session \in 0 .. MaxSessions
    /\ push \in [Writers -> [seq : None .. MaxRecords, to : 0 .. MaxSessions]]
    /\ calls \in Seq([seq : 0 .. MaxRecords, to : 1 .. MaxSessions])
    /\ at \in {"none", "subscribed", "gap", "replay", "live"}
    /\ want \in 0 .. MaxRecords /\ cursor \in 0 .. MaxRecords
    /\ backlog \in Seq(0 .. MaxRecords)
    /\ last \in None .. MaxRecords /\ held \in None .. MaxRecords
    /\ q \in Seq(0 .. MaxRecords) /\ Len(q) <= QueueSize
    /\ drop \in [n : Nat, from : None .. MaxRecords, upto : None .. MaxRecords]
    /\ got \in Seq(0 .. MaxRecords) /\ lost \subseteq 0 .. MaxRecords
    /\ mixed \subseteq 0 .. MaxRecords

\* What a client has came in order and once: over replay, live tail and
\* reconnections it never receives a record again, nor an older one.
InOrder == \A i, j \in 1 .. Len(got) : i < j => got[i] < got[j]

\* _log_stream: "no gap and no duplicate across the replay->live boundary".
\* When a client receives a record it has received every earlier one, once
\* and in order, or been told that it lost it, whether the ring evicted it,
\* the queue dropped it or a reconnection skipped it.  Two threads that append
\* at the same time may push in the other order, and only what they appended
\* then may be missing.
NoSilentLoss ==
    /\ TypeOK
    /\ InOrder
    /\ \A n \in ToSet(got) : \A m \in 0 .. n - 1 : m \in ToSet(got) \cup lost \cup mixed

\* The sentinel's range is exactly the records dropped since the last one, if
\* none of them was appended while another thread appended.
GapIsExact ==
    drop.n > 0 /\ ({drop.from} \cup (drop.from .. drop.upto)) \cap mixed = {} =>
        drop.n = drop.upto - drop.from + 1

\* _log_stream: "the subscriber is always removed in ``finally`` (no leak)".
NoLeak == \A s \in subs : s = session /\ at # "none"

\* A client that stays connected is eventually served: every record is
\* received, or announced as lost, or was appended while another thread did.
EveryRecordReported ==
    \A n \in 0 .. MaxRecords - 1 :
        (next > n /\ at # "none") ~> (n \in ToSet(got) \cup lost \cup mixed \/ at = "none")
=============================================================================
