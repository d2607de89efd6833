--------------------------- MODULE PrefixRetention ---------------------------
(***************************************************************************)
(* Persistence of prompt prefixes in a running scheduler: the actor        *)
(* (PrefixRetention on the scheduler's thread), the in-memory endpoints it *)
(* saves and restores (ExactEndpointCache), and AsyncPrefixStore, whose    *)
(* single worker thread does the file I/O and whose GPU copies end later   *)
(* than the I/O.                                                           *)
(*                                                                         *)
(* The actor and the worker share the queues, the ticket table, a few      *)
(* threading.Events and the store's index.  A call of the actor is cut     *)
(* into steps where the worker can be seen to have moved: between the two  *)
(* halves of _submit, and between the two halves of poll.                  *)
(*                                                                         *)
(* An image is what one endpoint or one restore owns: its recurrent-state  *)
(* slot, with the private pages that are allocated and returned with it.   *)
(* PrefixStore has the files behind the index.                             *)
(***************************************************************************)
EXTENDS Integers, Sequences, FiniteSets, SequencesExt, FiniteSetsExt

CONSTANTS
    Keys,        \* record keys, each the number of tokens it stands for
    Uids,        \* requests
    InputLen,    \* prompt length of each request
    Slots,       \* recurrent-state slots
    SlotReserve, \* free slots a restore must find (4 in the code)
    MaxRecords,  \* endpoints kept in memory
    MaxDisk,     \* records the store's index may hold
    MaxTickets,  \* settings.tickets
    MaxWaiters,  \* requests that may wait for one restore
    Faults,      \* kinds of I/O outcome, other than success, that may happen
    MaxFaults,   \* bound: how many of them happen
    MaxIssued    \* bound: tickets ever issued

ASSUME RetentionConstants ==
    /\ Keys \subseteq Nat \ {0} /\ IsFiniteSet(Keys) /\ Keys # {}
    /\ InputLen \in [Uids -> Nat] /\ IsFiniteSet(Uids)
    /\ IsFiniteSet(Slots) /\ 0 \notin Slots /\ SlotReserve \in 1 .. Cardinality(Slots)
    /\ MaxRecords \in Nat \ {0} /\ MaxDisk \in Nat \ {0}
    /\ MaxTickets \in Nat \ {0} /\ MaxWaiters \in Nat \ {0}
    /\ Faults \subseteq {"open", "benign", "odd", "die", "orphan"}
    /\ MaxFaults \in Nat /\ MaxIssued \in Nat

VARIABLES
    \* shared by the actor and the worker
    tickets,   \* every IOTicket issued, by number
    held,      \* _tickets: admitted and not released
    jobs, done,\* the two queues, of ticket numbers
    flags,     \* ready, failure, closing, stopped, released; store.failed
    index,     \* keys of the store's index
    pins,      \* read pins per key
    \* the worker
    worker,    \* its program counter
    now,       \* the ticket it works on
    \* the actor
    at,        \* its program counter
    job,       \* the submission between the two halves of _submit
    entries,   \* ExactEndpointCache.entries, oldest first
    free,      \* free slots
    restoring, \* restoring_states
    writes,    \* ticket that writes a key, or 0
    restore,   \* the one restore group
    completed, remaining,  \* completions not handled; those put off
    unexpected,\* an error that poll is to raise
    service,   \* disabled, closed, raised, and what close returned
    pending,   \* per request: new, waiting, or go: it waits no more, or has left
    faults     \* bound: faults so far

shared == <<tickets, held, jobs, done, flags, index, pins>>
memory == <<entries, free, restoring, writes, restore, pending>>
polling == <<completed, remaining, unexpected>>
vars == <<shared, worker, now, at, job, memory, polling, service, faults>>

NoTicket == 0
NoJob == [kind |-> "none", key |-> 0, slot |-> 0, uid |-> 0]
NoRestore == [ticket |-> NoTicket, key |-> 0, slot |-> 0, waiters |-> {}]

\* An error the actor expects of a transfer; any other one it raises.
Expected == {"none", "benign"}

-----------------------------------------------------------------------------
(* ExactEndpointCache.  A cache state is a record of entries and free.     *)
(*                                                                         *)
(* `readers' counts the write leases.  Which endpoints a running request   *)
(* reads, or have their own copy still under way, is left open: at every   *)
(* call `raw' may be any endpoints not yet complete(), and `busy' those    *)
(* with any that a request reads.                                          *)

Entry(k, s, r) == [key |-> k, slot |-> s, readers |-> r]
Known(es, k) == \E i \in DOMAIN es : es[i].key = k
Find(es, k) == CHOOSE i \in DOMAIN es : es[i].key = k

Idle(es, busy) == {i \in DOMAIN es : es[i].readers = 0 /\ es[i].key \notin busy}

\* evict_one: the oldest complete endpoint that nobody reads gives way.
evict_one(c, busy) ==
    LET i == Min(Idle(c.entries, busy))
    IN  IF Idle(c.entries, busy) = {} THEN c
        ELSE [entries |-> RemoveAt(c.entries, i),
              free |-> c.free \cup {c.entries[i].slot}]

\* evict_one, n times.
Evict(c, n, busy) ==
    LET left[i \in 0 .. n] == IF i = 0 THEN c ELSE evict_one(left[i - 1], busy)
    IN  left[n]

\* Evict one endpoint when the cache is full; `fits' says whether that helped.
Shrink(c, busy) == IF Len(c.entries) >= MaxRecords THEN evict_one(c, busy) ELSE c
fits(c) == Len(c.entries) < MaxRecords

Readers(es, k, d) ==
    [i \in DOMAIN es |-> IF es[i].key = k THEN [es[i] EXCEPT !.readers = @ + d]
                                          ELSE es[i]]

MoveToEnd(es, k) == Append(RemoveAt(es, Find(es, k)), es[Find(es, k)])

Endpoints == [entries |-> entries, free |-> free]

\* A publication whose slot stays among the free ones.
PublishedSlotFree(k, busy, tail) ==
    LET c == Shrink(Endpoints, busy)
    IN  IF Known(entries, k) \/ ~fits(c) \/ c.free = {} THEN c
        ELSE [c EXCEPT !.entries = Append(@, Entry(k, CHOOSE x \in c.free : TRUE, 0))]

\* ExactEndpointCache.publish up to on_publication: c1 has room for one more
\* endpoint, c2 a slot for it, if that could be had.  The page for its tail
\* is there or not needed, or there after one eviction, or not even then.
Tails == {"fits", "freed", "short"}
Appended(c2, k) == LET s == CHOOSE x \in c2.free : TRUE
                   IN  [entries |-> Append(c2.entries, Entry(k, s, 0)),
                        free |-> c2.free \ {s}]
Placed(c1, c2, k, tail) ==
    IF fits(c1) /\ c2.free # {} /\ tail # "short" THEN Appended(c2, k) ELSE c2
Slotted(c1, k, busy, tail) ==
    Placed(c1, IF c1.free = {} \/ tail # "fits" THEN evict_one(c1, busy) ELSE c1, k, tail)
published(k, busy, tail) ==
    IF Known(entries, k) THEN [entries |-> MoveToEnd(entries, k), free |-> free]
    ELSE Slotted(Shrink(Endpoints, busy), k, busy, tail)

\* adopt: the restored image becomes an endpoint, unless the key is there or
\* no endpoint can give way.
Adoptable(k, busy) == ~Known(entries, k) /\ fits(Shrink(Endpoints, busy))

-----------------------------------------------------------------------------
(* AsyncPrefixStore as the actor sees it.                                  *)

Unavailable == flags.failure \/ flags.failed
descriptors == IF flags.ready /\ ~Unavailable THEN index ELSE {}
Outstanding == Cardinality(held)
ThreadAlive == worker # "gone"

\* _submit before it takes the mutex.
MaySubmit == flags.ready /\ ~flags.failure /\ ~flags.closing

pin(k) == k \in index /\ ~flags.failed /\ ThreadAlive

Ticket(kind, k) ==
    [kind |-> kind, key |-> k, cancelled |-> FALSE, finished |-> FALSE,
     reported |-> FALSE, error |-> "none", valid |-> FALSE, gpu |-> FALSE]

Cancelled(ts, t) == IF t = NoTicket THEN ts ELSE [ts EXCEPT ![t].cancelled = TRUE]

\* A transfer taken for complete as soon as the file is read or written.
TransferIOOver(t) == tickets[t].finished

\* transfer_complete: the I/O is over and so are the copies on its stream.
transfer_complete(t) == tickets[t].finished /\ ~tickets[t].gpu

-----------------------------------------------------------------------------
(* The actor between polls.                                                *)

\* The scheduler's loop runs: it is not shutting down and no poll raised.
Running == at = "idle" /\ ~service.closed /\ ~service.raised

\* A request ends at an endpoint: it is published in memory and, unless it is
\* on disk or on its way there, its source is leased for a write.
publish(k) ==
    /\ Running /\ Len(tickets) < MaxIssued
    /\ \E busy \in SUBSET Keys, tail \in Tails : \E c \in {published(k, busy, tail)} :
       LET wanted == /\ Known(c.entries, k) /\ ~service.disabled
                     /\ Outstanding < MaxTickets
                     /\ writes[k] = NoTicket /\ k \notin descriptors
                     /\ MaySubmit
       IN  /\ entries' = IF wanted THEN Readers(c.entries, k, 1) ELSE c.entries
           /\ free' = c.free
           /\ at'  = IF wanted THEN "put" ELSE at
           /\ job' = IF wanted THEN [NoJob EXCEPT !.kind = "write", !.key = k] ELSE job
    /\ UNCHANGED <<shared, worker, now, restoring, writes, restore, pending,
                   polling, service, faults>>

\* Pages for a running request: endpoints give way while pages are short.
_allocate ==
    /\ Running
    /\ \E busy \in SUBSET Keys : \E c \in {evict_one(Endpoints, busy)} :
          entries' = c.entries /\ free' = c.free
    /\ UNCHANGED <<shared, worker, now, at, job, restoring, writes, restore, pending,
                   polling, service, faults>>

\* Records of the request's own prefixes, longer than what memory holds: an
\* endpoint that is not complete is no match.
Matched(u, raw) ==
    {e.key : e \in {x \in ToSet(entries) : x.key <= InputLen[u] /\ x.key \notin raw}}
Candidates(u, raw) == {k \in descriptors : /\ k < InputLen[u]
                                           /\ \A m \in Matched(u, raw) : m < k}

\* ensure_mamba_slots: endpoints give way until enough slots are free.
ensure_mamba_slots(c, busy) ==
    Evict(c, Max({0, SlotReserve - Cardinality(c.free)}), busy)

Attempt(u, verdict) == pending' = [pending EXCEPT ![u] = verdict]

CanRestore(u, raw) ==
    /\ Running /\ pending[u] = "new" /\ ~service.disabled /\ flags.ready
    /\ Candidates(u, raw) # {}

Joinable(u, raw) ==
    /\ CanRestore(u, raw) /\ restore # NoRestore
    /\ restore.key = Max(Candidates(u, raw))
    /\ ~tickets[restore.ticket].cancelled
    /\ Cardinality(restore.waiters) < MaxWaiters

\* maybe_restore finds nothing to restore, no room for it, or (by the policy's
\* estimates, which are left open) that it would not pay.
RestoreSkipped(u) ==
    /\ Running /\ pending[u] = "new" /\ \E raw \in SUBSET Keys : ~Joinable(u, raw)
    /\ Attempt(u, "go")
    /\ UNCHANGED <<shared, worker, now, at, job, entries, free, restoring,
                   writes, restore, polling, service, faults>>

\* A request joins the restore of its own record.
RestoreJoined(u) ==
    /\ \E raw \in SUBSET Keys : Joinable(u, raw)
    /\ restore' = [restore EXCEPT !.waiters = @ \cup {u}]
    /\ Attempt(u, "waiting")
    /\ UNCHANGED <<shared, worker, now, at, job, entries, free, restoring,
                   writes, polling, service, faults>>

\* A restore that is begun while another one is on its way.
RestoreBegunAgain(u) ==
    /\ CanRestore(u, {}) /\ Outstanding < MaxTickets /\ Len(tickets) < MaxIssued
    /\ free # {} /\ MaySubmit
    /\ LET s == CHOOSE x \in free : TRUE
       IN  /\ free' = free \ {s}
           /\ job' = [kind |-> "read", key |-> Max(Candidates(u, {})), slot |-> s, uid |-> u]
    /\ restoring' = restoring + 1
    /\ at' = "put"
    /\ UNCHANGED <<shared, worker, now, entries, writes, restore, pending, polling,
                   service, faults>>

\* The private image of a restore of record k, out of the slots of c.
PrivateImage(u, k, c) ==
    LET s == CHOOSE x \in c.free : TRUE
    IN  /\ entries' = c.entries /\ free' = c.free \ {s}
        /\ restoring' = restoring + 1
        /\ at' = "put"
        /\ job' = [kind |-> "read", key |-> k, slot |-> s, uid |-> u]
        /\ UNCHANGED pending

\* A restore is begun: the private image is allocated before the submission,
\* and more endpoints may give way to its pages.
RestoreBegun(u) ==
    /\ restore = NoRestore /\ Outstanding < MaxTickets /\ Len(tickets) < MaxIssued
    /\ \E raw, busy \in SUBSET Keys :
       /\ raw \subseteq busy /\ CanRestore(u, raw)
       /\ \E c \in {ensure_mamba_slots(Endpoints, busy)} :
             IF Cardinality(c.free) < SlotReserve \/ ~MaySubmit
             THEN /\ Attempt(u, "go") /\ entries' = c.entries /\ free' = c.free
                  /\ UNCHANGED <<at, job, restoring>>
             ELSE \E n \in 0 .. MaxRecords :
                     PrivateImage(u, Max(Candidates(u, raw)), Evict(c, n, busy))
    /\ UNCHANGED <<shared, worker, now, writes, restore, polling, service, faults>>

\* _submit under the mutex, and what its caller does with the answer: a write
\* is recorded or its lease discarded, a read gets its waiter or the private
\* image goes back.
Refused == \/ flags.closing \/ flags.failed \/ ~ThreadAlive
           \/ Outstanding >= MaxTickets
           \/ job.kind = "read" /\ ~pin(job.key)

_submit ==
    /\ at = "put" /\ ~Refused
    /\ LET t == Len(tickets) + 1
       IN  /\ tickets' = Append(tickets, Ticket(job.kind, job.key))
           /\ held' = held \cup {t}
           /\ jobs' = Append(jobs, t)
           /\ IF job.kind = "write"
              THEN /\ writes' = [writes EXCEPT ![job.key] = t]
                   /\ UNCHANGED <<pins, restore, pending>>
              ELSE /\ pins' = [pins EXCEPT ![job.key] = @ + 1]
                   /\ restore' = [ticket |-> t, key |-> job.key,
                                  slot |-> job.slot, waiters |-> {job.uid}]
                   /\ Attempt(job.uid, "waiting")
                   /\ UNCHANGED writes
    /\ at' = "idle" /\ job' = NoJob
    /\ UNCHANGED <<done, flags, index, worker, now, entries, free, restoring,
                   polling, service, faults>>

SubmitRefused ==
    /\ at = "put" /\ Refused
    /\ IF job.kind = "write"
       THEN /\ entries' = Readers(entries, job.key, -1)
            /\ UNCHANGED <<free, restoring, pending>>
       ELSE /\ free' = free \cup {job.slot}
            /\ restoring' = restoring - 1
            /\ Attempt(job.uid, "go")
            /\ UNCHANGED entries
    /\ at' = "idle" /\ job' = NoJob
    /\ UNCHANGED <<shared, worker, now, writes, restore, polling, service, faults>>

\* detach: an aborted request leaves the restore; the last one cancels it.
detach(u) ==
    /\ Running /\ pending[u] \in {"new", "waiting"}
    /\ Attempt(u, "go")
    /\ restore' = [restore EXCEPT !.waiters = @ \ {u}]
    /\ tickets' = IF restore.waiters \ {u} = {} THEN Cancelled(tickets, restore.ticket)
                                                ELSE tickets
    /\ UNCHANGED <<held, jobs, done, flags, index, pins, worker, now, at, job,
                   entries, free, restoring, writes, polling, service, faults>>

\* rebuild_cache: an idle scheduler with no ticket out forgets its endpoints.
rebuild_cache ==
    /\ Running /\ held = {} /\ entries # <<>>
    /\ \A u \in Uids : pending[u] # "waiting"
    /\ entries' = <<>>
    /\ free' = Slots
    /\ UNCHANGED <<shared, worker, now, at, job, restoring, writes, restore,
                   pending, polling, service, faults>>

-----------------------------------------------------------------------------
(* poll.                                                                   *)

Go(waiters) == [u \in Uids |-> IF u \in waiters THEN "go" ELSE pending[u]]

MayPoll == \/ at = "repoll"
           \/ /\ at = "idle" /\ service.result = "none"
              /\ service.closed \/ ~service.raised
              /\ \/ service.closed \/ held # {} \/ done # <<>>
                 \/ Unavailable /\ ~service.disabled

\* The first half: a restore that took too long loses its waiters, and the
\* finished tickets are drained.
poll ==
    /\ MayPoll
    /\ service' = [service EXCEPT !.disabled = @ \/ Unavailable]
    /\ \E late \in BOOLEAN :
          LET expired == /\ late /\ restore # NoRestore
                         /\ ~tickets[restore.ticket].cancelled
              ts == IF expired THEN Cancelled(tickets, restore.ticket) ELSE tickets
          IN  /\ late => expired
              /\ pending' = IF expired THEN Go(restore.waiters) ELSE pending
              /\ restore' = IF expired THEN [restore EXCEPT !.waiters = {}] ELSE restore
              /\ tickets' = [t \in DOMAIN ts |->
                               IF t \in ToSet(done) THEN [ts[t] EXCEPT !.reported = TRUE]
                                                    ELSE ts[t]]
    /\ completed' = completed \o done
    /\ done' = <<>>
    /\ at' = "drained"
    /\ UNCHANGED <<held, jobs, flags, index, pins, worker, now, job, entries,
                   free, restoring, writes, remaining, unexpected, faults>>

Overlooked == {t \in held : ~tickets[t].reported}

\* The second half: a worker that has stopped reports nothing more, so every
\* ticket it left is finished and reported here.
PollStopped ==
    /\ at = "drained"
    /\ IF flags.stopped
       THEN /\ completed' = completed \o SetToSortSeq(Overlooked, <)
            /\ tickets' = [t \in DOMAIN tickets |->
                 IF t \in held
                 THEN [tickets[t] EXCEPT
                         !.error = IF tickets[t].finished THEN @ ELSE "odd",
                         !.finished = TRUE, !.reported = TRUE]
                 ELSE tickets[t]]
       ELSE UNCHANGED <<completed, tickets>>
    /\ at' = "handle"
    /\ UNCHANGED <<held, jobs, done, flags, index, pins, worker, now, job, memory,
                   remaining, unexpected, service, faults>>

\* What is left of a released ticket.
Spent(t) == [tickets EXCEPT ![t] = [Ticket(@.kind, @.key) EXCEPT
               !.finished = TRUE, !.reported = TRUE, !.gpu = tickets[t].gpu]]

\* A release that does not wake the worker.
ReleaseSilently(t) ==
    /\ tickets' = Spent(t)
    /\ held' = held \ {t}
    /\ unexpected' = (unexpected \/ tickets[t].error \notin Expected)
    /\ completed' = Tail(completed)
    /\ UNCHANGED flags

\* release, common to both kinds.
release(t) ==
    /\ tickets' = Spent(t)
    /\ held' = held \ {t}
    /\ flags' = [flags EXCEPT !.released = TRUE]
    /\ unexpected' = (unexpected \/ tickets[t].error \notin Expected)
    /\ completed' = Tail(completed)

Handles(t) == at = "handle" /\ completed # <<>> /\ t = Head(completed) /\ t \in held

\* A ticket whose copies are still running is put off.
HandleLater ==
    \E t \in held :
        /\ Handles(t) /\ ~transfer_complete(t)
        /\ remaining' = Append(remaining, t)
        /\ completed' = Tail(completed)
        /\ UNCHANGED <<shared, worker, now, at, job, memory, unexpected, service, faults>>

HandleWrite ==
    \E t \in held :
        /\ Handles(t) /\ transfer_complete(t) /\ tickets[t].kind = "write"
        /\ writes' = [writes EXCEPT ![tickets[t].key] = NoTicket]
        /\ entries' = Readers(entries, tickets[t].key, -1)
        /\ release(t)
        /\ UNCHANGED <<jobs, done, index, pins, worker, now, at, job, free,
                       restoring, restore, pending, remaining, service, faults>>

\* A completed restore: its image is adopted if it is whole and somebody
\* still waits for it, and is returned otherwise.
HandleRead ==
    \E t \in held :
        /\ Handles(t) /\ transfer_complete(t) /\ tickets[t].kind = "read"
        /\ restore.ticket = t
        /\ \E busy \in SUBSET Keys :
           LET c == Shrink(Endpoints, busy)
               wanted == /\ tickets[t].error = "none" /\ ~tickets[t].cancelled
                         /\ tickets[t].valid /\ restore.waiters # {}
               adopted == wanted /\ Adoptable(restore.key, busy)
               tried == IF wanted /\ ~Known(entries, restore.key) THEN c ELSE Endpoints
           IN  /\ entries' = IF adopted
                             THEN Append(c.entries, Entry(restore.key, restore.slot, 0))
                             ELSE tried.entries
               /\ free' = IF adopted THEN c.free ELSE tried.free \cup {restore.slot}
        /\ restoring' = restoring - 1
        /\ pending' = Go(restore.waiters)
        /\ restore' = NoRestore
        /\ pins' = [pins EXCEPT ![tickets[t].key] = @ - 1]
        /\ release(t)
        /\ UNCHANGED <<jobs, done, index, worker, now, at, job, writes,
                       remaining, service, faults>>

\* A ticket met a second time has no payload any more: poll raises.
HandleTwice ==
    /\ at = "handle" /\ completed # <<>> /\ Head(completed) \notin held
    /\ at' = "broken"
    /\ UNCHANGED <<shared, worker, now, job, memory, polling, service, faults>>

\* poll returns, or raises the unexpected error it met.
PollEnds ==
    /\ at = "handle" /\ completed = <<>>
    /\ completed' = remaining /\ remaining' = <<>>
    /\ unexpected' = FALSE
    /\ service' = [service EXCEPT !.raised = @ \/ unexpected,
                     !.result = IF unexpected /\ service.closed THEN "raised" ELSE @]
    /\ at' = IF service.closed /\ ~unexpected /\ held = {} THEN "joining" ELSE "idle"
    /\ UNCHANGED <<shared, worker, now, job, memory, faults>>

-----------------------------------------------------------------------------
(* close, called by the scheduler's shutdown: waiters are let go, the      *)
(* worker is told, and poll is repeated until no ticket is out.            *)

close ==
    /\ at = "idle" /\ ~service.closed
    /\ service' = [service EXCEPT !.closed = TRUE]
    /\ pending' = Go(restore.waiters)
    /\ restore' = [restore EXCEPT !.waiters = {}]
    /\ tickets' = Cancelled(tickets, restore.ticket)
    /\ flags' = [flags EXCEPT !.closing = TRUE]
    /\ at' = "repoll"
    /\ UNCHANGED <<held, jobs, done, index, pins, worker, now, job, entries, free,
                   restoring, writes, polling, faults>>

\* The worker's thread has ended within the time that was left.
CloseReturns ==
    /\ at = "joining" /\ ~ThreadAlive
    /\ service' = [service EXCEPT !.result = "true"]
    /\ at' = "over"
    /\ UNCHANGED <<shared, worker, now, job, memory, polling, faults>>

\* The time is over first: ownership stays with the tickets.
CloseGivesUp ==
    /\ service.closed /\ service.result = "none" /\ at \in {"idle", "joining"}
    /\ service' = [service EXCEPT !.result = "false"]
    /\ at' = "over"
    /\ UNCHANGED <<shared, worker, now, job, memory, polling, faults>>

-----------------------------------------------------------------------------
(* The worker thread.                                                      *)

Fault(f) == f \in Faults /\ faults < MaxFaults /\ faults' = faults + 1

\* The store opens with the records it recovered.
OpenStore ==
    /\ worker = "opening"
    /\ \E S \in SUBSET Keys : Cardinality(S) <= MaxDisk /\ index' = S
    /\ flags' = [flags EXCEPT !.ready = TRUE]
    /\ worker' = "loop"
    /\ UNCHANGED <<tickets, held, jobs, done, pins, now, at, job, memory, polling,
                   service, faults>>

\* It does not open: the thread ends before it ever looked at the queue.
OpenFails ==
    /\ worker = "opening" /\ Fault("open")
    /\ flags' = [flags EXCEPT !.ready = TRUE, !.failure = TRUE, !.stopped = TRUE]
    /\ worker' = "gone"
    /\ UNCHANGED <<tickets, held, jobs, done, index, pins, now, at, job, memory,
                   polling, service>>

\* A cancelled ticket is taken and skipped; the flag is read only here.
WorkerTakes ==
    /\ worker = "loop" /\ ~flags.failure /\ jobs # <<>>
    /\ now' = Head(jobs) /\ jobs' = Tail(jobs)
    /\ worker' = IF tickets[Head(jobs)].cancelled THEN "skip" ELSE "busy"
    /\ UNCHANGED <<tickets, held, done, flags, index, pins, at, job, memory,
                   polling, service, faults>>

\* The end of a ticket's I/O: finished and queued for the actor.
Finish(outcome, gpu) ==
    /\ tickets' = [tickets EXCEPT ![now].finished = TRUE, ![now].gpu = gpu,
                                  ![now].error = outcome,
                                  ![now].valid = (outcome = "none" /\ worker = "busy")]
    /\ done' = Append(done, now)
    /\ now' = NoTicket /\ worker' = "loop"
    /\ UNCHANGED <<held, jobs, at, job, memory, polling, service>>

\* The memory of a skipped restore may still be waited for on the GPU.
WorkerSkips ==
    /\ worker = "skip"
    /\ \E gpu \in BOOLEAN : Finish("none", gpu)
    /\ UNCHANGED <<flags, index, pins, faults>>

\* What follows every ticket, a skipped one too, fails: the transfer is not
\* finalized or the store not observed, and the I/O loop is over.
WorkerSkipFails ==
    /\ worker = "skip" /\ Fault("die")
    /\ \E gpu \in BOOLEAN : Finish("odd", gpu)
    /\ flags' = [flags EXCEPT !.failure = TRUE]
    /\ UNCHANGED <<index, pins>>

\* Room in the index is made from records nobody has pinned (not from any):
\* the indexes that have room for k.
AnyRecord == index
Unpinned == {k \in index : pins[k] = 0}
WithRoom(k) == IF k \in index \/ Cardinality(index) < MaxDisk THEN {index}
               ELSE {index \ {v} : v \in Unpinned}

WorkerWrites ==
    /\ worker = "busy" /\ tickets[now].kind = "write"
    /\ LET k == tickets[now].key
       IN  \/ /\ \E S \in WithRoom(k) : index' = S \cup {k}
              /\ Finish("none", FALSE)
           \/ /\ WithRoom(k) = {} /\ UNCHANGED index
              /\ Finish("benign", FALSE)
    /\ UNCHANGED <<flags, pins, faults>>

\* The pin that the ticket holds keeps the record in the index.
WorkerReads ==
    /\ worker = "busy" /\ tickets[now].kind = "read"
    /\ \E gpu \in BOOLEAN : Finish(IF tickets[now].key \in index THEN "none" ELSE "benign", gpu)
    /\ UNCHANGED <<flags, index, pins, faults>>

\* The I/O fails: with an error the actor expects or not, with bytes left on
\* disk that the store cannot account for, or so that the worker itself ends.
\* A write may have made its room already, or, when it is what follows the
\* ticket that fails, be in the index.
WorkerFails ==
    /\ worker = "busy"
    /\ \E f \in {"benign", "odd", "die", "orphan"} : \E gpu \in BOOLEAN :
          /\ Fault(f)
          /\ f = "orphan" => tickets[now].kind = "write"
          /\ Finish(IF f \in {"benign", "orphan"} THEN "benign" ELSE "odd", gpu)
          /\ flags' = [flags EXCEPT !.failure = @ \/ f = "die",
                                    !.failed = @ \/ f = "orphan"]
          /\ \/ UNCHANGED index
             \/ /\ tickets[now].kind = "write"
                /\ \E S \in WithRoom(tickets[now].key) :
                      \/ index' = S
                      \/ f = "die" /\ index' = S \cup {tickets[now].key}
    /\ UNCHANGED pins

\* The I/O loop is left for good.
WorkerStops ==
    /\ worker = "loop"
    /\ flags.failure \/ (flags.closing /\ jobs = <<>>)
    /\ flags' = [flags EXCEPT !.stopped = TRUE]
    /\ worker' = "drain"
    /\ UNCHANGED <<tickets, held, jobs, done, index, pins, now, at, job, memory,
                   polling, service, faults>>

\* The namespace is kept until every ticket is released: the table is looked
\* at and the event cleared under one mutex.
WorkerDrains ==
    /\ worker = "drain"
    /\ IF held = {} THEN worker' = "gone" /\ UNCHANGED flags
       ELSE worker' = "sleep" /\ flags' = [flags EXCEPT !.released = FALSE]
    /\ UNCHANGED <<tickets, held, jobs, done, index, pins, now, at, job, memory,
                   polling, service, faults>>

WorkerWakes ==
    /\ worker = "sleep" /\ flags.released
    /\ worker' = "drain"
    /\ UNCHANGED <<shared, now, at, job, memory, polling, service, faults>>

\* The copies of a finished ticket end on the GPU.
GpuDone ==
    \E t \in held :
        /\ tickets[t].gpu
        /\ tickets' = [tickets EXCEPT ![t].gpu = FALSE]
        /\ UNCHANGED <<held, jobs, done, flags, index, pins, worker, now, at, job,
                       memory, polling, service, faults>>

-----------------------------------------------------------------------------
Init ==
    /\ tickets = <<>> /\ held = {} /\ jobs = <<>> /\ done = <<>>
    /\ flags = [ready |-> FALSE, failure |-> FALSE, closing |-> FALSE,
                stopped |-> FALSE, released |-> FALSE, failed |-> FALSE]
    /\ index = {} /\ pins = [k \in Keys |-> 0]
    /\ worker = "opening" /\ now = NoTicket
    /\ at = "idle" /\ job = NoJob
    /\ entries = <<>> /\ free = Slots /\ restoring = 0
    /\ writes = [k \in Keys |-> NoTicket] /\ restore = NoRestore
    /\ completed = <<>> /\ remaining = <<>> /\ unexpected = FALSE
    /\ service = [disabled |-> FALSE, closed |-> FALSE, raised |-> FALSE,
                  result |-> "none"]
    /\ pending = [u \in Uids |-> "new"] /\ faults = 0

\* What the loops of the actor, the worker and the GPU do by themselves.
ActorStep == \/ _submit \/ SubmitRefused \/ poll \/ PollStopped \/ HandleLater
             \/ HandleWrite \/ HandleRead \/ HandleTwice \/ PollEnds \/ CloseReturns
             \/ service.raised /\ close
WorkerStep == \/ OpenStore \/ OpenFails \/ WorkerTakes \/ WorkerSkips \/ WorkerSkipFails
              \/ WorkerWrites \/ WorkerReads \/ WorkerFails \/ WorkerStops \/ WorkerDrains
              \/ WorkerWakes

Next == \/ \E k \in Keys : publish(k)
        \/ \E u \in Uids : \/ RestoreSkipped(u) \/ RestoreJoined(u)
                           \/ RestoreBegun(u) \/ detach(u)
        \/ _allocate \/ rebuild_cache \/ close \/ CloseGivesUp
        \/ ActorStep \/ WorkerStep \/ GpuDone

Spec == Init /\ [][Next]_vars

\* The scheduler polls on every turn of its loop while a ticket is out, the
\* worker thread runs, and copies on the GPU end.  Nothing forces the timeout
\* of a restore, the deadline of close, or a fault.
FairSpec == Spec /\ WF_vars(ActorStep) /\ WF_vars(WorkerStep) /\ WF_vars(GpuDone)

-----------------------------------------------------------------------------
(* Properties.                                                             *)

TicketRecord ==
    [kind : {"write", "read"}, key : Keys, cancelled : BOOLEAN, finished : BOOLEAN,
     reported : BOOLEAN, error : {"none", "benign", "odd"}, valid : BOOLEAN,
     gpu : BOOLEAN]

\* Types; with them the bounds the code relies on: one private restore at a
\* time (maybe_restore), max_tickets in the table (_submit), max_records
\* endpoints (ExactEndpointCache.publish and adopt).
TypeOK ==
    /\ tickets \in Seq(TicketRecord)
    /\ held \subseteq DOMAIN tickets /\ Cardinality(held) <= MaxTickets
    /\ jobs \in Seq(DOMAIN tickets) /\ done \in Seq(DOMAIN tickets)
    /\ index \subseteq Keys /\ Cardinality(index) <= MaxDisk
    /\ pins \in [Keys -> Nat]
    /\ worker \in {"opening", "loop", "busy", "skip", "drain", "sleep", "gone"}
    /\ now \in DOMAIN tickets \cup {NoTicket}
    /\ at \in {"idle", "put", "repoll", "drained", "handle", "joining", "over", "broken"}
    /\ Len(entries) <= MaxRecords /\ free \subseteq Slots
    /\ restoring \in {0, 1}
    /\ \A i \in DOMAIN entries : entries[i].readers \in Nat
    /\ writes \in [Keys -> DOMAIN tickets \cup {NoTicket}]
    /\ pending \in [Uids -> {"new", "waiting", "go"}]

\* The I/O of a ticket may still run, or its copies.
Using(t) == \/ t \in ToSet(jobs) /\ ~flags.stopped
            \/ t = now
            \/ tickets[t].gpu

Owned(es) == {es[i].slot : i \in DOMAIN es}

\* As long as the worker or the GPU uses the buffers of a ticket, the ticket
\* is held and so are its buffers: the endpoint that a write reads stays in
\* memory under a lease, the image that a read fills is in no other hands,
\* whatever was cancelled, timed out or closed meanwhile.
BuffersOwned ==
    \A t \in DOMAIN tickets :
        Using(t) =>
            /\ t \in held
            /\ tickets[t].kind = "write" =>
                  /\ writes[tickets[t].key] = t
                  /\ \E i \in DOMAIN entries : /\ entries[i].key = tickets[t].key
                                               /\ entries[i].readers > 0
            /\ tickets[t].kind = "read" =>
                  /\ restore.ticket = t
                  /\ restore.slot \notin free \cup Owned(entries)

\* Every slot is free, owned by one endpoint, or private to the restore (or
\* to its submission): none is lost and none has two owners.
ImagesConserved ==
    LET private == {restore.slot, job.slot} \ {0}
    IN  /\ free \cup Owned(entries) \cup private = Slots
        /\ Cardinality(free) + Len(entries) + restoring = Cardinality(Slots)
        /\ Cardinality(private) = restoring

\* A read ticket pins its record until it is released, and a pinned record
\* stays in the index that writes evict from.
PinnedStaysIndexed ==
    \A k \in Keys :
        /\ pins[k] = Cardinality({t \in held : tickets[t].kind = "read"
                                               /\ tickets[t].key = k})
        /\ pins[k] > 0 => k \in index

\* The worker gives up the namespace, and with it its file lock, only when no
\* ticket is out.
NamespaceHeld == worker = "gone" => held = {}

\* A request waits exactly when it is in the group it waits for, and nobody
\* is left waiting for a restore that was cancelled.
WaitersListed ==
    /\ \A u \in Uids : pending[u] = "waiting" <=> u \in restore.waiters
    /\ restore.waiters # {} => ~tickets[restore.ticket].cancelled

\* With no ticket out the service owns nothing: what rebuild_cache relies on
\* when it resets the pools, and what close promises when it returns True.
DrainedMeansIdle ==
    held = {} /\ at \in {"idle", "joining", "over"} =>
        /\ restore = NoRestore /\ restoring = 0
        /\ \A k \in Keys : writes[k] = NoTicket
        /\ \A i \in DOMAIN entries : entries[i].readers = 0

\* The books of the service, of the worker and of the store agree whatever was
\* cancelled, lost or closed: pins and tickets, namespace and tickets, waiters
\* and their restore, and nothing is left once every ticket is in.
Consistent ==
    TypeOK /\ PinnedStaysIndexed /\ NamespaceHeld /\ WaitersListed /\ DrainedMeansIdle

\* Every request that waits for a restore is let go, also when the worker
\* stops before it looked at the ticket.
WaitersReleased ==
    \A u \in Uids : pending[u] = "waiting" ~> (pending[u] # "waiting" \/ at = "broken")

\* close returns, or raises, if it is given the time.
CloseEnds == service.closed ~> (service.result # "none" \/ at = "broken")

\* "ticket released twice" (the assertion of release): no completion is
\* handled a second time.
NeverReleasedTwice == at # "broken"
=============================================================================
