--------------------------- MODULE LogStreamProofs ---------------------------
(***************************************************************************)
(* Proofs about LogStream, for any number of appending threads, any        *)
(* capacity of the ring, any length of the client's queue and any number   *)
(* of records and reconnections.  The order of the pushes is not the order *)
(* of the records when appends overlap, so what is proved is about the     *)
(* records outside mixed: those stand in the line from the threads to the  *)
(* client in their order, each once, whatever the mixed ones do.           *)
(***************************************************************************)
EXTENDS LogStream, SequenceTheorems, TLAPS

(* The generator has its snapshot, so the queue counts. *)
Open == at \in {"gap", "replay", "live"}

(* Records at or above it have not been taken from the queue. *)
Base == IF at # "live" THEN cursor ELSE IF held = None THEN last + 1 ELSE held + 1

(* Below it every record has been received or announced as lost. *)
Known == IF at = "replay" THEN cursor - Len(backlog)
         ELSE IF at # "live" THEN want
         ELSE IF held = None THEN last + 1 ELSE held

(* The records of this connection on their way: on the loop, or not sent. *)
OnLoop == {calls[i].seq : i \in {j \in 1 .. Len(calls) : calls[j].to = session}}
Coming == OnLoop \cup Unsent

(* The ends of what the queue has dropped. *)
Drops == IF drop.n > 0 THEN {drop.from, drop.upto} ELSE {}

(* Record d was pushed before x, so only records appended while others were *)
(* may stand the other way round.                                          *)
Before(d, x) == \A m \in Nat \ mixed : m <= d => m < x

(* A record that has not been pushed is the newest, or was overtaken. *)
PushesKnown ==
    /\ \A w \in Writers : push[w] # NoPush =>
          push[w].seq \in 0 .. next - 1 /\ push[w].to \in 1 .. session
    /\ \A v, w \in Writers : v # w /\ push[v] # NoPush /\ push[w] # NoPush =>
          push[v].seq # push[w].seq
    /\ \A p \in Unsent : p < next - 1 => p .. next - 1 \subseteq mixed
    /\ \A i \in 1 .. Len(calls) : calls[i].to <= session

(* A connection is subscribed from before its snapshot until it ends. *)
Subscribed ==
    /\ subs \subseteq 1 .. session
    /\ at # "none" => session \in subs
    /\ at # "live" => last = None /\ held = None
    /\ ~Open => q = <<>> /\ drop = NoDrop /\ cursor = 0
    /\ at \notin {"gap", "replay"} => backlog = <<>>

(* What was dropped, the queue, the loop and the threads, in this order. *)
LineInOrder ==
    /\ \A i, j \in 1 .. Len(calls) :
          i < j /\ calls[i].to = session /\ calls[j].to = session =>
              Before(calls[i].seq, calls[j].seq)
    /\ \A c \in OnLoop, p \in Unsent : Before(c, p)
    /\ \A i, j \in 1 .. Len(q) : i < j => Before(q[i], q[j])
    /\ \A x \in ToSet(q), c \in Coming : Before(x, c)
    /\ \A d \in Drops, x \in ToSet(q) \cup Coming : Before(d, x)

(* Only records that exist, and from the boundary on, are in it. *)
LineInRange ==
    /\ \A x \in ToSet(q) \cup Coming \cup Drops : x \in 0 .. next - 1
    /\ \A x \in ToSet(q) \cup Drops : x >= cursor
    /\ drop.n = 0 => drop = NoDrop
    /\ Open => /\ cursor <= Base /\ cursor <= next /\ Base <= next
               /\ \A x \in ToSet(q) \cup Coming \cup Drops :
                     x >= cursor /\ x \notin mixed => x >= Base

(* Every record that was appended alone is in it, until it is taken. *)
LineComplete ==
    Open => \A m \in (Base .. next - 1) \ mixed :
               \/ m \in ToSet(q) \cup Coming
               \/ drop.n > 0 /\ m \in drop.from .. drop.upto

(* What is left of the snapshot ends at the boundary. *)
BacklogIsContiguous ==
    at \in {"gap", "replay"} =>
        /\ cursor <= next /\ want <= cursor - Len(backlog)
        /\ \A i \in 1 .. Len(backlog) : backlog[i] = cursor - Len(backlog) + i - 1

(* The client's cursor is behind nothing it has received, and all below it *)
(* is accounted for.                                                       *)
AllReported ==
    /\ want <= Known /\ want <= next
    /\ InOrder
    /\ \A i \in 1 .. Len(got) : got[i] < want
    /\ \A m \in 0 .. Known - 1 : m \in ToSet(got) \cup lost \cup mixed

LineInv == LineInOrder /\ LineInRange /\ LineComplete /\ GapIsExact

StreamInv == /\ TypeOK /\ PushesKnown /\ Subscribed /\ LineInv
             /\ BacklogIsContiguous /\ AllReported
-----------------------------------------------------------------------------
(* Appending one element, and dropping the first one, element by element:  *)
(* got, calls and q change in no other way.                                *)
LEMMA AppendFacts ==
  ASSUME NEW S, NEW s \in Seq(S), NEW x \in S
  PROVE  /\ Append(s, x) \in Seq(S) /\ Len(Append(s, x)) = Len(s) + 1
         /\ \A i \in 1 .. Len(s) : Append(s, x)[i] = s[i]
         /\ Append(s, x)[Len(s) + 1] = x
         /\ ToSet(Append(s, x)) = ToSet(s) \cup {x}
<1>1. /\ Append(s, x) \in Seq(S) /\ Len(Append(s, x)) = Len(s) + 1
      /\ \A i \in 1 .. Len(s) : Append(s, x)[i] = s[i]
      /\ Append(s, x)[Len(s) + 1] = x
  OBVIOUS
<1>2. ToSet(Append(s, x)) = ToSet(s) \cup {x}
  <2>1. DOMAIN s = 1 .. Len(s) /\ DOMAIN Append(s, x) = 1 .. Len(s) + 1
    OBVIOUS
  <2>2. 1 .. Len(s) + 1 = (1 .. Len(s)) \cup {Len(s) + 1}
    OBVIOUS
  <2>3. QED
    BY <1>1, <2>1, <2>2 DEF ToSet
<1>3. QED
  BY <1>1, <1>2

LEMMA TailFacts ==
  ASSUME NEW S, NEW s \in Seq(S), s # <<>>
  PROVE  /\ Head(s) \in S /\ Head(s) = s[1] /\ Len(s) >= 1
         /\ Tail(s) \in Seq(S) /\ Len(Tail(s)) = Len(s) - 1
         /\ \A i \in 1 .. Len(Tail(s)) : Tail(s)[i] = s[i + 1]
  OBVIOUS

LEMMA RunFacts ==
  ASSUME NEW S, NEW n \in Nat, NEW f \in [1 .. n -> S]
  PROVE  f \in Seq(S) /\ Len(f) = n
  OBVIOUS

(* What a snapshot finds in the ring: its newest records, from the cursor   *)
(* or from the oldest one that was not evicted.                            *)
LEMMA SinceFacts ==
  ASSUME TypeOK
  PROVE  /\ Since(want) \in Seq(0 .. MaxRecords)
         /\ want <= next => /\ want <= next - Len(Since(want))
                           /\ Len(Since(want)) <= next
         /\ \A i \in 1 .. Len(Since(want)) :
                Since(want)[i] = next - Len(Since(want)) + i - 1
<1> DEFINE first == IF want > Oldest THEN want ELSE Oldest
<1>1. first \in Nat /\ next \in Nat /\ want \in Nat /\ want <= first /\ Oldest \in 0 .. next
  BY LogAssumption DEF TypeOK, Oldest
<1>2. Since(want) = [i \in 1 .. next - first |-> first + i - 1]
  BY DEF Since
<1> HIDE DEF first
<1>3. CASE next >= first
  <2>1. next - first \in Nat
    BY <1>1, <1>3
  <2>2. \A i \in 1 .. next - first : first + i - 1 \in 0 .. MaxRecords
    BY <1>1, LogAssumption DEF TypeOK
  <2>3. Since(want) \in Seq(0 .. MaxRecords) /\ Len(Since(want)) = next - first
    <3>1. Since(want) \in [1 .. next - first -> 0 .. MaxRecords]
      BY <1>2, <2>2
    <3>2. QED
      BY <2>1, <3>1, RunFacts
  <2>4. first = next - Len(Since(want))
    BY <1>1, <2>3
  <2>5. \A i \in 1 .. Len(Since(want)) : Since(want)[i] = first + i - 1
    BY <1>2, <2>3
  <2>6. QED
    BY <1>1, <2>3, <2>4, <2>5
<1>4. CASE next < first
  <2>1. Since(want) = <<>>
    <3>1. 1 .. next - first = {}
      BY <1>1, <1>4
    <3>2. QED
      BY <1>2, <3>1
  <2>2. ~(want <= next)
    BY <1>1, <1>4 DEF first
  <2>3. QED
    BY <2>1, <2>2
<1>5. QED
  BY <1>1, <1>3, <1>4

-----------------------------------------------------------------------------
(* The numbers the variables are, when they are in their types.            *)
LEMMA Ranges ==
  ASSUME TypeOK
  PROVE  /\ next \in Nat /\ session \in Nat /\ want \in Nat /\ cursor \in Nat
         /\ last \in Int /\ last >= -1 /\ held \in Int /\ held >= -1
         /\ drop.n \in Nat /\ drop.from \in Int /\ drop.upto \in Int
         /\ Len(calls) \in Nat /\ Len(q) \in Nat /\ Len(backlog) \in Nat /\ Len(got) \in Nat
         /\ \A i \in 1 .. Len(calls) : calls[i].seq \in Nat /\ calls[i].to \in Nat \ {0}
         /\ \A j \in 1 .. Len(q) : q[j] \in Nat
         /\ Base \in Int
<1>1. /\ next \in Nat /\ session \in Nat /\ want \in Nat /\ cursor \in Nat
      /\ last \in Int /\ last >= -1 /\ held \in Int /\ held >= -1
  BY LogAssumption DEF TypeOK, None
<1>2. drop.n \in Nat /\ drop.from \in Int /\ drop.upto \in Int
  BY DEF TypeOK, None
<1>3. /\ Len(calls) \in Nat /\ Len(q) \in Nat /\ Len(backlog) \in Nat /\ Len(got) \in Nat
      /\ \A j \in 1 .. Len(q) : q[j] \in Nat
  BY LogAssumption, SMTT(30) DEF TypeOK
<1>4. ASSUME NEW i \in 1 .. Len(calls)
      PROVE  calls[i].seq \in Nat /\ calls[i].to \in Nat \ {0}
  <2>1. calls[i] \in [seq : 0 .. MaxRecords, to : 1 .. MaxSessions]
    BY ElementOfSeq DEF TypeOK
  <2>2. QED
    BY <2>1, LogAssumption
<1>5. Base \in Int
  BY <1>1 DEF Base
<1>6. QED
  BY <1>1, <1>2, <1>3, <1>4, <1>5

(* The set of a sequence, taken apart at its head.                          *)
LEMMA SetFacts ==
  ASSUME NEW S, NEW s \in Seq(S)
  PROVE  /\ \A x \in ToSet(s) : \E i \in 1 .. Len(s) : x = s[i]
         /\ \A i \in 1 .. Len(s) : s[i] \in ToSet(s)
         /\ s # <<>> => ToSet(s) = {Head(s)} \cup ToSet(Tail(s))
<1>1. DOMAIN s = 1 .. Len(s)
  OBVIOUS
<1>2. /\ \A x \in ToSet(s) : \E i \in 1 .. Len(s) : x = s[i]
      /\ \A i \in 1 .. Len(s) : s[i] \in ToSet(s)
  BY <1>1 DEF ToSet
<1>3. ASSUME s # <<>> PROVE ToSet(s) = {Head(s)} \cup ToSet(Tail(s))
  <2>1. /\ Head(s) = s[1] /\ Len(s) >= 1 /\ Len(Tail(s)) = Len(s) - 1
        /\ \A i \in 1 .. Len(Tail(s)) : Tail(s)[i] = s[i + 1]
        /\ DOMAIN Tail(s) = 1 .. Len(s) - 1 /\ Len(s) \in Nat
    BY <1>3, TailFacts
  <2>2. ToSet(s) = {s[i] : i \in 1 .. Len(s)} /\ ToSet(Tail(s)) = {s[i + 1] : i \in 1 .. Len(s) - 1}
    BY <1>1, <2>1 DEF ToSet
  <2>3. \A i \in 1 .. Len(s) : i = 1 \/ (i - 1 \in 1 .. Len(s) - 1 /\ (i - 1) + 1 = i)
    BY <2>1
  <2>4. \A i \in 1 .. Len(s) - 1 : i + 1 \in 1 .. Len(s)
    BY <2>1
  <2>5. 1 \in 1 .. Len(s)
    BY <2>1
  <2>6. ASSUME NEW x \in ToSet(s) PROVE x = Head(s) \/ x \in ToSet(Tail(s))
    <3>1. PICK i \in 1 .. Len(s) : x = s[i]
      BY <2>2
    <3>2. CASE i = 1
      BY <2>1, <3>1, <3>2
    <3>3. CASE i # 1
      <4>1. i - 1 \in 1 .. Len(s) - 1 /\ s[(i - 1) + 1] = x
        BY <2>3, <3>1, <3>3
      <4>2. QED
        BY <2>2, <4>1
    <3>4. QED
      BY <3>2, <3>3
  <2>7. Head(s) \in ToSet(s) /\ ToSet(Tail(s)) \subseteq ToSet(s)
    BY <2>1, <2>2, <2>4, <2>5
  <2>8. QED
    BY <2>6, <2>7
<1>4. QED
  BY <1>2, <1>3

(* The loop takes a callback at its end and gives one up at its head.       *)
LEMMA LoopFacts ==
  ASSUME TypeOK, session' = session
  PROVE  /\ calls' = calls => OnLoop' = OnLoop
         /\ \A c \in [seq : 0 .. MaxRecords, to : 1 .. MaxSessions] :
               calls' = Append(calls, c) =>
                   OnLoop' = IF c.to = session THEN OnLoop \cup {c.seq} ELSE OnLoop
         /\ calls # <<>> /\ calls' = Tail(calls) =>
               /\ OnLoop' \subseteq OnLoop
               /\ \A c \in OnLoop : \/ c \in OnLoop'
                                    \/ Head(calls).to = session /\ c = Head(calls).seq
               /\ Head(calls).to = session => Head(calls).seq \in OnLoop
<1> DEFINE R == [seq : 0 .. MaxRecords, to : 1 .. MaxSessions]
<1>0. calls \in Seq(R) /\ Len(calls) \in Nat
  BY DEF TypeOK
<1> HIDE DEF R
<1>1. calls' = calls => OnLoop' = OnLoop
  BY DEF OnLoop
<1>2. ASSUME NEW c \in R, calls' = Append(calls, c)
      PROVE  OnLoop' = IF c.to = session THEN OnLoop \cup {c.seq} ELSE OnLoop
  <2>1. /\ Len(calls') = Len(calls) + 1 /\ calls'[Len(calls) + 1] = c
        /\ \A i \in 1 .. Len(calls) : calls'[i] = calls[i]
    BY <1>0, <1>2, AppendFacts
  <2>2. 1 .. Len(calls) + 1 = (1 .. Len(calls)) \cup {Len(calls) + 1}
    BY <1>0
  <2>3. {j \in 1 .. Len(calls') : calls'[j].to = session} =
           {j \in 1 .. Len(calls) : calls[j].to = session}
             \cup (IF c.to = session THEN {Len(calls) + 1} ELSE {})
    BY <2>1, <2>2
  <2>4. QED
    BY <2>1, <2>3 DEF OnLoop
<1>3. ASSUME calls # <<>>, calls' = Tail(calls)
      PROVE  /\ OnLoop' \subseteq OnLoop
             /\ \A c \in OnLoop : \/ c \in OnLoop'
                                  \/ Head(calls).to = session /\ c = Head(calls).seq
             /\ Head(calls).to = session => Head(calls).seq \in OnLoop
  <2>1. /\ Head(calls) = calls[1] /\ Len(calls) >= 1 /\ Len(calls') = Len(calls) - 1
        /\ \A i \in 1 .. Len(calls') : calls'[i] = calls[i + 1]
    BY <1>0, <1>3, TailFacts
  <2>2. \A i \in 1 .. Len(calls') : i + 1 \in 1 .. Len(calls)
    BY <1>0, <2>1
  <2>3. OnLoop' \subseteq OnLoop
    BY <2>1, <2>2 DEF OnLoop
  <2>4. ASSUME NEW i \in 1 .. Len(calls), calls[i].to = session, i # 1
        PROVE  calls[i].seq \in OnLoop'
    <3>1. i - 1 \in 1 .. Len(calls') /\ (i - 1) + 1 = i
      BY <1>0, <2>1, <2>4
    <3>2. calls'[i - 1] = calls[i]
      BY <2>1, <3>1
    <3>3. QED
      BY <2>4, <3>1, <3>2 DEF OnLoop
  <2>5. 1 \in 1 .. Len(calls)
    BY <1>0, <2>1
  <2>6. QED
    BY SMTT(30), <2>1, <2>3, <2>4, <2>5 DEF OnLoop
<1>4. QED
  BY <1>1, <1>2, <1>3 DEF R

(* The records threads have still to push are set by push and session.     *)
LEMMA UnsentFacts ==
  /\ UNCHANGED <<push, session>> => Unsent' = Unsent
  /\ \A p \in Unsent : \E v \in Writers : push[v] # NoPush /\ push[v].to = session /\ p = push[v].seq
  /\ \A v \in Writers : push[v] # NoPush /\ push[v].to = session => push[v].seq \in Unsent
BY DEF Unsent

(* Every step keeps the variables in their types.                          *)
LEMMA TypeStep == StreamInv /\ [Next]_vars => TypeOK'
<1> SUFFICES ASSUME StreamInv, [Next]_vars PROVE TypeOK'
  OBVIOUS
<1> USE LogAssumption DEF TypeOK, ring, stream, None
<1>0. TypeOK /\ PushesKnown /\ Subscribed /\ LineInRange
  BY DEF StreamInv, LineInv
<1>1. ASSUME NEW w \in Writers, Store(w) PROVE TypeOK'
  <2>1. Unsent \subseteq 0 .. MaxRecords
    <3>1. ASSUME NEW p \in Unsent PROVE p \in 0 .. next - 1
      BY SMTT(30), <1>0, UnsentFacts DEF PushesKnown
    <3>2. QED
      BY <1>0, <3>1
  <2>2. mixed' \subseteq 0 .. MaxRecords
    BY <1>0, <1>1, <2>1 DEF Store
  <2>3. push' \in [Writers -> [seq : None .. MaxRecords, to : 0 .. MaxSessions]]
    BY <1>0, <1>1 DEF Store
  <2>4. next' \in 0 .. MaxRecords
    BY <1>0, <1>1 DEF Store
  <2>5. UNCHANGED <<subs, calls, session, stream, q, drop, got, lost>>
    BY <1>1 DEF Store
  <2>6. QED
    BY <1>0, <2>2, <2>3, <2>4, <2>5
<1>2. ASSUME NEW w \in Writers, FanOut(w) PROVE TypeOK'
  <2>1. push[w] \in [seq : 0 .. MaxRecords, to : 1 .. MaxSessions]
    BY <1>0, <1>2 DEF FanOut, PushesKnown
  <2>2. calls' \in Seq([seq : 0 .. MaxRecords, to : 1 .. MaxSessions])
    BY <1>0, <1>2, <2>1, AppendFacts DEF FanOut
  <2>3. NoPush \in [seq : None .. MaxRecords, to : 0 .. MaxSessions]
    BY DEF NoPush
  <2>4. QED
    BY <1>0, <1>2, <2>2, <2>3 DEF FanOut
<1>3. CASE Connect
  BY <1>0, <1>3 DEF Connect
<1>4. CASE Snapshot
  BY <1>0, <1>4, SinceFacts DEF Snapshot
<1>5. CASE ReplayGap
  <2>1. (IF backlog = <<>> THEN cursor ELSE Head(backlog)) \in 0 .. MaxRecords
    BY <1>0, TailFacts
  <2>2. PICK n \in 0 .. MaxRecords : lost' = lost \cup (want .. n - 1)
    BY <1>5, <2>1 DEF ReplayGap
  <2>3. lost' \subseteq 0 .. MaxRecords
    BY <1>0, <2>2
  <2>4. QED
    BY <1>0, <1>5, <2>3 DEF ReplayGap
<1>6. CASE Replay
  <2>1. Head(backlog) \in 0 .. MaxRecords /\ Head(backlog) + 1 <= MaxRecords
    <3>1. Head(backlog) < cursor
      BY <1>6, <1>0, TailFacts, SMTT(30) DEF StreamInv, BacklogIsContiguous, Replay
    <3>2. QED
      BY <1>0, <1>6, <3>1, TailFacts, SMTT(30) DEF Replay
  <2>2. got' \in Seq(0 .. MaxRecords) /\ backlog' \in Seq(0 .. MaxRecords)
    BY <1>0, <1>6, <2>1, AppendFacts, TailFacts DEF Replay, Receive
  <2>3. want' \in 0 .. MaxRecords
    <3>1. want' = Head(backlog) + 1
      BY <1>6 DEF Replay, Receive
    <3>2. ASSUME NEW k \in 0 .. MaxRecords, k + 1 <= MaxRecords
          PROVE  k + 1 \in 0 .. MaxRecords
      BY <3>2
    <3>3. QED
      BY <2>1, <3>1, <3>2
  <2>4. QED
    BY <1>0, <1>6, <2>2, <2>3 DEF Replay
<1>7. CASE GoLive
  BY <1>0, <1>7 DEF GoLive
<1>8. CASE Put
  <2>1. /\ Head(calls) \in [seq : 0 .. MaxRecords, to : 1 .. MaxSessions]
        /\ calls' \in Seq([seq : 0 .. MaxRecords, to : 1 .. MaxSessions])
    BY <1>0, <1>8, TailFacts DEF Put
  <2>2. ASSUME Len(q) = QueueSize
        PROVE  /\ Append(Tail(q), Head(calls).seq) \in Seq(0 .. MaxRecords)
               /\ Len(Append(Tail(q), Head(calls).seq)) = QueueSize
               /\ Dropped(Head(q)) \in
                     [n : Nat, from : None .. MaxRecords, upto : None .. MaxRecords]
    <3>1. q # <<>>
      BY <2>2, <1>0
    <3>2. /\ Head(q) \in 0 .. MaxRecords /\ Tail(q) \in Seq(0 .. MaxRecords)
          /\ Len(Tail(q)) = QueueSize - 1
      BY <1>0, <2>2, <3>1, TailFacts
    <3>3. Head(calls).seq \in 0 .. MaxRecords
      BY <2>1
    <3>4. /\ Append(Tail(q), Head(calls).seq) \in Seq(0 .. MaxRecords)
          /\ Len(Append(Tail(q), Head(calls).seq)) = Len(Tail(q)) + 1
      BY <3>2, <3>3, AppendFacts
    <3>5. Dropped(Head(q)) \in
            [n : Nat, from : None .. MaxRecords, upto : None .. MaxRecords]
      BY <1>0, <3>2, SMTT(30) DEF Dropped
    <3>6. QED
      BY <3>2, <3>4, <3>5
  <2>3. ASSUME Len(q) # QueueSize
        PROVE  /\ Append(q, Head(calls).seq) \in Seq(0 .. MaxRecords)
               /\ Len(Append(q, Head(calls).seq)) <= QueueSize
    <3>1. Head(calls).seq \in 0 .. MaxRecords
      BY <2>1
    <3>2. /\ Append(q, Head(calls).seq) \in Seq(0 .. MaxRecords)
          /\ Len(Append(q, Head(calls).seq)) = Len(q) + 1
      BY <1>0, <3>1, AppendFacts
    <3>3. QED
      BY <1>0, <2>3, <3>2
  <2>4. /\ q' \in Seq(0 .. MaxRecords) /\ Len(q') <= QueueSize
        /\ drop' \in [n : Nat, from : None .. MaxRecords, upto : None .. MaxRecords]
    BY <1>0, <1>8, <2>2, <2>3 DEF Put
  <2>5. QED
    BY <1>0, <1>8, <2>1, <2>4 DEF Put
<1>9. CASE Take
  <2>1. Head(q) \in 0 .. MaxRecords /\ Tail(q) \in Seq(0 .. MaxRecords) /\ Len(Tail(q)) < Len(q)
    BY <1>0, <1>9, TailFacts, SMTT(30) DEF Take
  <2>2. NoDrop \in [n : Nat, from : None .. MaxRecords, upto : None .. MaxRecords]
    BY DEF NoDrop
  <2>3. drop.n > 0 => (drop.from .. drop.upto) \subseteq 0 .. MaxRecords
    <3>1. drop.n > 0 => drop.from >= cursor
      BY <1>0, <1>9 DEF Take, LineInRange, Drops
    <3>2. QED
      BY <1>0, <3>1
  <2>4. lost' \subseteq 0 .. MaxRecords
    BY <1>0, <1>9, <2>3 DEF Take
  <2>5. /\ q' \in Seq(0 .. MaxRecords) /\ Len(q') <= QueueSize
        /\ drop' \in [n : Nat, from : None .. MaxRecords, upto : None .. MaxRecords]
        /\ held' \in None .. MaxRecords
    <3>1. CASE Head(q) <= last
      BY <1>0, <1>9, <2>1, <3>1 DEF Take
    <3>2. CASE ~(Head(q) <= last)
      <4>1. q' = Tail(q) /\ drop' = NoDrop /\ held' = Head(q)
        BY <1>9, <3>2 DEF Take
      <4>2. QED
        BY <1>0, <2>1, <2>2, <4>1, SMTT(30)
    <3>3. QED
      BY <3>1, <3>2
  <2>6. QED
    BY <1>0, <1>9, <2>4, <2>5 DEF Take
<1>10. CASE Deliver
  <2>1. held \in 0 .. MaxRecords /\ held + 1 <= MaxRecords
    BY <1>0, <1>10 DEF Deliver, LineInRange, Open, Base, Subscribed
  <2>2. got' \in Seq(0 .. MaxRecords)
    BY <1>0, <1>10, <2>1, AppendFacts DEF Deliver, Receive
  <2>3. QED
    BY <1>0, <1>10, <2>1, <2>2 DEF Deliver, Receive
<1>11. CASE Disconnect
  BY <1>0, <1>11 DEF Disconnect, Close, NoDrop
<1>12. CASE Abandon
  BY <1>0, <1>12 DEF Abandon, Close, NoDrop
<1>13. CASE UNCHANGED vars
  BY <1>0, <1>13 DEF vars
<1>14. QED
  BY <1>1, <1>2, <1>3, <1>4, <1>5, <1>6, <1>7, <1>8, <1>9, <1>10, <1>11, <1>12,
     <1>13 DEF Next, Stream

(* What a thread numbers next is newer than all that waits to be pushed,    *)
(* and whatever it overlaps is mixed.                                      *)
LEMMA PushesStep == StreamInv /\ [Next]_vars => PushesKnown'
<1> SUFFICES ASSUME StreamInv, [Next]_vars PROVE PushesKnown'
  OBVIOUS
<1> USE DEF ring, stream
<1>0. TypeOK /\ PushesKnown /\ Subscribed
  BY DEF StreamInv
<1>1. /\ next \in Nat /\ session \in Nat /\ Len(calls) \in Nat
      /\ \A i \in 1 .. Len(calls) : calls[i].to <= session /\ calls[i].to \in Nat
      /\ \A w \in Writers : push[w] # NoPush =>
            push[w].seq \in 0 .. next - 1 /\ push[w].to \in 1 .. session
  BY <1>0, Ranges DEF PushesKnown
(* A step that makes no push and stores nothing.                           *)
<1>a. ASSUME UNCHANGED <<push, session, next, mixed>>, calls' = calls \/ (calls # <<>> /\ calls' = Tail(calls))
      PROVE  PushesKnown'
  <2>1. Unsent' = Unsent
    BY <1>a, UnsentFacts
  <2>2. \A i \in 1 .. Len(calls') : calls'[i].to <= session
    <3>1. CASE calls' = calls
      BY <1>1, <3>1
    <3>2. CASE calls # <<>> /\ calls' = Tail(calls)
      <4>1. /\ Len(calls') = Len(calls) - 1
            /\ \A i \in 1 .. Len(calls') : calls'[i] = calls[i + 1]
        BY <1>0, <3>2, TailFacts DEF TypeOK
      <4>2. \A i \in 1 .. Len(calls') : i + 1 \in 1 .. Len(calls)
        BY <1>1, <4>1
      <4>3. QED
        BY <1>1, <4>1, <4>2
    <3>3. QED
      BY <1>a, <3>1, <3>2
  <2>3. QED
    BY <1>0, <1>a, <2>1, <2>2 DEF PushesKnown
<1>2. ASSUME NEW w \in Writers, Store(w) PROVE PushesKnown'
  <2>1. /\ next' = next + 1 /\ UNCHANGED <<session, calls>>
        /\ push' = IF session \notin subs THEN push
                   ELSE [push EXCEPT ![w] = [seq |-> next, to |-> session]]
        /\ mixed' = IF Unsent = {} THEN mixed ELSE mixed \cup Unsent \cup {next}
    BY <1>2 DEF Store
  <2>2. \A v \in Writers :
           \/ push'[v] = push[v]
           \/ v = w /\ push'[v] = [seq |-> next, to |-> session] /\ session \in subs
    <3>1. CASE session \in subs
      <4>1. push' = [push EXCEPT ![w] = [seq |-> next, to |-> session]]
        BY <2>1, <3>1
      <4>2. QED
        BY <1>0, <3>1, <4>1 DEF TypeOK
    <3>2. CASE session \notin subs
      BY <2>1, <3>2
    <3>3. QED
      BY <3>1, <3>2
  <2>3. session \in subs => session \in 1 .. session
    BY <1>0, <1>1 DEF Subscribed
  <2>4. \A v \in Writers : push'[v] # NoPush =>
            push'[v].seq \in 0 .. next' - 1 /\ push'[v].to \in 1 .. session
    BY <1>1, <2>1, <2>2, <2>3
  <2>5. \A u, v \in Writers : u # v /\ push'[u] # NoPush /\ push'[v] # NoPush =>
            push'[u].seq # push'[v].seq
    BY <1>0, <1>1, <2>2 DEF PushesKnown
  <2>6. ASSUME NEW p \in Unsent', p < next' - 1, NEW k \in p .. next' - 1
        PROVE  k \in mixed'
    <3>1. p \in Unsent /\ p \in 0 .. next - 1
      <4>1. PICK v \in Writers : push'[v] # NoPush /\ push'[v].to = session /\ p = push'[v].seq
        BY <2>1 DEF Unsent
      <4>2. push'[v] = push[v]
        BY <1>1, <2>1, <2>2, <2>6, <4>1
      <4>3. QED
        BY <1>1, <4>1, <4>2, UnsentFacts
    <3>2. mixed' = mixed \cup Unsent \cup {next}
      BY <2>1, <3>1
    <3>3. CASE k = next \/ k = p
      BY <3>1, <3>2, <3>3
    <3>4. CASE k # next /\ k # p
      <4>1. p < next - 1 /\ k \in p .. next - 1
        BY <1>1, <2>1, <2>6, <3>1, <3>4
      <4>2. k \in mixed
        BY <1>0, <3>1, <4>1 DEF PushesKnown
      <4>3. QED
        BY <3>2, <4>2
    <3>5. QED
      BY <3>3, <3>4
  <2>7. QED
    BY <1>1, <2>1, <2>4, <2>5, <2>6 DEF PushesKnown
<1>3. ASSUME NEW w \in Writers, FanOut(w) PROVE PushesKnown'
  <2>1. /\ UNCHANGED <<next, session, mixed>> /\ calls' = Append(calls, push[w])
        /\ push[w] # NoPush /\ \A v \in Writers : push'[v] = IF v = w THEN NoPush ELSE push[v]
    BY <1>0, <1>3 DEF FanOut, TypeOK
  <2>2. Unsent' \subseteq Unsent
    BY <2>1 DEF Unsent
  <2>3. push[w] \in [seq : 0 .. MaxRecords, to : 1 .. MaxSessions]
    BY <1>0, <1>1, <2>1, LogAssumption DEF TypeOK
  <2>4. /\ Len(calls') = Len(calls) + 1 /\ calls'[Len(calls) + 1] = push[w]
        /\ \A i \in 1 .. Len(calls) : calls'[i] = calls[i]
    BY <1>0, <2>1, <2>3, AppendFacts DEF TypeOK
  <2>5. \A i \in 1 .. Len(calls') : calls'[i].to <= session
    BY <1>1, <2>1, <2>4
  <2>6. \A p \in Unsent' : p < next - 1 => p .. next - 1 \subseteq mixed
    BY <1>0, <2>2 DEF PushesKnown
  <2>7. QED
    BY <1>0, <1>1, <2>1, <2>5, <2>6 DEF PushesKnown
<1>4. CASE Connect
  <2>1. UNCHANGED <<next, push, calls, mixed>> /\ session' = session + 1
    BY <1>4 DEF Connect
  <2>2. Unsent' = {}
    BY <1>1, <2>1 DEF Unsent
  <2>3. QED
    BY <1>0, <1>1, <2>1, <2>2 DEF PushesKnown
<1>5. CASE Put
  BY <1>5, <1>a DEF Put
<1>6. CASE Snapshot \/ ReplayGap \/ Replay \/ GoLive \/ Take \/ Deliver
  BY <1>6, <1>a DEF Snapshot, ReplayGap, Replay, GoLive, Take, Deliver
<1>7. CASE Disconnect \/ Abandon
  BY <1>7, <1>a DEF Disconnect, Abandon, Close
<1>8. CASE UNCHANGED vars
  BY <1>8, <1>a DEF vars
<1>9. QED
  BY <1>2, <1>3, <1>4, <1>5, <1>6, <1>7, <1>8 DEF Next, Stream

(* subscribe() precedes the snapshot, and what a connection leaves behind is *)
(* cleared by Disconnect and Abandon.                                       *)
LEMMA SubscribedStep == StreamInv /\ [Next]_vars => Subscribed'
<1> SUFFICES ASSUME StreamInv, [Next]_vars PROVE Subscribed'
  OBVIOUS
<1> USE DEF Subscribed, Open, ring, stream, TypeOK, None
<1>0. TypeOK /\ Subscribed
  BY DEF StreamInv
<1>1. ASSUME NEW w \in Writers, Store(w) PROVE Subscribed'
  BY <1>0, <1>1 DEF Store
<1>2. ASSUME NEW w \in Writers, FanOut(w) PROVE Subscribed'
  BY <1>0, <1>2 DEF FanOut
<1>3. CASE Connect
  BY <1>0, <1>3 DEF Connect
<1>4. CASE Snapshot
  BY <1>0, <1>4 DEF Snapshot
<1>5. CASE ReplayGap
  BY <1>0, <1>5 DEF ReplayGap
<1>6. CASE Replay
  BY <1>0, <1>6 DEF Replay
<1>7. CASE GoLive
  BY <1>0, <1>7 DEF GoLive
<1>8. CASE Put
  <2>1. ~Open => UNCHANGED <<q, drop>>
    BY <1>0, <1>8 DEF Put
  <2>2. QED
    BY <1>0, <1>8, <2>1 DEF Put
<1>9. CASE Take
  BY <1>0, <1>9 DEF Take
<1>10. CASE Deliver
  BY <1>0, <1>10 DEF Deliver
<1>11. CASE Disconnect
  BY <1>0, <1>11 DEF Disconnect, Close
<1>12. CASE Abandon
  BY <1>0, <1>12 DEF Abandon, Close
<1>13. CASE UNCHANGED vars
  BY <1>0, <1>13 DEF vars
<1>14. QED
  BY <1>1, <1>2, <1>3, <1>4, <1>5, <1>6, <1>7, <1>8, <1>9, <1>10, <1>11, <1>12,
     <1>13 DEF Next, Stream

(* What is left of the snapshot only loses its first record.               *)
LEMMA BacklogStep == StreamInv /\ [Next]_vars => BacklogIsContiguous'
<1> SUFFICES ASSUME StreamInv, [Next]_vars PROVE BacklogIsContiguous'
  OBVIOUS
<1> USE DEF BacklogIsContiguous, ring, stream
<1>0. TypeOK /\ Subscribed /\ BacklogIsContiguous /\ want <= next
  BY DEF StreamInv, AllReported
<1>1. ASSUME NEW w \in Writers, Store(w) PROVE BacklogIsContiguous'
  BY <1>0, <1>1 DEF Store, TypeOK
<1>2. ASSUME NEW w \in Writers, FanOut(w) PROVE BacklogIsContiguous'
  BY <1>0, <1>2 DEF FanOut
<1>3. CASE Connect
  BY <1>3 DEF Connect
<1>4. CASE Snapshot
  <2>1. backlog' = Since(want) /\ cursor' = next /\ next' = next /\ want' = want
    BY <1>4 DEF Snapshot
  <2>2. /\ want <= next - Len(Since(want))
        /\ \A i \in 1 .. Len(Since(want)) :
              Since(want)[i] = next - Len(Since(want)) + i - 1
    BY <1>0, SinceFacts
  <2>3. QED
    BY <1>0, <2>1, <2>2 DEF TypeOK
<1>5. CASE ReplayGap
  BY <1>0, <1>5 DEF ReplayGap
<1>6. CASE Replay
  <2>1. /\ Len(backlog') = Len(backlog) - 1 /\ Head(backlog) = backlog[1]
        /\ \A i \in 1 .. Len(backlog') : backlog'[i] = backlog[i + 1]
        /\ Len(backlog) >= 1
    BY <1>0, <1>6, TailFacts DEF Replay, TypeOK
  <2>2. want' = backlog[1] + 1 /\ cursor' = cursor /\ next' = next /\ at = "replay"
    BY <1>6, <2>1 DEF Replay, Receive
  <2>3. backlog[1] = cursor - Len(backlog)
    BY <1>0, <2>1, <2>2 DEF TypeOK
  <2>4. ASSUME NEW i \in 1 .. Len(backlog')
        PROVE  backlog'[i] = cursor - Len(backlog') + i - 1
    <3>1. i + 1 \in 1 .. Len(backlog) /\ backlog'[i] = backlog[i + 1]
      BY <1>0, <2>1, SMTT(30) DEF TypeOK
    <3>2. backlog[i + 1] = cursor - Len(backlog) + (i + 1) - 1
      BY <1>0, <2>2, <3>1
    <3>3. QED
      BY <1>0, <2>1, <3>1, <3>2 DEF TypeOK
  <2>5. want' <= cursor' - Len(backlog')
    BY <1>0, <2>1, <2>2, <2>3 DEF TypeOK
  <2>6. QED
    BY <1>0, <2>2, <2>4, <2>5
<1>7. CASE GoLive
  BY <1>0, <1>7 DEF GoLive
<1>8. CASE Put
  BY <1>0, <1>8 DEF Put
<1>9. CASE Take
  BY <1>0, <1>9 DEF Take
<1>10. CASE Deliver
  BY <1>0, <1>10 DEF Deliver, Subscribed
<1>11. CASE Disconnect
  BY <1>0, <1>11 DEF Disconnect, Close
<1>12. CASE Abandon
  BY <1>0, <1>12 DEF Abandon, Close
<1>13. CASE UNCHANGED vars
  BY <1>0, <1>13 DEF vars
<1>14. QED
  BY <1>1, <1>2, <1>3, <1>4, <1>5, <1>6, <1>7, <1>8, <1>9, <1>10, <1>11, <1>12,
     <1>13 DEF Next, Stream

-----------------------------------------------------------------------------
(* The line from the threads to the client.  An append that overlaps others *)
(* only takes constraints away.                                            *)
LEMMA BeforeFacts ==
  /\ mixed \subseteq mixed' => \A d, x : Before(d, x) => Before(d, x)'
  /\ mixed' = mixed => \A d, x : Before(d, x) <=> Before(d, x)'
  /\ \A d, x \in Int : d < x => Before(d, x)
  /\ \A d, x \in Nat : Before(d, x) /\ (d \notin mixed \/ x \notin mixed) => d < x
<1>1. \A d, x \in Int : d < x => Before(d, x)
  BY DEF Before
<1>2. ASSUME NEW d \in Nat, NEW x \in Nat, Before(d, x), d \notin mixed \/ x \notin mixed
      PROVE  d < x
  <2>1. CASE d \notin mixed
    BY <1>2, <2>1 DEF Before
  <2>2. CASE x \notin mixed
    <3>1. x <= d => x < x
      BY <1>2, <2>2 DEF Before
    <3>2. QED
      BY <3>1
  <2>3. QED
    BY <1>2, <2>1, <2>2
<1>3. mixed \subseteq mixed' => \A d, x : Before(d, x) => Before(d, x)'
  BY DEF Before
<1>4. mixed' = mixed => \A d, x : Before(d, x) <=> Before(d, x)'
  BY DEF Before
<1>5. QED
  BY <1>1, <1>2, <1>3, <1>4

(* A step that leaves the line and the client's place in it alone.          *)
LEMMA LineQuiet ==
  ASSUME StreamInv, UNCHANGED <<next, push, calls, session, mixed, q, drop>>,
         cursor' = cursor, Open' => Open /\ Base' = Base
  PROVE  LineInv'
<1>1. LineInv /\ TypeOK
  BY DEF StreamInv
<1>2. OnLoop' = OnLoop /\ Unsent' = Unsent /\ ToSet(q)' = ToSet(q) /\ Drops' = Drops
  BY UnsentFacts DEF OnLoop, ToSet, Drops
<1>3. Coming' = Coming
  BY <1>2 DEF Coming
<1>4. LineInOrder'
  BY <1>1, <1>2, <1>3 DEF LineInv, LineInOrder, Before
<1>5. LineInRange'
  BY <1>1, <1>2, <1>3 DEF LineInv, LineInRange
<1>6. LineComplete'
  BY <1>1, <1>2, <1>3 DEF LineInv, LineComplete
<1>7. GapIsExact'
  BY <1>1 DEF LineInv, GapIsExact
<1>8. QED
  BY <1>4, <1>5, <1>6, <1>7 DEF LineInv

(* The queue emptied, or not filled yet.                                    *)
LEMMA LineEmpty ==
  ASSUME StreamInv, UNCHANGED <<next, mixed>>, LineInOrder', q' = <<>>, drop' = NoDrop,
         OnLoop' \cup Unsent' \subseteq Coming, Open' => Base' = next /\ cursor' = next
  PROVE  LineInv'
<1>1. LineInRange /\ next \in Nat
  BY Ranges DEF StreamInv, LineInv
<1>2. ToSet(q') = {} /\ Drops' = {} /\ Coming' \subseteq Coming
  BY DEF ToSet, Drops, NoDrop, Coming
<1>3. \A x \in Coming' : x \in 0 .. next - 1
  BY <1>1, <1>2 DEF LineInRange
<1>4. LineInRange'
  <2>1. drop'.n = 0
    BY DEF NoDrop
  <2>2. QED
    BY <1>1, <1>2, <1>3, <2>1 DEF LineInRange
<1>5. LineComplete'
  BY <1>1 DEF LineComplete
<1>6. GapIsExact'
  BY DEF GapIsExact, NoDrop
<1>7. QED
  BY <1>4, <1>5, <1>6 DEF LineInv

(* A record that is stored stands at the end.                              *)
LEMMA LineStore ==
  ASSUME StreamInv, NEW w \in Writers, Store(w)
  PROVE  LineInv'
<1>0. TypeOK /\ LineInOrder /\ LineInRange /\ LineComplete /\ GapIsExact /\ Subscribed /\ next \in Nat
      /\ cursor \in Nat /\ Base \in Int
  BY Ranges DEF StreamInv, LineInv
<1>1. /\ next' = next + 1 /\ UNCHANGED <<calls, session, q, drop, at, cursor, last, held>>
      /\ push' = IF session \notin subs THEN push
                 ELSE [push EXCEPT ![w] = [seq |-> next, to |-> session]]
      /\ push[w] = NoPush
      /\ mixed \subseteq mixed'
  BY DEF Store, stream
<1>2. OnLoop' = OnLoop /\ ToSet(q)' = ToSet(q) /\ Drops' = Drops /\ Base' = Base /\ Open' = Open
  BY <1>1 DEF OnLoop, ToSet, Drops, Base, Open
<1>3. Unsent' = IF session \in subs THEN Unsent \cup {next} ELSE Unsent
  <2>1. CASE session \in subs
    <3>1. \A v \in Writers : push'[v] = IF v = w THEN [seq |-> next, to |-> session] ELSE push[v]
      BY <1>0, <1>1, <2>1 DEF TypeOK
    <3>2. [seq |-> next, to |-> session] # NoPush
      BY <1>0 DEF NoPush, None
    <3>3. QED
      BY <1>1, <2>1, <3>1, <3>2 DEF Unsent
  <2>2. CASE session \notin subs
    BY <1>1, <2>2 DEF Unsent
  <2>3. QED
    BY <2>1, <2>2
<1>4. Coming \subseteq Coming' /\ Coming' \subseteq Coming \cup {next} /\ (Open => next \in Coming')
  BY <1>0, <1>2, <1>3 DEF Coming, Subscribed, Open
<1>5. \A x \in ToSet(q) \cup Coming \cup Drops : x \in 0 .. next - 1 /\ Before(x, next)'
  BY <1>0, <1>1, BeforeFacts DEF LineInRange
<1>6. LineInOrder'
  <2>1. \A i, j \in 1 .. Len(calls') :
           i < j /\ calls'[i].to = session' /\ calls'[j].to = session' =>
               Before(calls[i].seq, calls[j].seq)'
    BY <1>0, <1>1, BeforeFacts DEF LineInOrder
  <2>2. ASSUME NEW c \in OnLoop', NEW p \in Unsent' PROVE Before(c, p)'
    BY <1>0, <1>1, <1>2, <1>3, <1>5, BeforeFacts DEF LineInOrder, Coming
  <2>3. \A i, j \in 1 .. Len(q') : i < j => Before(q[i], q[j])'
    BY <1>0, <1>1, BeforeFacts DEF LineInOrder
  <2>4. ASSUME NEW x \in ToSet(q)', NEW c \in Coming' PROVE Before(x, c)'
    BY <1>0, <1>1, <1>2, <1>4, <1>5, BeforeFacts DEF LineInOrder
  <2>5. ASSUME NEW d \in Drops', NEW x \in ToSet(q)' \cup Coming' PROVE Before(d, x)'
    BY <1>0, <1>1, <1>2, <1>4, <1>5, BeforeFacts DEF LineInOrder
  <2>6. QED
    BY <1>1, <2>1, <2>2, <2>3, <2>4, <2>5 DEF LineInOrder
<1>7. LineInRange'
  <2>1. \A x \in ToSet(q)' \cup Coming' \cup Drops' : x \in 0 .. next' - 1
    BY <1>0, <1>1, <1>2, <1>4 DEF LineInRange
  <2>2. Open => cursor <= next' /\ Base <= next'
    BY <1>0, <1>1 DEF LineInRange
  <2>3. QED
    BY <1>0, <1>1, <1>2, <1>4, <2>1, <2>2 DEF LineInRange
<1>8. LineComplete'
  <2>1. ASSUME Open, NEW m \in (Base .. next) \ mixed'
        PROVE  m \in ToSet(q) \cup Coming' \/ (drop.n > 0 /\ m \in drop.from .. drop.upto)
    <3>1. CASE m = next
      BY <1>4, <2>1, <3>1
    <3>2. CASE m # next
      <4>1. m \in (Base .. next - 1) \ mixed
        BY <1>0, <1>1, <2>1, <3>2
      <4>2. QED
        BY <1>0, <1>4, <2>1, <4>1 DEF LineComplete
    <3>3. QED
      BY <3>1, <3>2
  <2>2. next' - 1 = next
    BY <1>0, <1>1
  <2>3. QED
    BY <1>1, <1>2, <2>1, <2>2 DEF LineComplete
<1>9. GapIsExact'
  BY <1>0, <1>1 DEF GapIsExact
<1>10. QED
  BY <1>6, <1>7, <1>8, <1>9 DEF LineInv

(* A push moves the newest record the thread has to the end of the loop, or *)
(* one that was overtaken: between it and the newest all are mixed.        *)
LEMMA LineFanOut ==
  ASSUME StreamInv, NEW w \in Writers, FanOut(w)
  PROVE  LineInv'
<1>0. TypeOK /\ LineInOrder /\ LineInRange /\ LineComplete /\ GapIsExact /\ PushesKnown /\ next \in Nat
      /\ Len(calls) \in Nat
  BY Ranges DEF StreamInv, LineInv
<1> DEFINE c == push[w]
<1>1. /\ UNCHANGED <<next, session, mixed, q, drop, at, cursor, last, held>>
      /\ calls' = Append(calls, c) /\ c # NoPush
      /\ \A v \in Writers : push'[v] = IF v = w THEN NoPush ELSE push[v]
  BY <1>0 DEF FanOut, stream, ring, TypeOK
<1>2. c \in [seq : 0 .. MaxRecords, to : 1 .. MaxSessions] /\ c.seq \in 0 .. next - 1
  BY <1>0, <1>1, LogAssumption DEF TypeOK, PushesKnown
<1>3. /\ Len(calls') = Len(calls) + 1 /\ calls'[Len(calls) + 1] = c
      /\ \A i \in 1 .. Len(calls) : calls'[i] = calls[i]
  BY <1>0, <1>1, <1>2, AppendFacts DEF TypeOK
<1>4. OnLoop' = IF c.to = session THEN OnLoop \cup {c.seq} ELSE OnLoop
  BY <1>0, <1>1, <1>2, LoopFacts
<1>5. /\ Unsent' \subseteq Unsent /\ (c.to = session => c.seq \in Unsent)
      /\ \A p \in Unsent : p \in Unsent' \/ (c.to = session /\ p = c.seq)
  BY <1>1 DEF Unsent
<1>6. ASSUME c.to = session, NEW p \in Unsent' PROVE p # c.seq
  <2>1. PICK v \in Writers : push'[v] # NoPush /\ p = push'[v].seq
    BY DEF Unsent
  <2>2. v # w /\ push[v] # NoPush /\ p = push[v].seq
    BY <1>1, <2>1
  <2>3. QED
    BY <1>0, <1>1, <2>2 DEF PushesKnown
<1> HIDE DEF c
<1>7. Coming' = Coming
  BY <1>4, <1>5 DEF Coming
<1>8. ToSet(q)' = ToSet(q) /\ Drops' = Drops /\ Base' = Base /\ Open' = Open
  BY <1>1 DEF ToSet, Drops, Base, Open
<1>9. \A d, x : Before(d, x) <=> Before(d, x)'
  BY <1>1, BeforeFacts
<1>10. ASSUME c.to = session, NEW p \in Unsent' PROVE Before(c.seq, p)
  <2>1. p \in Unsent /\ p \in 0 .. next - 1 /\ p # c.seq
    BY <1>0, <1>5, <1>6, <1>10 DEF LineInRange, Coming
  <2>2. CASE p = next - 1
    <3>1. c.seq < p
      BY <1>0, <1>2, <2>1, <2>2
    <3>2. QED
      BY <1>2, <2>1, <3>1, BeforeFacts
  <2>3. CASE p # next - 1
    <3>1. p .. next - 1 \subseteq mixed
      BY <1>0, <2>1, <2>3 DEF PushesKnown
    <3>2. \A m \in Nat \ mixed : m <= c.seq => m < p
      BY <1>0, <1>2, <2>1, <3>1
    <3>3. QED
      BY <3>2 DEF Before
  <2>4. QED
    BY <2>2, <2>3
<1>11. LineInOrder'
  <2>1. ASSUME NEW i \in 1 .. Len(calls'), NEW j \in 1 .. Len(calls'), i < j,
               calls'[i].to = session, calls'[j].to = session
        PROVE  Before(calls'[i].seq, calls'[j].seq)
    <3>1. i \in 1 .. Len(calls) /\ calls'[i] = calls[i]
      BY <1>0, <1>3, <2>1
    <3>2. CASE j = Len(calls) + 1
      <4>1. calls[i].seq \in OnLoop /\ c.seq \in Unsent
        BY <1>3, <1>5, <2>1, <3>1, <3>2 DEF OnLoop
      <4>2. QED
        BY <1>0, <1>3, <3>1, <3>2, <4>1 DEF LineInOrder
    <3>3. CASE j # Len(calls) + 1
      <4>1. j \in 1 .. Len(calls) /\ calls'[j] = calls[j]
        BY <1>0, <1>3, <2>1, <3>3
      <4>2. QED
        BY <1>0, <2>1, <3>1, <4>1 DEF LineInOrder
    <3>4. QED
      BY <3>2, <3>3
  <2>2. \A x \in OnLoop', p \in Unsent' : Before(x, p)
    BY <1>0, <1>4, <1>5, <1>10 DEF LineInOrder
  <2>3. QED
    BY <1>0, <1>1, <1>7, <1>8, <1>9, <2>1, <2>2 DEF LineInOrder
<1>12. LineInRange'
  BY <1>0, <1>1, <1>7, <1>8 DEF LineInRange
<1>13. LineComplete'
  BY <1>0, <1>1, <1>7, <1>8 DEF LineComplete
<1>14. GapIsExact'
  BY <1>0, <1>1 DEF GapIsExact
<1>15. QED
  BY <1>11, <1>12, <1>13, <1>14 DEF LineInv

(* A callback gives its record to the queue, which drops its oldest one for *)
(* it when it is full.                                                     *)
LEMMA LinePut ==
  ASSUME StreamInv, Put
  PROVE  LineInv'
<1>0. /\ TypeOK /\ LineInOrder /\ LineInRange /\ LineComplete /\ GapIsExact
      /\ next \in Nat /\ Len(calls) \in Nat /\ Len(q) \in Nat /\ cursor \in Nat /\ Base \in Int
      /\ drop.n \in Nat /\ drop.from \in Int /\ drop.upto \in Int
  BY Ranges DEF StreamInv, LineInv
<1> DEFINE h == Head(calls)
           R == 0 .. MaxRecords
<1>1. /\ calls # <<>> /\ at # "subscribed" /\ calls' = Tail(calls)
      /\ UNCHANGED <<next, push, session, mixed, at, cursor, last, held>>
  BY DEF Put, stream, ring
<1>2. /\ h = calls[1] /\ Len(calls) >= 1 /\ Len(calls') = Len(calls) - 1
      /\ h \in [seq : 0 .. MaxRecords, to : 1 .. MaxSessions]
      /\ \A i \in 1 .. Len(calls') : calls'[i] = calls[i + 1] /\ i + 1 \in 1 .. Len(calls)
  <2> DEFINE T == [seq : 0 .. MaxRecords, to : 1 .. MaxSessions]
  <2>1. calls \in Seq(T)
    BY <1>0 DEF TypeOK
  <2> HIDE DEF T
  <2>2. /\ h = calls[1] /\ Len(calls) >= 1 /\ Len(calls') = Len(calls) - 1 /\ h \in T
        /\ \A i \in 1 .. Len(calls') : calls'[i] = calls[i + 1]
    BY <1>1, <2>1, TailFacts
  <2>3. QED
    BY <1>0, <2>2 DEF T
<1>3. /\ OnLoop' \subseteq OnLoop
      /\ \A c \in OnLoop : c \in OnLoop' \/ (h.to = session /\ c = h.seq)
      /\ h.to = session => h.seq \in OnLoop
  BY <1>0, <1>1, LoopFacts
<1>4. Unsent' = Unsent /\ Base' = Base /\ Open' = Open
  BY <1>1, UnsentFacts DEF Base, Open
<1>5. Coming' \subseteq Coming /\ \A c \in Coming : c \in Coming' \/ (h.to = session /\ c = h.seq)
  BY <1>3, <1>4 DEF Coming
<1>6. \A d, x : Before(d, x) <=> Before(d, x)'
  BY <1>1, BeforeFacts
<1>7. /\ \A i, j \in 1 .. Len(calls') :
            i < j /\ calls'[i].to = session /\ calls'[j].to = session =>
                Before(calls'[i].seq, calls'[j].seq)
      /\ \A c \in OnLoop', p \in Unsent' : Before(c, p)
  <2>1. ASSUME NEW i \in 1 .. Len(calls'), NEW j \in 1 .. Len(calls'), i < j,
               calls'[i].to = session, calls'[j].to = session
        PROVE  Before(calls'[i].seq, calls'[j].seq)
    <3>1. i + 1 < j + 1
      BY <2>1
    <3>2. QED
      BY SMTT(30), <1>0, <1>2, <2>1, <3>1 DEF LineInOrder
  <2>2. QED
    BY <1>0, <1>3, <1>4, <2>1 DEF LineInOrder
<1>8. CASE h.to # session \/ at = "none" \/ h.seq < cursor
  <2>1. UNCHANGED <<q, drop>>
    BY <1>8 DEF Put
  <2>2. ToSet(q)' = ToSet(q) /\ Drops' = Drops
    BY <2>1 DEF ToSet, Drops
  <2>3. LineInOrder'
    BY <1>0, <1>1, <1>5, <1>6, <1>7, <2>1, <2>2 DEF LineInOrder
  <2>4. LineInRange'
    BY <1>0, <1>1, <1>4, <1>5, <2>1, <2>2 DEF LineInRange
  <2>5. ASSUME Open, NEW m \in (Base .. next - 1) \ mixed, m \in Coming
        PROVE  m \in Coming'
    BY <1>0, <1>5, <1>8, <2>5 DEF LineInRange, Open
  <2>6. LineComplete'
    BY <1>0, <1>1, <1>4, <2>1, <2>2, <2>5 DEF LineComplete
  <2>7. GapIsExact'
    BY <1>0, <1>1, <2>1 DEF GapIsExact
  <2>8. QED
    BY <2>3, <2>4, <2>6, <2>7 DEF LineInv
<1>9. CASE h.to = session /\ at # "none" /\ h.seq >= cursor
  <2>1. Open /\ h.seq \in OnLoop /\ h.seq \in Coming /\ h.seq \in R
    BY <1>0, <1>1, <1>2, <1>3, <1>9 DEF Open, TypeOK, Coming
  <2>2. \A c \in Coming' : Before(h.seq, c)
    <3>1. ASSUME NEW c \in OnLoop' PROVE Before(h.seq, c)
      <4>1. PICK i \in 1 .. Len(calls') : c = calls'[i].seq /\ calls'[i].to = session
        BY <1>1 DEF OnLoop
      <4>2. i + 1 \in 1 .. Len(calls) /\ c = calls[i + 1].seq /\ calls[i + 1].to = session
        BY <1>2, <4>1
      <4>3. 1 \in 1 .. Len(calls) /\ 1 < i + 1
        BY <1>0, <1>2
      <4>4. QED
        BY <1>0, <1>2, <1>9, <4>2, <4>3 DEF LineInOrder
    <3>2. \A p \in Unsent : Before(h.seq, p)
      BY <1>0, <2>1 DEF LineInOrder
    <3>3. QED
      BY <1>4, <3>1, <3>2 DEF Coming
  (* What is in the queue afterwards: the record, after what is left.      *)
  <2>3. ASSUME NEW r \in Seq(R), q' = Append(r, h.seq), ToSet(r) \subseteq ToSet(q),
               \A i, j \in 1 .. Len(r) : i < j => Before(r[i], r[j])
        PROVE  /\ ToSet(q)' = ToSet(r) \cup {h.seq}
               /\ \A i, j \in 1 .. Len(q') : i < j => Before(q'[i], q'[j])
               /\ \A x \in ToSet(q)', c \in Coming' : Before(x, c)
    <3>0. /\ Len(q') = Len(r) + 1 /\ \A i \in 1 .. Len(r) : q'[i] = r[i]
          /\ q'[Len(r) + 1] = h.seq /\ ToSet(Append(r, h.seq)) = ToSet(r) \cup {h.seq}
          /\ Len(r) \in Nat
      <4> HIDE DEF h, R
      <4>1. QED
        BY <2>1, <2>3, AppendFacts
    <3>1. ToSet(q)' = ToSet(r) \cup {h.seq}
      BY <2>3, <3>0 DEF ToSet
    <3>2. \A x \in ToSet(r) : Before(x, h.seq)
      BY <1>0, <2>1, <2>3 DEF LineInOrder
    <3>3. ASSUME NEW i \in 1 .. Len(q'), NEW j \in 1 .. Len(q'), i < j
          PROVE  Before(q'[i], q'[j])
      <4>1. i \in 1 .. Len(r) /\ q'[i] = r[i] /\ r[i] \in ToSet(r)
        BY <2>3, <3>0, <3>3, SetFacts
      <4>2. CASE j = Len(r) + 1
        BY <3>0, <3>2, <4>1, <4>2
      <4>3. CASE j # Len(r) + 1
        <5>1. j \in 1 .. Len(r) /\ q'[j] = r[j]
          BY <3>0, <3>3, <4>3
        <5>2. QED
          BY <2>3, <3>3, <4>1, <5>1
      <4>4. QED
        BY <4>2, <4>3
    <3>4. \A x \in ToSet(r), c \in Coming' : Before(x, c)
      BY <1>0, <1>5, <2>3 DEF LineInOrder
    <3>5. QED
      BY <2>2, <3>1, <3>3, <3>4
  <2>4. CASE Len(q) # QueueSize
    <3>1. q' = Append(q, h.seq) /\ drop' = drop /\ q \in Seq(R)
      <4>1. ~(h.to # session \/ at = "none" \/ h.seq < cursor)
        BY <1>0, <1>2, <1>9
      <4>2. QED
        BY <1>0, <2>4, <4>1 DEF Put, TypeOK
    <3>2. /\ ToSet(q)' = ToSet(q) \cup {h.seq}
          /\ \A i, j \in 1 .. Len(q') : i < j => Before(q'[i], q'[j])
          /\ \A x \in ToSet(q)', c \in Coming' : Before(x, c)
      <4>1. \A i, j \in 1 .. Len(q) : i < j => Before(q[i], q[j])
        BY <1>0 DEF LineInOrder
      <4> HIDE DEF h, R
      <4>2. QED
        BY <2>3, <3>1, <4>1
    <3>3. Drops' = Drops
      BY <3>1 DEF Drops
    <3>4. LineInOrder'
      <4>1. \A d \in Drops', x \in ToSet(q)' \cup Coming' : Before(d, x)
        BY <1>0, <1>5, <2>1, <3>2, <3>3 DEF LineInOrder
      <4>2. QED
        BY <1>1, <1>6, <1>7, <3>2, <4>1 DEF LineInOrder
    <3>5. LineInRange'
      BY <1>0, <1>1, <1>4, <1>5, <1>9, <2>1, <3>1, <3>2, <3>3 DEF LineInRange
    <3>6. LineComplete'
      BY <1>0, <1>1, <1>4, <1>5, <3>1, <3>2 DEF LineComplete
    <3>7. GapIsExact'
      BY <1>0, <1>1, <3>1 DEF GapIsExact
    <3>8. QED
      BY <3>4, <3>5, <3>6, <3>7 DEF LineInv
  <2>5. CASE Len(q) = QueueSize
    <3> DEFINE d == Head(q)
    <3>1. q # <<>> /\ q \in Seq(R)
      BY <1>0, <2>5, LogAssumption DEF TypeOK
    <3>2. /\ d = q[1] /\ d \in R /\ Len(q) >= 1 /\ Tail(q) \in Seq(R) /\ Len(Tail(q)) = Len(q) - 1
          /\ \A i \in 1 .. Len(Tail(q)) : Tail(q)[i] = q[i + 1]
          /\ ToSet(q) = {d} \cup ToSet(Tail(q))
      <4> HIDE DEF R
      <4>1. QED
        BY <3>1, TailFacts, SetFacts
    <3>3. q' = Append(Tail(q), h.seq) /\ drop' = Dropped(d)
      <4>1. ~(h.to # session \/ at = "none" \/ h.seq < cursor)
        BY <1>0, <1>2, <1>9
      <4>2. QED
        BY <2>5, <4>1 DEF Put
    <3>4. \A i, j \in 1 .. Len(Tail(q)) : i < j => Before(Tail(q)[i], Tail(q)[j])
      <4>1. ASSUME NEW i \in 1 .. Len(Tail(q)), NEW j \in 1 .. Len(Tail(q)), i < j
            PROVE  Before(q[i + 1], q[j + 1])
        <5>1. i + 1 \in 1 .. Len(q) /\ j + 1 \in 1 .. Len(q) /\ i + 1 < j + 1
          BY <1>0, <3>2, <4>1
        <5>2. QED
          BY <1>0, <5>1 DEF LineInOrder
      <4>2. QED
        BY <3>2, <4>1
    <3>5. /\ ToSet(q)' = ToSet(Tail(q)) \cup {h.seq}
          /\ \A i, j \in 1 .. Len(q') : i < j => Before(q'[i], q'[j])
          /\ \A x \in ToSet(q)', c \in Coming' : Before(x, c)
      <4> HIDE DEF h, R
      <4>1. QED
        BY <2>3, <3>2, <3>3, <3>4
    <3>6. \A x \in ToSet(Tail(q)) \cup Coming : Before(d, x)
      <4>1. ASSUME NEW x \in ToSet(Tail(q)) PROVE Before(d, x)
        <5>1. PICK i \in 1 .. Len(Tail(q)) : x = Tail(q)[i]
          BY <3>2, SetFacts
        <5>2. i + 1 \in 1 .. Len(q) /\ 1 \in 1 .. Len(q) /\ 1 < i + 1 /\ x = q[i + 1]
          BY <1>0, <3>2, <5>1
        <5>3. QED
          BY <1>0, <3>2, <5>2 DEF LineInOrder
      <4>2. \A x \in Coming : Before(d, x)
        BY <1>0, <3>2 DEF LineInOrder
      <4>3. QED
        BY <4>1, <4>2
    <3>7. /\ drop'.n = drop.n + 1 /\ drop'.upto = d
          /\ drop.n = 0 => drop'.from = d
          /\ drop.n > 0 => drop'.from = drop.from /\ drop.from >= 0 /\ drop.from \in Drops
          /\ drop.n > 0 => drop.upto \in Drops
      <4>1. drop.n = 0 => drop.from = None
        BY <1>0 DEF LineInRange, NoDrop
      <4>2. drop.n > 0 => drop.from \in Drops /\ drop.upto \in Drops
        BY DEF Drops
      <4>3. drop.n > 0 => drop.from >= 0
        BY <1>0, <4>2 DEF LineInRange
      <4>4. QED
        BY <1>0, <3>3, <4>1, <4>2, <4>3 DEF Dropped, None
    <3>8. Drops' = {drop'.from, d} /\ Drops' \subseteq Drops \cup {d}
      BY <1>0, <3>7 DEF Drops
    <3>9. d \in 0 .. next - 1 /\ d >= cursor /\ (d \notin mixed => d >= Base)
      BY <1>0, <2>1, <3>2 DEF LineInRange
    <3> HIDE DEF d
    <3>10. LineInOrder'
      <4>1. \A e \in Drops', x \in ToSet(q)' \cup Coming' : Before(e, x)
        BY <1>0, <1>5, <2>1, <3>2, <3>5, <3>6, <3>8 DEF LineInOrder
      <4>2. QED
        BY <1>1, <1>6, <1>7, <3>5, <4>1 DEF LineInOrder
    <3>11. LineInRange'
      <4>1. \A x \in ToSet(q)' \cup Coming' \cup Drops' : x \in ToSet(q) \cup Coming \cup Drops
        BY <1>5, <2>1, <3>2, <3>5, <3>8
      <4>2. \A x \in ToSet(q)' \cup Drops' : x >= cursor
        BY <1>0, <1>9, <3>2, <3>5, <3>8, <3>9 DEF LineInRange
      <4>3. drop'.n # 0
        BY <1>0, <3>7
      <4>4. QED
        BY <1>0, <1>1, <1>4, <4>1, <4>2, <4>3 DEF LineInRange
    <3>12. LineComplete'
      <4>1. ASSUME NEW m \in (Base .. next - 1) \ mixed
            PROVE  m \in ToSet(q)' \cup Coming' \/ m \in drop'.from .. drop'.upto
        <5>1. m \in Nat
          BY <1>0, <2>1, <4>1 DEF LineInRange
        <5>2. CASE m \in Coming
          BY <1>5, <3>5, <5>2
        <5>3. CASE m \in ToSet(Tail(q))
          BY <3>5, <5>3
        <5>4. CASE m = d
          <6>1. CASE drop.n = 0
            BY <1>0, <3>7, <3>9, <5>4, <6>1
          <6>2. CASE drop.n > 0
            <7>1. Before(drop.from, d)
              BY <1>0, <3>2, <3>7, <6>2 DEF LineInOrder
            <7>2. drop.from < d
              BY <1>0, <3>7, <3>9, <4>1, <5>4, <6>2, <7>1, BeforeFacts
            <7>3. QED
              BY <1>0, <3>7, <3>9, <5>4, <6>2, <7>2
          <6>3. QED
            BY <1>0, <6>1, <6>2
        <5>5. CASE drop.n > 0 /\ m \in drop.from .. drop.upto
          <6>1. Before(drop.upto, d)
            BY <1>0, <3>2, <3>7, <5>5 DEF LineInOrder
          <6>2. m < d
            BY <1>0, <4>1, <5>1, <5>5, <6>1 DEF Before
          <6>3. QED
            BY <1>0, <3>7, <3>9, <5>5, <6>2
        <5>6. QED
          BY <1>0, <2>1, <3>2, <4>1, <5>2, <5>3, <5>4, <5>5 DEF LineComplete
      <4>2. drop'.n > 0
        BY <1>0, <3>7
      <4>3. QED
        BY <1>1, <1>4, <4>1, <4>2 DEF LineComplete
    <3>13. GapIsExact'
      <4>1. SUFFICES ASSUME ({drop'.from} \cup (drop'.from .. d)) \cap mixed = {}
                     PROVE  drop'.n = d - drop'.from + 1
        BY <1>1, <3>7 DEF GapIsExact
      <4>2. CASE drop.n = 0
        BY <3>7, <3>9, <4>2
      <4>3. CASE drop.n > 0
        <5> DEFINE f == drop.from
                   u == drop.upto
        <5>1. /\ Before(f, d) /\ Before(u, d) /\ f \in Nat /\ u \in Nat /\ f \notin mixed
              /\ drop'.from = f
          BY <1>0, <3>2, <3>7, <4>1, <4>3 DEF LineInOrder, LineInRange
        <5>2. f < d
          BY <3>9, <5>1, BeforeFacts
        <5>3. d \notin mixed
          BY <3>9, <4>1, <5>1, <5>2
        <5>4. u < d
          BY <3>9, <5>1, <5>3, BeforeFacts
        <5>5. drop.n = u - f + 1
          <6>1. \A m \in f .. u : m \in f .. d
            BY <3>9, <5>1, <5>4
          <6>2. ({f} \cup (f .. u)) \cap mixed = {}
            BY <4>1, <5>1, <6>1
          <6>3. QED
            BY <1>0, <4>3, <6>2 DEF GapIsExact
        <5>6. u >= f /\ u >= Base
          <6>1. u >= f
            BY <1>0, <4>3, <5>1, <5>5
          <6>2. u \in f .. d /\ u \notin mixed
            BY <3>9, <4>1, <5>1, <5>4, <6>1
          <6>3. QED
            BY <1>0, <2>1, <3>7, <4>3, <6>1, <6>2 DEF LineInRange
        <5>7. ASSUME u + 1 < d PROVE FALSE
          <6>1. u + 1 \in (Base .. next - 1) \ mixed /\ u + 1 \in Nat
            BY <1>0, <3>9, <4>1, <5>1, <5>6, <5>7
          <6>2. u + 1 \in ToSet(q) \cup Coming /\ u + 1 # d
            BY <1>0, <2>1, <5>1, <5>7, <6>1 DEF LineComplete
          <6>3. Before(d, u + 1)
            BY <3>2, <3>6, <6>2
          <6>4. d < u + 1
            BY <3>9, <5>3, <6>1, <6>3, BeforeFacts
          <6>5. QED
            BY <3>9, <5>1, <5>7, <6>4
        <5>8. d = u + 1
          BY <3>9, <5>1, <5>4, <5>7
        <5>9. QED
          BY <1>0, <3>7, <5>1, <5>5, <5>8
      <4>4. QED
        BY <1>0, <4>2, <4>3
    <3>14. QED
      BY <3>10, <3>11, <3>12, <3>13 DEF LineInv
  <2>6. QED
    BY <2>4, <2>5
<1>10. QED
  BY <1>0, <1>2, <1>8, <1>9

(* What is in the queue behind its head, and behind the queue, is later.    *)
LEMMA HeadFirst ==
  ASSUME TypeOK, LineInOrder, q # <<>>
  PROVE  /\ ToSet(q) = {Head(q)} \cup ToSet(Tail(q))
         /\ \A x \in ToSet(Tail(q)) \cup Coming : Before(Head(q), x)
<1> DEFINE R == 0 .. MaxRecords
<1>1. q \in Seq(R)
  BY DEF TypeOK
<1> HIDE DEF R
<1>2. /\ Head(q) = q[1] /\ Len(q) \in Nat /\ Len(q) >= 1
      /\ Tail(q) \in Seq(R) /\ Len(Tail(q)) = Len(q) - 1
      /\ \A i \in 1 .. Len(Tail(q)) : Tail(q)[i] = q[i + 1]
      /\ ToSet(q) = {Head(q)} \cup ToSet(Tail(q)) /\ Head(q) \in ToSet(q)
  BY <1>1, TailFacts, SetFacts
<1>3. ASSUME NEW x \in ToSet(Tail(q)) PROVE Before(Head(q), x)
  <2>1. PICK i \in 1 .. Len(Tail(q)) : x = Tail(q)[i]
    BY <1>2, SetFacts
  <2>2. i + 1 \in 1 .. Len(q) /\ 1 \in 1 .. Len(q) /\ 1 < i + 1 /\ x = q[i + 1]
    BY <1>2, <2>1
  <2>3. QED
    BY <1>2, <2>2 DEF LineInOrder
<1>4. QED
  BY <1>2, <1>3 DEF LineInOrder

(* What the generator takes is later than all it has taken, unless it was   *)
(* overtaken, and what was dropped before it is announced with it.          *)
LEMMA LineTake ==
  ASSUME StreamInv, Take
  PROVE  LineInv'
<1>0. /\ TypeOK /\ LineInv /\ LineInOrder /\ LineInRange /\ LineComplete /\ GapIsExact
      /\ next \in Nat /\ Len(q) \in Nat /\ cursor \in Nat /\ Base \in Int /\ last \in Int
      /\ drop.n \in Nat /\ drop.from \in Int /\ drop.upto \in Int
  BY Ranges DEF StreamInv, LineInv
<1> DEFINE n == Head(q)
<1>1. /\ at = "live" /\ held = None /\ q # <<>> /\ q' = Tail(q)
      /\ UNCHANGED <<next, push, calls, session, mixed, at, cursor, last>>
      /\ Base = last + 1 /\ Open /\ Open'
  BY DEF Take, ring, Base, Open
<1>2. /\ n = q[1] /\ Len(q) >= 1 /\ Len(q') = Len(q) - 1 /\ n \in ToSet(q)
      /\ ToSet(q) = {n} \cup ToSet(q') /\ ToSet(q)' = ToSet(q')
      /\ \A i \in 1 .. Len(q') : q'[i] = q[i + 1]
  <2> DEFINE R == 0 .. MaxRecords
  <2>1. q \in Seq(R) /\ Head(q) = n
    BY <1>0 DEF TypeOK
  <2> HIDE DEF R, n
  <2>2. /\ n = q[1] /\ Len(q) >= 1 /\ Len(Tail(q)) = Len(q) - 1 /\ n \in ToSet(q)
        /\ ToSet(q) = {n} \cup ToSet(Tail(q))
        /\ \A i \in 1 .. Len(Tail(q)) : Tail(q)[i] = q[i + 1]
    <3>1. q # <<>>
      BY <1>1
    <3>2. QED
      BY <1>0, <2>1, <3>1, TailFacts, SetFacts
  <2>3. ToSet(q)' = ToSet(q')
    BY DEF ToSet
  <2>4. QED
    BY <1>1, <2>2, <2>3
<1>3. OnLoop' = OnLoop /\ Unsent' = Unsent /\ Coming' = Coming
  BY <1>1, UnsentFacts DEF OnLoop, Coming
<1>4. \A d, x : Before(d, x) <=> Before(d, x)'
  BY <1>1, BeforeFacts
<1>5. \A x \in ToSet(q') \cup Coming : Before(n, x)
  BY <1>0, <1>1, HeadFirst
<1>6. n \in 0 .. next - 1 /\ n >= cursor
  BY <1>0, <1>2 DEF LineInRange
<1> HIDE DEF n
<1>7. /\ \A i, j \in 1 .. Len(q') : i < j => Before(q'[i], q'[j])
      /\ ToSet(q') \subseteq ToSet(q)
  <2>1. ASSUME NEW i \in 1 .. Len(q'), NEW j \in 1 .. Len(q'), i < j
        PROVE  Before(q'[i], q'[j])
    <3>1. i + 1 \in 1 .. Len(q) /\ j + 1 \in 1 .. Len(q) /\ i + 1 < j + 1
      BY <1>0, <1>2, <2>1
    <3>2. QED
      BY <1>0, <1>2, <2>1, <3>1 DEF LineInOrder
  <2>2. QED
    BY <1>2, <2>1
<1>8. ASSUME Drops' \subseteq Drops PROVE LineInOrder'
  BY <1>0, <1>1, <1>2, <1>3, <1>4, <1>7, <1>8 DEF LineInOrder
<1>9. CASE n <= last
  <2>1. UNCHANGED <<held, drop>>
    BY <1>9 DEF Take, n
  <2>2. Base' = Base /\ Drops' = Drops
    BY <1>1, <2>1 DEF Base, Drops
  <2>3. LineInOrder'
    BY <1>8, <2>2
  <2>4. LineInRange'
    BY <1>0, <1>1, <1>2, <1>3, <1>7, <2>1, <2>2 DEF LineInRange
  <2>5. LineComplete'
    <3>1. \A m \in (Base .. next - 1) \ mixed : m # n
      BY <1>0, <1>1, <1>6, <1>9
    <3>2. QED
      BY <1>0, <1>1, <1>2, <1>3, <2>1, <2>2, <3>1 DEF LineComplete
  <2>6. GapIsExact'
    BY <1>0, <1>1, <2>1 DEF GapIsExact
  <2>7. QED
    BY <2>3, <2>4, <2>5, <2>6 DEF LineInv
<1>10. CASE ~(n <= last)
  <2>1. held' = n /\ drop' = NoDrop
    BY <1>10 DEF Take, n
  <2>2. Base' = n + 1 /\ Drops' = {}
    BY <1>1, <1>6, <2>1 DEF Base, Drops, NoDrop, None
  <2>3. LineInOrder'
    BY <1>8, <2>2
  <2>4. LineInRange'
    <3>1. ASSUME NEW x \in ToSet(q') \cup Coming, x >= cursor, x \notin mixed
          PROVE  x >= n + 1
      <4>1. x \in 0 .. next - 1 /\ x >= Base
        BY <1>0, <1>1, <1>7, <3>1 DEF LineInRange
      <4>2. Before(n, x) /\ x \in Nat
        BY <1>0, <1>5, <4>1
      <4>3. ~(x <= n)
        BY <3>1, <4>2 DEF Before
      <4>4. QED
        BY <1>0, <1>6, <4>1, <4>3
    <3>2. drop'.n = 0
      BY <2>1 DEF NoDrop
    <3>3. QED
      BY <1>0, <1>1, <1>2, <1>3, <1>6, <1>7, <2>1, <2>2, <3>1, <3>2 DEF LineInRange
  <2>5. LineComplete'
    <3>1. ASSUME NEW m \in (n + 1 .. next - 1) \ mixed
          PROVE  m \in ToSet(q') \cup Coming
      <4>1. m \in (Base .. next - 1) \ mixed /\ m \in Nat /\ n < m
        BY <1>0, <1>1, <1>6, <1>10, <3>1
      <4>2. CASE m \in ToSet(q) \cup Coming
        BY <1>2, <4>1, <4>2, <1>6
      <4>3. CASE drop.n > 0 /\ m \in drop.from .. drop.upto
        <5>1. Before(drop.upto, n)
          BY <1>0, <1>2, <4>3 DEF LineInOrder, Drops
        <5>2. m < n
          BY <1>0, <4>1, <4>3, <5>1 DEF Before
        <5>3. QED
          BY <1>0, <1>6, <4>1, <5>2
      <4>4. QED
        BY <1>0, <1>1, <4>1, <4>2, <4>3 DEF LineComplete
    <3>2. QED
      BY <1>1, <1>2, <1>3, <2>2, <3>1 DEF LineComplete
  <2>6. GapIsExact'
    BY <2>1 DEF GapIsExact, NoDrop
  <2>7. QED
    BY <2>3, <2>4, <2>5, <2>6 DEF LineInv
<1>11. QED
  BY <1>9, <1>10

(* What a receive adds is newer than all the client has.                   *)
LEMMA ReceiveFacts ==
  ASSUME TypeOK, AllReported, NEW n \in 0 .. MaxRecords, want <= n, Receive(n)
  PROVE  /\ InOrder' /\ \A i \in 1 .. Len(got') : got'[i] < want'
         /\ want' = n + 1 /\ ToSet(got') = ToSet(got) \cup {n}
<1>1. /\ Len(got') = Len(got) + 1 /\ got'[Len(got) + 1] = n
      /\ \A i \in 1 .. Len(got) : got'[i] = got[i]
      /\ ToSet(got') = ToSet(got) \cup {n} /\ want' = n + 1
  <2> DEFINE R == 0 .. MaxRecords
  <2>1. got \in Seq(R) /\ n \in R
    BY DEF TypeOK
  <2> HIDE DEF R
  <2>2. got' = Append(got, n) /\ want' = n + 1
    BY DEF Receive
  <2>3. /\ Len(Append(got, n)) = Len(got) + 1 /\ Append(got, n)[Len(got) + 1] = n
        /\ \A i \in 1 .. Len(got) : Append(got, n)[i] = got[i]
        /\ ToSet(Append(got, n)) = ToSet(got) \cup {n}
    BY <2>1, AppendFacts
  <2>4. ToSet(got') = ToSet(Append(got, n))
    BY <2>2 DEF ToSet
  <2>5. QED
    BY <2>2, <2>3, <2>4
<1>2. \A i \in 1 .. Len(got) : got[i] \in Nat /\ got[i] < want
  <2>1. \A i \in 1 .. Len(got) : got[i] \in 0 .. MaxRecords
    BY ElementOfSeq DEF TypeOK
  <2>2. QED
    BY <2>1, LogAssumption DEF AllReported
<1>3. /\ want \in Nat /\ Len(got) \in Nat /\ n \in Nat
  BY Ranges, LogAssumption
<1>4. \A i \in 1 .. Len(got') : i = Len(got) + 1 \/ i \in 1 .. Len(got)
  BY <1>1, <1>3
<1>5. \A i \in 1 .. Len(got) : got[i] < n
  BY <1>2, <1>3
<1>6. \A i \in 1 .. Len(got') : got'[i] < want'
  BY <1>1, <1>2, <1>3, <1>4, <1>5
<1>7. ASSUME NEW i \in 1 .. Len(got'), NEW j \in 1 .. Len(got'), i < j
      PROVE  got'[i] < got'[j]
  <2>1. i \in 1 .. Len(got)
    BY <1>1, <1>3, <1>7
  <2>2. CASE j = Len(got) + 1
    BY <1>1, <1>5, <2>1, <2>2
  <2>3. CASE j \in 1 .. Len(got)
    <3>1. got[i] < got[j]
      BY <1>7, <2>1, <2>3 DEF AllReported, InOrder
    <3>2. QED
      BY <1>1, <2>1, <2>3, <3>1
  <2>4. QED
    BY <1>4, <2>2, <2>3
<1>8. QED
  BY <1>1, <1>6, <1>7 DEF InOrder

(* Whatever a step does, the records below the client's cursor and below    *)
(* the next one it will be given are accounted for.                        *)
LEMMA ReportedStep == StreamInv /\ [Next]_vars => AllReported'
<1> SUFFICES ASSUME StreamInv, [Next]_vars PROVE AllReported'
  OBVIOUS
<1> USE DEF ring, stream
<1>0. TypeOK /\ Subscribed /\ LineInv /\ BacklogIsContiguous /\ AllReported
  BY DEF StreamInv
<1>1. /\ next \in Nat /\ want \in Nat /\ cursor \in Nat /\ last \in Int /\ held \in Int
      /\ Len(backlog) \in Nat /\ Len(q) \in Nat /\ drop.n \in Nat /\ Base \in Int
  BY <1>0, Ranges
<1>2. /\ want <= Known /\ want <= next /\ InOrder
      /\ \A i \in 1 .. Len(got) : got[i] < want
      /\ \A m \in 0 .. Known - 1 : m \in ToSet(got) \cup lost \cup mixed
  BY <1>0 DEF AllReported
<1>3. Known \in Int
  BY <1>1 DEF Known
(* A step that moves no record to or past the client.                      *)
<1>a. ASSUME UNCHANGED <<want, got, lost>>, mixed \subseteq mixed', next' \in {next, next + 1},
             Known' = Known \/ Known' = want
      PROVE  AllReported'
  <2>1. InOrder' /\ ToSet(got') = ToSet(got)
    BY <1>2, <1>a DEF InOrder
  <2>2. want <= next'
    BY <1>1, <1>2, <1>a
  <2>3. want <= Known' /\ Known' <= Known
    BY <1>1, <1>2, <1>3, <1>a
  <2>4. \A m \in 0 .. Known' - 1 : m \in 0 .. Known - 1
    BY <1>1, <1>3, <1>a, <2>3
  <2>5. \A m \in 0 .. Known' - 1 : m \in ToSet(got') \cup lost' \cup mixed'
    BY <1>2, <1>a, <2>1, <2>4
  <2>6. QED
    BY <1>2, <1>a, <2>1, <2>2, <2>3, <2>5 DEF AllReported
(* A step in which the client receives the next record.                    *)
<1>b. ASSUME Receive(Known), Known \in 0 .. MaxRecords, Known' = Known + 1, Known + 1 <= next,
             next' = next, lost' = lost, mixed' = mixed
      PROVE  AllReported'
  <2>1. /\ InOrder' /\ \A i \in 1 .. Len(got') : got'[i] < want'
        /\ want' = Known + 1 /\ ToSet(got') = ToSet(got) \cup {Known}
    BY <1>0, <1>2, <1>b, ReceiveFacts
  <2>2. \A m \in 0 .. Known' - 1 : m = Known \/ m \in 0 .. Known - 1
    BY <1>3, <1>b
  <2>3. \A m \in 0 .. Known' - 1 : m \in ToSet(got') \cup lost' \cup mixed'
    BY <1>2, <1>b, <2>1, <2>2
  <2>4. want' <= Known' /\ want' <= next'
    BY <1>3, <1>b, <2>1
  <2>5. QED
    BY <2>1, <2>3, <2>4 DEF AllReported
(* A step in which the client is told of the records up to the next one.   *)
<1>c. ASSUME UNCHANGED <<want, got, next, mixed>>, Known' \in Int, Known <= Known',
             lost \subseteq lost', \A m \in Int : Known <= m /\ m < Known' => m \in lost' \cup mixed
      PROVE  AllReported'
  <2>1. InOrder' /\ ToSet(got') = ToSet(got)
    BY <1>2, <1>c DEF InOrder
  <2>2. \A m \in 0 .. Known' - 1 : m \in 0 .. Known - 1 \/ (m \in Int /\ Known <= m /\ m < Known')
    <3>1. Known \in Int /\ Known' \in Int
      BY <1>3, <1>c
    <3>2. ASSUME NEW k \in Int, NEW l \in Int
          PROVE  \A m \in 0 .. l - 1 : m \in 0 .. k - 1 \/ (m \in Int /\ k <= m /\ m < l)
      OBVIOUS
    <3>3. QED
      BY <3>1, <3>2
  <2>3. \A m \in 0 .. Known' - 1 : m \in ToSet(got') \cup lost' \cup mixed'
    BY <1>2, <1>c, <2>1, <2>2
  <2>4. want' <= Known' /\ want' <= next'
    BY <1>1, <1>2, <1>3, <1>c
  <2>5. QED
    BY <1>2, <1>c, <2>1, <2>3, <2>4 DEF AllReported
<1>4. ASSUME NEW w \in Writers, Store(w) PROVE AllReported'
  <2>1. /\ UNCHANGED <<want, got, lost, at, cursor, backlog, held, last>>
        /\ next' = next + 1 /\ mixed \subseteq mixed'
    BY <1>4 DEF Store
  <2>2. Known' = Known
    BY <2>1 DEF Known
  <2>3. QED
    BY <1>1, <1>a, <2>1, <2>2
<1>5. ASSUME NEW w \in Writers, FanOut(w) PROVE AllReported'
  <2>1. UNCHANGED <<want, got, lost, at, cursor, backlog, held, last, next, mixed>>
    BY <1>5 DEF FanOut
  <2>2. Known' = Known
    BY <2>1 DEF Known
  <2>3. QED
    BY <1>1, <1>a, <2>1, <2>2
<1>6. CASE Connect
  <2>1. UNCHANGED <<want, got, lost, next, mixed>> /\ Known' = want
    BY <1>6 DEF Connect, Known
  <2>2. QED
    BY <1>1, <1>a, <2>1
<1>7. CASE Snapshot
  <2>1. UNCHANGED <<want, got, lost, next, mixed>> /\ Known' = want
    BY <1>7 DEF Snapshot, Known
  <2>2. QED
    BY <1>1, <1>a, <2>1
<1>8. CASE ReplayGap
  <2>1. Known = want /\ Known' = cursor - Len(backlog)
    BY <1>8 DEF ReplayGap, Known
  <2>2. want <= cursor - Len(backlog)
    BY <1>0, <1>8 DEF BacklogIsContiguous, ReplayGap
  <2>3. (IF backlog = <<>> THEN cursor ELSE Head(backlog)) = cursor - Len(backlog)
    <3>1. CASE backlog = <<>>
      BY <1>1, <3>1
    <3>2. CASE backlog # <<>>
      <4>1. Head(backlog) = backlog[1] /\ Len(backlog) >= 1
        BY <1>0, <3>2, TailFacts DEF TypeOK
      <4>2. backlog[1] = cursor - Len(backlog) + 1 - 1
        BY SMTT(30), <1>0, <1>1, <1>8, <4>1 DEF BacklogIsContiguous, ReplayGap
      <4>3. QED
        BY <1>1, <3>2, <4>1, <4>2
    <3>3. QED
      BY <3>1, <3>2
  <2>4. lost' = lost \cup (want .. (cursor - Len(backlog)) - 1)
    BY <1>8, <2>3 DEF ReplayGap
  <2>5. \A m \in Int : Known <= m /\ m < Known' => m \in lost'
    BY <1>1, <2>1, <2>4
  <2>6. UNCHANGED <<want, got, next, mixed>>
    BY <1>8 DEF ReplayGap
  <2>7. Known' \in Int /\ Known <= Known' /\ lost \subseteq lost'
    BY <1>1, <2>1, <2>2, <2>4
  <2>8. QED
    BY <1>c, <2>5, <2>6, <2>7
<1>9. CASE Replay
  <2>1. at = "replay" /\ backlog # <<>> /\ Known = cursor - Len(backlog)
    BY <1>9 DEF Replay, Known
  <2>2. Head(backlog) = backlog[1] /\ Len(backlog) >= 1 /\ Len(Tail(backlog)) = Len(backlog) - 1
    BY <1>0, <2>1, TailFacts DEF TypeOK
  <2>3. /\ backlog[1] = cursor - Len(backlog) + 1 - 1 /\ cursor <= next
    BY <1>0, <1>1, <2>1, <2>2 DEF BacklogIsContiguous
  <2>4. Head(backlog) = Known /\ Known + 1 <= next
    BY <1>1, <2>1, <2>2, <2>3
  <2>5. Known \in 0 .. MaxRecords
    BY <1>0, <2>1, <2>4, TailFacts DEF TypeOK
  <2>6. Known' = Known + 1
    <3>1. Known' = cursor - Len(Tail(backlog))
      BY <1>9, <2>1 DEF Replay, Known
    <3>2. QED
      BY <1>1, <2>1, <2>2, <3>1
  <2>7. QED
    BY <1>9, <1>b, <2>4, <2>5, <2>6 DEF Replay
<1>10. CASE GoLive
  <2>1. Known = cursor - 0 /\ Known' = (cursor - 1) + 1
    BY <1>0, <1>10 DEF GoLive, Known, Subscribed
  <2>2. UNCHANGED <<want, got, lost, next, mixed>>
    BY <1>10 DEF GoLive
  <2>3. QED
    BY <1>1, <1>a, <2>1, <2>2
<1>11. CASE Put
  <2>1. UNCHANGED <<want, got, lost, next, at, cursor, backlog, held, last, mixed>>
    BY <1>11 DEF Put
  <2>2. Known' = Known
    BY <2>1 DEF Known
  <2>3. QED
    BY <1>1, <1>a, <2>1, <2>2
<1>12. CASE Take
  <2>1. at = "live" /\ held = None /\ q # <<>> /\ Known = last + 1 /\ Base = last + 1
    BY <1>12 DEF Take, Known, Base
  <2>2. Len(q) >= 1 /\ Head(q) = q[1] /\ Head(q) \in ToSet(q)
    BY <1>0, <2>1, TailFacts, SetFacts DEF TypeOK
  <2>3. Head(q) \in 0 .. next - 1
    BY <1>0, <2>2 DEF LineInv, LineInRange
  <2>4. CASE Head(q) <= last
    <3>1. UNCHANGED <<want, got, lost, next, at, cursor, backlog, held, last, mixed>>
      BY <1>12, <2>4 DEF Take
    <3>2. Known' = Known
      BY <3>1 DEF Known
    <3>3. QED
      BY <1>1, <1>a, <3>1, <3>2
  <2>5. CASE ~(Head(q) <= last)
    <3>1. /\ held' = Head(q) /\ at' = "live" /\ UNCHANGED <<want, got, next, mixed>>
          /\ lost' = IF drop.n > 0 THEN lost \cup (drop.from .. drop.upto) ELSE lost
      BY <1>12, <2>1, <2>5 DEF Take
    <3>2. Known' = Head(q)
      BY <1>1, <2>3, <3>1 DEF Known, None
    <3>3. ASSUME NEW m \in Int, Known <= m, m < Known', m \notin mixed
          PROVE  m \in lost'
      <4>1. m \in (Base .. next - 1) \ mixed /\ m \in Nat
        BY <1>1, <2>1, <2>3, <3>2, <3>3, Ranges, <1>0
      <4>2. m \notin ToSet(q) \cup Coming
        <5>1. \A x \in ToSet(q) \cup Coming : x = Head(q) \/ Before(Head(q), x)
          BY <1>0, <2>1, HeadFirst DEF LineInv
        <5>2. m # Head(q) /\ m <= Head(q)
          BY <1>1, <2>3, <3>2, <3>3
        <5>3. ~Before(Head(q), m)
          BY <3>3, <4>1, <5>2 DEF Before
        <5>4. QED
          BY <5>1, <5>2, <5>3
      <4>3. drop.n > 0 /\ m \in drop.from .. drop.upto
        BY <1>0, <2>1, <4>1, <4>2 DEF LineInv, LineComplete, Open
      <4>4. QED
        BY <3>1, <4>3
    <3>4. Known' \in Int /\ Known <= Known' /\ lost \subseteq lost'
      BY <1>1, <2>1, <2>3, <2>5, <3>1, <3>2
    <3>5. QED
      BY <1>c, <3>1, <3>3, <3>4
  <2>6. QED
    BY <2>4, <2>5
<1>13. CASE Deliver
  <2>1. at = "live" /\ held # None /\ Known = held /\ Base = held + 1
    BY <1>0, <1>13 DEF Deliver, Subscribed, Known, Base
  <2>2. held \in 0 .. MaxRecords
    BY <1>0, <2>1, LogAssumption DEF TypeOK, None
  <2>3. Known' = Known + 1
    BY <1>13, <2>1 DEF Deliver, Known
  <2>4. Known + 1 <= next
    BY <1>0, <2>1 DEF LineInv, LineInRange, Open
  <2>5. QED
    BY <1>13, <1>b, <2>1, <2>2, <2>3, <2>4 DEF Deliver
<1>14. CASE Disconnect
  <2>1. UNCHANGED <<want, got, lost, next, mixed>> /\ Known' = want
    BY <1>14 DEF Disconnect, Close, Known
  <2>2. QED
    BY <1>1, <1>a, <2>1
<1>15. CASE Abandon
  <2>1. UNCHANGED <<want, got, lost, next, mixed>> /\ Known' = want
    BY <1>15 DEF Abandon, Close, Known
  <2>2. QED
    BY <1>1, <1>a, <2>1
<1>16. CASE UNCHANGED vars
  <2>1. UNCHANGED <<want, got, lost, next, at, cursor, backlog, held, last, mixed>>
    BY <1>16 DEF vars
  <2>2. Known' = Known
    BY <2>1 DEF Known
  <2>3. QED
    BY <1>1, <1>a, <2>1, <2>2
<1>17. QED
  BY <1>4, <1>5, <1>6, <1>7, <1>8, <1>9, <1>10, <1>11, <1>12, <1>13, <1>14, <1>15,
     <1>16 DEF Next, Stream


(* The line holds over every step: only a thread, a callback, a take, a     *)
(* connection's start and its end touch it.                                *)
LEMMA LineStep == StreamInv /\ [Next]_vars => LineInv'
<1> SUFFICES ASSUME StreamInv, [Next]_vars PROVE LineInv'
  OBVIOUS
<1> USE DEF ring, stream
<1>0. TypeOK /\ PushesKnown /\ Subscribed /\ LineInv /\ LineInOrder
  BY DEF StreamInv, LineInv
<1>1. /\ session \in Nat /\ cursor \in Int /\ last \in Int
      /\ \A i \in 1 .. Len(calls) : calls[i].to \in Nat
  BY SMTT(30), <1>0, Ranges
<1>2. ASSUME NEW w \in Writers, Store(w) PROVE LineInv'
  BY <1>2, LineStore
<1>3. ASSUME NEW w \in Writers, FanOut(w) PROVE LineInv'
  BY <1>3, LineFanOut
<1>4. CASE Connect
  <2>1. /\ session' = session + 1 /\ at' = "subscribed" /\ at = "none"
        /\ UNCHANGED <<next, push, calls, mixed, q, drop>>
    BY <1>4 DEF Connect
  <2>2. q = <<>> /\ drop = NoDrop
    BY <1>0, <2>1 DEF Subscribed, Open
  <2>3. \A i \in 1 .. Len(calls) : calls[i].to # session + 1
    BY <1>0, <1>1 DEF PushesKnown
  <2>4. OnLoop' = {}
    BY <2>1, <2>3 DEF OnLoop
  <2>5. Unsent' = {}
    <3>1. \A w \in Writers : push[w] # NoPush => push[w].to # session + 1
      BY <1>0, <1>1 DEF PushesKnown
    <3>2. QED
      BY <2>1, <3>1 DEF Unsent
  <2>6. LineInOrder'
    <3>1. ToSet(q') = {} /\ Drops' = {} /\ Len(q') = 0
      BY <2>1, <2>2 DEF ToSet, Drops, NoDrop
    <3>2. QED
      BY <2>1, <2>3, <2>4, <2>5, <3>1 DEF LineInOrder, Coming
  <2>7. ~Open'
    BY <2>1 DEF Open
  <2>8. QED
    BY <2>1, <2>2, <2>4, <2>5, <2>6, <2>7, LineEmpty
<1>5. CASE Snapshot
  <2>1. /\ UNCHANGED <<next, push, calls, session, mixed, q, drop>>
        /\ at = "subscribed" /\ at' = "gap" /\ cursor' = next
    BY <1>5 DEF Snapshot
  <2>2. q = <<>> /\ drop = NoDrop
    BY <1>0, <2>1 DEF Subscribed, Open
  <2>3. LineInOrder'
    BY <1>0, <2>1, UnsentFacts DEF LineInOrder, OnLoop, Coming, Drops, ToSet, Before
  <2>4. OnLoop' \cup Unsent' \subseteq Coming
    BY <2>1, UnsentFacts DEF OnLoop, Coming
  <2>5. Base' = next /\ cursor' = next
    BY <2>1 DEF Base
  <2>6. QED
    BY <2>1, <2>2, <2>3, <2>4, <2>5, LineEmpty
<1>6. CASE Put
  BY <1>6, LinePut
<1>7. CASE Take
  BY <1>7, LineTake
<1>8. CASE GoLive
  <2>1. /\ UNCHANGED <<next, push, calls, session, mixed, q, drop, cursor, held>>
        /\ at = "replay" /\ at' = "live" /\ last' = cursor - 1 /\ held = None
    BY <1>0, <1>8 DEF GoLive, Subscribed
  <2>2. Open /\ Base' = Base
    BY <1>1, <2>1 DEF Open, Base
  <2>3. QED
    BY <2>1, <2>2, LineQuiet
<1>9. CASE Deliver
  <2>1. /\ UNCHANGED <<next, push, calls, session, mixed, q, drop, cursor, at>>
        /\ held # None /\ held' = None /\ last' = held /\ at = "live"
    BY <1>0, <1>9 DEF Deliver, Subscribed
  <2>2. Open /\ Base' = Base
    BY <2>1 DEF Open, Base
  <2>3. QED
    BY <2>1, <2>2, LineQuiet
<1>10. CASE ReplayGap \/ Replay \/ UNCHANGED vars
  <2>1. /\ UNCHANGED <<next, push, calls, session, mixed, q, drop, cursor, last, held>>
        /\ at' = at \/ (at = "gap" /\ at' = "replay")
    BY <1>10 DEF ReplayGap, Replay, vars
  <2>2. Open' = Open /\ Base' = Base
    BY <2>1 DEF Open, Base
  <2>3. QED
    BY <2>1, <2>2, LineQuiet
<1>11. CASE Disconnect \/ Abandon
  <2>1. /\ UNCHANGED <<next, push, calls, session, mixed>>
        /\ at' = "none" /\ q' = <<>> /\ drop' = NoDrop
    BY <1>11 DEF Disconnect, Abandon, Close
  <2>2. OnLoop' = OnLoop /\ Unsent' = Unsent
    BY <2>1, UnsentFacts DEF OnLoop
  <2>3. LineInOrder'
    <3>1. ToSet(q') = {} /\ Drops' = {} /\ Len(q') = 0
      BY <2>1 DEF ToSet, Drops, NoDrop
    <3>2. \A d, x : Before(d, x) <=> Before(d, x)'
      BY <2>1, BeforeFacts
    <3>3. QED
      BY <1>0, <2>1, <2>2, <3>1, <3>2 DEF LineInOrder
  <2>4. ~Open' /\ OnLoop' \cup Unsent' \subseteq Coming
    BY <2>1, <2>2 DEF Open, Coming
  <2>5. QED
    BY <2>1, <2>3, <2>4, LineEmpty
<1>12. QED
  BY <1>2, <1>3, <1>4, <1>5, <1>6, <1>7, <1>8, <1>9, <1>10, <1>11 DEF Next, Stream

-----------------------------------------------------------------------------
LEMMA StreamInvInit == Init => StreamInv
<1> SUFFICES ASSUME Init PROVE StreamInv
  OBVIOUS
<1> USE LogAssumption DEF Init
<1>1. TypeOK
  BY DEF TypeOK, NoPush, NoDrop, None
<1>2. Unsent = {} /\ OnLoop = {} /\ ToSet(q) = {} /\ Drops = {} /\ ~Open
  BY DEF Unsent, OnLoop, ToSet, Drops, NoDrop, Open
<1>3. PushesKnown /\ Subscribed /\ BacklogIsContiguous
  BY <1>2 DEF PushesKnown, Subscribed, BacklogIsContiguous
<1>4. LineInv
  BY <1>2 DEF LineInv, LineInOrder, LineInRange, LineComplete, GapIsExact, Coming, NoDrop
<1>5. AllReported
  BY DEF AllReported, InOrder, Known
<1>6. QED
  BY <1>1, <1>3, <1>4, <1>5 DEF StreamInv

LEMMA StreamInvHolds == Spec => []StreamInv
<1>1. StreamInv /\ [Next]_vars => StreamInv'
  BY TypeStep, PushesStep, SubscribedStep, LineStep, BacklogStep, ReportedStep DEF StreamInv
<1>2. QED
  BY <1>1, StreamInvInit, PTL DEF Spec

(* Every variable stays in its range, whatever the threads do: the queue    *)
(* never holds more than it may, and no cursor passes the records there are. *)
THEOREM StreamTypes == Spec => []TypeOK
<1>1. StreamInv => TypeOK
  BY DEF StreamInv
<1>2. QED
  BY <1>1, StreamInvHolds, PTL

(* _log_stream's promise, "no gap and no duplicate across the replay->live  *)
(* boundary", over any number of reconnections and any number of appending  *)
(* threads: whatever the client has received, it has received in order and  *)
(* once, and every record before it it has received, or been told that it   *)
(* lost, or was appended while another thread was between storing a record  *)
(* and pushing it.                                                         *)
THEOREM StreamIsComplete == Spec => []NoSilentLoss
<1>1. StreamInv => NoSilentLoss
  <2> SUFFICES ASSUME StreamInv PROVE NoSilentLoss
    OBVIOUS
  <2>1. TypeOK /\ AllReported
    BY DEF StreamInv
  <2>2. /\ want \in Nat /\ Known \in Int /\ want <= Known
        /\ \A m \in 0 .. Known - 1 : m \in ToSet(got) \cup lost \cup mixed
    <3>1. want \in Nat /\ cursor \in Nat /\ last \in Int /\ held \in Int /\ Len(backlog) \in Nat
      BY <2>1, Ranges
    <3>2. Known \in Int
      BY <3>1 DEF Known
    <3>3. QED
      BY <2>1, <3>1, <3>2 DEF AllReported
  <2>3. ASSUME NEW n \in ToSet(got), NEW m \in 0 .. n - 1
        PROVE  m \in ToSet(got) \cup lost \cup mixed
    <3>1. PICK i \in 1 .. Len(got) : n = got[i]
      BY <2>1 DEF ToSet, TypeOK
    <3>2. n \in Nat /\ n < want
      <4>1. got[i] \in 0 .. MaxRecords
        BY <2>1, ElementOfSeq DEF TypeOK
      <4>2. QED
        BY <2>1, <3>1, <4>1, LogAssumption DEF AllReported
    <3>3. m \in 0 .. Known - 1
      BY <2>2, <3>2
    <3>4. QED
      BY <2>2, <3>3
  <2>4. QED
    BY <2>1, <2>3 DEF NoSilentLoss, AllReported
<1>2. QED
  BY <1>1, StreamInvHolds, PTL

(* The gap sentinel counts what it covers, with any number of appending     *)
(* threads: if nothing from drop.from to drop.upto was appended while       *)
(* another thread appended, the queue dropped exactly these since the last. *)
THEOREM GapsAreExact == Spec => []GapIsExact
<1>1. StreamInv => GapIsExact
  BY DEF StreamInv, LineInv
<1>2. QED
  BY <1>1, StreamInvHolds, PTL
=============================================================================
