----------------------------- MODULE FrontendProofs -----------------------------
(***************************************************************************)
(* Proofs about Frontend, for any requests, rebuilds, size of a drain and   *)
(* budget: the sealed totals are final, and the threads of the server and   *)
(* the processes behind it agree, unless _on_ready has opened a gate that   *)
(* was closed after it tested it.                                           *)
(***************************************************************************)
EXTENDS Frontend, FiniteSetTheorems, SequenceTheorems, WellFoundedInduction, TLAPS

In(q, m) == \E k \in 1 .. Len(q) : q[k] = m

(* How many elements of q are in M.                                        *)
Count(q, M) == Cardinality({k \in DOMAIN q : q[k] \in M})

-----------------------------------------------------------------------------
(* The inductive invariant.                                                *)

ToTokenizer == {Msg(kind, u) : kind \in {"request", "abort"}, u \in Uids}
                  \cup {Msg("rebuild", i) : i \in Rebuilds}
FromBackend == {Msg(kind, u) : kind \in Replies, u \in Uids}
                  \cup {Msg(kind, i) : kind \in Control, i \in Rebuilds}

(* Messages that count in the books, all of them and those of a request,    *)
(* the replies that end a request, and the messages about a rebuild.        *)
Admissions   == {Msg("admitted", u) : u \in Uids}
Samples      == {Msg(kind, u) : kind \in {"token", "final"}, u \in Uids}
SamplesOf(u) == {Msg("token", u), Msg("final", u)}
Counted(u)   == SamplesOf(u) \cup {Msg("admitted", u)}
Ending(u)    == {Msg("final", u), Msg("error", u)}
Resets       == {Msg(kind, i) : kind \in {"rebuild"} \cup Control, i \in Rebuilds}

Wired(M) == \E m \in M : In(t2f, m) \/ In(s2t, m)

Asking(u) == \/ lp.at = "send" /\ lp.msg = Msg("request", u)
             \/ In(f2t, Msg("request", u))
Active(u) == sched.stage[u] \in {"queued", "running"}

(* The values of the variables that are records.                           *)
Points  == [at : {"free", "send", "resolve", "stop", "rebuild"},
            msg : [kind : {"none", "request", "abort", "rebuild", "serving", "failed"},
                   id : {0} \cup Uids \cup Rebuilds]]
Figures == [inflight : SUBSET Uids, aborting : SUBSET Uids, prompt : Nat, completion : Nat]
Steps   == [at : {"idle", "drain", "abort"}, todo : SUBSET Uids]
Engines == [stage : [Uids -> {"none", "queued", "running", "gone"}],
            tombs : SUBSET Uids, acks : SUBSET Uids, rebuild : SUBSET Rebuilds]
Totals  == [prompt : Nat, completion : Nat]
Streams == [sampled : Nat, delivered : Nat, last : {"none", "final", "error"}]

LoopTypes ==
    /\ lp \in Points
    /\ lp.at = "send" => lp.msg \in ToTokenizer
    /\ lp.at = "rebuild" => lp.msg.kind = "rebuild" /\ lp.msg.id \in Rebuilds
    /\ lp.at = "resolve" => lp.msg.kind \in {"serving", "failed"}

Types ==
    /\ gate \in {"loading", "serving", "rebuilding", "stopping", "failed"}
    /\ fatal \in BOOLEAN /\ failing \in BOOLEAN /\ genfailed \in BOOLEAN
    /\ term \in BOOLEAN /\ crashed \in BOOLEAN /\ reopened \in BOOLEAN
    /\ LoopTypes
    /\ sup \in {"loading", "ready", "watch", "found", "failing", "done"}
    /\ http \in [Uids -> {"none", "open", "waiting", "ended", "broken", "left", "unsent"}]
    /\ mapped \subseteq Uids /\ event \subseteq Uids /\ sleeping \subseteq Uids
    /\ box \in [Uids -> Seq(Replies)]
    /\ stats \in Figures /\ stats.aborting \subseteq stats.inflight
    /\ prep \in Steps
    /\ rebuild \in [Rebuilds -> {"none", "waiting", "answered", "timeout"}]
    /\ f2t \in Seq(ToTokenizer) /\ s2t \in Seq(FromBackend) /\ t2f \in Seq(FromBackend)
    /\ sched \in Engines
    /\ alive \subseteq Workers /\ down \in {"no", "flagged", "terminated"}
    /\ work \in Totals
    /\ got \in [Uids -> Streams]

(* A request is on its way to the tokenizer at most once.                  *)
AskedOnce ==
    \A u \in Uids :
        Count(f2t, {Msg("request", u)})
          + (IF lp.at = "send" /\ lp.msg = Msg("request", u) THEN 1 ELSE 0) <= 1

(* While it is, the scheduler has done no work for it; and it is in flight, *)
(* with no end in sight, unless its abort is there already.                *)
AskedFirst ==
    \A u \in Uids : Asking(u) =>
        /\ http[u] # "none" /\ sched.stage[u] = "none" /\ ~Wired(Counted(u))
        /\ u \notin sched.tombs => /\ u \in stats.inflight /\ u \notin sched.acks
                                   /\ ~Wired(Ending(u))

(* A request the scheduler works on is in flight, with no end in sight.     *)
ActiveInFlight ==
    \A u \in Uids : Active(u) =>
        u \in stats.inflight /\ u \notin sched.acks /\ ~Wired(Ending(u))

(* So is one with a counted message on a wire.                             *)
CountedInFlight == \A u \in Uids : Wired(Counted(u)) => u \in stats.inflight

(* A uid nobody has used yet is nowhere.                                   *)
Untouched(u) ==
    /\ u \notin sleeping \cup prep.todo \cup mapped
    /\ box[u] = <<>> /\ got[u] = [sampled |-> 0, delivered |-> 0, last |-> "none"]
Unused ==
    \A u \in Uids : http[u] = "none" =>
        /\ u \notin stats.inflight \cup sched.acks \cup sched.tombs
        /\ sched.stage[u] = "none" /\ ~Wired(Ending(u))
        /\ ~In(f2t, Msg("abort", u)) /\ ~(lp.at = "send" /\ lp.msg = Msg("abort", u))
        /\ Untouched(u)

Flow == AskedOnce /\ AskedFirst /\ ActiveInFlight /\ CountedInFlight /\ Unused

(* Behind the end of a request comes nothing that counts, on the wire to    *)
(* the frontend and on the one before it.                                  *)
Orderly(q) ==
    \A u \in Uids : \A j, k \in 1 .. Len(q) :
        j < k /\ q[j] \in Ending(u) => q[k] \notin Counted(u)
Before(p, q) ==
    \A u \in Uids : (\E m \in Ending(u) : In(p, m)) => \A m \in Counted(u) : ~In(q, m)
Order == Orderly(t2f) /\ Orderly(s2t) /\ Before(t2f, s2t)

(* What the scheduler did is what the statistics know of and what the wires *)
(* carry.                                                                  *)
Books ==
    /\ work.prompt = stats.prompt + Count(t2f, Admissions) + Count(s2t, Admissions)
    /\ work.completion = stats.completion + Count(t2f, Samples) + Count(s2t, Samples)

(* The same for a request that is still delivered to.                      *)
Delivery ==
    \A u \in Uids :
        u \in mapped /\ (~genfailed \/ In(box[u], "final")) =>
            got[u].sampled = got[u].delivered + Count(box[u], {"token", "final"})
                               + Count(t2f, SamplesOf(u)) + Count(s2t, SamplesOf(u))

(* A request whose last token was observed has left the books.             *)
Ends ==
    \A u \in Uids :
        /\ In(box[u], "final") => u \notin stats.inflight /\ http[u] # "none"
        /\ got[u].last = "final" => /\ u \notin stats.inflight /\ http[u] = "ended"
                                    /\ got[u].delivered = got[u].sampled

(* Rebuilds between the call and the answer, in the loop, on a wire or with *)
(* the scheduler.                                                          *)
Outstanding ==
    (IF lp.at = "rebuild" \/ (lp.at = "send" /\ lp.msg.kind = "rebuild") THEN 1 ELSE 0)
    + (IF sched.rebuild = {} THEN 0 ELSE 1)
    + Count(f2t, Resets) + Count(s2t, Resets) + Count(t2f, Resets)

(* Prepare-stop has closed the gate, or has sealed the books behind it.     *)
Closed == sealed # NotSealed \/ (prep.at # "idle" /\ lp.at # "stop")

RebuildInv ==
    /\ Outstanding <= 1
    /\ Outstanding = 1 /\ lp.at # "rebuild" =>
         /\ gate \notin {"serving", "loading"}
         /\ gate = "rebuilding" \/ fatal \/ down # "no"
    /\ lp.at = "resolve" => Outstanding = 0
    /\ lp.at = "rebuild" => gate # "loading"
    /\ lp.at = "stop" => prep.at = "drain" /\ (Outstanding = 0 \/ fatal)

GateInv ==
    /\ RebuildInv
    /\ Closed => /\ gate \notin {"serving", "loading"}
                 /\ Outstanding = 0 \/ fatal
                 /\ lp.at # "rebuild"
                 /\ ~(lp.at = "send" /\ lp.msg.kind = "rebuild")
                 /\ ~(lp.at = "resolve" /\ lp.msg.kind = "serving")
    /\ down # "no" => term

Sealed ==
    sealed # NotSealed =>
        /\ stats.inflight = {}
        /\ sealed.prompt = work.prompt /\ sealed.completion = work.completion

Supervision ==
    /\ fatal => crashed
    /\ sup = "failing" => fatal
    /\ sup = "found" => Dead
    /\ Dead => crashed \/ down = "terminated"
    /\ reopened => sup \notin {"loading", "ready"}

(* An _on_ready that opens a gate closed since its test undoes what the     *)
(* gate promises, and nothing else.                                        *)
FrontInv == /\ Types /\ Flow /\ Order /\ Books /\ Delivery /\ Ends /\ Supervision
            /\ ~reopened => GateInv /\ Sealed

-----------------------------------------------------------------------------
(* Sequences: membership, counts and order of what is joined and cut.       *)

(* A set of numbers that is not empty has a least one.                     *)
LEMMA LeastOne ==
  ASSUME NEW S \in SUBSET Nat, S # {}
  PROVE  \E n \in S : \A m \in S : n <= m
<1>1. PICK n \in S : \A m \in S : ~(<<m, n>> \in OpToRel(<, Nat))
  BY NatLessThanWellFounded, WFMin
<1>2. \A m \in S : ~(m < n)
  BY <1>1 DEF OpToRel
<1>3. QED
  BY <1>2

(* Where a joined sequence has what.                                       *)
LEMMA JoinedAt ==
  ASSUME NEW T, NEW p \in Seq(T), NEW q \in Seq(T)
  PROVE  /\ p \o q \in Seq(T) /\ Len(p) \in Nat /\ Len(q) \in Nat
         /\ Len(p \o q) = Len(p) + Len(q)
         /\ DOMAIN p = 1 .. Len(p) /\ DOMAIN q = 1 .. Len(q)
         /\ DOMAIN (p \o q) = 1 .. Len(p) + Len(q)
         /\ \A i \in 1 .. Len(p) : (p \o q)[i] = p[i]
         /\ \A i \in 1 .. Len(q) : (p \o q)[Len(p) + i] = q[i]
         /\ \A i \in 1 .. Len(p) + Len(q) :
              i \notin 1 .. Len(p) => i - Len(p) \in 1 .. Len(q) /\ (p \o q)[i] = q[i - Len(p)]
<1>1. /\ p \o q \in Seq(T) /\ Len(p) \in Nat /\ Len(q) \in Nat
      /\ Len(p \o q) = Len(p) + Len(q)
      /\ DOMAIN p = 1 .. Len(p) /\ DOMAIN q = 1 .. Len(q)
      /\ DOMAIN (p \o q) = 1 .. Len(p) + Len(q)
      /\ \A i \in 1 .. Len(p) : (p \o q)[i] = p[i]
      /\ \A i \in 1 .. Len(q) : (p \o q)[Len(p) + i] = q[i]
  OBVIOUS
<1>2. ASSUME NEW i \in 1 .. Len(p) + Len(q), i \notin 1 .. Len(p)
      PROVE  i - Len(p) \in 1 .. Len(q) /\ (p \o q)[i] = q[i - Len(p)]
  <2>1. i - Len(p) \in 1 .. Len(q) /\ Len(p) + (i - Len(p)) = i
    BY <1>1, <1>2
  <2>2. QED
    BY <1>1, <2>1
<1>3. QED
  BY <1>1, <1>2

(* What is in a joined sequence is in one of the two.                      *)
LEMMA InJoined ==
  ASSUME NEW T, NEW p \in Seq(T), NEW q \in Seq(T)
  PROVE  p \o q \in Seq(T) /\ \A m : In(p \o q, m) <=> In(p, m) \/ In(q, m)
<1>1. \A i \in 1 .. Len(p) : i \in 1 .. Len(p) + Len(q)
  BY JoinedAt
<1>2. \A i \in 1 .. Len(q) : Len(p) + i \in 1 .. Len(p) + Len(q)
  BY JoinedAt
<1>3. ASSUME NEW m, In(p \o q, m) PROVE In(p, m) \/ In(q, m)
  BY <1>3, JoinedAt DEF In
<1>4. ASSUME NEW m, In(p, m) \/ In(q, m) PROVE In(p \o q, m)
  <2>1. CASE In(p, m)
    BY <2>1, <1>1, JoinedAt DEF In
  <2>2. CASE In(q, m)
    BY <2>2, <1>2, JoinedAt DEF In
  <2>3. QED
    BY <1>4, <2>1, <2>2
<1>5. QED
  BY <1>3, <1>4, JoinedAt

(* The positions of a sequence are finitely many, a count is a number, and  *)
(* it is zero where nothing counts.                                        *)
LEMMA CountIsNumber ==
  ASSUME NEW T, NEW q \in Seq(T), NEW M
  PROVE  /\ Count(q, M) \in Nat
         /\ IsFiniteSet({k \in DOMAIN q : q[k] \in M})
         /\ Count(q, M) = 0 <=> \A m \in M : ~In(q, m)
<1> DEFINE S == {k \in DOMAIN q : q[k] \in M}
<1>1. Len(q) \in Nat /\ DOMAIN q = 1 .. Len(q)
  OBVIOUS
<1>2. IsFiniteSet(1 .. Len(q)) /\ S \subseteq 1 .. Len(q)
  BY <1>1, FS_Interval
<1>3. IsFiniteSet(S)
  BY <1>2, FS_Subset
<1>4. Cardinality(S) \in Nat /\ (Cardinality(S) = 0 <=> S = {})
  BY <1>3, FS_CardinalityType, FS_EmptySet
<1>5. S = {} <=> \A m \in M : ~In(q, m)
  BY <1>1 DEF In
<1>6. QED
  BY <1>3, <1>4, <1>5 DEF Count

(* A count depends on what is there only.                                  *)
LEMMA CountSame ==
  ASSUME NEW T, NEW q \in Seq(T), NEW M, NEW N,
         \A m : In(q, m) => (m \in M <=> m \in N)
  PROVE  Count(q, M) = Count(q, N)
<1>1. \A k \in DOMAIN q : In(q, q[k])
  <2>1. DOMAIN q = 1 .. Len(q)
    OBVIOUS
  <2>2. QED
    BY <2>1 DEF In
<1>2. {k \in DOMAIN q : q[k] \in M} = {k \in DOMAIN q : q[k] \in N}
  BY <1>1
<1>3. QED
  BY <1>2 DEF Count

(* The count of a joined sequence is the sum.                              *)
LEMMA CountJoined ==
  ASSUME NEW T, NEW p \in Seq(T), NEW q \in Seq(T), NEW M
  PROVE  Count(p \o q, M) = Count(p, M) + Count(q, M)
<1> DEFINE P == {k \in DOMAIN p : p[k] \in M}
           Q == {k \in DOMAIN q : q[k] \in M}
           R == {k \in DOMAIN (p \o q) : (p \o q)[k] \in M}
           U == R \ P
           f == [k \in Q |-> Len(p) + k]
<1>1. IsFiniteSet(P) /\ IsFiniteSet(Q) /\ IsFiniteSet(R)
  <2>1. p \o q \in Seq(T)
    OBVIOUS
  <2>2. IsFiniteSet(P)
    BY CountIsNumber
  <2>3. IsFiniteSet(Q)
    BY CountIsNumber
  <2>4. IsFiniteSet(R)
    BY <2>1, CountIsNumber
  <2>5. QED
    BY <2>2, <2>3, <2>4
<1>2. P \subseteq R
  BY JoinedAt
<1>3. f \in [Q -> U]
  <2>1. ASSUME NEW k \in Q PROVE Len(p) + k \in U
    <3>1. k \in 1 .. Len(q) /\ q[k] \in M
      BY JoinedAt
    <3>2. Len(p) + k \in 1 .. Len(p) + Len(q) /\ Len(p) + k \notin 1 .. Len(p)
      BY <3>1, JoinedAt
    <3>3. QED
      BY <3>1, <3>2, JoinedAt
  <2>2. QED
    BY <2>1
<1>4. \A j, k \in Q : f[j] = f[k] => j = k
  BY JoinedAt
<1>5. \A i \in U : \E k \in Q : f[k] = i
  <2>1. ASSUME NEW i \in U PROVE \E k \in Q : f[k] = i
    <3>1. i \in 1 .. Len(p) + Len(q) /\ (p \o q)[i] \in M
      BY JoinedAt
    <3>2. i \notin 1 .. Len(p)
      BY <3>1, JoinedAt
    <3>3. i - Len(p) \in Q /\ Len(p) + (i - Len(p)) = i
      BY <3>1, <3>2, JoinedAt
    <3>4. QED
      BY <3>3
  <2>2. QED
    BY <2>1
<1>6. f \in Bijection(Q, U)
  <2> HIDE DEF f, Q, U
  <2>1. QED
    BY <1>3, <1>4, <1>5 DEF Bijection, Injection, Surjection, IsInjective
<1>7. IsFiniteSet(U) /\ Cardinality(U) = Cardinality(Q)
  BY <1>1, <1>6, FS_Bijection DEF ExistsBijection
<1>8. R = P \cup U /\ P \cap U = {}
  BY <1>2
<1>9. Cardinality(R) = Cardinality(P) + Cardinality(U) - Cardinality(P \cap U)
  <2> HIDE DEF P, U, R
  <2>1. QED
    BY <1>1, <1>7, <1>8, FS_Union
<1>10. Cardinality(P) \in Nat /\ Cardinality(Q) \in Nat /\ Cardinality(P \cap U) = 0
  <2> HIDE DEF P, Q, U
  <2>1. QED
    BY <1>1, <1>8, FS_CardinalityType, FS_EmptySet
<1>11. Cardinality(R) = Cardinality(P) + Cardinality(Q)
  <2> HIDE DEF P, Q, U, R
  <2>1. QED
    BY <1>7, <1>9, <1>10
<1>12. QED
  BY <1>11 DEF Count

(* A sequence of one message.                                              *)
LEMMA OneMessage ==
  ASSUME NEW T, NEW m \in T
  PROVE  /\ <<m>> \in Seq(T)
         /\ \A x : In(<<m>>, x) <=> x = m
<1>1. <<m>> \in Seq(T) /\ Len(<<m>>) = 1 /\ <<m>>[1] = m
  OBVIOUS
<1>2. \A x : In(<<m>>, x) <=> x = m
  BY <1>1 DEF In
<1>3. QED
  BY <1>1, <1>2

(* Its count.                                                              *)
LEMMA CountOne ==
  ASSUME NEW m, NEW M
  PROVE  Count(<<m>>, M) = IF m \in M THEN 1 ELSE 0
<1>1. DOMAIN <<m>> = {1} /\ <<m>>[1] = m
  OBVIOUS
<1>2. CASE m \in M
  <2>1. {k \in DOMAIN <<m>> : <<m>>[k] \in M} = {1}
    BY <1>1, <1>2
  <2>2. QED
    BY <2>1, <1>2, FS_Singleton DEF Count
<1>3. CASE m \notin M
  <2>1. {k \in DOMAIN <<m>> : <<m>>[k] \in M} = {}
    BY <1>1, <1>3
  <2>2. QED
    BY <2>1, <1>3, FS_EmptySet DEF Count
<1>4. QED
  BY <1>2, <1>3

(* The three ways in which a wire moves are joins.                         *)
LEMMA Wires ==
  ASSUME NEW T, NEW q \in Seq(T)
  PROVE  /\ \A m \in T : Append(q, m) = q \o <<m>> /\ Append(q, m) \in Seq(T)
         /\ q # <<>> => /\ Head(q) \in T /\ Tail(q) \in Seq(T)
                        /\ q = <<Head(q)>> \o Tail(q)
         /\ \A n \in 0 .. Len(q) :
              /\ SubSeq(q, 1, n) \in Seq(T) /\ SubSeq(q, n + 1, Len(q)) \in Seq(T)
              /\ q = SubSeq(q, 1, n) \o SubSeq(q, n + 1, Len(q))
<1>1. \A m \in T : Append(q, m) = q \o <<m>> /\ Append(q, m) \in Seq(T)
  OBVIOUS
<1>2. ASSUME q # <<>>
      PROVE  /\ Head(q) \in T /\ Tail(q) \in Seq(T)
             /\ q = <<Head(q)>> \o Tail(q)
  <2>1. Head(q) \in T /\ Tail(q) \in Seq(T) /\ Len(q) \in Nat \ {0}
    BY <1>2
  <2>2. <<Head(q)>> \o Tail(q) \in Seq(T) /\ Len(<<Head(q)>> \o Tail(q)) = Len(q)
    BY <1>2
  <2>3. \A i \in 1 .. Len(q) : (<<Head(q)>> \o Tail(q))[i] = q[i]
    BY <1>2
  <2>4. QED
    BY <2>1, <2>2, <2>3, SeqEqual
<1>3. ASSUME NEW n \in 0 .. Len(q)
      PROVE  /\ SubSeq(q, 1, n) \in Seq(T) /\ SubSeq(q, n + 1, Len(q)) \in Seq(T)
             /\ q = SubSeq(q, 1, n) \o SubSeq(q, n + 1, Len(q))
  <2> DEFINE a == SubSeq(q, 1, n)
             b == SubSeq(q, n + 1, Len(q))
  <2>1. /\ n \in Nat /\ Len(q) \in Nat
        /\ a \in Seq(T) /\ Len(a) = n /\ \A i \in 1 .. n : a[i] = q[i]
    OBVIOUS
  <2>2. /\ b \in Seq(T) /\ Len(b) = Len(q) - n
        /\ \A i \in 1 .. Len(b) : b[i] = q[n + i]
    OBVIOUS
  <2> HIDE DEF a, b
  <2>3. a \o b \in Seq(T) /\ Len(a \o b) = Len(q)
    BY <2>1, <2>2
  <2>4. ASSUME NEW i \in 1 .. Len(q) PROVE (a \o b)[i] = q[i]
    <3>1. CASE i \in 1 .. n
      BY <2>1, <2>2, <3>1, JoinedAt
    <3>2. CASE i \notin 1 .. n
      <4>1. i - n \in 1 .. Len(b) /\ (a \o b)[i] = b[i - n] /\ n + (i - n) = i
        BY <2>1, <2>2, <3>2, JoinedAt
      <4>2. QED
        BY <4>1, <2>2
    <3>3. QED
      BY <3>1, <3>2
  <2>5. q = a \o b
    BY <2>3, <2>4, SeqEqual
  <2>6. QED
    BY <2>1, <2>2, <2>5 DEF a, b
<1>4. QED
  BY <1>1, <1>2, <1>3

(* A joined sequence is in order if both are and no end in the first comes *)
(* before something counted in the second.                                 *)
LEMMA OrderlyJoined ==
  ASSUME NEW T, NEW p \in Seq(T), NEW q \in Seq(T)
  PROVE  Orderly(p \o q) <=> Orderly(p) /\ Orderly(q) /\ Before(p, q)
<1> DEFINE r == p \o q
<1>1. /\ Len(p) \in Nat /\ Len(q) \in Nat /\ Len(r) = Len(p) + Len(q)
      /\ \A i \in 1 .. Len(p) : i \in 1 .. Len(r) /\ r[i] = p[i]
      /\ \A i \in 1 .. Len(q) : Len(p) + i \in 1 .. Len(r) /\ r[Len(p) + i] = q[i]
      /\ \A i \in 1 .. Len(r) :
           i \notin 1 .. Len(p) => i - Len(p) \in 1 .. Len(q) /\ r[i] = q[i - Len(p)]
  BY JoinedAt
<1> HIDE DEF r
<1>2. ASSUME Orderly(r) PROVE Orderly(p)
  BY <1>1, <1>2 DEF Orderly
<1>3. ASSUME Orderly(r) PROVE Orderly(q)
  <2>1. SUFFICES ASSUME NEW u \in Uids, NEW j \in 1 .. Len(q), NEW k \in 1 .. Len(q),
                        j < k, q[j] \in Ending(u), q[k] \in Counted(u)
                 PROVE  FALSE
    BY DEF Orderly
  <2>2. Len(p) + j < Len(p) + k
    BY <1>1, <2>1
  <2>3. QED
    BY <1>1, <1>3, <2>1, <2>2 DEF Orderly
<1>4. ASSUME Orderly(r) PROVE Before(p, q)
  <2>1. SUFFICES ASSUME NEW u \in Uids, NEW j \in 1 .. Len(p), NEW k \in 1 .. Len(q),
                        p[j] \in Ending(u), q[k] \in Counted(u)
                 PROVE  FALSE
    BY DEF Before, In
  <2>2. j < Len(p) + k
    BY <1>1, <2>1
  <2>3. QED
    BY <1>1, <1>4, <2>1, <2>2 DEF Orderly
<1>5. ASSUME Orderly(p), Orderly(q), Before(p, q) PROVE Orderly(r)
  <2>1. SUFFICES ASSUME NEW u \in Uids, NEW j \in 1 .. Len(r), NEW k \in 1 .. Len(r),
                        j < k, r[j] \in Ending(u), r[k] \in Counted(u)
                 PROVE  FALSE
    BY DEF Orderly
  <2>2. CASE k \in 1 .. Len(p)
    <3>1. j \in 1 .. Len(p)
      BY <1>1, <2>1, <2>2
    <3>2. QED
      BY <1>1, <1>5, <2>1, <2>2, <3>1 DEF Orderly
  <2>3. CASE k \notin 1 .. Len(p) /\ j \in 1 .. Len(p)
    <3>1. k - Len(p) \in 1 .. Len(q) /\ q[k - Len(p)] \in Counted(u) /\ p[j] \in Ending(u)
      BY <1>1, <2>1, <2>3
    <3>2. QED
      BY <3>1, <2>3, <1>5 DEF Before, In
  <2>4. CASE k \notin 1 .. Len(p) /\ j \notin 1 .. Len(p)
    <3>1. /\ k - Len(p) \in 1 .. Len(q) /\ q[k - Len(p)] \in Counted(u)
          /\ j - Len(p) \in 1 .. Len(q) /\ q[j - Len(p)] \in Ending(u)
      BY <1>1, <2>1, <2>4
    <3>2. j - Len(p) < k - Len(p)
      BY <1>1, <2>1
    <3>3. QED
      BY <3>1, <3>2, <1>5 DEF Orderly
  <2>5. QED
    BY <2>2, <2>3, <2>4
<1>6. QED
  BY <1>2, <1>3, <1>4, <1>5 DEF r

(* One message is in order.                                                *)
LEMMA OrderlyOne == ASSUME NEW m PROVE Orderly(<<m>>)
<1>1. Len(<<m>>) = 1
  OBVIOUS
<1>2. QED
  BY <1>1 DEF Orderly

(* One message more at the end.                                            *)
LEMMA Appended ==
  ASSUME NEW T, NEW q \in Seq(T), NEW m \in T
  PROVE  /\ Append(q, m) \in Seq(T)
         /\ \A x : In(Append(q, m), x) <=> In(q, x) \/ x = m
         /\ (\A u \in Uids : m \in Counted(u) => \A x \in Ending(u) : ~In(q, x))
              => (Orderly(q) => Orderly(Append(q, m)))
<1> DEFINE w == <<m>>
<1>1. w \in Seq(T) /\ (\A x : In(w, x) <=> x = m) /\ Orderly(w)
  BY OneMessage, OrderlyOne
<1>2. Append(q, m) = q \o w
  BY Wires
<1> HIDE DEF w
<1>3. q \o w \in Seq(T) /\ \A x : In(q \o w, x) <=> In(q, x) \/ In(w, x)
  BY <1>1, InJoined
<1>4. ASSUME Orderly(q), \A u \in Uids : m \in Counted(u) => \A x \in Ending(u) : ~In(q, x)
      PROVE  Orderly(q \o w)
  <2>1. Before(q, w)
    BY <1>1, <1>4 DEF Before
  <2>2. QED
    BY <1>1, <1>4, <2>1, OrderlyJoined
<1>5. QED
  BY <1>1, <1>2, <1>3, <1>4

(* What one message more adds to a count.                                  *)
LEMMA CountAppended ==
  ASSUME NEW T, NEW q \in Seq(T), NEW m \in T, NEW M
  PROVE  Count(Append(q, m), M) = Count(q, M) + (IF m \in M THEN 1 ELSE 0)
<1> DEFINE w == <<m>>
<1>1. w \in Seq(T) /\ Count(w, M) = IF m \in M THEN 1 ELSE 0
  BY OneMessage, CountOne
<1>2. Append(q, m) = q \o w
  BY Wires
<1> HIDE DEF w
<1>3. QED
  BY <1>1, <1>2, CountJoined

(* One message less at the front.                                          *)
LEMMA Headed ==
  ASSUME NEW T, NEW q \in Seq(T), q # <<>>
  PROVE  /\ Head(q) \in T /\ Tail(q) \in Seq(T)
         /\ \A x : In(q, x) <=> In(Tail(q), x) \/ x = Head(q)
         /\ Orderly(q) =>
              /\ Orderly(Tail(q))
              /\ \A u \in Uids : Head(q) \in Ending(u) => \A x \in Counted(u) : ~In(Tail(q), x)
<1> DEFINE w == <<Head(q)>>
<1>1. Head(q) \in T /\ Tail(q) \in Seq(T) /\ q = w \o Tail(q)
  BY Wires
<1>2. w \in Seq(T) /\ \A x : In(w, x) <=> x = Head(q)
  BY <1>1, OneMessage
<1> HIDE DEF w
<1>3. \A x : In(w \o Tail(q), x) <=> In(w, x) \/ In(Tail(q), x)
  BY <1>1, <1>2, InJoined
<1>4. Orderly(w \o Tail(q)) => Orderly(Tail(q)) /\ Before(w, Tail(q))
  BY <1>1, <1>2, OrderlyJoined
<1>5. QED
  BY <1>1, <1>2, <1>3, <1>4 DEF Before

(* What one message less takes off a count.                                *)
LEMMA CountHeaded ==
  ASSUME NEW T, NEW q \in Seq(T), q # <<>>, NEW M
  PROVE  Count(q, M) = Count(Tail(q), M) + (IF Head(q) \in M THEN 1 ELSE 0)
<1> DEFINE w == <<Head(q)>>
<1>1. Head(q) \in T /\ Tail(q) \in Seq(T) /\ q = w \o Tail(q)
  BY Wires
<1>2. w \in Seq(T) /\ Count(w, M) = IF Head(q) \in M THEN 1 ELSE 0
  BY <1>1, OneMessage, CountOne
<1>3. Count(Tail(q), M) \in Nat
  BY <1>1, CountIsNumber
<1> HIDE DEF w
<1>4. Count(w \o Tail(q), M) = Count(w, M) + Count(Tail(q), M)
  BY <1>1, <1>2, CountJoined
<1>5. Count(q, M) = Count(w \o Tail(q), M)
  BY <1>1, Zenon
<1> DEFINE t == Count(Tail(q), M)
           c == Count(w, M)
<1>6. Count(q, M) = c + t /\ c = (IF Head(q) \in M THEN 1 ELSE 0) /\ t \in Nat
  BY <1>2, <1>3, <1>4, <1>5, Zenon
<1> HIDE DEF t, c
<1>7. Count(q, M) = t + (IF Head(q) \in M THEN 1 ELSE 0)
  BY <1>6
<1>8. QED
  BY <1>7 DEF t

-----------------------------------------------------------------------------
(* What the tokenizer picks out of a drain.                                *)

IsPicked(f, q, S, n) ==
    f = [i \in 0 .. n |-> IF i = 0 THEN <<>>
                          ELSE IF q[i] \in S THEN Append(f[i - 1], q[i]) ELSE f[i - 1]]

(* The function that collects the messages one by one exists: there is no   *)
(* least position up to which it does not.                                 *)
LEMMA PickedExists ==
  ASSUME NEW q, Len(q) \in Nat, NEW S
  PROVE  \E f : IsPicked(f, q, S, Len(q))
<1> DEFINE Bad == {n \in 0 .. Len(q) : ~ \E f : IsPicked(f, q, S, n)}
<1>1. SUFFICES ASSUME Bad # {} PROVE FALSE
  OBVIOUS
<1>2. PICK n \in Bad : \A m \in Bad : n <= m
  <2>1. Bad \in SUBSET Nat
    OBVIOUS
  <2> HIDE DEF Bad
  <2>2. QED
    BY <1>1, <2>1, LeastOne
<1>3. CASE n = 0
  <2>1. IsPicked([i \in 0 .. 0 |-> <<>>], q, S, 0)
    BY DEF IsPicked
  <2>2. QED
    BY <1>2, <1>3, <2>1
<1>4. CASE n # 0
  <2>1. n - 1 \in 0 .. Len(q) /\ n - 1 \notin Bad
    BY <1>2, <1>4
  <2>2. PICK f : IsPicked(f, q, S, n - 1)
    BY <2>1
  <2>3. f = [i \in 0 .. n - 1 |-> IF i = 0 THEN <<>>
                ELSE IF q[i] \in S THEN Append(f[i - 1], q[i]) ELSE f[i - 1]]
    BY <2>2 DEF IsPicked
  <2> DEFINE g == [i \in 0 .. n |-> IF i < n THEN f[i]
                     ELSE IF q[n] \in S THEN Append(f[n - 1], q[n]) ELSE f[n - 1]]
  <2>4. ASSUME NEW i \in 0 .. n
        PROVE  g[i] = IF i = 0 THEN <<>>
                      ELSE IF q[i] \in S THEN Append(g[i - 1], q[i]) ELSE g[i - 1]
    <3>1. CASE i = n
      BY <1>4, <3>1
    <3>2. CASE i # n
      <4>1. i \in 0 .. n - 1 /\ (i # 0 => i - 1 < n /\ i - 1 \in 0 .. n)
        BY <3>2
      <4>2. f[i] = IF i = 0 THEN <<>>
                   ELSE IF q[i] \in S THEN Append(f[i - 1], q[i]) ELSE f[i - 1]
        BY <2>3, <4>1
      <4>3. QED
        BY <4>1, <4>2
    <3>3. QED
      BY <3>1, <3>2
  <2>5. IsPicked(g, q, S, n)
    BY <2>4 DEF IsPicked
  <2>6. QED
    BY <1>2, <2>5
<1>5. QED
  BY <1>3, <1>4

(* Picked leaves a sequence of the messages of q that are in S, as many as *)
(* before and in their order.                                              *)
LEMMA PickedFacts ==
  ASSUME NEW T, NEW q \in Seq(T), NEW S, NEW M
  PROVE  /\ Picked(q, S) \in Seq(T)
         /\ \A m : In(Picked(q, S), m) <=> In(q, m) /\ m \in S
         /\ Orderly(q) => Orderly(Picked(q, S))
         /\ Count(Picked(q, S), M) = Count(q, M \cap S)
<1> DEFINE k == CHOOSE f : IsPicked(f, q, S, Len(q))
           upto == [n \in 0 .. Len(q) |-> SubSeq(q, 1, n)]
<1>1. Len(q) \in Nat
  OBVIOUS
<1>2. IsPicked(k, q, S, Len(q))
  BY <1>1, PickedExists, Zenon
<1>3. Picked(q, S) = k[Len(q)]
  BY Zenon DEF Picked, IsPicked
<1> HIDE DEF k
<1>4. \A i \in 0 .. Len(q) :
         k[i] = IF i = 0 THEN <<>>
                ELSE IF q[i] \in S THEN Append(k[i - 1], q[i]) ELSE k[i - 1]
  BY <1>2 DEF IsPicked
<1>5. upto[0] = <<>> /\ upto[Len(q)] = q
  <2>1. SubSeq(q, 1, 0) = <<>> /\ SubSeq(q, 1, Len(q)) = q
    OBVIOUS
  <2>2. QED
    BY <2>1
<1>6. ASSUME NEW n \in 1 .. Len(q)
      PROVE  upto[n] = upto[n - 1] \o <<q[n]>> /\ upto[n - 1] \in Seq(T) /\ q[n] \in T
  <2> DEFINE a == SubSeq(q, 1, n)
             b == SubSeq(q, 1, n - 1)
  <2>a. upto[n] = a /\ upto[n - 1] = b
    OBVIOUS
  <2>b. a \in Seq(T) /\ Len(a) = n /\ \A i \in 1 .. n : a[i] = q[i]
    OBVIOUS
  <2>c. b \in Seq(T) /\ Len(b) = n - 1 /\ \A i \in 1 .. n - 1 : b[i] = q[i]
    OBVIOUS
  <2> HIDE DEF a, b
  <2>1. upto[n] \in Seq(T) /\ Len(upto[n]) = n /\ \A i \in 1 .. n : upto[n][i] = q[i]
    BY <2>a, <2>b
  <2>2. /\ upto[n - 1] \in Seq(T) /\ Len(upto[n - 1]) = n - 1
        /\ \A i \in 1 .. n - 1 : upto[n - 1][i] = q[i]
    BY <2>a, <2>c
  <2>3. q[n] \in T /\ <<q[n]>> \in Seq(T) /\ Len(<<q[n]>>) = 1 /\ <<q[n]>>[1] = q[n]
    OBVIOUS
  <2> HIDE DEF upto
  <2>4. upto[n - 1] \o <<q[n]>> \in Seq(T) /\ Len(upto[n - 1] \o <<q[n]>>) = n
    BY <2>2, <2>3
  <2>5. ASSUME NEW i \in 1 .. n PROVE (upto[n - 1] \o <<q[n]>>)[i] = upto[n][i]
    <3>1. CASE i = n
      BY <2>1, <2>2, <2>3, <3>1
    <3>2. CASE i # n
      BY <2>1, <2>2, <2>3, <3>2
    <3>3. QED
      BY <3>1, <3>2
  <2>6. upto[n] = upto[n - 1] \o <<q[n]>>
    BY <2>1, <2>4, <2>5, SeqEqual
  <2>7. QED
    BY <2>2, <2>3, <2>6
<1> HIDE DEF upto
<1> DEFINE Good(n) ==
      /\ k[n] \in Seq(T)
      /\ \A m : In(k[n], m) <=> In(upto[n], m) /\ m \in S
      /\ Orderly(upto[n]) => Orderly(k[n])
      /\ Count(k[n], M) = Count(upto[n], M \cap S)
<1>7. Good(0)
  <2>1. k[0] = <<>>
    BY <1>1, <1>4
  <2>2. Len(k[0]) = 0 /\ k[0] \in Seq(T) /\ k[0] = upto[0] /\ DOMAIN k[0] = {}
    BY <2>1, <1>5
  <2>3. Count(k[0], M) = Count(upto[0], M \cap S)
    <3>1. {i \in DOMAIN k[0] : k[0][i] \in M} = {i \in DOMAIN upto[0] : upto[0][i] \in M \cap S}
      BY <2>2
    <3>2. QED
      BY <3>1 DEF Count
  <2>4. \A m : ~In(k[0], m)
    BY <2>2 DEF In
  <2>5. QED
    BY <2>2, <2>3, <2>4
<1>8. ASSUME NEW n \in 1 .. Len(q), Good(n - 1)
      PROVE  Good(n)
  <2>1. k[n] = IF q[n] \in S THEN Append(k[n - 1], q[n]) ELSE k[n - 1]
    BY <1>4
  <2>2. k[n - 1] \in Seq(T) /\ q[n] \in T /\ upto[n - 1] \in Seq(T) /\ upto[n] = upto[n - 1] \o <<q[n]>>
    BY <1>6, <1>8
  <2> DEFINE w == <<q[n]>>
             v == upto[n - 1]
             x == k[n - 1]
  <2>3. /\ w \in Seq(T) /\ v \in Seq(T) /\ x \in Seq(T) /\ Orderly(w)
        /\ (\A m : In(w, m) <=> m = q[n]) /\ Count(w, M \cap S) \in Nat
        /\ Count(w, M \cap S) = IF q[n] \in M \cap S THEN 1 ELSE 0
        /\ Count(w, M) = IF q[n] \in M THEN 1 ELSE 0
        /\ upto[n] = v \o w
    BY <2>2, OneMessage, CountOne, OrderlyOne
  <2>a. /\ \A m : In(x, m) <=> In(v, m) /\ m \in S
        /\ Orderly(v) => Orderly(x)
        /\ Count(x, M) = Count(v, M \cap S)
        /\ k[n] = IF q[n] \in S THEN Append(x, q[n]) ELSE x
    BY <1>8, <2>1
  <2> HIDE DEF w, v, x
  <2>4. \A m : In(upto[n], m) <=> In(v, m) \/ m = q[n]
    BY <2>3, InJoined
  <2>5. Orderly(upto[n]) => Orderly(v) /\ Before(v, w)
    BY <2>3, OrderlyJoined
  <2>6. Count(upto[n], M \cap S) = Count(v, M \cap S)
                                  + (IF q[n] \in M \cap S THEN 1 ELSE 0)
    BY <2>3, CountJoined
  <2>7. Count(v, M \cap S) \in Nat
    BY <2>3, CountIsNumber
  <2>8. CASE q[n] \notin S
    BY <2>3, <2>a, <2>4, <2>5, <2>6, <2>7, <2>8
  <2>9. CASE q[n] \in S
    <3>1. k[n] = Append(x, q[n])
      BY <2>a, <2>9
    <3>2. k[n] \in Seq(T) /\ \A m : In(k[n], m) <=> In(x, m) \/ m = q[n]
      BY <2>2, <2>3, <3>1, Appended
    <3>3. Count(k[n], M) = Count(x, M) + (IF q[n] \in M THEN 1 ELSE 0)
      BY <2>2, <2>3, <3>1, CountAppended
    <3>4. ASSUME Orderly(upto[n]) PROVE Orderly(k[n])
      <4>1. Orderly(x) /\ Before(v, w)
        BY <2>a, <2>5, <3>4
      <4>2. Before(x, w)
        BY <2>a, <4>1 DEF Before
      <4>3. k[n] = x \o w
        BY <2>2, <2>3, <3>1, Wires, SMTT(30) DEF w
      <4>4. QED
        BY <2>3, <4>1, <4>2, <4>3, OrderlyJoined
    <3>5. \A m : In(k[n], m) <=> In(upto[n], m) /\ m \in S
      BY <2>a, <2>4, <2>9, <3>2
    <3>6. Count(k[n], M) = Count(upto[n], M \cap S)
      BY <2>a, <2>6, <2>7, <2>9, <3>3
    <3>7. QED
      BY <3>2, <3>4, <3>5, <3>6
  <2>10. QED
    BY <2>8, <2>9
<1> DEFINE Bad == {n \in 0 .. Len(q) : ~ Good(n)}
<1> HIDE DEF Good
<1>9. Bad = {}
  <2>1. SUFFICES ASSUME Bad # {} PROVE FALSE
    OBVIOUS
  <2>2. PICK n \in Bad : \A m \in Bad : n <= m
    <3>1. Bad \in SUBSET Nat
      OBVIOUS
    <3> HIDE DEF Bad
    <3>2. QED
      BY <2>1, <3>1, LeastOne
  <2>3. n # 0
    BY <1>7, <2>2
  <2>4. n \in 1 .. Len(q) /\ n - 1 \in 0 .. Len(q) /\ n - 1 \notin Bad
    BY <1>1, <2>2, <2>3
  <2>5. Good(n - 1)
    BY <2>4
  <2>6. QED
    BY <1>8, <2>2, <2>4, <2>5
<1>10. Good(Len(q))
  BY <1>1, <1>9
<1>11. QED
  BY <1>3, <1>5, <1>10 DEF Good

(* A sequence cut in two.                                                  *)
LEMMA CutFacts ==
  ASSUME NEW T, NEW q \in Seq(T), NEW n \in 0 .. Len(q)
  PROVE  /\ SubSeq(q, 1, n) \in Seq(T) /\ SubSeq(q, n + 1, Len(q)) \in Seq(T)
         /\ q = SubSeq(q, 1, n) \o SubSeq(q, n + 1, Len(q))
         /\ Orderly(q) => Orderly(SubSeq(q, 1, n)) /\ Orderly(SubSeq(q, n + 1, Len(q)))
<1> DEFINE a == SubSeq(q, 1, n)
           b == SubSeq(q, n + 1, Len(q))
<1>1. a \in Seq(T) /\ b \in Seq(T) /\ q = a \o b
  BY Wires
<1> HIDE DEF a, b
<1>2. Orderly(a \o b) => Orderly(a) /\ Orderly(b)
  BY <1>1, OrderlyJoined
<1>3. QED
  BY <1>1, <1>2 DEF a, b

(* What counts is in one class of messages or in another.                  *)
LEMMA CountSplit ==
  ASSUME NEW T, NEW q \in Seq(T), NEW M, NEW A, NEW B,
         \A m : In(q, m) => (m \in M <=> m \in A \/ m \in B),
         \A m : ~(m \in A /\ m \in B)
  PROVE  Count(q, M) = Count(q, A) + Count(q, B)
<1> DEFINE S == {k \in DOMAIN q : q[k] \in M}
           P == {k \in DOMAIN q : q[k] \in A}
           Q == {k \in DOMAIN q : q[k] \in B}
<1>1. IsFiniteSet(P) /\ Cardinality(P) \in Nat
  BY CountIsNumber, FS_CardinalityType
<1>2. IsFiniteSet(Q) /\ Cardinality(Q) \in Nat
  BY CountIsNumber, FS_CardinalityType
<1>3. S = P \cup Q /\ P \cap Q = {}
  <2>1. DOMAIN q = 1 .. Len(q)
    OBVIOUS
  <2>2. \A k \in DOMAIN q : In(q, q[k])
    BY <2>1 DEF In
  <2>3. QED
    BY <2>2
<1>4. Count(q, M) = Cardinality(S) /\ Count(q, A) = Cardinality(P)
      /\ Count(q, B) = Cardinality(Q)
  BY DEF Count
<1> HIDE DEF S, P, Q
<1>5. Cardinality(P \cup Q) = Cardinality(P) + Cardinality(Q) - Cardinality(P \cap Q)
  BY <1>1, <1>2, FS_Union
<1>6. Cardinality(P \cap Q) = 0
  BY <1>3, FS_EmptySet
<1>7. QED
  BY <1>1, <1>2, <1>3, <1>4, <1>5, <1>6

(* The range of a sequence is what is in it.                               *)
LEMMA InRange ==
  ASSUME NEW T, NEW q \in Seq(T)
  PROVE  \A m : m \in Range(q) <=> In(q, m)
<1>1. DOMAIN q = 1 .. Len(q)
  OBVIOUS
<1>2. QED
  BY <1>1 DEF Range, In

(* The messages of some kinds are those of the sequence, in its order.      *)
LEMMA OfKindFacts ==
  ASSUME NEW T, NEW q \in Seq(T), NEW kinds
  PROVE  /\ OfKind(q, kinds) \in Seq(T)
         /\ \A m : In(OfKind(q, kinds), m) <=> In(q, m) /\ m.kind \in kinds
         /\ Orderly(q) => Orderly(OfKind(q, kinds))
<1> DEFINE S == {m \in Range(q) : m.kind \in kinds}
<1>1. \A m : m \in S <=> In(q, m) /\ m.kind \in kinds
  BY InRange
<1>2. OfKind(q, kinds) = Picked(q, S)
  BY DEF OfKind
<1> HIDE DEF S
<1>3. /\ Picked(q, S) \in Seq(T)
      /\ \A m : In(Picked(q, S), m) <=> In(q, m) /\ m \in S
      /\ Orderly(q) => Orderly(Picked(q, S))
  BY PickedFacts, Zenon
<1>4. QED
  BY <1>1, <1>2, <1>3

(* How many of them count: those that count and are of the kinds.          *)
LEMMA OfKindCount ==
  ASSUME NEW T, NEW q \in Seq(T), NEW kinds, NEW M
  PROVE  Count(OfKind(q, kinds), M) = Count(q, M \cap {m \in T : m.kind \in kinds})
<1> DEFINE S == {m \in Range(q) : m.kind \in kinds}
           K == {m \in T : m.kind \in kinds}
<1>1. \A m : m \in S <=> In(q, m) /\ m.kind \in kinds
  BY InRange
<1>2. OfKind(q, kinds) = Picked(q, S)
  BY DEF OfKind
<1>3. \A m : In(q, m) => (m \in M \cap S <=> m \in M \cap K)
  BY <1>1 DEF In
<1> HIDE DEF S, K
<1>4. Count(Picked(q, S), M) = Count(q, M \cap S)
  BY PickedFacts
<1>5. Count(q, M \cap S) = Count(q, M \cap K)
  BY <1>3, CountSame
<1>6. QED
  BY <1>2, <1>4, <1>5 DEF K

(* The results of a drain, as the frontend gets them.                      *)
Moved(q) == OfKind(q, {"rebuilt", "rebuild_failed"}) \o _send_generation_replies(q)

(* They are the same messages, and an end still has nothing behind it that  *)
(* counts: the errors, moved to the back, count nothing.                   *)
LEMMA MovedFacts ==
  ASSUME NEW q \in Seq(FromBackend)
  PROVE  /\ Moved(q) \in Seq(FromBackend)
         /\ \A m : In(Moved(q), m) <=> In(q, m)
         /\ Orderly(q) => Orderly(Moved(q))
<1> DEFINE c == OfKind(q, {"rebuilt", "rebuild_failed"})
           a == OfKind(q, {"admitted"})
           s == OfKind(q, {"token", "final"})
           e == OfKind(q, {"error"})
<1>1. /\ c \in Seq(FromBackend) /\ a \in Seq(FromBackend)
      /\ s \in Seq(FromBackend) /\ e \in Seq(FromBackend)
  BY OfKindFacts
<1>2. /\ \A m : In(c, m) <=> In(q, m) /\ m.kind \in {"rebuilt", "rebuild_failed"}
      /\ \A m : In(a, m) <=> In(q, m) /\ m.kind \in {"admitted"}
      /\ \A m : In(s, m) <=> In(q, m) /\ m.kind \in {"token", "final"}
      /\ \A m : In(e, m) <=> In(q, m) /\ m.kind \in {"error"}
  BY OfKindFacts
<1>3. Orderly(q) => Orderly(c) /\ Orderly(a) /\ Orderly(s) /\ Orderly(e)
  BY OfKindFacts
<1>4. Moved(q) = c \o ((a \o s) \o e)
  BY DEF Moved, _send_generation_replies
<1>5. \A m : In(q, m) => m.kind \in {"rebuilt", "rebuild_failed", "admitted", "token", "final", "error"}
  <2>1. \A m \in FromBackend :
           m.kind \in {"rebuilt", "rebuild_failed", "admitted", "token", "final", "error"}
    BY DEF FromBackend, Msg, Replies, Control
  <2>2. QED
    BY <2>1 DEF In
<1> HIDE DEF c, a, s, e
<1>6. a \o s \in Seq(FromBackend) /\ \A m : In(a \o s, m) <=> In(a, m) \/ In(s, m)
  BY <1>1, InJoined
<1> DEFINE as == a \o s
<1>7. as \o e \in Seq(FromBackend) /\ \A m : In(as \o e, m) <=> In(as, m) \/ In(e, m)
  <2> HIDE DEF as
  <2>1. as \in Seq(FromBackend)
    BY <1>6 DEF as
  <2>2. QED
    BY <1>1, <2>1, InJoined
<1> DEFINE ase == as \o e
<1>8. c \o ase \in Seq(FromBackend) /\ \A m : In(c \o ase, m) <=> In(c, m) \/ In(ase, m)
  <2>1. ase \in Seq(FromBackend)
    BY <1>7
  <2> HIDE DEF ase
  <2>2. QED
    BY <1>1, <2>1, InJoined
<1>9. \A m : In(c \o ase, m) <=> In(q, m)
  BY <1>2, <1>5, <1>6, <1>7, <1>8
<1>10. ASSUME Orderly(q) PROVE Orderly(c \o ase)
  <2>1. Before(a, s)
    BY <1>2 DEF Before, Ending, Msg
  <2>2. Orderly(as)
    BY <1>1, <1>3, <1>10, <2>1, OrderlyJoined
  <2>3. Before(as, e)
    BY <1>2 DEF Before, Counted, SamplesOf, Msg
  <2>4. Orderly(ase)
    <3>1. as \in Seq(FromBackend)
      BY <1>6
    <3> HIDE DEF as
    <3>2. Orderly(as \o e)
      BY <1>1, <1>3, <1>10, <2>2, <2>3, <3>1, OrderlyJoined
    <3>3. QED
      BY <3>2
  <2>5. Before(c, ase)
    BY <1>2 DEF Before, Ending, Msg
  <2>6. ase \in Seq(FromBackend)
    BY <1>7
  <2> HIDE DEF ase
  <2>7. QED
    BY <1>1, <1>3, <1>10, <2>4, <2>5, <2>6, OrderlyJoined
<1>11. QED
  BY <1>4, <1>8, <1>9, <1>10

(* The tokenizer loses and duplicates nothing that it moves.               *)
LEMMA MovedCount ==
  ASSUME NEW q \in Seq(FromBackend), NEW M
  PROVE  Count(Moved(q), M) = Count(q, M)
<1> DEFINE c == OfKind(q, {"rebuilt", "rebuild_failed"})
           a == OfKind(q, {"admitted"})
           s == OfKind(q, {"token", "final"})
           e == OfKind(q, {"error"})
           C == {m \in FromBackend : m.kind \in {"rebuilt", "rebuild_failed"}}
           A == {m \in FromBackend : m.kind \in {"admitted"}}
           S == {m \in FromBackend : m.kind \in {"token", "final"}}
           E == {m \in FromBackend : m.kind \in {"error"}}
<1>1. /\ c \in Seq(FromBackend) /\ a \in Seq(FromBackend)
      /\ s \in Seq(FromBackend) /\ e \in Seq(FromBackend)
  BY OfKindFacts
<1>2. Count(c, M) = Count(q, M \cap C)
  BY OfKindCount
<1>3. Count(a, M) = Count(q, M \cap A)
  BY OfKindCount
<1>4. Count(s, M) = Count(q, M \cap S)
  BY OfKindCount
<1>5. Count(e, M) = Count(q, M \cap E)
  BY OfKindCount
<1>6. Moved(q) = c \o ((a \o s) \o e)
  BY DEF Moved, _send_generation_replies
<1>7. \A m : In(q, m) => \/ m \in C \/ m \in A \/ m \in S \/ m \in E
  <2>1. \A m \in FromBackend : m.kind \in Replies \cup Control
    BY DEF FromBackend, Msg
  <2>2. \A m : In(q, m) => m \in FromBackend
    BY DEF In
  <2>3. QED
    BY <2>1, <2>2 DEF Replies, Control
<1>8. /\ C \cap A = {} /\ C \cap S = {} /\ C \cap E = {}
      /\ A \cap S = {} /\ A \cap E = {} /\ S \cap E = {}
  OBVIOUS
<1> DEFINE W == M \cap C
           X == M \cap A
           Y == M \cap S
           Z == M \cap E
           XYZ == {m \in FromBackend : m \in X \/ m \in Y \/ m \in Z}
           YZ == {m \in FromBackend : m \in Y \/ m \in Z}
<1>9. /\ \A m : In(q, m) => (m \in M <=> m \in W \/ m \in XYZ)
      /\ \A m : In(q, m) => (m \in XYZ <=> m \in X \/ m \in YZ)
      /\ \A m : In(q, m) => (m \in YZ <=> m \in Y \/ m \in Z)
  BY <1>7
<1>10. /\ \A m : ~(m \in W /\ m \in XYZ)
       /\ \A m : ~(m \in X /\ m \in YZ)
       /\ \A m : ~(m \in Y /\ m \in Z)
  BY <1>8
<1>11. /\ Count(c, M) = Count(q, W) /\ Count(a, M) = Count(q, X)
       /\ Count(s, M) = Count(q, Y) /\ Count(e, M) = Count(q, Z)
  BY <1>2, <1>3, <1>4, <1>5
<1> HIDE DEF c, a, s, e, W, X, Y, Z, XYZ, YZ
<1>12. /\ Count(q, M) = Count(q, W) + Count(q, XYZ)
       /\ Count(q, XYZ) = Count(q, X) + Count(q, YZ)
       /\ Count(q, YZ) = Count(q, Y) + Count(q, Z)
  BY <1>9, <1>10, CountSplit
<1>13. /\ Count(q, W) \in Nat /\ Count(q, X) \in Nat
       /\ Count(q, Y) \in Nat /\ Count(q, Z) \in Nat
  BY CountIsNumber
<1>14. Count(a \o s, M) = Count(a, M) + Count(s, M) /\ a \o s \in Seq(FromBackend)
  BY <1>1, CountJoined
<1> DEFINE as == a \o s
           ase == as \o e
<1>15. Count(as \o e, M) = Count(as, M) + Count(e, M) /\ as \o e \in Seq(FromBackend)
  <2>1. as \in Seq(FromBackend)
    BY <1>14
  <2> HIDE DEF as
  <2>2. Count(as \o e, M) = Count(as, M) + Count(e, M)
    BY <1>1, <2>1, CountJoined
  <2>3. as \o e \in Seq(FromBackend)
    BY <1>1, <2>1, InJoined
  <2>4. QED
    BY <2>2, <2>3
<1>16. Count(c \o ase, M) = Count(c, M) + Count(ase, M)
  <2>1. ase \in Seq(FromBackend)
    BY <1>15
  <2> HIDE DEF ase
  <2>2. QED
    BY <1>1, <2>1, CountJoined
<1>17. Count(c \o ase, M) = Count(q, M)
  BY <1>11, <1>12, <1>13, <1>14, <1>15, <1>16
<1>18. QED
  BY <1>6, <1>17

(* The errors of refused requests, and the answers to refused rebuilds.     *)
LEMMA RefusalsFacts ==
  ASSUME NEW q \in Seq(ToTokenizer), NEW us \in SUBSET Uids
  PROVE  /\ Refusals(q, us) \in Seq(FromBackend)
         /\ \A m : In(Refusals(q, us), m) => \E u \in us : m = Msg("error", u)
<1> DEFINE S == {Msg("request", u) : u \in us}
           p == Picked(q, S)
           r == [k \in DOMAIN p |-> Msg("error", p[k].id)]
<1>1. p \in Seq(ToTokenizer) /\ \A m : In(p, m) <=> In(q, m) /\ m \in S
  BY PickedFacts
<1>2. Refusals(q, us) = r
  BY DEF Refusals
<1>3. Len(p) \in Nat /\ DOMAIN p = 1 .. Len(p)
  BY <1>1
<1> HIDE DEF p
<1>4. ASSUME NEW k \in 1 .. Len(p)
      PROVE  p[k].id \in us
  <2>1. In(p, p[k])
    BY <1>3 DEF In
  <2>2. p[k] \in S
    BY <1>1, <2>1
  <2>3. QED
    BY <2>2 DEF Msg
<1>5. \A k \in 1 .. Len(p) : r[k] = Msg("error", p[k].id) /\ r[k] \in FromBackend
  BY <1>3, <1>4 DEF FromBackend, Replies
<1>6. r \in Seq(FromBackend) /\ Len(r) = Len(p)
  <2>1. r \in [1 .. Len(p) -> FromBackend]
    BY <1>3, <1>5
  <2>2. QED
    BY <1>3, <2>1
<1>7. \A m : In(r, m) => \E u \in us : m = Msg("error", u)
  <2>1. SUFFICES ASSUME NEW k \in 1 .. Len(p) PROVE \E u \in us : r[k] = Msg("error", u)
    BY <1>6 DEF In
  <2>2. QED
    BY <1>4, <1>5
<1>8. QED
  BY <1>2, <1>6, <1>7

(* A rebuild that is refused is answered once, and only rebuilds are.      *)
LEMMA RefusedFacts ==
  ASSUME NEW q \in Seq(ToTokenizer), NEW s
  PROVE  /\ Refused(q, s) \in Seq(FromBackend)
         /\ \A m : In(Refused(q, s), m) => m.kind = "rebuilt"
         /\ Count(Refused(q, s), Resets) = IF Busy(s) THEN Count(q, Resets) ELSE 0
<1> DEFINE p == OfKind(q, {"rebuild"})
           r == [k \in DOMAIN p |-> Msg("rebuilt", p[k].id)]
<1>1. /\ p \in Seq(ToTokenizer)
      /\ \A m : In(p, m) <=> In(q, m) /\ m.kind \in {"rebuild"}
  BY OfKindFacts
<1>2. Len(p) \in Nat /\ DOMAIN p = 1 .. Len(p)
  BY <1>1
<1>3. ASSUME NEW k \in 1 .. Len(p)
      PROVE  p[k] \in Resets /\ p[k].id \in Rebuilds
  <2>1. In(p, p[k])
    BY <1>2 DEF In
  <2>2. p[k] \in ToTokenizer /\ p[k].kind = "rebuild"
    BY <1>1, <2>1 DEF In
  <2> HIDE DEF p
  <2>3. QED
    BY <2>2 DEF ToTokenizer, Resets, Msg
<1>4. Count(p, Resets) = Count(q, Resets)
  <2>1. Count(p, Resets) = Count(q, Resets \cap {m \in ToTokenizer : m.kind \in {"rebuild"}})
    BY OfKindCount
  <2>2. \A m : In(q, m) =>
           (m \in Resets <=> m \in Resets \cap {x \in ToTokenizer : x.kind \in {"rebuild"}})
    <3>1. \A m \in ToTokenizer : m \in Resets => m.kind = "rebuild"
      BY DEF ToTokenizer, Resets, Msg, Control
    <3>2. \A m : In(q, m) => m \in ToTokenizer
      BY DEF In
    <3>3. QED
      BY <3>1, <3>2
  <2>3. Count(q, Resets) = Count(q, Resets \cap {m \in ToTokenizer : m.kind \in {"rebuild"}})
    BY <2>2, CountSame
  <2>4. QED
    BY <2>1, <2>3
<1> HIDE DEF p
<1>5. \A k \in 1 .. Len(p) : /\ r[k] = Msg("rebuilt", p[k].id) /\ r[k] \in FromBackend
                             /\ r[k] \in Resets /\ r[k].kind = "rebuilt"
  BY <1>2, <1>3 DEF FromBackend, Control, Resets, Msg
<1>6. r \in Seq(FromBackend) /\ Len(r) = Len(p) /\ DOMAIN r = 1 .. Len(p)
  <2>1. r \in [1 .. Len(p) -> FromBackend]
    BY <1>2, <1>5
  <2>2. QED
    BY <1>2, <2>1
<1>7. Count(r, Resets) = Count(p, Resets)
  <2>1. {k \in DOMAIN r : r[k] \in Resets} = {k \in DOMAIN p : p[k] \in Resets}
    BY <1>2, <1>3, <1>5, <1>6
  <2>2. QED
    BY <2>1 DEF Count
<1>8. CASE Busy(s)
  <2>1. Refused(q, s) = r
    BY <1>8 DEF Refused, p
  <2>2. \A m : In(r, m) => m.kind = "rebuilt"
    BY <1>5, <1>6 DEF In
  <2>3. QED
    BY <1>4, <1>6, <1>7, <1>8, <2>1, <2>2
<1>9. CASE ~Busy(s)
  <2>1. Refused(q, s) = <<>>
    BY <1>9 DEF Refused
  <2>2. <<>> \in Seq(FromBackend) /\ Len(<<>>) = 0
    OBVIOUS
  <2>3. \A m : ~In(<<>>, m)
    BY <2>2 DEF In
  <2>4. Count(<<>>, Resets) = 0
    BY <2>2, <2>3, CountIsNumber
  <2>5. QED
    BY <1>9, <2>1, <2>2, <2>3, <2>4
<1>10. QED
  BY <1>8, <1>9

Pending(s) == IF s.rebuild = {} THEN 0 ELSE 1

(* One drain of the tokenizer: the wires it cuts and joins, what reaches    *)
(* the scheduler and what the scheduler makes of it.                       *)
Drained(client, left, result, rest, replies, errors, arrived, aborts, bad, long) ==
    /\ client \in Seq(ToTokenizer) /\ left \in Seq(ToTokenizer)
    /\ f2t = client \o left /\ f2t' = left
    /\ result \in Seq(FromBackend) /\ rest \in Seq(FromBackend)
    /\ s2t = result \o rest /\ s2t' = rest \o replies
    /\ replies \in Seq(FromBackend) /\ errors \in Seq(FromBackend)
    /\ t2f' = (t2f \o Moved(result)) \o errors
    /\ \A m : In(errors, m) => \E u \in bad : m = Msg("error", u)
    /\ \A m : In(replies, m) =>
         m.kind = "rebuilt" \/ \E u \in long \ sched.tombs : m = Msg("error", u)
    /\ bad \subseteq Uids /\ arrived \subseteq Uids /\ long \subseteq arrived
    /\ \A u \in bad \cup arrived : In(client, Msg("request", u))
    /\ bad \cap arrived = {}
    /\ aborts \subseteq Uids /\ \A u \in aborts : In(client, Msg("abort", u))
    /\ sched' = [stage |-> sched'.stage, tombs |-> (sched.tombs \ arrived) \cup aborts,
                 acks |-> sched.acks \cup aborts, rebuild |-> sched'.rebuild]
    /\ sched'.stage = [u \in Uids |->
          IF u \in aborts /\ (u \in arrived \/ sched.stage[u] # "none") THEN "gone"
          ELSE IF u \notin arrived THEN sched.stage[u]
          ELSE IF u \in sched.tombs \cup long THEN "gone" ELSE "queued"]
    /\ sched'.rebuild \subseteq Rebuilds
    /\ Count(replies, Resets) + Pending(sched') <= Count(client, Resets) + Pending(sched)

(* Nothing is on an empty wire.                                            *)
LEMMA EmptyWire ==
  ASSUME NEW T
  PROVE  <<>> \in Seq(T) /\ (\A m : ~In(<<>>, m)) /\ \A M : Count(<<>>, M) = 0
<1>1. <<>> \in Seq(T) /\ Len(<<>>) = 0
  OBVIOUS
<1>2. \A m : ~In(<<>>, m)
  BY <1>1 DEF In
<1>3. ASSUME NEW M PROVE Count(<<>>, M) = 0
  BY <1>1, <1>2, CountIsNumber
<1>4. QED
  BY <1>1, <1>2, <1>3

(* What reaches the scheduler.                                             *)
LEMMA SchedulerDrain ==
  ASSUME Types, NEW client \in Seq(ToTokenizer), NEW us \in SUBSET Uids,
         NEW long, NEW aborts \in SUBSET Uids,
         sched' = _process_one_msg(sched, OfKind(client, {"rebuild"}), us, long, aborts)
  PROVE  /\ sched' = [stage |-> sched'.stage, tombs |-> (sched.tombs \ us) \cup aborts,
                      acks |-> sched.acks \cup aborts, rebuild |-> sched'.rebuild]
         /\ sched'.stage = [u \in Uids |->
               IF u \in aborts /\ (u \in us \/ sched.stage[u] # "none") THEN "gone"
               ELSE IF u \notin us THEN sched.stage[u]
               ELSE IF u \in sched.tombs \cup long THEN "gone" ELSE "queued"]
         /\ sched'.rebuild \subseteq Rebuilds
         /\ (IF Busy(sched) THEN Count(client, Resets) ELSE 0) + Pending(sched')
              <= Count(client, Resets) + Pending(sched)
<1> DEFINE resets == OfKind(client, {"rebuild"})
           s1 == Rebuilding(sched, resets)
           s2 == Received(s1, us, long)
<1>1. sched = [stage |-> sched.stage, tombs |-> sched.tombs, acks |-> sched.acks,
               rebuild |-> sched.rebuild]
      /\ sched.stage \in [Uids -> {"none", "queued", "running", "gone"}]
      /\ sched.rebuild \subseteq Rebuilds
  BY DEF Types, Engines
<1>2. /\ resets \in Seq(ToTokenizer)
      /\ \A m : In(resets, m) <=> In(client, m) /\ m.kind \in {"rebuild"}
  BY OfKindFacts
<1>3. resets # <<>> => Last(resets).id \in Rebuilds /\ Count(client, Resets) \in Nat \ {0}
  <2>1. SUFFICES ASSUME resets # <<>>
                 PROVE  Last(resets).id \in Rebuilds /\ Count(client, Resets) \in Nat \ {0}
    OBVIOUS
  <2>2. Len(resets) \in Nat \ {0} /\ Last(resets) = resets[Len(resets)]
    BY <1>2, <2>1 DEF Last
  <2> HIDE DEF resets
  <2>3. In(resets, Last(resets))
    BY <2>2 DEF In
  <2>4. In(client, Last(resets)) /\ Last(resets).kind = "rebuild"
    BY <1>2, <2>3
  <2>5. Last(resets) \in ToTokenizer
    BY <2>4 DEF In
  <2>6. Last(resets) \in Resets /\ Last(resets).id \in Rebuilds
    BY <2>4, <2>5 DEF ToTokenizer, Resets, Msg
  <2>7. QED
    BY <2>4, <2>6, CountIsNumber
<1> HIDE DEF resets
<1> DEFINE rb == IF Busy(sched) \/ resets = <<>> THEN sched.rebuild ELSE {Last(resets).id}
<1>4. s1 = [stage |-> sched.stage, tombs |-> sched.tombs, acks |-> sched.acks, rebuild |-> rb]
  BY <1>1 DEF Rebuilding
<1>4a. rb \subseteq Rebuilds /\ (Busy(sched) \/ resets = <<>> => rb = sched.rebuild)
  BY <1>1, <1>3
<1> HIDE DEF s1, rb
<1>5. s2 = [stage |-> [u \in Uids |-> IF u \notin us THEN sched.stage[u]
                          ELSE IF u \in sched.tombs \cup long THEN "gone" ELSE "queued"],
            tombs |-> sched.tombs \ us, acks |-> sched.acks, rebuild |-> rb]
  <2>1. s1.stage = sched.stage /\ s1.tombs = sched.tombs
    BY <1>4
  <2> DEFINE f == [u \in Uids |-> IF u \notin us THEN s1.stage[u]
                                  ELSE IF u \in s1.tombs \cup long THEN "gone" ELSE "queued"]
             g == [u \in Uids |-> IF u \notin us THEN sched.stage[u]
                                  ELSE IF u \in sched.tombs \cup long THEN "gone" ELSE "queued"]
  <2>2. f = g
    BY <2>1
  <2>3. s2 = [s1 EXCEPT !.tombs = s1.tombs \ us, !.stage = f]
    BY DEF Received, s2
  <2> HIDE DEF f
  <2>4. s2 = [stage |-> f, tombs |-> sched.tombs \ us, acks |-> sched.acks, rebuild |-> rb]
    BY <1>4, <2>1, <2>3
  <2>5. QED
    BY <2>2, <2>4
<1> HIDE DEF s2
<1>6. sched' = Aborted(s2, aborts)
  BY DEF _process_one_msg, s2, s1, resets
<1>7. sched' = [stage |-> [u \in Uids |-> IF u \in aborts /\ s2.stage[u] # "none"
                                          THEN "gone" ELSE s2.stage[u]],
                tombs |-> (sched.tombs \ us) \cup aborts,
                acks |-> sched.acks \cup aborts, rebuild |-> rb]
  BY <1>5, <1>6 DEF Aborted
<1>8. sched'.rebuild = rb /\ rb \subseteq Rebuilds
  BY <1>4a, <1>7
<1>9. sched'.stage = [u \in Uids |->
               IF u \in aborts /\ (u \in us \/ sched.stage[u] # "none") THEN "gone"
               ELSE IF u \notin us THEN sched.stage[u]
               ELSE IF u \in sched.tombs \cup long THEN "gone" ELSE "queued"]
  BY <1>5, <1>7
<1>10. (IF Busy(sched) THEN Count(client, Resets) ELSE 0) + Pending(sched')
              <= Count(client, Resets) + Pending(sched)
  <2>1. Count(client, Resets) \in Nat
    BY CountIsNumber
  <2>2. Pending(sched') = IF rb = {} THEN 0 ELSE 1
    BY <1>8 DEF Pending
  <2>3. Pending(sched) \in {0, 1}
    BY DEF Pending
  <2>4. CASE Busy(sched) \/ resets = <<>>
    <3>1. Pending(sched') = Pending(sched)
      BY <1>4a, <2>2, <2>4 DEF Pending
    <3>2. QED
      BY <2>1, <2>3, <3>1
  <2>5. CASE ~(Busy(sched) \/ resets = <<>>)
    BY <1>3, <2>1, <2>2, <2>3, <2>5
  <2>6. QED
    BY <2>4, <2>5
<1>11. sched' = [stage |-> sched'.stage, tombs |-> (sched.tombs \ us) \cup aborts,
                 acks |-> sched.acks \cup aborts, rebuild |-> sched'.rebuild]
  <2>1. PICK g : sched' = [stage |-> g, tombs |-> (sched.tombs \ us) \cup aborts,
                           acks |-> sched.acks \cup aborts, rebuild |-> rb]
    BY <1>7
  <2>2. sched'.stage = g /\ sched'.rebuild = rb
    BY <2>1
  <2>3. QED
    BY <2>1, <2>2, Zenon
<1>12. QED
  BY <1>8, <1>9, <1>10, <1>11, Zenon

(* What tokenize_worker sends for a drain of n and k messages.             *)
Sends(n, k, bad, long) ==
    LET client == SubSeq(f2t, 1, n)
        result == SubSeq(s2t, 1, k)
        rest   == SubSeq(s2t, k + 1, Len(s2t))
        asked  == Named(client, "request")
    IN  /\ IF "scheduler" \in alive
           THEN /\ sched' = _process_one_msg(sched, OfKind(client, {"rebuild"}),
                                asked \ bad, long, Named(client, "abort"))
                /\ s2t' = rest \o ReplyNow(client, long, sched)
           ELSE sched' = sched /\ s2t' = rest
        /\ t2f' = t2f \o OfKind(result, {"rebuilt", "rebuild_failed"})
                      \o _send_generation_replies(result)
                      \o Refusals(client, bad)
Drains(n, k) ==
    LET asked == Named(SubSeq(f2t, 1, n), "request")
    IN  \E bad \in SUBSET (asked \cap budget.rejects) :
        \E long \in SUBSET ((asked \cap budget.rejects) \ bad) : Sends(n, k, bad, long)

(* A step of the tokenizer is a drain.                                     *)
LEMMA TokenizerDrain ==
  ASSUME Types, tokenize_worker
  PROVE  \E client, left, result, rest, replies, errors, arrived, aborts, bad, long :
           Drained(client, left, result, rest, replies, errors, arrived, aborts, bad, long)
<1>0. PICK n \in 0 .. Len(f2t), k \in 0 .. Len(s2t) :
        Drains(n, k) /\ f2t' = SubSeq(f2t, n + 1, Len(f2t))
  BY Zenon DEF tokenize_worker, Drains, Sends
<1> DEFINE client == SubSeq(f2t, 1, n)
           left   == SubSeq(f2t, n + 1, Len(f2t))
           result == SubSeq(s2t, 1, k)
           rest   == SubSeq(s2t, k + 1, Len(s2t))
           asked  == Named(client, "request")
<1>1. PICK bad \in SUBSET (asked \cap budget.rejects) :
        \E long \in SUBSET ((asked \cap budget.rejects) \ bad) : Sends(n, k, bad, long)
  BY <1>0 DEF Drains
<1>1a. PICK long \in SUBSET ((asked \cap budget.rejects) \ bad) : Sends(n, k, bad, long)
  BY <1>1
<1>2. /\ IF "scheduler" \in alive
         THEN /\ sched' = _process_one_msg(sched, OfKind(client, {"rebuild"}),
                              asked \ bad, long, Named(client, "abort"))
              /\ s2t' = rest \o ReplyNow(client, long, sched)
         ELSE sched' = sched /\ s2t' = rest
      /\ t2f' = t2f \o OfKind(result, {"rebuilt", "rebuild_failed"})
                    \o _send_generation_replies(result) \o Refusals(client, bad)
      /\ f2t' = left
      /\ bad \subseteq asked /\ long \subseteq asked \ bad
  BY <1>0, <1>1a DEF Sends
<1>3. /\ f2t' = left
      /\ client \in Seq(ToTokenizer) /\ left \in Seq(ToTokenizer) /\ f2t = client \o left
      /\ result \in Seq(FromBackend) /\ rest \in Seq(FromBackend) /\ s2t = result \o rest
  BY <1>2, CutFacts DEF Types
<1> HIDE DEF client, left, result, rest
<1>4. /\ asked \subseteq Uids /\ Named(client, "abort") \subseteq Uids
      /\ \A u \in asked : In(client, Msg("request", u))
      /\ \A u \in Named(client, "abort") : In(client, Msg("abort", u))
  <2>1. \A m : m \in Range(client) <=> In(client, m)
    BY <1>3, InRange
  <2>2. QED
    BY <2>1 DEF Named
<1> HIDE DEF asked
<1> DEFINE errors == Refusals(client, bad)
<1>5. /\ errors \in Seq(FromBackend)
      /\ \A m : In(errors, m) => \E u \in bad : m = Msg("error", u)
      /\ bad \subseteq Uids /\ bad \subseteq asked /\ long \subseteq asked \ bad
  <2>1. bad \in SUBSET Uids
    BY <1>2, <1>4
  <2>2. QED
    BY <1>2, <1>3, <2>1, RefusalsFacts
<1>6. t2f' = (t2f \o Moved(result)) \o errors
  <2>1. /\ t2f \in Seq(FromBackend)
        /\ OfKind(result, {"rebuilt", "rebuild_failed"}) \in Seq(FromBackend)
        /\ OfKind(result, {"admitted"}) \in Seq(FromBackend)
        /\ OfKind(result, {"token", "final"}) \in Seq(FromBackend)
        /\ OfKind(result, {"error"}) \in Seq(FromBackend)
    BY <1>3, OfKindFacts DEF Types
  <2>2. _send_generation_replies(result) \in Seq(FromBackend)
    BY <2>1 DEF _send_generation_replies
  <2> DEFINE a == OfKind(result, {"rebuilt", "rebuild_failed"})
             b == _send_generation_replies(result)
  <2>3. t2f' = ((t2f \o a) \o b) \o errors /\ Moved(result) = a \o b
    BY <1>2 DEF Moved
  <2>4. a \in Seq(FromBackend) /\ b \in Seq(FromBackend) /\ t2f \in Seq(FromBackend)
    BY <2>1, <2>2
  <2> HIDE DEF a, b
  <2>5. (t2f \o a) \o b = t2f \o (a \o b)
    BY <2>4, ConcatAssociative, SMTT(30)
  <2>6. QED
    BY <2>3, <2>5
<1> HIDE DEF errors
<1>7. CASE "scheduler" \in alive
  <2> DEFINE us      == asked \ bad
             aborts  == Named(client, "abort")
             replies == ReplyNow(client, long, sched)
             first   == Refused(client, sched)
             second  == Refusals(client, long \ sched.tombs)
  <2>1. /\ sched' = _process_one_msg(sched, OfKind(client, {"rebuild"}), us, long, aborts)
        /\ s2t' = rest \o replies
    BY <1>2, <1>7
  <2>2. replies = first \o second
    BY DEF ReplyNow
  <2>3. /\ us \in SUBSET Uids /\ aborts \in SUBSET Uids /\ long \subseteq us
        /\ \A u \in bad \cup us : In(client, Msg("request", u))
        /\ bad \cap us = {}
        /\ \A u \in aborts : In(client, Msg("abort", u))
    BY <1>4, <1>5
  <2>4. /\ first \in Seq(FromBackend) /\ \A m : In(first, m) => m.kind = "rebuilt"
        /\ Count(first, Resets) = IF Busy(sched) THEN Count(client, Resets) ELSE 0
    BY <1>3, RefusedFacts
  <2>5. /\ second \in Seq(FromBackend)
        /\ \A m : In(second, m) => \E u \in long \ sched.tombs : m = Msg("error", u)
    <3>1. long \ sched.tombs \in SUBSET Uids
      BY <2>3
    <3>2. QED
      BY <1>3, <3>1, RefusalsFacts
  <2> HIDE DEF us, aborts, replies, first, second
  <2>6. /\ replies \in Seq(FromBackend)
        /\ \A m : In(replies, m) =>
             m.kind = "rebuilt" \/ \E u \in long \ sched.tombs : m = Msg("error", u)
    BY <2>2, <2>4, <2>5, InJoined
  <2>7. Count(replies, Resets) = Count(first, Resets)
    <3>1. \A m \in Resets : ~In(second, m)
      BY <2>5 DEF Resets, Msg, Control
    <3>2. Count(second, Resets) = 0 /\ Count(first, Resets) \in Nat
      BY <2>4, <2>5, <3>1, CountIsNumber
    <3>3. Count(first \o second, Resets) = Count(first, Resets) + Count(second, Resets)
      BY <2>4, <2>5, CountJoined
    <3>4. QED
      BY <2>2, <3>2, <3>3
  <2>8. /\ sched' = [stage |-> sched'.stage, tombs |-> (sched.tombs \ us) \cup aborts,
                     acks |-> sched.acks \cup aborts, rebuild |-> sched'.rebuild]
        /\ sched'.stage = [u \in Uids |->
               IF u \in aborts /\ (u \in us \/ sched.stage[u] # "none") THEN "gone"
               ELSE IF u \notin us THEN sched.stage[u]
               ELSE IF u \in sched.tombs \cup long THEN "gone" ELSE "queued"]
        /\ sched'.rebuild \subseteq Rebuilds
        /\ (IF Busy(sched) THEN Count(client, Resets) ELSE 0) + Pending(sched')
              <= Count(client, Resets) + Pending(sched)
    BY <1>3, <2>1, <2>3, SchedulerDrain
  <2>9. Drained(client, left, result, rest, replies, errors, us, aborts, bad, long)
    BY <1>3, <1>5, <1>6, <2>1, <2>3, <2>4, <2>6, <2>7, <2>8 DEF Drained
  <2>10. QED
    BY <2>9
<1>8. CASE "scheduler" \notin alive
  <2>1. sched' = sched /\ s2t' = rest
    BY <1>2, <1>8
  <2>2. rest \o <<>> = rest /\ <<>> \in Seq(FromBackend)
    BY <1>3
  <2>3. (\A m : ~In(<<>>, m)) /\ Count(<<>>, Resets) = 0 /\ Count(client, Resets) \in Nat
    BY <1>3, EmptyWire, CountIsNumber
  <2>4. /\ sched' = [stage |-> sched'.stage, tombs |-> (sched.tombs \ {}) \cup {},
                     acks |-> sched.acks \cup {}, rebuild |-> sched'.rebuild]
        /\ sched'.stage = [u \in Uids |->
               IF u \in {} /\ (u \in {} \/ sched.stage[u] # "none") THEN "gone"
               ELSE IF u \notin {} THEN sched.stage[u]
               ELSE IF u \in sched.tombs \cup {} THEN "gone" ELSE "queued"]
        /\ sched'.rebuild \subseteq Rebuilds
    BY <2>1 DEF Types, Engines
  <2>5. Count(<<>>, Resets) + Pending(sched') <= Count(client, Resets) + Pending(sched)
    BY <2>1, <2>3 DEF Pending
  <2>6. s2t' = rest \o <<>>
    BY <2>1, <2>2
  <2>7. Drained(client, left, result, rest, <<>>, errors, {}, {}, bad, {})
    BY <1>3, <1>4, <1>5, <1>6, <2>2, <2>3, <2>4, <2>5, <2>6 DEF Drained
  <2>8. QED
    BY <2>7
<1>9. QED
  BY <1>7, <1>8


-----------------------------------------------------------------------------
(* The kinds of message, and what a step does to the wires.                *)

(* The class of a message from the backend is its kind.                    *)
LEMMA FromKinds ==
  ASSUME NEW m \in FromBackend
  PROVE  /\ m = Msg(m.kind, m.id) /\ m.kind \in Replies \cup Control
         /\ m.kind \in Replies => m.id \in Uids
         /\ m.kind \in Control => m.id \in Rebuilds
         /\ \A u : m \in Ending(u) <=> m.kind \in {"final", "error"} /\ m.id = u
         /\ \A u : m \in Counted(u) <=> m.kind \in {"admitted", "token", "final"} /\ m.id = u
         /\ \A u : m \in SamplesOf(u) <=> m.kind \in {"token", "final"} /\ m.id = u
         /\ m \in Admissions <=> m.kind = "admitted"
         /\ m \in Samples <=> m.kind \in {"token", "final"}
         /\ m \in Resets <=> m.kind \in Control
<1>1. /\ m = Msg(m.kind, m.id) /\ m.kind \in Replies \cup Control
      /\ m.kind \in Replies => m.id \in Uids
      /\ m.kind \in Control => m.id \in Rebuilds
  BY DEF FromBackend, Msg, Replies, Control
<1>2. PICK k, i : m = Msg(k, i) /\ m.kind = k /\ m.id = i
  BY <1>1 DEF Msg
<1>3. /\ \A u : m \in SamplesOf(u) <=> m.kind \in {"token", "final"} /\ m.id = u
      /\ \A u : m \in Ending(u) <=> m.kind \in {"final", "error"} /\ m.id = u
  BY <1>2 DEF Ending, SamplesOf, Msg
<1>4. \A u : m \in Counted(u) <=> m.kind \in {"admitted", "token", "final"} /\ m.id = u
  BY <1>2, <1>3 DEF Counted, Msg
<1>5. m \in Admissions <=> m.kind = "admitted"
  BY <1>1 DEF Admissions, Msg, Replies
<1>6. m \in Samples <=> m.kind \in {"token", "final"}
  BY <1>1 DEF Samples, Msg, Replies
<1>7. m \in Resets <=> m.kind \in Control
  BY <1>1 DEF Resets, Msg, Replies, Control
<1>8. QED
  BY <1>1, <1>3, <1>4, <1>5, <1>6, <1>7

(* So is that of a message to the tokenizer.                               *)
LEMMA ToKinds ==
  ASSUME NEW m \in ToTokenizer
  PROVE  /\ m = Msg(m.kind, m.id) /\ m.kind \in {"request", "abort", "rebuild"}
         /\ m.kind \in {"request", "abort"} => m.id \in Uids
         /\ m.kind = "rebuild" => m.id \in Rebuilds
         /\ m \in Resets <=> m.kind = "rebuild"
<1>1. /\ m = Msg(m.kind, m.id) /\ m.kind \in {"request", "abort", "rebuild"}
      /\ m.kind \in {"request", "abort"} => m.id \in Uids
      /\ m.kind = "rebuild" => m.id \in Rebuilds
  BY DEF ToTokenizer, Msg
<1>2. m \in Resets <=> m.kind = "rebuild"
  BY <1>1 DEF Resets, Msg, Control
<1>3. QED
  BY <1>1, <1>2

(* The listener takes the oldest message of its wire.                      *)
LEMMA Heard ==
  ASSUME Types, Order, t2f # <<>>, t2f' = Tail(t2f)
  PROVE  /\ Head(t2f) \in FromBackend /\ t2f' \in Seq(FromBackend)
         /\ \A x : In(t2f, x) <=> In(t2f', x) \/ x = Head(t2f)
         /\ Orderly(t2f')
         /\ \A u \in Uids : Head(t2f) \in Ending(u) =>
              \A x \in Counted(u) : ~In(t2f', x) /\ ~In(s2t, x)
<1>1. t2f \in Seq(FromBackend) /\ Orderly(t2f) /\ Before(t2f, s2t)
  BY DEF Types, Order
<1>2. /\ Head(t2f) \in FromBackend /\ t2f' \in Seq(FromBackend)
      /\ \A x : In(t2f, x) <=> In(t2f', x) \/ x = Head(t2f)
      /\ Orderly(t2f')
      /\ \A u \in Uids : Head(t2f) \in Ending(u) => \A x \in Counted(u) : ~In(t2f', x)
  BY <1>1, Headed
<1>3. In(t2f, Head(t2f))
  BY <1>2
<1>4. QED
  BY <1>1, <1>2, <1>3 DEF Before

(* The same for what counts.                                               *)
LEMMA HeardCount ==
  ASSUME Types, t2f # <<>>, t2f' = Tail(t2f), NEW M
  PROVE  /\ Count(t2f', M) \in Nat
         /\ Count(t2f, M) = Count(t2f', M) + (IF Head(t2f) \in M THEN 1 ELSE 0)
<1>1. t2f \in Seq(FromBackend)
  BY DEF Types
<1>2. t2f' \in Seq(FromBackend)
  BY <1>1, Wires
<1>3. Count(t2f', M) \in Nat
  BY <1>2, CountIsNumber
<1>4. Count(t2f, M) = Count(t2f', M) + (IF Head(t2f) \in M THEN 1 ELSE 0)
  BY <1>1, CountHeaded
<1>5. QED
  BY <1>3, <1>4

(* The scheduler sends a message.                                          *)
LEMMA Sent ==
  ASSUME Types, NEW m \in FromBackend, s2t' = Append(s2t, m)
  PROVE  /\ s2t' \in Seq(FromBackend)
         /\ \A x : In(s2t', x) <=> In(s2t, x) \/ x = m
         /\ (\A u \in Uids : m \in Counted(u) => \A x \in Ending(u) : ~In(s2t, x))
              => (Orderly(s2t) => Orderly(s2t'))
<1>1. s2t \in Seq(FromBackend)
  BY DEF Types
<1>2. QED
  BY <1>1, Appended

(* The same for what counts.                                               *)
LEMMA SentCount ==
  ASSUME Types, NEW m \in FromBackend, s2t' = Append(s2t, m), NEW M
  PROVE  /\ Count(s2t', M) = Count(s2t, M) + (IF m \in M THEN 1 ELSE 0)
         /\ Count(s2t, M) \in Nat
<1>1. s2t \in Seq(FromBackend)
  BY DEF Types
<1>2. QED
  BY <1>1, CountAppended, CountIsNumber

(* The acknowledgements of a batch are errors, one for each abort.          *)
LEMMA Flushed ==
  ASSUME Types, FlushAcks
  PROVE  \E acks \in Seq(FromBackend) :
           /\ s2t' = s2t \o acks
           /\ \A x : In(acks, x) => \E u \in sched.acks : x = Msg("error", u)
<1>1. PICK order \in [1 .. Cardinality(sched.acks) -> sched.acks] :
         s2t' = s2t \o [k \in DOMAIN order |-> Msg("error", order[k])]
  BY DEF FlushAcks
<1> DEFINE n == Cardinality(sched.acks)
           acks == [k \in DOMAIN order |-> Msg("error", order[k])]
<1>2. sched.acks \subseteq Uids
  BY DEF Types, Engines
<1>3. n \in Nat
  <2>1. IsFiniteSet(sched.acks)
    <3>1. Uids \subseteq Nat /\ IsFiniteSet(Uids)
      BY FrontendConstants
    <3>2. QED
      BY <1>2, <3>1, FS_Subset
  <2>2. QED
    BY <2>1, FS_CardinalityType
<1> HIDE DEF n
<1>4. DOMAIN order = 1 .. n /\ \A k \in 1 .. n : order[k] \in sched.acks
  BY <1>1 DEF n
<1>5. \A k \in 1 .. n : acks[k] = Msg("error", order[k]) /\ acks[k] \in FromBackend
  BY <1>2, <1>4 DEF FromBackend, Replies
<1>6. acks \in Seq(FromBackend) /\ Len(acks) = n
  <2>1. acks \in [1 .. n -> FromBackend]
    BY <1>4, <1>5
  <2> HIDE DEF acks
  <2>2. acks \in Seq(FromBackend)
    BY <1>3, <2>1, SeqDef
  <2>3. QED
    BY <1>3, <2>1, <2>2
<1>7. \A x : In(acks, x) => \E u \in sched.acks : x = Msg("error", u)
  BY <1>4, <1>5, <1>6 DEF In
<1>8. s2t' = s2t \o acks
  BY <1>1
<1> HIDE DEF acks
<1>9. QED
  BY <1>6, <1>7, <1>8

(* A drain loses nothing of what the scheduler sent, and adds answers that  *)
(* count nothing.                                                          *)
LEMMA DrainWires ==
  ASSUME NEW client, NEW left, NEW result, NEW rest, NEW replies, NEW errors,
         NEW arrived, NEW aborts, NEW bad, NEW long,
         Types, Drained(client, left, result, rest, replies, errors, arrived, aborts, bad, long)
  PROVE  /\ \A x : In(f2t, x) <=> In(client, x) \/ In(left, x)
         /\ \A x : In(s2t, x) <=> In(result, x) \/ In(rest, x)
         /\ \A x : In(t2f', x) <=> In(t2f, x) \/ In(result, x) \/ In(errors, x)
         /\ \A x : In(s2t', x) <=> In(rest, x) \/ In(replies, x)
         /\ t2f' \in Seq(FromBackend) /\ s2t' \in Seq(FromBackend)
<1>1. \A x : In(f2t, x) <=> In(client, x) \/ In(left, x)
  BY InJoined DEF Drained
<1>2. \A x : In(s2t, x) <=> In(result, x) \/ In(rest, x)
  BY InJoined DEF Drained
<1>3. s2t' \in Seq(FromBackend) /\ \A x : In(s2t', x) <=> In(rest, x) \/ In(replies, x)
  BY InJoined DEF Drained
<1> DEFINE moved == Moved(result)
           a == t2f \o moved
<1>4. moved \in Seq(FromBackend) /\ \A x : In(moved, x) <=> In(result, x)
  BY MovedFacts DEF Drained
<1>5. t2f \in Seq(FromBackend) /\ errors \in Seq(FromBackend) /\ t2f' = a \o errors
  BY DEF Drained, Types
<1> HIDE DEF moved
<1>6. a \in Seq(FromBackend) /\ \A x : In(a, x) <=> In(t2f, x) \/ In(moved, x)
  BY <1>4, <1>5, InJoined
<1> HIDE DEF a
<1>7. t2f' \in Seq(FromBackend) /\ \A x : In(t2f', x) <=> In(a, x) \/ In(errors, x)
  BY <1>5, <1>6, InJoined
<1>8. QED
  BY <1>1, <1>2, <1>3, <1>4, <1>6, <1>7

(* The same for what counts.                                               *)
LEMMA DrainCounts ==
  ASSUME NEW client, NEW left, NEW result, NEW rest, NEW replies, NEW errors,
         NEW arrived, NEW aborts, NEW bad, NEW long,
         Types, Drained(client, left, result, rest, replies, errors, arrived, aborts, bad, long)
  PROVE  \A M :
           /\ Count(f2t, M) = Count(client, M) + Count(f2t', M)
           /\ Count(s2t, M) = Count(result, M) + Count(rest, M)
           /\ Count(t2f', M) = Count(t2f, M) + Count(result, M) + Count(errors, M)
           /\ Count(s2t', M) = Count(rest, M) + Count(replies, M)
           /\ Count(client, M) \in Nat /\ Count(f2t', M) \in Nat /\ Count(result, M) \in Nat
           /\ Count(rest, M) \in Nat /\ Count(replies, M) \in Nat /\ Count(errors, M) \in Nat
           /\ Count(t2f, M) \in Nat
<1>0. SUFFICES ASSUME NEW M
      PROVE  /\ Count(f2t, M) = Count(client, M) + Count(f2t', M)
             /\ Count(s2t, M) = Count(result, M) + Count(rest, M)
             /\ Count(t2f', M) = Count(t2f, M) + Count(result, M) + Count(errors, M)
             /\ Count(s2t', M) = Count(rest, M) + Count(replies, M)
             /\ Count(client, M) \in Nat /\ Count(f2t', M) \in Nat /\ Count(result, M) \in Nat
             /\ Count(rest, M) \in Nat /\ Count(replies, M) \in Nat /\ Count(errors, M) \in Nat
             /\ Count(t2f, M) \in Nat
  OBVIOUS
<1>1. /\ client \in Seq(ToTokenizer) /\ left \in Seq(ToTokenizer)
      /\ result \in Seq(FromBackend) /\ rest \in Seq(FromBackend)
      /\ replies \in Seq(FromBackend) /\ errors \in Seq(FromBackend)
      /\ t2f \in Seq(FromBackend)
      /\ f2t = client \o left /\ f2t' = left /\ s2t = result \o rest
      /\ s2t' = rest \o replies /\ t2f' = (t2f \o Moved(result)) \o errors
  BY DEF Drained, Types
<1>2. /\ Count(client, M) \in Nat /\ Count(left, M) \in Nat
      /\ Count(result, M) \in Nat /\ Count(rest, M) \in Nat
      /\ Count(replies, M) \in Nat /\ Count(errors, M) \in Nat
      /\ Count(t2f, M) \in Nat
  BY <1>1, CountIsNumber
<1>3. /\ Count(f2t, M) = Count(client, M) + Count(left, M)
      /\ Count(s2t, M) = Count(result, M) + Count(rest, M)
      /\ Count(s2t', M) = Count(rest, M) + Count(replies, M)
  BY <1>1, CountJoined
<1> DEFINE moved == Moved(result)
           a == t2f \o moved
<1>4. moved \in Seq(FromBackend) /\ Count(moved, M) = Count(result, M)
  BY <1>1, MovedFacts, MovedCount
<1> HIDE DEF moved
<1>5. a \in Seq(FromBackend) /\ Count(a, M) = Count(t2f, M) + Count(moved, M)
  BY <1>1, <1>4, InJoined, CountJoined
<1>6. t2f' = a \o errors
  BY <1>1 DEF moved
<1> HIDE DEF a
<1>7. Count(t2f', M) = Count(a, M) + Count(errors, M)
  BY <1>1, <1>5, <1>6, CountJoined
<1>8. Count(t2f', M) = Count(t2f, M) + Count(result, M) + Count(errors, M)
  BY <1>4, <1>5, <1>7
<1>9. QED
  BY <1>1, <1>2, <1>3, <1>8

-----------------------------------------------------------------------------
(* The types.                                                              *)

(* A request's own tasks keep them.                                        *)
LEMMA TypesByRequests ==
  ASSUME Types, Requests
  PROVE  Types'
<1>1. PICK u \in Uids : \/ new_user(u) \/ ConsumerStart(u) \/ ConsumerTake(u)
                        \/ Disconnect(u) \/ abort_user(u)
                        \/ RequestUnsent(u) \/ AbortUnsent(u)
  BY DEF Requests
<1>2. CASE new_user(u)
  <2>1. Msg("request", u) \in ToTokenizer
    BY DEF ToTokenizer
  <2>2. stats' \in Figures /\ stats'.aborting \subseteq stats'.inflight
    BY <1>2 DEF new_user, Types, Figures
  <2>3. lp' \in Points
    BY <1>2 DEF new_user, Types, LoopTypes, Points, Free, Msg
  <2>4. QED
    BY <1>2, <2>1, <2>2, <2>3 DEF new_user, Types, LoopTypes, Free, At, LoopFree, taskvars, stopvars, wires, back, SchedVars
<1>3. CASE ConsumerStart(u)
  BY <1>3 DEF ConsumerStart, Types, LoopTypes, Free, At, LoopFree, taskvars, stopvars, wires, back, SchedVars
<1>4. CASE ConsumerTake(u)
  <2>1. CASE u \notin mapped
    <3>1. /\ http' = [http EXCEPT ![u] = "broken"] /\ event' = event \ {u}
          /\ UNCHANGED <<mapped, box, got>>
          /\ UNCHANGED <<gate, fatal, lp, sup, failing, genfailed, stats, sleeping,
                         stopvars, rebuild, wires, back, term, down, budget>>
      BY <1>4, <2>1 DEF ConsumerTake
    <3>2. http' \in [Uids -> {"none", "open", "waiting", "ended", "broken", "left", "unsent"}]
      BY <3>1 DEF Types
    <3>3. QED
      BY <3>1, <3>2 DEF Types, LoopTypes, stopvars, wires, back
  <2>2. CASE u \in mapped
    <3> DEFINE taken == box[u]
               ends  == taken # <<>> /\ Last(taken) \in {"final", "error"}
               count == Count(taken, {"token", "final"})
    <3>1. /\ http' = [http EXCEPT ![u] = IF ends THEN "ended" ELSE @]
          /\ mapped' = IF ends THEN mapped \ {u} ELSE mapped
          /\ box' = [box EXCEPT ![u] = <<>>]
          /\ got' = [got EXCEPT ![u].delivered = @ + count,
                                ![u].last = IF ends THEN Last(taken) ELSE @]
          /\ event' = event \ {u}
          /\ UNCHANGED <<gate, fatal, lp, sup, failing, genfailed, stats, sleeping,
                         stopvars, rebuild, wires, back, term, down, budget>>
      BY <1>4, <2>2 DEF ConsumerTake, Count
    <3>2. taken \in Seq(Replies)
      BY DEF Types
    <3>3. count \in Nat
      BY <3>2, CountIsNumber
    <3>4. <<>> \in Seq(Replies)
      OBVIOUS
    <3>5. ends => Last(taken) \in {"final", "error"}
      OBVIOUS
    <3> HIDE DEF taken, ends, count
    <3>6. got' \in [Uids -> Streams]
      <4>1. got \in [Uids -> Streams]
        BY DEF Types
      <4> DEFINE l == IF ends THEN Last(taken) ELSE got[u].last
                 g == [sampled |-> got[u].sampled, delivered |-> got[u].delivered + count,
                       last |-> l]
      <4>2. l \in {"none", "final", "error"}
        BY <3>5, <4>1 DEF Streams
      <4>3. got[u].delivered + count \in Nat /\ got[u].sampled \in Nat
        BY <3>3, <4>1 DEF Streams
      <4>4. got[u] = [sampled |-> got[u].sampled, delivered |-> got[u].delivered,
                      last |-> got[u].last]
        BY <4>1 DEF Streams
      <4>5. got' = [got EXCEPT ![u] = [got[u] EXCEPT !.delivered = @ + count, !.last = l]]
        BY <3>1, <4>1, Zenon
      <4> HIDE DEF l
      <4>6. [got[u] EXCEPT !.delivered = @ + count, !.last = l] \in Streams
        BY <4>1, <4>2, <4>3 DEF Streams
      <4>7. QED
        BY <4>1, <4>5, <4>6
    <3>7. box' \in [Uids -> Seq(Replies)]
      BY <3>1, <3>4 DEF Types
    <3>8. http' \in [Uids -> {"none", "open", "waiting", "ended", "broken", "left", "unsent"}]
      BY <3>1 DEF Types
    <3>9. mapped' \subseteq Uids /\ event' \subseteq Uids
      BY <3>1 DEF Types
    <3>10. QED
      BY <3>1, <3>6, <3>7, <3>8, <3>9 DEF Types, LoopTypes, stopvars, wires, back
  <2>3. QED
    BY <2>1, <2>2
<1>5. CASE Disconnect(u)
  BY <1>5 DEF Disconnect, Types, LoopTypes, Free, At, LoopFree, taskvars, stopvars, wires, back, SchedVars
<1>6. CASE abort_user(u)
  <2>1. Msg("abort", u) \in ToTokenizer
    BY DEF ToTokenizer
  <2>2. stats' \in Figures /\ stats'.aborting \subseteq stats'.inflight
    BY <1>6 DEF abort_user, on_abort, Types, Figures
  <2>3. lp' \in Points
    BY <1>6 DEF abort_user, Types, LoopTypes, Points, Free, Msg
  <2>4. prep' \in Steps
    BY <1>6 DEF abort_user, Types, Steps, Figures
  <2>5. QED
    BY <1>6, <2>1, <2>2, <2>3, <2>4 DEF abort_user, Types, LoopTypes, Free, At, LoopFree, taskvars, stopvars, wires, back, SchedVars
<1>7. CASE RequestUnsent(u)
  <2>1. stats' \in Figures /\ stats'.aborting \subseteq stats'.inflight
    BY <1>7 DEF RequestUnsent, Types, Figures
  <2>2. QED
    BY <1>7, <2>1 DEF RequestUnsent, Types, LoopTypes, stopvars, wires, back
<1>8. CASE AbortUnsent(u)
  <2>1. stats' \in Figures /\ stats'.aborting \subseteq stats'.inflight
    BY <1>8 DEF AbortUnsent, on_abort, Types, Figures
  <2>2. prep' \in Steps /\ sleeping' \subseteq Uids
    BY <1>8 DEF AbortUnsent, Types, Steps
  <2>3. QED
    BY <1>8, <2>1, <2>2 DEF AbortUnsent, Types, LoopTypes, wires, back
<1>9. QED
  BY <1>1, <1>2, <1>3, <1>4, <1>5, <1>6, <1>7, <1>8

(* The listener keeps them.                                                *)
LEMMA TypesByListener ==
  ASSUME Types, Order, Listener
  PROVE  Types'
<1>1. CASE listen
  <2> DEFINE m == Head(t2f)
  <2>1. m \in FromBackend /\ t2f' \in Seq(FromBackend)
    BY <1>1, Heard DEF listen
  <2>2. m.kind \in Replies /\ m.id \in Uids
    BY <1>1, <2>1, FromKinds DEF listen, Control
  <2>3. /\ stats' = observe(stats, m)
        /\ box' = IF ~genfailed /\ m.id \in mapped
                  THEN [box EXCEPT ![m.id] = Boxed(@, m)] ELSE box
        /\ event' = IF ~genfailed /\ m.id \in mapped THEN event \cup {m.id} ELSE event
        /\ UNCHANGED <<gate, fatal, lp, sup, failing, genfailed, http, mapped,
                   sleeping, stopvars, rebuild, f2t, s2t, back, term, down, budget, got>>
    BY <1>1 DEF listen
  <2> HIDE DEF m
  <2>4. stats' \in Figures /\ stats'.aborting \subseteq stats'.inflight
    <3>1. stats \in Figures /\ stats.aborting \subseteq stats.inflight
      BY DEF Types
    <3> DEFINE a == IF Terminal(m) THEN stats.inflight \ {m.id} ELSE stats.inflight
               b == IF Terminal(m) THEN stats.aborting \ {m.id} ELSE stats.aborting
               p == stats.prompt + (IF m.kind = "admitted" THEN 1 ELSE 0)
               c == stats.completion + (IF m.kind \in {"token", "final"} THEN 1 ELSE 0)
    <3>2. a \in SUBSET Uids /\ b \in SUBSET Uids /\ b \subseteq a /\ p \in Nat /\ c \in Nat
      BY <3>1 DEF Figures
    <3>3. stats' = [stats EXCEPT !.inflight = a, !.aborting = b, !.prompt = p, !.completion = c]
      BY <2>3 DEF observe
    <3> HIDE DEF a, b, p, c
    <3>4. QED
      BY <3>1, <3>2, <3>3 DEF Figures
  <2>5. box' \in [Uids -> Seq(Replies)]
    BY <2>2, <2>3 DEF Types, Boxed
  <2>6. QED
    BY <2>1, <2>2, <2>3, <2>4, <2>5 DEF Types, LoopTypes, stopvars, back
<1>2. CASE ResolveRebuild
  <2> DEFINE m == Head(t2f)
  <2>1. m \in FromBackend /\ t2f' \in Seq(FromBackend)
    BY <1>2, Heard DEF ResolveRebuild
  <2>2. m.id \in Rebuilds
    BY <1>2, <2>1, FromKinds DEF ResolveRebuild, Control
  <2>3. /\ rebuild' = [rebuild EXCEPT ![m.id] = IF @ = "waiting" THEN "answered" ELSE @]
        /\ \E outcome \in {"serving", "failed"} :
              lp' = [at |-> "resolve", msg |-> Msg(outcome, m.id)]
        /\ UNCHANGED <<gate, fatal, sup, failing, genfailed, taskvars, stats,
                   sleeping, stopvars, f2t, s2t, back, term, down, budget, got>>
    BY <1>2 DEF ResolveRebuild
  <2> HIDE DEF m
  <2>4. lp' \in Points /\ lp'.at = "resolve" /\ lp'.msg.kind \in {"serving", "failed"}
    BY <2>2, <2>3 DEF Points, Msg
  <2>5. rebuild' \in [Rebuilds -> {"none", "waiting", "answered", "timeout"}]
    BY <2>2, <2>3 DEF Types
  <2>6. QED
    BY <2>1, <2>3, <2>4, <2>5 DEF Types, LoopTypes, taskvars, stopvars, back
<1>3. CASE ResolveGate
  <2>1. lp' \in Points
    BY <1>3 DEF ResolveGate, Types, LoopTypes, Points, Free, Msg
  <2>2. QED
    BY <1>3, <2>1 DEF ResolveGate, Types, LoopTypes, Free, At, LoopFree, taskvars, stopvars, wires, back, SchedVars
<1>4. CASE FailPending
  <2>1. box' \in [Uids -> Seq(Replies)]
    BY <1>4 DEF FailPending, Types, Replies
  <2>2. event' \subseteq Uids
    BY <1>4 DEF FailPending, Types
  <2>3. rebuild' \in [Rebuilds -> {"none", "waiting", "answered", "timeout"}]
    BY <1>4 DEF FailPending, Types
  <2>4. failing' \in BOOLEAN /\ genfailed' \in BOOLEAN
    BY <1>4 DEF FailPending
  <2>5. /\ UNCHANGED <<gate, fatal, lp, sup, http, mapped, stats, sleeping,
                       stopvars, wires, back, term, down, budget, got>>
    BY <1>4 DEF FailPending
  <2>6. QED
    BY <2>1, <2>2, <2>3, <2>4, <2>5 DEF Types, LoopTypes, stopvars, wires, back
<1>5. CASE send_one
  <2>1. lp' \in Points
    BY <1>5 DEF send_one, Types, LoopTypes, Points, Free, Msg
  <2>2. lp.msg \in ToTokenizer /\ f2t \in Seq(ToTokenizer)
    BY <1>5 DEF send_one, At, Types, LoopTypes
  <2>3. f2t' \in Seq(ToTokenizer)
    BY <1>5, <2>2 DEF send_one
  <2>4. lp' = Free /\ failing' \in BOOLEAN
    BY <1>5 DEF send_one, Types
  <2>5. UNCHANGED <<gate, fatal, sup, genfailed, taskvars, stats, sleeping,
                    stopvars, rebuild, s2t, t2f, back, term, down, budget, got>>
    BY <1>5 DEF send_one
  <2>6. QED
    BY <2>1, <2>3, <2>4, <2>5 DEF Types, LoopTypes, Free, taskvars, stopvars, back
<1>6. QED
  BY <1>1, <1>2, <1>3, <1>4, <1>5 DEF Listener

(* The barrier keeps them.                                                 *)
LEMMA TypesByPrepare ==
  ASSUME Types, Prepare
  PROVE  Types'
<1>1. CASE PrepareCall
  <2>1. lp' \in Points
    BY <1>1 DEF PrepareCall, Types, LoopTypes, Points, Free, Msg
  <2>2. prep' \in Steps
    BY <1>1 DEF PrepareCall, Types, Steps, Figures
  <2>3. QED
    BY <1>1, <2>1, <2>2 DEF PrepareCall, Types, LoopTypes, Free, At, LoopFree, taskvars, stopvars, wires, back, SchedVars
<1>2. CASE PrepareClose
  <2>1. lp' \in Points
    BY <1>2 DEF PrepareClose, Types, LoopTypes, Points, Free, Msg
  <2>2. QED
    BY <1>2, <2>1 DEF PrepareClose, Types, LoopTypes, Free, At, LoopFree, taskvars, stopvars, wires, back, SchedVars
<1>3. CASE PrepareSeal
  <2>1. prep' \in Steps
    BY <1>3 DEF PrepareSeal, Types, Steps, Figures
  <2>2. QED
    BY <1>3, <2>1 DEF PrepareSeal, Types, LoopTypes, Free, At, LoopFree, taskvars, stopvars, wires, back, SchedVars
<1>4. CASE PrepareAbort
  <2>1. prep' \in Steps
    BY <1>4 DEF PrepareAbort, Types, Steps, Figures
  <2>2. QED
    BY <1>4, <2>1 DEF PrepareAbort, Types, LoopTypes, Free, At, LoopFree, taskvars, stopvars, wires, back, SchedVars
<1>5. CASE PrepareRefuse
  <2>1. prep' \in Steps
    BY <1>5 DEF PrepareRefuse, Types, Steps, Figures
  <2>2. QED
    BY <1>5, <2>1 DEF PrepareRefuse, Types, LoopTypes, Free, At, LoopFree, taskvars, stopvars, wires, back, SchedVars
<1>6. QED
  BY <1>1, <1>2, <1>3, <1>4, <1>5 DEF Prepare

(* The control of rebuilds keeps them.                                     *)
LEMMA TypesByRebuild ==
  ASSUME Types, Rebuild
  PROVE  Types'
<1>1. CASE dispatch_rebuild
  <2>1. lp.msg \in ToTokenizer /\ lp.msg.id \in Rebuilds
    BY <1>1 DEF dispatch_rebuild, At, Types, LoopTypes, ToTokenizer, Points, Msg
  <2>2. lp' \in Points
    BY <1>1 DEF dispatch_rebuild, Types, LoopTypes, Points, Free, Msg
  <2>3. QED
    BY <1>1, <2>1, <2>2 DEF dispatch_rebuild, Types, LoopTypes, Free, At, LoopFree, taskvars, stopvars, wires, back, SchedVars
<1>2. CASE RebuildSendFails
  <2>1. lp' \in Points
    BY <1>2 DEF RebuildSendFails, Types, LoopTypes, Points, Free, Msg
  <2>2. rebuild' \in [Rebuilds -> {"none", "waiting", "answered", "timeout"}]
    BY <1>2 DEF RebuildSendFails, Types
  <2>3. QED
    BY <1>2, <2>1, <2>2 DEF RebuildSendFails, Types, LoopTypes, Free, At, LoopFree, taskvars, stopvars, wires, back, SchedVars
<1>3. ASSUME NEW i \in Rebuilds, RebuildCall(i) PROVE Types'
  <2>1. lp' \in Points
    BY <1>3 DEF RebuildCall, Msg, Types, LoopTypes, Points, Free, Msg
  <2>2. QED
    BY <1>3, <2>1 DEF RebuildCall, Msg, Types, LoopTypes, Free, At, LoopFree, taskvars, stopvars, wires, back, SchedVars
<1>4. ASSUME NEW i \in Rebuilds, RebuildTimeout(i) PROVE Types'
  BY <1>4 DEF RebuildTimeout, Types, LoopTypes, Free, At, LoopFree, taskvars, stopvars, wires, back, SchedVars
<1>5. QED
  BY <1>1, <1>2, <1>3, <1>4 DEF Rebuild

(* The supervisor keeps them.                                              *)
LEMMA TypesBySupervise ==
  ASSUME Types, Supervise
  PROVE  Types'
<1>1. CASE ReadyTest
  BY <1>1 DEF ReadyTest, Types, LoopTypes, Free, At, LoopFree, taskvars, stopvars, wires, back, SchedVars
<1>2. CASE ReadySet
  BY <1>2 DEF ReadySet, Types, LoopTypes, Free, At, LoopFree, taskvars, stopvars, wires, back, SchedVars
<1>3. CASE FindDead
  BY <1>3 DEF FindDead, Types, LoopTypes, Free, At, LoopFree, taskvars, stopvars, wires, back, SchedVars
<1>4. CASE StayQuiet
  BY <1>4 DEF StayQuiet, Types, LoopTypes, Free, At, LoopFree, taskvars, stopvars, wires, back, SchedVars
<1>5. CASE OnFailure
  BY <1>5 DEF OnFailure, Types, LoopTypes, Free, At, LoopFree, taskvars, stopvars, wires, back, SchedVars
<1>6. CASE OnFailureLatch
  BY <1>6 DEF OnFailureLatch, Types, LoopTypes, Free, At, LoopFree, taskvars, stopvars, wires, back, SchedVars
<1>7. QED
  BY <1>1, <1>2, <1>3, <1>4, <1>5, <1>6 DEF Supervise

(* An orderly stop keeps them.                                             *)
LEMMA TypesByStop ==
  ASSUME Types, Stop
  PROVE  Types'
<1>1. CASE Sigterm
  BY <1>1 DEF Sigterm, Stopping, Types, LoopTypes, Free, At, LoopFree, taskvars, stopvars, wires, back, SchedVars
<1>2. CASE ExitAfterDeath
  BY <1>2 DEF ExitAfterDeath, Stopping, Types, LoopTypes, Free, At, LoopFree, taskvars, stopvars, wires, back, SchedVars
<1>3. CASE ShutdownFlag
  BY <1>3 DEF ShutdownFlag, Types, LoopTypes, Free, At, LoopFree, taskvars, stopvars, wires, back, SchedVars
<1>4. CASE ShutdownWorkers
  BY <1>4 DEF ShutdownWorkers, Types, LoopTypes, Free, At, LoopFree, taskvars, stopvars, wires, back, SchedVars
<1>5. QED
  BY <1>1, <1>2, <1>3, <1>4 DEF Stop

(* The scheduler and the tokenizer keep them.                              *)
LEMMA TypesByWorkers ==
  ASSUME Types, tokenize_worker \/ Schedule \/ \E w \in Workers : WorkerDies(w)
  PROVE  Types'
<1>1. CASE tokenize_worker
  <2>1. PICK client, left, result, rest, replies, errors, arrived, aborts, bad, long :
          Drained(client, left, result, rest, replies, errors, arrived, aborts, bad, long)
    BY <1>1, TokenizerDrain
  <2>2. t2f' \in Seq(FromBackend) /\ s2t' \in Seq(FromBackend)
    BY <2>1, DrainWires
  <2>3. f2t' \in Seq(ToTokenizer)
    BY <2>1 DEF Drained
  <2>4. sched' \in Engines
    <3>1. sched'.stage \in [Uids -> {"none", "queued", "running", "gone"}]
      BY <2>1 DEF Drained, Types, Engines
    <3>2. /\ (sched.tombs \ arrived) \cup aborts \in SUBSET Uids
          /\ sched.acks \cup aborts \in SUBSET Uids /\ sched'.rebuild \in SUBSET Rebuilds
      BY <2>1 DEF Drained, Types, Engines
    <3>3. sched' = [stage |-> sched'.stage, tombs |-> (sched.tombs \ arrived) \cup aborts,
                    acks |-> sched.acks \cup aborts, rebuild |-> sched'.rebuild]
      BY <2>1 DEF Drained
    <3>4. PICK a, b, c, d : /\ sched' = [stage |-> a, tombs |-> b, acks |-> c, rebuild |-> d]
                            /\ a = sched'.stage /\ b = (sched.tombs \ arrived) \cup aborts
                            /\ c = sched.acks \cup aborts /\ d = sched'.rebuild
      BY <3>3, Zenon
    <3>5. QED
      BY <3>1, <3>2, <3>4 DEF Engines
  <2>5. UNCHANGED <<gate, fatal, lp, sup, failing, genfailed, taskvars, stats, sleeping,
                   stopvars, rebuild, alive, crashed, reopened, work, term, down, budget, got>>
    BY <1>1 DEF tokenize_worker
  <2>6. QED
    BY <2>2, <2>3, <2>4, <2>5 DEF Types, LoopTypes, taskvars, stopvars
<1>2. CASE FlushAcks
  <2>1. PICK acks \in Seq(FromBackend) : s2t' = s2t \o acks
    BY <1>2, Flushed
  <2>2. s2t' \in Seq(FromBackend)
    BY <2>1 DEF Types
  <2>3. sched' \in Engines
    BY <1>2 DEF FlushAcks, Types, Engines
  <2>4. UNCHANGED <<SchedVars, work, got>>
    BY <1>2 DEF FlushAcks
  <2>5. QED
    BY <2>2, <2>3, <2>4 DEF Types, LoopTypes, taskvars, stopvars, SchedVars
<1>3. ASSUME NEW i \in Rebuilds, ExecuteRebuild(i) PROVE Types'
  <2>1. PICK kind \in {"rebuilt", "rebuild_failed"} : s2t' = Append(s2t, Msg(kind, i))
    BY <1>3 DEF ExecuteRebuild
  <2>2. Msg(kind, i) \in FromBackend
    BY DEF FromBackend, Control
  <2>3. s2t' \in Seq(FromBackend)
    BY <2>1, <2>2 DEF Types
  <2>4. sched' \in Engines
    BY <1>3 DEF ExecuteRebuild, Types, Engines
  <2>5. UNCHANGED <<SchedVars, work, got>>
    BY <1>3 DEF ExecuteRebuild
  <2>6. QED
    BY <2>3, <2>4, <2>5 DEF Types, LoopTypes, taskvars, stopvars, SchedVars
<1>4. ASSUME NEW u \in Uids, AdmitPrompt(u) PROVE Types'
  <2>1. Msg("admitted", u) \in FromBackend
    BY DEF FromBackend, Replies
  <2>2. s2t' \in Seq(FromBackend)
    BY <1>4, <2>1 DEF AdmitPrompt, Types
  <2>3. sched' \in Engines
    BY <1>4 DEF AdmitPrompt, Types, Engines
  <2>4. work' \in Totals
    <3>1. work \in Totals /\ work' = [work EXCEPT !.prompt = @ + 1]
      BY <1>4 DEF AdmitPrompt, Types
    <3>2. work.prompt + 1 \in Nat
      BY <3>1 DEF Totals
    <3>3. QED
      BY <3>1, <3>2 DEF Totals
  <2>5. UNCHANGED <<SchedVars, got>>
    BY <1>4 DEF AdmitPrompt
  <2>6. QED
    BY <2>2, <2>3, <2>4, <2>5 DEF Types, LoopTypes, taskvars, stopvars, SchedVars
<1>5. ASSUME NEW u \in Uids, SampleToken(u) PROVE Types'
  <2>1. PICK kind \in {"token", "final"} :
           /\ s2t' = Append(s2t, Msg(kind, u))
           /\ sched' = [sched EXCEPT !.stage[u] = IF kind = "final" THEN "gone" ELSE @]
    BY <1>5 DEF SampleToken
  <2>2. Msg(kind, u) \in FromBackend
    BY DEF FromBackend, Replies
  <2>3. s2t' \in Seq(FromBackend)
    BY <2>1, <2>2 DEF Types
  <2>4. sched' \in Engines
    BY <2>1 DEF Types, Engines
  <2>5. work' \in Totals
    <3>1. work \in Totals /\ work' = [work EXCEPT !.completion = @ + 1]
      BY <1>5 DEF SampleToken, Types
    <3>2. work.completion + 1 \in Nat
      BY <3>1 DEF Totals
    <3>3. QED
      BY <3>1, <3>2 DEF Totals
  <2>6. got' \in [Uids -> Streams]
    <3>1. got \in [Uids -> Streams] /\ got' = [got EXCEPT ![u].sampled = @ + 1]
      BY <1>5 DEF SampleToken, Types
    <3>2. got[u].sampled + 1 \in Nat /\ got[u] \in Streams
      BY <3>1 DEF Streams
    <3>3. [got[u] EXCEPT !.sampled = @ + 1] \in Streams
      BY <3>2 DEF Streams
    <3>4. got' = [got EXCEPT ![u] = [got[u] EXCEPT !.sampled = @ + 1]]
      BY <3>1
    <3>5. QED
      BY <3>1, <3>3, <3>4
  <2>7. UNCHANGED SchedVars
    BY <1>5 DEF SampleToken
  <2>8. QED
    BY <2>3, <2>4, <2>5, <2>6, <2>7 DEF Types, LoopTypes, taskvars, stopvars, SchedVars
<1>6. ASSUME NEW w \in Workers, WorkerDies(w) PROVE Types'
  BY <1>6 DEF WorkerDies, Types, LoopTypes, Free, At, LoopFree, taskvars, stopvars, wires, back, SchedVars
<1>7. QED
  BY <1>1, <1>2, <1>3, <1>4, <1>5, <1>6 DEF Schedule

(* Every step keeps them.                                                  *)
LEMMA TypesStep ==
  ASSUME Types, Order, [Next]_vars
  PROVE  Types'
<1>1. CASE UNCHANGED vars
  BY <1>1 DEF Types, LoopTypes, taskvars, stopvars, wires, back, SchedVars, vars
<1>2. QED
  BY <1>1, TypesByRequests, TypesByListener, TypesByPrepare, TypesByRebuild,
     TypesBySupervise, TypesByStop, TypesByWorkers DEF Next

-----------------------------------------------------------------------------
(* Who is on the way where: Flow and Order.                                *)

(* A step that leaves the wires, the scheduler and the requests in flight   *)
(* alone, and asks for nothing new.                                        *)
Quiet ==
    /\ UNCHANGED <<f2t, s2t, t2f, sched>> /\ stats'.inflight = stats.inflight
    /\ \A u \in Uids : http'[u] = "none" => http[u] = "none" /\ Untouched(u)'
    /\ \A u \in Uids : lp'.at = "send" /\ lp'.msg = Msg("request", u)
                         => lp.at = "send" /\ lp.msg = Msg("request", u)
    /\ \A u \in Uids : lp'.at = "send" /\ lp'.msg = Msg("abort", u) => http[u] # "none"

(* Such a step keeps Flow.                                                 *)
LEMMA FlowQuiet ==
  ASSUME Types, Flow, Quiet
  PROVE  Flow'
<1>1. \A u \in Uids : Asking(u)' => Asking(u)
  BY DEF Quiet, Asking
<1>2. AskedOnce'
  <2>1. SUFFICES ASSUME NEW u \in Uids
        PROVE  Count(f2t', {Msg("request", u)})
                 + (IF lp'.at = "send" /\ lp'.msg = Msg("request", u) THEN 1 ELSE 0) <= 1
    BY DEF AskedOnce
  <2>2. Count(f2t, {Msg("request", u)}) \in Nat
    BY CountIsNumber DEF Types
  <2>3. Count(f2t, {Msg("request", u)})
          + (IF lp.at = "send" /\ lp.msg = Msg("request", u) THEN 1 ELSE 0) <= 1
    BY DEF Flow, AskedOnce
  <2>4. f2t' = f2t
    BY DEF Quiet
  <2>5. QED
    BY <2>2, <2>3, <2>4 DEF Quiet
<1>3. AskedFirst'
  BY <1>1 DEF Quiet, Flow, AskedFirst, Wired
<1>4. ActiveInFlight'
  BY DEF Quiet, Flow, ActiveInFlight, Active, Wired
<1>5. CountedInFlight'
  BY DEF Quiet, Flow, CountedInFlight, Wired
<1>6. Unused'
  BY DEF Quiet, Flow, Unused, Wired
<1>7. QED
  BY <1>2, <1>3, <1>4, <1>5, <1>6 DEF Flow

(* The steps that are.                                                     *)
LEMMA QuietSteps ==
  ASSUME Types, Flow,
         \/ \E u \in Uids : \/ ConsumerStart(u) \/ ConsumerTake(u) \/ Disconnect(u)
                            \/ abort_user(u) \/ AbortUnsent(u)
         \/ ResolveGate \/ FailPending \/ (send_one /\ fatal)
         \/ Prepare \/ Rebuild \/ Supervise \/ Stop
         \/ \E w \in Workers : WorkerDies(w)
         \/ UNCHANGED vars
  PROVE  Quiet
<1>1. \A u \in Uids : http[u] = "none" => Untouched(u)
  BY DEF Flow, Unused
<1>2. http \in [Uids -> {"none", "open", "waiting", "ended", "broken", "left", "unsent"}]
  BY DEF Types
<1>3. ASSUME NEW u \in Uids, ConsumerStart(u) PROVE Quiet
  BY <1>1, <1>2, <1>3 DEF ConsumerStart, LoopFree, Free, Untouched, Quiet, stopvars, wires, back
<1>4. ASSUME NEW u \in Uids, ConsumerTake(u) PROVE Quiet
  <2>1. /\ http[u] = "waiting" /\ lp' = lp /\ lp.at # "send"
        /\ UNCHANGED <<f2t, s2t, t2f, sched, stats, sleeping, prep>>
    BY <1>4 DEF ConsumerTake, LoopFree, Free, wires, back, stopvars
  <2>2. ASSUME NEW v \in Uids PROVE http'[v] = "none" => http[v] = "none" /\ Untouched(v)'
    <3>1. http'[u] # "none"
      BY <1>2, <1>4 DEF ConsumerTake
    <3>2. v # u => http'[v] = http[v] /\ box'[v] = box[v] /\ got'[v] = got[v]
                   /\ (v \in mapped' <=> v \in mapped)
      BY <1>2, <1>4 DEF ConsumerTake, Types
    <3>3. QED
      BY <1>1, <2>1, <3>1, <3>2 DEF Untouched
  <2>3. QED
    BY <2>1, <2>2 DEF Quiet
<1>5. ASSUME NEW u \in Uids, Disconnect(u) PROVE Quiet
  BY <1>1, <1>2, <1>5 DEF Disconnect, LoopFree, Free, Untouched, Quiet, stopvars, wires, back
<1>6. ASSUME NEW u \in Uids, abort_user(u) PROVE Quiet
  <2>1. http[u] # "none"
    BY <1>1, <1>6 DEF abort_user, Untouched
  <2>2. /\ lp'.at = "send" /\ lp'.msg = Msg("abort", u)
        /\ UNCHANGED <<f2t, s2t, t2f, sched, http, box, got>>
        /\ stats'.inflight = stats.inflight
        /\ sleeping' \subseteq sleeping /\ mapped' \subseteq mapped
    BY <1>6 DEF abort_user, on_abort, wires, back, Types, Figures
  <2>3. prep'.todo \subseteq prep.todo
    BY <1>6 DEF abort_user, Types, Steps
  <2>4. \A v \in Uids : http'[v] = "none" => http[v] = "none" /\ Untouched(v)'
    BY <1>1, <2>2, <2>3 DEF Untouched
  <2>5. \A v \in Uids : lp'.msg = Msg("abort", v) => v = u
    BY <2>2 DEF Msg
  <2>6. \A v \in Uids : lp'.msg # Msg("request", v)
    BY <2>2 DEF Msg
  <2>7. QED
    BY <2>1, <2>2, <2>4, <2>5, <2>6 DEF Quiet
<1>7. CASE ResolveGate
  BY <1>1, <1>7 DEF ResolveGate, Free, Untouched, Quiet, taskvars, stopvars, wires, back
<1>8. CASE FailPending
  <2>1. /\ UNCHANGED <<f2t, s2t, t2f, sched, lp, http, mapped, stats, sleeping, prep, got>>
        /\ \A v \in Uids : v \notin mapped => box'[v] = box[v]
    BY <1>8 DEF FailPending, wires, back, stopvars
  <2>2. ASSUME NEW v \in Uids, http[v] = "none" PROVE Untouched(v)'
    BY <1>1, <2>1, <2>2 DEF Untouched
  <2>3. \A v \in Uids : lp.at = "send" /\ lp.msg = Msg("abort", v) => http[v] # "none"
    BY DEF Flow, Unused
  <2>4. QED
    BY <2>1, <2>2, <2>3 DEF Quiet
<1>9. CASE send_one /\ fatal
  BY <1>1, <1>9 DEF send_one, Free, Untouched, Quiet, taskvars, stopvars, wires, back
<1>10. CASE Prepare
  <2>1. /\ UNCHANGED <<f2t, s2t, t2f, sched, stats, http, mapped, box, sleeping, got>>
    BY <1>10 DEF Prepare, PrepareCall, PrepareClose, PrepareSeal, PrepareAbort, PrepareRefuse,
                 taskvars, wires, back
  <2>2. lp'.at # "send"
    BY <1>10 DEF Prepare, PrepareCall, PrepareClose, PrepareSeal, PrepareAbort, PrepareRefuse,
                 LoopFree, Free
  <2>3. prep'.todo \subseteq prep.todo \cup stats.inflight
    BY <1>10 DEF Prepare, PrepareCall, PrepareClose, PrepareSeal, PrepareAbort, PrepareRefuse,
                 Types, Steps, stopvars
  <2>4. \A v \in Uids : http[v] = "none" => v \notin stats.inflight
    BY DEF Flow, Unused
  <2>5. ASSUME NEW v \in Uids, http[v] = "none" PROVE Untouched(v)'
    BY <1>1, <2>1, <2>3, <2>4, <2>5 DEF Untouched
  <2>6. QED
    BY <2>1, <2>2, <2>5 DEF Quiet
<1>11. CASE Rebuild
  <2>1. UNCHANGED <<f2t, s2t, t2f, sched, stats, http, mapped, box, sleeping, prep, got>>
    BY <1>11 DEF Rebuild, dispatch_rebuild, RebuildSendFails, RebuildCall, RebuildTimeout,
                 taskvars, stopvars, wires, back
  <2>2. lp'.at = "send" => lp'.msg.kind = "rebuild"
    BY <1>11 DEF Rebuild, dispatch_rebuild, RebuildSendFails, RebuildCall, RebuildTimeout,
                 LoopFree, At, Free, Types, LoopTypes
  <2>3. \A v \in Uids : lp'.at = "send" => lp'.msg # Msg("request", v) /\ lp'.msg # Msg("abort", v)
    BY <2>2 DEF Msg
  <2>4. ASSUME NEW v \in Uids, http[v] = "none" PROVE Untouched(v)'
    BY <1>1, <2>1, <2>4 DEF Untouched
  <2>5. QED
    BY <2>1, <2>3, <2>4 DEF Quiet
<1>12. CASE Supervise \/ Stop \/ (\E w \in Workers : WorkerDies(w)) \/ UNCHANGED vars
  <2>1. UNCHANGED <<f2t, s2t, t2f, sched, stats, http, mapped, box, sleeping, prep, got, lp>>
    <3>1. CASE Supervise
      BY <3>1 DEF Supervise, ReadyTest, ReadySet, FindDead, StayQuiet, OnFailure, OnFailureLatch,
                  taskvars, stopvars, wires, back
    <3>2. CASE Stop
      BY <3>2 DEF Stop, Sigterm, ExitAfterDeath, Stopping, ShutdownFlag, ShutdownWorkers,
                  taskvars, stopvars, wires, back
    <3>3. CASE \E w \in Workers : WorkerDies(w)
      BY <3>3 DEF WorkerDies, taskvars, stopvars, wires
    <3>4. CASE UNCHANGED vars
      BY <3>4 DEF vars, taskvars, stopvars, wires, back
    <3>5. QED
      BY <1>12, <3>1, <3>2, <3>3, <3>4
  <2>2. ASSUME NEW v \in Uids, http[v] = "none" PROVE Untouched(v)'
    BY <1>1, <2>1, <2>2 DEF Untouched
  <2>3. \A v \in Uids : lp.at = "send" /\ lp.msg = Msg("abort", v) => http[v] # "none"
    BY DEF Flow, Unused
  <2>4. QED
    BY <2>1, <2>2, <2>3 DEF Quiet
<1>13. ASSUME NEW u \in Uids, AbortUnsent(u) PROVE Quiet
  <2>1. /\ lp' = lp /\ lp.at # "send"
        /\ UNCHANGED <<f2t, s2t, t2f, sched, http, box, got>>
        /\ stats'.inflight = stats.inflight
        /\ sleeping' \subseteq sleeping \cup prep.todo /\ mapped' \subseteq mapped
    BY <1>13 DEF AbortUnsent, on_abort, LoopFree, Free, wires, back, Types, Figures
  <2>2. prep'.todo \subseteq prep.todo
    BY <1>13 DEF AbortUnsent, Types, Steps
  <2>3. \A v \in Uids : http'[v] = "none" => http[v] = "none" /\ Untouched(v)'
    BY <1>1, <2>1, <2>2 DEF Untouched
  <2>4. QED
    BY <2>1, <2>3 DEF Quiet
<1>14. QED
  BY <1>3, <1>4, <1>5, <1>6, <1>7, <1>8, <1>9, <1>10, <1>11, <1>12, <1>13

(* A request that could not be sent is in flight and on no wire.            *)
LEMMA FlowByUnsent ==
  ASSUME Types, Flow, NEW u \in Uids, RequestUnsent(u)
  PROVE  Flow'
<1>1. /\ http[u] = "none" /\ http' = [http EXCEPT ![u] = "unsent"]
      /\ mapped' = mapped \cup {u}
      /\ UNCHANGED <<lp, f2t, s2t, t2f, sched, sleeping, prep, box, got>>
  BY DEF RequestUnsent, wires, back, stopvars
<1>2. stats'.inflight = stats.inflight \cup {u}
  BY DEF RequestUnsent, Types, Figures
<1>3. /\ http'[u] = "unsent" /\ \A v \in Uids : v # u => http'[v] = http[v]
  BY <1>1 DEF Types
<1>4. \A v \in Uids : Asking(v)' <=> Asking(v)
  BY <1>1 DEF Asking
<1>5. AskedOnce'
  BY <1>1 DEF Flow, AskedOnce
<1>6. AskedFirst'
  <2>1. SUFFICES ASSUME NEW v \in Uids, Asking(v)
        PROVE  /\ http'[v] # "none" /\ sched'.stage[v] = "none" /\ ~Wired(Counted(v))'
               /\ v \notin sched'.tombs => /\ v \in stats'.inflight /\ v \notin sched'.acks
                                           /\ ~Wired(Ending(v))'
    BY <1>4 DEF AskedFirst
  <2>2. v # u
    BY <1>1, <2>1 DEF Flow, AskedFirst
  <2>3. QED
    BY <1>1, <1>2, <1>3, <2>1, <2>2 DEF Wired, Flow, AskedFirst
<1>7. ActiveInFlight'
  BY <1>1, <1>2 DEF Flow, ActiveInFlight, Active, Wired
<1>8. CountedInFlight'
  BY <1>1, <1>2 DEF Flow, CountedInFlight, Wired
<1>9. Unused'
  <2>1. SUFFICES ASSUME NEW v \in Uids, http'[v] = "none"
        PROVE  /\ v \notin stats'.inflight \cup sched'.acks \cup sched'.tombs
               /\ sched'.stage[v] = "none" /\ ~Wired(Ending(v))'
               /\ ~In(f2t', Msg("abort", v)) /\ ~(lp'.at = "send" /\ lp'.msg = Msg("abort", v))
               /\ Untouched(v)'
    BY DEF Unused
  <2>2. v # u /\ http[v] = "none"
    BY <1>3, <2>1
  <2>3. QED
    BY <1>1, <1>2, <2>2 DEF Flow, Unused, Untouched, Wired
<1>10. QED
  BY <1>5, <1>6, <1>7, <1>8, <1>9 DEF Flow

(* A new request is on its way once.                                       *)
LEMMA FlowByRequest ==
  ASSUME Types, Flow, NEW u \in Uids, new_user(u)
  PROVE  Flow'
<1>1. /\ http[u] = "none" /\ http' = [http EXCEPT ![u] = "open"] /\ lp.at # "send"
      /\ lp'.at = "send" /\ lp'.msg = Msg("request", u) /\ mapped' = mapped \cup {u}
      /\ UNCHANGED <<f2t, s2t, t2f, sched, sleeping, prep, box, got>>
  BY DEF new_user, LoopFree, Free, wires, back, stopvars
<1>2. stats'.inflight = stats.inflight \cup {u}
  BY DEF new_user, Types, Figures
<1>3. /\ u \notin stats.inflight \cup sched.acks \cup sched.tombs
      /\ sched.stage[u] = "none" /\ ~Wired(Ending(u))
  BY <1>1 DEF Flow, Unused
<1>4. ~Wired(Counted(u))
  BY <1>3 DEF Flow, CountedInFlight
<1>5. ~In(f2t, Msg("request", u))
  BY <1>1 DEF Flow, AskedFirst, Asking
<1>6. \A v \in Uids : lp'.msg = Msg("request", v) <=> v = u
  BY <1>1 DEF Msg
<1>7. \A v \in Uids : lp'.msg # Msg("abort", v)
  BY <1>1 DEF Msg
<1>8. /\ http' \in [Uids -> {"none", "open", "waiting", "ended", "broken", "left", "unsent"}]
      /\ http'[u] = "open" /\ \A v \in Uids : v # u => http'[v] = http[v]
  BY <1>1 DEF Types
<1>9. \A v \in Uids : v # u => (Asking(v)' => Asking(v))
  BY <1>1, <1>6 DEF Asking
<1>10. AskedOnce'
  <2>1. SUFFICES ASSUME NEW v \in Uids
        PROVE  Count(f2t', {Msg("request", v)})
                 + (IF lp'.at = "send" /\ lp'.msg = Msg("request", v) THEN 1 ELSE 0) <= 1
    BY DEF AskedOnce
  <2>2. Count(f2t, {Msg("request", v)}) \in Nat
        /\ (v = u => Count(f2t, {Msg("request", v)}) = 0)
    <3>1. v = u => \A m \in {Msg("request", v)} : ~In(f2t, m)
      BY <1>5
    <3>2. QED
      BY <3>1, CountIsNumber DEF Types
  <2>3. Count(f2t, {Msg("request", v)}) <= 1
    <3>1. Count(f2t, {Msg("request", v)})
            + (IF lp.at = "send" /\ lp.msg = Msg("request", v) THEN 1 ELSE 0) <= 1
      BY DEF Flow, AskedOnce
    <3>2. QED
      BY <1>1, <2>2, <3>1
  <2>4. f2t' = f2t
    BY <1>1
  <2>5. QED
    BY <1>6, <2>2, <2>3, <2>4
<1>11. AskedFirst'
  <2>1. SUFFICES ASSUME NEW v \in Uids, Asking(v)'
        PROVE  /\ http'[v] # "none" /\ sched'.stage[v] = "none" /\ ~Wired(Counted(v))'
               /\ v \notin sched'.tombs => /\ v \in stats'.inflight /\ v \notin sched'.acks
                                           /\ ~Wired(Ending(v))'
    BY DEF AskedFirst
  <2>2. CASE v = u
    BY <1>1, <1>2, <1>3, <1>4, <1>8, <2>2 DEF Wired
  <2>3. CASE v # u
    BY <1>1, <1>2, <1>8, <1>9, <2>1, <2>3 DEF Wired, Flow, AskedFirst
  <2>4. QED
    BY <2>2, <2>3
<1>12. ActiveInFlight'
  BY <1>1, <1>2 DEF Flow, ActiveInFlight, Active, Wired
<1>13. CountedInFlight'
  BY <1>1, <1>2 DEF Flow, CountedInFlight, Wired
<1>14. Unused'
  <2>1. SUFFICES ASSUME NEW v \in Uids, http'[v] = "none"
        PROVE  /\ v \notin stats'.inflight \cup sched'.acks \cup sched'.tombs
               /\ sched'.stage[v] = "none" /\ ~Wired(Ending(v))'
               /\ ~In(f2t', Msg("abort", v)) /\ ~(lp'.at = "send" /\ lp'.msg = Msg("abort", v))
               /\ Untouched(v)'
    BY DEF Unused
  <2>2. v # u /\ http[v] = "none"
    BY <1>8, <2>1
  <2>3. QED
    BY <1>1, <1>2, <1>7, <2>2 DEF Flow, Unused, Untouched, Wired
<1>15. QED
  BY <1>10, <1>11, <1>12, <1>13, <1>14 DEF Flow

(* A message handed to the socket is on its way as before.                  *)
LEMMA FlowBySend ==
  ASSUME Types, Flow, send_one, ~fatal
  PROVE  Flow'
<1>1. /\ lp.at = "send" /\ lp.msg \in ToTokenizer /\ f2t \in Seq(ToTokenizer)
      /\ f2t' = Append(f2t, lp.msg) /\ lp'.at # "send"
      /\ UNCHANGED <<s2t, t2f, sched, stats, http, mapped, sleeping, prep, box, got>>
  BY DEF send_one, At, Free, Types, LoopTypes, taskvars, stopvars, back
<1> DEFINE m == lp.msg
<1>2. \A x : In(f2t', x) <=> In(f2t, x) \/ x = m
  <2>1. m \in ToTokenizer /\ f2t' = Append(f2t, m)
    BY <1>1
  <2> HIDE DEF m
  <2>2. QED
    BY <1>1, <2>1, Appended
<1>3. \A u \in Uids : Asking(u)' => Asking(u)
  BY <1>1, <1>2 DEF Asking
<1>4. AskedOnce'
  <2>1. SUFFICES ASSUME NEW u \in Uids
        PROVE  Count(f2t', {Msg("request", u)})
                 + (IF lp'.at = "send" /\ lp'.msg = Msg("request", u) THEN 1 ELSE 0) <= 1
    BY DEF AskedOnce
  <2> DEFINE M == {Msg("request", u)}
  <2>2. Count(f2t', M) = Count(f2t, M) + (IF m \in M THEN 1 ELSE 0)
    <3>1. m \in ToTokenizer /\ f2t' = Append(f2t, m)
      BY <1>1
    <3> HIDE DEF m, M
    <3>2. QED
      BY <1>1, <3>1, CountAppended
  <2>3. Count(f2t, M) + (IF lp.at = "send" /\ lp.msg = Msg("request", u) THEN 1 ELSE 0) <= 1
    BY DEF Flow, AskedOnce
  <2>4. Count(f2t, M) \in Nat
    <3> HIDE DEF M
    <3>1. QED
      BY <1>1, CountIsNumber
  <2>5. Count(f2t', M) <= 1
    BY <1>1, <2>2, <2>3, <2>4
  <2>6. Count(f2t', M) \in Nat
    BY <2>2, <2>4
  <2>7. QED
    BY <1>1, <2>5, <2>6
<1>5. AskedFirst'
  BY <1>1, <1>3 DEF Flow, AskedFirst, Wired
<1>6. ActiveInFlight'
  BY <1>1 DEF Flow, ActiveInFlight, Active, Wired
<1>7. CountedInFlight'
  BY <1>1 DEF Flow, CountedInFlight, Wired
<1>8. Unused'
  BY <1>1, <1>2 DEF Flow, Unused, Untouched, Wired
<1>9. QED
  BY <1>4, <1>5, <1>6, <1>7, <1>8 DEF Flow

(* A reply that is heard ends its request, if it ends it, where nothing is  *)
(* left that counts.                                                       *)
LEMMA FlowByReply ==
  ASSUME Types, Flow, Order, listen \/ ResolveRebuild
  PROVE  Flow'
<1> DEFINE m == Head(t2f)
<1>1. /\ t2f # <<>> /\ t2f' = Tail(t2f) /\ lp'.at # "send" /\ lp.at # "send"
      /\ UNCHANGED <<f2t, s2t, sched, http, mapped, sleeping, prep, got>>
  BY DEF listen, ResolveRebuild, LoopFree, Free, taskvars, stopvars, back
<1>2. /\ m \in FromBackend
      /\ \A x : In(t2f, x) <=> In(t2f', x) \/ x = m
      /\ \A u \in Uids : m \in Ending(u) => \A x \in Counted(u) : ~In(t2f', x) /\ ~In(s2t, x)
  BY <1>1, Heard
<1>3. /\ stats'.inflight \subseteq stats.inflight
      /\ \A u \in Uids : u \in stats.inflight /\ m \notin Ending(u) => u \in stats'.inflight
  <2>1. stats'.inflight = IF listen /\ Terminal(m) THEN stats.inflight \ {m.id} ELSE stats.inflight
    BY DEF listen, ResolveRebuild, observe, Types, Figures
  <2>2. \A u \in Uids : Terminal(m) /\ u = m.id => m \in Ending(u)
    BY <1>2, FromKinds DEF Terminal
  <2> HIDE DEF m
  <2>3. QED
    BY <2>1, <2>2
<1>4. \A u \in Uids : u \notin mapped => box'[u] = box[u]
  <2>1. CASE listen
    BY <2>1 DEF listen, Types
  <2>2. CASE ResolveRebuild
    BY <2>2 DEF ResolveRebuild, taskvars
  <2>3. QED
    BY <2>1, <2>2
<1> HIDE DEF m
<1>5. \A u \in Uids : Asking(u)' => Asking(u)
  BY <1>1 DEF Asking
<1>6. \A M : Wired(M)' => Wired(M)
  BY <1>1, <1>2 DEF Wired
<1>7. \A u \in Uids : ~Wired(Ending(u)) => m \notin Ending(u)
  BY <1>2 DEF Wired
<1>8. AskedOnce'
  BY <1>1 DEF Flow, AskedOnce
<1>9. AskedFirst'
  BY <1>1, <1>3, <1>5, <1>6, <1>7 DEF Flow, AskedFirst
<1>10. ActiveInFlight'
  BY <1>1, <1>3, <1>6, <1>7 DEF Flow, ActiveInFlight, Active
<1>11. CountedInFlight'
  <2>1. SUFFICES ASSUME NEW u \in Uids, Wired(Counted(u))' PROVE u \in stats'.inflight
    BY DEF CountedInFlight
  <2>2. u \in stats.inflight
    BY <1>6, <2>1 DEF Flow, CountedInFlight
  <2>3. m \notin Ending(u)
    BY <1>1, <1>2, <2>1 DEF Wired
  <2>4. QED
    BY <1>3, <2>2, <2>3
<1>12. Unused'
  BY <1>1, <1>3, <1>4, <1>6 DEF Flow, Unused, Untouched
<1>13. QED
  BY <1>8, <1>9, <1>10, <1>11, <1>12 DEF Flow

(* What the scheduler says of a request comes while it works on it, and the *)
(* acknowledgement of an abort when it has stopped.                         *)
SchedulerKeeps ==
    /\ UNCHANGED <<f2t, t2f, lp, stats, http, mapped, sleeping, prep, box>>
    /\ sched'.tombs = sched.tombs /\ sched'.acks \subseteq sched.acks
    /\ \A u \in Uids : http[u] = "none" => got'[u] = got[u]

(* One message more from the scheduler.                                     *)
LEMMA FlowByResult ==
  ASSUME Types, Flow, NEW m \in FromBackend, s2t' = Append(s2t, m), SchedulerKeeps,
         \A u \in Uids : Active(u)' => Active(u) /\ m \notin Ending(u),
         \A u \in Uids : sched.stage[u] = "none" => sched'.stage[u] = "none",
         \A u \in Uids : m \in Counted(u) \cup Ending(u) => Active(u)
  PROVE  Flow'
<1>1. \A x : In(s2t', x) <=> In(s2t, x) \/ x = m
  BY Sent
<1>2. \A u \in Uids : Asking(u)' => Asking(u)
  BY DEF Asking, SchedulerKeeps
<1>3. \A u \in Uids : Wired(Ending(u))' => Wired(Ending(u)) \/ m \in Ending(u)
  BY <1>1 DEF Wired, SchedulerKeeps
<1>4. \A u \in Uids : Wired(Counted(u))' => Wired(Counted(u)) \/ m \in Counted(u)
  BY <1>1 DEF Wired, SchedulerKeeps
<1>5. \A u \in Uids : sched.stage[u] = "none" => ~Active(u)
  BY DEF Active
<1>6. AskedOnce'
  BY DEF Flow, AskedOnce, SchedulerKeeps
<1>7. AskedFirst'
  BY <1>2, <1>3, <1>4, <1>5 DEF Flow, AskedFirst, SchedulerKeeps
<1>8. ActiveInFlight'
  BY <1>3 DEF Flow, ActiveInFlight, SchedulerKeeps
<1>9. CountedInFlight'
  BY <1>4 DEF Flow, CountedInFlight, ActiveInFlight, SchedulerKeeps
<1>10. Unused'
  BY <1>3, <1>5 DEF Flow, Unused, Untouched, SchedulerKeeps
<1>11. QED
  BY <1>6, <1>7, <1>8, <1>9, <1>10 DEF Flow

(* The three actions that send one, with the message each sends.            *)
LEMMA Results ==
  ASSUME Types, Flow,
         \/ \E i \in Rebuilds : ExecuteRebuild(i)
         \/ \E u \in Uids : AdmitPrompt(u) \/ SampleToken(u)
  PROVE  \E m \in FromBackend :
           /\ s2t' = Append(s2t, m) /\ SchedulerKeeps
           /\ \A u \in Uids : Active(u)' => Active(u) /\ m \notin Ending(u)
           /\ \A u \in Uids : sched.stage[u] = "none" => sched'.stage[u] = "none"
           /\ \A u \in Uids : m \in Counted(u) \cup Ending(u) => Active(u)
           /\ \/ /\ m.kind \in Control /\ sched.rebuild # {} /\ sched'.rebuild = {}
                 /\ UNCHANGED <<work, got>>
              \/ /\ m.kind = "admitted" /\ sched'.rebuild = sched.rebuild
                 /\ work' = [work EXCEPT !.prompt = @ + 1] /\ UNCHANGED got
              \/ /\ m.kind \in {"token", "final"} /\ sched'.rebuild = sched.rebuild
                 /\ work' = [work EXCEPT !.completion = @ + 1]
                 /\ got' = [got EXCEPT ![m.id].sampled = @ + 1] /\ Active(m.id)
<1>1. /\ sched.stage \in [Uids -> {"none", "queued", "running", "gone"}]
      /\ sched \in Engines
  BY DEF Types, Engines
<1>2. ASSUME NEW i \in Rebuilds, ExecuteRebuild(i)
      PROVE  \E m \in FromBackend :
               /\ s2t' = Append(s2t, m) /\ SchedulerKeeps
               /\ \A u \in Uids : Active(u)' => Active(u) /\ m \notin Ending(u)
               /\ \A u \in Uids : sched.stage[u] = "none" => sched'.stage[u] = "none"
               /\ \A u \in Uids : m \in Counted(u) \cup Ending(u) => Active(u)
               /\ m.kind \in Control /\ sched.rebuild # {} /\ sched'.rebuild = {}
               /\ UNCHANGED <<work, got>>
  <2>1. PICK kind \in {"rebuilt", "rebuild_failed"} : s2t' = Append(s2t, Msg(kind, i))
    BY <1>2 DEF ExecuteRebuild
  <2>2. PICK m \in FromBackend : m = Msg(kind, i) /\ m.kind = kind
    <3>1. Msg(kind, i) \in FromBackend /\ Msg(kind, i).kind = kind
      BY DEF FromBackend, Msg, Control
    <3>2. QED
      BY <3>1
  <2>3. \A u \in Uids : m \notin Ending(u) /\ m \notin Counted(u)
    BY <2>2, FromKinds
  <2>4. /\ i \in sched.rebuild /\ sched' = [sched EXCEPT !.rebuild = {}]
        /\ UNCHANGED <<SchedVars, work, got>>
    BY <1>2 DEF ExecuteRebuild
  <2>5. sched'.stage = sched.stage /\ sched'.tombs = sched.tombs /\ sched'.acks = sched.acks
        /\ sched'.rebuild = {}
    BY <1>1, <2>4 DEF Engines
  <2>6. SchedulerKeeps
    BY <2>4, <2>5 DEF SchedulerKeeps, SchedVars, taskvars, stopvars
  <2>7. QED
    BY <2>1, <2>2, <2>3, <2>4, <2>5, <2>6 DEF Active, Control
<1>3. ASSUME NEW v \in Uids, AdmitPrompt(v)
      PROVE  \E m \in FromBackend :
               /\ s2t' = Append(s2t, m) /\ SchedulerKeeps
               /\ \A u \in Uids : Active(u)' => Active(u) /\ m \notin Ending(u)
               /\ \A u \in Uids : sched.stage[u] = "none" => sched'.stage[u] = "none"
               /\ \A u \in Uids : m \in Counted(u) \cup Ending(u) => Active(u)
               /\ m.kind = "admitted" /\ sched'.rebuild = sched.rebuild
               /\ work' = [work EXCEPT !.prompt = @ + 1] /\ UNCHANGED got
  <2>1. PICK m \in FromBackend : m = Msg("admitted", v) /\ m.kind = "admitted" /\ m.id = v
    <3>1. Msg("admitted", v) \in FromBackend /\ Msg("admitted", v).kind = "admitted" /\ Msg("admitted", v).id = v
      BY DEF FromBackend, Msg, Replies
    <3>2. QED
      BY <3>1
  <2>2. /\ sched.stage[v] = "queued" /\ s2t' = Append(s2t, Msg("admitted", v))
        /\ sched' = [sched EXCEPT !.stage[v] = "running"]
        /\ work' = [work EXCEPT !.prompt = @ + 1] /\ UNCHANGED <<SchedVars, got>>
    BY <1>3 DEF AdmitPrompt
  <2>3. \A u \in Uids : m \notin Ending(u) /\ (m \in Counted(u) => u = v)
    BY <2>1, FromKinds
  <2>4. /\ sched'.stage = [sched.stage EXCEPT ![v] = "running"]
        /\ sched'.tombs = sched.tombs /\ sched'.acks = sched.acks
        /\ sched'.rebuild = sched.rebuild
    BY <1>1, <2>2 DEF Engines
  <2>5. SchedulerKeeps
    BY <2>2, <2>4 DEF SchedulerKeeps, SchedVars, taskvars, stopvars
  <2>6. \A u \in Uids : sched'.stage[u] = IF u = v THEN "running" ELSE sched.stage[u]
    BY <1>1, <2>4
  <2>7. QED
    BY <2>1, <2>2, <2>3, <2>4, <2>5, <2>6 DEF Active
<1>4. ASSUME NEW v \in Uids, SampleToken(v)
      PROVE  \E m \in FromBackend :
               /\ s2t' = Append(s2t, m) /\ SchedulerKeeps
               /\ \A u \in Uids : Active(u)' => Active(u) /\ m \notin Ending(u)
               /\ \A u \in Uids : sched.stage[u] = "none" => sched'.stage[u] = "none"
               /\ \A u \in Uids : m \in Counted(u) \cup Ending(u) => Active(u)
               /\ m.kind \in {"token", "final"} /\ sched'.rebuild = sched.rebuild
               /\ work' = [work EXCEPT !.completion = @ + 1]
               /\ got' = [got EXCEPT ![m.id].sampled = @ + 1] /\ Active(m.id)
  <2>1. PICK kind \in {"token", "final"} :
           /\ s2t' = Append(s2t, Msg(kind, v))
           /\ sched' = [sched EXCEPT !.stage[v] = IF kind = "final" THEN "gone" ELSE @]
    BY <1>4 DEF SampleToken
  <2>2. PICK m \in FromBackend : m = Msg(kind, v) /\ m.kind = kind /\ m.id = v
    <3>1. Msg(kind, v) \in FromBackend /\ Msg(kind, v).kind = kind /\ Msg(kind, v).id = v
      BY DEF FromBackend, Msg, Replies
    <3>2. QED
      BY <3>1
  <2>3. /\ sched.stage[v] = "running" /\ work' = [work EXCEPT !.completion = @ + 1]
        /\ got' = [got EXCEPT ![v].sampled = @ + 1] /\ UNCHANGED SchedVars
    BY <1>4 DEF SampleToken
  <2>4. \A u \in Uids : /\ m \in Ending(u) => u = v /\ kind = "final"
                        /\ m \in Counted(u) => u = v
    BY <2>2, FromKinds
  <2>5. /\ sched'.stage = [sched.stage EXCEPT ![v] = IF kind = "final" THEN "gone" ELSE @]
        /\ sched'.tombs = sched.tombs /\ sched'.acks = sched.acks
        /\ sched'.rebuild = sched.rebuild
    BY <1>1, <2>1 DEF Engines
  <2>6. \A u \in Uids : sched'.stage[u] = IF u = v /\ kind = "final" THEN "gone" ELSE sched.stage[u]
    BY <1>1, <2>5
  <2>7. SchedulerKeeps
    <3>1. http[v] # "none"
      BY <2>3 DEF Flow, Unused
    <3>2. \A u \in Uids : http[u] = "none" => got'[u] = got[u]
      BY <2>3, <3>1 DEF Types
    <3>3. QED
      BY <2>3, <2>5, <3>2 DEF SchedulerKeeps, SchedVars, taskvars, stopvars
  <2>8. \A u \in Uids : m \in Counted(u) \cup Ending(u) => Active(u)
    BY <2>3, <2>4 DEF Active
  <2>9. \A u \in Uids : Active(u)' => Active(u) /\ m \notin Ending(u)
    BY <2>4, <2>6 DEF Active
  <2>10. Active(m.id)
    BY <2>2, <2>3 DEF Active
  <2>11. QED
    BY <2>1, <2>2, <2>3, <2>5, <2>6, <2>7, <2>8, <2>9, <2>10
<1>5. QED
  BY <1>2, <1>3, <1>4

(* The acknowledgements of aborts.                                         *)
LEMMA FlowByAcks ==
  ASSUME Types, Flow, FlushAcks
  PROVE  Flow'
<1>1. PICK acks \in Seq(FromBackend) :
         /\ s2t' = s2t \o acks
         /\ \A x : In(acks, x) => \E u \in sched.acks : x = Msg("error", u)
  BY Flushed
<1>2. \A x : In(s2t', x) <=> In(s2t, x) \/ In(acks, x)
  BY <1>1, InJoined DEF Types
<1>3. /\ \A x : In(acks, x) => \A u \in Uids : x \notin Counted(u)
      /\ \A x : In(acks, x) => \A u \in Uids : x \in Ending(u) => u \in sched.acks
  BY <1>1 DEF Counted, SamplesOf, Ending, Msg
<1>4. /\ UNCHANGED <<f2t, t2f, lp, stats, http, mapped, sleeping, prep, box, got>>
      /\ sched' = [sched EXCEPT !.acks = {}]
  BY DEF FlushAcks, SchedVars, taskvars, stopvars
<1>5. sched'.stage = sched.stage /\ sched'.tombs = sched.tombs /\ sched'.acks = {}
  BY <1>4 DEF Types, Engines
<1>6. ASSUME NEW u \in Uids, Wired(Counted(u))' PROVE Wired(Counted(u))
  <2>1. PICK m \in Counted(u) : In(t2f', m) \/ In(s2t', m)
    BY <1>6 DEF Wired
  <2>2. In(t2f, m) \/ In(s2t, m)
    BY <1>2, <1>3, <1>4, <2>1
  <2>3. QED
    BY <2>2 DEF Wired
<1>7. ASSUME NEW u \in Uids, Wired(Ending(u))' PROVE Wired(Ending(u)) \/ u \in sched.acks
  <2>1. PICK m \in Ending(u) : In(t2f', m) \/ In(s2t', m)
    BY <1>7 DEF Wired
  <2>2. In(t2f, m) \/ In(s2t, m) \/ u \in sched.acks
    BY <1>2, <1>3, <1>4, <2>1
  <2>3. QED
    BY <2>2 DEF Wired
<1>8. AskedOnce'
  BY <1>4 DEF Flow, AskedOnce
<1>9. AskedFirst'
  BY <1>4, <1>5, <1>6, <1>7 DEF Flow, AskedFirst, Asking
<1>10. ActiveInFlight'
  BY <1>4, <1>5, <1>7 DEF Flow, ActiveInFlight, Active
<1>11. CountedInFlight'
  BY <1>4, <1>6 DEF Flow, CountedInFlight
<1>12. Unused'
  BY <1>4, <1>5, <1>7 DEF Flow, Unused, Untouched
<1>13. QED
  BY <1>8, <1>9, <1>10, <1>11, <1>12 DEF Flow

(* A drain brings requests and aborts to the scheduler, and the errors of   *)
(* those that do not come through to the wires: a request that has an error *)
(* was being asked, so nothing of it counts, and is asked no more.          *)
LEMMA FlowByDrain ==
  ASSUME Types, Flow, tokenize_worker
  PROVE  Flow'
<1>1. PICK client, left, result, rest, replies, errors, arrived, aborts, bad, long :
          Drained(client, left, result, rest, replies, errors, arrived, aborts, bad, long)
  BY TokenizerDrain
<1>2. UNCHANGED <<lp, stats, http, mapped, sleeping, prep, box, got>>
  BY DEF tokenize_worker, taskvars, stopvars
<1>3. /\ \A x : In(f2t, x) <=> In(client, x) \/ In(left, x)
      /\ \A x : In(s2t, x) <=> In(result, x) \/ In(rest, x)
      /\ \A x : In(t2f', x) <=> In(t2f, x) \/ In(result, x) \/ In(errors, x)
      /\ \A x : In(s2t', x) <=> In(rest, x) \/ In(replies, x)
  BY <1>1, DrainWires
<1>4. /\ \A m : In(errors, m) => \E u \in bad : m = Msg("error", u)
      /\ \A m : In(replies, m) =>
           m.kind = "rebuilt" \/ \E u \in long \ sched.tombs : m = Msg("error", u)
      /\ bad \subseteq Uids /\ arrived \subseteq Uids /\ long \subseteq arrived
      /\ \A u \in bad \cup arrived : In(client, Msg("request", u))
      /\ bad \cap arrived = {}
      /\ aborts \subseteq Uids /\ \A u \in aborts : In(client, Msg("abort", u))
      /\ f2t' = left
  BY <1>1 DEF Drained
<1>5. /\ sched'.tombs = (sched.tombs \ arrived) \cup aborts
      /\ sched'.acks = sched.acks \cup aborts
      /\ \A u \in Uids : sched'.stage[u] =
            IF u \in aborts /\ (u \in arrived \/ sched.stage[u] # "none") THEN "gone"
            ELSE IF u \notin arrived THEN sched.stage[u]
            ELSE IF u \in sched.tombs \cup long THEN "gone" ELSE "queued"
  <2>1. sched' = [stage |-> sched'.stage, tombs |-> (sched.tombs \ arrived) \cup aborts,
                 acks |-> sched.acks \cup aborts, rebuild |-> sched'.rebuild]
    BY <1>1 DEF Drained
  <2>2. PICK a, b, c, d : /\ sched' = [stage |-> a, tombs |-> b, acks |-> c, rebuild |-> d]
                          /\ b = (sched.tombs \ arrived) \cup aborts
                          /\ c = sched.acks \cup aborts
    BY <2>1, Zenon
  <2>3. sched'.tombs = b /\ sched'.acks = c
    BY <2>2
  <2>4. \A u \in Uids : sched'.stage[u] =
            IF u \in aborts /\ (u \in arrived \/ sched.stage[u] # "none") THEN "gone"
            ELSE IF u \notin arrived THEN sched.stage[u]
            ELSE IF u \in sched.tombs \cup long THEN "gone" ELSE "queued"
    <3>1. sched'.stage = [u \in Uids |->
            IF u \in aborts /\ (u \in arrived \/ sched.stage[u] # "none") THEN "gone"
            ELSE IF u \notin arrived THEN sched.stage[u]
            ELSE IF u \in sched.tombs \cup long THEN "gone" ELSE "queued"]
      BY <1>1 DEF Drained
    <3>2. QED
      BY <3>1
  <2>5. QED
    BY <2>2, <2>3, <2>4
<1>6. \A u \in bad \cup arrived : Asking(u)
  BY <1>3, <1>4 DEF Asking
<1>7. \A u \in Uids : Asking(u)' => Asking(u) /\ u \notin bad \cup arrived
  <2>1. SUFFICES ASSUME NEW u \in Uids, Asking(u)'
                 PROVE  Asking(u) /\ u \notin bad \cup arrived
    OBVIOUS
  <2>2. Asking(u)
    BY <1>2, <1>3, <1>4, <2>1 DEF Asking
  <2>3. ASSUME u \in bad \cup arrived PROVE FALSE
    <3> DEFINE M == {Msg("request", u)}
    <3>1. Count(f2t, M) + (IF lp.at = "send" /\ lp.msg = Msg("request", u) THEN 1 ELSE 0) <= 1
      BY DEF Flow, AskedOnce
    <3>2. Count(f2t, M) = Count(client, M) + Count(f2t', M)
          /\ Count(client, M) \in Nat /\ Count(f2t', M) \in Nat
      <4> HIDE DEF M
      <4>1. QED
        BY <1>1, DrainCounts
    <3>3. client \in Seq(ToTokenizer) /\ f2t' \in Seq(ToTokenizer)
      BY <1>1 DEF Drained
    <3>4. Count(client, M) # 0
      <4>1. ~ \A m \in M : ~In(client, m)
        BY <1>4, <2>3
      <4> HIDE DEF M
      <4>2. QED
        BY <3>3, <4>1, CountIsNumber
    <3>5. Count(f2t', M) = 0 /\ ~(lp.at = "send" /\ lp.msg = Msg("request", u))
      BY <3>1, <3>2, <3>4
    <3>6. \A m \in M : ~In(f2t', m)
      <4> HIDE DEF M
      <4>1. QED
        BY <3>3, <3>5, CountIsNumber
    <3>7. QED
      BY <1>2, <2>1, <3>5, <3>6 DEF Asking
  <2>4. QED
    BY <2>2, <2>3
<1>8. \A u \in Uids : Wired(Counted(u))' => Wired(Counted(u))
  <2>1. \A u \in Uids : \A x \in Counted(u) : ~In(errors, x) /\ ~In(replies, x)
    BY <1>4 DEF Counted, SamplesOf, Msg
  <2>2. QED
    BY <1>3, <2>1 DEF Wired
<1>9. ASSUME NEW u \in Uids, Wired(Ending(u))'
      PROVE  Wired(Ending(u)) \/ u \in bad \/ u \in long \ sched.tombs
  <2>1. /\ \A x \in Ending(u) : In(errors, x) => u \in bad
        /\ \A x \in Ending(u) : In(replies, x) => u \in long \ sched.tombs
    BY <1>4 DEF Ending, Msg
  <2>2. PICK m \in Ending(u) : In(t2f', m) \/ In(s2t', m)
    BY <1>9 DEF Wired
  <2>3. In(t2f, m) \/ In(s2t, m) \/ u \in bad \/ u \in long \ sched.tombs
    BY <1>3, <2>1, <2>2
  <2>4. QED
    BY <2>3 DEF Wired
<1>10. AskedOnce'
  <2>1. SUFFICES ASSUME NEW u \in Uids
        PROVE  Count(f2t', {Msg("request", u)})
                 + (IF lp'.at = "send" /\ lp'.msg = Msg("request", u) THEN 1 ELSE 0) <= 1
    BY DEF AskedOnce
  <2> DEFINE M == {Msg("request", u)}
  <2>2. Count(f2t, M) + (IF lp.at = "send" /\ lp.msg = Msg("request", u) THEN 1 ELSE 0) <= 1
    BY DEF Flow, AskedOnce
  <2>3. Count(f2t, M) = Count(client, M) + Count(f2t', M)
        /\ Count(client, M) \in Nat /\ Count(f2t', M) \in Nat
    <3> HIDE DEF M
    <3>1. QED
      BY <1>1, DrainCounts
  <2>4. QED
    BY <1>2, <2>2, <2>3
<1>11. AskedFirst'
  <2>1. SUFFICES ASSUME NEW u \in Uids, Asking(u)'
        PROVE  /\ http'[u] # "none" /\ sched'.stage[u] = "none" /\ ~Wired(Counted(u))'
               /\ u \notin sched'.tombs => /\ u \in stats'.inflight /\ u \notin sched'.acks
                                           /\ ~Wired(Ending(u))'
    BY DEF AskedFirst
  <2>2. Asking(u) /\ u \notin bad \cup arrived
    BY <1>7, <2>1
  <2>3. /\ http[u] # "none" /\ sched.stage[u] = "none" /\ ~Wired(Counted(u))
        /\ u \notin sched.tombs => /\ u \in stats.inflight /\ u \notin sched.acks
                                   /\ ~Wired(Ending(u))
    BY <2>2 DEF Flow, AskedFirst
  <2>4. QED
    BY <1>2, <1>4, <1>5, <1>8, <1>9, <2>2, <2>3
<1>12. ActiveInFlight'
  <2>1. SUFFICES ASSUME NEW u \in Uids, Active(u)'
        PROVE  u \in stats'.inflight /\ u \notin sched'.acks /\ ~Wired(Ending(u))'
    BY DEF ActiveInFlight
  <2>2. CASE u \in arrived
    <3>1. u \notin aborts /\ u \notin sched.tombs \cup long /\ u \notin bad
      BY <1>4, <1>5, <2>1, <2>2 DEF Active
    <3>2. u \in stats.inflight /\ u \notin sched.acks /\ ~Wired(Ending(u))
      BY <1>6, <2>2, <3>1 DEF Flow, AskedFirst
    <3>3. QED
      BY <1>2, <1>5, <1>9, <3>1, <3>2
  <2>3. CASE u \notin arrived
    <3>1. Active(u) /\ u \notin aborts
      BY <1>5, <2>1, <2>3 DEF Active
    <3>2. u \notin bad
      BY <1>6, <3>1 DEF Flow, AskedFirst, Active
    <3>3. u \in stats.inflight /\ u \notin sched.acks /\ ~Wired(Ending(u))
      BY <3>1 DEF Flow, ActiveInFlight
    <3>4. QED
      BY <1>2, <1>4, <1>5, <1>9, <2>3, <3>1, <3>2, <3>3
  <2>4. QED
    BY <2>2, <2>3
<1>13. CountedInFlight'
  BY <1>2, <1>8 DEF Flow, CountedInFlight
<1>14. Unused'
  <2>1. SUFFICES ASSUME NEW u \in Uids, http'[u] = "none"
        PROVE  /\ u \notin stats'.inflight \cup sched'.acks \cup sched'.tombs
               /\ sched'.stage[u] = "none" /\ ~Wired(Ending(u))'
               /\ ~In(f2t', Msg("abort", u)) /\ ~(lp'.at = "send" /\ lp'.msg = Msg("abort", u))
               /\ Untouched(u)'
    BY DEF Unused
  <2>2. http[u] = "none"
    BY <1>2, <2>1
  <2>3. /\ u \notin stats.inflight \cup sched.acks \cup sched.tombs
        /\ sched.stage[u] = "none" /\ ~Wired(Ending(u))
        /\ ~In(f2t, Msg("abort", u)) /\ ~(lp.at = "send" /\ lp.msg = Msg("abort", u))
        /\ Untouched(u)
    BY <2>2 DEF Flow, Unused
  <2>4. u \notin bad \cup arrived /\ u \notin aborts
    BY <1>3, <1>4, <1>6, <2>2, <2>3 DEF Flow, AskedFirst
  <2>5. QED
    BY <1>2, <1>3, <1>4, <1>5, <1>9, <2>3, <2>4 DEF Untouched
<1>15. QED
  BY <1>10, <1>11, <1>12, <1>13, <1>14 DEF Flow

(* Every step keeps Flow.                                                  *)
LEMMA FlowStep ==
  ASSUME Types, Flow, Order, [Next]_vars
  PROVE  Flow'
<1>1. CASE \E u \in Uids : new_user(u)
  BY <1>1, FlowByRequest
<1>2. CASE send_one /\ ~fatal
  BY <1>2, FlowBySend
<1>3. CASE listen \/ ResolveRebuild
  BY <1>3, FlowByReply
<1>4. CASE \/ \E i \in Rebuilds : ExecuteRebuild(i)
           \/ \E u \in Uids : AdmitPrompt(u) \/ SampleToken(u)
  <2>1. PICK m \in FromBackend :
           /\ s2t' = Append(s2t, m) /\ SchedulerKeeps
           /\ \A u \in Uids : Active(u)' => Active(u) /\ m \notin Ending(u)
           /\ \A u \in Uids : sched.stage[u] = "none" => sched'.stage[u] = "none"
           /\ \A u \in Uids : m \in Counted(u) \cup Ending(u) => Active(u)
    BY <1>4, Results
  <2>2. QED
    BY <2>1, FlowByResult
<1>5. CASE FlushAcks
  BY <1>5, FlowByAcks
<1>6. CASE tokenize_worker
  BY <1>6, FlowByDrain
<1>7. CASE \/ \E u \in Uids : \/ ConsumerStart(u) \/ ConsumerTake(u) \/ Disconnect(u)
                              \/ abort_user(u) \/ AbortUnsent(u)
           \/ ResolveGate \/ FailPending \/ (send_one /\ fatal)
           \/ Prepare \/ Rebuild \/ Supervise \/ Stop
           \/ \E w \in Workers : WorkerDies(w)
           \/ UNCHANGED vars
  BY <1>7, QuietSteps, FlowQuiet
<1>8. CASE \E u \in Uids : RequestUnsent(u)
  BY <1>8, FlowByUnsent
<1>9. QED
  BY <1>1, <1>2, <1>3, <1>4, <1>5, <1>6, <1>7, <1>8 DEF Next, Requests, Listener, Schedule

(* Wherever a step leaves the backend's wires alone, they are in order.     *)
LEMMA WiresLeft ==
  ASSUME Types, Flow, Next,
         ~listen, ~ResolveRebuild, ~FlushAcks, ~tokenize_worker,
         ~ \E i \in Rebuilds : ExecuteRebuild(i),
         ~ \E u \in Uids : AdmitPrompt(u) \/ SampleToken(u)
  PROVE  UNCHANGED <<s2t, t2f>>
<1>1. CASE \E u \in Uids : new_user(u) \/ RequestUnsent(u)
  BY <1>1 DEF new_user, RequestUnsent, wires
<1>2. CASE send_one
  BY <1>2 DEF send_one
<1>3. CASE \/ \E u \in Uids : \/ ConsumerStart(u) \/ ConsumerTake(u) \/ Disconnect(u)
                              \/ abort_user(u) \/ AbortUnsent(u)
           \/ ResolveGate \/ FailPending \/ (send_one /\ fatal)
           \/ Prepare \/ Rebuild \/ Supervise \/ Stop
           \/ \E w \in Workers : WorkerDies(w)
           \/ UNCHANGED vars
  BY <1>3, QuietSteps DEF Quiet
<1>4. QED
  BY <1>1, <1>2, <1>3 DEF Next, Requests, Listener, Schedule

(* Every step keeps the order of the wires.                                *)
LEMMA OrderStep ==
  ASSUME Types, Flow, Order, [Next]_vars
  PROVE  Order'
<1>0. Orderly(t2f) /\ Orderly(s2t) /\ Before(t2f, s2t)
  BY DEF Order
<1>1. CASE listen \/ ResolveRebuild
  <2>1. /\ t2f # <<>> /\ t2f' = Tail(t2f) /\ s2t' = s2t
    BY <1>1 DEF listen, ResolveRebuild
  <2>2. Orderly(t2f') /\ \A x : In(t2f', x) => In(t2f, x)
    BY <2>1, Heard
  <2>3. Before(t2f', s2t')
    BY <1>0, <2>1, <2>2 DEF Before
  <2>4. QED
    BY <1>0, <2>1, <2>2, <2>3 DEF Order
<1>2. CASE \/ \E i \in Rebuilds : ExecuteRebuild(i)
           \/ \E u \in Uids : AdmitPrompt(u) \/ SampleToken(u)
  <2>1. PICK m \in FromBackend :
           /\ s2t' = Append(s2t, m) /\ SchedulerKeeps
           /\ \A u \in Uids : m \in Counted(u) \cup Ending(u) => Active(u)
    BY <1>2, Results
  <2>2. \A u \in Uids : m \in Counted(u) => ~Wired(Ending(u))
    BY <2>1 DEF Flow, ActiveInFlight
  <2>3. \A u \in Uids : m \in Counted(u) => \A x \in Ending(u) : ~In(s2t, x) /\ ~In(t2f, x)
    BY <2>2 DEF Wired
  <2>4. Orderly(s2t') /\ \A x : In(s2t', x) <=> In(s2t, x) \/ x = m
    BY <1>0, <2>1, <2>3, Sent
  <2>5. t2f' = t2f
    BY <2>1 DEF SchedulerKeeps
  <2>6. Before(t2f', s2t')
    BY <1>0, <2>3, <2>4, <2>5 DEF Before
  <2>7. QED
    BY <1>0, <2>4, <2>5, <2>6 DEF Order
<1>3. CASE FlushAcks
  <2>1. PICK acks \in Seq(FromBackend) :
           /\ s2t' = s2t \o acks
           /\ \A x : In(acks, x) => \E u \in sched.acks : x = Msg("error", u)
    BY <1>3, Flushed
  <2>2. t2f' = t2f /\ s2t \in Seq(FromBackend)
    BY <1>3 DEF FlushAcks, SchedVars, Types
  <2>3. \A x : In(acks, x) => \A u \in Uids : x \notin Counted(u)
    BY <2>1 DEF Counted, SamplesOf, Msg
  <2>4. \A x : In(s2t', x) <=> In(s2t, x) \/ In(acks, x)
    BY <2>1, <2>2, InJoined
  <2>5. Orderly(acks)
    BY <2>3 DEF Orderly, In
  <2>6. Before(s2t, acks)
    BY <2>3 DEF Before
  <2>7. Orderly(s2t')
    BY <1>0, <2>1, <2>2, <2>5, <2>6, OrderlyJoined
  <2>8. Before(t2f', s2t')
    BY <1>0, <2>2, <2>3, <2>4 DEF Before
  <2>9. QED
    BY <1>0, <2>2, <2>7, <2>8 DEF Order
<1>4. CASE tokenize_worker
  <2>1. PICK client, left, result, rest, replies, errors, arrived, aborts, bad, long :
          Drained(client, left, result, rest, replies, errors, arrived, aborts, bad, long)
    BY <1>4, TokenizerDrain
  <2>2. /\ \A x : In(f2t, x) <=> In(client, x) \/ In(left, x)
        /\ \A x : In(s2t, x) <=> In(result, x) \/ In(rest, x)
        /\ \A x : In(t2f', x) <=> In(t2f, x) \/ In(result, x) \/ In(errors, x)
        /\ \A x : In(s2t', x) <=> In(rest, x) \/ In(replies, x)
    BY <2>1, DrainWires
  <2>3. /\ result \in Seq(FromBackend) /\ rest \in Seq(FromBackend)
        /\ replies \in Seq(FromBackend) /\ errors \in Seq(FromBackend)
        /\ t2f \in Seq(FromBackend)
        /\ s2t = result \o rest /\ s2t' = rest \o replies
        /\ t2f' = (t2f \o Moved(result)) \o errors
        /\ \A m : In(errors, m) => \E u \in bad : m = Msg("error", u)
        /\ \A m : In(replies, m) =>
             m.kind = "rebuilt" \/ \E u \in long \ sched.tombs : m = Msg("error", u)
        /\ bad \subseteq Uids
        /\ \A u \in bad : In(client, Msg("request", u))
    BY <2>1 DEF Drained, Types
  <2>4. Orderly(result) /\ Orderly(rest) /\ Before(result, rest)
    BY <1>0, <2>3, OrderlyJoined
  <2>5. \A x : In(errors, x) => \A u \in Uids : x \notin Counted(u)
    BY <2>3 DEF Counted, SamplesOf, Msg
  <2>6. \A x : In(replies, x) => \A u \in Uids : x \notin Counted(u)
    <3>1. SUFFICES ASSUME NEW x, In(replies, x) PROVE \A u \in Uids : x \notin Counted(u)
      OBVIOUS
    <3>2. x \in FromBackend
      BY <2>3, <3>1 DEF In
    <3>3. x.kind \in {"rebuilt", "error"}
      BY <2>3, <3>1 DEF Msg
    <3>4. QED
      BY <3>2, <3>3, FromKinds
  <2>7. \A u \in Uids : (\E x \in Ending(u) : In(errors, x)) => ~Wired(Counted(u))
    <3>1. SUFFICES ASSUME NEW u \in Uids, NEW x \in Ending(u), In(errors, x)
                   PROVE  ~Wired(Counted(u))
      OBVIOUS
    <3>2. u \in bad
      BY <2>3, <3>1 DEF Ending, Msg
    <3>3. Asking(u)
      BY <2>2, <2>3, <3>2 DEF Asking
    <3>4. QED
      BY <3>3 DEF Flow, AskedFirst
  <2>8. Orderly(s2t')
    <3>1. Orderly(replies) /\ Before(rest, replies)
      BY <2>6 DEF Orderly, Before, In
    <3>2. QED
      BY <2>3, <2>4, <3>1, OrderlyJoined
  <2>9. Orderly(t2f')
    <3> DEFINE moved == Moved(result)
               a == t2f \o moved
    <3>1. moved \in Seq(FromBackend) /\ Orderly(moved) /\ \A x : In(moved, x) <=> In(result, x)
      BY <2>3, <2>4, MovedFacts
    <3> HIDE DEF moved
    <3>2. Before(t2f, moved)
      BY <1>0, <2>2, <3>1 DEF Before
    <3>3. a \in Seq(FromBackend) /\ Orderly(a)
      BY <1>0, <2>3, <3>1, <3>2, OrderlyJoined, InJoined
    <3>4. t2f' = a \o errors
      BY <2>3 DEF moved
    <3>5. Orderly(errors)
      BY <2>5 DEF Orderly, In
    <3> HIDE DEF a
    <3>6. Before(a, errors)
      BY <2>5 DEF Before
    <3>7. QED
      BY <2>3, <3>3, <3>4, <3>5, <3>6, OrderlyJoined
  <2>10. Before(t2f', s2t')
    <3>1. SUFFICES ASSUME NEW u \in Uids, NEW x \in Ending(u), In(t2f', x),
                          NEW y \in Counted(u), In(s2t', y)
                   PROVE  FALSE
      BY DEF Before
    <3>2. In(rest, y) /\ In(s2t, y)
      BY <2>2, <2>6, <3>1
    <3>3. CASE In(t2f, x)
      BY <1>0, <3>1, <3>2, <3>3 DEF Before
    <3>4. CASE In(result, x)
      BY <2>4, <3>1, <3>2, <3>4 DEF Before
    <3>5. CASE In(errors, x)
      BY <2>7, <3>1, <3>2, <3>5 DEF Wired
    <3>6. QED
      BY <2>2, <3>1, <3>3, <3>4, <3>5
  <2>11. QED
    BY <2>8, <2>9, <2>10 DEF Order
<1>5. CASE UNCHANGED <<s2t, t2f>>
  BY <1>5 DEF Order
<1>6. QED
  <2>1. UNCHANGED vars => UNCHANGED <<s2t, t2f>>
    BY DEF vars, wires
  <2>2. QED
    BY <1>1, <1>2, <1>3, <1>4, <1>5, <2>1, WiresLeft

-----------------------------------------------------------------------------
(* The books.                                                              *)

(* What the backend's wires carry of a class of messages.                  *)
Carried(M) == Count(t2f, M) + Count(s2t, M)

(* It is a number, nothing where nothing is on a wire.                     *)
LEMMA CarriedIsNumber ==
  ASSUME Types, NEW M
  PROVE  /\ Count(t2f, M) \in Nat /\ Count(s2t, M) \in Nat /\ Carried(M) \in Nat
         /\ ~Wired(M) => Carried(M) = 0
<1>1. t2f \in Seq(FromBackend) /\ s2t \in Seq(FromBackend)
  BY DEF Types
<1>2. Count(t2f, M) \in Nat /\ (Count(t2f, M) = 0 <=> \A m \in M : ~In(t2f, m))
  BY <1>1, CountIsNumber
<1>3. Count(s2t, M) \in Nat /\ (Count(s2t, M) = 0 <=> \A m \in M : ~In(s2t, m))
  BY <1>1, CountIsNumber
<1>4. QED
  BY <1>2, <1>3 DEF Carried, Wired

(* A reply that is heard is carried no more.                               *)
LEMMA CarriedHeard ==
  ASSUME Types, listen \/ ResolveRebuild, NEW M
  PROVE  /\ Carried(M) = Carried(M)' + (IF Head(t2f) \in M THEN 1 ELSE 0)
         /\ Carried(M)' \in Nat
<1>1. t2f # <<>> /\ t2f' = Tail(t2f) /\ s2t' = s2t
  BY DEF listen, ResolveRebuild
<1>2. /\ Count(t2f', M) \in Nat
      /\ Count(t2f, M) = Count(t2f', M) + (IF Head(t2f) \in M THEN 1 ELSE 0)
  BY <1>1, HeardCount
<1>3. Count(s2t, M) \in Nat
  BY CarriedIsNumber
<1>4. Carried(M)' = Count(t2f', M) + Count(s2t, M)
  BY <1>1 DEF Carried
<1>5. QED
  BY <1>2, <1>3, <1>4 DEF Carried

(* What the scheduler sends is carried.                                    *)
LEMMA CarriedSent ==
  ASSUME Types, NEW m \in FromBackend, s2t' = Append(s2t, m), t2f' = t2f, NEW M
  PROVE  Carried(M)' = Carried(M) + (IF m \in M THEN 1 ELSE 0)
<1>1. /\ Count(s2t', M) = Count(s2t, M) + (IF m \in M THEN 1 ELSE 0)
      /\ Count(s2t, M) \in Nat
  BY SentCount
<1>2. Count(t2f, M) \in Nat
  BY CarriedIsNumber
<1>3. Carried(M)' = Count(t2f, M) + Count(s2t', M)
  BY DEF Carried
<1>4. QED
  BY <1>1, <1>2, <1>3 DEF Carried

(* Acknowledgements and drains leave what counts as it is.                  *)
LEMMA CarriedKept ==
  ASSUME Types, FlushAcks \/ tokenize_worker, NEW M,
         \A m \in M : m.kind \notin {"error", "rebuilt"}
  PROVE  Carried(M)' = Carried(M)
<1>1. CASE FlushAcks
  <2>1. PICK acks \in Seq(FromBackend) :
           /\ s2t' = s2t \o acks
           /\ \A x : In(acks, x) => \E u \in sched.acks : x = Msg("error", u)
    BY <1>1, Flushed
  <2>2. \A m \in M : ~In(acks, m)
    BY <2>1 DEF Msg
  <2>3. Count(acks, M) = 0
    BY <2>2, CountIsNumber
  <2>4. Count(s2t', M) = Count(s2t, M) + Count(acks, M)
    BY <2>1, CountJoined DEF Types
  <2>5. Count(s2t, M) \in Nat
    BY CarriedIsNumber
  <2>6. t2f' = t2f
    BY <1>1 DEF FlushAcks, SchedVars
  <2>7. QED
    BY <2>3, <2>4, <2>5, <2>6 DEF Carried
<1>2. CASE tokenize_worker
  <2>1. PICK client, left, result, rest, replies, errors, arrived, aborts, bad, long :
          Drained(client, left, result, rest, replies, errors, arrived, aborts, bad, long)
    BY <1>2, TokenizerDrain
  <2>2. /\ replies \in Seq(FromBackend) /\ errors \in Seq(FromBackend)
        /\ \A m : In(errors, m) => \E u \in bad : m = Msg("error", u)
        /\ \A m : In(replies, m) =>
             m.kind = "rebuilt" \/ \E u \in long \ sched.tombs : m = Msg("error", u)
    BY <2>1 DEF Drained
  <2>3. \A m \in M : ~In(errors, m)
    BY <2>2 DEF Msg
  <2>4. \A m \in M : ~In(replies, m)
    BY <2>2 DEF Msg
  <2>5. Count(errors, M) = 0
    BY <2>2, <2>3, CountIsNumber
  <2>6. Count(replies, M) = 0
    BY <2>2, <2>4, CountIsNumber
  <2>7. /\ Count(s2t, M) = Count(result, M) + Count(rest, M)
        /\ Count(t2f', M) = Count(t2f, M) + Count(result, M) + Count(errors, M)
        /\ Count(s2t', M) = Count(rest, M) + Count(replies, M)
        /\ Count(result, M) \in Nat /\ Count(rest, M) \in Nat /\ Count(t2f, M) \in Nat
    BY <2>1, DrainCounts
  <2>8. Carried(M)' = Count(t2f', M) + Count(s2t', M)
    BY DEF Carried
  <2>9. QED
    BY <2>5, <2>6, <2>7, <2>8 DEF Carried
<1>3. QED
  BY <1>1, <1>2

(* The kinds that count.                                                   *)
LEMMA CountedKinds ==
  /\ \A m \in Admissions : m.kind \notin {"error", "rebuilt"}
  /\ \A m \in Samples : m.kind \notin {"error", "rebuilt"}
  /\ \A u : \A m \in SamplesOf(u) : m.kind \notin {"error", "rebuilt"}
<1>1. \A m \in Admissions : m.kind \notin {"error", "rebuilt"}
  BY DEF Admissions, Msg
<1>2. \A m \in Samples : m.kind \notin {"error", "rebuilt"}
  BY DEF Samples, Msg
<1>3. \A u : \A m \in SamplesOf(u) : m.kind \notin {"error", "rebuilt"}
  BY DEF SamplesOf, Msg
<1>4. QED
  BY <1>1, <1>2, <1>3

(* Apart from the listener and the scheduler's results nobody writes in the *)
(* books.                                                                  *)
LEMMA BooksLeft ==
  ASSUME Types, Next, ~listen,
         ~ \E u \in Uids : AdmitPrompt(u) \/ SampleToken(u)
  PROVE  work' = work /\ stats'.prompt = stats.prompt /\ stats'.completion = stats.completion
<1>0. stats \in Figures
  BY DEF Types
<1>1. ASSUME Requests
      PROVE  work' = work /\ stats'.prompt = stats.prompt /\ stats'.completion = stats.completion
  BY <1>0, <1>1 DEF Requests, new_user, ConsumerStart, ConsumerTake, Disconnect, abort_user,
     RequestUnsent, AbortUnsent, on_abort, back, Figures
<1>2. ASSUME Listener
      PROVE  work' = work /\ stats' = stats
  BY <1>2 DEF Listener, ResolveRebuild, ResolveGate, FailPending, send_one, back
<1>3. ASSUME Prepare \/ Rebuild PROVE work' = work /\ stats' = stats
  BY <1>3 DEF Prepare, PrepareCall, PrepareClose, PrepareSeal, PrepareAbort, PrepareRefuse,
     Rebuild, dispatch_rebuild, RebuildSendFails, RebuildCall, RebuildTimeout, back
<1>4. ASSUME Supervise \/ Stop PROVE work' = work /\ stats' = stats
  BY <1>4 DEF Supervise, ReadyTest, ReadySet, FindDead, StayQuiet, OnFailure, OnFailureLatch,
     Stop, Sigterm, ExitAfterDeath, Stopping, ShutdownFlag, ShutdownWorkers, back
<1>5. ASSUME tokenize_worker \/ Schedule \/ \E w \in Workers : WorkerDies(w)
      PROVE  work' = work /\ stats' = stats
  BY <1>5 DEF tokenize_worker, Schedule, FlushAcks, ExecuteRebuild, SchedVars, WorkerDies
<1>6. QED
  BY <1>1, <1>2, <1>3, <1>4, <1>5 DEF Next

(* Every step keeps them.                                                  *)
LEMMA BooksStep ==
  ASSUME Types, Flow, Order, Books, [Next]_vars
  PROVE  Books'
<1>0. /\ Carried(Admissions) \in Nat /\ Carried(Samples) \in Nat
      /\ stats \in Figures /\ work \in Totals
  BY CarriedIsNumber DEF Types
<1>1. /\ work.prompt = stats.prompt + Carried(Admissions)
      /\ work.completion = stats.completion + Carried(Samples)
  <2>1. \A M : Count(t2f, M) \in Nat /\ Count(s2t, M) \in Nat
    BY CarriedIsNumber
  <2>2. QED
    BY <1>0, <2>1 DEF Books, Carried, Figures
<1>2. SUFFICES /\ work'.prompt = stats'.prompt + Carried(Admissions)'
               /\ work'.completion = stats'.completion + Carried(Samples)'
  <2>1. Types'
    BY TypesStep
  <2>2. /\ Count(t2f', Admissions) \in Nat /\ Count(s2t', Admissions) \in Nat
        /\ Count(t2f', Samples) \in Nat /\ Count(s2t', Samples) \in Nat
    BY <2>1, CountIsNumber DEF Types
  <2>3. stats'.prompt \in Nat /\ stats'.completion \in Nat
    BY <2>1 DEF Types, Figures
  <2>4. QED
    BY <2>2, <2>3 DEF Books, Carried
<1>3. CASE listen
  <2> DEFINE m == Head(t2f)
  <2>1. /\ Carried(Admissions) = Carried(Admissions)' + (IF m \in Admissions THEN 1 ELSE 0)
        /\ Carried(Admissions)' \in Nat
    BY <1>3, CarriedHeard
  <2>2. /\ Carried(Samples) = Carried(Samples)' + (IF m \in Samples THEN 1 ELSE 0)
        /\ Carried(Samples)' \in Nat
    BY <1>3, CarriedHeard
  <2>3. /\ m \in Admissions <=> m.kind = "admitted"
        /\ m \in Samples <=> m.kind \in {"token", "final"}
    <3>1. m \in FromBackend
      BY <1>3, Heard DEF listen
    <3>2. QED
      BY <3>1, FromKinds
  <2>4. /\ stats'.prompt = stats.prompt + (IF m.kind = "admitted" THEN 1 ELSE 0)
        /\ stats'.completion = stats.completion + (IF m.kind \in {"token", "final"} THEN 1 ELSE 0)
        /\ work' = work
    BY <1>0, <1>3 DEF listen, observe, back, Figures
  <2>5. stats.prompt \in Nat /\ stats.completion \in Nat
    BY <1>0 DEF Figures
  <2> HIDE DEF m
  <2>6. QED
    BY <1>1, <2>1, <2>2, <2>3, <2>4, <2>5
<1>4. CASE \E u \in Uids : AdmitPrompt(u) \/ SampleToken(u)
  <2>1. PICK m \in FromBackend :
           /\ s2t' = Append(s2t, m) /\ SchedulerKeeps
           /\ \/ /\ m.kind \in Control
                 /\ UNCHANGED <<work, got>>
              \/ /\ m.kind = "admitted"
                 /\ work' = [work EXCEPT !.prompt = @ + 1]
              \/ /\ m.kind \in {"token", "final"}
                 /\ work' = [work EXCEPT !.completion = @ + 1]
    BY <1>4, Results
  <2>2. t2f' = t2f /\ stats' = stats
    BY <2>1 DEF SchedulerKeeps
  <2>3. Carried(Admissions)' = Carried(Admissions) + (IF m \in Admissions THEN 1 ELSE 0)
    BY <2>1, <2>2, CarriedSent
  <2>4. Carried(Samples)' = Carried(Samples) + (IF m \in Samples THEN 1 ELSE 0)
    BY <2>1, <2>2, CarriedSent
  <2>5. /\ m \in Admissions <=> m.kind = "admitted"
        /\ m \in Samples <=> m.kind \in {"token", "final"}
    BY FromKinds
  <2>6. /\ work'.prompt = work.prompt + (IF m.kind = "admitted" THEN 1 ELSE 0)
        /\ work'.completion = work.completion + (IF m.kind \in {"token", "final"} THEN 1 ELSE 0)
    <3>1. work.prompt \in Nat /\ work.completion \in Nat
      BY <1>0 DEF Totals
    <3>2. QED
      BY <1>0, <2>1, <3>1 DEF Totals, Control
  <2>7. stats.prompt \in Nat /\ stats.completion \in Nat
    BY <1>0 DEF Figures
  <2>8. QED
    BY <1>0, <1>1, <2>2, <2>3, <2>4, <2>5, <2>6, <2>7
<1>5. CASE ~listen /\ ~ \E u \in Uids : AdmitPrompt(u) \/ SampleToken(u)
  <2>1. work' = work /\ stats'.prompt = stats.prompt /\ stats'.completion = stats.completion
    <3>1. UNCHANGED vars => work' = work /\ stats' = stats
      BY DEF vars, back
    <3>2. QED
      BY <1>5, <3>1, BooksLeft
  <2>2. Carried(Admissions)' = Carried(Admissions) /\ Carried(Samples)' = Carried(Samples)
    <3>1. CASE ResolveRebuild
      <4> DEFINE m == Head(t2f)
      <4>1. /\ Carried(Admissions) = Carried(Admissions)' + (IF m \in Admissions THEN 1 ELSE 0)
            /\ Carried(Admissions)' \in Nat
        BY <3>1, CarriedHeard
      <4>2. /\ Carried(Samples) = Carried(Samples)' + (IF m \in Samples THEN 1 ELSE 0)
            /\ Carried(Samples)' \in Nat
        BY <3>1, CarriedHeard
      <4>3. m \in FromBackend
        BY <3>1, Heard DEF ResolveRebuild
      <4>4. m.kind \in {"rebuilt", "rebuild_failed"}
        BY <3>1 DEF ResolveRebuild
      <4> HIDE DEF m
      <4>5. m \notin Admissions /\ m \notin Samples
        BY <4>3, <4>4, FromKinds
      <4>6. QED
        BY <4>1, <4>2, <4>5
    <3>2. CASE \E i \in Rebuilds : ExecuteRebuild(i)
      <4>1. PICK i \in Rebuilds : ExecuteRebuild(i)
        BY <3>2
      <4>2. PICK kind \in {"rebuilt", "rebuild_failed"} : s2t' = Append(s2t, Msg(kind, i))
        BY <4>1 DEF ExecuteRebuild
      <4>3. PICK m \in FromBackend : m = Msg(kind, i) /\ m.kind = kind
        <5>1. Msg(kind, i) \in FromBackend /\ Msg(kind, i).kind = kind
          BY DEF FromBackend, Msg, Control
        <5>2. QED
          BY <5>1
      <4>4. t2f' = t2f /\ s2t' = Append(s2t, m)
        BY <4>1, <4>2, <4>3 DEF ExecuteRebuild, SchedVars
      <4>5. Carried(Admissions)' = Carried(Admissions) + (IF m \in Admissions THEN 1 ELSE 0)
        BY <4>4, CarriedSent
      <4>6. Carried(Samples)' = Carried(Samples) + (IF m \in Samples THEN 1 ELSE 0)
        BY <4>4, CarriedSent
      <4>7. m \notin Admissions /\ m \notin Samples
        BY <4>3, FromKinds
      <4>8. QED
        BY <1>0, <4>5, <4>6, <4>7
    <3>3. CASE FlushAcks \/ tokenize_worker
      <4>1. Carried(Admissions)' = Carried(Admissions)
        BY <3>3, CountedKinds, CarriedKept
      <4>2. Carried(Samples)' = Carried(Samples)
        BY <3>3, CountedKinds, CarriedKept
      <4>3. QED
        BY <4>1, <4>2
    <3>4. CASE UNCHANGED <<s2t, t2f>>
      BY <3>4 DEF Carried
    <3>5. UNCHANGED vars => UNCHANGED <<s2t, t2f>>
      BY DEF vars, wires
    <3>6. QED
      BY <1>5, <3>1, <3>2, <3>3, <3>4, <3>5, WiresLeft
  <2>3. QED
    BY <1>1, <2>1, <2>2
<1>6. QED
  BY <1>3, <1>4, <1>5

-----------------------------------------------------------------------------
(* The responses.                                                          *)

Tokens == {"token", "final"}

(* Nothing but the listener and a sample changes what is carried of a       *)
(* response.                                                               *)
LEMMA SamplesKept ==
  ASSUME Types, Flow, Order, [Next]_vars, ~listen, ~ \E v \in Uids : SampleToken(v), NEW u
  PROVE  Carried(SamplesOf(u))' = Carried(SamplesOf(u))
<1> DEFINE M == SamplesOf(u)
<1>0. Carried(M) \in Nat
  BY CarriedIsNumber
<1>1. \A m \in M : m.kind \notin {"error", "rebuilt"}
  BY CountedKinds
<1>2. \A m \in FromBackend : m.kind \notin Tokens => m \notin M
  BY FromKinds DEF Tokens
<1> HIDE DEF M
<1>3. CASE ResolveRebuild
  <2>1. /\ Carried(M) = Carried(M)' + (IF Head(t2f) \in M THEN 1 ELSE 0)
        /\ Carried(M)' \in Nat
    BY <1>3, CarriedHeard
  <2>2. Head(t2f) \in FromBackend
    BY <1>3, Heard DEF ResolveRebuild
  <2>3. Head(t2f).kind \notin Tokens
    BY <1>3 DEF ResolveRebuild, Tokens
  <2>4. QED
    BY <1>0, <1>2, <2>1, <2>2, <2>3 DEF M
<1>4. CASE (\E i \in Rebuilds : ExecuteRebuild(i)) \/ \E v \in Uids : AdmitPrompt(v)
  <2>1. PICK m \in FromBackend : s2t' = Append(s2t, m) /\ m.kind \notin Tokens
    <3>1. CASE \E i \in Rebuilds : ExecuteRebuild(i)
      <4>1. PICK i \in Rebuilds : ExecuteRebuild(i)
        BY <3>1
      <4>2. PICK kind \in {"rebuilt", "rebuild_failed"} : s2t' = Append(s2t, Msg(kind, i))
        BY <4>1 DEF ExecuteRebuild
      <4>3. Msg(kind, i) \in FromBackend /\ Msg(kind, i).kind \notin Tokens
        BY DEF FromBackend, Msg, Control, Tokens
      <4>4. QED
        BY <4>2, <4>3
    <3>2. CASE \E v \in Uids : AdmitPrompt(v)
      <4>1. PICK v \in Uids : s2t' = Append(s2t, Msg("admitted", v))
        BY <3>2 DEF AdmitPrompt
      <4>2. Msg("admitted", v) \in FromBackend /\ Msg("admitted", v).kind \notin Tokens
        BY DEF FromBackend, Msg, Replies, Tokens
      <4>3. QED
        BY <4>1, <4>2
    <3>3. QED
      BY <1>4, <3>1, <3>2
  <2>2. t2f' = t2f
    BY <1>4 DEF ExecuteRebuild, AdmitPrompt, SchedVars
  <2>3. Carried(M)' = Carried(M) + (IF m \in M THEN 1 ELSE 0)
    BY <2>1, <2>2, CarriedSent DEF M
  <2>4. QED
    BY <1>0, <1>2, <2>1, <2>3 DEF M
<1>5. CASE FlushAcks \/ tokenize_worker
  BY <1>1, <1>5, CarriedKept DEF M
<1>6. CASE UNCHANGED <<s2t, t2f>>
  BY <1>6 DEF Carried, M, SamplesOf
<1>7. UNCHANGED vars => UNCHANGED <<s2t, t2f>>
  BY DEF vars, wires
<1>8. QED
  BY <1>3, <1>4, <1>5, <1>6, <1>7, WiresLeft DEF M

(* What the steps that are not about a response leave as it is.             *)
ResponsesKept ==
    /\ mapped' \subseteq mapped /\ stats'.inflight \subseteq stats.inflight
    /\ UNCHANGED <<box, got, genfailed>>
    /\ \A u \in Uids : /\ http[u] = "ended" => http'[u] = "ended"
                       /\ http[u] # "none" => http'[u] # "none"

(* The steps that are not about a response leave it as it is.              *)
LEMMA ResponsesLeft ==
  ASSUME Types, [Next]_vars, ~listen, ~FailPending,
         ~ \E v \in Uids : new_user(v) \/ RequestUnsent(v) \/ ConsumerTake(v) \/ SampleToken(v)
  PROVE  ResponsesKept
<1>0. stats \in Figures /\ http \in [Uids -> {"none", "open", "waiting", "ended", "broken", "left", "unsent"}]
  BY DEF Types
<1>1. ASSUME Requests PROVE ResponsesKept
  <2>1. CASE \E v \in Uids : ConsumerStart(v)
    BY <1>0, <2>1 DEF ConsumerStart, ResponsesKept
  <2>2. CASE \E v \in Uids : Disconnect(v)
    BY <1>0, <2>2 DEF Disconnect, ResponsesKept
  <2>3. CASE \E v \in Uids : abort_user(v) \/ AbortUnsent(v)
    BY <1>0, <2>3 DEF abort_user, AbortUnsent, on_abort, ResponsesKept, Figures
  <2>4. QED
    BY <1>1, <2>1, <2>2, <2>3 DEF Requests
<1>2. ASSUME Listener PROVE ResponsesKept
  BY <1>2 DEF Listener, ResolveRebuild, ResolveGate, send_one, taskvars, ResponsesKept
<1>3. ASSUME Prepare \/ Rebuild PROVE ResponsesKept
  BY <1>3 DEF Prepare, PrepareCall, PrepareClose, PrepareSeal, PrepareAbort, PrepareRefuse,
     Rebuild, dispatch_rebuild, RebuildSendFails, RebuildCall, RebuildTimeout, taskvars,
     ResponsesKept
<1>4. ASSUME Supervise \/ Stop PROVE ResponsesKept
  BY <1>4 DEF Supervise, ReadyTest, ReadySet, FindDead, StayQuiet, OnFailure, OnFailureLatch,
     Stop, Sigterm, ExitAfterDeath, Stopping, ShutdownFlag, ShutdownWorkers, taskvars,
     ResponsesKept
<1>5. ASSUME tokenize_worker \/ Schedule \/ \E w \in Workers : WorkerDies(w)
      PROVE  ResponsesKept
  <2>1. CASE tokenize_worker \/ \E w \in Workers : WorkerDies(w)
    BY <2>1 DEF tokenize_worker, WorkerDies, taskvars, ResponsesKept
  <2>2. CASE FlushAcks \/ (\E i \in Rebuilds : ExecuteRebuild(i)) \/ \E v \in Uids : AdmitPrompt(v)
    BY <2>2 DEF FlushAcks, ExecuteRebuild, AdmitPrompt, SchedVars, taskvars, ResponsesKept
  <2>3. QED
    BY <1>5, <2>1, <2>2 DEF Schedule
<1>6. ASSUME UNCHANGED vars PROVE ResponsesKept
  BY <1>6 DEF vars, taskvars, ResponsesKept
<1>7. QED
  BY <1>1, <1>2, <1>3, <1>4, <1>5, <1>6 DEF Next

(* A request that is owed what was sampled for it, and one that got all.    *)
Owed(u) ==
    u \in mapped /\ (~genfailed \/ In(box[u], "final")) =>
        got[u].sampled = got[u].delivered + Count(box[u], Tokens) + Carried(SamplesOf(u))
Ended(u) ==
    /\ In(box[u], "final") => u \notin stats.inflight /\ http[u] # "none"
    /\ got[u].last = "final" => /\ u \notin stats.inflight /\ http[u] = "ended"
                                /\ got[u].delivered = got[u].sampled

(* Delivery and Ends say so of each.                                        *)
LEMMA EachOwed ==
  ASSUME Types
  PROVE  (Delivery <=> \A u \in Uids : Owed(u)) /\ (Ends <=> \A u \in Uids : Ended(u))
<1>1. ASSUME NEW u \in Uids
      PROVE  got[u].delivered + Count(box[u], Tokens) + Carried(SamplesOf(u))
               = got[u].delivered + Count(box[u], Tokens)
                   + Count(t2f, SamplesOf(u)) + Count(s2t, SamplesOf(u))
  <2>1. Count(t2f, SamplesOf(u)) \in Nat /\ Count(s2t, SamplesOf(u)) \in Nat
    BY CarriedIsNumber
  <2>2. box[u] \in Seq(Replies) /\ got[u].delivered \in Nat
    BY DEF Types, Streams
  <2>3. Count(box[u], Tokens) \in Nat
    BY <2>2, CountIsNumber
  <2>4. QED
    BY <2>1, <2>2, <2>3 DEF Carried
<1>2. Delivery <=> \A u \in Uids : Owed(u)
  BY <1>1 DEF Delivery, Owed, Tokens
<1>3. QED
  BY <1>2 DEF Ends, Ended

(* One more reply in a box.                                                 *)
LEMMA Boxing ==
  ASSUME NEW q \in Seq(Replies), NEW kind \in Replies
  PROVE  /\ \A x : In(Append(q, kind), x) <=> In(q, x) \/ x = kind
         /\ Count(Append(q, kind), Tokens) = Count(q, Tokens) + (IF kind \in Tokens THEN 1 ELSE 0)
         /\ Count(q, Tokens) \in Nat
<1>1. Count(Append(q, kind), Tokens) = Count(q, Tokens) + (IF kind \in Tokens THEN 1 ELSE 0)
  BY CountAppended
<1>2. \A x : In(Append(q, kind), x) <=> In(q, x) \/ x = kind
  BY Appended
<1>3. QED
  BY <1>1, <1>2, CountIsNumber

(* An empty box.                                                            *)
LEMMA EmptyBox == Count(<<>>, Tokens) = 0 /\ \A x : ~In(<<>>, x)
<1>1. \A x : ~In(<<>>, x)
  BY DEF In
<1>2. <<>> \in Seq(Replies)
  OBVIOUS
<1>3. QED
  BY <1>1, <1>2, CountIsNumber

(* A request out of the books has nothing on a wire.                        *)
LEMMA OffTheWires ==
  ASSUME Types, Flow, NEW u \in Uids, u \notin stats.inflight
  PROVE  ~Wired(Counted(u)) /\ Carried(SamplesOf(u)) = 0
<1>1. ~Wired(Counted(u))
  BY DEF Flow, CountedInFlight
<1>2. ~Wired(SamplesOf(u))
  BY <1>1 DEF Wired, Counted
<1>3. QED
  BY <1>1, <1>2, CarriedIsNumber

(* A step that is not about a response.                                     *)
LEMMA DeliveryByKept ==
  ASSUME ResponsesKept, NEW u \in Uids, Carried(SamplesOf(u))' = Carried(SamplesOf(u)),
         Owed(u), Ended(u)
  PROVE  Owed(u)' /\ Ended(u)'
<1>1. Owed(u)'
  BY DEF ResponsesKept, Owed
<1>2. Ended(u)'
  BY DEF ResponsesKept, Ended
<1>3. QED
  BY <1>1, <1>2

(* A token more.                                                            *)
LEMMA DeliveryBySample ==
  ASSUME Types, Flow, NEW v \in Uids, SampleToken(v),
         NEW u \in Uids, Owed(u), Ended(u)
  PROVE  Owed(u)' /\ Ended(u)'
<1>1. PICK m \in FromBackend :
         /\ s2t' = Append(s2t, m) /\ m.kind \in Tokens /\ m.id = v
  <2>1. PICK kind \in Tokens : s2t' = Append(s2t, Msg(kind, v))
    BY DEF SampleToken, Tokens
  <2>2. Msg(kind, v) \in FromBackend /\ Msg(kind, v).kind \in Tokens /\ Msg(kind, v).id = v
    BY DEF FromBackend, Msg, Replies, Tokens
  <2>3. QED
    BY <2>1, <2>2
<1>2. /\ UNCHANGED <<t2f, box, mapped, genfailed, stats, http>>
      /\ got' = [got EXCEPT ![v].sampled = @ + 1]
      /\ sched.stage[v] = "running"
  BY DEF SampleToken, SchedVars, taskvars
<1>3. m \in SamplesOf(u) <=> u = v
  BY <1>1, FromKinds DEF Tokens
<1>4. Carried(SamplesOf(u))' = Carried(SamplesOf(u)) + (IF u = v THEN 1 ELSE 0)
  <2>1. Carried(SamplesOf(u))' = Carried(SamplesOf(u)) + (IF m \in SamplesOf(u) THEN 1 ELSE 0)
    BY <1>1, <1>2, CarriedSent
  <2>2. QED
    BY <2>1, <1>3
<1>5. /\ got[u].sampled \in Nat /\ got[u].delivered \in Nat
      /\ got'[u].delivered = got[u].delivered /\ got'[u].last = got[u].last
      /\ got'[u].sampled = got[u].sampled + (IF u = v THEN 1 ELSE 0)
  BY <1>2 DEF Types, Streams
<1>6. Count(box[u], Tokens) \in Nat /\ Carried(SamplesOf(u)) \in Nat
  <2>1. box[u] \in Seq(Replies)
    BY DEF Types
  <2>2. QED
    BY <2>1, CountIsNumber, CarriedIsNumber
<1>7. Owed(u)'
  BY <1>2, <1>4, <1>5, <1>6 DEF Owed
<1>8. v \in stats.inflight
  BY <1>2 DEF Flow, ActiveInFlight, Active
<1>9. Ended(u)'
  BY <1>2, <1>5, <1>8 DEF Ended
<1>10. QED
  BY <1>7, <1>9

(* A reply that is heard.                                                   *)
LEMMA DeliveryByReply ==
  ASSUME Types, Flow, Order, listen, NEW u \in Uids, Owed(u), Ended(u)
  PROVE  Owed(u)' /\ Ended(u)'
<1> DEFINE m == Head(t2f)
           delivers == ~genfailed /\ m.id \in mapped
           c == Carried(SamplesOf(u))
<1>1. /\ m \in FromBackend /\ m.kind \in Replies /\ m.id \in Uids
      /\ m \in SamplesOf(u) <=> m.kind \in Tokens /\ m.id = u
      /\ m \in SamplesOf(u) => Wired(Counted(u))
      /\ \A x : In(t2f, x) <=> In(t2f', x) \/ x = m
  <2>1. m \in FromBackend /\ m.kind \notin Control /\ \A x : In(t2f, x) <=> In(t2f', x) \/ x = m
    BY Heard DEF listen, Control
  <2>2. m.kind \in Replies /\ m.id \in Uids
    BY <2>1, FromKinds
  <2>3. m \in SamplesOf(u) <=> m.kind \in Tokens /\ m.id = u
    BY <2>1, FromKinds DEF Tokens
  <2>4. In(t2f, m)
    BY <2>1
  <2>5. m \in SamplesOf(u) => Wired(Counted(u))
    BY <2>4 DEF Wired, Counted
  <2>6. QED
    BY <2>1, <2>2, <2>3, <2>5
<1>2. /\ stats' = observe(stats, m)
      /\ box' = IF delivers THEN [box EXCEPT ![m.id] = Append(@, m.kind)] ELSE box
      /\ UNCHANGED <<mapped, genfailed, got, http>>
  BY DEF listen, Boxed
<1>3. c = c' + (IF m \in SamplesOf(u) THEN 1 ELSE 0) /\ c' \in Nat
  BY CarriedHeard
<1>4. /\ box[u] \in Seq(Replies) /\ Count(box[u], Tokens) \in Nat
      /\ got[u].sampled \in Nat /\ got[u].delivered \in Nat
  <2>1. box[u] \in Seq(Replies) /\ got[u].sampled \in Nat /\ got[u].delivered \in Nat
    BY DEF Types, Streams
  <2>2. QED
    BY <2>1, CountIsNumber
<1>5. /\ stats'.inflight = IF Terminal(m) THEN stats.inflight \ {m.id} ELSE stats.inflight
  <2>1. stats \in Figures
    BY DEF Types
  <2> HIDE DEF m
  <2>2. QED
    BY <1>2, <2>1 DEF observe, Figures
<1> HIDE DEF m, c
<1>6. CASE delivers /\ m.id = u
  <2>1. box'[u] = Append(box[u], m.kind)
    BY <1>2, <1>6 DEF Types
  <2>2. /\ \A x : In(box'[u], x) <=> In(box[u], x) \/ x = m.kind
        /\ Count(box'[u], Tokens) = Count(box[u], Tokens) + (IF m.kind \in Tokens THEN 1 ELSE 0)
    <3>1. /\ \A x : In(Append(box[u], m.kind), x) <=> In(box[u], x) \/ x = m.kind
          /\ Count(Append(box[u], m.kind), Tokens)
               = Count(box[u], Tokens) + (IF m.kind \in Tokens THEN 1 ELSE 0)
      BY <1>1, <1>4, Boxing
    <3>2. QED
      BY <2>1, <3>1
  <2>3. Owed(u)'
    <3>1. got[u].sampled = got[u].delivered + Count(box[u], Tokens) + c
      BY <1>6 DEF Owed, c
    <3>2. got[u].sampled = got[u].delivered + Count(box'[u], Tokens) + c'
      <4>1. m \in SamplesOf(u) <=> m.kind \in Tokens
        BY <1>1, <1>6
      <4> DEFINE b  == Count(box[u], Tokens)
                 b2 == Count(box'[u], Tokens)
                 c2 == c'
      <4>2. /\ b2 = b + (IF m \in SamplesOf(u) THEN 1 ELSE 0)
            /\ c = c2 + (IF m \in SamplesOf(u) THEN 1 ELSE 0)
            /\ b \in Nat /\ c2 \in Nat /\ got[u].delivered \in Nat
            /\ got[u].sampled = got[u].delivered + b + c
        BY <1>3, <1>4, <2>2, <3>1, <4>1
      <4> HIDE DEF b, b2, c2
      <4>3. got[u].sampled = got[u].delivered + b2 + c2
        BY <4>2
      <4>4. QED
        BY <4>3 DEF b2, c2
    <3>3. QED
      BY <1>2, <3>2 DEF Owed, c
  <2>4. Ended(u)'
    <3>1. http[u] # "none"
      BY <1>6 DEF Flow, Unused, Untouched
    <3>2. QED
      BY <1>2, <1>5, <1>6, <2>2, <3>1 DEF Ended, Terminal
  <2>5. QED
    BY <2>3, <2>4
<1>7. CASE ~(delivers /\ m.id = u)
  <2>1. box'[u] = box[u]
    BY <1>1, <1>2, <1>7 DEF Types
  <2>2. Ended(u)'
    BY <1>2, <1>5, <2>1 DEF Ended
  <2>3. Owed(u)'
    <3>1. SUFFICES ASSUME u \in mapped, ~genfailed \/ In(box[u], "final")
                   PROVE  got[u].sampled = got[u].delivered + Count(box[u], Tokens) + c'
      BY <1>2, <2>1 DEF Owed, c
    <3>2. m \notin SamplesOf(u)
      <4>1. SUFFICES ASSUME m \in SamplesOf(u) PROVE FALSE
        OBVIOUS
      <4>2. m.id = u /\ genfailed /\ u \in stats.inflight
        BY <1>1, <1>7, <3>1, <4>1 DEF Flow, CountedInFlight
      <4>3. QED
        BY <3>1, <4>2 DEF Ended
    <3>3. QED
      BY <1>3, <3>1, <3>2 DEF Owed, c
  <2>4. QED
    BY <2>2, <2>3
<1>8. QED
  BY <1>6, <1>7

(* A failure told to everyone who waits.                                    *)
LEMMA DeliveryByFailure ==
  ASSUME Types, FailPending, NEW u \in Uids, Owed(u), Ended(u)
  PROVE  Owed(u)' /\ Ended(u)'
<1>1. /\ box'[u] \in {box[u], Append(box[u], "error")}
      /\ box[u] \in Seq(Replies)
      /\ UNCHANGED <<mapped, got, http, stats, s2t, t2f>>
  BY DEF FailPending, wires, Types
<1>2. /\ In(box'[u], "final") <=> In(box[u], "final")
      /\ Count(box'[u], Tokens) = Count(box[u], Tokens)
  <2>1. CASE box'[u] = box[u]
    BY <2>1
  <2>2. CASE box'[u] = Append(box[u], "error")
    <3>1. /\ \A x : In(Append(box[u], "error"), x) <=> In(box[u], x) \/ x = "error"
          /\ Count(Append(box[u], "error"), Tokens)
               = Count(box[u], Tokens) + (IF "error" \in Tokens THEN 1 ELSE 0)
          /\ Count(box[u], Tokens) \in Nat
      <4>1. "error" \in Replies
        BY DEF Replies
      <4>2. QED
        BY <1>1, <4>1, Boxing
    <3>2. "error" \notin Tokens
      BY DEF Tokens
    <3>3. QED
      BY <2>2, <3>1, <3>2
  <2>3. QED
    BY <1>1, <2>1, <2>2
<1>3. genfailed' = TRUE
  BY DEF FailPending
<1>4. Carried(SamplesOf(u))' = Carried(SamplesOf(u))
  BY <1>1 DEF Carried, SamplesOf
<1>5. Owed(u)'
  BY <1>1, <1>2, <1>3, <1>4 DEF Owed
<1>6. Ended(u)'
  BY <1>1, <1>2 DEF Ended
<1>7. QED
  BY <1>5, <1>6

(* A response takes what is in its box.                                     *)
LEMMA DeliveryByTake ==
  ASSUME Types, Flow, NEW v \in Uids, ConsumerTake(v), NEW u \in Uids, Owed(u), Ended(u)
  PROVE  Owed(u)' /\ Ended(u)'
<1> DEFINE taken == box[v]
           ends  == taken # <<>> /\ Last(taken) \in {"final", "error"}
           count == Cardinality({k \in DOMAIN taken : taken[k] \in {"token", "final"}})
<1>1. /\ IF v \notin mapped
         THEN /\ http' = [http EXCEPT ![v] = "broken"]
              /\ UNCHANGED <<mapped, box, got>>
         ELSE /\ http' = [http EXCEPT ![v] = IF ends THEN "ended" ELSE @]
              /\ mapped' = IF ends THEN mapped \ {v} ELSE mapped
              /\ box' = [box EXCEPT ![v] = <<>>]
              /\ got' = [got EXCEPT ![v].delivered = @ + count,
                                    ![v].last = IF ends THEN Last(taken) ELSE @]
      /\ http[v] = "waiting"
      /\ UNCHANGED <<genfailed, stats, s2t, t2f>>
  BY DEF ConsumerTake, wires
<1>2. count = Count(taken, Tokens) /\ count \in Nat
  <2>1. count = Count(taken, Tokens)
    BY DEF Count, Tokens
  <2>2. taken \in Seq(Replies)
    BY DEF Types
  <2>3. QED
    BY <2>1, <2>2, CountIsNumber
<1>3. ends /\ Last(taken) = "final" => In(box[v], "final")
  <2>1. taken \in Seq(Replies)
    BY DEF Types
  <2>2. taken # <<>> => Len(taken) \in 1 .. Len(taken) /\ Last(taken) = taken[Len(taken)]
    BY <2>1 DEF Last
  <2>3. QED
    BY <2>2 DEF In
<1>4. Carried(SamplesOf(u))' = Carried(SamplesOf(u))
  BY <1>1 DEF Carried, SamplesOf
<1>5. /\ http \in [Uids -> {"none", "open", "waiting", "ended", "broken", "left", "unsent"}]
      /\ box \in [Uids -> Seq(Replies)] /\ got \in [Uids -> Streams]
      /\ got[u] \in Streams
  BY DEF Types
<1>6. CASE v # u
  <2>1. /\ http'[u] = http[u] /\ box'[u] = box[u] /\ got'[u] = got[u]
        /\ u \in mapped' <=> u \in mapped
    <3> HIDE DEF taken, ends, count
    <3>1. QED
      BY <1>1, <1>5, <1>6
  <2>2. QED
    BY <1>1, <1>4, <2>1 DEF Owed, Ended
<1>7. CASE v = u /\ v \notin mapped
  <2>1. UNCHANGED <<mapped, box, got>> /\ http'[u] = "broken"
    BY <1>1, <1>5, <1>7
  <2>2. Owed(u)'
    BY <1>7, <2>1 DEF Owed
  <2>3. Ended(u)'
    BY <1>1, <1>7, <2>1 DEF Ended
  <2>4. QED
    BY <2>2, <2>3
<1>8. CASE v = u /\ v \in mapped
  <2>1. /\ http'[u] = IF ends THEN "ended" ELSE "waiting"
        /\ mapped' = IF ends THEN mapped \ {u} ELSE mapped
        /\ box'[u] = <<>>
        /\ got'[u].delivered = got[u].delivered + count
        /\ got'[u].last = IF ends THEN Last(taken) ELSE got[u].last
        /\ got'[u].sampled = got[u].sampled
    <3> HIDE DEF taken, ends, count
    <3>1. QED
      BY <1>1, <1>5, <1>8 DEF Streams
  <2>2. got[u].last # "final"
    BY <1>1, <1>8 DEF Ended
  <2>3. got[u].sampled \in Nat /\ got[u].delivered \in Nat /\ Carried(SamplesOf(u)) \in Nat
    BY <1>5, CarriedIsNumber DEF Streams
  <2>4. Count(box'[u], Tokens) = 0 /\ ~In(box'[u], "final")
    BY <2>1, EmptyBox
  <2>5. Owed(u)'
    <3>1. SUFFICES ASSUME ~ends, ~genfailed
                   PROVE  got'[u].sampled = got'[u].delivered + Count(box'[u], Tokens)
                                              + Carried(SamplesOf(u))'
      BY <1>1, <2>1, <2>4 DEF Owed
    <3>2. got[u].sampled = got[u].delivered + count + Carried(SamplesOf(u))
      BY <1>2, <1>8, <3>1 DEF Owed
    <3> HIDE DEF taken, count
    <3>3. QED
      BY <1>2, <1>4, <2>1, <2>3, <2>4, <3>2
  <2>6. Ended(u)'
    <3>1. SUFFICES ASSUME ends, Last(taken) = "final"
                   PROVE  /\ u \notin stats.inflight
                          /\ got'[u].delivered = got'[u].sampled
      BY <1>1, <2>1, <2>2, <2>4 DEF Ended
    <3>2. In(box[u], "final") /\ u \notin stats.inflight
      BY <1>3, <1>8, <3>1 DEF Ended
    <3>3. Carried(SamplesOf(u)) = 0
      BY <3>2, OffTheWires
    <3>4. got[u].sampled = got[u].delivered + count + Carried(SamplesOf(u))
      BY <1>2, <1>8, <3>2 DEF Owed
    <3> HIDE DEF taken, count
    <3>5. QED
      BY <1>2, <2>1, <2>3, <3>2, <3>3, <3>4
  <2>7. QED
    BY <2>5, <2>6
<1>9. QED
  BY <1>6, <1>7, <1>8

(* A new request, sent or not.                                              *)
LEMMA DeliveryByRequest ==
  ASSUME Types, Flow, NEW v \in Uids, new_user(v) \/ RequestUnsent(v),
         NEW u \in Uids, Owed(u), Ended(u)
  PROVE  Owed(u)' /\ Ended(u)'
<1>1. /\ http[v] = "none" /\ \A w \in Uids : w # v => http'[w] = http[w]
      /\ mapped' = mapped \cup {v}
      /\ UNCHANGED <<genfailed, box, got, s2t, t2f>>
      /\ stats' = [stats EXCEPT !.inflight = @ \cup {v}, !.aborting = @ \ {v}]
  BY DEF new_user, RequestUnsent, wires, Types
<1>2. Carried(SamplesOf(u))' = Carried(SamplesOf(u))
  BY <1>1 DEF Carried, SamplesOf
<1>3. stats'.inflight = stats.inflight \cup {v}
  BY <1>1 DEF Types, Figures
<1>4. CASE u # v
  <2>1. Owed(u)'
    BY <1>1, <1>2, <1>4 DEF Owed
  <2>2. Ended(u)'
    BY <1>1, <1>3, <1>4 DEF Ended
  <2>3. QED
    BY <2>1, <2>2
<1>5. CASE u = v
  <2>1. box[u] = <<>> /\ got[u] = [sampled |-> 0, delivered |-> 0, last |-> "none"]
        /\ u \notin stats.inflight
    BY <1>1, <1>5 DEF Flow, Unused, Untouched
  <2>2. Carried(SamplesOf(u)) = 0
    BY <2>1, OffTheWires
  <2>3. Count(box[u], Tokens) = 0 /\ ~In(box[u], "final")
    BY <2>1, EmptyBox
  <2>4. got[u].sampled = 0 /\ got[u].delivered = 0 /\ got[u].last = "none"
    BY <2>1
  <2>5. Owed(u)'
    BY <1>1, <1>2, <2>2, <2>3, <2>4 DEF Owed
  <2>6. Ended(u)'
    BY <1>1, <2>3, <2>4 DEF Ended
  <2>7. QED
    BY <2>5, <2>6
<1>6. QED
  BY <1>4, <1>5

(* Every step keeps both.                                                   *)
LEMMA DeliveryStep ==
  ASSUME Types, Flow, Order, Delivery, Ends, [Next]_vars
  PROVE  Delivery' /\ Ends'
<1>1. SUFFICES \A u \in Uids : Owed(u)' /\ Ended(u)'
  <2>1. Types'
    BY TypesStep
  <2>2. ASSUME NEW u \in Uids
        PROVE  got'[u].delivered + Count(box'[u], Tokens) + Carried(SamplesOf(u))'
                 = got'[u].delivered + Count(box'[u], Tokens)
                     + Count(t2f', SamplesOf(u)) + Count(s2t', SamplesOf(u))
    <3>1. t2f' \in Seq(FromBackend) /\ s2t' \in Seq(FromBackend)
      BY <2>1 DEF Types
    <3>2. Count(t2f', SamplesOf(u)) \in Nat /\ Count(s2t', SamplesOf(u)) \in Nat
      BY <3>1, CountIsNumber
    <3>3. box'[u] \in Seq(Replies) /\ got'[u].delivered \in Nat
      BY <2>1 DEF Types, Streams
    <3>4. Count(box'[u], Tokens) \in Nat
      BY <3>3, CountIsNumber
    <3>5. Carried(SamplesOf(u))' = Count(t2f', SamplesOf(u)) + Count(s2t', SamplesOf(u))
      BY DEF Carried, SamplesOf
    <3>6. QED
      BY <3>2, <3>3, <3>4, <3>5
  <2>3. QED
    BY <2>2 DEF Delivery, Owed, Ends, Ended, Tokens, SamplesOf
<1>2. SUFFICES ASSUME NEW u \in Uids PROVE Owed(u)' /\ Ended(u)'
  OBVIOUS
<1>3. Owed(u) /\ Ended(u)
  BY EachOwed
<1>4. CASE listen
  BY <1>3, <1>4, DeliveryByReply
<1>5. CASE FailPending
  BY <1>3, <1>5, DeliveryByFailure
<1>6. CASE \E v \in Uids : new_user(v) \/ RequestUnsent(v)
  BY <1>3, <1>6, DeliveryByRequest
<1>7. CASE \E v \in Uids : ConsumerTake(v)
  BY <1>3, <1>7, DeliveryByTake
<1>8. CASE \E v \in Uids : SampleToken(v)
  BY <1>3, <1>8, DeliveryBySample
<1>9. CASE ~listen /\ ~FailPending
           /\ ~ \E v \in Uids : new_user(v) \/ RequestUnsent(v) \/ ConsumerTake(v) \/ SampleToken(v)
  <2>1. ResponsesKept
    BY <1>9, ResponsesLeft
  <2>2. Carried(SamplesOf(u))' = Carried(SamplesOf(u))
    BY <1>9, SamplesKept
  <2>3. QED
    BY <1>3, <2>1, <2>2, DeliveryByKept
<1>10. QED
  BY <1>4, <1>5, <1>6, <1>7, <1>8, <1>9

-----------------------------------------------------------------------------
(* The gate and the rebuilds.                                              *)

(* A rebuild the loop is about to send.                                     *)
Leaving == IF lp.at = "rebuild" \/ (lp.at = "send" /\ lp.msg.kind = "rebuild") THEN 1 ELSE 0

(* The rebuilds outstanding are in the loop, with the scheduler, before the *)
(* tokenizer or behind it.                                                 *)
LEMMA OutstandingIs ==
  ASSUME Types
  PROVE  /\ Outstanding = Leaving + Pending(sched) + Count(f2t, Resets) + Carried(Resets)
         /\ Leaving \in Nat /\ Pending(sched) \in Nat /\ Count(f2t, Resets) \in Nat
         /\ Carried(Resets) \in Nat /\ Outstanding \in Nat
<1>1. /\ Count(t2f, Resets) \in Nat /\ Count(s2t, Resets) \in Nat
      /\ Carried(Resets) \in Nat
  BY CarriedIsNumber
<1>2. Count(f2t, Resets) \in Nat
  BY CountIsNumber DEF Types
<1>3. Leaving \in Nat /\ Pending(sched) \in Nat
  BY DEF Leaving, Pending
<1>4. QED
  BY <1>1, <1>2, <1>3 DEF Outstanding, Leaving, Pending, Carried

(* The same after a step.                                                   *)
LEMMA OutstandingNext ==
  ASSUME Types'
  PROVE  /\ Outstanding' = Leaving' + Pending(sched') + Count(f2t', Resets) + Carried(Resets)'
         /\ Leaving' \in Nat /\ Pending(sched') \in Nat /\ Count(f2t', Resets) \in Nat
         /\ Carried(Resets)' \in Nat /\ Outstanding' \in Nat
<1>1. Count(t2f', Resets) \in Nat /\ Count(s2t', Resets) \in Nat
  BY CountIsNumber DEF Types
<1>2. Count(f2t', Resets) \in Nat
  BY CountIsNumber DEF Types
<1>3. Leaving' \in Nat /\ Pending(sched') \in Nat
  BY DEF Leaving, Pending
<1>4. Carried(Resets)' = Count(t2f', Resets) + Count(s2t', Resets)
  BY DEF Carried
<1>5. QED
  BY <1>1, <1>2, <1>3, <1>4 DEF Outstanding, Leaving, Pending

(* The loop does nothing about a rebuild.                                   *)
LEMMA LoopElsewhere ==
  ASSUME Types, [Next]_vars, ~send_one, ~ResolveRebuild, ~RebuildSendFails,
         ~ \E i \in Rebuilds : RebuildCall(i)
  PROVE  Leaving' = Leaving
<1>1. ASSUME Requests PROVE Leaving' = Leaving
  <2>1. CASE \E v \in Uids : new_user(v) \/ abort_user(v)
    BY <2>1 DEF new_user, abort_user, Leaving, LoopFree, Free, Msg
  <2>2. CASE \E v \in Uids : \/ ConsumerStart(v) \/ ConsumerTake(v) \/ Disconnect(v)
                              \/ RequestUnsent(v) \/ AbortUnsent(v)
    BY <2>2 DEF ConsumerStart, ConsumerTake, Disconnect, RequestUnsent, AbortUnsent, Leaving
  <2>3. QED
    BY <1>1, <2>1, <2>2 DEF Requests
<1>2. ASSUME Listener PROVE Leaving' = Leaving
  BY <1>2 DEF Listener, listen, ResolveGate, FailPending, At, Leaving, Free, Msg
<1>3. ASSUME Prepare PROVE Leaving' = Leaving
  BY <1>3 DEF Prepare, PrepareCall, PrepareClose, PrepareSeal, PrepareAbort, PrepareRefuse,
     Leaving, At, LoopFree, Free, Msg
<1>4. ASSUME Rebuild PROVE Leaving' = Leaving
  <2>1. CASE dispatch_rebuild
    BY <2>1 DEF dispatch_rebuild, At, Leaving, Types, LoopTypes
  <2>2. CASE \E i \in Rebuilds : RebuildTimeout(i)
    BY <2>2 DEF RebuildTimeout, Leaving
  <2>3. QED
    BY <1>4, <2>1, <2>2 DEF Rebuild
<1>5. ASSUME Supervise \/ Stop PROVE Leaving' = Leaving
  BY <1>5 DEF Supervise, ReadyTest, ReadySet, FindDead, StayQuiet, OnFailure, OnFailureLatch,
     Stop, Sigterm, ExitAfterDeath, Stopping, ShutdownFlag, ShutdownWorkers, Leaving
<1>6. ASSUME tokenize_worker \/ Schedule \/ (\E w \in Workers : WorkerDies(w)) \/ UNCHANGED vars
      PROVE  Leaving' = Leaving
  BY <1>6 DEF tokenize_worker, WorkerDies, Schedule, FlushAcks, ExecuteRebuild, AdmitPrompt,
     SampleToken, SchedVars, vars, Leaving
<1>7. QED
  BY <1>1, <1>2, <1>3, <1>4, <1>5, <1>6 DEF Next

(* Nothing is put on the wire to the tokenizer but by send_one, and nobody  *)
(* but the tokenizer takes from it or gives the scheduler a rebuild.        *)
LEMMA AskingElsewhere ==
  ASSUME Types, Flow, [Next]_vars, ~send_one, ~tokenize_worker,
         ~ \E i \in Rebuilds : ExecuteRebuild(i)
  PROVE  f2t' = f2t /\ Pending(sched') = Pending(sched)
<1>0. ASSUME Listener PROVE f2t' = f2t /\ sched' = sched
  BY <1>0 DEF Listener, listen, ResolveRebuild, ResolveGate, FailPending, wires, back
<1>1. ASSUME Requests PROVE f2t' = f2t /\ sched' = sched
  BY <1>1 DEF Requests, new_user, abort_user, ConsumerStart, ConsumerTake, Disconnect,
     RequestUnsent, AbortUnsent, wires, back
<1>2. ASSUME Prepare \/ Rebuild PROVE f2t' = f2t /\ sched' = sched
  BY <1>2 DEF Prepare, PrepareCall, PrepareClose, PrepareSeal, PrepareAbort, PrepareRefuse,
     Rebuild, dispatch_rebuild, RebuildSendFails, RebuildCall, RebuildTimeout, wires, back
<1>3. ASSUME Supervise \/ Stop PROVE f2t' = f2t /\ sched' = sched
  BY <1>3 DEF Supervise, ReadyTest, ReadySet, FindDead, StayQuiet, OnFailure, OnFailureLatch,
     Stop, Sigterm, ExitAfterDeath, Stopping, ShutdownFlag, ShutdownWorkers, wires, back
<1>4. ASSUME (\E w \in Workers : WorkerDies(w)) \/ UNCHANGED vars
      PROVE  f2t' = f2t /\ sched' = sched
  BY <1>4 DEF WorkerDies, vars, wires, back
<1>5. ASSUME FlushAcks PROVE f2t' = f2t /\ sched'.rebuild = sched.rebuild
  BY <1>5 DEF FlushAcks, SchedVars, Types, Engines
<1>6. ASSUME \E v \in Uids : AdmitPrompt(v) \/ SampleToken(v)
      PROVE  f2t' = f2t /\ sched'.rebuild = sched.rebuild
  BY <1>6 DEF AdmitPrompt, SampleToken, SchedVars, Types, Engines
<1>7. QED
  BY <1>0, <1>1, <1>2, <1>3, <1>4, <1>5, <1>6 DEF Next, Schedule, Pending

(* The backend's wires carry a rebuild's answer from the scheduler to the   *)
(* listener.                                                               *)
LEMMA AnswersElsewhere ==
  ASSUME Types, Flow, Order, [Next]_vars, ~ResolveRebuild, ~tokenize_worker,
         ~ \E i \in Rebuilds : ExecuteRebuild(i)
  PROVE  Carried(Resets)' = Carried(Resets)
<1>0. Carried(Resets) \in Nat
  BY CarriedIsNumber
<1>1. \A m \in FromBackend : m.kind \notin Control => m \notin Resets
  BY FromKinds
<1>2. CASE listen
  <2>1. /\ Carried(Resets) = Carried(Resets)' + (IF Head(t2f) \in Resets THEN 1 ELSE 0)
        /\ Carried(Resets)' \in Nat
    BY <1>2, CarriedHeard
  <2>2. Head(t2f) \in FromBackend /\ Head(t2f).kind \notin Control
    BY <1>2, Heard DEF listen, Control
  <2>3. QED
    BY <1>0, <1>1, <2>1, <2>2
<1>3. CASE \E v \in Uids : AdmitPrompt(v) \/ SampleToken(v)
  <2>1. PICK m \in FromBackend :
          /\ s2t' = Append(s2t, m) /\ SchedulerKeeps
          /\ \/ /\ m.kind \in Control /\ sched.rebuild # {} /\ sched'.rebuild = {}
             \/ /\ m.kind \in {"admitted", "token", "final"} /\ sched'.rebuild = sched.rebuild
    BY <1>3, Results
  <2>2. sched'.rebuild = sched.rebuild
    BY <1>3 DEF AdmitPrompt, SampleToken, Types, Engines
  <2>3. m.kind \notin Control
    BY <2>1, <2>2 DEF Control
  <2>4. Carried(Resets)' = Carried(Resets) + (IF m \in Resets THEN 1 ELSE 0)
    BY <2>1, CarriedSent DEF SchedulerKeeps
  <2>5. QED
    BY <1>0, <1>1, <2>1, <2>3, <2>4
<1>4. CASE FlushAcks
  <2>1. PICK acks \in Seq(FromBackend) :
           /\ s2t' = s2t \o acks
           /\ \A x : In(acks, x) => \E u \in sched.acks : x = Msg("error", u)
    BY <1>4, Flushed
  <2>2. \A m \in Resets : ~In(acks, m)
    BY <2>1 DEF Msg, Resets, Control
  <2>3. Count(acks, Resets) = 0
    BY <2>2, CountIsNumber
  <2>4. Count(s2t', Resets) = Count(s2t, Resets) + Count(acks, Resets)
    BY <2>1, CountJoined DEF Types
  <2>5. Count(s2t, Resets) \in Nat
    BY CarriedIsNumber
  <2>6. t2f' = t2f
    BY <1>4 DEF FlushAcks, SchedVars
  <2>7. QED
    BY <2>3, <2>4, <2>5, <2>6 DEF Carried
<1>5. CASE UNCHANGED <<s2t, t2f>>
  BY <1>5 DEF Carried
<1>6. UNCHANGED vars => UNCHANGED <<s2t, t2f>>
  BY DEF vars, wires
<1>7. QED
  BY <1>2, <1>3, <1>4, <1>5, <1>6, WiresLeft

(* A call adds a rebuild, an answer or a failed send takes one off, and no  *)
(* other step adds one.                                                    *)
LEMMA OutstandingStep ==
  ASSUME Types, Flow, Order, [Next]_vars
  PROVE  /\ Outstanding \in Nat /\ Outstanding' \in Nat
         /\ (\E i \in Rebuilds : RebuildCall(i)) => Outstanding' = Outstanding + 1
         /\ ResolveRebuild \/ RebuildSendFails => Outstanding' = Outstanding - 1
         /\ ~(\E i \in Rebuilds : RebuildCall(i)) => Outstanding' <= Outstanding
<1>0. Types'
  BY TypesStep
<1> DEFINE o == Outstanding    o2 == Outstanding'
           l == Leaving        l2 == Leaving'
           p == Pending(sched) p2 == Pending(sched')
           f == Count(f2t, Resets)   f2 == Count(f2t', Resets)
           c == Carried(Resets)      c2 == Carried(Resets)'
<1>1. /\ o = l + p + f + c /\ o2 = l2 + p2 + f2 + c2
      /\ l \in Nat /\ p \in Nat /\ f \in Nat /\ c \in Nat /\ o \in Nat
      /\ l2 \in Nat /\ p2 \in Nat /\ f2 \in Nat /\ c2 \in Nat /\ o2 \in Nat
  BY <1>0, OutstandingIs, OutstandingNext
<1>2. ASSUME ~send_one, ~ResolveRebuild, ~RebuildSendFails, ~ \E i \in Rebuilds : RebuildCall(i)
      PROVE  l2 = l
  BY <1>2, LoopElsewhere
<1>3. ASSUME ~send_one, ~tokenize_worker, ~ \E i \in Rebuilds : ExecuteRebuild(i)
      PROVE  f2 = f /\ p2 = p
  BY <1>3, AskingElsewhere
<1>4. ASSUME ~ResolveRebuild, ~tokenize_worker, ~ \E i \in Rebuilds : ExecuteRebuild(i)
      PROVE  c2 = c
  BY <1>4, AnswersElsewhere
<1>5. CASE \E i \in Rebuilds : RebuildCall(i)
  <2>1. l = 0 /\ l2 = 1
    BY <1>5 DEF RebuildCall, LoopFree, Free, Leaving
  <2>2. /\ ~send_one /\ ~ResolveRebuild /\ ~RebuildSendFails /\ ~tokenize_worker
        /\ ~ \E i \in Rebuilds : ExecuteRebuild(i)
    <3>1. lp # Free \/ lp' = Free => ~ \E i \in Rebuilds : RebuildCall(i)
      BY DEF RebuildCall, LoopFree, Free
    <3>2. send_one \/ ResolveRebuild \/ RebuildSendFails => lp # Free \/ lp' = Free \/ lp'.at = "resolve"
      BY DEF send_one, ResolveRebuild, RebuildSendFails
    <3>3. tokenize_worker \/ (\E i \in Rebuilds : ExecuteRebuild(i)) => lp' = lp
      BY DEF tokenize_worker, ExecuteRebuild, SchedVars
    <3>4. lp'.at = "rebuild" /\ lp = Free
      BY <1>5 DEF RebuildCall, LoopFree
    <3>5. QED
      BY <1>5, <3>1, <3>2, <3>3, <3>4 DEF Free
  <2> HIDE DEF o, o2, l, l2, p, p2, f, f2, c, c2
  <2>3. o2 = o + 1
    BY <1>1, <1>3, <1>4, <2>1, <2>2
  <2>4. QED
    BY <1>1, <1>5, <2>2, <2>3 DEF o, o2
<1>6. CASE ResolveRebuild
  <2>1. lp = Free /\ lp'.at = "resolve" /\ lp' # lp
    BY <1>6 DEF ResolveRebuild, LoopFree, Free
  <2>2. l = 0 /\ l2 = 0
    BY <2>1 DEF Leaving, Free
  <2>3. /\ ~send_one /\ ~tokenize_worker /\ ~RebuildSendFails
        /\ ~ \E i \in Rebuilds : ExecuteRebuild(i)
        /\ ~ \E i \in Rebuilds : RebuildCall(i)
    BY <2>1 DEF send_one, tokenize_worker, ExecuteRebuild, SchedVars, RebuildCall,
       RebuildSendFails, Free, At
  <2>4. c = c2 + 1
    <3>1. c = c2 + (IF Head(t2f) \in Resets THEN 1 ELSE 0)
      BY <1>6, CarriedHeard
    <3>2. Head(t2f) \in FromBackend /\ Head(t2f).kind \in Control
      BY <1>6, Heard DEF ResolveRebuild, Control
    <3>3. Head(t2f) \in Resets
      BY <3>2, FromKinds
    <3>4. QED
      BY <3>1, <3>3
  <2> HIDE DEF o, o2, l, l2, p, p2, f, f2, c, c2
  <2>5. o2 = o - 1
    BY <1>1, <1>3, <2>2, <2>3, <2>4
  <2>6. QED
    BY <1>1, <2>3, <2>5 DEF o, o2
<1>7. CASE RebuildSendFails
  <2>1. lp.at = "send" /\ lp.msg.kind = "rebuild" /\ lp' = Free /\ f2t' = f2t /\ gate' = "serving"
    BY <1>7 DEF RebuildSendFails, At, wires
  <2>2. l = 1 /\ l2 = 0
    BY <2>1 DEF Leaving, Free
  <2>3. ~ResolveRebuild /\ ~ \E i \in Rebuilds : RebuildCall(i)
    BY <2>1 DEF ResolveRebuild, RebuildCall, LoopFree, Free
  <2>4. ~tokenize_worker /\ ~ \E i \in Rebuilds : ExecuteRebuild(i)
    BY <2>1 DEF tokenize_worker, ExecuteRebuild, SchedVars, Free
  <2>5. c2 = c
    BY <1>4, <2>3, <2>4
  <2>6. f2 = f /\ p2 = p
    <3>1. sched' = sched
      BY <1>7 DEF RebuildSendFails, back
    <3>2. QED
      BY <2>1, <3>1
  <2> HIDE DEF o, o2, l, l2, p, p2, f, f2, c, c2
  <2>7. o2 = o - 1
    BY <1>1, <2>2, <2>5, <2>6
  <2>8. QED
    BY <1>1, <2>3, <2>7 DEF o, o2
<1>8. CASE send_one
  <2>1. lp.at = "send" /\ lp' = Free /\ t2f' = t2f /\ s2t' = s2t /\ sched' = sched
    BY <1>8 DEF send_one, At, back
  <2>2. c2 = c /\ p2 = p /\ l2 = 0
    BY <2>1 DEF Carried, Leaving, Free
  <2>3. f2 <= f + l
    <3>1. lp.msg \in ToTokenizer /\ f2t \in Seq(ToTokenizer)
      BY <2>1 DEF Types, LoopTypes
    <3>2. CASE fatal
      <4>1. f2t' = f2t
        BY <1>8, <3>2 DEF send_one
      <4>2. f2 = f
        BY <4>1
      <4> HIDE DEF f, f2, l
      <4>3. QED
        BY <1>1, <4>2
    <3>3. CASE ~fatal
      <4>1. f2t' = Append(f2t, lp.msg)
        BY <1>8, <3>3 DEF send_one
      <4>2. f2 = f + (IF lp.msg \in Resets THEN 1 ELSE 0)
        BY <3>1, <4>1, CountAppended
      <4>3. lp.msg \in Resets => l = 1
        BY <2>1, <3>1, ToKinds DEF Leaving
      <4> HIDE DEF f, f2, l
      <4>4. QED
        BY <1>1, <4>2, <4>3
    <3>4. QED
      BY <3>2, <3>3
  <2>4. ~RebuildSendFails \/ o2 = o - 1
    BY <1>7, <2>1 DEF ResolveRebuild, LoopFree, Free
  <2>5. ~ \E i \in Rebuilds : RebuildCall(i)
    BY <2>1 DEF RebuildCall, LoopFree, Free
  <2>6. ~ResolveRebuild
    BY <2>1 DEF ResolveRebuild, LoopFree, Free
  <2> HIDE DEF o, o2, l, l2, p, p2, f, f2, c, c2
  <2>7. o2 <= o
    BY <1>1, <2>2, <2>3
  <2>8. QED
    BY <1>1, <2>4, <2>5, <2>6, <2>7 DEF o, o2
<1>9. CASE tokenize_worker
  <2>1. UNCHANGED lp /\ ~send_one
    BY <1>9 DEF tokenize_worker, send_one, At, Free
  <2>2. l2 = l
    BY <2>1 DEF Leaving
  <2>3. /\ ~ResolveRebuild /\ ~RebuildSendFails
        /\ ~ \E i \in Rebuilds : RebuildCall(i)
    BY <2>1 DEF ResolveRebuild, RebuildSendFails, RebuildCall, LoopFree, At, Free
  <2>4. PICK client, left, result, rest, replies, errors, arrived, aborts, bad, long :
          Drained(client, left, result, rest, replies, errors, arrived, aborts, bad, long)
    BY <1>9, TokenizerDrain
  <2> DEFINE a == Count(client, Resets)   b == Count(result, Resets)
             d == Count(rest, Resets)     e == Count(replies, Resets)
             g == Count(errors, Resets)   h == Count(t2f, Resets)
  <2>5. /\ f = a + f2 /\ Count(s2t, Resets) = b + d
        /\ Count(t2f', Resets) = h + b + g /\ Count(s2t', Resets) = d + e
        /\ a \in Nat /\ b \in Nat /\ d \in Nat /\ e \in Nat /\ g \in Nat /\ h \in Nat
    BY <2>4, DrainCounts
  <2>6. e + p2 <= a + p
    BY <2>4 DEF Drained
  <2>7. g = 0
    <3>1. errors \in Seq(FromBackend) /\ \A m : In(errors, m) => \E u \in bad : m = Msg("error", u)
      BY <2>4 DEF Drained
    <3>2. \A m \in Resets : ~In(errors, m)
      BY <3>1 DEF Msg, Resets, Control
    <3>3. QED
      BY <3>1, <3>2, CountIsNumber
  <2>8. c = h + (b + d) /\ c2 = (h + b + g) + (d + e)
    BY <2>5 DEF Carried
  <2> HIDE DEF o, o2, l, l2, p, p2, f, f2, c, c2, a, b, d, e, g, h
  <2>9. o2 <= o
    BY <1>1, <2>2, <2>5, <2>6, <2>7, <2>8
  <2>10. QED
    BY <1>1, <2>3, <2>9 DEF o, o2
<1>10. CASE \E i \in Rebuilds : ExecuteRebuild(i)
  <2>1. UNCHANGED <<lp, f2t, t2f>>
    BY <1>10 DEF ExecuteRebuild, SchedVars
  <2>2. l2 = l /\ f2 = f
    BY <2>1 DEF Leaving
  <2>3. /\ ~ResolveRebuild /\ ~RebuildSendFails
        /\ ~ \E i \in Rebuilds : RebuildCall(i)
    BY <2>1 DEF ResolveRebuild, RebuildSendFails, RebuildCall, LoopFree, At, Free
  <2>4. PICK i \in Rebuilds : ExecuteRebuild(i)
    BY <1>10
  <2>5. PICK m \in FromBackend : s2t' = Append(s2t, m) /\ m \in Resets
    <3>1. PICK kind \in Control : s2t' = Append(s2t, Msg(kind, i))
      BY <2>4 DEF ExecuteRebuild, Control
    <3>2. Msg(kind, i) \in FromBackend /\ Msg(kind, i) \in Resets
      BY DEF FromBackend, Resets
    <3>3. QED
      BY <3>1, <3>2
  <2>6. c2 = c + 1
    BY <2>1, <2>5, CarriedSent
  <2>7. p = 1 /\ p2 = 0
    <3>1. sched.rebuild # {} /\ sched'.rebuild = {}
      BY <2>4 DEF ExecuteRebuild, Types, Engines
    <3>2. QED
      BY <3>1 DEF Pending
  <2> HIDE DEF o, o2, l, l2, p, p2, f, f2, c, c2
  <2>8. o2 <= o
    BY <1>1, <2>2, <2>6, <2>7
  <2>9. QED
    BY <1>1, <2>3, <2>8 DEF o, o2
<1>11. CASE /\ ~send_one /\ ~ResolveRebuild /\ ~RebuildSendFails /\ ~tokenize_worker
            /\ ~ \E i \in Rebuilds : RebuildCall(i)
            /\ ~ \E i \in Rebuilds : ExecuteRebuild(i)
  <2>1. l2 = l /\ f2 = f /\ p2 = p /\ c2 = c
    BY <1>2, <1>3, <1>4, <1>11
  <2> HIDE DEF o, o2, l, l2, p, p2, f, f2, c, c2
  <2>2. o2 <= o
    BY <1>1, <2>1
  <2>3. QED
    BY <1>1, <1>11, <2>2 DEF o, o2
<1>12. QED
  BY <1>5, <1>6, <1>7, <1>8, <1>9, <1>10, <1>11

(* A step that is not about the gate.                                       *)
GateKept ==
    /\ UNCHANGED <<gate, lp, sealed>> /\ prep'.at = prep.at
    /\ fatal => fatal'
    /\ down' = "no" <=> down = "no"
    /\ term => term'

(* The steps that do not write the gate leave it as it is.                 *)
LEMMA GateLeft ==
  ASSUME Types, [Next]_vars, ~Prepare, ~ReadySet, ~OnFailureLatch, ~ShutdownFlag,
         ~send_one, ~ResolveRebuild, ~ResolveGate, ~dispatch_rebuild, ~RebuildSendFails,
         ~ \E i \in Rebuilds : RebuildCall(i),
         ~ \E v \in Uids : new_user(v) \/ abort_user(v) \/ AbortUnsent(v)
  PROVE  GateKept
<1>1. ASSUME Requests PROVE GateKept
  BY <1>1 DEF Requests, ConsumerStart, ConsumerTake, Disconnect, RequestUnsent,
     stopvars, GateKept
<1>2. ASSUME Listener \/ Rebuild PROVE GateKept
  BY <1>2 DEF Listener, listen, FailPending, Rebuild, RebuildTimeout, stopvars, GateKept
<1>3. ASSUME Supervise PROVE GateKept
  BY <1>3 DEF Supervise, ReadyTest, FindDead, StayQuiet, OnFailure, stopvars, GateKept
<1>4. ASSUME Stop PROVE GateKept
  BY <1>4 DEF Stop, Sigterm, ExitAfterDeath, Stopping, ShutdownWorkers, stopvars, GateKept
<1>5. ASSUME tokenize_worker \/ (\E w \in Workers : WorkerDies(w)) \/ UNCHANGED vars
      PROVE  GateKept
  BY <1>5 DEF tokenize_worker, WorkerDies, vars, stopvars, GateKept
<1>6. ASSUME Schedule PROVE GateKept
  BY <1>6 DEF Schedule, FlushAcks, ExecuteRebuild, AdmitPrompt, SampleToken, SchedVars,
     stopvars, GateKept
<1>7. QED
  BY <1>1, <1>2, <1>3, <1>4, <1>5, <1>6 DEF Next

(* The gate opens only where no rebuild is outstanding and no books are     *)
(* closed.                                                                 *)
LEMMA GateStep ==
  ASSUME Types, Flow, Order, Supervision, GateInv, [Next]_vars, ~reopened'
  PROVE  GateInv'
<1> DEFINE o == Outstanding    o2 == Outstanding'
<1>1. /\ o \in Nat /\ o2 \in Nat
      /\ (\E i \in Rebuilds : RebuildCall(i)) => o2 = o + 1
      /\ ResolveRebuild \/ RebuildSendFails => o2 = o - 1
      /\ ~(\E i \in Rebuilds : RebuildCall(i)) => o2 <= o
  BY OutstandingStep
<1>2. /\ o <= 1
      /\ o = 1 /\ lp.at # "rebuild" =>
           /\ gate \notin {"serving", "loading"}
           /\ gate = "rebuilding" \/ fatal \/ down # "no"
      /\ lp.at = "resolve" => o = 0
      /\ lp.at = "rebuild" => gate # "loading"
      /\ lp.at = "stop" => prep.at = "drain" /\ (o = 0 \/ fatal)
      /\ Closed => /\ gate \notin {"serving", "loading"}
                   /\ o = 0 \/ fatal
                   /\ lp.at # "rebuild"
                   /\ ~(lp.at = "send" /\ lp.msg.kind = "rebuild")
                   /\ ~(lp.at = "resolve" /\ lp.msg.kind = "serving")
      /\ down # "no" => term
  BY DEF GateInv, RebuildInv
<1>3. SUFFICES
      /\ o2 <= 1
      /\ o2 = 1 /\ lp'.at # "rebuild" =>
           /\ gate' \notin {"serving", "loading"}
           /\ gate' = "rebuilding" \/ fatal' \/ down' # "no"
      /\ lp'.at = "resolve" => o2 = 0
      /\ lp'.at = "rebuild" => gate' # "loading"
      /\ lp'.at = "stop" => prep'.at = "drain" /\ (o2 = 0 \/ fatal')
      /\ Closed' => /\ gate' \notin {"serving", "loading"}
                    /\ o2 = 0 \/ fatal'
                    /\ lp'.at # "rebuild"
                    /\ ~(lp'.at = "send" /\ lp'.msg.kind = "rebuild")
                    /\ ~(lp'.at = "resolve" /\ lp'.msg.kind = "serving")
      /\ down' # "no" => term'
  BY DEF GateInv, RebuildInv
<1> HIDE DEF o, o2
<1>4. LoopTypes /\ prep \in Steps
  BY DEF Types
<1>5. CASE \E i \in Rebuilds : RebuildCall(i)
  <2>1. PICK i \in Rebuilds : RebuildCall(i)
    BY <1>5
  <2>2. /\ lp = Free /\ gate = "serving" /\ lp'.at = "rebuild"
        /\ UNCHANGED <<gate, fatal, sup, prep, sealed, down, term>>
    BY <2>1 DEF RebuildCall, LoopFree, stopvars
  <2>3. o = 0
    BY <1>1, <1>2, <2>2 DEF Free
  <2>4. ~Closed /\ ~Closed'
    BY <1>2, <2>2 DEF Closed, Free
  <2>5. QED
    BY <1>1, <1>2, <1>5, <2>2, <2>3, <2>4
<1>6. o2 <= o \/ \E i \in Rebuilds : RebuildCall(i)
  BY <1>1
<1>7. CASE o2 <= o /\ ResolveRebuild
  <2>1. /\ lp = Free /\ lp'.at = "resolve" /\ (lp'.msg.kind = "serving" => ~fatal)
        /\ o2 = o - 1 /\ UNCHANGED <<gate, fatal, sup, prep, sealed, down, term>>
    BY <1>1, <1>7 DEF ResolveRebuild, LoopFree, stopvars, Msg
  <2>2. o2 = 0 /\ o = 1
    BY <1>1, <1>2, <2>1
  <2>3. Closed' <=> Closed
    BY <2>1 DEF Closed, Free
  <2>4. QED
    BY <1>2, <2>1, <2>2, <2>3
<1>8. CASE o2 <= o /\ ResolveGate
  <2>1. /\ lp.at = "resolve" /\ lp' = Free /\ gate' = lp.msg.kind
        /\ UNCHANGED <<fatal, sup, prep, sealed, down, term>>
    BY <1>8 DEF ResolveGate, At, stopvars
  <2>2. o = 0 /\ o2 = 0
    BY <1>1, <1>2, <1>8, <2>1
  <2>3. Closed' <=> Closed
    BY <2>1 DEF Closed, Free
  <2>4. gate' \in {"serving", "failed"}
    BY <1>4, <2>1 DEF LoopTypes
  <2>5. QED
    BY <1>2, <2>1, <2>2, <2>3, <2>4 DEF Free
<1>9. CASE o2 <= o /\ dispatch_rebuild
  <2>1. /\ lp.at = "rebuild" /\ lp'.at = "send" /\ gate' = "rebuilding"
        /\ UNCHANGED <<fatal, sup, prep, sealed, down, term>>
    BY <1>9 DEF dispatch_rebuild, At, stopvars
  <2>2. ~Closed /\ ~Closed'
    BY <1>2, <2>1 DEF Closed
  <2>3. QED
    BY <1>1, <1>2, <1>9, <2>1, <2>2
<1>10. CASE o2 <= o /\ RebuildSendFails
  <2>1. /\ lp.at = "send" /\ lp.msg.kind = "rebuild" /\ lp' = Free /\ gate' = "serving"
        /\ o2 = o - 1
        /\ UNCHANGED <<fatal, sup, prep, sealed, down, term>>
    BY <1>1, <1>10 DEF RebuildSendFails, At, stopvars
  <2>2. ~Closed /\ ~Closed'
    BY <1>2, <2>1 DEF Closed, Free
  <2>3. o2 = 0
    BY <1>1, <1>2, <2>1
  <2>4. QED
    BY <1>2, <2>1, <2>2, <2>3 DEF Free
<1>11. CASE o2 <= o /\ send_one
  <2>1. /\ lp.at = "send" /\ lp' = Free
        /\ UNCHANGED <<gate, fatal, sup, prep, sealed, down, term>>
    BY <1>11 DEF send_one, At, stopvars
  <2>2. Closed' <=> Closed
    BY <2>1 DEF Closed, Free
  <2>3. QED
    BY <1>1, <1>2, <1>11, <2>1, <2>2 DEF Free
<1>12. CASE o2 <= o /\ \E v \in Uids : new_user(v) \/ abort_user(v)
  <2>1. /\ lp = Free /\ lp'.at = "send" /\ lp'.msg.kind # "rebuild" /\ prep'.at = prep.at
        /\ UNCHANGED <<gate, fatal, sup, sealed, down, term>>
    BY <1>4, <1>12 DEF new_user, abort_user, LoopFree, stopvars, Msg, Steps
  <2>2. Closed' <=> Closed
    BY <2>1 DEF Closed, Free
  <2>3. QED
    BY <1>1, <1>2, <1>12, <2>1, <2>2 DEF Free
<1>13. CASE o2 <= o /\ Prepare
  <2>1. CASE PrepareCall
    <3>1. /\ lp = Free /\ sealed = NotSealed /\ prep.at = "idle" /\ ~term
          /\ UNCHANGED <<gate, fatal, sup, sealed, down, term>>
          /\ \/ gate = "rebuilding" /\ prep'.at = "idle" /\ lp' = Free
             \/ gate # "rebuilding" /\ prep'.at = "drain" /\ lp'.at = "stop"
      BY <1>4, <2>1 DEF PrepareCall, LoopFree, Steps
    <3>2. ~Closed'
      BY <3>1 DEF Closed
    <3>3. lp'.at \in {"free", "stop"}
      BY <3>1 DEF Free
    <3>4. QED
      BY <1>1, <1>2, <1>13, <3>1, <3>2, <3>3 DEF Free
  <2>2. CASE PrepareClose
    <3>1. /\ lp.at = "stop" /\ lp' = Free /\ gate' = "stopping"
          /\ UNCHANGED <<fatal, sup, prep, sealed, down, term>>
      BY <2>2 DEF PrepareClose, At, stopvars
    <3>2. QED
      BY <1>1, <1>2, <1>13, <3>1 DEF Free
  <2>3. CASE PrepareSeal \/ PrepareAbort \/ PrepareRefuse
    <3>1. /\ lp = Free /\ prep.at # "idle"
          /\ UNCHANGED <<gate, fatal, sup, lp, down, term>>
      BY <2>3 DEF PrepareSeal, PrepareAbort, PrepareRefuse, LoopFree, Awaiting
    <3>2. Closed
      BY <3>1 DEF Closed, Free
    <3>3. QED
      BY <1>1, <1>2, <1>13, <3>1, <3>2 DEF Free
  <2>4. QED
    BY <1>13, <2>1, <2>2, <2>3 DEF Prepare
<1>14. CASE o2 <= o /\ ReadySet
  <2>1. /\ gate = "loading" /\ gate' = "serving"
        /\ UNCHANGED <<lp, fatal, prep, sealed, down, term>>
    BY <1>14 DEF ReadySet, stopvars
  <2>2. ~Closed /\ ~Closed' /\ lp.at # "rebuild"
    BY <1>2, <2>1 DEF Closed
  <2>3. o = 0 /\ o2 = 0
    BY <1>1, <1>2, <1>14, <2>1, <2>2
  <2>4. QED
    BY <1>2, <2>1, <2>2, <2>3
<1>15. CASE o2 <= o /\ (OnFailureLatch \/ ShutdownFlag)
  <2>1. /\ gate' \in {"stopping", "failed"} /\ (fatal' \/ down' # "no")
        /\ UNCHANGED <<lp, fatal, prep, sealed, term>>
        /\ down' # "no" => down # "no" \/ term
    BY <1>15 DEF OnFailureLatch, ShutdownFlag, LoopFree, stopvars, Supervision
  <2>2. Closed' <=> Closed
    BY <2>1 DEF Closed
  <2>3. QED
    BY <1>1, <1>2, <1>15, <2>1, <2>2
<1>16. CASE o2 <= o /\ GateKept
  <2>1. Closed' <=> Closed
    BY <1>16 DEF Closed, GateKept
  <2>2. term \/ down' = "no"
    BY <1>2, <1>16 DEF GateKept
  <2>3. QED
    BY <1>1, <1>2, <1>16, <2>1, <2>2 DEF GateKept
<1>17. CASE o2 <= o /\ \E v \in Uids : AbortUnsent(v)
  <2>1. /\ lp = Free /\ prep'.at \in {prep.at, "idle"}
        /\ UNCHANGED <<gate, fatal, lp, sealed, down, term>>
    BY <1>4, <1>17 DEF AbortUnsent, LoopFree, Steps
  <2>2. Closed' => Closed
    BY <2>1 DEF Closed
  <2>3. QED
    BY <1>1, <1>2, <1>17, <2>1, <2>2 DEF Free
<1>18. QED
  BY <1>5, <1>6, <1>7, <1>8, <1>9, <1>10, <1>11, <1>12, <1>13, <1>14, <1>15, <1>16,
     <1>17, GateLeft

-----------------------------------------------------------------------------
(* The sealed totals and the supervisor.                                   *)

(* Only prepare-stop seals, and only a new request enters the books.        *)
LEMMA SealLeft ==
  ASSUME Types, [Next]_vars
  PROVE  /\ ~PrepareSeal => sealed' = sealed
         /\ ~(\E v \in Uids : new_user(v) \/ RequestUnsent(v))
              => stats'.inflight \subseteq stats.inflight
<1>0. stats \in Figures
  BY DEF Types
<1>1. ASSUME ~PrepareSeal PROVE sealed' = sealed
  <2>0. ASSUME Listener PROVE sealed' = sealed
    BY <2>0 DEF Listener, listen, ResolveRebuild, ResolveGate, FailPending, send_one, stopvars
  <2>1. ASSUME Requests PROVE sealed' = sealed
    BY <2>1 DEF Requests, new_user, ConsumerStart, ConsumerTake, Disconnect, abort_user,
       RequestUnsent, AbortUnsent, stopvars
  <2>2. ASSUME Prepare \/ Rebuild PROVE sealed' = sealed
    BY <1>1, <2>2 DEF Prepare, PrepareCall, PrepareClose, PrepareAbort, PrepareRefuse,
       Rebuild, dispatch_rebuild, RebuildSendFails, RebuildCall, RebuildTimeout, stopvars
  <2>3. ASSUME Supervise \/ Stop PROVE sealed' = sealed
    BY <2>3 DEF Supervise, ReadyTest, ReadySet, FindDead, StayQuiet, OnFailure, OnFailureLatch,
       Stop, Sigterm, ExitAfterDeath, Stopping, ShutdownFlag, ShutdownWorkers, stopvars
  <2>4. ASSUME tokenize_worker \/ Schedule \/ (\E w \in Workers : WorkerDies(w)) \/ UNCHANGED vars
        PROVE  sealed' = sealed
    BY <2>4 DEF tokenize_worker, Schedule, FlushAcks, ExecuteRebuild, AdmitPrompt, SampleToken,
       SchedVars, WorkerDies, stopvars, vars
  <2>5. QED
    BY <2>0, <2>1, <2>2, <2>3, <2>4 DEF Next
<1>2. ASSUME ~ \E v \in Uids : new_user(v) \/ RequestUnsent(v)
      PROVE  stats'.inflight \subseteq stats.inflight
  <2>1. CASE listen
    BY <1>0, <2>1 DEF listen, observe, Figures
  <2>2. CASE FailPending \/ \E v \in Uids : ConsumerTake(v) \/ SampleToken(v)
    BY <2>2 DEF FailPending, ConsumerTake, SampleToken, SchedVars
  <2>3. CASE ~listen /\ ~FailPending /\ ~ \E v \in Uids : ConsumerTake(v) \/ SampleToken(v)
    BY <1>2, <2>3, ResponsesLeft DEF ResponsesKept
  <2>4. QED
    BY <2>1, <2>2, <2>3
<1>3. QED
  BY <1>1, <1>2

(* With no request in flight no message that counts is on a wire.           *)
LEMMA EmptyBooks ==
  ASSUME Types, Flow, Books, stats.inflight = {}
  PROVE  stats.prompt = work.prompt /\ stats.completion = work.completion
<1>1. \A u \in Uids : ~Wired(Counted(u))
  BY DEF Flow, CountedInFlight
<1>2. ~Wired(Admissions) /\ ~Wired(Samples)
  BY <1>1 DEF Wired, Counted, SamplesOf, Admissions, Samples
<1>3. /\ Count(t2f, Admissions) \in Nat /\ Count(s2t, Admissions) \in Nat
      /\ Carried(Admissions) = 0
  BY <1>2, CarriedIsNumber
<1>4. /\ Count(t2f, Samples) \in Nat /\ Count(s2t, Samples) \in Nat
      /\ Carried(Samples) = 0
  BY <1>2, CarriedIsNumber
<1>5. stats.prompt \in Nat /\ stats.completion \in Nat
  BY DEF Types, Figures
<1>6. QED
  BY <1>3, <1>4, <1>5 DEF Books, Carried

(* Every step leaves sealed books as they are.                              *)
LEMMA SealedStep ==
  ASSUME Types, Flow, Order, Books, GateInv, Sealed, [Next]_vars
  PROVE  Sealed'
<1>1. CASE PrepareSeal
  <2>1. /\ stats.inflight = {} /\ UNCHANGED <<stats, work>>
        /\ sealed' = [prompt |-> stats.prompt, completion |-> stats.completion]
    BY <1>1 DEF PrepareSeal, back
  <2>2. QED
    BY <2>1, EmptyBooks DEF Sealed
<1>2. CASE ~PrepareSeal /\ sealed = NotSealed
  <2>1. sealed' = NotSealed
    BY <1>2, SealLeft
  <2>2. QED
    BY <2>1 DEF Sealed, NotSealed
<1>3. CASE ~PrepareSeal /\ sealed # NotSealed
  <2>1. sealed' = sealed
    BY <1>3, SealLeft
  <2>2. gate # "serving"
    BY <1>3 DEF GateInv, Closed
  <2>3. stats.inflight = {}
    BY <1>3 DEF Sealed
  <2>4. stats'.inflight = {}
    <3>1. ASSUME NEW v \in Uids, new_user(v) \/ RequestUnsent(v) PROVE FALSE
      BY <2>2, <3>1, Zenon DEF new_user, RequestUnsent
    <3>2. QED
      BY <2>3, <3>1, SealLeft
  <2>5. work' = work
    <3>1. ~ \E u \in Uids : AdmitPrompt(u) \/ SampleToken(u)
      BY <2>3 DEF AdmitPrompt, SampleToken, Flow, ActiveInFlight, Active
    <3>2. CASE listen
      BY <3>2 DEF listen, back
    <3>3. CASE UNCHANGED vars
      BY <3>3 DEF vars, back
    <3>4. QED
      BY <3>1, <3>2, <3>3, BooksLeft
  <2>6. QED
    BY <1>3, <2>1, <2>4, <2>5 DEF Sealed
<1>4. QED
  BY <1>1, <1>2, <1>3

(* Every step keeps the supervisor's verdict true.                          *)
LEMMA SupervisionStep ==
  ASSUME Types, Supervision, [Next]_vars
  PROVE  Supervision'
<1>0. ASSUME Listener PROVE Supervision'
  <2>1. UNCHANGED <<fatal, sup, crashed, reopened, alive, down>>
    BY <1>0 DEF Listener, listen, ResolveRebuild, ResolveGate, FailPending, send_one, back
  <2>2. QED
    BY <2>1 DEF Supervision, Dead
<1>1. ASSUME Requests PROVE Supervision'
  <2>1. UNCHANGED <<fatal, sup, crashed, reopened, alive, down>>
    BY <1>1 DEF Requests, new_user, ConsumerStart, ConsumerTake, Disconnect, abort_user,
       RequestUnsent, AbortUnsent, back
  <2>2. QED
    BY <2>1 DEF Supervision, Dead
<1>2. ASSUME Prepare \/ Rebuild PROVE Supervision'
  <2>1. UNCHANGED <<fatal, sup, crashed, reopened, alive, down>>
    BY <1>2 DEF Prepare, PrepareCall, PrepareClose, PrepareSeal, PrepareAbort, PrepareRefuse,
       Rebuild, dispatch_rebuild, RebuildSendFails, RebuildCall, RebuildTimeout, back
  <2>2. QED
    BY <2>1 DEF Supervision, Dead
<1>3. ASSUME Supervise PROVE Supervision'
  BY <1>3 DEF Supervise, ReadyTest, ReadySet, FindDead, StayQuiet, OnFailure, OnFailureLatch,
     back, Supervision, Dead
<1>4. ASSUME Stop PROVE Supervision'
  BY <1>4 DEF Stop, Sigterm, ExitAfterDeath, Stopping, ShutdownFlag, ShutdownWorkers, LoopFree,
     back, Supervision, Dead, Workers
<1>5. ASSUME NEW w \in Workers, WorkerDies(w) PROVE Supervision'
  BY <1>5 DEF WorkerDies, Supervision, Dead
<1>6. ASSUME tokenize_worker \/ Schedule \/ UNCHANGED vars PROVE Supervision'
  <2>1. UNCHANGED <<fatal, sup, crashed, reopened, alive, down>>
    BY <1>6 DEF tokenize_worker, Schedule, FlushAcks, ExecuteRebuild, AdmitPrompt, SampleToken,
       SchedVars, vars, back
  <2>2. QED
    BY <2>1 DEF Supervision, Dead
<1>7. QED
  BY <1>0, <1>1, <1>2, <1>3, <1>4, <1>5, <1>6 DEF Next

(* _on_ready runs once.                                                     *)
LEMMA ReopenedOnce ==
  ASSUME Supervision, [Next]_vars
  PROVE  reopened => reopened'
<1>1. ASSUME Requests PROVE reopened' = reopened
  BY <1>1 DEF Requests, new_user, ConsumerStart, ConsumerTake, Disconnect, abort_user,
     RequestUnsent, AbortUnsent, back
<1>2. ASSUME Listener PROVE reopened' = reopened
  BY <1>2 DEF Listener, listen, ResolveRebuild, ResolveGate, FailPending, send_one, back
<1>3. ASSUME Prepare \/ Rebuild PROVE reopened' = reopened
  BY <1>3 DEF Prepare, PrepareCall, PrepareClose, PrepareSeal, PrepareAbort, PrepareRefuse,
     Rebuild, dispatch_rebuild, RebuildSendFails, RebuildCall, RebuildTimeout, back
<1>4. ASSUME Supervise PROVE reopened => reopened'
  <2>1. CASE ReadySet
    BY <2>1 DEF ReadySet, Supervision
  <2>2. CASE ReadyTest \/ FindDead \/ StayQuiet \/ OnFailure \/ OnFailureLatch
    BY <2>2 DEF ReadyTest, FindDead, StayQuiet, OnFailure, OnFailureLatch, back
  <2>3. QED
    BY <1>4, <2>1, <2>2 DEF Supervise
<1>5. ASSUME Stop PROVE reopened' = reopened
  BY <1>5 DEF Stop, Sigterm, ExitAfterDeath, Stopping, ShutdownFlag, ShutdownWorkers, back
<1>6. ASSUME tokenize_worker \/ Schedule \/ (\E w \in Workers : WorkerDies(w)) \/ UNCHANGED vars
      PROVE  reopened' = reopened
  BY <1>6 DEF tokenize_worker, Schedule, FlushAcks, ExecuteRebuild, AdmitPrompt, SampleToken,
     SchedVars, WorkerDies, vars, back
<1>7. QED
  BY <1>1, <1>2, <1>3, <1>4, <1>5, <1>6 DEF Next

-----------------------------------------------------------------------------
(* The invariant holds.                                                    *)

(* It holds at the start, ...                                              *)
LEMMA FrontInvInit == Init => FrontInv
<1> SUFFICES ASSUME Init PROVE FrontInv
  OBVIOUS
<1>0. Uids \subseteq Nat
  BY FrontendConstants
<1>1. Types
  <2>1. LoopTypes
    BY DEF Init, LoopTypes, Points, Free
  <2>2. \A T : <<>> \in Seq(T)
    OBVIOUS
  <2>3. stats \in Figures /\ prep \in Steps /\ sched \in Engines /\ work \in Totals
    BY DEF Init, Figures, Steps, Engines, Totals
  <2>4. got \in [Uids -> Streams]
    BY DEF Init, Streams
  <2>5. box \in [Uids -> Seq(Replies)]
    BY <2>2 DEF Init
  <2>6. /\ f2t \in Seq(ToTokenizer) /\ s2t \in Seq(FromBackend) /\ t2f \in Seq(FromBackend)
    BY <2>2 DEF Init
  <2>7. QED
    BY <2>1, <2>3, <2>4, <2>5, <2>6 DEF Init, Types
<1>2. /\ \A m : ~In(f2t, m) /\ ~In(s2t, m) /\ ~In(t2f, m)
      /\ \A M : Count(f2t, M) = 0 /\ Count(s2t, M) = 0 /\ Count(t2f, M) = 0
  BY EmptyWire DEF Init
<1>3. /\ \A M : ~Wired(M)
      /\ \A u \in Uids : ~Asking(u) /\ ~Active(u) /\ ~In(box[u], "final")
  <2>1. \A M : ~Wired(M)
    BY <1>2 DEF Wired
  <2>2. ASSUME NEW u \in Uids PROVE ~Asking(u) /\ ~Active(u)
    BY <1>2 DEF Init, Asking, Active, Free
  <2>3. ASSUME NEW u \in Uids PROVE ~In(box[u], "final")
    BY EmptyBox DEF Init
  <2>4. QED
    BY <2>1, <2>2, <2>3
<1>4. Flow
  <2>1. AskedOnce
    BY <1>2 DEF Init, AskedOnce, Free
  <2>2. AskedFirst /\ ActiveInFlight /\ CountedInFlight
    BY <1>3 DEF AskedFirst, ActiveInFlight, CountedInFlight
  <2>3. Unused
    BY <1>2, <1>3 DEF Init, Unused, Untouched, Free
  <2>4. QED
    BY <2>1, <2>2, <2>3 DEF Flow
<1>5. Order
  BY <1>2 DEF Init, Order, Orderly, Before
<1>6. Books
  BY <1>2 DEF Init, Books
<1>7. Delivery /\ Ends
  BY <1>3 DEF Init, Delivery, Ends
<1>8. ~Closed
  BY DEF Init, Closed
<1>9. GateInv
  <2>1. Outstanding = 0
    BY <1>2 DEF Init, Outstanding, Free
  <2>2. QED
    BY <1>8, <2>1 DEF Init, GateInv, RebuildInv, Free
<1>10. Sealed /\ Supervision
  BY DEF Init, Sealed, Supervision, Dead
<1>11. QED
  BY <1>1, <1>4, <1>5, <1>6, <1>7, <1>9, <1>10 DEF FrontInv

(* ... every step keeps it, ...                                             *)
LEMMA FrontInvStep ==
  ASSUME FrontInv, [Next]_vars
  PROVE  FrontInv'
<1>1. /\ Types /\ Flow /\ Order /\ Books /\ Delivery /\ Ends /\ Supervision
      /\ ~reopened => GateInv /\ Sealed
  BY DEF FrontInv
<1>2. Types' /\ Flow' /\ Order' /\ Books'
  BY <1>1, TypesStep, FlowStep, OrderStep, BooksStep
<1>3. Delivery' /\ Ends'
  BY <1>1, DeliveryStep
<1>4. Supervision' /\ (reopened => reopened')
  BY <1>1, SupervisionStep, ReopenedOnce
<1>5. ASSUME ~reopened' PROVE GateInv' /\ Sealed'
  BY <1>1, <1>4, <1>5, GateStep, SealedStep
<1>6. QED
  BY <1>2, <1>3, <1>4, <1>5 DEF FrontInv

(* ... and it implies what the runs check.                                  *)
LEMMA FrontInvAgrees ==
  ASSUME FrontInv
  PROVE  Consistent /\ SealedIsFinal
<1>1. /\ Types /\ Ends /\ Supervision
      /\ ~reopened => GateInv /\ Sealed
  BY DEF FrontInv
<1>2. TypeOK
  <2>1. /\ lp.at \in {"free", "send", "resolve", "stop", "rebuild"}
        /\ stats.inflight \subseteq Uids /\ stats.prompt \in Nat /\ stats.completion \in Nat
        /\ prep.at \in {"idle", "drain", "abort"} /\ prep.todo \subseteq Uids
    BY <1>1 DEF Types, LoopTypes, Points, Figures, Steps
  <2>2. \A T : \A q \in Seq(T) : Range(q) \subseteq T
    BY DEF Range
  <2>3. \A u \in Uids : Range(box[u]) \subseteq Replies
    BY <1>1, <2>2 DEF Types
  <2>4. \A m \in Range(f2t) : m.kind \in {"request", "abort", "rebuild"}
    <3>1. Range(f2t) \subseteq ToTokenizer
      BY <1>1, <2>2 DEF Types
    <3>2. QED
      BY <3>1, ToKinds
  <2>5. \A m \in Range(s2t) \cup Range(t2f) : m.kind \in Replies \cup Control
    <3>1. Range(s2t) \subseteq FromBackend /\ Range(t2f) \subseteq FromBackend
      BY <1>1, <2>2 DEF Types
    <3>2. QED
      BY <3>1, FromKinds
  <2>6. {fatal, failing, genfailed, term, crashed, reopened} \subseteq BOOLEAN
    BY <1>1 DEF Types
  <2>7. QED
    BY <1>1, <2>1, <2>3, <2>4, <2>5, <2>6 DEF Types, TypeOK
<1>3. GateStaysSealed
  BY <1>1 DEF GateInv, Closed, GateStaysSealed, NeverReopened
<1>4. StopIsNotCrash /\ StreamComplete /\ SealedIsFinal
  BY <1>1 DEF Supervision, StopIsNotCrash, Ends, StreamComplete, Sealed, SealedIsFinal
<1>5. QED
  BY <1>2, <1>3, <1>4 DEF Consistent

(* The inductive invariant of the API process holds in every reachable      *)
(* state, for any number of requests and rebuilds, any size of a drain and  *)
(* any budget, with the loop running inside _on_ready too.                  *)
THEOREM FrontInvariant == Spec => []FrontInv
<1>1. Init => FrontInv
  BY FrontInvInit
<1>2. FrontInv /\ [Next]_vars => FrontInv'
  BY FrontInvStep
<1>3. QED
  BY <1>1, <1>2, PTL DEF Spec

(* What the threads of the API process and the workers hold agrees: types,  *)
(* a gate that stays closed behind sealed books unless _on_ready opened one *)
(* that was closed since it looked, a fatal error only for a worker that    *)
(* died by itself, and a response that ends with its last token after every *)
(* token sampled for it.                                                   *)
THEOREM FrontendConsistent == Spec => []Consistent
<1>1. FrontInv => Consistent
  BY FrontInvAgrees
<1>2. QED
  BY <1>1, FrontInvariant, PTL

(* The totals prepare-stop seals are final: no prompt is admitted and no    *)
(* token sampled that they do not count, then or later, unless _on_ready    *)
(* opened a gate that was closed since it looked.                          *)
THEOREM SealedTotalsFinal == Spec => []SealedIsFinal
<1>1. FrontInv => SealedIsFinal
  BY FrontInvAgrees
<1>2. QED
  BY <1>1, FrontInvariant, PTL
=============================================================================
