------------------------ MODULE OverlapSchedulerProofs ------------------------
(***************************************************************************)
(* Proofs about OverlapScheduler, for any requests, pool of pages, size of *)
(* a page, budget and policy: replies, then locks, then the pages and rows,*)
(* then what the pages hold.                                               *)
(***************************************************************************)
EXTENDS OverlapScheduler, FiniteSetTheorems, FunctionTheorems, SequenceTheorems,
        WellFoundedInduction, TLAPS

In(q, u) == \E i \in 1 .. Len(q) : q[i] = u

(* Nobody is twice in the sequence.                                        *)
Once(q) == \A i, j \in 1 .. Len(q) : q[i] = q[j] => i = j

-----------------------------------------------------------------------------
(* Sequences.  What a recursive function computes is proved by looking at  *)
(* the first index for which it would be wrong.                            *)

(* A set of naturals with a member has a least one.                        *)
LEMMA LeastOne ==
  ASSUME NEW S \in SUBSET Nat, S # {}
  PROVE  \E n \in S : \A m \in S : n <= m
<1>1. PICK n \in S : \A m \in S : ~(<<m, n>> \in OpToRel(<, Nat))
  BY NatLessThanWellFounded, WFMin
<1>2. \A m \in S : ~(m < n)
  BY <1>1 DEF OpToRel
<1>3. QED
  BY <1>2

IsKept(f, q, S, n) ==
    f = [i \in 0 .. n |-> IF i = 0 THEN <<>>
                          ELSE IF q[i] \in S THEN Append(f[i - 1], q[i]) ELSE f[i - 1]]

(* The recursion of Keep has a solution.                                   *)
LEMMA KeptExists ==
  ASSUME NEW q, Len(q) \in Nat, NEW S
  PROVE  \E f : IsKept(f, q, S, Len(q))
<1> DEFINE Bad == {n \in 0 .. Len(q) : ~ \E f : IsKept(f, q, S, n)}
<1>1. SUFFICES ASSUME Bad # {} PROVE FALSE
  OBVIOUS
<1>2. PICK n \in Bad : \A m \in Bad : n <= m
  <2>1. Bad \in SUBSET Nat
    OBVIOUS
  <2> HIDE DEF Bad
  <2>2. QED
    BY <1>1, <2>1, LeastOne
<1>3. CASE n = 0
  <2>1. IsKept([i \in 0 .. 0 |-> <<>>], q, S, 0)
    BY DEF IsKept
  <2>2. QED
    BY <1>2, <1>3, <2>1
<1>4. CASE n # 0
  <2>1. n - 1 \in 0 .. Len(q) /\ n - 1 \notin Bad
    BY <1>2, <1>4
  <2>2. PICK f : IsKept(f, q, S, n - 1)
    BY <2>1
  <2>3. f = [i \in 0 .. n - 1 |-> IF i = 0 THEN <<>>
                ELSE IF q[i] \in S THEN Append(f[i - 1], q[i]) ELSE f[i - 1]]
    BY <2>2 DEF IsKept
  <2> DEFINE g == [i \in 0 .. n |-> IF i < n THEN f[i]
                     ELSE IF q[n] \in S THEN Append(f[n - 1], q[n]) ELSE f[n - 1]]
  <2>4. ASSUME NEW i \in 0 .. n
        PROVE  g[i] = IF i = 0 THEN <<>>
                      ELSE IF q[i] \in S THEN Append(g[i - 1], q[i]) ELSE g[i - 1]
    <3>1. CASE i = n
      BY <1>4, <3>1
    <3>2. CASE i # n
      <4>1. i \in 0 .. n - 1 /\ (i # 0 => i - 1 < n /\ i - 1 \in 0 .. n)
        BY <3>2
      <4>2. f[i] = IF i = 0 THEN <<>>
                   ELSE IF q[i] \in S THEN Append(f[i - 1], q[i]) ELSE f[i - 1]
        BY <2>3, <4>1
      <4>3. QED
        BY <4>1, <4>2
    <3>3. QED
      BY <3>1, <3>2
  <2>5. IsKept(g, q, S, n)
    BY <2>4 DEF IsKept
  <2>6. QED
    BY <1>2, <2>5
<1>5. QED
  BY <1>3, <1>4

(* Keep leaves a sequence of the elements of q that are in S, each as often *)
(* as before.                                                              *)
LEMMA KeepKeeps ==
  ASSUME NEW T, NEW q \in Seq(T), NEW S
  PROVE  /\ Keep(q, S) \in Seq(T)
         /\ \A u : In(Keep(q, S), u) <=> u \in S /\ In(q, u)
         /\ Once(q) => Once(Keep(q, S))
<1> DEFINE k == CHOOSE f : IsKept(f, q, S, Len(q))
<1>1. Len(q) \in Nat
  OBVIOUS
<1>2. IsKept(k, q, S, Len(q))
  BY <1>1, KeptExists, Zenon
<1>3. Keep(q, S) = k[Len(q)]
  BY Zenon DEF Keep, IsKept
<1> HIDE DEF k
<1>4. \A i \in 0 .. Len(q) :
         k[i] = IF i = 0 THEN <<>>
                ELSE IF q[i] \in S THEN Append(k[i - 1], q[i]) ELSE k[i - 1]
  BY <1>2 DEF IsKept
<1> DEFINE Good(n) ==
      /\ k[n] \in Seq(T)
      /\ \A j \in 1 .. Len(k[n]) : k[n][j] \in S /\ \E i \in 1 .. n : q[i] = k[n][j]
      /\ \A i \in 1 .. n : q[i] \in S => \E j \in 1 .. Len(k[n]) : k[n][j] = q[i]
      /\ Once(q) => Once(k[n])
<1>5. Good(0)
  <2>1. k[0] = <<>>
    BY <1>1, <1>4
  <2>2. Len(k[0]) = 0 /\ k[0] \in Seq(T)
    BY <2>1
  <2>3. QED
    BY <2>2 DEF Once
<1>6. ASSUME NEW n \in 1 .. Len(q), Good(n - 1)
      PROVE  Good(n)
  <2>1. k[n] = IF q[n] \in S THEN Append(k[n - 1], q[n]) ELSE k[n - 1]
    BY <1>4
  <2>2. k[n - 1] \in Seq(T) /\ q[n] \in T /\ n \in Nat
    BY <1>6
  <2>3. CASE q[n] \notin S
    BY <2>1, <2>3, <1>6
  <2>4. CASE q[n] \in S
    <3>1. /\ k[n] \in Seq(T) /\ Len(k[n]) = Len(k[n - 1]) + 1
          /\ k[n][Len(k[n])] = q[n]
          /\ \A j \in 1 .. Len(k[n - 1]) : k[n][j] = k[n - 1][j]
      BY <2>1, <2>2, <2>4
    <3>2. ASSUME NEW j \in 1 .. Len(k[n])
          PROVE  k[n][j] \in S /\ \E i \in 1 .. n : q[i] = k[n][j]
      <4>1. CASE j = Len(k[n])
        <5>1. n \in 1 .. n
          BY <2>2
        <5>2. QED
          BY <5>1, <2>4, <3>1, <4>1
      <4>2. CASE j # Len(k[n])
        <5>1. j \in 1 .. Len(k[n - 1]) /\ k[n][j] = k[n - 1][j]
          BY <2>2, <3>1, <4>2
        <5>2. k[n - 1][j] \in S /\ \E i \in 1 .. n - 1 : q[i] = k[n - 1][j]
          BY <5>1, <1>6
        <5>3. QED
          BY <5>1, <5>2
      <4>3. QED
        BY <4>1, <4>2
    <3>3. ASSUME NEW i \in 1 .. n, q[i] \in S
          PROVE  \E j \in 1 .. Len(k[n]) : k[n][j] = q[i]
      <4>1. CASE i = n
        BY <3>1, <2>2, <4>1
      <4>2. CASE i # n
        <5>1. PICK j \in 1 .. Len(k[n - 1]) : k[n - 1][j] = q[i]
          BY <4>2, <3>3, <1>6
        <5>2. j \in 1 .. Len(k[n]) /\ k[n][j] = q[i]
          BY <5>1, <3>1, <2>2
        <5>3. QED
          BY <5>2
      <4>3. QED
        BY <4>1, <4>2
    <3>4. ASSUME Once(q) PROVE Once(k[n])
      <4>1. \A i \in 1 .. n - 1 : q[i] # q[n]
        BY <3>4 DEF Once
      <4>2. \A j \in 1 .. Len(k[n - 1]) : k[n - 1][j] # q[n]
        BY <4>1, <1>6
      <4>3. Once(k[n - 1])
        BY <3>4, <1>6
      <4>4. \A j \in 1 .. Len(k[n]) : j = Len(k[n]) \/ j \in 1 .. Len(k[n - 1])
        BY <2>2, <3>1
      <4>5. QED
        BY <3>1, <4>2, <4>3, <4>4 DEF Once
    <3>5. QED
      BY <3>1, <3>2, <3>3, <3>4
  <2>5. QED
    BY <2>3, <2>4
<1> DEFINE Bad == {n \in 0 .. Len(q) : ~ Good(n)}
<1> HIDE DEF Good
<1>7. Bad = {}
  <2>1. SUFFICES ASSUME Bad # {} PROVE FALSE
    OBVIOUS
  <2>2. PICK n \in Bad : \A m \in Bad : n <= m
    <3>1. Bad \in SUBSET Nat
      OBVIOUS
    <3> HIDE DEF Bad
    <3>2. QED
      BY <2>1, <3>1, LeastOne
  <2>3. n # 0
    BY <2>2, <1>5
  <2>4. n \in 1 .. Len(q) /\ n - 1 \in 0 .. Len(q) /\ n - 1 \notin Bad
    BY <2>2, <2>3
  <2>5. QED
    BY <2>2, <2>4, <1>6
<1>8. Good(Len(q))
  BY <1>7, <1>1
<1>9. QED
  BY <1>8, <1>3 DEF Good, In

(* One more element, at the end.                                           *)
LEMMA InAppended ==
  ASSUME NEW T, NEW q \in Seq(T), NEW x \in T
  PROVE  /\ Append(q, x) \in Seq(T)
         /\ \A u : In(Append(q, x), u) <=> In(q, u) \/ u = x
         /\ Once(q) /\ ~ In(q, x) => Once(Append(q, x))
<1>1. /\ Append(q, x) \in Seq(T) /\ Len(Append(q, x)) = Len(q) + 1
      /\ Append(q, x)[Len(q) + 1] = x /\ Len(q) \in Nat
      /\ \A i \in 1 .. Len(q) : Append(q, x)[i] = q[i]
  OBVIOUS
<1>2. \A i \in 1 .. Len(q) + 1 : i = Len(q) + 1 \/ i \in 1 .. Len(q)
  BY <1>1
<1>3. Len(q) + 1 \in 1 .. Len(q) + 1 /\ \A i \in 1 .. Len(q) : i \in 1 .. Len(q) + 1
  BY <1>1
<1>4. \A u : In(Append(q, x), u) <=> In(q, u) \/ u = x
  BY <1>1, <1>2, <1>3 DEF In
<1>5. ASSUME Once(q), ~ In(q, x), NEW i \in 1 .. Len(q) + 1, NEW j \in 1 .. Len(q) + 1,
             Append(q, x)[i] = Append(q, x)[j]
      PROVE  i = j
  BY <1>1, <1>2, <1>5 DEF In, Once
<1>6. Once(q) /\ ~ In(q, x) => Once(Append(q, x))
  BY <1>1, <1>5 DEF Once
<1>7. QED
  BY <1>1, <1>4, <1>6

(* One element less, at the front.                                         *)
LEMMA InTail ==
  ASSUME NEW T, NEW q \in Seq(T), q # <<>>
  PROVE  /\ Tail(q) \in Seq(T) /\ Head(q) \in T /\ In(q, Head(q))
         /\ \A u : In(q, u) <=> In(Tail(q), u) \/ u = Head(q)
         /\ Once(q) => Once(Tail(q)) /\ ~ In(Tail(q), Head(q))
<1>1. /\ Tail(q) \in Seq(T) /\ Head(q) \in T /\ Head(q) = q[1]
      /\ Len(q) \in Nat \ {0} /\ Len(Tail(q)) = Len(q) - 1
      /\ \A i \in 1 .. Len(Tail(q)) : Tail(q)[i] = q[i + 1]
  OBVIOUS
<1>2. \A i \in 1 .. Len(q) : i = 1 \/ (i - 1 \in 1 .. Len(Tail(q)) /\ Tail(q)[i - 1] = q[i])
  BY <1>1
<1>3. 1 \in 1 .. Len(q) /\ \A i \in 1 .. Len(Tail(q)) : i + 1 \in 1 .. Len(q) /\ i + 1 # 1
  BY <1>1
<1>4. \A u : In(q, u) <=> In(Tail(q), u) \/ u = Head(q)
  BY <1>1, <1>2, <1>3 DEF In
<1>5. Once(q) => Once(Tail(q)) /\ ~ In(Tail(q), Head(q))
  BY <1>1, <1>3 DEF In, Once
<1>6. QED
  BY <1>1, <1>4, <1>5

(* Two sequences in a row.                                                 *)
LEMMA InJoined ==
  ASSUME NEW T, NEW p \in Seq(T), NEW q \in Seq(T)
  PROVE  /\ p \o q \in Seq(T)
         /\ \A u : In(p \o q, u) <=> In(p, u) \/ In(q, u)
         /\ Once(p) /\ Once(q) /\ (\A u : ~ (In(p, u) /\ In(q, u))) => Once(p \o q)
<1>1. /\ p \o q \in Seq(T) /\ Len(p) \in Nat /\ Len(q) \in Nat
      /\ Len(p \o q) = Len(p) + Len(q)
      /\ \A i \in 1 .. Len(p) : (p \o q)[i] = p[i]
      /\ \A i \in 1 .. Len(q) : (p \o q)[Len(p) + i] = q[i]
  OBVIOUS
<1>2. ASSUME NEW i \in 1 .. Len(p) + Len(q)
      PROVE  \/ i \in 1 .. Len(p) /\ (p \o q)[i] = p[i]
             \/ i - Len(p) \in 1 .. Len(q) /\ (p \o q)[i] = q[i - Len(p)]
  <2>1. CASE i <= Len(p)
    BY <1>1, <2>1
  <2>2. CASE i > Len(p)
    <3>1. i - Len(p) \in 1 .. Len(q) /\ Len(p) + (i - Len(p)) = i
      BY <1>1, <2>2
    <3>2. QED
      BY <1>1, <3>1
  <2>3. QED
    BY <1>1, <2>1, <2>2
<1>3. /\ \A i \in 1 .. Len(p) : i \in 1 .. Len(p) + Len(q)
      /\ \A i \in 1 .. Len(q) : Len(p) + i \in 1 .. Len(p) + Len(q)
  BY <1>1
<1>4. \A u : In(p \o q, u) <=> In(p, u) \/ In(q, u)
  BY <1>1, <1>2, <1>3 DEF In
<1>5. ASSUME Once(p), Once(q), \A u : ~ (In(p, u) /\ In(q, u)),
             NEW i \in 1 .. Len(p) + Len(q), NEW j \in 1 .. Len(p) + Len(q),
             (p \o q)[i] = (p \o q)[j]
      PROVE  i = j
  <2>1. CASE i \in 1 .. Len(p) /\ (p \o q)[i] = p[i]
    <3>1. In(p, p[i])
      BY <2>1 DEF In
    <3>2. ~ (j - Len(p) \in 1 .. Len(q) /\ (p \o q)[j] = q[j - Len(p)])
      BY <1>5, <2>1, <3>1 DEF In
    <3>3. j \in 1 .. Len(p) /\ (p \o q)[j] = p[j]
      BY <1>2, <3>2
    <3>4. QED
      BY <1>5, <2>1, <3>3 DEF Once
  <2>2. CASE i - Len(p) \in 1 .. Len(q) /\ (p \o q)[i] = q[i - Len(p)]
    <3>1. In(q, q[i - Len(p)])
      BY <2>2 DEF In
    <3>2. ~ (j \in 1 .. Len(p) /\ (p \o q)[j] = p[j])
      BY <1>5, <2>2, <3>1 DEF In
    <3>3. j - Len(p) \in 1 .. Len(q) /\ (p \o q)[j] = q[j - Len(p)]
      BY <1>2, <3>2
    <3>4. i - Len(p) = j - Len(p)
      BY <1>5, <2>2, <3>3 DEF Once
    <3>5. QED
      BY <1>1, <3>4
  <2>3. QED
    BY <1>2, <2>1, <2>2
<1>6. Once(p) /\ Once(q) /\ (\A u : ~ (In(p, u) /\ In(q, u))) => Once(p \o q)
  BY <1>1, <1>5 DEF Once
<1>7. QED
  BY <1>1, <1>4, <1>6

(* A sequence cut in two.                                                  *)
LEMMA InCut ==
  ASSUME NEW T, NEW q \in Seq(T), NEW n \in 0 .. Len(q), Once(q)
  PROVE  /\ SubSeq(q, 1, n) \in Seq(T) /\ SubSeq(q, n + 1, Len(q)) \in Seq(T)
         /\ Once(SubSeq(q, 1, n)) /\ Once(SubSeq(q, n + 1, Len(q)))
         /\ \A u : In(SubSeq(q, 1, n), u) <=> \E i \in 1 .. n : q[i] = u
         /\ \A u : In(SubSeq(q, n + 1, Len(q)), u) => In(q, u)
         /\ \A u : ~ (In(SubSeq(q, 1, n), u) /\ In(SubSeq(q, n + 1, Len(q)), u))
<1> DEFINE a == SubSeq(q, 1, n)
           b == SubSeq(q, n + 1, Len(q))
<1>1. /\ n \in Nat /\ Len(q) \in Nat
      /\ a \in Seq(T) /\ Len(a) = n /\ \A i \in 1 .. n : a[i] = q[i]
  OBVIOUS
<1>2. /\ b \in Seq(T) /\ Len(b) = Len(q) - n
      /\ \A i \in 1 .. Len(b) : b[i] = q[n + i]
  OBVIOUS
<1> HIDE DEF a, b
<1>3. /\ \A i \in 1 .. n : i \in 1 .. Len(q)
      /\ \A i \in 1 .. Len(b) : n + i \in 1 .. Len(q) /\ n + i \notin 1 .. n
  BY <1>1, <1>2
<1>4. Once(a)
  BY <1>1, <1>3 DEF Once
<1>5. \A i, j \in 1 .. Len(b) : b[i] = b[j] => n + i = n + j
  BY <1>2, <1>3 DEF Once
<1>6. Once(b)
  BY <1>1, <1>2, <1>5 DEF Once
<1>7. \A u : In(a, u) <=> \E i \in 1 .. n : q[i] = u
  BY <1>1 DEF In
<1>8. \A u : In(b, u) => \E i \in 1 .. Len(q) : i \notin 1 .. n /\ q[i] = u
  BY <1>2, <1>3 DEF In
<1>9. \A u : ~ (In(a, u) /\ In(b, u))
  BY <1>3, <1>7, <1>8 DEF Once
<1>10. QED
  BY <1>1, <1>2, <1>4, <1>6, <1>7, <1>8, <1>9 DEF In, a, b

(* A part of a finite set that is not the whole of it has fewer elements.  *)
LEMMA PartIsSmaller ==
  ASSUME NEW S, IsFiniteSet(S), NEW T \in SUBSET S, T # S
  PROVE  /\ IsFiniteSet(T) /\ Cardinality(T) \in Nat /\ Cardinality(S) \in Nat
         /\ Cardinality(T) < Cardinality(S)
<1>1. IsFiniteSet(T)
  BY FS_Subset
<1>2. Cardinality(T) \in Nat /\ Cardinality(S) \in Nat
  BY <1>1, FS_CardinalityType
<1>3. Cardinality(T) <= Cardinality(S) /\ Cardinality(T) # Cardinality(S)
  BY FS_Subset
<1>4. QED
  BY <1>1, <1>2, <1>3

(* The k-th request of a batch of decoders has k - 1 before it.            *)
LEMMA InOrderOnce ==
  ASSUME NEW S \in SUBSET Nat, IsFiniteSet(S)
  PROVE  /\ \A T : S \subseteq T => InOrder(S) \in Seq(T)
         /\ \A u : In(InOrder(S), u) <=> u \in S
         /\ Once(InOrder(S))
<1> DEFINE n == Cardinality(S)
           Below(u) == {v \in S : v < u}
           rank == [u \in S |-> Cardinality(Below(u)) + 1]
<1>1. n \in Nat
  BY FS_CardinalityType
<1>2. \A u \in S : Below(u) \subseteq S /\ u \notin Below(u)
  OBVIOUS
<1>3. ASSUME NEW u \in S, NEW v \in S, u < v
      PROVE  Below(u) \in SUBSET Below(v) /\ u \in Below(v)
  <2>1. \A w \in S : w < u => w < v
    BY <1>3
  <2>2. QED
    BY <2>1, <1>3
<1>4. rank = [u \in S |-> Cardinality(Below(u)) + 1]
  OBVIOUS
<1>5. InOrder(S) = [k \in 1 .. n |-> CHOOSE u \in S : Cardinality(Below(u)) = k - 1]
  BY DEF InOrder
<1> HIDE DEF Below, rank, n
<1>6. ASSUME NEW u \in S
      PROVE  IsFiniteSet(Below(u)) /\ Cardinality(Below(u)) \in 0 .. n - 1
  <2>1. Below(u) \in SUBSET S /\ Below(u) # S
    BY <1>2
  <2>2. QED
    BY <2>1, <1>1, PartIsSmaller DEF n
<1>7. ASSUME NEW u \in S, NEW v \in S, u < v
      PROVE  Cardinality(Below(u)) # Cardinality(Below(v))
  <2>1. Below(u) \in SUBSET Below(v) /\ Below(u) # Below(v) /\ IsFiniteSet(Below(v))
    BY <1>2, <1>3, <1>6, <1>7
  <2>2. QED
    BY <2>1, PartIsSmaller
<1>8. rank \in [S -> 1 .. n]
  BY <1>1, <1>4, <1>6
<1>9. ASSUME NEW u \in S, NEW v \in S, rank[u] = rank[v]
      PROVE  u = v
  <2>1. Cardinality(Below(u)) = Cardinality(Below(v))
    BY <1>4, <1>6, <1>9
  <2>2. u \in Nat /\ v \in Nat
    OBVIOUS
  <2>3. QED
    BY <2>1, <2>2, <1>7
<1>10. rank \in Injection(S, 1 .. n)
  BY <1>8, <1>9, Fun_IsInj
<1>11. IsFiniteSet(1 .. n) /\ Cardinality(1 .. n) = n
  <2>1. 1 \in Int /\ n \in Int /\ n >= 0
    BY <1>1
  <2>2. QED
    BY <2>1, FS_Interval
<1>12. rank \in Surjection(S, 1 .. n)
  BY <1>10, <1>11, FS_Injection DEF n
<1>13. ASSUME NEW k \in 1 .. n
       PROVE  \E u \in S : Cardinality(Below(u)) = k - 1
  <2>1. PICK u \in S : rank[u] = k
    BY <1>12 DEF Surjection
  <2>2. QED
    BY <2>1, <1>4, <1>6
<1>14. \A k \in 1 .. n : InOrder(S)[k] \in S /\ Cardinality(Below(InOrder(S)[k])) = k - 1
  BY <1>5, <1>13
<1>15. InOrder(S) \in [1 .. n -> S]
  BY <1>5, <1>14
<1>16. InOrder(S) \in Seq(S) /\ Len(InOrder(S)) = n
  BY <1>1, <1>15
<1>17. ASSUME NEW u \in S
       PROVE  In(InOrder(S), u)
  <2>1. rank[u] \in 1 .. n /\ Cardinality(Below(u)) = rank[u] - 1
    BY <1>4, <1>6, <1>8
  <2>2. InOrder(S)[rank[u]] \in S /\ Cardinality(Below(InOrder(S)[rank[u]])) = rank[u] - 1
    BY <2>1, <1>14
  <2>3. rank[InOrder(S)[rank[u]]] = rank[u]
    BY <2>1, <2>2, <1>4
  <2>4. InOrder(S)[rank[u]] = u
    BY <2>2, <2>3, <1>9
  <2>5. QED
    BY <2>1, <2>4, <1>16 DEF In
<1>18. \A i, j \in 1 .. n : InOrder(S)[i] = InOrder(S)[j] => i - 1 = j - 1
  BY <1>14
<1>19. \A i, j \in 1 .. n : InOrder(S)[i] = InOrder(S)[j] => i = j
  BY <1>1, <1>18
<1>20. Once(InOrder(S))
  BY <1>16, <1>19 DEF Once
<1>21. \A u : In(InOrder(S), u) => u \in S
  BY <1>14, <1>16 DEF In
<1>22. ASSUME NEW T, S \subseteq T
       PROVE  InOrder(S) \in Seq(T)
  <2>1. InOrder(S) \in [1 .. n -> T]
    BY <1>15, <1>22
  <2>2. QED
    BY <1>1, <2>1
<1>23. QED
  BY <1>17, <1>20, <1>21, <1>22
-----------------------------------------------------------------------------
(* Who may still be answered.                                              *)

(* The fields the argument is about, and nothing of the pages.             *)
Shapes ==
    /\ pc \in {"recv", "admit", "launch", "drain", "crashed"}
    /\ job \in [Uids -> [plen : Nat, out : Nat,
                         state : {"none", "dropped", "refused", "accepted"}]]
    /\ pending \in Seq(Uids) /\ running \subseteq Uids
    /\ adder = [index |-> adder.index, budget |-> adder.budget,
                reserved |-> adder.reserved, reqs |-> adder.reqs,
                chunks |-> adder.chunks]
    /\ adder.reqs \in Seq(Uids) /\ adder.index \in Nat
    /\ last.reqs \in Seq(Uids) /\ ongoing.reqs \in Seq(Uids)
    /\ drainer.todo \in Seq(Uids)
    /\ aborts \subseteq Uids /\ acks \subseteq aborts
    /\ sent \in [Uids -> [n : Nat, kind : Kinds]]

(* What the phases of an iteration leave behind for the next one.          *)
Phases ==
    /\ pc # "drain" => ongoing = NoBatch /\ drainer = NoDrain
    /\ pc \in {"recv", "drain"} => adder = NoAdder
    /\ pc = "admit" =>
         /\ adder.index = Len(adder.reqs) + 1 /\ Len(adder.reqs) <= Len(pending)
         /\ \A k \in 1 .. Len(adder.reqs) : adder.reqs[k] = pending[k]

(* Nobody is twice in a queue or in a batch, and the drain goes through the *)
(* batch.                                                                  *)
Distinct ==
    /\ Once(pending) /\ Once(adder.reqs) /\ Once(last.reqs)
    /\ Once(ongoing.reqs) /\ Once(drainer.todo)
    /\ \A u \in Uids : In(drainer.todo, u) \/ u \in drainer.done => In(last.reqs, u)

(* A request whose whole prompt is in a batch has left the queue.          *)
Unqueued ==
    \A u \in Uids : In(pending, u) =>
        /\ u \notin running
        /\ In(last.reqs, u) => u \in last.chunks
        /\ In(ongoing.reqs, u) => u \in ongoing.chunks
        /\ pc = "launch" /\ In(adder.reqs, u) => u \in adder.chunks

(* Who has work to be launched, or launched in this iteration.             *)
Working(u) == \/ In(pending, u) \/ u \in running
              \/ In(adder.reqs, u) \/ In(ongoing.reqs, u)

(* Only accepted requests are worked on.                                   *)
Asked == \A u \in Uids : Working(u) \/ In(last.reqs, u) => job[u].state = "accepted"

(* An aborted request is worked on no more, and once the abort has been    *)
(* acknowledged no result of it is awaited; a request that comes after its *)
(* abort finds the tombstone.                                              *)
AbortsHold ==
    \A u \in aborts :
        /\ ~ Working(u)
        /\ job[u].state = "none" => u \in tombs
        /\ u \notin acks => ~ In(last.reqs, u)

(* What a terminal reply means for the rest of the state: the results that *)
(* come after it will be taken for surplus ones.                           *)
Answered ==
    \A u \in Uids :
        /\ sent[u].kind = "aborted" => u \in aborts \ acks
        /\ sent[u].kind = "error" => job[u].state = "refused"
        /\ sent[u].kind = "finished" =>
             /\ job[u].state = "accepted"
             /\ ~ In(pending, u) /\ u \notin running /\ ~ In(adder.reqs, u)
             /\ In(ongoing.reqs, u) => u \in drainer.done
             /\ In(last.reqs, u) =>
                  u \in finished \/ (pc = "drain" /\ ~ In(drainer.todo, u))

ReplyInv == /\ Shapes /\ Phases /\ Distinct /\ Unqueued /\ Asked
            /\ AbortsHold /\ Answered

(* Messages.  A request is new only once, and not after its abort.         *)
LEMMA ReplyReceive ==
  ASSUME ReplyInv, NEW u \in Uids,
         \/ UserDropped(u) \/ \E p \in Prompts : UserTooLong(u, p)
         \/ \E p \in Prompts, m \in MaxTokens : UserAccepted(u, p, m)
  PROVE  ReplyInv'
<1> USE DEF ReplyInv
<1>0. job[u].state = "none" /\ ~ Working(u) /\ ~ In(last.reqs, u) /\ sent[u].kind \notin {"error", "finished"}
  BY DEF UserDropped, UserTooLong, UserAccepted, Asked, Answered
<1>1. CASE UserDropped(u)
  <2>1. /\ UNCHANGED <<pc, pending, adder, running, last, ongoing, drainer, finished, aborts, acks, sent>>
        /\ u \in tombs /\ tombs' = tombs \ {u}
        /\ job' = [job EXCEPT ![u].state = "dropped"]
    BY <1>1 DEF UserDropped
  <2>2. /\ job'[u].state = "dropped" /\ \A v \in Uids \ {u} : job'[v] = job[v]
        /\ job' \in [Uids -> [plen : Nat, out : Nat,
                              state : {"none", "dropped", "refused", "accepted"}]]
    BY <2>1 DEF Shapes
  <2>3. Shapes' /\ Phases' /\ Distinct' /\ Unqueued'
    BY <2>1, <2>2 DEF Shapes, Phases, Distinct, Unqueued
  <2>4. Asked' /\ AbortsHold' /\ Answered'
    BY <2>1, <2>2, <1>0 DEF Shapes, Asked, AbortsHold, Answered, Working
  <2>5. QED
    BY <2>3, <2>4
<1>2. ASSUME NEW p \in Prompts, UserTooLong(u, p)
      PROVE  ReplyInv'
  <2>1. /\ UNCHANGED <<pc, pending, adder, running, last, ongoing, drainer, finished, tombs, aborts, acks>>
        /\ u \notin tombs
        /\ job' = [job EXCEPT ![u].state = "refused"]
        /\ sent' = [sent EXCEPT ![u] = [n |-> @.n + 1, kind |-> "error"]]
    BY <1>2 DEF UserTooLong, Say
  <2>2. /\ job'[u].state = "refused" /\ \A v \in Uids \ {u} : job'[v] = job[v]
        /\ job' \in [Uids -> [plen : Nat, out : Nat,
                              state : {"none", "dropped", "refused", "accepted"}]]
    BY <2>1 DEF Shapes
  <2>3. /\ sent'[u].kind = "error" /\ \A v \in Uids \ {u} : sent'[v] = sent[v]
        /\ sent' \in [Uids -> [n : Nat, kind : Kinds]]
    BY <2>1 DEF Shapes, Kinds
  <2>4. Shapes' /\ Phases' /\ Distinct' /\ Unqueued'
    BY <2>1, <2>2, <2>3 DEF Shapes, Phases, Distinct, Unqueued
  <2>5. Asked' /\ AbortsHold' /\ Answered'
    BY <2>1, <2>2, <2>3, <1>0 DEF Shapes, Asked, AbortsHold, Answered, Working
  <2>6. QED
    BY <2>4, <2>5
<1>3. ASSUME NEW p \in Prompts, NEW m \in MaxTokens, UserAccepted(u, p, m)
      PROVE  ReplyInv'
  <2>1. /\ UNCHANGED <<pc, adder, running, last, ongoing, drainer, finished, tombs, aborts, acks, sent>>
        /\ u \notin tombs /\ pc = "recv"
        /\ job' = [job EXCEPT ![u] = [plen |-> Len(p), state |-> "accepted",
                                      out |-> Least(m, MaxSeqLen - Len(p))]]
        /\ pending' = Append(pending, u) /\ Len(p) < MaxSeqLen
    BY <1>3 DEF UserAccepted
  <2>2. Len(p) \in Nat /\ Least(m, MaxSeqLen - Len(p)) \in Nat
    <3>1. p \in Seq(Nat) /\ m \in Nat /\ PageSize \in Nat /\ IsFiniteSet(Pages)
      BY SchedulerConstants
    <3>2. Cardinality(Pages) \in Nat
      BY <3>1, FS_CardinalityType
    <3>3. MaxSeqLen \in Nat
      BY <3>1, <3>2 DEF MaxSeqLen
    <3>4. QED
      BY <3>1, <3>3, <2>1 DEF Least
  <2>3. /\ job'[u].state = "accepted" /\ \A v \in Uids \ {u} : job'[v] = job[v]
        /\ job' \in [Uids -> [plen : Nat, out : Nat,
                              state : {"none", "dropped", "refused", "accepted"}]]
    BY <2>1, <2>2 DEF Shapes
  <2>4. ~ In(pending, u) /\ u \notin running
    BY <1>0 DEF Working
  <2>5. /\ pending' \in Seq(Uids) /\ Once(pending')
        /\ \A v : In(pending', v) <=> In(pending, v) \/ v = u
    BY <2>1, <2>4, InAppended DEF Shapes, Distinct
  <2>6. Shapes' /\ Phases' /\ Distinct' /\ Unqueued'
    <3>1. Shapes' /\ Phases' /\ Distinct'
      BY <2>1, <2>3, <2>5 DEF Shapes, Phases, Distinct
    <3>2. Unqueued'
      BY <2>1, <2>4, <2>5, <1>0 DEF Unqueued, Working
    <3>3. QED
      BY <3>1, <3>2
  <2>7. Asked' /\ AbortsHold' /\ Answered'
    BY <2>1, <2>3, <2>5, <1>0, SMTT(30) DEF Shapes, Asked, AbortsHold, Answered, Working
  <2>8. QED
    BY <2>6, <2>7
<1>4. QED
  BY <1>1, <1>2, <1>3

(* An abort comes between two iterations, when nothing has been launched   *)
(* that the next drain would not see.                                      *)
LEMMA ReplyAbort ==
  ASSUME ReplyInv, NEW u \in Uids, Abort(u)
  PROVE  ReplyInv'
<1> USE DEF ReplyInv
<1>1. /\ UNCHANGED <<pc, job, adder, last, ongoing, drainer, finished, sent>>
      /\ pc = "recv" /\ u \notin aborts
      /\ aborts' = aborts \cup {u} /\ tombs' = tombs \cup {u} /\ acks' = acks \cup {u}
      /\ pending' = Keep(pending, Uids \ {u}) /\ running' = running \ {u}
  BY DEF Abort
<1>2. /\ pending' \in Seq(Uids) /\ Once(pending')
      /\ \A v : In(pending', v) <=> v \in Uids \ {u} /\ In(pending, v)
  BY <1>1, KeepKeeps DEF Shapes, Distinct
<1>3. \A v : ~ In(adder.reqs, v) /\ ~ In(ongoing.reqs, v)
  <2>1. adder.reqs = <<>> /\ ongoing.reqs = <<>>
    BY <1>1 DEF Phases, NoAdder, NoBatch
  <2>2. QED
    BY <2>1 DEF In
<1>4. Shapes' /\ Phases' /\ Distinct' /\ Unqueued'
  <2>1. Shapes' /\ Phases' /\ Distinct'
    BY <1>1, <1>2 DEF Shapes, Phases, Distinct
  <2>2. Unqueued'
    BY <1>1, <1>2 DEF Unqueued
  <2>3. QED
    BY <2>1, <2>2
<1>5. Asked' /\ AbortsHold' /\ Answered'
  <2>1. Asked'
    BY <1>1, <1>2 DEF Asked, Working
  <2>2. AbortsHold'
    BY <1>1, <1>2, <1>3 DEF AbortsHold, Working
  <2>3. Answered'
    BY <1>1, <1>2 DEF Answered, Shapes
  <2>4. QED
    BY <2>1, <2>2, <2>3
<1>6. QED
  BY <1>4, <1>5

(* A pass over the queue begins, or is skipped.                            *)
LEMMA ReplySchedule ==
  ASSUME ReplyInv, ScheduleDecode \/ (\E b \in 1 .. PrefillBudget : SchedulePrefill(b))
  PROVE  ReplyInv'
<1> USE DEF ReplyInv
<1>1. /\ UNCHANGED <<pending, running, job, last, ongoing, drainer, finished, tombs, aborts, acks, sent>>
      /\ pc = "recv" /\ adder = NoAdder
  BY DEF ScheduleDecode, SchedulePrefill, managers, inbox, Phases
<1>2. \/ pc' = "launch" /\ adder' = adder
      \/ pc' = "admit" /\ \E b \in 1 .. PrefillBudget :
           adder' = [NoAdder EXCEPT !.index = 1, !.budget = b, !.reserved = inflight_tokens]
  BY DEF ScheduleDecode, SchedulePrefill
<1>3. /\ adder.reqs = <<>> /\ adder'.reqs = <<>>
      /\ pc' = "admit" => adder'.index = 1
      /\ adder'.index \in Nat
      /\ adder' = [index |-> adder'.index, budget |-> adder'.budget,
                   reserved |-> adder'.reserved, reqs |-> adder'.reqs,
                   chunks |-> adder'.chunks]
  <2>1. CASE adder' = adder /\ pc' = "launch"
    BY <1>1, <2>1 DEF NoAdder
  <2>2. ASSUME NEW b, pc' = "admit",
               adder' = [NoAdder EXCEPT !.index = 1, !.budget = b, !.reserved = inflight_tokens]
        PROVE  /\ adder'.reqs = <<>> /\ adder'.index = 1
               /\ adder' = [index |-> 1, budget |-> b, reserved |-> inflight_tokens,
                            reqs |-> <<>>, chunks |-> {}]
    BY <2>2 DEF NoAdder
  <2>3. adder.reqs = <<>>
    BY <1>1 DEF NoAdder
  <2>4. CASE pc' = "admit"
    <3>1. PICK b \in 1 .. PrefillBudget :
            adder' = [NoAdder EXCEPT !.index = 1, !.budget = b, !.reserved = inflight_tokens]
      BY <1>2, <2>4
    <3>2. /\ adder'.reqs = <<>> /\ adder'.index = 1
          /\ adder' = [index |-> 1, budget |-> b, reserved |-> inflight_tokens,
                       reqs |-> <<>>, chunks |-> {}]
      BY <3>1, <2>2, <2>4
    <3>3. QED
      BY <3>2, <2>3
  <2>5. QED
    BY <1>2, <2>1, <2>4
<1>4. Len(adder'.reqs) = 0 /\ Len(pending) \in Nat /\ Once(adder'.reqs) /\ \A v : ~ In(adder'.reqs, v)
  BY <1>3 DEF Shapes, In, Once
<1>5. Shapes' /\ Phases' /\ Distinct'
  <2>1. Shapes'
    BY <1>1, <1>2, <1>3 DEF Shapes
  <2>2. pc' \in {"launch", "admit"}
    BY <1>2
  <2>3. Phases' /\ Distinct'
    BY <1>1, <2>2, <1>3, <1>4 DEF Phases, Distinct
  <2>4. QED
    BY <2>1, <2>3
<1>6. Unqueued' /\ Asked' /\ AbortsHold' /\ Answered'
  BY <1>1, <1>2, <1>3, <1>4 DEF Unqueued, Asked, AbortsHold, Answered, Working, Shapes
<1>7. QED
  BY <1>5, <1>6

(* The next one of the queue is admitted.                                  *)
LEMMA ReplyAdmit ==
  ASSUME ReplyInv, NEW u \in Uids, AdmitContinuation(u) \/ AdmitFresh(u)
  PROVE  ReplyInv'
<1> USE DEF ReplyInv
<1>1. /\ UNCHANGED <<pc, pending, running, job, last, ongoing, drainer, finished, tombs, aborts, acks, sent>>
      /\ pc = "admit" /\ adder.index <= Len(pending) /\ u = pending[adder.index]
  BY DEF AdmitContinuation, AdmitFresh, Admitting, managers, inbox
<1>2. PICK start, handle, owned : AddOneReq(u, start, handle, owned)
  BY DEF AdmitContinuation, AdmitFresh
<1>3. /\ adder'.index = adder.index + 1 /\ adder'.reqs = Append(adder.reqs, u)
      /\ adder' = [index |-> adder'.index, budget |-> adder'.budget,
                   reserved |-> adder'.reserved, reqs |-> adder'.reqs,
                   chunks |-> adder'.chunks]
  <2> DEFINE chunk == Least(adder.budget, job[u].plen - start)
             owed == job[u].plen - start + job[u].out
             more == IF start + chunk < job[u].plen THEN adder.chunks \cup {u} ELSE adder.chunks
  <2>1. adder' = [adder EXCEPT !.index = @ + 1, !.budget = @ - chunk,
                               !.reserved = @ + owed, !.reqs = Append(@, u), !.chunks = more]
    BY <1>2 DEF AddOneReq
  <2> HIDE DEF chunk, owed, more
  <2>2. adder = [index |-> adder.index, budget |-> adder.budget,
                 reserved |-> adder.reserved, reqs |-> adder.reqs, chunks |-> adder.chunks]
    BY DEF Shapes
  <2>3. adder' = [index |-> adder.index + 1, budget |-> adder.budget - chunk,
                  reserved |-> adder.reserved + owed, reqs |-> Append(adder.reqs, u),
                  chunks |-> more]
    BY <2>1, <2>2
  <2>4. QED
    BY <2>3
<1> DEFINE n == Len(adder.reqs)
<1>4. /\ n \in Nat /\ adder.index = n + 1 /\ n <= Len(pending) /\ Len(pending) \in Nat
      /\ \A k \in 1 .. n : adder.reqs[k] = pending[k]
      /\ adder.reqs \in Seq(Uids) /\ Once(adder.reqs) /\ Once(pending)
  BY <1>1 DEF Shapes, Phases, Distinct
<1>5. n + 1 \in 1 .. Len(pending) /\ \A k \in 1 .. n : k \in 1 .. Len(pending) /\ k # n + 1
  BY <1>1, <1>4
<1>6. ~ In(adder.reqs, u) /\ In(pending, u)
  BY <1>1, <1>4, <1>5 DEF In, Once
<1>7. /\ adder'.reqs \in Seq(Uids) /\ Once(adder'.reqs) /\ Len(adder'.reqs) = n + 1
      /\ \A v : In(adder'.reqs, v) <=> In(adder.reqs, v) \/ v = u
      /\ \A k \in 1 .. n + 1 : adder'.reqs[k] = pending[k]
  <2>1. /\ adder'.reqs \in Seq(Uids) /\ Once(adder'.reqs)
        /\ \A v : In(adder'.reqs, v) <=> In(adder.reqs, v) \/ v = u
    BY <1>3, <1>4, <1>6, InAppended
  <2>2. /\ Len(adder'.reqs) = n + 1 /\ adder'.reqs[n + 1] = u
        /\ \A k \in 1 .. n : adder'.reqs[k] = adder.reqs[k]
    BY <1>3, <1>4
  <2>3. \A k \in 1 .. n + 1 : k = n + 1 \/ k \in 1 .. n
    BY <1>4
  <2>4. QED
    BY <2>1, <2>2, <2>3, <1>1, <1>4
<1> HIDE DEF n
<1>8. adder.index + 1 = Len(adder'.reqs) + 1 /\ Len(adder'.reqs) <= Len(pending) /\ adder'.index \in Nat
  BY <1>1, <1>3, <1>4, <1>5, <1>7
<1>9. \A k \in 1 .. Len(adder'.reqs) : adder'.reqs[k] = pending'[k]
  BY <1>1, <1>7
<1>10. Shapes' /\ Phases' /\ Distinct'
  <2>1. Shapes'
    BY <1>1, <1>3, <1>7, <1>8 DEF Shapes
  <2>2. Phases'
    BY <1>1, <1>3, <1>8, <1>9 DEF Phases
  <2>3. Distinct'
    BY <1>1, <1>7 DEF Distinct
  <2>4. QED
    BY <2>1, <2>2, <2>3
<1>11. Unqueued' /\ Asked' /\ AbortsHold' /\ Answered'
  BY <1>1, <1>6, <1>7, SMTT(30) DEF Unqueued, Asked, AbortsHold, Answered, Working, Shapes
<1>12. QED
  BY <1>10, <1>11

(* The pass ends: of those admitted only prompts with a rest stay in the   *)
(* queue.                                                                  *)
LEMMA PassEnds ==
  ASSUME ReplyInv, AdmitDone
  PROVE  /\ pending' \in Seq(Uids) /\ Once(pending')
         /\ \A u : In(pending', u) => In(pending, u) /\ (In(adder.reqs, u) => u \in adder.chunks)
<1> USE DEF ReplyInv
<1> DEFINE n == Len(adder.reqs)
           done == SubSeq(pending, 1, n)
           rest == SubSeq(pending, n + 1, Len(pending))
<1>1. /\ UNCHANGED <<adder, running, job, last, ongoing, drainer, finished, tombs, aborts, acks, sent>>
      /\ pc = "admit" /\ pc' = "launch"
      /\ pending' = Keep(SubSeq(pending, 1, adder.index - 1), adder.chunks)
                    \o SubSeq(pending, adder.index, Len(pending))
  BY DEF AdmitDone, cache, inbox
<1>2. /\ n \in Nat /\ adder.index = n + 1 /\ n \in 0 .. Len(pending)
      /\ \A k \in 1 .. n : adder.reqs[k] = pending[k]
      /\ pending \in Seq(Uids) /\ Once(pending)
  BY <1>1 DEF Shapes, Phases, Distinct
<1>3. pending' = Keep(done, adder.chunks) \o rest
  <2>1. adder.index - 1 = n /\ adder.index = n + 1
    BY <1>2
  <2> HIDE DEF n
  <2>2. QED
    BY <1>1, <2>1
<1>4. /\ done \in Seq(Uids) /\ rest \in Seq(Uids) /\ Once(done) /\ Once(rest)
      /\ \A u : In(done, u) <=> \E i \in 1 .. n : pending[i] = u
      /\ \A u : In(rest, u) => In(pending, u)
      /\ \A u : ~ (In(done, u) /\ In(rest, u))
  BY <1>2, InCut
<1>5. \A u : In(done, u) <=> In(adder.reqs, u)
  BY <1>2, <1>4 DEF In
<1>6. \A u : In(done, u) => In(pending, u)
  BY <1>2, <1>4 DEF In
<1> HIDE DEF done, rest, n
<1>7. /\ Keep(done, adder.chunks) \in Seq(Uids) /\ Once(Keep(done, adder.chunks))
      /\ \A u : In(Keep(done, adder.chunks), u) <=> u \in adder.chunks /\ In(done, u)
  BY <1>4, KeepKeeps
<1>8. /\ pending' \in Seq(Uids) /\ Once(pending')
      /\ \A u : In(pending', u) <=> (u \in adder.chunks /\ In(done, u)) \/ In(rest, u)
  BY <1>3, <1>4, <1>7, InJoined
<1>9. \A u : In(pending', u) => In(pending, u) /\ (In(adder.reqs, u) => u \in adder.chunks)
  BY <1>4, <1>5, <1>6, <1>8
<1>10. QED
  BY <1>8, <1>9

(* That is the end of an admission.                                        *)
LEMMA ReplyAdmitDone ==
  ASSUME ReplyInv, AdmitDone
  PROVE  ReplyInv'
<1> USE DEF ReplyInv
<1>1. /\ UNCHANGED <<adder, running, job, last, ongoing, drainer, finished, tombs, aborts, acks, sent>>
      /\ pc = "admit" /\ pc' = "launch"
  BY DEF AdmitDone, cache, inbox
<1>2. /\ pending' \in Seq(Uids) /\ Once(pending')
      /\ \A u : In(pending', u) => In(pending, u) /\ (In(adder.reqs, u) => u \in adder.chunks)
  BY PassEnds
<1>3. Shapes' /\ Phases' /\ Distinct'
  BY <1>1, <1>2 DEF Shapes, Phases, Distinct
<1>4. Unqueued' /\ Asked' /\ AbortsHold' /\ Answered'
  BY <1>1, <1>2 DEF Unqueued, Asked, AbortsHold, Answered, Working, Shapes
<1>5. QED
  BY <1>3, <1>4

(* The batch names each request once; one that is still queued is in it    *)
(* for a chunk of its prompt.                                              *)
LEMMA BatchOnce ==
  ASSUME Shapes, Distinct, Unqueued, pc = "launch"
  PROVE  /\ Batch.reqs \in Seq(Uids) /\ Once(Batch.reqs)
         /\ \A u : In(Batch.reqs, u) => In(adder.reqs, u) \/ u \in running
         /\ \A u : In(Batch.reqs, u) /\ In(pending, u) => u \in Batch.chunks
<1>1. CASE adder.reqs # <<>>
  <2>1. Batch.reqs = adder.reqs /\ Batch.chunks = adder.chunks
    BY <1>1 DEF Batch
  <2>2. \A u : In(adder.reqs, u) => u \in Uids
    BY DEF In, Shapes
  <2>3. QED
    BY <2>1, <2>2 DEF Shapes, Distinct, Unqueued
<1>2. CASE adder.reqs = <<>>
  <2>1. Batch.reqs = InOrder(running)
    BY <1>2 DEF Batch
  <2>2. running \in SUBSET Nat /\ IsFiniteSet(running) /\ running \subseteq Uids
    BY SchedulerConstants, FS_Subset DEF Shapes
  <2>3. /\ InOrder(running) \in Seq(Uids) /\ Once(InOrder(running))
        /\ \A u : In(InOrder(running), u) <=> u \in running
    BY <2>2, InOrderOnce
  <2>4. QED
    BY <2>1, <2>2, <2>3 DEF Unqueued
<1>3. QED
  BY <1>1, <1>2

(* A batch is launched: the requests of the pass, or the decoders.         *)
LEMMA ReplyLaunch ==
  ASSUME ReplyInv,
         LaunchNothing \/ \E E \in SUBSET DOMAIN tree, tokens \in [Samplers -> Sampled] :
                            Launch(E, tokens)
  PROVE  ReplyInv'
<1> USE DEF ReplyInv
<1>1. /\ UNCHANGED <<pending, job, last, finished, tombs, aborts, acks, sent>>
      /\ pc = "launch" /\ pc' = "drain" /\ adder' = NoAdder
      /\ drainer' = [NoDrain EXCEPT !.todo = last.reqs]
  BY DEF LaunchNothing, Launch, managers, inbox
<1>2. \/ running' = running /\ ongoing' = ongoing
      \/ running' \subseteq running \cup Samplers /\ ongoing' = Batch
  BY DEF LaunchNothing, Launch, managers
<1>3. /\ drainer'.todo = last.reqs /\ drainer'.done = {}
      /\ adder'.reqs = <<>> /\ adder'.index = 0
      /\ ongoing = NoBatch /\ ongoing.reqs = <<>>
  BY <1>1 DEF NoDrain, NoAdder, NoBatch, Phases
<1>4. /\ Batch.reqs \in Seq(Uids) /\ Once(Batch.reqs)
      /\ \A u : In(Batch.reqs, u) => In(adder.reqs, u) \/ u \in running
      /\ \A u : In(Batch.reqs, u) /\ In(pending, u) => u \in Batch.chunks
  BY <1>1, BatchOnce
<1>5. \A u \in Samplers : In(Batch.reqs, u) /\ u \notin Batch.chunks
  BY DEF Samplers, InBatch, In
<1>6. \A u : In(Batch.reqs, u) => u \in Uids
  BY <1>4 DEF In
<1> HIDE DEF Batch, Samplers
<1>7. /\ ongoing'.reqs \in Seq(Uids) /\ Once(ongoing'.reqs)
      /\ running' \subseteq Uids
      /\ \A u \in Uids : In(ongoing'.reqs, u) \/ u \in running' => In(adder.reqs, u) \/ u \in running
      /\ \A u \in Uids : In(ongoing'.reqs, u) /\ In(pending, u) => u \in ongoing'.chunks
      /\ \A u \in Uids : u \in running' => ~ In(pending, u)
  <2>1. CASE running' = running /\ ongoing' = ongoing
    <3>1. \A u : ~ In(ongoing.reqs, u)
      BY <1>3 DEF In
    <3>2. QED
      BY <2>1, <3>1 DEF Shapes, Distinct, Unqueued
  <2>2. CASE running' \subseteq running \cup Samplers /\ ongoing' = Batch
    BY <2>2, <1>4, <1>5, <1>6 DEF Shapes, Unqueued
  <2>3. QED
    BY <1>2, <2>1, <2>2
<1>8. /\ adder' = [index |-> adder'.index, budget |-> adder'.budget,
                   reserved |-> adder'.reserved, reqs |-> adder'.reqs,
                   chunks |-> adder'.chunks]
      /\ adder'.reqs \in Seq(Uids) /\ adder'.index \in Nat /\ Once(adder'.reqs)
      /\ \A u : ~ In(adder'.reqs, u)
  BY <1>1, <1>3 DEF NoAdder, Once, In
<1>9. Shapes' /\ Phases' /\ Distinct'
  <2>1. Shapes'
    BY <1>1, <1>3, <1>7, <1>8 DEF Shapes
  <2>2. Phases'
    BY <1>1 DEF Phases
  <2>3. Distinct'
    BY <1>1, <1>3, <1>7, <1>8 DEF Distinct
  <2>4. QED
    BY <2>1, <2>2, <2>3
<1>10. Unqueued' /\ Asked' /\ AbortsHold' /\ Answered'
  <2>1. Unqueued'
    BY <1>1, <1>7, <1>8 DEF Unqueued
  <2>2. \A u \in Uids : Working(u)' => Working(u)
    BY <1>1, <1>7, <1>8 DEF Working
  <2>3. Asked'
    BY <1>1, <2>2 DEF Asked
  <2>4. AbortsHold'
    BY <1>1, <2>2 DEF AbortsHold, Shapes
  <2>5. Answered'
    BY <1>1, <1>3, <1>7, <1>8 DEF Answered
  <2>6. QED
    BY <2>1, <2>3, <2>4, <2>5
<1>11. QED
  BY <1>9, <1>10

(* One result of the batch is taken.  It is sent on only for a request of  *)
(* which no terminal reply has gone out.                                   *)
LEMMA ReplyDrain ==
  ASSUME ReplyInv, NEW u \in Uids,
         \/ DrainChunk(u) \/ DrainAborted(u) \/ DrainSurplus(u)
         \/ DrainFinal(u) \/ DrainToken(u)
  PROVE  /\ ReplyInv'
         /\ \A v \in Uids : sent'[v] # sent[v] => sent[v].kind \notin {"aborted", "finished", "error"}
<1> USE DEF ReplyInv
<1>1. /\ UNCHANGED <<pc, pending, job, adder, last, ongoing, finished, tombs, aborts, acks>>
      /\ pc = "drain" /\ drainer.todo # <<>> /\ u = Head(drainer.todo)
      /\ drainer'.todo = Tail(drainer.todo)
  <2>1. /\ UNCHANGED <<pc, pending, job, adder, last, ongoing, finished, tombs, aborts, acks>>
        /\ Draining(u)
    BY DEF DrainChunk, DrainAborted, DrainSurplus, DrainFinal, DrainToken, Emits, managers, inbox
  <2>2. \E pages, ended : Drained(pages, ended)
    BY Zenon DEF DrainChunk, DrainAborted, DrainSurplus, DrainFinal, DrainToken
  <2>3. QED
    BY <2>1, <2>2 DEF Draining, Drained
<1>2. \/ running' = running /\ drainer'.done = drainer.done /\ sent' = sent
      \/ running' = running \ {u} /\ drainer'.done = drainer.done \cup {u} /\ sent' = sent
      \/ /\ running' = running \ {u} /\ drainer'.done = drainer.done \cup {u}
         /\ sent' = Say(u, "finished") /\ u \notin finished /\ u \notin last.chunks
      \/ /\ running' = running /\ drainer'.done = drainer.done
         /\ sent' = Say(u, "token") /\ u \notin finished
  <2>1. CASE DrainChunk(u) \/ DrainSurplus(u)
    <3>1. \E pages : Drained(pages, {})
      BY <2>1, Zenon DEF DrainChunk, DrainSurplus
    <3>2. running' = running /\ sent' = sent
      BY <2>1 DEF DrainChunk, DrainSurplus, managers
    <3>3. drainer'.done = drainer.done
      BY <3>1 DEF Drained
    <3>4. QED
      BY <3>2, <3>3
  <2>2. CASE DrainAborted(u)
    BY <2>2 DEF DrainAborted, Drained
  <2>3. CASE DrainFinal(u)
    BY <2>3 DEF DrainFinal, Emits, Drained
  <2>4. CASE DrainToken(u)
    BY <2>4 DEF DrainToken, Emits, Drained
  <2>5. QED
    BY <2>1, <2>2, <2>3, <2>4
<1>3. /\ drainer'.todo \in Seq(Uids) /\ In(drainer.todo, u)
      /\ \A v : In(drainer.todo, v) <=> In(drainer'.todo, v) \/ v = u
      /\ Once(drainer'.todo) /\ ~ In(drainer'.todo, u)
  BY <1>1, InTail DEF Shapes, Distinct
<1>4. In(last.reqs, u) /\ job[u].state = "accepted"
  BY <1>3 DEF Distinct, Asked
<1>5. sent' # sent => sent[u].kind \notin {"aborted", "finished", "error"}
  <2>1. SUFFICES ASSUME u \notin finished PROVE sent[u].kind \notin {"aborted", "finished", "error"}
    BY <1>2
  <2>2. sent[u].kind # "finished"
    BY <2>1, <1>3, <1>4 DEF Answered
  <2>3. sent[u].kind # "error"
    BY <1>4 DEF Answered
  <2>4. sent[u].kind # "aborted"
    BY <1>4 DEF Answered, AbortsHold
  <2>5. QED
    BY <2>2, <2>3, <2>4
<1>6. \A v \in Uids \ {u} : sent'[v] = sent[v]
  BY <1>2 DEF Say, Shapes
<1>7. sent' \in [Uids -> [n : Nat, kind : Kinds]]
  BY <1>2, SMTT(30) DEF Say, Shapes, Kinds
<1>8. Shapes' /\ Phases' /\ Distinct'
  <2>1. Shapes'
    BY <1>1, <1>2, <1>3, <1>7 DEF Shapes
  <2>2. Phases'
    BY <1>1 DEF Phases
  <2>3. Distinct'
    BY <1>1, <1>2, <1>3, <1>4 DEF Distinct
  <2>4. QED
    BY <2>1, <2>2, <2>3
<1>9. Unqueued' /\ Asked' /\ AbortsHold'
  <2>1. running' \subseteq running
    BY <1>2
  <2>2. QED
    BY <1>1, <2>1 DEF Unqueued, Asked, AbortsHold, Working, Shapes
<1>10. Answered'
  <2>1. ASSUME NEW v \in Uids, v # u
        PROVE  /\ sent'[v].kind = sent[v].kind /\ (v \in running' => v \in running)
               /\ v \in drainer.done => v \in drainer'.done
               /\ In(drainer'.todo, v) => In(drainer.todo, v)
    BY <1>2, <1>3, <1>6, <2>1
  <2>2. \/ sent'[u].kind = sent[u].kind
        \/ sent'[u].kind = "token"
        \/ /\ sent'[u].kind = "finished" /\ u \notin running' /\ u \in drainer'.done
           /\ u \notin last.chunks
    BY <1>2 DEF Say, Shapes
  <2>3. drainer.done \subseteq drainer'.done /\ running' \subseteq running
    BY <1>2
  <2>4. ASSUME sent'[u].kind = "finished"
        PROVE  /\ ~ In(pending, u) /\ u \notin running'
               /\ In(ongoing.reqs, u) => u \in drainer'.done
    <3>1. CASE sent[u].kind = "finished"
      BY <3>1, <2>3 DEF Answered
    <3>2. CASE sent[u].kind # "finished"
      <4>1. u \notin running' /\ u \in drainer'.done /\ u \notin last.chunks
        BY <2>2, <2>4, <3>2
      <4>2. QED
        BY <4>1, <1>4 DEF Unqueued
    <3>3. QED
      BY <3>1, <3>2
  <2>5. \A v : ~ In(adder.reqs, v)
    <3>1. adder.reqs = <<>>
      BY <1>1 DEF Phases, NoAdder
    <3>2. QED
      BY <3>1 DEF In
  <2>6. ASSUME NEW v \in Uids
        PROVE  /\ sent'[v].kind = "aborted" => v \in aborts \ acks
               /\ sent'[v].kind = "error" => job[v].state = "refused"
               /\ sent'[v].kind = "finished" =>
                    /\ job[v].state = "accepted"
                    /\ ~ In(pending, v) /\ v \notin running' /\ ~ In(adder.reqs, v)
                    /\ In(ongoing.reqs, v) => v \in drainer'.done
                    /\ In(last.reqs, v) => v \in finished \/ ~ In(drainer'.todo, v)
    <3>1. CASE v = u
      BY <3>1, <1>3, <1>4, <2>2, <2>4, <2>5 DEF Answered
    <3>2. CASE v # u
      BY <3>2, <2>1 DEF Answered
    <3>3. QED
      BY <3>1, <3>2
  <2>7. QED
    BY <2>6, <1>1 DEF Answered
<1>11. QED
  BY <1>5, <1>6, <1>8, <1>9, <1>10

(* The iteration ends: the aborts it received are acknowledged, and the    *)
(* batch launched in it is the next one to drain.                          *)
LEMMA ReplyDrainEnd ==
  ASSUME ReplyInv, DrainEnd
  PROVE  ReplyInv'
<1> USE DEF ReplyInv
<1>1. /\ UNCHANGED <<pending, running, job, adder, tombs, aborts>>
      /\ pc = "drain" /\ pc' = "recv" /\ drainer.todo = <<>>
      /\ finished' = IF last.reqs = <<>> THEN finished ELSE drainer.done
      /\ sent' = FlushAcks /\ acks' = {} /\ last' = ongoing
      /\ ongoing' = NoBatch /\ drainer' = NoDrain
  BY DEF DrainEnd, managers, inbox
<1>2. /\ ongoing'.reqs = <<>> /\ drainer'.todo = <<>> /\ drainer'.done = {}
  BY <1>1 DEF NoBatch, NoDrain
<1>3. /\ Once(ongoing'.reqs) /\ Once(drainer'.todo)
      /\ \A u : ~ In(ongoing'.reqs, u) /\ ~ In(drainer'.todo, u) /\ ~ In(drainer.todo, u)
  BY <1>1, <1>2 DEF Once, In
<1>4. /\ sent' \in [Uids -> [n : Nat, kind : Kinds]]
      /\ \A u \in acks : u \in Uids /\ sent'[u].kind = "aborted"
      /\ \A u \in Uids \ acks : sent'[u] = sent[u]
  BY <1>1 DEF FlushAcks, Shapes, Kinds
<1>5. Shapes' /\ Phases' /\ Distinct'
  <2>1. Shapes'
    BY <1>1, <1>2, <1>4 DEF Shapes
  <2>2. Phases'
    BY <1>1 DEF Phases
  <2>3. Distinct'
    BY <1>1, <1>2, <1>3 DEF Distinct
  <2>4. QED
    BY <2>1, <2>2, <2>3
<1>6. Unqueued' /\ Asked' /\ AbortsHold'
  BY <1>1, <1>3 DEF Unqueued, Asked, AbortsHold, Working, Shapes
<1>7. \A u \in Uids : In(ongoing.reqs, u) /\ u \in drainer.done => u \in finished'
  <2>1. ASSUME NEW u \in Uids, u \in drainer.done PROVE last.reqs # <<>>
    BY <2>1 DEF Distinct, In
  <2>2. QED
    BY <1>1, <2>1
<1>8. Answered'
  <2>1. ASSUME NEW u \in Uids
        PROVE  /\ sent'[u].kind = "aborted" => u \in aborts
               /\ sent'[u].kind = "error" => job[u].state = "refused"
               /\ sent'[u].kind = "finished" =>
                    /\ job[u].state = "accepted"
                    /\ ~ In(pending, u) /\ u \notin running /\ ~ In(adder.reqs, u)
                    /\ In(ongoing.reqs, u) => u \in finished'
    <3>1. CASE u \in acks
      BY <3>1, <1>4 DEF Shapes
    <3>2. CASE u \notin acks
      BY <3>2, <1>4, <1>7 DEF Answered
    <3>3. QED
      BY <3>1, <3>2
  <2>2. QED
    BY <2>1, <1>1, <1>3 DEF Answered
<1>9. QED
  BY <1>5, <1>6, <1>8

(* Nothing has been asked.                                                 *)
LEMMA ReplyInit == Init => ReplyInv
<1> SUFFICES ASSUME Init PROVE ReplyInv
  OBVIOUS
<1>1. /\ pending = <<>> /\ adder = NoAdder /\ adder.reqs = <<>> /\ last.reqs = <<>>
      /\ ongoing.reqs = <<>> /\ drainer.todo = <<>> /\ drainer.done = {} /\ running = {}
  BY DEF Init, NoAdder, NoBatch, NoDrain
<1>2. \A u : ~ In(<<>>, u)
  BY DEF In
<1>3. Once(<<>>) /\ <<>> \in Seq(Uids)
  BY DEF Once
<1>4. Shapes
  BY <1>1, <1>3 DEF Init, Shapes, NoJob, NoAdder, Kinds
<1>5. Phases /\ Distinct /\ Unqueued /\ Asked /\ AbortsHold /\ Answered
  BY <1>1, <1>2, <1>3 DEF Init, Phases, Distinct, Unqueued, Asked, AbortsHold, Answered, Working
<1>6. QED
  BY <1>4, <1>5 DEF ReplyInv

(* Every step keeps what the replies mean.                                 *)
LEMMA ReplyStep == ReplyInv /\ [Next]_vars => ReplyInv'
<1> SUFFICES ASSUME ReplyInv, [Next]_vars PROVE ReplyInv'
  OBVIOUS
<1>1. CASE Receive
  BY <1>1, ReplyReceive, ReplyAbort DEF Receive
<1>2. CASE Admit
  BY <1>2, ReplySchedule, ReplyAdmit, ReplyAdmitDone DEF Admit
<1>3. CASE Dispatch
  <2>1. CASE LaunchAsserts
    <3>1. /\ UNCHANGED <<pending, adder, running, job, last, ongoing, drainer, finished, tombs, aborts, acks, sent>>
          /\ pc = "launch" /\ pc' = "crashed"
      BY <2>1 DEF LaunchAsserts, managers, inbox
    <3>2. QED
      BY <3>1 DEF ReplyInv, Shapes, Phases, Distinct, Unqueued, Asked, AbortsHold, Answered, Working
  <2>2. QED
    BY <1>3, <2>1, ReplyLaunch DEF Dispatch
<1>4. CASE Drain
  BY <1>4, ReplyDrain, ReplyDrainEnd DEF Drain
<1>5. CASE UNCHANGED vars
  BY <1>5 DEF vars, ReplyInv, Shapes, Phases, Distinct, Unqueued, Asked, AbortsHold, Answered, Working
<1>6. QED
  BY <1>1, <1>2, <1>3, <1>4, <1>5 DEF Next

(* What follows a terminal reply, step by step.                            *)
LEMMA SilentStep ==
  ASSUME ReplyInv, [Next]_vars, NEW u \in Uids
  PROVE  /\ sent[u].kind = "aborted" => sent'[u] = sent[u]
         /\ sent[u].kind \in {"finished", "error"} =>
                sent'[u] = sent[u] \/ sent'[u].kind = "aborted"
<1>1. CASE Receive
  <2>1. CASE sent' = sent
    BY <2>1
  <2>2. CASE sent' # sent
    <3>1. PICK v \in Uids, p \in Prompts : UserTooLong(v, p)
      BY <1>1, <2>2 DEF Receive, UserDropped, Abort, UserAccepted
    <3>2. job[v].state = "none" /\ v \notin tombs /\ \A w \in Uids \ {v} : sent'[w] = sent[w]
      BY <3>1 DEF UserTooLong, Say, ReplyInv, Shapes
    <3>3. sent[v].kind \notin {"aborted", "finished", "error"}
      BY <3>2 DEF ReplyInv, Answered, AbortsHold
    <3>4. QED
      BY <3>2, <3>3
  <2>3. QED
    BY <2>1, <2>2
<1>2. CASE Admit \/ Dispatch \/ UNCHANGED vars
  <2>1. sent' = sent
    BY <1>2 DEF Admit, Dispatch, SchedulePrefill, ScheduleDecode, AdmitDone, AdmitContinuation,
                AdmitFresh, LaunchNothing, LaunchAsserts, Launch, vars
  <2>2. QED
    BY <2>1
<1>3. CASE DrainEnd
  <2>1. CASE u \in acks
    <3>1. sent'[u].kind = "aborted" /\ sent[u].kind # "aborted"
      BY <1>3, <2>1 DEF DrainEnd, FlushAcks, ReplyInv, Answered
    <3>2. QED
      BY <3>1
  <2>2. CASE u \notin acks
    BY <1>3, <2>2 DEF DrainEnd, FlushAcks
  <2>3. QED
    BY <2>1, <2>2
<1>4. CASE Drain /\ ~ DrainEnd
  BY <1>4, ReplyDrain DEF Drain
<1>5. QED
  BY <1>1, <1>2, <1>3, <1>4 DEF Next

(* In every behaviour the queue, the batch in flight and the batch under   *)
(* way agree with what has been answered and aborted.                      *)
THEOREM ReplyInvariant == Spec => []ReplyInv
<1>1. ReplyInv /\ [Next]_vars => ReplyInv'
  BY ReplyStep
<1>2. QED
  BY <1>1, ReplyInit, PTL DEF Spec

(* After "finished" or an error a request hears nothing but the            *)
(* acknowledgement of its abort, and after that nothing: the surplus step  *)
(* of an ended request and the results of an aborted one, which overlap    *)
(* scheduling drains an iteration late, are never sent.                    *)
THEOREM RepliesTerminate == Spec => TerminalReply
<1>1. ReplyInv /\ [Next]_vars =>
        [\A u \in Uids :
           /\ sent[u].kind = "aborted" => sent'[u] = sent[u]
           /\ sent[u].kind \in {"finished", "error"} =>
                  sent'[u] = sent[u] \/ sent'[u].kind = "aborted"]_sent
  BY SilentStep
<1>2. QED
  BY <1>1, ReplyInvariant, PTL DEF Spec, TerminalReply
-----------------------------------------------------------------------------
(* Locks of the prefix cache.                                              *)

(* A prompt is there as soon as its request is accepted, and what has been *)
(* computed of a request that holds a row lies within its tokens.          *)
Lengths ==
    /\ text \in [Uids -> Seq(Nat)] /\ req \in [Uids -> Requests]
    /\ \A u \in Uids : job[u].state = "accepted" =>
         job[u].plen \in 1 .. Len(text[u])
    /\ \A u \in Live :
         /\ job[u].state = "accepted"
         /\ req[u].handle <= Len(text[u])
         /\ req[u].cached <= req[u].dev /\ req[u].dev <= Len(text[u])
         /\ In(pending, u) => req[u].dev <= job[u].plen
    /\ adder.budget \in Int
    /\ \A u \in adder.chunks :
         u \in Uids /\ In(adder.reqs, u) /\ req[u].dev < job[u].plen

(* With a prefix the cache holds all shorter ones.                         *)
TreeClosed ==
    /\ DOMAIN tree = DOMAIN ref
    /\ \A p \in DOMAIN tree : p \in Seq(Nat) /\ PathOf(p) \subseteq DOMAIN tree

(* The request's handle covers the prefix.                                 *)
Reads(u, p) == req[u].held /\ p \in PathOf(FirstTokens(u, req[u].handle))
Readers(p)  == {u \in Uids : Reads(u, p)}

RefsCount ==
    /\ \A p \in DOMAIN ref : ref[p] = Cardinality(Readers(p))
    /\ \A u \in Uids : \A p : Reads(u, p) => p \in DOMAIN ref

LocksInv == Lengths /\ TreeClosed /\ RefsCount

(* The whole pages in n tokens.                                            *)
LEMMA AlignDown ==
  ASSUME NEW n \in Nat
  PROVE  align_down(n) \in 0 .. n
<1>1. PageSize \in Nat \ {0}
  BY SchedulerConstants
<1>2. (n \div PageSize) * PageSize <= n /\ n \div PageSize \in Nat
  BY <1>1
<1>3. (n \div PageSize) * PageSize \in Nat
  BY <1>1, <1>2
<1>4. QED
  BY <1>2, <1>3 DEF align_down

(* k whole pages fit.                                                      *)
LEMMA PagesFit ==
  ASSUME NEW n \in Nat, NEW k \in Nat
  PROVE  k <= n \div PageSize <=> k * PageSize <= n
<1>1. PageSize \in Nat \ {0}
  BY SchedulerConstants
<1>2. QED
  BY <1>1

(* A prefix of a prefix.                                                   *)
LEMMA CutCut ==
  ASSUME NEW T, NEW s \in Seq(T), NEW n \in 0 .. Len(s), NEW m \in 0 .. n
  PROVE  /\ SubSeq(s, 1, n) \in Seq(T) /\ Len(SubSeq(s, 1, n)) = n
         /\ SubSeq(SubSeq(s, 1, n), 1, m) = SubSeq(s, 1, m)
<1>1. n \in Nat /\ m \in Nat /\ m <= n /\ m <= Len(s) /\ Len(s) \in Nat
  OBVIOUS
<1>2. SubSeq(s, 1, n) \in Seq(T) /\ Len(SubSeq(s, 1, n)) = n
      /\ \A i \in 1 .. n : SubSeq(s, 1, n)[i] = s[i]
  BY <1>1
<1>3. SubSeq(s, 1, m) \in Seq(T) /\ Len(SubSeq(s, 1, m)) = m
      /\ \A i \in 1 .. m : SubSeq(s, 1, m)[i] = s[i]
  BY <1>1
<1> DEFINE a == SubSeq(s, 1, n)
<1>4. SubSeq(a, 1, m) \in Seq(T) /\ Len(SubSeq(a, 1, m)) = m
      /\ \A i \in 1 .. m : SubSeq(a, 1, m)[i] = a[i]
  <2> HIDE DEF a
  <2>1. a \in Seq(T) /\ Len(a) = n
    BY <1>2 DEF a
  <2>2. QED
    BY <2>1, <1>1
<1>5. \A i \in 1 .. m : SubSeq(a, 1, m)[i] = SubSeq(s, 1, m)[i]
  BY <1>1, <1>2, <1>3, <1>4
<1> HIDE DEF a
<1>6. SubSeq(a, 1, m) = SubSeq(s, 1, m)
  BY <1>3, <1>4, <1>5, SeqEqual
<1>7. QED
  BY <1>2, <1>6 DEF a

(* The prefixes on a path.                                                 *)
LEMMA PathOn ==
  ASSUME NEW s \in Seq(Nat), NEW p \in PathOf(s)
  PROVE  /\ p \in Seq(Nat) /\ Len(p) \in 1 .. Len(s) /\ p = SubSeq(s, 1, Len(p))
         /\ p \in PathOf(p)
<1>1. PageSize \in Nat \ {0} /\ Len(s) \in Nat
  BY SchedulerConstants
<1>2. PICK k \in 1 .. (Len(s) \div PageSize) : p = SubSeq(s, 1, k * PageSize)
  BY DEF PathOf
<1>3. Len(s) \div PageSize \in Nat
  BY <1>1
<1>4. k \in Nat \ {0} /\ k * PageSize <= Len(s) /\ k * PageSize \in Nat \ {0}
  <2>1. k \in Nat \ {0} /\ k <= Len(s) \div PageSize
    BY <1>2, <1>3
  <2>2. k * PageSize <= Len(s)
    BY <2>1, <1>1, PagesFit
  <2>3. QED
    BY <2>1, <2>2, <1>1
<1>5. p \in Seq(Nat) /\ Len(p) = k * PageSize
  BY <1>1, <1>2, <1>4, CutCut
<1>6. p = SubSeq(p, 1, Len(p))
  BY <1>5, <1>4, <1>2, <1>1, CutCut
<1>7. k \in 1 .. (Len(p) \div PageSize)
  BY <1>4, <1>5, PagesFit
<1>8. QED
  BY <1>2, <1>4, <1>5, <1>6, <1>7 DEF PathOf

(* The path to a prefix is a part of the path.                             *)
LEMMA PathShrinks ==
  ASSUME NEW s \in Seq(Nat), NEW n \in 0 .. Len(s)
  PROVE  PathOf(SubSeq(s, 1, n)) \subseteq PathOf(s)
<1>1. PageSize \in Nat \ {0} /\ Len(s) \in Nat /\ n \in Nat /\ n <= Len(s)
  BY SchedulerConstants
<1>2. SubSeq(s, 1, n) \in Seq(Nat) /\ Len(SubSeq(s, 1, n)) = n
  BY CutCut
<1>3. SUFFICES ASSUME NEW p \in PathOf(SubSeq(s, 1, n)) PROVE p \in PathOf(s)
  OBVIOUS
<1>4. PICK k \in 1 .. (n \div PageSize) : p = SubSeq(SubSeq(s, 1, n), 1, k * PageSize)
  BY <1>2, <1>3 DEF PathOf
<1>5. n \div PageSize \in Nat /\ Len(s) \div PageSize \in Nat
  BY <1>1
<1>6. k \in Nat /\ k >= 1 /\ k <= n \div PageSize /\ k * PageSize \in Nat
  BY <1>1, <1>4, <1>5
<1>7. k * PageSize <= n
  BY <1>1, <1>6, PagesFit
<1>8. k <= Len(s) \div PageSize
  BY <1>1, <1>6, <1>7, PagesFit
<1>9. p = SubSeq(s, 1, k * PageSize)
  BY <1>1, <1>4, <1>6, <1>7, CutCut
<1>10. QED
  BY <1>5, <1>6, <1>8, <1>9 DEF PathOf

(* So is the path to one that lies on it.                                  *)
LEMMA PathOnPath ==
  ASSUME NEW s \in Seq(Nat), NEW p \in PathOf(s)
  PROVE  PathOf(p) \subseteq PathOf(s)
<1>1. Len(p) \in 0 .. Len(s) /\ p = SubSeq(s, 1, Len(p))
  BY PathOn
<1>2. QED
  BY <1>1, PathShrinks

(* No path leads to nothing.                                               *)
LEMMA PathEmpty ==
  ASSUME NEW s, Len(s) = 0
  PROVE  PathOf(s) = {}
<1>1. 0 \div PageSize = 0
  BY SchedulerConstants
<1>2. QED
  BY <1>1 DEF PathOf

(* The walk ends at the longest prefix that the cache holds.               *)
LEMMA MatchFound ==
  ASSUME TreeClosed, NEW s \in Seq(Nat)
  PROVE  /\ MatchLen(s) \in 0 .. Len(s)
         /\ PathOf(SubSeq(s, 1, MatchLen(s))) \subseteq DOMAIN tree
         /\ \A p \in PathOf(s) \cap DOMAIN tree : Len(p) <= MatchLen(s)
         /\ MatchLen(s) # 0 => SubSeq(s, 1, MatchLen(s)) \in PathOf(s) \cap DOMAIN tree
<1> DEFINE found == PathOf(s) \cap DOMAIN tree
           hits == {Len(p) : p \in found}
<1>1. MatchLen(s) = IF hits = {} THEN 0 ELSE CHOOSE n \in hits : \A m \in hits : m <= n
  BY DEF MatchLen
<1>2. \A p \in found : Len(p) \in 1 .. Len(s) /\ p = SubSeq(s, 1, Len(p))
  BY PathOn
<1>3. Len(s) \in Nat /\ \A n \in hits : n \in 1 .. Len(s)
  BY <1>2
<1>4. CASE hits = {}
  <2>1. SubSeq(s, 1, 0) \in Seq(Nat) /\ Len(SubSeq(s, 1, 0)) = 0
    BY <1>3, CutCut
  <2>2. MatchLen(s) = 0
    BY <1>1, <1>4
  <2>3. PathOf(SubSeq(s, 1, 0)) = {}
    BY <2>1, PathEmpty
  <2>4. found = {}
    BY <1>4
  <2> HIDE DEF hits
  <2>5. QED
    BY <2>2, <2>3, <2>4, <1>3
<1>5. CASE hits # {}
  <2> DEFINE short == {Len(s) - n : n \in hits}
  <2>1. short \in SUBSET Nat /\ short # {}
    BY <1>3, <1>5
  <2> HIDE DEF short
  <2>2. PICK m \in short : \A k \in short : m <= k
    BY <2>1, LeastOne
  <2>3. PICK n \in hits : m = Len(s) - n
    BY <2>2 DEF short
  <2>4. \A k \in hits : k <= n
    <3>1. SUFFICES ASSUME NEW k \in hits PROVE k <= n
      OBVIOUS
    <3>2. Len(s) - k \in short
      BY DEF short
    <3>3. m <= Len(s) - k /\ k \in Nat /\ n \in Nat
      BY <3>2, <2>2, <1>3
    <3>4. QED
      BY <3>3, <2>3, <1>3
  <2>5. MatchLen(s) \in hits /\ \A k \in hits : k <= MatchLen(s)
    <3> HIDE DEF hits
    <3>1. QED
      BY <1>1, <1>5, <2>3, <2>4
  <2>6. PICK p \in found : Len(p) = MatchLen(s)
    BY <2>5
  <2>7. p = SubSeq(s, 1, MatchLen(s)) /\ PathOf(p) \subseteq DOMAIN tree
    BY <2>6, <1>2 DEF TreeClosed
  <2>8. \A q \in found : Len(q) <= MatchLen(s)
    BY <2>5
  <2>9. MatchLen(s) \in 0 .. Len(s)
    BY <2>5, <1>3
  <2> HIDE DEF hits
  <2>10. PathOf(SubSeq(s, 1, MatchLen(s))) \subseteq DOMAIN tree
    BY <2>7, Zenon
  <2>11. SubSeq(s, 1, MatchLen(s)) \in found
    BY <2>6, <2>7, Zenon
  <2>12. QED
    BY <2>8, <2>9, <2>10, <2>11
<1>6. QED
  BY <1>4, <1>5

(* One element moves into or out of a set of requests.                     *)
LEMMA CardMove ==
  ASSUME NEW A \in SUBSET Uids, NEW B \in SUBSET Uids, NEW u,
         \A v : v # u => (v \in A <=> v \in B)
  PROVE  /\ Cardinality(A) \in Nat /\ Cardinality(B) \in Nat
         /\ Cardinality(B) = Cardinality(A) + (IF u \in B THEN 1 ELSE 0)
                                            - (IF u \in A THEN 1 ELSE 0)
<1>1. IsFiniteSet(A) /\ IsFiniteSet(B)
  BY SchedulerConstants, FS_Subset
<1>2. Cardinality(A) \in Nat /\ Cardinality(B) \in Nat
  BY <1>1, FS_CardinalityType
<1>3. CASE u \in A /\ u \notin B
  <2>1. B = A \ {u}
    BY <1>3
  <2>2. Cardinality(B) = Cardinality(A) - 1
    BY <1>1, <1>3, <2>1, FS_RemoveElement
  <2>3. QED
    BY <2>2, <1>2, <1>3
<1>4. CASE u \notin A /\ u \in B
  <2>1. B = A \cup {u}
    BY <1>4
  <2>2. Cardinality(B) = Cardinality(A) + 1
    BY <1>1, <1>4, <2>1, FS_AddElement
  <2>3. QED
    BY <2>2, <1>2, <1>4
<1>5. CASE u \in A <=> u \in B
  <2>1. A = B
    BY <1>5
  <2>2. QED
    BY <2>1, <1>2
<1>6. QED
  BY <1>3, <1>4, <1>5

(* The counts follow the one request that moves its handle.                *)
LEMMA RefsMove ==
  ASSUME RefsCount, NEW u \in Uids,
         \A v \in Uids : v # u => \A p : Reads(v, p)' <=> Reads(v, p),
         \A p : Reads(u, p)' => p \in DOMAIN ref',
         DOMAIN ref \subseteq DOMAIN ref',
         \A p \in DOMAIN ref' :
            ref'[p] = (IF p \in DOMAIN ref THEN ref[p] ELSE 0)
                      + (IF Reads(u, p)' THEN 1 ELSE 0) - (IF Reads(u, p) THEN 1 ELSE 0)
  PROVE  RefsCount'
<1>1. ASSUME NEW p \in DOMAIN ref'
      PROVE  ref'[p] = Cardinality(Readers(p)')
  <2>1. /\ Readers(p) \in SUBSET Uids /\ Readers(p)' \in SUBSET Uids
        /\ \A v : v # u => (v \in Readers(p) <=> v \in Readers(p)')
        /\ (u \in Readers(p) <=> Reads(u, p)) /\ (u \in Readers(p)' <=> Reads(u, p)')
    BY DEF Readers
  <2>2. /\ Cardinality(Readers(p)) \in Nat
        /\ Cardinality(Readers(p)') = Cardinality(Readers(p))
             + (IF u \in Readers(p)' THEN 1 ELSE 0) - (IF u \in Readers(p) THEN 1 ELSE 0)
    BY <2>1, CardMove
  <2>3. p \notin DOMAIN ref => Cardinality(Readers(p)) = 0
    <3>1. p \notin DOMAIN ref => Readers(p) = {}
      BY DEF RefsCount, Readers
    <3>2. QED
      BY <3>1, FS_EmptySet
  <2>4. (IF p \in DOMAIN ref THEN ref[p] ELSE 0) = Cardinality(Readers(p))
    BY <2>3 DEF RefsCount
  <2>5. QED
    BY <2>1, <2>2, <2>4
<1>2. \A v \in Uids : \A p : Reads(v, p)' => p \in DOMAIN ref'
  BY DEF RefsCount
<1>3. QED
  BY <1>1, <1>2 DEF RefsCount

(* They stay as they are while nobody moves.                               *)
LEMMA RefsStay ==
  ASSUME RefsCount, TreeClosed, tree' = tree, ref' = ref,
         \A v \in Uids : \A p : Reads(v, p)' <=> Reads(v, p)
  PROVE  RefsCount' /\ TreeClosed'
<1>1. \A p : Readers(p)' = Readers(p)
  BY DEF Readers
<1>2. RefsCount'
  BY <1>1 DEF RefsCount
<1>3. QED
  BY <1>2 DEF TreeClosed, PathOf

(* The tokens under a handle do not change.                                *)
LEMMA ReadsKept ==
  ASSUME NEW v \in Uids, req'[v].held = req[v].held,
         req[v].held => /\ req'[v].handle = req[v].handle
                        /\ FirstTokens(v, req[v].handle)' = FirstTokens(v, req[v].handle)
  PROVE  \A p : Reads(v, p)' <=> Reads(v, p)
<1>1. req[v].held => FirstTokens(v, req[v].handle)' = SubSeq(text'[v], 1, req'[v].handle)
  BY DEF FirstTokens
<1>2. QED
  BY <1>1 DEF Reads, FirstTokens, PathOf

(* What the insertion of a request's prefix does to the cache.             *)
LEMMA Inserted ==
  ASSUME Lengths, TreeClosed, NEW u \in Uids, NEW r,
         r.host \in Nat, r.cached \in Nat, r.cached <= Len(text[u])
  PROVE  /\ InsertIds(u, r) \in Seq(Nat)
         /\ Len(InsertIds(u, r)) = align_down(Least(r.host, r.cached))
         /\ Len(InsertIds(u, r)) \in 0 .. Len(text[u])
         /\ FirstTokens(u, Len(InsertIds(u, r))) = InsertIds(u, r)
         /\ DOMAIN InsertTree(u, r) = DOMAIN tree \cup PathOf(InsertIds(u, r))
         /\ DOMAIN InsertRefs(u, r) = DOMAIN tree \cup PathOf(InsertIds(u, r))
         /\ \A p \in DOMAIN InsertRefs(u, r) :
               InsertRefs(u, r)[p] = IF p \in DOMAIN ref THEN ref[p] ELSE 0
         /\ \A p \in DOMAIN tree \cup PathOf(InsertIds(u, r)) :
               p \in Seq(Nat) /\ PathOf(p) \subseteq DOMAIN tree \cup PathOf(InsertIds(u, r))
<1> DEFINE n == Least(r.host, r.cached)
           m == align_down(n)
           ids == InsertIds(u, r)
<1>1. n \in Nat /\ n <= Len(text[u]) /\ text[u] \in Seq(Nat) /\ Len(text[u]) \in Nat
  BY DEF Least, Lengths
<1>2. m \in 0 .. Len(text[u])
  <2>1. m \in 0 .. n
    BY <1>1, AlignDown
  <2>2. QED
    BY <1>1, <2>1
<1>3. ids = SubSeq(text[u], 1, m)
  BY DEF InsertIds, FirstTokens
<1> HIDE DEF m, n, ids
<1>4. ids \in Seq(Nat) /\ Len(ids) = m
  BY <1>1, <1>2, <1>3, CutCut
<1>5. FirstTokens(u, Len(ids)) = ids
  BY <1>3, <1>4 DEF FirstTokens
<1>6. /\ DOMAIN InsertTree(u, r) = DOMAIN tree \cup PathOf(ids)
      /\ DOMAIN InsertRefs(u, r) = DOMAIN tree \cup PathOf(ids)
  <2>1. DOMAIN tree \cup (PathOf(ids) \ DOMAIN tree) = DOMAIN tree \cup PathOf(ids)
    OBVIOUS
  <2>2. DOMAIN ref = DOMAIN tree
    BY DEF TreeClosed
  <2>3. QED
    BY <2>1, <2>2 DEF InsertTree, InsertRefs, ids
<1>7. \A p \in DOMAIN InsertRefs(u, r) :
         InsertRefs(u, r)[p] = IF p \in DOMAIN ref THEN ref[p] ELSE 0
  BY DEF InsertRefs
<1>8. ASSUME NEW p \in DOMAIN tree \cup PathOf(ids)
      PROVE  p \in Seq(Nat) /\ PathOf(p) \subseteq DOMAIN tree \cup PathOf(ids)
  <2>1. CASE p \in DOMAIN tree
    BY <2>1 DEF TreeClosed
  <2>2. CASE p \in PathOf(ids)
    BY <2>2, <1>4, PathOn, PathOnPath
  <2>3. QED
    BY <2>1, <2>2
<1>9. QED
  BY <1>2, <1>4, <1>5, <1>6, <1>7, <1>8 DEF ids, m, n

(* The end of a request gives its lock back.                               *)
LEMMA Released ==
  ASSUME LocksInv, NEW u \in Uids, NEW r \in Requests,
         r.held = req[u].held, r.held => r.handle = req[u].handle /\ r.cached = req[u].cached,
         FreeResources(u, r), text' = text
  PROVE  /\ TreeClosed' /\ RefsCount' /\ req' \in [Uids -> Requests]
         /\ req'[u].held = FALSE /\ req'[u].dev = r.dev
         /\ \A v \in Uids : v # u => req'[v] = req[v]
<1> USE DEF LocksInv
<1>1. CASE ~ r.held
  <2>1. tree' = tree /\ ref' = ref /\ req' = [req EXCEPT ![u] = r]
    BY <1>1 DEF FreeResources
  <2>2. /\ req' \in [Uids -> Requests] /\ req'[u] = r /\ req'[u].held = FALSE
        /\ \A v \in Uids : v # u => req'[v] = req[v]
    BY <2>1, <1>1 DEF Lengths, Requests
  <2>3. \A v \in Uids : \A p : Reads(v, p)' <=> Reads(v, p)
    <3>1. SUFFICES ASSUME NEW v \in Uids PROVE \A p : Reads(v, p)' <=> Reads(v, p)
      OBVIOUS
    <3>2. /\ req'[v].held = req[v].held
          /\ req[v].held => req'[v].handle = req[v].handle
      BY <2>2, <1>1
    <3>3. req[v].held => FirstTokens(v, req[v].handle)' = FirstTokens(v, req[v].handle)
      BY <3>2 DEF FirstTokens
    <3>4. QED
      BY <3>2, <3>3, ReadsKept
  <2>4. QED
    BY <2>1, <2>2, <2>3, RefsStay
<1>2. CASE r.held
  <2> DEFINE c == Clamped(r)
             ids == InsertIds(u, c)
             old == FirstTokens(u, r.handle)
  <2>1. u \in Live /\ r.cached <= Len(text[u]) /\ r.handle <= Len(text[u])
    <3>1. u \in Live
      BY <1>2 DEF Live
    <3>2. /\ req[u].cached \in Nat /\ req[u].dev \in Nat /\ Len(text[u]) \in Nat
      BY DEF Lengths, Requests
    <3>3. /\ req[u].cached <= req[u].dev /\ req[u].dev <= Len(text[u])
          /\ req[u].handle <= Len(text[u])
      BY <3>1 DEF Lengths
    <3>4. QED
      BY <3>1, <3>2, <3>3, <1>2
  <2>2. /\ c \in Requests /\ c.cached \in Nat /\ c.host \in Nat /\ c.cached <= Len(text[u])
        /\ c.dev = r.dev
    <3>1. r.cached \in Nat /\ r.host \in Nat /\ Len(text[u]) \in Nat
      BY DEF Requests, Lengths
    <3>2. c.cached = Least(r.cached, r.host) /\ c.host = r.host
      BY DEF Clamped, Requests
    <3>3. Least(r.cached, r.host) \in Nat /\ Least(r.cached, r.host) <= r.cached
      BY <3>1 DEF Least
    <3>4. c \in Requests /\ c.dev = r.dev
      BY <3>3 DEF Clamped, Requests
    <3>5. QED
      BY <2>1, <3>1, <3>2, <3>3, <3>4
  <2> HIDE DEF c
  <2>3. /\ tree' = InsertTree(u, c)
        /\ ref' = Unlocked(InsertRefs(u, c), old)
        /\ req' = [req EXCEPT ![u] = [c EXCEPT !.held = FALSE]]
    BY <1>2 DEF FreeResources, c
  <2>4. /\ req' \in [Uids -> Requests] /\ req'[u].held = FALSE /\ req'[u].dev = r.dev
        /\ \A v \in Uids : v # u => req'[v] = req[v]
    BY <2>2, <2>3 DEF Lengths, Requests
  <2>5. /\ DOMAIN tree' = DOMAIN tree \cup PathOf(ids)
        /\ DOMAIN InsertRefs(u, c) = DOMAIN tree \cup PathOf(ids)
        /\ \A p \in DOMAIN InsertRefs(u, c) :
               InsertRefs(u, c)[p] = IF p \in DOMAIN ref THEN ref[p] ELSE 0
        /\ \A p \in DOMAIN tree \cup PathOf(ids) :
               p \in Seq(Nat) /\ PathOf(p) \subseteq DOMAIN tree \cup PathOf(ids)
    BY <2>2, <2>3, Inserted
  <2> HIDE DEF ids
  <2>6. DOMAIN ref' = DOMAIN tree \cup PathOf(ids)
    BY <2>3, <2>5 DEF Unlocked
  <2>7. TreeClosed'
    <3>1. \A p \in DOMAIN tree' : p \in Seq(Nat) /\ PathOf(p) \subseteq DOMAIN tree'
      BY <2>5
    <3>2. QED
      BY <2>5, <2>6, <3>1 DEF TreeClosed, PathOf
  <2>8. \A p : Reads(u, p) <=> p \in PathOf(old)
    BY <1>2 DEF Reads
  <2>9. \A p : ~ Reads(u, p)'
    BY <2>4 DEF Reads
  <2>10. ASSUME NEW v \in Uids, v # u PROVE \A p : Reads(v, p)' <=> Reads(v, p)
    <3>1. req'[v] = req[v]
      BY <2>4, <2>10
    <3>2. QED
      BY <3>1, ReadsKept DEF FirstTokens
  <2>11. ASSUME NEW p \in DOMAIN ref'
         PROVE  ref'[p] = (IF p \in DOMAIN ref THEN ref[p] ELSE 0)
                          + (IF Reads(u, p)' THEN 1 ELSE 0) - (IF Reads(u, p) THEN 1 ELSE 0)
    <3>1. ref'[p] = InsertRefs(u, c)[p] - (IF p \in PathOf(old) THEN 1 ELSE 0)
      BY <2>3, <2>5, <2>6 DEF Unlocked
    <3>2. (IF p \in DOMAIN ref THEN ref[p] ELSE 0) \in Int
      <4>1. p \in DOMAIN ref => ref[p] \in Nat
        <5>1. Readers(p) \in SUBSET Uids
          BY DEF Readers
        <5>2. Cardinality(Readers(p)) \in Nat
          BY <5>1, CardMove
        <5>3. QED
          BY <5>2 DEF RefsCount
      <4>2. QED
        BY <4>1
    <3>3. QED
      BY <3>1, <3>2, <2>5, <2>6, <2>8, <2>9
  <2>12. DOMAIN ref \subseteq DOMAIN ref'
    BY <2>6 DEF TreeClosed
  <2>13. RefsCount'
    BY <2>9, <2>10, <2>11, <2>12, RefsMove
  <2>14. QED
    BY <2>4, <2>7, <2>13
<1>3. QED
  <2>1. r.held \in BOOLEAN
    BY DEF Requests
  <2>2. QED
    BY <1>1, <1>2, <2>1

(* A commit moves the lock of a request to the prefix it has computed.     *)
LEMMA Committed ==
  ASSUME LocksInv, NEW u \in Uids, NEW r \in Requests,
         r.held, req[u].held, r.handle = req[u].handle, r.cached = req[u].cached,
         CommitPrefix(u, r), text' = text
  PROVE  /\ TreeClosed' /\ RefsCount' /\ req' \in [Uids -> Requests]
         /\ req'[u].held /\ req'[u].dev = r.dev /\ req'[u].cached = r.cached
         /\ req'[u].handle <= Len(text[u])
         /\ \A v \in Uids : v # u => req'[v] = req[v]
<1> USE DEF LocksInv
<1> DEFINE ids == InsertIds(u, r)
           old == FirstTokens(u, r.handle)
<1>1. /\ r.cached \in Nat /\ r.host \in Nat /\ r.cached <= Len(text[u])
      /\ r.handle <= Len(text[u]) /\ Len(text[u]) \in Nat
  BY DEF Lengths, Live, Requests
<1>2. /\ tree' = InsertTree(u, r)
      /\ ref' = Locked(Unlocked(InsertRefs(u, r), old), ids)
      /\ req' = [req EXCEPT ![u] = [r EXCEPT !.handle = Len(ids)]]
  BY DEF CommitPrefix, CommitRefs
<1>3. /\ ids \in Seq(Nat) /\ Len(ids) \in 0 .. Len(text[u])
      /\ FirstTokens(u, Len(ids)) = ids
      /\ DOMAIN tree' = DOMAIN tree \cup PathOf(ids)
      /\ DOMAIN InsertRefs(u, r) = DOMAIN tree \cup PathOf(ids)
      /\ \A p \in DOMAIN InsertRefs(u, r) :
             InsertRefs(u, r)[p] = IF p \in DOMAIN ref THEN ref[p] ELSE 0
      /\ \A p \in DOMAIN tree \cup PathOf(ids) :
             p \in Seq(Nat) /\ PathOf(p) \subseteq DOMAIN tree \cup PathOf(ids)
  BY <1>1, <1>2, Inserted
<1> HIDE DEF ids
<1>4. Len(ids) \in Nat /\ Len(ids) <= Len(text[u])
  BY <1>1, <1>3
<1>5. /\ req' \in [Uids -> Requests] /\ req'[u].held /\ req'[u].dev = r.dev
      /\ req'[u].cached = r.cached /\ req'[u].handle = Len(ids)
      /\ \A v \in Uids : v # u => req'[v] = req[v]
  BY <1>2, <1>4 DEF Lengths, Requests
<1>6. DOMAIN ref' = DOMAIN tree \cup PathOf(ids)
  BY <1>2, <1>3 DEF Locked, Unlocked
<1>7. TreeClosed'
  <2>1. \A p \in DOMAIN tree' : p \in Seq(Nat) /\ PathOf(p) \subseteq DOMAIN tree'
    BY <1>3
  <2>2. QED
    BY <1>3, <1>6, <2>1 DEF TreeClosed, PathOf
<1>8. \A p : Reads(u, p) <=> p \in PathOf(old)
  BY DEF Reads
<1>9. \A p : Reads(u, p)' <=> p \in PathOf(ids)
  <2>1. FirstTokens(u, req[u].handle)' = ids
    BY <1>3, <1>5 DEF FirstTokens
  <2>2. QED
    BY <2>1, <1>5 DEF Reads, PathOf
<1>10. ASSUME NEW v \in Uids, v # u PROVE \A p : Reads(v, p)' <=> Reads(v, p)
  <2>1. req'[v] = req[v]
    BY <1>5, <1>10
  <2>2. QED
    BY <2>1, ReadsKept DEF FirstTokens
<1>11. ASSUME NEW p \in DOMAIN ref'
       PROVE  ref'[p] = (IF p \in DOMAIN ref THEN ref[p] ELSE 0)
                        + (IF Reads(u, p)' THEN 1 ELSE 0) - (IF Reads(u, p) THEN 1 ELSE 0)
  <2>1. ref'[p] = InsertRefs(u, r)[p] - (IF p \in PathOf(old) THEN 1 ELSE 0)
                                      + (IF p \in PathOf(ids) THEN 1 ELSE 0)
    BY <1>2, <1>3, <1>6 DEF Locked, Unlocked
  <2>2. (IF p \in DOMAIN ref THEN ref[p] ELSE 0) \in Int
    <3>1. Readers(p) \in SUBSET Uids
      BY DEF Readers
    <3>2. Cardinality(Readers(p)) \in Nat
      BY <3>1, CardMove
    <3>3. QED
      BY <3>2 DEF RefsCount
  <2>3. QED
    BY <2>1, <2>2, <1>3, <1>6, <1>8, <1>9
<1>12. DOMAIN ref \subseteq DOMAIN ref' /\ \A p : Reads(u, p)' => p \in DOMAIN ref'
  BY <1>6, <1>9 DEF TreeClosed
<1>13. RefsCount'
  BY <1>10, <1>11, <1>12, RefsMove
<1>14. QED
  BY <1>4, <1>5, <1>7, <1>13

(* Lengths survive a step that computes nothing.                           *)
LEMMA LengthsKept ==
  ASSUME Lengths, text' = text, job' = job,
         adder'.budget \in Int, adder'.chunks \subseteq adder.chunks,
         \A u \in adder'.chunks : In(adder'.reqs, u),
         \A u \in Uids : In(pending', u) => In(pending, u),
         req' \in [Uids -> Requests],
         \A u \in Uids : req'[u].dev = req[u].dev,
         \A u \in Uids : req'[u].held => /\ req[u].held /\ req'[u].cached = req[u].cached
                                         /\ req'[u].handle <= Len(text[u])
  PROVE  Lengths'
<1>1. ASSUME NEW u \in Live'
      PROVE  /\ job[u].state = "accepted"
             /\ req'[u].handle <= Len(text[u])
             /\ req'[u].cached <= req'[u].dev /\ req'[u].dev <= Len(text[u])
             /\ In(pending', u) => req'[u].dev <= job[u].plen
  <2>1. u \in Uids /\ req'[u].held /\ u \in Live
    BY DEF Live
  <2>2. QED
    BY <2>1 DEF Lengths
<1>2. \A u \in adder'.chunks : u \in Uids /\ In(adder'.reqs, u) /\ req'[u].dev < job[u].plen
  BY DEF Lengths
<1>3. /\ text \in [Uids -> Seq(Nat)]
      /\ \A u \in Uids : job[u].state = "accepted" => job[u].plen \in 1 .. Len(text[u])
  BY DEF Lengths
<1>4. QED
  BY <1>1, <1>2, <1>3 DEF Lengths

(* A step that leaves requests and cache alone.                            *)
LEMMA LocksIdle ==
  ASSUME LocksInv, Asked, text' = text, req' = req, tree' = tree, ref' = ref,
         adder'.budget \in Int, adder'.chunks \subseteq adder.chunks,
         \A u \in adder'.chunks : In(adder'.reqs, u),
         \A u \in Uids : In(pending', u) => In(pending, u),
         \A u \in Uids : job'[u] = job[u] \/ (job[u].state = "none" /\ job'[u].state # "accepted")
  PROVE  LocksInv'
<1>1. Lengths'
  <2>1. \A u \in Uids : job'[u].state = "accepted" \/ job[u].state = "accepted" => job'[u] = job[u]
    OBVIOUS
  <2>2. ASSUME NEW u \in Live'
        PROVE  /\ job'[u].state = "accepted"
               /\ req[u].handle <= Len(text[u])
               /\ req[u].cached <= req[u].dev /\ req[u].dev <= Len(text[u])
               /\ In(pending', u) => req[u].dev <= job'[u].plen
    <3>1. u \in Uids /\ u \in Live
      BY DEF Live
    <3>2. QED
      BY <2>1, <3>1 DEF LocksInv, Lengths
  <2>3. ASSUME NEW u \in adder'.chunks
        PROVE  u \in Uids /\ In(adder'.reqs, u) /\ req[u].dev < job'[u].plen
    <3>1. u \in Uids /\ In(adder.reqs, u) /\ req[u].dev < job[u].plen
      BY DEF LocksInv, Lengths
    <3>2. job'[u] = job[u]
      BY <2>1, <3>1 DEF Asked, Working
    <3>3. QED
      BY <3>1, <3>2
  <2>4. /\ text \in [Uids -> Seq(Nat)] /\ req \in [Uids -> Requests]
        /\ \A u \in Uids : job'[u].state = "accepted" => job'[u].plen \in 1 .. Len(text[u])
    BY <2>1 DEF LocksInv, Lengths
  <2>5. QED
    BY <2>2, <2>3, <2>4 DEF Lengths
<1>2. \A v \in Uids : \A p : Reads(v, p)' <=> Reads(v, p)
  BY DEF Reads, FirstTokens, PathOf
<1>3. QED
  BY <1>1, <1>2, RefsStay DEF LocksInv

(* A new request holds nothing yet.                                        *)
LEMMA LocksReceive ==
  ASSUME ReplyInv, LocksInv, NEW u \in Uids,
         \/ UserDropped(u) \/ \E p \in Prompts : UserTooLong(u, p)
         \/ \E p \in Prompts, m \in MaxTokens : UserAccepted(u, p, m)
  PROVE  LocksInv'
<1>1. /\ UNCHANGED <<adder, req, tree, ref>> /\ job[u].state = "none"
      /\ adder.budget \in Int /\ \A v \in adder.chunks : In(adder.reqs, v)
  BY DEF UserDropped, UserTooLong, UserAccepted, LocksInv, Lengths
<1>2. job \in [Uids -> [plen : Nat, out : Nat,
                        state : {"none", "dropped", "refused", "accepted"}]]
  BY DEF ReplyInv, Shapes
<1>3. CASE UserDropped(u) \/ \E p \in Prompts : UserTooLong(u, p)
  <2>1. UNCHANGED <<text, pending>>
    BY <1>3 DEF UserDropped, UserTooLong
  <2>2. PICK k \in {"dropped", "refused"} : job' = [job EXCEPT ![u].state = k]
    BY <1>3 DEF UserDropped, UserTooLong
  <2>3. \A v \in Uids : job'[v] = job[v] \/ (job[v].state = "none" /\ job'[v].state # "accepted")
    BY <1>1, <1>2, <2>2
  <2>4. Asked
    BY DEF ReplyInv
  <2>5. QED
    BY <1>1, <2>1, <2>3, <2>4, LocksIdle
<1>4. ASSUME NEW p \in Prompts, NEW m \in MaxTokens, UserAccepted(u, p, m)
      PROVE  LocksInv'
  <2>1. /\ job' = [job EXCEPT ![u] = [plen |-> Len(p), state |-> "accepted",
                                      out |-> Least(m, MaxSeqLen - Len(p))]]
        /\ text' = [text EXCEPT ![u] = p]
        /\ pending' = Append(pending, u)
    BY <1>4 DEF UserAccepted
  <2>2. p \in Seq(Nat) /\ Len(p) \in 1 .. Len(p)
    BY SchedulerConstants
  <2>3. ~ req[u].held /\ ~ In(adder.reqs, u)
    BY <1>1 DEF LocksInv, Lengths, Live, ReplyInv, Asked, Working
  <2>4. /\ \A v \in Uids : v # u => text'[v] = text[v] /\ job'[v] = job[v]
        /\ text'[u] = p /\ job'[u].plen = Len(p) /\ text' \in [Uids -> Seq(Nat)]
    BY <1>2, <2>1, <2>2 DEF LocksInv, Lengths
  <2>5. \A v : In(pending', v) <=> In(pending, v) \/ v = u
    BY <2>1, InAppended DEF ReplyInv, Shapes
  <2>6. Lengths'
    <3>1. ASSUME NEW v \in Live'
          PROVE  /\ job'[v].state = "accepted"
                 /\ req[v].handle <= Len(text'[v])
                 /\ req[v].cached <= req[v].dev /\ req[v].dev <= Len(text'[v])
                 /\ In(pending', v) => req[v].dev <= job'[v].plen
      <4>1. v \in Uids /\ v \in Live /\ v # u
        BY <1>1, <2>3 DEF Live
      <4>2. QED
        BY <4>1, <2>4, <2>5 DEF LocksInv, Lengths
    <3>2. \A v \in Uids : job'[v].state = "accepted" => job'[v].plen \in 1 .. Len(text'[v])
      BY <2>2, <2>4 DEF LocksInv, Lengths
    <3>3. \A v \in adder.chunks : v \in Uids /\ In(adder.reqs, v) /\ req[v].dev < job'[v].plen
      BY <2>3, <2>4 DEF LocksInv, Lengths
    <3>4. QED
      BY <1>1, <2>4, <3>1, <3>2, <3>3 DEF LocksInv, Lengths
  <2>7. ASSUME NEW v \in Uids PROVE \A q : Reads(v, q)' <=> Reads(v, q)
    <3>1. req[v].held => FirstTokens(v, req[v].handle)' = FirstTokens(v, req[v].handle)
      BY <1>1, <2>3, <2>4 DEF FirstTokens
    <3>2. QED
      BY <1>1, <3>1, ReadsKept
  <2>8. QED
    BY <1>1, <2>6, <2>7, RefsStay DEF LocksInv
<1>5. QED
  BY <1>3, <1>4

(* An abort gives the lock back, or leaves it to the drain.                *)
LEMMA LocksAbort ==
  ASSUME ReplyInv, LocksInv, NEW u \in Uids, Abort(u)
  PROVE  LocksInv'
<1>1. /\ UNCHANGED <<text, job, adder>> /\ pending' = Keep(pending, Uids \ {u})
      /\ pending \in Seq(Uids) /\ adder.budget \in Int
      /\ \A v \in adder.chunks : In(adder.reqs, v)
  BY DEF Abort, ReplyInv, Shapes, LocksInv, Lengths
<1>2. \A v \in Uids : In(pending', v) => In(pending, v)
  BY <1>1, KeepKeeps
<1>3. req \in [Uids -> Requests] /\ req[u] \in Requests
  BY DEF LocksInv, Lengths
<1>4. CASE AbortFinds(u) /\ ~ InFlight(u)
  <2>1. FreeResources(u, req[u])
    BY <1>4 DEF Abort
  <2>2. /\ TreeClosed' /\ RefsCount' /\ req' \in [Uids -> Requests]
        /\ req'[u].held = FALSE /\ req'[u].dev = req[u].dev
        /\ \A v \in Uids : v # u => req'[v] = req[v]
    BY <1>1, <1>3, <2>1, Released
  <2>3. \A v \in Uids : req'[v].held => req'[v] = req[v]
    BY <2>2
  <2>4. \A v \in Uids : req[v].held => req[v].handle <= Len(text[v])
    BY DEF LocksInv, Lengths, Live
  <2>5. Lengths'
    BY <1>1, <1>2, <2>2, <2>3, <2>4, LengthsKept DEF LocksInv
  <2>6. QED
    BY <2>2, <2>5 DEF LocksInv
<1>5. CASE ~ (AbortFinds(u) /\ ~ InFlight(u))
  <2>1. /\ req' = [req EXCEPT ![u].aborted = @ \/ AbortFinds(u)]
        /\ tree' = tree /\ ref' = ref
    BY <1>5 DEF Abort
  <2>2. AbortFinds(u) \in BOOLEAN
    BY <1>3 DEF AbortFinds, Requests
  <2>3. /\ req' \in [Uids -> Requests]
        /\ \A v \in Uids : /\ req'[v].held = req[v].held /\ req'[v].handle = req[v].handle
                           /\ req'[v].cached = req[v].cached /\ req'[v].dev = req[v].dev
    <3> DEFINE b == req[u].aborted \/ AbortFinds(u)
    <3>1. b \in BOOLEAN
      BY <2>2, <1>3 DEF Requests
    <3> HIDE DEF b
    <3>2. req' = [req EXCEPT ![u].aborted = b]
      BY <2>1 DEF b
    <3>3. QED
      BY <1>3, <3>1, <3>2 DEF Requests
  <2>4. \A v \in Uids : req[v].held => req[v].handle <= Len(text[v])
    BY DEF LocksInv, Lengths, Live
  <2>5. Lengths'
    BY <1>1, <1>2, <2>3, <2>4, LengthsKept DEF LocksInv
  <2>6. ASSUME NEW v \in Uids PROVE \A p : Reads(v, p)' <=> Reads(v, p)
    BY <1>1, <2>3, ReadsKept DEF FirstTokens
  <2>7. QED
    BY <2>1, <2>5, <2>6, RefsStay DEF LocksInv
<1>6. QED
  BY <1>4, <1>5

(* An admission computes a part of the prompt that is still missing.       *)
LEMMA LengthsAdmit ==
  ASSUME ReplyInv, Lengths, NEW u \in Uids, Admitting(u),
         NEW start \in Nat, NEW handle \in Nat, NEW owned \in Nat,
         start <= job[u].plen, handle <= Len(text[u]),
         AddOneReq(u, start, handle, owned),
         UNCHANGED <<text, job, pending>>
  PROVE  /\ Lengths' /\ req'[u].held /\ req'[u].handle = handle
         /\ \A v \in Uids : v # u => req'[v] = req[v]
<1> DEFINE chunk == Least(adder.budget, job[u].plen - start)
           part == start + chunk < job[u].plen
<1>1. /\ pc = "admit" /\ In(pending, u) /\ ~ In(adder.reqs, u) /\ adder.budget > 0
      /\ job[u].state = "accepted" /\ adder.budget \in Int
  <2>1. /\ pc = "admit" /\ adder.index <= Len(pending) /\ u = pending[adder.index]
        /\ adder.budget > 0
    BY DEF Admitting
  <2>2. /\ adder.index = Len(adder.reqs) + 1 /\ Len(adder.reqs) \in Nat /\ Len(pending) \in Nat
        /\ \A k \in 1 .. Len(adder.reqs) : adder.reqs[k] = pending[k]
    <3>1. adder.reqs \in Seq(Uids) /\ pending \in Seq(Uids)
      BY DEF ReplyInv, Shapes
    <3>2. adder.index = Len(adder.reqs) + 1
          /\ \A k \in 1 .. Len(adder.reqs) : adder.reqs[k] = pending[k]
      BY <2>1 DEF ReplyInv, Phases
    <3>3. QED
      BY <3>1, <3>2
  <2>3. adder.index \in 1 .. Len(pending) /\ adder.index \notin 1 .. Len(adder.reqs)
        /\ \A k \in 1 .. Len(adder.reqs) : k \in 1 .. Len(pending)
    BY <2>1, <2>2
  <2>4. In(pending, u) /\ ~ In(adder.reqs, u)
    BY <2>1, <2>2, <2>3 DEF In, ReplyInv, Distinct, Once
  <2>5. QED
    BY <2>1, <2>4 DEF ReplyInv, Asked, Working, Lengths
<1>2. /\ job[u].plen \in Nat /\ Len(text[u]) \in Nat /\ job[u].plen <= Len(text[u])
      /\ chunk \in Nat /\ chunk <= job[u].plen - start
      /\ start + chunk \in Nat /\ start + chunk <= job[u].plen
  <2>1. text[u] \in Seq(Nat)
    BY DEF Lengths
  <2>2. job[u].plen \in Nat /\ job[u].plen <= Len(text[u]) /\ Len(text[u]) \in Nat
    BY <1>1, <2>1 DEF Lengths
  <2>3. QED
    BY <1>1, <2>2 DEF Least
<1>3. /\ req' = [req EXCEPT ![u] =
                     [cached |-> start, dev |-> start + chunk,
                      alloc |-> Most(start, owned), host |-> start + chunk,
                      handle |-> handle, chunked |-> part, aborted |-> FALSE,
                      held |-> TRUE]]
      /\ adder' = [adder EXCEPT
             !.index = @ + 1, !.budget = @ - chunk,
             !.reserved = @ + (job[u].plen - start + job[u].out),
             !.reqs = Append(@, u),
             !.chunks = IF part THEN @ \cup {u} ELSE @]
  BY DEF AddOneReq
<1> HIDE DEF chunk
<1>4. Most(start, owned) \in Nat /\ part \in BOOLEAN
  BY DEF Most
<1>5. /\ req' \in [Uids -> Requests]
      /\ req'[u].held /\ req'[u].handle = handle
      /\ req'[u].cached = start /\ req'[u].dev = start + chunk
      /\ \A v \in Uids : v # u => req'[v] = req[v]
  BY <1>2, <1>3, <1>4 DEF Lengths, Requests
<1>6. /\ adder'.budget = adder.budget - chunk /\ adder'.reqs = Append(adder.reqs, u)
      /\ adder'.chunks = IF part THEN adder.chunks \cup {u} ELSE adder.chunks
  <2> DEFINE owed == job[u].plen - start + job[u].out
             more == IF part THEN adder.chunks \cup {u} ELSE adder.chunks
  <2>1. adder = [index |-> adder.index, budget |-> adder.budget,
                 reserved |-> adder.reserved, reqs |-> adder.reqs, chunks |-> adder.chunks]
    BY DEF ReplyInv, Shapes
  <2>2. adder' = [adder EXCEPT !.index = @ + 1, !.budget = @ - chunk,
                               !.reserved = @ + owed, !.reqs = Append(@, u), !.chunks = more]
    BY <1>3
  <2> HIDE DEF owed, more
  <2>3. adder' = [index |-> adder.index + 1, budget |-> adder.budget - chunk,
                  reserved |-> adder.reserved + owed, reqs |-> Append(adder.reqs, u),
                  chunks |-> more]
    BY <2>1, <2>2
  <2>4. QED
    BY <2>3 DEF more
<1>7. \A v : In(adder'.reqs, v) <=> In(adder.reqs, v) \/ v = u
  BY <1>6, InAppended DEF ReplyInv, Shapes
<1>8. ASSUME NEW v \in adder'.chunks
      PROVE  v \in Uids /\ In(adder'.reqs, v) /\ req'[v].dev < job[v].plen
  <2>1. CASE v = u
    <3>1. v \notin adder.chunks
      BY <2>1, <1>1 DEF Lengths
    <3>2. part
      BY <3>1, <1>6
    <3>3. QED
      BY <2>1, <3>2, <1>5, <1>7
  <2>2. CASE v # u
    <3>1. v \in adder.chunks
      BY <2>2, <1>6
    <3>2. v \in Uids /\ In(adder.reqs, v) /\ req[v].dev < job[v].plen
      BY <3>1 DEF Lengths
    <3>3. QED
      BY <2>2, <3>2, <1>5, <1>7
  <2>3. QED
    BY <2>1, <2>2
<1>9. ASSUME NEW v \in Live'
      PROVE  /\ job[v].state = "accepted"
             /\ req'[v].handle <= Len(text[v])
             /\ req'[v].cached <= req'[v].dev /\ req'[v].dev <= Len(text[v])
             /\ In(pending, v) => req'[v].dev <= job[v].plen
  <2>1. CASE v = u
    BY <2>1, <1>1, <1>2, <1>5
  <2>2. CASE v # u
    <3>1. v \in Uids /\ v \in Live /\ req'[v] = req[v]
      BY <2>2, <1>5 DEF Live
    <3>2. QED
      BY <3>1 DEF Lengths
  <2>3. QED
    BY <2>1, <2>2
<1>10. adder'.budget \in Int
  BY <1>1, <1>2, <1>6
<1>11. Lengths'
  BY <1>5, <1>8, <1>9, <1>10 DEF Lengths
<1>12. QED
  BY <1>5, <1>11

(* A fresh admission locks the prefix that the cache holds of the prompt.  *)
LEMMA LocksAdmit ==
  ASSUME ReplyInv, LocksInv, NEW u \in Uids, AdmitContinuation(u) \/ AdmitFresh(u)
  PROVE  LocksInv'
<1>1. /\ UNCHANGED <<text, job, pending, tree>> /\ Admitting(u)
  BY DEF AdmitContinuation, AdmitFresh, managers, inbox, cache
<1>2. /\ job[u].state = "accepted" /\ In(pending, u)
      /\ text[u] \in Seq(Nat) /\ job[u].plen \in 1 .. Len(text[u]) /\ req[u] \in Requests
  <2>1. pc = "admit" /\ adder.index <= Len(pending) /\ u = pending[adder.index]
    BY <1>1 DEF Admitting
  <2>2. adder.index = Len(adder.reqs) + 1 /\ Len(adder.reqs) \in Nat /\ Len(pending) \in Nat
    BY <2>1 DEF ReplyInv, Shapes, Phases
  <2>3. adder.index \in 1 .. Len(pending)
    BY <2>1, <2>2
  <2>4. In(pending, u)
    BY <2>1, <2>3 DEF In
  <2>5. QED
    BY <2>4 DEF ReplyInv, Asked, Working, LocksInv, Lengths
<1>3. CASE AdmitContinuation(u)
  <2>1. /\ req[u].held /\ AddOneReq(u, req[u].cached, req[u].handle, req[u].alloc)
        /\ ref' = ref
    BY <1>3 DEF AdmitContinuation, cache
  <2>2. /\ req[u].cached \in Nat /\ req[u].handle \in Nat /\ req[u].alloc \in Nat
        /\ req[u].cached <= job[u].plen /\ req[u].handle <= Len(text[u])
    <3>1. /\ req[u].cached \in Nat /\ req[u].handle \in Nat /\ req[u].alloc \in Nat
          /\ req[u].dev \in Nat /\ job[u].plen \in Nat
      BY <1>2 DEF Requests
    <3>2. /\ req[u].cached <= req[u].dev /\ req[u].dev <= job[u].plen
          /\ req[u].handle <= Len(text[u])
      BY <1>2, <2>1 DEF LocksInv, Lengths, Live
    <3>3. QED
      BY <3>1, <3>2
  <2>3. /\ Lengths' /\ req'[u].held /\ req'[u].handle = req[u].handle
        /\ \A v \in Uids : v # u => req'[v] = req[v]
    BY <1>1, <2>1, <2>2, LengthsAdmit DEF LocksInv
  <2>4. ASSUME NEW v \in Uids PROVE \A p : Reads(v, p)' <=> Reads(v, p)
    <3>1. req'[v].held = req[v].held /\ (req[v].held => req'[v].handle = req[v].handle)
      <4>1. CASE v = u
        <5>1. req[u].held = TRUE /\ req'[u].held = TRUE
          <6>1. req[u].held \in BOOLEAN /\ req'[u].held \in BOOLEAN
            BY <2>3 DEF LocksInv, Lengths, Requests
          <6>2. QED
            BY <6>1, <2>1, <2>3
        <5>2. QED
          BY <4>1, <5>1, <2>3
      <4>2. CASE v # u
        BY <4>2, <2>3
      <4>3. QED
        BY <4>1, <4>2
    <3>2. QED
      BY <1>1, <3>1, ReadsKept DEF FirstTokens
  <2>5. QED
    BY <1>1, <2>1, <2>3, <2>4, RefsStay DEF LocksInv
<1>4. CASE AdmitFresh(u)
  <2> DEFINE s == FirstTokens(u, job[u].plen - 1)
             n == Match(u)
             new == FirstTokens(u, n)
  <2>1. /\ ~ req[u].held /\ AddOneReq(u, n, n, 0) /\ ref' = Locked(ref, new)
    BY <1>4 DEF AdmitFresh, LockedFor
  <2>2. /\ s \in Seq(Nat) /\ Len(s) = job[u].plen - 1 /\ Len(text[u]) \in Nat
        /\ s = SubSeq(text[u], 1, job[u].plen - 1)
    <3>1. job[u].plen - 1 \in 0 .. Len(text[u]) /\ Len(text[u]) \in Nat
      BY <1>2
    <3>2. QED
      BY <1>2, <3>1, CutCut DEF FirstTokens
  <2>3. n = MatchLen(s)
    BY DEF Match
  <2> HIDE DEF n, s
  <2>4. n \in 0 .. Len(s) /\ PathOf(SubSeq(s, 1, n)) \subseteq DOMAIN tree
    BY <2>2, <2>3, MatchFound DEF LocksInv
  <2>5. n \in Nat /\ n <= job[u].plen /\ n <= Len(text[u]) /\ job[u].plen - 1 \in 0 .. Len(text[u])
    BY <1>2, <2>2, <2>4
  <2>6. SubSeq(s, 1, n) = new
    <3>1. n \in 0 .. job[u].plen - 1
      BY <2>2, <2>4
    <3>2. QED
      BY <1>2, <2>2, <2>5, <3>1, CutCut DEF FirstTokens
  <2> HIDE DEF new
  <2>7. /\ Lengths' /\ req'[u].held /\ req'[u].handle = n
        /\ \A v \in Uids : v # u => req'[v] = req[v]
    BY <1>1, <2>1, <2>5, LengthsAdmit DEF LocksInv
  <2>8. DOMAIN ref' = DOMAIN ref /\ DOMAIN ref = DOMAIN tree
    BY <2>1 DEF Locked, LocksInv, TreeClosed
  <2>9. \A p : ~ Reads(u, p)
    BY <2>1 DEF Reads
  <2>10. \A p : Reads(u, p)' <=> p \in PathOf(new)
    <3>1. FirstTokens(u, req[u].handle)' = new
      BY <1>1, <2>7 DEF FirstTokens, new
    <3>2. QED
      BY <3>1, <2>7 DEF Reads, PathOf
  <2>11. ASSUME NEW v \in Uids, v # u PROVE \A p : Reads(v, p)' <=> Reads(v, p)
    <3>1. req'[v] = req[v]
      BY <2>7, <2>11
    <3>2. QED
      BY <1>1, <3>1, ReadsKept DEF FirstTokens
  <2>12. ASSUME NEW p \in DOMAIN ref'
         PROVE  ref'[p] = (IF p \in DOMAIN ref THEN ref[p] ELSE 0)
                          + (IF Reads(u, p)' THEN 1 ELSE 0) - (IF Reads(u, p) THEN 1 ELSE 0)
    <3>1. ref'[p] = ref[p] + (IF p \in PathOf(new) THEN 1 ELSE 0)
      BY <2>1, <2>8 DEF Locked
    <3>2. ref[p] \in Nat
      <4>1. Readers(p) \in SUBSET Uids
        BY DEF Readers
      <4>2. Cardinality(Readers(p)) \in Nat
        BY <4>1, CardMove
      <4>3. QED
        BY <4>2, <2>8 DEF LocksInv, RefsCount
    <3>3. QED
      BY <3>1, <3>2, <2>8, <2>9, <2>10
  <2>13. \A p : Reads(u, p)' => p \in DOMAIN ref'
    BY <2>4, <2>6, <2>8, <2>10
  <2>14. RefsCount'
    BY <2>8, <2>11, <2>12, <2>13, RefsMove DEF LocksInv
  <2>15. TreeClosed'
    BY <1>1, <2>8 DEF LocksInv, TreeClosed, PathOf
  <2>16. QED
    BY <2>7, <2>14, <2>15 DEF LocksInv
<1>5. QED
  BY <1>3, <1>4

(* What is appended leaves the tokens before it alone.                     *)
LEMMA CutAppended ==
  ASSUME NEW T, NEW s \in Seq(T), NEW e \in T, NEW n \in 0 .. Len(s)
  PROVE  /\ Append(s, e) \in Seq(T) /\ Len(Append(s, e)) = Len(s) + 1
         /\ SubSeq(Append(s, e), 1, n) = SubSeq(s, 1, n)
<1>1. /\ Append(s, e) \in Seq(T) /\ Len(Append(s, e)) = Len(s) + 1
      /\ \A i \in 1 .. Len(s) : Append(s, e)[i] = s[i]
      /\ n <= Len(s) /\ Len(s) \in Nat
  OBVIOUS
<1>2. /\ SubSeq(Append(s, e), 1, n) \in Seq(T) /\ SubSeq(s, 1, n) \in Seq(T)
      /\ Len(SubSeq(Append(s, e), 1, n)) = n /\ Len(SubSeq(s, 1, n)) = n
      /\ \A i \in 1 .. n : /\ SubSeq(Append(s, e), 1, n)[i] = Append(s, e)[i]
                           /\ SubSeq(s, 1, n)[i] = s[i]
  BY <1>1
<1>3. QED
  BY <1>1, <1>2, SeqEqual

(* A launch appends at most the sampled token to a request's text, and     *)
(* moves no handle.                                                        *)
LEMMA TextGrows ==
  ASSUME Lengths, NEW E, NEW tokens \in [Samplers -> Sampled], Launch(E, tokens), NEW u \in Uids
  PROVE  /\ text'[u] \in Seq(Nat) /\ Len(text[u]) \in Nat
         /\ Len(text'[u]) = Len(text[u]) + (IF u \in Samplers THEN 1 ELSE 0)
         /\ \A n \in 0 .. Len(text[u]) : FirstTokens(u, n)' = FirstTokens(u, n)
<1>1. text'[u] = IF u \in Samplers THEN Append(text[u], tokens[u]) ELSE text[u]
  BY DEF Launch
<1>2. text[u] \in Seq(Nat) /\ Len(text[u]) \in Nat
  BY DEF Lengths
<1>3. CASE u \in Samplers
  <2>1. tokens[u] \in Nat
    BY <1>3, SchedulerConstants
  <2>2. /\ Append(text[u], tokens[u]) \in Seq(Nat) /\ Len(Append(text[u], tokens[u])) = Len(text[u]) + 1
        /\ \A n \in 0 .. Len(text[u]) :
             SubSeq(Append(text[u], tokens[u]), 1, n) = SubSeq(text[u], 1, n)
    BY <1>2, <2>1, CutAppended
  <2>3. QED
    BY <1>1, <1>2, <1>3, <2>2 DEF FirstTokens
<1>4. CASE u \notin Samplers
  BY <1>1, <1>2, <1>4 DEF FirstTokens
<1>5. QED
  BY <1>3, <1>4

(* The members of the batch compute one position more, the others none.    *)
LEMMA LaunchComputes ==
  ASSUME Lengths, NEW E, NEW tokens, Launch(E, tokens), NEW u \in Uids
  PROVE  /\ req'[u] \in Requests
         /\ req'[u].held = req[u].held /\ req'[u].handle = req[u].handle
         /\ req'[u].host = req[u].host /\ req'[u].aborted = req[u].aborted
         /\ u \in InBatch => /\ req'[u].cached = req[u].dev /\ req'[u].dev = req[u].dev + 1
                             /\ req'[u].alloc = Most(req[u].alloc, req[u].dev)
         /\ u \notin InBatch => req'[u] = req[u]
<1>1. req'[u] = IF u \in InBatch THEN Completed(u) ELSE req[u]
  BY DEF Launch
<1>2. req[u] \in Requests
  BY DEF Lengths
<1>3. CASE u \in InBatch
  <2> DEFINE a == Most(req[u].alloc, req[u].dev)
  <2>1. a \in Nat /\ req[u].dev + 1 \in Nat
    BY <1>2 DEF Most, Requests
  <2>2. req'[u] = [req[u] EXCEPT !.cached = req[u].dev, !.dev = req[u].dev + 1, !.alloc = a]
    BY <1>1, <1>3 DEF Completed
  <2> HIDE DEF a
  <2>3. /\ req'[u] \in Requests
        /\ req'[u].held = req[u].held /\ req'[u].handle = req[u].handle
        /\ req'[u].host = req[u].host /\ req'[u].aborted = req[u].aborted
        /\ req'[u].cached = req[u].dev /\ req'[u].dev = req[u].dev + 1 /\ req'[u].alloc = a
    BY <1>2, <2>1, <2>2 DEF Requests
  <2>4. QED
    BY <1>3, <2>3 DEF a
<1>4. CASE u \notin InBatch
  BY <1>1, <1>2, <1>4
<1>5. QED
  BY <1>3, <1>4

(* The lengths keep their order: a member either samples the token whose   *)
(* position it will compute next, or has more prompt to compute.           *)
LEMMA LengthsLaunch ==
  ASSUME ReplyInv, Lengths, NEW E, NEW tokens \in [Samplers -> Sampled], Launch(E, tokens)
  PROVE  Lengths'
<1>1. /\ pc = "launch" /\ adder' = NoAdder /\ UNCHANGED <<pending, job>>
  BY DEF Launch, inbox
<1>2. \A u : u \in InBatch /\ In(pending, u) => u \in Batch.chunks
  <2>1. \A u : u \in InBatch => In(Batch.reqs, u)
    BY DEF InBatch, In
  <2>2. QED
    BY <1>1, <2>1, BatchOnce DEF ReplyInv
<1>3. \A u : u \in Batch.chunks => u \in adder.chunks
  BY DEF Batch
<1>4. ASSUME NEW u \in Live'
      PROVE  /\ job[u].state = "accepted"
             /\ req'[u].handle <= Len(text'[u])
             /\ req'[u].cached <= req'[u].dev /\ req'[u].dev <= Len(text'[u])
             /\ In(pending, u) => req'[u].dev <= job[u].plen
  <2>1. u \in Uids /\ req'[u].held
    BY DEF Live
  <2>2. /\ req'[u].held = req[u].held /\ req'[u].handle = req[u].handle
        /\ u \in InBatch => req'[u].cached = req[u].dev /\ req'[u].dev = req[u].dev + 1
        /\ u \notin InBatch => req'[u] = req[u]
    BY <2>1, LaunchComputes
  <2>3. u \in Live
    BY <2>1, <2>2 DEF Live
  <2>4. /\ Len(text[u]) \in Nat
        /\ Len(text'[u]) = Len(text[u]) + (IF u \in Samplers THEN 1 ELSE 0)
    BY <2>1, TextGrows
  <2>5. /\ job[u].state = "accepted" /\ req[u].handle <= Len(text[u])
        /\ req[u].cached <= req[u].dev /\ req[u].dev <= Len(text[u])
        /\ In(pending, u) => req[u].dev <= job[u].plen
        /\ job[u].plen \in 1 .. Len(text[u])
        /\ req[u].dev \in Nat /\ req[u].cached \in Nat /\ req[u].handle \in Nat
    BY <2>1, <2>3 DEF Lengths, Requests
  <2>6. u \in Batch.chunks => req[u].dev < job[u].plen
    BY <1>3 DEF Lengths
  <2>7. u \in InBatch => u \in Samplers \/ u \in Batch.chunks
    BY DEF Samplers
  <2>8. u \in Samplers => u \in InBatch
    BY DEF Samplers
  <2>9. req'[u].cached <= req'[u].dev /\ req'[u].dev <= Len(text'[u])
        /\ req'[u].handle <= Len(text'[u])
    <3>1. CASE u \in Samplers
      BY <3>1, <2>2, <2>4, <2>5, <2>8
    <3>2. CASE u \notin Samplers /\ u \in InBatch
      BY <3>2, <2>2, <2>4, <2>5, <2>6, <2>7
    <3>3. CASE u \notin InBatch
      <4>1. /\ req'[u].cached = req[u].cached /\ req'[u].dev = req[u].dev
            /\ req'[u].handle = req[u].handle
        BY <3>3, <2>2
      <4>2. Len(text'[u]) = Len(text[u])
        <5>1. u \notin Samplers
          BY <3>3, <2>8
        <5>2. QED
          BY <5>1, <2>4
      <4>3. QED
        BY <4>1, <4>2, <2>5
    <3>4. QED
      BY <3>1, <3>2, <3>3
  <2>10. In(pending, u) => req'[u].dev <= job[u].plen
    BY <1>2, <2>2, <2>5, <2>6
  <2>11. QED
    BY <2>5, <2>9, <2>10
<1>5. ASSUME NEW u \in Uids, job[u].state = "accepted"
      PROVE  job[u].plen \in 1 .. Len(text'[u])
  <2>1. /\ Len(text[u]) \in Nat
        /\ Len(text'[u]) = Len(text[u]) + (IF u \in Samplers THEN 1 ELSE 0)
    BY TextGrows
  <2>2. QED
    BY <1>5, <2>1 DEF Lengths
<1>6. text' \in [Uids -> Seq(Nat)]
  <2>1. \A u \in Uids : text'[u] \in Seq(Nat)
    BY TextGrows
  <2>2. text' = [u \in Uids |-> text'[u]]
    BY DEF Launch
  <2>3. QED
    BY <2>1, <2>2
<1>7. req' \in [Uids -> Requests]
  <2>1. \A u \in Uids : req'[u] \in Requests
    BY LaunchComputes
  <2>2. req' = [u \in Uids |-> req'[u]]
    BY DEF Launch
  <2>3. QED
    BY <2>1, <2>2
<1>8. adder'.budget \in Int /\ adder'.chunks = {}
  BY <1>1 DEF NoAdder
<1>9. QED
  BY <1>1, <1>4, <1>5, <1>6, <1>7, <1>8 DEF Lengths

(* A launch may evict, but nothing that a handle covers, and no prefix     *)
(* without its extensions.                                                 *)
LEMMA LocksLaunch ==
  ASSUME ReplyInv, LocksInv, NEW E \in SUBSET DOMAIN tree,
         NEW tokens \in [Samplers -> Sampled], Launch(E, tokens)
  PROVE  LocksInv'
<1>1. Lengths'
  BY LengthsLaunch DEF LocksInv
<1>2. ASSUME NEW v \in Uids PROVE \A p : Reads(v, p)' <=> Reads(v, p)
  <2>1. req'[v].held = req[v].held /\ req'[v].handle = req[v].handle
    BY LaunchComputes DEF LocksInv
  <2>2. req[v].held => FirstTokens(v, req[v].handle)' = FirstTokens(v, req[v].handle)
    <3>1. \A n \in 0 .. Len(text[v]) : FirstTokens(v, n)' = FirstTokens(v, n)
      BY TextGrows DEF LocksInv
    <3>2. req[v].held => req[v].handle \in 0 .. Len(text[v])
      <4>1. req[v].handle \in Nat /\ text[v] \in Seq(Nat)
        BY DEF LocksInv, Lengths, Requests
      <4>2. req[v].held => req[v].handle <= Len(text[v])
        BY DEF LocksInv, Lengths, Live
      <4>3. QED
        BY <4>1, <4>2
    <3>3. QED
      BY <2>1, <3>1, <3>2 DEF FirstTokens
  <2>3. QED
    BY <2>1, <2>2, ReadsKept
<1>3. /\ tree' = [p \in DOMAIN tree \ E |-> tree[p]]
      /\ ref' = [p \in DOMAIN ref \ E |-> ref[p]]
      /\ \A p \in E : /\ ref[p] = 0
                      /\ \A q \in DOMAIN tree : IsPrefix(p, q) => q \in E
  BY DEF Launch, Evict, Evictions, Evictable
<1>4. DOMAIN tree = DOMAIN ref /\ \A p \in DOMAIN tree : p \in Seq(Nat) /\ PathOf(p) \subseteq DOMAIN tree
  BY DEF LocksInv, TreeClosed
<1>5. RefsCount'
  <2>1. \A p : Readers(p)' = Readers(p)
    BY <1>2 DEF Readers
  <2>2. \A p \in DOMAIN ref' : ref'[p] = Cardinality(Readers(p)')
    BY <1>3, <2>1 DEF LocksInv, RefsCount
  <2>3. ASSUME NEW u \in Uids, NEW p, Reads(u, p) PROVE p \in DOMAIN ref'
    <3>1. p \in DOMAIN ref /\ ref[p] = Cardinality(Readers(p))
      BY <2>3 DEF LocksInv, RefsCount
    <3>2. Readers(p) \subseteq Uids /\ u \in Readers(p)
      BY <2>3 DEF Readers
    <3>3. Cardinality(Readers(p)) # 0
      <4>1. IsFiniteSet(Readers(p))
        BY <3>2, SchedulerConstants, FS_Subset
      <4>2. QED
        BY <3>2, <4>1, FS_EmptySet
    <3>4. QED
      BY <1>3, <3>1, <3>3
  <2>4. QED
    BY <1>2, <2>2, <2>3 DEF RefsCount
<1>6. TreeClosed'
  <2>1. DOMAIN tree' = DOMAIN tree \ E /\ DOMAIN ref' = DOMAIN tree \ E
    BY <1>3, <1>4
  <2>2. ASSUME NEW p \in DOMAIN tree \ E, NEW q \in PathOf(p)
        PROVE  q \in DOMAIN tree \ E
    <3>1. p \in Seq(Nat) /\ q \in DOMAIN tree
      BY <1>4
    <3>2. q \in Seq(Nat) /\ Len(q) \in 1 .. Len(p) /\ q = SubSeq(p, 1, Len(q))
      BY <3>1, PathOn
    <3>3. SubSeq(q, 1, Len(q)) = q
      BY <3>2
    <3>4. IsPrefix(q, p)
      BY <3>2, <3>3 DEF IsPrefix
    <3>5. QED
      BY <1>3, <3>1, <3>4
  <2>3. \A p \in DOMAIN tree' : PathOf(p)' = PathOf(p)
    BY DEF PathOf
  <2>4. QED
    BY <1>4, <2>1, <2>2, <2>3 DEF TreeClosed
<1>7. QED
  BY <1>1, <1>5, <1>6 DEF LocksInv

(* The results of a batch move a handle, or take it away.                  *)
LEMMA LocksDrain ==
  ASSUME ReplyInv, LocksInv, NEW u \in Uids,
         \/ DrainChunk(u) \/ DrainAborted(u) \/ DrainSurplus(u)
         \/ DrainFinal(u) \/ DrainToken(u)
  PROVE  LocksInv'
<1>1. UNCHANGED <<text, job, pending, adder>> /\ pc = "drain"
  BY DEF DrainChunk, DrainAborted, DrainSurplus, DrainFinal, DrainToken, Emits, Draining,
         managers, inbox
<1>2. /\ adder'.budget \in Int /\ adder'.chunks \subseteq adder.chunks
      /\ \A v \in adder'.chunks : In(adder'.reqs, v)
      /\ \A v \in Uids : In(pending', v) => In(pending, v)
  BY <1>1 DEF LocksInv, Lengths
<1>3. req[u] \in Requests /\ req \in [Uids -> Requests]
  BY DEF LocksInv, Lengths
<1>4. /\ Appended(u) \in Requests /\ Appended(u).held = req[u].held
      /\ Appended(u).handle = req[u].handle /\ Appended(u).cached = req[u].cached
      /\ Appended(u).dev = req[u].dev
  BY <1>3 DEF Appended, Requests
<1>5. \A v \in Uids : req[v].held => req[v].handle <= Len(text[v])
  BY DEF LocksInv, Lengths, Live
<1>6. ASSUME NEW r \in Requests, r.held = req[u].held, r.handle = req[u].handle,
             r.cached = req[u].cached, r.dev = req[u].dev, FreeResources(u, r)
      PROVE  LocksInv'
  <2>1. /\ TreeClosed' /\ RefsCount' /\ req' \in [Uids -> Requests]
        /\ req'[u].held = FALSE /\ req'[u].dev = req[u].dev
        /\ \A v \in Uids : v # u => req'[v] = req[v]
    BY <1>1, <1>6, Released
  <2>2. \A v \in Uids : req'[v].held => req'[v] = req[v]
    BY <2>1
  <2>3. Lengths'
    BY <1>1, <1>2, <1>5, <2>1, <2>2, LengthsKept DEF LocksInv
  <2>4. QED
    BY <2>1, <2>3 DEF LocksInv
<1>7. CASE req' = req /\ tree' = tree /\ ref' = ref
  BY <1>1, <1>2, <1>7, LocksIdle DEF ReplyInv
<1>8. CASE DrainChunk(u) \/ DrainAborted(u) \/ DrainSurplus(u)
  <2>1. \/ FreeResources(u, req[u])
        \/ req' = req /\ tree' = tree /\ ref' = ref
    BY <1>8 DEF DrainChunk, DrainAborted, DrainSurplus, cache
  <2>2. QED
    BY <1>3, <1>6, <1>7, <2>1
<1>9. CASE DrainFinal(u)
  BY <1>4, <1>6, <1>9 DEF DrainFinal
<1>10. CASE DrainToken(u)
  <2>1. CASE last.phase = "prefill" /\ req[u].held
    <3>1. CommitPrefix(u, Appended(u))
      BY <1>10, <2>1 DEF DrainToken
    <3>2. /\ TreeClosed' /\ RefsCount' /\ req' \in [Uids -> Requests]
          /\ req'[u].held /\ req'[u].dev = req[u].dev /\ req'[u].cached = req[u].cached
          /\ req'[u].handle <= Len(text[u])
          /\ \A v \in Uids : v # u => req'[v] = req[v]
      BY <1>1, <1>4, <2>1, <3>1, Committed
    <3>3. \A v \in Uids : /\ req'[v].dev = req[v].dev /\ req'[v].cached = req[v].cached
                          /\ req'[v].held => req[v].held /\ req'[v].handle <= Len(text[v])
      BY <1>5, <2>1, <3>2
    <3>4. Lengths'
      BY <1>1, <1>2, <3>2, <3>3, LengthsKept DEF LocksInv
    <3>5. QED
      BY <3>2, <3>4 DEF LocksInv
  <2>2. CASE ~ (last.phase = "prefill" /\ req[u].held)
    <3>1. req' = [req EXCEPT ![u] = Appended(u)] /\ tree' = tree /\ ref' = ref
      BY <1>10, <2>2 DEF DrainToken
    <3>2. /\ req' \in [Uids -> Requests]
          /\ \A v \in Uids : /\ req'[v].held = req[v].held /\ req'[v].handle = req[v].handle
                             /\ req'[v].cached = req[v].cached /\ req'[v].dev = req[v].dev
      BY <1>3, <1>4, <3>1
    <3>3. Lengths'
      BY <1>1, <1>2, <1>5, <3>2, LengthsKept DEF LocksInv
    <3>4. ASSUME NEW v \in Uids PROVE \A p : Reads(v, p)' <=> Reads(v, p)
      BY <1>1, <3>2, ReadsKept DEF FirstTokens
    <3>5. QED
      BY <3>1, <3>3, <3>4, RefsStay DEF LocksInv
  <2>3. QED
    BY <2>1, <2>2
<1>11. QED
  BY <1>8, <1>9, <1>10

(* The other steps of the loop leave requests and cache alone.             *)
LEMMA LocksElse ==
  ASSUME ReplyInv, LocksInv,
         \/ \E b \in 1 .. PrefillBudget : SchedulePrefill(b)
         \/ ScheduleDecode \/ AdmitDone \/ LaunchNothing \/ LaunchAsserts \/ DrainEnd
  PROVE  LocksInv'
<1>1. /\ UNCHANGED <<text, req, tree, ref, job>>
      /\ adder' = adder \/ (adder'.budget \in Int /\ adder'.chunks = {})
  <2>1. CASE \E b \in 1 .. PrefillBudget : SchedulePrefill(b)
    <3>1. PICK b \in 1 .. PrefillBudget : SchedulePrefill(b)
      BY <2>1
    <3>2. adder' = [NoAdder EXCEPT !.index = 1, !.budget = b, !.reserved = inflight_tokens]
      BY <3>1 DEF SchedulePrefill
    <3>3. adder'.budget = b /\ adder'.chunks = {}
      BY <3>2 DEF NoAdder
    <3>4. UNCHANGED <<text, req, tree, ref, job>>
      BY <3>1 DEF SchedulePrefill, cache, inbox
    <3>5. QED
      BY <3>3, <3>4
  <2>2. CASE LaunchNothing
    BY <2>2 DEF LaunchNothing, managers, cache, inbox, NoAdder
  <2>3. CASE ScheduleDecode \/ AdmitDone \/ LaunchAsserts \/ DrainEnd
    BY <2>3 DEF ScheduleDecode, AdmitDone, LaunchAsserts, DrainEnd, managers, cache, inbox
  <2>4. QED
    BY <2>1, <2>2, <2>3
<1>2. /\ adder'.budget \in Int /\ adder'.chunks \subseteq adder.chunks
      /\ \A v \in adder'.chunks : In(adder'.reqs, v)
  BY <1>1 DEF LocksInv, Lengths
<1>3. \A v \in Uids : In(pending', v) => In(pending, v)
  <2>1. CASE AdmitDone
    BY <2>1, PassEnds
  <2>2. CASE ~ AdmitDone
    <3>1. pending' = pending
      BY <2>2 DEF SchedulePrefill, ScheduleDecode, LaunchNothing, LaunchAsserts, DrainEnd, managers
    <3>2. QED
      BY <3>1
  <2>3. QED
    BY <2>1, <2>2
<1>4. QED
  BY <1>1, <1>2, <1>3, LocksIdle DEF ReplyInv

(* Nothing is cached, and nobody reads.                                    *)
LEMMA LocksInit == Init => LocksInv
<1> SUFFICES ASSUME Init PROVE LocksInv
  OBVIOUS
<1>1. /\ job = [u \in Uids |-> NoJob] /\ text = [u \in Uids |-> <<>>]
      /\ req = [u \in Uids |-> NoReq] /\ adder = NoAdder /\ tree = <<>> /\ ref = <<>>
  BY DEF Init
<1>2. NoReq \in Requests /\ NoReq.held = FALSE
  BY DEF NoReq, Requests
<1>3. \A u \in Uids : req[u] = NoReq /\ job[u].state = "none"
  BY <1>1 DEF NoJob
<1>4. Lengths
  <2>1. adder.budget \in Int /\ adder.chunks = {}
    BY <1>1 DEF NoAdder
  <2>2. text \in [Uids -> Seq(Nat)] /\ req \in [Uids -> Requests]
    BY <1>1, <1>2
  <2>3. Live = {}
    BY <1>2, <1>3 DEF Live
  <2>4. QED
    BY <1>3, <2>1, <2>2, <2>3 DEF Lengths
<1>5. DOMAIN tree = {} /\ DOMAIN ref = {}
  BY <1>1
<1>6. TreeClosed
  BY <1>5 DEF TreeClosed
<1>7. RefsCount
  BY <1>2, <1>3, <1>5 DEF RefsCount, Reads
<1>8. QED
  BY <1>4, <1>6, <1>7 DEF LocksInv

(* Every step of the loop keeps the counts.                                *)
LEMMA LocksStep == ReplyInv /\ LocksInv /\ [Next]_vars => LocksInv'
<1> SUFFICES ASSUME ReplyInv, LocksInv, [Next]_vars PROVE LocksInv'
  OBVIOUS
<1>1. CASE Receive
  BY <1>1, LocksReceive, LocksAbort DEF Receive
<1>2. CASE Admit
  BY <1>2, LocksAdmit, LocksElse DEF Admit
<1>3. CASE Dispatch
  BY <1>3, LocksLaunch, LocksElse DEF Dispatch
<1>4. CASE Drain
  BY <1>4, LocksDrain, LocksElse DEF Drain
<1>5. CASE UNCHANGED vars
  <2>1. UNCHANGED <<text, req, tree, ref, job, adder, pending>>
    BY <1>5 DEF vars
  <2>2. QED
    BY <2>1, LocksIdle DEF ReplyInv, LocksInv, Lengths
<1>6. QED
  BY <1>1, <1>2, <1>3, <1>4, <1>5 DEF Next

(* The counts are exact at every moment: lengths, tree and counts together *)
(* are kept by every step of a loop whose requests are in order.           *)
THEOREM LocksInvariant == Spec => []LocksInv
<1>1. Init => LocksInv
  BY LocksInit
<1>2. ReplyInv /\ LocksInv /\ [Next]_vars => LocksInv'
  BY LocksStep
<1>3. QED
  BY <1>1, <1>2, ReplyInvariant, PTL DEF Spec

(* A prefix's reference count is the number of requests whose handle       *)
(* covers it, and what a handle covers stays in the tree: lock at          *)
(* admission, the exchange of locks at a commit, and unlock at finish or   *)
(* abort take each other back exactly, and evict never takes what is read. *)
THEOREM LocksAreExact == Spec => []LocksMatchHandles
<1>1. LocksInv => LocksMatchHandles
  <2> SUFFICES ASSUME LocksInv PROVE LocksMatchHandles
    OBVIOUS
  <2>1. ASSUME NEW p \in DOMAIN ref
        PROVE  ref[p] = Cardinality({u \in Live : p \in PathOf(FirstTokens(u, req[u].handle))})
    <3>1. Readers(p) = {u \in Live : p \in PathOf(FirstTokens(u, req[u].handle))}
      BY DEF Readers, Reads, Live
    <3>2. QED
      BY <3>1 DEF LocksInv, RefsCount
  <2>2. ASSUME NEW u \in Live
        PROVE  PathOf(FirstTokens(u, req[u].handle)) \subseteq DOMAIN tree
    <3>1. DOMAIN tree = DOMAIN ref
      BY DEF LocksInv, TreeClosed
    <3>2. QED
      BY <3>1 DEF LocksInv, RefsCount, Reads, Live
  <2>3. QED
    BY <2>1, <2>2 DEF LocksMatchHandles
<1>2. QED
  BY <1>1, LocksInvariant, PTL


-----------------------------------------------------------------------------
(* The pages and rows: nothing is freed twice and nothing is lost.  Then   *)
(* what the pages hold.                                                    *)

Lists == {"free", "lazy"}

(* Where a page may be: in the free list or among the frees held back, in  *)
(* the cache, in the part of a row that its request owns.                  *)
ListOf(t) == IF t = "free" THEN free ELSE drainer.lazy
InList(t, i, p) == i \in 1 .. Len(ListOf(t)) /\ ListOf(t)[i] = p
InTree(q, p)    == q \in DOMAIN tree /\ tree[q] = p
InRow(u, k, p)  == /\ u \in Live /\ k \in 1 .. Len(row[u])
                   /\ k > req[u].handle \div PageSize /\ row[u][k] = p

(* The page is in exactly one place.                                       *)
Single(p) ==
    /\ \/ \E t \in Lists : \E i : InList(t, i, p)
       \/ \E q : InTree(q, p)
       \/ \E u, k : InRow(u, k, p)
    /\ \A t, s \in Lists : \A i, j : InList(t, i, p) /\ InList(s, j, p) => t = s /\ i = j
    /\ \A q, r : InTree(q, p) /\ InTree(r, p) => q = r
    /\ \A u, v, k, l : InRow(u, k, p) /\ InRow(v, l, p) => u = v /\ k = l
    /\ \A t \in Lists : \A i, q : ~ (InList(t, i, p) /\ InTree(q, p))
    /\ \A t \in Lists : \A i, u, k : ~ (InList(t, i, p) /\ InRow(u, k, p))
    /\ \A q, u, k : ~ (InTree(q, p) /\ InRow(u, k, p))

(* Who is decoded or launched holds a row and has more to generate, and    *)
(* who is marked aborted has been.                                         *)
Holding ==
    /\ \A u \in Uids : u \in running \/ In(adder.reqs, u) => req[u].held
    /\ \A u \in Uids : req[u].aborted => u \in aborts
    /\ \A u \in running : req[u].dev < max_device_len(u)

(* A row is as long as what was allocated for it, which covers what was    *)
(* computed; the handle lies within that and within what the host has.     *)
Rows ==
    /\ row \in [Uids -> Seq(Pages)]
    /\ \A u \in Live :
         /\ req[u].cached <= req[u].alloc
         /\ req[u].handle <= req[u].cached /\ req[u].handle <= req[u].host
         /\ Len(row[u]) = div_ceil(req[u].alloc)

(* Pages are pages, wherever they are, and each is in one place.           *)
Pool ==
    /\ free \in Seq(Pages) /\ drainer.lazy \in Seq(Pages)
    /\ \A q \in DOMAIN tree : tree[q] \in Pages
    /\ \A p \in Pages : Single(p)

(* A row of the table is free or held.                                     *)
RowsCount == slots \in Nat /\ slots + Cardinality(Live) = MaxRunning

(* The rest of the types.                                                  *)
Ledgers ==
    /\ adder.budget \in Nat /\ adder.reserved \in Nat
    /\ drainer = [todo |-> drainer.todo, lazy |-> drainer.lazy, done |-> drainer.done]
    /\ drainer.done \subseteq Uids /\ finished \subseteq Uids /\ tombs \subseteq Uids

PagesInv == Holding /\ Rows /\ Pool /\ RowsCount /\ Ledgers

-----------------------------------------------------------------------------
(* Places.                                                                 *)

(* Nothing moves.                                                          *)
LEMMA PlacesStay ==
  ASSUME NEW p, Single(p),
         \A t \in Lists : \A i : InList(t, i, p)' <=> InList(t, i, p),
         \A q : InTree(q, p)' <=> InTree(q, p),
         \A u, k : InRow(u, k, p)' <=> InRow(u, k, p)
  PROVE  Single(p)'
  BY SMT DEF Single

(* A request's own pages are handed over: the ones after h up to m and the *)
(* ones after i up to e to the end of a list, those between to the cache.  *)
LEMMA HandOver ==
  ASSUME NEW p, Single(p), NEW u, NEW t \in Lists,
         NEW h \in Nat, NEW m \in Nat, NEW i \in Nat, NEW e \in Nat, NEW n \in Nat,
         h <= m, m <= i, i <= e,
         \A j : InList(t, j, p) => j \in 1 .. n,
         \A k : InRow(u, k, p) => k \in Nat /\ k > h,
         \A s \in Lists : s # t => \A j : InList(s, j, p)' <=> InList(s, j, p),
         \A j : InList(t, j, p)' <=>
            \/ InList(t, j, p)
            \/ \E k : InRow(u, k, p) /\ k <= m /\ j = n + (k - h)
            \/ \E k : InRow(u, k, p) /\ i < k /\ k <= e /\ j = n + (m - h) + (k - i),
         \A q : InTree(q, p)' <=>
            \/ InTree(q, p)
            \/ \E k : InRow(u, k, p) /\ m < k /\ k <= i /\ q = FirstTokens(u, k * PageSize),
         \A v, k : InRow(v, k, p)' <=> InRow(v, k, p) /\ (v = u => k > e)
  PROVE  Single(p)'
<1>1. CASE \A k : ~ InRow(u, k, p)
  <2>1. \A s \in Lists : \A j : InList(s, j, p)' <=> InList(s, j, p)
    BY <1>1, Zenon
  <2>2. \A q : InTree(q, p)' <=> InTree(q, p)
    BY <1>1, Zenon
  <2>3. \A v, k : InRow(v, k, p)' <=> InRow(v, k, p)
    BY <1>1, Zenon
  <2>4. QED
    BY <2>1, <2>2, <2>3, PlacesStay, Zenon
<1>2. CASE \E k : InRow(u, k, p)
  <2>1. PICK k : InRow(u, k, p)
    BY <1>2
  <2>2. k \in Nat /\ k > h
    BY <2>1
  <2>3. /\ \A l : InRow(u, l, p) <=> l = k
        /\ \A v, l : InRow(v, l, p) => v = u /\ l = k
        /\ \A s \in Lists : \A j : ~ InList(s, j, p)
        /\ \A q : ~ InTree(q, p)
    BY <2>1, Zenon DEF Single
  <2>4. \A s \in Lists : s # t => \A j : ~ InList(s, j, p)'
    BY <2>3, Zenon
  <2>5. \A j : InList(t, j, p)' <=> \/ k <= m /\ j = n + (k - h)
                                    \/ i < k /\ k <= e /\ j = n + (m - h) + (k - i)
    BY <2>3, Zenon
  <2>6. \A q : InTree(q, p)' <=> m < k /\ k <= i /\ q = FirstTokens(u, k * PageSize)
    BY <2>3, Zenon
  <2>7. \A v, l : InRow(v, l, p)' <=> v = u /\ l = k /\ k > e
    BY <2>3, Zenon
  <2>8. CASE k <= m
    <3>1. \A j : InList(t, j, p)' <=> j = n + (k - h)
      BY <2>2, <2>5, <2>8
    <3>2. \A q : ~ InTree(q, p)'
      BY <2>2, <2>6, <2>8
    <3>3. \A v, l : ~ InRow(v, l, p)'
      BY <2>2, <2>7, <2>8
    <3>4. QED
      BY <2>4, <3>1, <3>2, <3>3 DEF Single
  <2>9. CASE m < k /\ k <= i
    <3>1. \A j : ~ InList(t, j, p)'
      BY <2>2, <2>5, <2>9
    <3>2. \A q : InTree(q, p)' <=> q = FirstTokens(u, k * PageSize)
      BY <2>6, <2>9
    <3>3. \A v, l : ~ InRow(v, l, p)'
      BY <2>2, <2>7, <2>9
    <3>4. QED
      BY <2>4, <3>1, <3>2, <3>3 DEF Single
  <2>10. CASE i < k /\ k <= e
    <3>1. \A j : InList(t, j, p)' <=> j = n + (m - h) + (k - i)
      BY <2>2, <2>5, <2>10
    <3>2. \A q : ~ InTree(q, p)'
      BY <2>2, <2>6, <2>10
    <3>3. \A v, l : ~ InRow(v, l, p)'
      BY <2>2, <2>7, <2>10
    <3>4. QED
      BY <2>4, <3>1, <3>2, <3>3 DEF Single
  <2>11. CASE k > e
    <3>1. \A j : ~ InList(t, j, p)'
      BY <2>2, <2>5, <2>11
    <3>2. \A q : ~ InTree(q, p)'
      BY <2>2, <2>6, <2>11
    <3>3. \A v, l : InRow(v, l, p)' <=> v = u /\ l = k
      BY <2>7, <2>11
    <3>4. QED
      BY <2>4, <3>1, <3>2, <3>3 DEF Single
  <2>12. QED
    BY <2>2, <2>8, <2>9, <2>10, <2>11
<1>3. QED
  BY <1>1, <1>2

-----------------------------------------------------------------------------
(* Whole and started pages.                                                *)

LEMMA WholePages ==
  ASSUME NEW k \in Nat
  PROVE  k * PageSize \in Nat /\ (k * PageSize) \div PageSize = k
<1>1. PageSize \in Nat \ {0}
  BY SchedulerConstants
<1>2. k * PageSize \in Nat
  BY <1>1
<1>3. QED
  BY <1>1, <1>2

LEMMA PagesGrow ==
  ASSUME NEW a \in Nat, NEW b \in Nat, a <= b
  PROVE  /\ a \div PageSize \in Nat /\ b \div PageSize \in Nat
         /\ a \div PageSize <= b \div PageSize
<1>1. PageSize \in Nat \ {0}
  BY SchedulerConstants
<1>2. a \div PageSize \in Nat /\ b \div PageSize \in Nat
  BY <1>1
<1>3. (a \div PageSize) * PageSize <= a /\ (a \div PageSize) * PageSize \in Nat
  BY <1>1, <1>2
<1>4. (a \div PageSize) * PageSize <= b
  BY <1>3
<1>5. QED
  BY <1>2, <1>4, PagesFit

(* Started pages: as many as the whole ones, or one more.                  *)
LEMMA StartedPages ==
  ASSUME NEW a \in Nat, NEW b \in Nat, a <= b
  PROVE  /\ div_ceil(a) \in Nat /\ div_ceil(b) \in Nat
         /\ a \div PageSize <= div_ceil(b)
         /\ div_ceil(a) <= div_ceil(b)
<1>1. PageSize \in Nat \ {0}
  BY SchedulerConstants
<1>2. a + PageSize - 1 \in Nat /\ b + PageSize - 1 \in Nat /\ a <= b + PageSize - 1
      /\ a + PageSize - 1 <= b + PageSize - 1
  BY <1>1
<1>3. QED
  BY <1>2, PagesGrow DEF div_ceil

LEMMA StartedWhole ==
  ASSUME NEW k \in Nat
  PROVE  div_ceil(k * PageSize) = k
<1>1. PageSize \in Nat \ {0}
  BY SchedulerConstants
<1> DEFINE n == k * PageSize
<1>2. n \in Nat /\ n \div PageSize = k
  BY WholePages
<1>3. (k + 1) * PageSize = n + PageSize /\ (k + 1) * PageSize \in Nat
  BY <1>1
<1> HIDE DEF n
<1>4. n + PageSize - 1 \in Nat /\ n <= n + PageSize - 1
  BY <1>1, <1>2
<1>5. n \div PageSize <= (n + PageSize - 1) \div PageSize /\ (n + PageSize - 1) \div PageSize \in Nat
  BY <1>2, <1>4, PagesGrow
<1>6. ~ (k + 1 <= (n + PageSize - 1) \div PageSize)
  <2>1. k + 1 \in Nat /\ ~ ((k + 1) * PageSize <= n + PageSize - 1)
    BY <1>1, <1>2, <1>3
  <2>2. QED
    BY <1>4, <2>1, PagesFit
<1>7. QED
  BY <1>2, <1>5, <1>6 DEF div_ceil, n

(* The requests' pages: up to its handle, up to where the cache has what   *)
(* it computed, and up to the end of that.                                 *)
HandlePages(r)   == r.handle \div PageSize
CachedPages(u, r) == MatchLen(InsertIds(u, r)) \div PageSize
InsertPages(u, r) == Len(InsertIds(u, r)) \div PageSize

(* What a commit or a release is applied to: a held request, with more     *)
(* host tokens, or with what was computed cut to what the host has.        *)
Current(u, r) ==
    /\ u \in Live /\ r \in Requests
    /\ r.handle = req[u].handle /\ r.alloc = req[u].alloc /\ r.cached <= req[u].cached
    /\ r.handle <= r.cached /\ r.handle <= r.host

LEMMA RequestFields ==
  ASSUME NEW r \in Requests
  PROVE  /\ r.cached \in Nat /\ r.dev \in Nat /\ r.alloc \in Nat /\ r.host \in Nat
         /\ r.handle \in Nat /\ r.held \in BOOLEAN /\ r.aborted \in BOOLEAN
  BY DEF Requests

LEMMA Spans ==
  ASSUME LocksInv, Rows, NEW u, NEW r, Current(u, r)
  PROVE  /\ HandlePages(r) \in Nat /\ CachedPages(u, r) \in Nat /\ InsertPages(u, r) \in Nat
         /\ Len(row[u]) \in Nat
         /\ HandlePages(r) <= CachedPages(u, r)
         /\ CachedPages(u, r) <= InsertPages(u, r)
         /\ InsertPages(u, r) <= Len(row[u])
         /\ div_ceil(Most(r.cached, r.alloc)) = Len(row[u])
<1> USE DEF LocksInv
<1> DEFINE n == Least(r.host, r.cached)
           ids == InsertIds(u, r)
<1>0. u \in Uids /\ req[u] \in Requests /\ r \in Requests
  BY DEF Current, Live, Lengths
<1>1. /\ r.cached \in Nat /\ r.host \in Nat /\ r.alloc \in Nat /\ r.handle \in Nat
      /\ req[u].cached \in Nat /\ req[u].alloc \in Nat /\ req[u].dev \in Nat
  BY <1>0, RequestFields
<1>2. /\ r.cached <= req[u].cached /\ req[u].cached <= req[u].alloc /\ req[u].alloc = r.alloc
      /\ req[u].cached <= Len(text[u]) /\ Len(text[u]) \in Nat
      /\ Len(row[u]) = div_ceil(req[u].alloc) /\ row[u] \in Seq(Pages)
  <2>1. text[u] \in Seq(Nat)
    BY <1>0 DEF Lengths
  <2>2. req[u].cached <= req[u].dev /\ req[u].dev <= Len(text[u]) /\ Len(text[u]) \in Nat
    BY <2>1 DEF Current, Lengths
  <2>3. QED
    BY <1>0, <1>1, <2>2 DEF Current, Rows
<1>3. n \in Nat /\ n <= r.alloc /\ r.handle <= n /\ Most(r.cached, r.alloc) = r.alloc
  BY <1>1, <1>2 DEF Least, Most, Current
<1>4. /\ ids \in Seq(Nat) /\ Len(ids) = align_down(n) /\ Len(ids) \in 0 .. Len(text[u])
      /\ FirstTokens(u, Len(ids)) = ids
  <2>1. r.cached <= Len(text[u])
    BY <1>1, <1>2
  <2>2. QED
    BY <1>0, <1>1, <2>1, Inserted
<1>5. MatchLen(ids) \in 0 .. Len(ids) /\ \A p \in PathOf(ids) \cap DOMAIN tree : Len(p) <= MatchLen(ids)
  BY <1>4, MatchFound
<1> HIDE DEF n, ids
<1>6. n \div PageSize \in Nat /\ Len(ids) = (n \div PageSize) * PageSize /\ Len(ids) \div PageSize = n \div PageSize
  <2>1. n \div PageSize \in Nat
    BY <1>3, PagesGrow
  <2>2. QED
    BY <2>1, <1>4, WholePages DEF align_down
<1>7. MatchLen(ids) \in Nat /\ Len(ids) \in Nat /\ MatchLen(ids) <= Len(ids)
  BY <1>4, <1>5
<1>8. /\ MatchLen(ids) \div PageSize \in Nat /\ Len(ids) \div PageSize \in Nat
      /\ MatchLen(ids) \div PageSize <= Len(ids) \div PageSize
  BY <1>7, PagesGrow
<1>9. Len(row[u]) \in Nat /\ n \div PageSize <= Len(row[u])
  BY <1>1, <1>2, <1>3, StartedPages
<1>10. r.handle \div PageSize \in Nat /\ r.handle \div PageSize <= n \div PageSize
  BY <1>1, <1>3, PagesGrow
<1>11. r.handle \div PageSize <= MatchLen(ids) \div PageSize
  <2> DEFINE h == r.handle \div PageSize
             q == SubSeq(text[u], 1, h * PageSize)
  <2>1. CASE h = 0
    BY <1>8, <2>1
  <2>2. CASE h # 0
    <3>1. h * PageSize \in Nat /\ h * PageSize <= r.handle /\ h * PageSize <= Len(ids)
      <4>1. h * PageSize <= r.handle
        BY <1>1, <1>10, PagesFit
      <4>2. h * PageSize <= Len(ids)
        BY <1>6, <1>7, <1>10, PagesFit
      <4>3. QED
        BY <4>1, <4>2, <1>10, WholePages
    <3>2. /\ text[u] \in Seq(Nat) /\ r.handle \in 0 .. Len(text[u]) /\ Len(ids) \in 0 .. Len(text[u])
      <4>1. text[u] \in Seq(Nat)
        BY <1>0 DEF Lengths
      <4>2. r.handle <= Len(text[u])
        BY DEF Lengths, Current
      <4>3. QED
        BY <1>1, <1>2, <1>4, <4>1, <4>2
    <3> HIDE DEF h
    <3>3. /\ SubSeq(SubSeq(text[u], 1, r.handle), 1, h * PageSize) = q
          /\ Len(SubSeq(text[u], 1, r.handle)) = r.handle
          /\ SubSeq(SubSeq(text[u], 1, Len(ids)), 1, h * PageSize) = q
      <4>1. h * PageSize \in 0 .. r.handle /\ h * PageSize \in 0 .. Len(ids)
        BY <1>1, <1>7, <3>1
      <4>2. QED
        BY <3>2, <4>1, CutCut
    <3>4. SubSeq(text[u], 1, Len(ids)) = ids
      BY <1>4 DEF FirstTokens
    <3>5. h \in 1 .. r.handle \div PageSize /\ h \in 1 .. Len(ids) \div PageSize
      BY <1>6, <1>10, <2>2 DEF h
    <3>6. q \in PathOf(FirstTokens(u, r.handle))
      BY <3>3, <3>5 DEF PathOf, FirstTokens
    <3>7. q \in PathOf(ids)
      BY <3>3, <3>4, <3>5 DEF PathOf
    <3>8. q \in DOMAIN tree
      BY <3>6, <1>0 DEF RefsCount, Reads, TreeClosed, Current, Live
    <3>9. Len(q) = h * PageSize
      <4>1. h * PageSize \in 0 .. Len(text[u])
        BY <1>2, <3>1, <3>2
      <4>2. QED
        BY <3>2, <4>1, CutCut
    <3>10. h * PageSize <= MatchLen(ids)
      BY <1>5, <3>7, <3>8, <3>9
    <3>11. h \in Nat
      BY <1>10 DEF h
    <3>12. QED
      BY <1>7, <3>10, <3>11, PagesFit DEF h
  <2>3. QED
    BY <2>1, <2>2
<1>12. Len(ids) \div PageSize <= Len(row[u])
  BY <1>6, <1>9
<1>13. div_ceil(Most(r.cached, r.alloc)) = Len(row[u])
  BY <1>2, <1>3
<1>14. QED
  BY <1>8, <1>9, <1>10, <1>11, <1>12, <1>13 DEF HandlePages, CachedPages, InsertPages, ids

(* The prefixes a commit or a release inserts.                             *)
LEMMA InsertedPath ==
  ASSUME LocksInv, Rows, NEW u, NEW r, Current(u, r)
  PROVE  /\ \A q : q \in PathOf(InsertIds(u, r)) <=>
                \E k \in 1 .. InsertPages(u, r) : q = FirstTokens(u, k * PageSize)
         /\ \A k \in 1 .. InsertPages(u, r) :
               /\ Len(FirstTokens(u, k * PageSize)) = k * PageSize
               /\ FirstTokens(u, k * PageSize) \in DOMAIN tree <=> k <= CachedPages(u, r)
<1> USE DEF LocksInv
<1> DEFINE ids == InsertIds(u, r)
           i == InsertPages(u, r)
           m == CachedPages(u, r)
<1>1. /\ ids \in Seq(Nat) /\ Len(ids) \in 0 .. Len(text[u])
      /\ SubSeq(text[u], 1, Len(ids)) = ids /\ text[u] \in Seq(Nat) /\ Len(text[u]) \in Nat
  <2>1. u \in Uids /\ req[u] \in Requests /\ r \in Requests /\ text[u] \in Seq(Nat)
    BY DEF Current, Live, Lengths
  <2>2. r.cached \in Nat /\ r.host \in Nat /\ req[u].cached \in Nat /\ req[u].dev \in Nat
    BY <2>1, RequestFields
  <2>3. r.cached <= Len(text[u])
    <3>1. req[u].cached <= req[u].dev /\ req[u].dev <= Len(text[u]) /\ r.cached <= req[u].cached
      BY DEF Current, Lengths
    <3>2. Len(text[u]) \in Nat
      BY <2>1
    <3>3. QED
      BY <2>2, <3>1, <3>2
  <2>4. /\ ids \in Seq(Nat) /\ Len(ids) \in 0 .. Len(text[u])
        /\ FirstTokens(u, Len(ids)) = ids
    BY <2>1, <2>2, <2>3, Inserted
  <2>5. QED
    BY <2>1, <2>4 DEF FirstTokens
<1>2. /\ MatchLen(ids) \in 0 .. Len(ids)
      /\ PathOf(SubSeq(ids, 1, MatchLen(ids))) \subseteq DOMAIN tree
      /\ \A p \in PathOf(ids) \cap DOMAIN tree : Len(p) <= MatchLen(ids)
  BY <1>1, MatchFound
<1>3. i = Len(ids) \div PageSize /\ m = MatchLen(ids) \div PageSize
  BY DEF InsertPages, CachedPages
<1>4. i \in Nat /\ m \in Nat /\ m <= i
  BY Spans
<1> HIDE DEF ids, i, m
<1>5. ASSUME NEW k \in 1 .. i
      PROVE  /\ SubSeq(ids, 1, k * PageSize) = FirstTokens(u, k * PageSize)
             /\ Len(FirstTokens(u, k * PageSize)) = k * PageSize
             /\ k * PageSize \in 0 .. Len(ids)
  <2>1. k \in Nat /\ Len(ids) \in Nat /\ k <= Len(ids) \div PageSize
    BY <1>1, <1>3, <1>4
  <2>2. k * PageSize \in 0 .. Len(ids)
    BY <2>1, PagesFit, WholePages
  <2>3. k * PageSize \in 0 .. Len(text[u])
    BY <1>1, <2>2
  <2>4. QED
    BY <1>1, <2>2, <2>3, CutCut, SMTT(30) DEF FirstTokens
<1>6. \A q : q \in PathOf(ids) <=> \E k \in 1 .. i : q = FirstTokens(u, k * PageSize)
  BY <1>3, <1>5 DEF PathOf
<1>7. ASSUME NEW k \in 1 .. i
      PROVE  FirstTokens(u, k * PageSize) \in DOMAIN tree <=> k <= m
  <2> DEFINE q == FirstTokens(u, k * PageSize)
  <2>1. q \in PathOf(ids) /\ Len(q) = k * PageSize /\ k \in Nat /\ MatchLen(ids) \in Nat
    BY <1>2, <1>5, <1>6
  <2>2. q \in DOMAIN tree => k <= m
    <3>1. q \in DOMAIN tree => k * PageSize <= MatchLen(ids)
      <4> HIDE DEF q
      <4>1. QED
        BY <1>2, <2>1
    <3>2. QED
      BY <1>3, <2>1, <3>1, PagesFit
  <2>3. k <= m => q \in DOMAIN tree
    <3>1. SUFFICES ASSUME k <= m PROVE q \in DOMAIN tree
      OBVIOUS
    <3>2. k * PageSize <= MatchLen(ids)
      BY <1>3, <2>1, <3>1, PagesFit
    <3>3. k * PageSize \in 0 .. MatchLen(ids) /\ MatchLen(ids) \in 0 .. Len(ids)
      BY <1>2, <2>1, <3>2, WholePages
    <3>4. /\ SubSeq(SubSeq(ids, 1, MatchLen(ids)), 1, k * PageSize) = SubSeq(ids, 1, k * PageSize)
          /\ Len(SubSeq(ids, 1, MatchLen(ids))) = MatchLen(ids)
      BY <1>1, <3>3, CutCut, SMTT(30)
    <3>5. SubSeq(SubSeq(ids, 1, MatchLen(ids)), 1, k * PageSize) = q
      BY <1>5, <3>4
    <3>6. k \in 1 .. (Len(SubSeq(ids, 1, MatchLen(ids))) \div PageSize)
      <4>1. Len(SubSeq(ids, 1, MatchLen(ids))) \div PageSize = m
        BY <1>3, <3>4
      <4>2. k \in 1 .. m
        BY <1>4, <3>1
      <4>3. QED
        BY <4>1, <4>2
    <3>7. q \in PathOf(SubSeq(ids, 1, MatchLen(ids)))
      BY <3>5, <3>6 DEF PathOf
    <3>8. QED
      BY <1>2, <3>7
  <2>4. QED
    BY <2>2, <2>3
<1>8. QED
  BY <1>5, <1>6, <1>7 DEF ids, i, m

LEMMA InsertedPlaces ==
  ASSUME LocksInv, Rows, NEW u, NEW r, Current(u, r)
  PROVE  \A q, p : q \in DOMAIN InsertTree(u, r) /\ InsertTree(u, r)[q] = p <=>
            \/ InTree(q, p)
            \/ \E k : /\ InRow(u, k, p) /\ CachedPages(u, r) < k /\ k <= InsertPages(u, r)
                      /\ q = FirstTokens(u, k * PageSize)
<1> DEFINE ids == InsertIds(u, r)
           i == InsertPages(u, r)
           m == CachedPages(u, r)
           h == HandlePages(r)
           T == InsertTree(u, r)
           new == PathOf(ids) \ DOMAIN tree
<1>1. /\ h \in Nat /\ m \in Nat /\ i \in Nat /\ Len(row[u]) \in Nat
      /\ h <= m /\ m <= i /\ i <= Len(row[u])
  BY Spans
<1>2. /\ \A q : q \in PathOf(ids) <=> \E k \in 1 .. i : q = FirstTokens(u, k * PageSize)
      /\ \A k \in 1 .. i : /\ Len(FirstTokens(u, k * PageSize)) = k * PageSize
                           /\ FirstTokens(u, k * PageSize) \in DOMAIN tree <=> k <= m
  BY InsertedPath
<1>3. /\ DOMAIN T = DOMAIN tree \cup new
      /\ \A q \in DOMAIN tree \cup new :
            T[q] = IF q \in new THEN row[u][Len(q) \div PageSize] ELSE tree[q]
  BY DEF InsertTree
<1>4. u \in Live /\ r.handle = req[u].handle
  BY DEF Current
<1> HIDE DEF i, m, T, ids
<1>5. \A q : q \in new <=> \E k \in 1 .. i : m < k /\ q = FirstTokens(u, k * PageSize)
  BY <1>1, <1>2
<1>6. ASSUME NEW k \in 1 .. i, m < k
      PROVE  /\ Len(FirstTokens(u, k * PageSize)) \div PageSize = k
             /\ \A p : InRow(u, k, p) <=> row[u][k] = p
  <2>1. k \in Nat /\ k \in 1 .. Len(row[u]) /\ k > h
    BY <1>1, <1>6
  <2>2. QED
    BY <1>2, <1>4, <2>1, WholePages DEF InRow, HandlePages
<1> HIDE DEF new, h
<1>7. ASSUME NEW q, NEW p, q \in DOMAIN T, T[q] = p
      PROVE  \/ InTree(q, p)
             \/ \E k : InRow(u, k, p) /\ m < k /\ k <= i /\ q = FirstTokens(u, k * PageSize)
  <2>1. CASE q \in new
    <3>1. PICK k \in 1 .. i : m < k /\ q = FirstTokens(u, k * PageSize)
      BY <1>5, <2>1
    <3>2. T[q] = row[u][k]
      BY <1>3, <1>6, <2>1, <3>1
    <3>3. QED
      BY <1>1, <1>6, <1>7, <3>1, <3>2
  <2>2. CASE q \notin new
    BY <1>3, <1>7, <2>2 DEF InTree
  <2>3. QED
    BY <2>1, <2>2
<1>8. ASSUME NEW q, NEW p, InTree(q, p)
      PROVE  q \in DOMAIN T /\ T[q] = p
  BY <1>3, <1>8 DEF InTree, new
<1>9. ASSUME NEW q, NEW p, NEW k, InRow(u, k, p), m < k, k <= i,
             q = FirstTokens(u, k * PageSize)
      PROVE  q \in DOMAIN T /\ T[q] = p
  <2>1. k \in 1 .. i
    BY <1>1, <1>9 DEF InRow
  <2>2. q \in new
    BY <1>5, <1>9, <2>1
  <2>3. T[q] = row[u][k] /\ row[u][k] = p
    BY <1>3, <1>6, <1>9, <2>1, <2>2
  <2>4. QED
    BY <1>3, <2>2, <2>3
<1>10. QED
  BY <1>7, <1>8, <1>9 DEF T, i, m

-----------------------------------------------------------------------------
(* Handing pages over.                                                     *)

LEMMA CutOut ==
  ASSUME NEW T, NEW s \in Seq(T), NEW a \in Nat, NEW b \in Nat, a <= b, b <= Len(s)
  PROVE  /\ SubSeq(s, a + 1, b) \in Seq(T) /\ Len(SubSeq(s, a + 1, b)) = b - a
         /\ \A j \in 1 .. b - a : SubSeq(s, a + 1, b)[j] = s[a + j]
<1>1. Len(s) \in Nat
  OBVIOUS
<1>2. \A j \in a + 1 .. b : s[j] \in T
  BY <1>1
<1>3. QED
  BY <1>1, <1>2

Given(q, s, h, m, i, e) == q \o (SubSeq(s, h + 1, m) \o SubSeq(s, i + 1, e))

(* Two stretches of a row at the end of a list.                            *)
Extends(q, s, h, m, i, e) ==
    /\ Given(q, s, h, m, i, e) \in Seq(Pages)
    /\ \A j, p : j \in 1 .. Len(Given(q, s, h, m, i, e))
                   /\ Given(q, s, h, m, i, e)[j] = p <=>
         \/ j \in 1 .. Len(q) /\ q[j] = p
         \/ \E k \in 1 .. Len(s) : h < k /\ s[k] = p /\ k <= m /\ j = Len(q) + (k - h)
         \/ \E k \in 1 .. Len(s) : i < k /\ s[k] = p /\ k <= e
                                   /\ j = Len(q) + (m - h) + (k - i)

LEMMA GivenBack ==
  ASSUME NEW q \in Seq(Pages), NEW s \in Seq(Pages),
         NEW h \in Nat, NEW m \in Nat, NEW i \in Nat, NEW e \in Nat,
         h <= m, m <= i, i <= e, e <= Len(s)
  PROVE  Extends(q, s, h, m, i, e)
<1> DEFINE a == SubSeq(s, h + 1, m)
           b == SubSeq(s, i + 1, e)
           c == a \o b
           all == Given(q, s, h, m, i, e)
<1>1. Len(s) \in Nat /\ Len(q) \in Nat
  OBVIOUS
<1>2. a \in Seq(Pages) /\ Len(a) = m - h /\ \A j \in 1 .. m - h : a[j] = s[h + j]
  <2>1. m <= Len(s)
    BY <1>1
  <2>2. QED
    BY <2>1, CutOut
<1>3. b \in Seq(Pages) /\ Len(b) = e - i /\ \A j \in 1 .. e - i : b[j] = s[i + j]
  BY CutOut
<1> HIDE DEF a, b
<1>4. /\ c \in Seq(Pages) /\ Len(c) = Len(a) + Len(b)
      /\ \A j \in 1 .. Len(a) + Len(b) : c[j] = IF j <= Len(a) THEN a[j] ELSE b[j - Len(a)]
  <2>1. a \in Seq(Pages) /\ b \in Seq(Pages)
    BY <1>2, <1>3
  <2>2. c \in Seq(Pages) /\ Len(c) = Len(a) + Len(b)
    BY <2>1
  <2>3. \A j \in 1 .. Len(a) + Len(b) : c[j] = IF j <= Len(a) THEN a[j] ELSE b[j - Len(a)]
    BY <2>1
  <2>4. QED
    BY <2>2, <2>3
<1> HIDE DEF c, all
<1>5. /\ all \in Seq(Pages) /\ Len(all) = Len(q) + Len(c)
      /\ \A j \in 1 .. Len(q) + Len(c) : all[j] = IF j <= Len(q) THEN q[j] ELSE c[j - Len(q)]
  <2>1. c \in Seq(Pages) /\ all = q \o c
    BY <1>4 DEF all, Given, c, a, b
  <2>2. all \in Seq(Pages) /\ Len(all) = Len(q) + Len(c)
    BY <2>1
  <2>3. \A j \in 1 .. Len(q) + Len(c) : all[j] = IF j <= Len(q) THEN q[j] ELSE c[j - Len(q)]
    BY <2>1
  <2>4. QED
    BY <2>2, <2>3
<1>6. Len(c) = (m - h) + (e - i) /\ Len(all) = Len(q) + (m - h) + (e - i)
  BY <1>1, <1>2, <1>3, <1>4, <1>5
<1>7. \A j \in 1 .. Len(q) : j \in 1 .. Len(all) /\ all[j] = q[j]
  BY <1>1, <1>5, <1>6
<1>8. ASSUME NEW k \in 1 .. Len(s), h < k, k <= m
      PROVE  Len(q) + (k - h) \in 1 .. Len(all) /\ all[Len(q) + (k - h)] = s[k]
  <2>1. k - h \in 1 .. m - h /\ h + (k - h) = k /\ k - h \in 1 .. Len(a) + Len(b)
    BY <1>1, <1>2, <1>3, <1>8
  <2>2. c[k - h] = s[k]
    BY <1>2, <1>4, <2>1
  <2>3. /\ Len(q) + (k - h) \in 1 .. Len(q) + Len(c) /\ ~ (Len(q) + (k - h) <= Len(q))
        /\ Len(q) + (k - h) - Len(q) = k - h
    BY <1>1, <1>2, <1>3, <1>4, <2>1
  <2>4. QED
    BY <1>5, <2>2, <2>3
<1>9. ASSUME NEW k \in 1 .. Len(s), i < k, k <= e
      PROVE  /\ Len(q) + (m - h) + (k - i) \in 1 .. Len(all)
             /\ all[Len(q) + (m - h) + (k - i)] = s[k]
  <2>1. /\ k - i \in 1 .. e - i /\ i + (k - i) = k
        /\ (m - h) + (k - i) \in 1 .. Len(a) + Len(b) /\ ~ ((m - h) + (k - i) <= Len(a))
        /\ (m - h) + (k - i) - Len(a) = k - i
    BY <1>1, <1>2, <1>3, <1>9, SMTT(30)
  <2>2. c[(m - h) + (k - i)] = s[k]
    <3>1. c[(m - h) + (k - i)] = b[k - i]
      <4>1. PICK x : x = (m - h) + (k - i)
        OBVIOUS
      <4>2. x \in 1 .. Len(a) + Len(b) /\ ~ (x <= Len(a)) /\ x - Len(a) = k - i
        BY <2>1, <4>1
      <4>3. c[x] = b[x - Len(a)]
        BY <1>4, <4>2
      <4>4. QED
        BY <4>1, <4>2, <4>3
    <3>2. QED
      BY <1>3, <2>1, <3>1
  <2>3. /\ Len(q) + (m - h) + (k - i) \in 1 .. Len(q) + Len(c)
        /\ ~ (Len(q) + (m - h) + (k - i) <= Len(q))
        /\ Len(q) + (m - h) + (k - i) - Len(q) = (m - h) + (k - i)
    BY <1>1, <1>2, <1>3, <1>4, <2>1
  <2>4. QED
    BY <1>5, <2>2, <2>3, SMTT(30)
<1>10. ASSUME NEW j \in 1 .. Len(all)
       PROVE  \/ j \in 1 .. Len(q)
              \/ \E k \in 1 .. Len(s) : h < k /\ k <= m /\ j = Len(q) + (k - h)
              \/ \E k \in 1 .. Len(s) : i < k /\ k <= e /\ j = Len(q) + (m - h) + (k - i)
  <2>1. CASE j <= Len(q)
    BY <1>1, <2>1
  <2>2. CASE Len(q) < j /\ j <= Len(q) + (m - h)
    <3>1. h + (j - Len(q)) \in 1 .. Len(s) /\ h < h + (j - Len(q)) /\ h + (j - Len(q)) <= m
          /\ j = Len(q) + (h + (j - Len(q)) - h)
      BY <1>1, <1>6, <2>2
    <3>2. QED
      BY <3>1
  <2>3. CASE Len(q) + (m - h) < j
    <3> DEFINE k == i + (j - Len(q) - (m - h))
    <3>1. k \in 1 .. Len(s) /\ i < k /\ k <= e /\ j = Len(q) + (m - h) + (k - i)
      BY <1>1, <1>6, <2>3
    <3> HIDE DEF k
    <3>2. QED
      BY <3>1
  <2>4. QED
    BY <1>1, <1>6, <2>1, <2>2, <2>3
<1>11. \A j, p : j \in 1 .. Len(all) /\ all[j] = p <=>
          \/ j \in 1 .. Len(q) /\ q[j] = p
          \/ \E k \in 1 .. Len(s) : h < k /\ s[k] = p /\ k <= m /\ j = Len(q) + (k - h)
          \/ \E k \in 1 .. Len(s) : i < k /\ s[k] = p /\ k <= e
                                    /\ j = Len(q) + (m - h) + (k - i)
  <2>1. ASSUME NEW j, NEW p, j \in 1 .. Len(all), all[j] = p
        PROVE  \/ j \in 1 .. Len(q) /\ q[j] = p
               \/ \E k \in 1 .. Len(s) : h < k /\ s[k] = p /\ k <= m /\ j = Len(q) + (k - h)
               \/ \E k \in 1 .. Len(s) : i < k /\ s[k] = p /\ k <= e
                                         /\ j = Len(q) + (m - h) + (k - i)
    <3>1. CASE j \in 1 .. Len(q)
      BY <1>7, <2>1, <3>1
    <3>2. CASE \E k \in 1 .. Len(s) : h < k /\ k <= m /\ j = Len(q) + (k - h)
      <4>1. PICK k \in 1 .. Len(s) : h < k /\ k <= m /\ j = Len(q) + (k - h)
        BY <3>2
      <4>2. s[k] = p
        BY <1>8, <2>1, <4>1, Zenon
      <4>3. QED
        BY <4>1, <4>2, Zenon
    <3>3. CASE \E k \in 1 .. Len(s) : i < k /\ k <= e /\ j = Len(q) + (m - h) + (k - i)
      <4>1. PICK k \in 1 .. Len(s) : i < k /\ k <= e /\ j = Len(q) + (m - h) + (k - i)
        BY <3>3
      <4>2. s[k] = p
        BY <1>9, <2>1, <4>1, Zenon
      <4>3. QED
        BY <4>1, <4>2, Zenon
    <3>4. QED
      BY <1>10, <2>1, <3>1, <3>2, <3>3, Zenon
  <2>2. ASSUME NEW j, NEW p, NEW k \in 1 .. Len(s), s[k] = p,
               \/ h < k /\ k <= m /\ j = Len(q) + (k - h)
               \/ i < k /\ k <= e /\ j = Len(q) + (m - h) + (k - i)
        PROVE  j \in 1 .. Len(all) /\ all[j] = p
    BY <1>8, <1>9, <2>2, Zenon
  <2>3. ASSUME NEW j \in 1 .. Len(q) PROVE j \in 1 .. Len(all) /\ all[j] = q[j]
    BY <1>7
  <2>4. QED
    BY <2>1, <2>2, <2>3, ZenonT(60)
<1>12. QED
  BY <1>5, <1>11 DEF all, Extends

LEMMA CurrentNow ==
  ASSUME Lengths, Rows, NEW u \in Live, NEW r, r = req[u] \/ r = Appended(u)
  PROVE  /\ Current(u, r) /\ Current(u, Clamped(r)) /\ r.held
         /\ Clamped(r).handle = r.handle /\ Clamped(r).alloc = r.alloc
<1>1. req[u] \in Requests /\ req[u].held /\ u \in Uids
  BY DEF Live, Lengths
<1>2. /\ req[u].cached \in Nat /\ req[u].handle \in Nat /\ req[u].host \in Nat
      /\ req[u].handle <= req[u].cached /\ req[u].handle <= req[u].host
  BY <1>1, RequestFields DEF Rows
<1>3. /\ Appended(u) \in Requests /\ Appended(u).held /\ Appended(u).handle = req[u].handle
      /\ Appended(u).cached = req[u].cached /\ Appended(u).host = req[u].host + 1
      /\ Appended(u).alloc = req[u].alloc
  BY <1>1, <1>2 DEF Appended, Requests
<1>4. /\ r \in Requests /\ r.held /\ r.handle = req[u].handle /\ r.cached = req[u].cached
      /\ r.alloc = req[u].alloc /\ r.host \in Nat /\ r.handle <= r.host
  BY <1>1, <1>2, <1>3
<1>5. Current(u, r)
  BY <1>1, <1>2, <1>4 DEF Current
<1>6. /\ Clamped(r) \in Requests /\ Clamped(r).handle = r.handle /\ Clamped(r).alloc = r.alloc
      /\ Clamped(r).cached = Least(r.cached, r.host) /\ Clamped(r).host = r.host
  <2>1. Least(r.cached, r.host) \in Nat
    BY <1>2, <1>4 DEF Least
  <2>2. QED
    BY <1>4, <2>1 DEF Clamped, Requests
<1>7. Current(u, Clamped(r))
  <2>1. Least(r.cached, r.host) <= r.cached /\ r.handle <= Least(r.cached, r.host)
    BY <1>2, <1>4 DEF Least
  <2>2. QED
    BY <1>1, <1>2, <1>4, <1>6, <2>1 DEF Current
<1>8. QED
  BY <1>4, <1>5, <1>6, <1>7

(* _free_req_resources: the pages go to the list or to the cache.          *)
LEMMA PoolReleased ==
  ASSUME LocksInv, Rows, Pool, NEW u \in Uids, NEW t \in Lists,
         NEW r, r = req[u] \/ r = Appended(u), FreeResources(u, r), text' = text,
         ListOf(t)' = ListOf(t) \o ReleasedPages(u, r),
         \A s \in Lists : s # t => ListOf(s)' = ListOf(s)
  PROVE  Pool'
<1>0. ListOf(t) \in Seq(Pages) /\ \A s \in Lists : ListOf(s) \in Seq(Pages)
  BY DEF Pool, ListOf, Lists
<1>1. CASE ~ req[u].held
  <2>1. ~ r.held /\ req[u] \in Requests /\ req \in [Uids -> Requests]
    BY <1>1 DEF Appended, LocksInv, Lengths, Requests
  <2>2. ReleasedPages(u, r) = <<>> /\ req' = [req EXCEPT ![u] = r]
        /\ tree' = tree /\ row' = row
    BY <2>1 DEF ReleasedPages, FreeResources
  <2>3. \A s \in Lists : ListOf(s)' = ListOf(s)
    BY <1>0, <2>2
  <2>4. ~ req'[u].held /\ \A v \in Uids : v # u => req'[v] = req[v]
    BY <2>1, <2>2
  <2>5. \A v, k, p : InRow(v, k, p)' <=> InRow(v, k, p)
    BY <1>1, <2>2, <2>4 DEF InRow, Live
  <2>6. \A p : /\ \A s \in Lists : \A i : InList(s, i, p)' <=> InList(s, i, p)
               /\ \A q : InTree(q, p)' <=> InTree(q, p)
    BY <2>2, <2>3 DEF InList, InTree
  <2>7. \A p \in Pages : Single(p)'
    BY <2>5, <2>6, PlacesStay DEF Pool
  <2>8. free' = free /\ drainer'.lazy = drainer.lazy
    BY <2>3 DEF ListOf, Lists
  <2>9. QED
    BY <2>2, <2>7, <2>8 DEF Pool
<1>2. CASE req[u].held
  <2> DEFINE c == Clamped(r)
             h == HandlePages(c)
             m == CachedPages(u, c)
             i == InsertPages(u, c)
             e == Len(row[u])
             n == Len(ListOf(t))
  <2>1. u \in Live /\ Lengths
    BY <1>2 DEF Live, LocksInv
  <2>2. Current(u, c) /\ r.held /\ c.handle = r.handle
    BY <2>1, CurrentNow
  <2> HIDE DEF c
  <2>3. /\ h \in Nat /\ m \in Nat /\ i \in Nat /\ e \in Nat /\ h <= m /\ m <= i /\ i <= e
        /\ div_ceil(Most(c.cached, c.alloc)) = e
    BY <2>2, Spans
  <2>4. \A q, p : q \in DOMAIN InsertTree(u, c) /\ InsertTree(u, c)[q] = p <=>
           \/ InTree(q, p)
           \/ \E k : InRow(u, k, p) /\ m < k /\ k <= i /\ q = FirstTokens(u, k * PageSize)
    BY <2>2, InsertedPlaces
  <2>5. /\ ReleasedPages(u, r) = SubSeq(row[u], h + 1, m) \o SubSeq(row[u], i + 1, e)
        /\ tree' = InsertTree(u, c)
        /\ row' = [row EXCEPT ![u] = <<>>]
        /\ req' = [req EXCEPT ![u] = [c EXCEPT !.held = FALSE]]
    BY <2>2, <2>3 DEF ReleasedPages, FreeResources, Duplicates, PaddedTail, HandlePages,
                      CachedPages, InsertPages, c
  <2>6. row[u] \in Seq(Pages) /\ row \in [Uids -> Seq(Pages)] /\ req \in [Uids -> Requests]
        /\ c \in Requests
    BY <2>1, <2>2 DEF Rows, Lengths, Current
  <2> HIDE DEF h, m, i
  <2>7. /\ ListOf(t)' \in Seq(Pages)
        /\ \A j, p : j \in 1 .. Len(ListOf(t)') /\ ListOf(t)'[j] = p <=>
             \/ j \in 1 .. n /\ ListOf(t)[j] = p
             \/ \E k \in 1 .. e : h < k /\ row[u][k] = p /\ k <= m /\ j = n + (k - h)
             \/ \E k \in 1 .. e : i < k /\ row[u][k] = p /\ k <= e /\ j = n + (m - h) + (k - i)
    <3> DEFINE q == ListOf(t)
               s == row[u]
               all == Given(q, s, h, m, i, e)
    <3>1. q \in Seq(Pages) /\ s \in Seq(Pages) /\ e = Len(s) /\ ListOf(t)' = all
      BY <1>0, <2>5, <2>6 DEF Given
    <3> HIDE DEF q, s, e
    <3>2. /\ all \in Seq(Pages)
          /\ \A j, p : j \in 1 .. Len(all) /\ all[j] = p <=>
               \/ j \in 1 .. Len(q) /\ q[j] = p
               \/ \E k \in 1 .. Len(s) : h < k /\ s[k] = p /\ k <= m /\ j = Len(q) + (k - h)
               \/ \E k \in 1 .. Len(s) : i < k /\ s[k] = p /\ k <= e
                                         /\ j = Len(q) + (m - h) + (k - i)
      <4>1. /\ h \in Nat /\ m \in Nat /\ i \in Nat /\ e \in Nat
            /\ h <= m /\ m <= i /\ i <= e /\ e <= Len(s)
        BY <2>3, <3>1
      <4>2. q \in Seq(Pages) /\ s \in Seq(Pages)
        BY <3>1
      <4>3. QED
        <5>1. Extends(q, s, h, m, i, e)
          BY <4>1, <4>2, GivenBack
        <5>2. QED
          BY <5>1 DEF Extends
    <3> HIDE DEF all
    <3>3. QED
      BY <3>1, <3>2, Zenon DEF q, s
  <2>8. \A k, p : InRow(u, k, p) <=> k \in 1 .. e /\ h < k /\ row[u][k] = p
    <3>1. h = req[u].handle \div PageSize
      BY <2>2 DEF Current, h, HandlePages
    <3>2. QED
      BY <2>1, <2>3, <3>1 DEF InRow
  <2>9. ~ req'[u].held /\ \A v \in Uids : v # u => req'[v] = req[v] /\ row'[v] = row[v]
    BY <2>5, <2>6 DEF Requests
  <2>10. ASSUME NEW p \in Pages PROVE Single(p)'
    <3>1. Single(p)
      BY DEF Pool
    <3>2. \A j : InList(t, j, p) => j \in 1 .. n
      BY DEF InList
    <3>3. \A k : InRow(u, k, p) => k \in Nat /\ k > h
      BY <2>3, <2>8
    <3>4. \A s \in Lists : s # t => \A j : InList(s, j, p)' <=> InList(s, j, p)
      BY DEF InList
    <3>5. \A j : InList(t, j, p)' <=>
            \/ InList(t, j, p)
            \/ \E k : InRow(u, k, p) /\ k <= m /\ j = n + (k - h)
            \/ \E k : InRow(u, k, p) /\ i < k /\ k <= e /\ j = n + (m - h) + (k - i)
      <4>1. \A k : k \in 1 .. e /\ i < k => h < k /\ k <= e
        BY <2>3
      <4>2. QED
        BY <2>7, <2>8, <4>1, ZenonT(30) DEF InList
    <3>6. \A q : InTree(q, p)' <=>
            \/ InTree(q, p)
            \/ \E k : InRow(u, k, p) /\ m < k /\ k <= i /\ q = FirstTokens(u, k * PageSize)
      BY <2>4, <2>5, Zenon DEF InTree
    <3>7. \A v, k : InRow(v, k, p)' <=> InRow(v, k, p) /\ (v = u => k > e)
      <4>1. \A k : ~ InRow(u, k, p)' /\ ~ (InRow(u, k, p) /\ k > e)
        BY <2>3, <2>8, <2>9 DEF InRow, Live
      <4>2. \A v, k : v # u => (InRow(v, k, p)' <=> InRow(v, k, p))
        BY <2>9 DEF InRow, Live
      <4>3. QED
        BY <4>1, <4>2
    <3>8. n \in Nat
      BY <1>0
    <3> HIDE DEF n, e
    <3>9. QED
      BY <2>3, <3>1, <3>2, <3>3, <3>4, <3>5, <3>6, <3>7, <3>8, HandOver
  <2>11. \A q \in DOMAIN tree' : tree'[q] \in Pages
    <3>1. \A q, p : InTree(q, p) => p \in Pages
      BY DEF InTree, Pool
    <3>2. \A k, p : InRow(u, k, p) => p \in Pages
      BY <2>6, <2>8
    <3>3. QED
      BY <2>4, <2>5, <3>1, <3>2
  <2>12. \A s \in Lists : ListOf(s)' \in Seq(Pages)
    BY <1>0, <2>7
  <2>13. free' \in Seq(Pages) /\ drainer'.lazy \in Seq(Pages)
    BY <2>12 DEF ListOf, Lists
  <2>14. QED
    BY <2>10, <2>11, <2>13 DEF Pool
<1>3. QED
  BY <1>1, <1>2

(* cache_req(finished=False): the duplicates wait to be freed, the row     *)
(* points at the cache's pages instead.                                    *)
LEMMA PoolCommitted ==
  ASSUME LocksInv, Rows, Pool, NEW u \in Live, CommitPrefix(u, Appended(u)), text' = text,
         free' = free, drainer'.lazy = drainer.lazy \o Duplicates(u, Appended(u))
  PROVE  Pool' /\ row' \in [Uids -> Seq(Pages)] /\ Len(row'[u]) = Len(row[u])
         /\ \A v \in Uids : v # u => row'[v] = row[v]
<1> DEFINE r == Appended(u)
           h == HandlePages(r)
           m == CachedPages(u, r)
           i == InsertPages(u, r)
           n == Len(drainer.lazy)
           s == row[u]
<1>1. Current(u, r) /\ Lengths /\ u \in Uids
  BY CurrentNow DEF LocksInv, Live
<1>2. /\ row \in [Uids -> Seq(Pages)] /\ s \in Seq(Pages) /\ drainer.lazy \in Seq(Pages)
      /\ req \in [Uids -> Requests]
  BY <1>1 DEF Rows, Pool, Lengths
<1>3. /\ h \in Nat /\ m \in Nat /\ i \in Nat /\ Len(s) \in Nat
      /\ h <= m /\ m <= i /\ i <= Len(s)
  BY <1>1, Spans
<1>4. \A q, p : q \in DOMAIN InsertTree(u, r) /\ InsertTree(u, r)[q] = p <=>
           \/ InTree(q, p)
           \/ \E k : InRow(u, k, p) /\ m < k /\ k <= i /\ q = FirstTokens(u, k * PageSize)
  <2> HIDE DEF r, s, n
  <2>1. Current(u, r)
    BY <1>1
  <2>2. QED
    <3> HIDE DEF m, i, h
    <3>1. \A q, p : q \in DOMAIN InsertTree(u, r) /\ InsertTree(u, r)[q] = p <=>
            \/ InTree(q, p)
            \/ \E k : /\ InRow(u, k, p) /\ CachedPages(u, r) < k /\ k <= InsertPages(u, r)
                      /\ q = FirstTokens(u, k * PageSize)
      BY <2>1, InsertedPlaces, ZenonT(60)
    <3>2. QED
      BY <3>1, Zenon DEF m, i
<1>5. /\ tree' = InsertTree(u, r) /\ row' = [row EXCEPT ![u] = CommitRow(u, r)]
      /\ req' = [req EXCEPT ![u] = [r EXCEPT !.handle = Len(InsertIds(u, r))]]
  BY DEF CommitPrefix
<1>6. /\ CommitRow(u, r) \in Seq(Pages) /\ Len(CommitRow(u, r)) = Len(s)
      /\ \A k \in 1 .. Len(s) : k > m => CommitRow(u, r)[k] = s[k]
  <2> DEFINE c(k) == IF k > h /\ k <= m THEN tree[FirstTokens(u, k * PageSize)] ELSE s[k]
  <2>1. CommitRow(u, r) = [k \in 1 .. Len(s) |-> c(k)]
    BY DEF CommitRow, HandlePages, CachedPages
  <2>2. ASSUME NEW k \in 1 .. Len(s) PROVE c(k) \in Pages
    <3>1. CASE k > h /\ k <= m
      <4>1. k \in 1 .. i
        BY <1>3, <3>1
      <4>2. FirstTokens(u, k * PageSize) \in DOMAIN tree
        BY <1>1, <3>1, <4>1, InsertedPath
      <4>3. QED
        BY <3>1, <4>2 DEF Pool
    <3>2. CASE ~ (k > h /\ k <= m)
      BY <1>2, <3>2
    <3>3. QED
      BY <3>1, <3>2
  <2> HIDE DEF c, s, m
  <2>3. CommitRow(u, r) \in Seq(Pages) /\ Len(CommitRow(u, r)) = Len(s)
    BY <1>3, <2>1, <2>2
  <2>4. \A k \in 1 .. Len(s) : k > m => CommitRow(u, r)[k] = s[k]
    <3>1. \A k \in 1 .. Len(s) : CommitRow(u, r)[k] = c(k)
      BY <2>1
    <3>2. QED
      BY <1>3, <3>1 DEF c
  <2>5. QED
    BY <2>3, <2>4
<1>7. /\ row' \in [Uids -> Seq(Pages)] /\ row'[u] = CommitRow(u, r)
      /\ \A v \in Uids : v # u => row'[v] = row[v] /\ req'[v] = req[v]
      /\ req'[u].held /\ req'[u].handle \div PageSize = i
  <2>1. r \in Requests /\ r.held
    BY <1>1, CurrentNow DEF Current
  <2> HIDE DEF r
  <2>2. QED
    BY <1>1, <1>2, <1>5, <1>6, <2>1 DEF Requests, InsertPages
<1>8. \A k, p : InRow(u, k, p) <=> k \in 1 .. Len(s) /\ h < k /\ s[k] = p
  <2>1. h = req[u].handle \div PageSize
    BY <1>1 DEF Current, HandlePages
  <2>2. QED
    BY <1>3, <2>1 DEF InRow
<1>9. \A k, p : InRow(u, k, p)' <=> InRow(u, k, p) /\ k > i
  <2>1. u \in Live'
    BY <1>1, <1>7 DEF Live
  <2>2. \A k, p : InRow(u, k, p)' <=> k \in 1 .. Len(s) /\ k > i /\ CommitRow(u, r)[k] = p
    BY <1>6, <1>7, <2>1 DEF InRow
  <2>3. \A k \in 1 .. Len(s) : k > i => k > m /\ k > h
    BY <1>3
  <2> HIDE DEF s, i, m, h, r
  <2>4. QED
    BY <1>6, <1>8, <2>2, <2>3
<1>10. \A v, k, p : v # u => (InRow(v, k, p)' <=> InRow(v, k, p))
  BY <1>7 DEF InRow, Live
<1>11. drainer'.lazy = Given(drainer.lazy, s, h, m, i, i)
  <2>1. Duplicates(u, r) = SubSeq(s, h + 1, m)
    BY DEF Duplicates, HandlePages, CachedPages
  <2>2. SubSeq(s, h + 1, m) \in Seq(Pages)
    BY <1>2, <1>3, CutOut
  <2>3. SubSeq(s, i + 1, i) = <<>>
    <3>1. SubSeq(s, i + 1, i) \in Seq(Pages) /\ Len(SubSeq(s, i + 1, i)) = i - i
      BY <1>2, <1>3, CutOut
    <3>2. QED
      BY <1>3, <3>1
  <2> HIDE DEF s, i, h, m, r
  <2>4. SubSeq(s, h + 1, m) \o <<>> = SubSeq(s, h + 1, m)
    BY <2>2
  <2>5. QED
    BY <2>1, <2>3, <2>4 DEF Given, r
<1> HIDE DEF s, i, m, h
<1>12. Extends(drainer.lazy, s, h, m, i, i)
  BY <1>2, <1>3, GivenBack
<1>13. ASSUME NEW p \in Pages PROVE Single(p)'
  <2> DEFINE t == "lazy"
  <2>1. Single(p) /\ t \in Lists
    BY DEF Pool, Lists
  <2>2. \A j : InList(t, j, p) => j \in 1 .. n
    BY DEF InList, ListOf
  <2>3. \A k : InRow(u, k, p) => k \in Nat /\ k > h
    BY <1>3, <1>8
  <2>4. \A x \in Lists : x # t => \A j : InList(x, j, p)' <=> InList(x, j, p)
    BY DEF InList, ListOf, Lists
  <2>5. \A j : InList(t, j, p)' <=>
          \/ InList(t, j, p)
          \/ \E k : InRow(u, k, p) /\ k <= m /\ j = n + (k - h)
          \/ \E k : InRow(u, k, p) /\ i < k /\ k <= i /\ j = n + (m - h) + (k - i)
    <3>1. \A j : InList(t, j, p) <=> j \in 1 .. n /\ drainer.lazy[j] = p
      BY DEF InList, ListOf
    <3>2. \A j : InList(t, j, p)' <=> j \in 1 .. Len(Given(drainer.lazy, s, h, m, i, i))
                                      /\ Given(drainer.lazy, s, h, m, i, i)[j] = p
      BY <1>11 DEF InList, ListOf
    <3>3. \A k : k \in 1 .. Len(s) /\ i < k /\ k <= i => FALSE
      BY <1>3
    <3>4. \A j : InList(t, j, p)' <=>
            \/ j \in 1 .. n /\ drainer.lazy[j] = p
            \/ \E k \in 1 .. Len(s) : h < k /\ s[k] = p /\ k <= m /\ j = n + (k - h)
            \/ \E k \in 1 .. Len(s) : i < k /\ s[k] = p /\ k <= i /\ j = n + (m - h) + (k - i)
      BY <1>12, <3>2, Zenon DEF Extends
    <3>5. \A k : ~ (InRow(u, k, p) /\ i < k /\ k <= i)
      BY <1>8, <3>3, Zenon
    <3>6. QED
      BY <1>8, <3>1, <3>3, <3>4, <3>5, Zenon
  <2>6. \A q : InTree(q, p)' <=>
          \/ InTree(q, p)
          \/ \E k : InRow(u, k, p) /\ m < k /\ k <= i /\ q = FirstTokens(u, k * PageSize)
    BY <1>4, <1>5, Zenon DEF InTree
  <2>7. \A v, k : InRow(v, k, p)' <=> InRow(v, k, p) /\ (v = u => k > i)
    BY <1>9, <1>10
  <2>8. n \in Nat /\ i <= i
    BY <1>2, <1>3
  <2> HIDE DEF n, t
  <2>9. QED
    BY <1>3, <2>1, <2>2, <2>3, <2>4, <2>5, <2>6, <2>7, <2>8, HandOver
<1>14. \A q \in DOMAIN tree' : tree'[q] \in Pages
  <2>1. \A q, p : InTree(q, p) => p \in Pages
    BY DEF InTree, Pool
  <2>2. \A k, p : InRow(u, k, p) => p \in Pages
    BY <1>2, <1>8
  <2>3. QED
    BY <1>4, <1>5, <2>1, <2>2
<1>15. drainer'.lazy \in Seq(Pages) /\ free' \in Seq(Pages)
  BY <1>11, <1>12 DEF Extends, Pool
<1>16. Pool'
  BY <1>13, <1>14, <1>15 DEF Pool
<1>17. QED
  BY <1>6, <1>7, <1>16 DEF s

-----------------------------------------------------------------------------
(* A finite set as a sequence has each member once.                        *)
LEMMA Listed ==
  ASSUME NEW S, IsFiniteSet(S)
  PROVE  /\ Cardinality(S) \in Nat
         /\ SetToSeq(S) \in [1 .. Cardinality(S) -> S]
         /\ \A i, j \in 1 .. Cardinality(S) : SetToSeq(S)[i] = SetToSeq(S)[j] => i = j
         /\ \A x \in S : \E i \in 1 .. Cardinality(S) : SetToSeq(S)[i] = x
<1> DEFINE n == Cardinality(S)
           Good(f) == f \in [1 .. n -> S] /\ IsInjective(f)
           f == SetToSeq(S)
<1>1. n \in Nat /\ ExistsBijection(1 .. n, S)
  BY FS_CardinalityType
<1>2. PICK g \in Bijection(1 .. n, S) : TRUE
  BY <1>1 DEF ExistsBijection
<1>3. Good(g)
  BY <1>2 DEF Bijection, Injection, Surjection
<1>4. f = CHOOSE h \in [1 .. n -> S] : IsInjective(h)
  BY Zenon DEF SetToSeq
<1>5. f \in [1 .. n -> S] /\ IsInjective(f)
  BY <1>3, <1>4, Zenon
<1> HIDE DEF f
<1>6. f \in Injection(1 .. n, S)
  BY <1>5, Zenon DEF Injection
<1>7. IsFiniteSet(1 .. n) /\ Cardinality(1 .. n) = n
  BY <1>1, FS_Interval
<1>8. f \in Surjection(1 .. n, S)
  BY <1>6, <1>7, FS_Injection
<1>9. QED
  BY <1>1, <1>5, <1>8 DEF Surjection, IsInjective, f

(* A set of prefixes whose pages are in one place is finite.               *)
LEMMA EvictedFinite ==
  ASSUME Pool, NEW E \in SUBSET DOMAIN tree
  PROVE  IsFiniteSet(E)
<1> DEFINE f == [q \in E |-> tree[q]]
<1>1. f \in [E -> Pages]
  BY DEF Pool
<1>2. ASSUME NEW q \in E, NEW r \in E, f[q] = f[r] PROVE q = r
  <2>1. tree[q] \in Pages /\ tree[q] = tree[r]
    BY <1>2 DEF Pool
  <2>2. InTree(q, tree[q]) /\ InTree(r, tree[q]) /\ Single(tree[q])
    BY <2>1 DEF InTree, Pool
  <2>3. QED
    BY <2>2, Zenon DEF Single
<1>3. f \in Injection(E, Pages)
  <2> HIDE DEF f
  <2>1. DOMAIN f = E
    BY <1>1
  <2>2. QED
    BY <1>1, <1>2, <2>1, Zenon DEF Injection, IsInjective
<1>4. QED
  BY <1>3, SchedulerConstants, FS_Injection

(* Sums of naturals grow, and every number up to the last lies in one of   *)
(* their steps.                                                            *)
LEMMA SumsGrow ==
  ASSUME NEW n \in Nat, NEW f, NEW a, f[0] = 0,
         \A i \in 1 .. n : a[i] \in Nat /\ f[i] = f[i - 1] + a[i]
  PROVE  /\ \A i \in 0 .. n : f[i] \in Nat
         /\ \A i, j \in 0 .. n : i <= j => f[i] <= f[j]
         /\ \A x \in 1 .. f[n] : \E i \in 1 .. n : f[i - 1] < x /\ x <= f[i]
<1>1. \A i \in 0 .. n : f[i] \in Nat
  <2> DEFINE Bad == {i \in 0 .. n : f[i] \notin Nat}
  <2>1. SUFFICES ASSUME Bad # {} PROVE FALSE
    OBVIOUS
  <2>2. Bad \in SUBSET Nat
    OBVIOUS
  <2> HIDE DEF Bad
  <2>3. PICK i \in Bad : \A j \in Bad : i <= j
    BY <2>1, <2>2, LeastOne
  <2>4. i \in 0 .. n /\ f[i] \notin Nat /\ i # 0
    BY DEF Bad
  <2>5. i \in 1 .. n /\ i - 1 \in 0 .. n /\ i - 1 \notin Bad
    BY <2>3, <2>4
  <2>6. f[i - 1] \in Nat
    BY <2>5 DEF Bad
  <2>7. QED
    BY <2>4, <2>5, <2>6
<1>2. ASSUME NEW i \in 0 .. n, NEW j \in 0 .. n, i <= j, ~ (f[i] <= f[j]) PROVE FALSE
  <2> DEFINE Bad == {k \in 0 .. n : i <= k /\ ~ (f[i] <= f[k])}
  <2>1. Bad \in SUBSET Nat /\ j \in Bad
    BY <1>2
  <2> HIDE DEF Bad
  <2>2. PICK k \in Bad : \A l \in Bad : k <= l
    BY <2>1, LeastOne
  <2>3. k \in 0 .. n /\ i <= k /\ ~ (f[i] <= f[k]) /\ f[i] \in Nat /\ f[k] \in Nat
    BY <1>1 DEF Bad
  <2>4. k # i
    BY <2>3
  <2>5. k \in 1 .. n /\ k - 1 \in 0 .. n /\ i <= k - 1 /\ k - 1 \notin Bad
    BY <2>2, <2>3, <2>4
  <2>6. f[i] <= f[k - 1] /\ f[k - 1] \in Nat
    BY <1>1, <2>5 DEF Bad
  <2>7. QED
    BY <2>3, <2>5, <2>6
<1>3. ASSUME NEW x \in 1 .. f[n]
      PROVE  \E i \in 1 .. n : f[i - 1] < x /\ x <= f[i]
  <2> DEFINE S == {i \in 0 .. n : x <= f[i]}
  <2>1. S \in SUBSET Nat /\ n \in S /\ x \in Nat /\ x > 0
    BY <1>1
  <2> HIDE DEF S
  <2>2. PICK i \in S : \A j \in S : i <= j
    BY <2>1, LeastOne
  <2>3. i \in 0 .. n /\ x <= f[i] /\ i # 0
    BY <2>1 DEF S
  <2>4. i \in 1 .. n /\ i - 1 \in 0 .. n /\ i - 1 \notin S
    BY <2>2, <2>3
  <2>5. f[i - 1] < x
    BY <1>1, <2>1, <2>4 DEF S
  <2>6. QED
    BY <2>3, <2>4, <2>5
<1>4. QED
  BY <1>1, <1>2, <1>3

IsBefore(f, n) ==
    f = [j \in 0 .. n |-> IF j = 0 THEN 0 ELSE f[j - 1] + NewPages(Batch.reqs[j])]

(* The recursion of PagesBefore has a solution.                            *)
LEMMA BeforeExists ==
  ASSUME NEW n \in Nat
  PROVE  \E f : IsBefore(f, n)
<1> DEFINE Bad == {k \in Nat : ~ \E f : IsBefore(f, k)}
<1>1. SUFFICES ASSUME Bad # {} PROVE FALSE
  OBVIOUS
<1>2. PICK k \in Bad : \A m \in Bad : k <= m
  <2>1. Bad \in SUBSET Nat
    OBVIOUS
  <2> HIDE DEF Bad
  <2>2. QED
    BY <1>1, <2>1, LeastOne
<1> HIDE DEF NewPages, Batch
<1>3. CASE k = 0
  <2>1. IsBefore([j \in 0 .. 0 |-> 0], 0)
    BY DEF IsBefore
  <2>2. QED
    BY <1>2, <1>3, <2>1
<1>4. CASE k # 0
  <2>1. k - 1 \in Nat /\ k - 1 \notin Bad
    BY <1>2, <1>4
  <2>2. PICK f : IsBefore(f, k - 1)
    BY <2>1
  <2>3. f = [j \in 0 .. k - 1 |-> IF j = 0 THEN 0 ELSE f[j - 1] + NewPages(Batch.reqs[j])]
    BY <2>2 DEF IsBefore
  <2> DEFINE g == [j \in 0 .. k |-> IF j < k THEN f[j] ELSE f[k - 1] + NewPages(Batch.reqs[k])]
  <2>4. ASSUME NEW j \in 0 .. k
        PROVE  g[j] = IF j = 0 THEN 0 ELSE g[j - 1] + NewPages(Batch.reqs[j])
    <3>1. CASE j = k
      BY <1>4, <3>1
    <3>2. CASE j # k
      <4>1. j \in 0 .. k - 1 /\ (j # 0 => j - 1 < k /\ j - 1 \in 0 .. k)
        BY <3>2
      <4>2. f[j] = IF j = 0 THEN 0 ELSE f[j - 1] + NewPages(Batch.reqs[j])
        BY <2>3, <4>1
      <4>3. QED
        BY <4>1, <4>2
    <3>3. QED
      BY <3>1, <3>2
  <2>5. IsBefore(g, k)
    BY <2>4 DEF IsBefore
  <2>6. QED
    BY <1>2, <2>5
<1>5. QED
  BY <1>3, <1>4

(* The slices that _allocate cuts for the requests of a batch.             *)
LEMMA Slices ==
  ASSUME Len(Batch.reqs) \in Nat,
         \A i \in 1 .. Len(Batch.reqs) : NewPages(Batch.reqs[i]) \in Nat
  PROVE  /\ PagesBefore(1) = 0 /\ needed_pages \in Nat
         /\ \A i \in 1 .. Len(Batch.reqs) :
               /\ PagesBefore(i) \in Nat
               /\ PagesBefore(i + 1) = PagesBefore(i) + NewPages(Batch.reqs[i])
               /\ PagesBefore(i + 1) <= needed_pages
         /\ \A i, j \in 1 .. Len(Batch.reqs) : i < j => PagesBefore(i + 1) <= PagesBefore(j)
         /\ \A x \in 1 .. needed_pages : \E i \in 1 .. Len(Batch.reqs) :
               PagesBefore(i) < x /\ x <= PagesBefore(i + 1)
<1> DEFINE n == Len(Batch.reqs)
           f == CHOOSE g : IsBefore(g, n)
           a == [i \in 1 .. n |-> NewPages(Batch.reqs[i])]
<1>1. IsBefore(f, n)
  BY BeforeExists, Zenon
<1>2. \A i : PagesBefore(i) = f[i - 1]
  BY Zenon DEF PagesBefore, IsBefore
<1>3. needed_pages = f[n]
  <2> HIDE DEF f
  <2>1. needed_pages = PagesBefore(n + 1)
    BY DEF needed_pages
  <2>2. n \in Nat
    OBVIOUS
  <2> HIDE DEF n
  <2>3. PICK k \in Nat : k = n + 1
    BY <2>2
  <2>4. PagesBefore(k) = f[k - 1] /\ k - 1 = n
    BY <1>2, <2>2, <2>3
  <2>5. QED
    BY <2>1, <2>3, <2>4
<1> HIDE DEF f
<1>4. \A j \in 0 .. n : f[j] = IF j = 0 THEN 0 ELSE f[j - 1] + NewPages(Batch.reqs[j])
  <2> HIDE DEF n
  <2>1. f = [j \in 0 .. n |-> IF j = 0 THEN 0 ELSE f[j - 1] + NewPages(Batch.reqs[j])]
    BY <1>1, Zenon DEF IsBefore
  <2>2. QED
    BY <2>1, Zenon
<1> HIDE DEF NewPages, Batch
<1>5. n \in Nat /\ f[0] = 0 /\ \A i \in 1 .. n : a[i] \in Nat /\ f[i] = f[i - 1] + a[i]
  BY <1>4
<1> HIDE DEF a, n
<1>6. /\ \A i \in 0 .. n : f[i] \in Nat
      /\ \A i, j \in 0 .. n : i <= j => f[i] <= f[j]
      /\ \A x \in 1 .. f[n] : \E i \in 1 .. n : f[i - 1] < x /\ x <= f[i]
  BY <1>5, SumsGrow, ZenonT(60)
<1>7. PagesBefore(1) = 0 /\ needed_pages \in Nat
  BY <1>2, <1>3, <1>5, <1>6
<1>8. ASSUME NEW i \in 1 .. n
      PROVE  /\ PagesBefore(i) = f[i - 1] /\ PagesBefore(i + 1) = f[i] /\ PagesBefore(i) \in Nat
             /\ PagesBefore(i + 1) = PagesBefore(i) + NewPages(Batch.reqs[i])
             /\ PagesBefore(i + 1) <= needed_pages
  <2>1. i - 1 \in 0 .. n /\ i \in 0 .. n /\ n \in 0 .. n /\ i <= n /\ i + 1 - 1 = i
    BY <1>5
  <2>2. PagesBefore(i) = f[i - 1] /\ PagesBefore(i + 1) = f[i]
    BY <1>2, <2>1
  <2>3. a[i] = NewPages(Batch.reqs[i])
    BY DEF a, n
  <2>4. QED
    BY <1>3, <1>5, <1>6, <2>1, <2>2, <2>3
<1>9. ASSUME NEW i \in 1 .. n, NEW j \in 1 .. n, i < j
      PROVE  PagesBefore(i + 1) <= PagesBefore(j)
  <2>1. i \in 0 .. n /\ j - 1 \in 0 .. n /\ i <= j - 1
    BY <1>5, <1>9
  <2>2. QED
    BY <1>6, <1>8, <2>1
<1>10. ASSUME NEW x \in 1 .. needed_pages
       PROVE  \E i \in 1 .. n : PagesBefore(i) < x /\ x <= PagesBefore(i + 1)
  BY <1>3, <1>6, <1>8
<1>11. QED
  BY <1>7, <1>8, <1>9, <1>10 DEF n

-----------------------------------------------------------------------------
(* A launch.  What is evicted joins the free list, and the batch is served *)
(* from its front.                                                         *)
PoolOf(E) == free \o [i \in 1 .. Cardinality(E) |-> tree[SetToSeq(E)[i]]]

AtPool(E, j, p) == j \in 1 .. Len(PoolOf(E)) /\ PoolOf(E)[j] = p
Spared(E, q, p) == InTree(q, p) /\ q \notin E

(* The page is in one place, before the batch is served.                   *)
SingleServed(E, p) ==
    /\ \/ \E j : AtPool(E, j, p)
       \/ \E q : Spared(E, q, p)
       \/ \E u, k : InRow(u, k, p)
    /\ \A i, j : AtPool(E, i, p) /\ AtPool(E, j, p) => i = j
    /\ \A q, r : Spared(E, q, p) /\ Spared(E, r, p) => q = r
    /\ \A u, v, k, l : InRow(u, k, p) /\ InRow(v, l, p) => u = v /\ k = l
    /\ \A j, q : ~ (AtPool(E, j, p) /\ Spared(E, q, p))
    /\ \A j, u, k : ~ (AtPool(E, j, p) /\ InRow(u, k, p))
    /\ \A q, u, k : ~ (Spared(E, q, p) /\ InRow(u, k, p))

LEMMA PoolServes ==
  ASSUME Pool, NEW E \in SUBSET DOMAIN tree
  PROVE  /\ PoolOf(E) \in Seq(Pages) /\ Cardinality(E) \in Nat /\ Len(free) \in Nat
         /\ Len(PoolOf(E)) = Len(free) + Cardinality(E)
         /\ \A j, p : AtPool(E, j, p) <=>
               \/ InList("free", j, p)
               \/ \E i \in 1 .. Cardinality(E) : j = Len(free) + i /\ InTree(SetToSeq(E)[i], p)
         /\ \A i \in 1 .. Cardinality(E) : SetToSeq(E)[i] \in E
         /\ \A i, j \in 1 .. Cardinality(E) : SetToSeq(E)[i] = SetToSeq(E)[j] => i = j
         /\ \A q \in E : \E i \in 1 .. Cardinality(E) : SetToSeq(E)[i] = q
<1> DEFINE n == Cardinality(E)
           s == SetToSeq(E)
           t == [i \in 1 .. n |-> tree[s[i]]]
           all == PoolOf(E)
<1>1. /\ n \in Nat /\ s \in [1 .. n -> E]
      /\ \A i, j \in 1 .. n : s[i] = s[j] => i = j
      /\ \A x \in E : \E i \in 1 .. n : s[i] = x
  BY EvictedFinite, Listed
<1> HIDE DEF n, s
<1>2. \A i \in 1 .. n : s[i] \in E /\ s[i] \in DOMAIN tree /\ tree[s[i]] \in Pages
  BY <1>1 DEF Pool
<1>3. t \in Seq(Pages) /\ Len(t) = n /\ \A i \in 1 .. n : t[i] = tree[s[i]]
  BY <1>1, <1>2
<1>4. free \in Seq(Pages) /\ Len(free) \in Nat /\ all = free \o t
  BY DEF Pool, PoolOf, n, s
<1> HIDE DEF t, all
<1>5. all \in Seq(Pages) /\ Len(all) = Len(free) + n
  <2>1. free \in Seq(Pages) /\ t \in Seq(Pages) /\ all = free \o t
    BY <1>3, <1>4
  <2>2. all \in Seq(Pages) /\ Len(all) = Len(free) + Len(t)
    BY <2>1
  <2>3. QED
    BY <1>3, <2>2
<1>6. \A j \in 1 .. Len(free) + n : all[j] = IF j <= Len(free) THEN free[j] ELSE t[j - Len(free)]
  <2>1. free \in Seq(Pages) /\ t \in Seq(Pages) /\ all = free \o t
    BY <1>3, <1>4
  <2>2. \A j \in 1 .. Len(free) + Len(t) : all[j] = IF j <= Len(free) THEN free[j] ELSE t[j - Len(free)]
    BY <2>1
  <2>3. QED
    BY <1>3, <2>2
<1>7. ASSUME NEW i \in 1 .. n
      PROVE  Len(free) + i \in 1 .. Len(all) /\ all[Len(free) + i] = tree[s[i]]
  <2>1. PICK x \in Nat : x = Len(free) + i
    BY <1>1, <1>4
  <2>2. x \in 1 .. Len(free) + n /\ ~ (x <= Len(free)) /\ x - Len(free) = i
    BY <1>1, <1>4, <2>1
  <2>3. all[x] = t[i]
    BY <1>6, <2>2
  <2>4. QED
    BY <1>3, <1>5, <2>1, <2>2, <2>3
<1>8. ASSUME NEW j, NEW p, AtPool(E, j, p)
      PROVE  InList("free", j, p) \/ \E i \in 1 .. n : j = Len(free) + i /\ InTree(s[i], p)
  <2>1. j \in 1 .. Len(free) + n /\ all[j] = p
    BY <1>5, <1>8 DEF AtPool, all
  <2>2. CASE j <= Len(free)
    <3>1. j \in 1 .. Len(free) /\ free[j] = p
      BY <1>1, <1>4, <1>6, <2>1, <2>2
    <3>2. QED
      BY <3>1 DEF InList, ListOf
  <2>3. CASE ~ (j <= Len(free))
    <3>1. j - Len(free) \in 1 .. n /\ j = Len(free) + (j - Len(free))
      BY <1>1, <1>4, <2>1, <2>3
    <3>2. PICK i \in 1 .. n : j = Len(free) + i
      BY <3>1
    <3>3. tree[s[i]] = p
      BY <1>7, <2>1, <3>2
    <3>4. QED
      BY <1>2, <3>2, <3>3 DEF InTree
  <2>4. QED
    BY <2>2, <2>3
<1>9. ASSUME NEW j, NEW p, InList("free", j, p) PROVE AtPool(E, j, p)
  <2>1. j \in 1 .. Len(free) /\ free[j] = p
    BY <1>9 DEF InList, ListOf
  <2>2. j \in 1 .. Len(all) /\ all[j] = p
    BY <1>1, <1>4, <1>5, <1>6, <2>1
  <2>3. QED
    BY <2>2 DEF AtPool, all
<1>10. ASSUME NEW j, NEW p, NEW i \in 1 .. n, j = Len(free) + i, InTree(s[i], p)
       PROVE  AtPool(E, j, p)
  BY <1>7, <1>10 DEF AtPool, InTree, all
<1>11. QED
  BY <1>1, <1>2, <1>4, <1>5, <1>8, <1>9, <1>10 DEF all, n, s

LEMMA EvictedOnce ==
  ASSUME Pool, drainer.lazy = <<>>, NEW E \in SUBSET DOMAIN tree, NEW p \in Pages
  PROVE  SingleServed(E, p)
<1> DEFINE n == Cardinality(E)
           s == SetToSeq(E)
<1>1. /\ n \in Nat /\ Len(free) \in Nat
      /\ \A j : AtPool(E, j, p) <=>
             \/ InList("free", j, p)
             \/ \E i \in 1 .. n : j = Len(free) + i /\ InTree(s[i], p)
      /\ \A i \in 1 .. n : s[i] \in E
      /\ \A i, j \in 1 .. n : s[i] = s[j] => i = j
      /\ \A q \in E : \E i \in 1 .. n : s[i] = q
  BY PoolServes
<1>2. \A j : ~ InList("lazy", j, p)
  BY DEF InList, ListOf
<1>3. Single(p) /\ "free" \in Lists /\ \A t \in Lists : t = "free" \/ t = "lazy"
  BY DEF Pool, Lists
<1>4. \A j : InList("free", j, p) => j \in Nat /\ j <= Len(free)
  BY <1>1 DEF InList, ListOf
<1> HIDE DEF n, s
<1>5. /\ \/ \E j : InList("free", j, p)
         \/ \E q : InTree(q, p)
         \/ \E u, k : InRow(u, k, p)
      /\ \A i, j : InList("free", i, p) /\ InList("free", j, p) => i = j
      /\ \A q, r : InTree(q, p) /\ InTree(r, p) => q = r
      /\ \A u, v, k, l : InRow(u, k, p) /\ InRow(v, l, p) => u = v /\ k = l
      /\ \A i, q : ~ (InList("free", i, p) /\ InTree(q, p))
      /\ \A i, u, k : ~ (InList("free", i, p) /\ InRow(u, k, p))
      /\ \A q, u, k : ~ (InTree(q, p) /\ InRow(u, k, p))
  <2>1. \/ \E j : InList("free", j, p)
        \/ \E q : InTree(q, p)
        \/ \E u, k : InRow(u, k, p)
    <3>1. \/ \E t \in Lists : \E j : InList(t, j, p)
          \/ \E q : InTree(q, p)
          \/ \E u, k : InRow(u, k, p)
      BY <1>3, Zenon DEF Single
    <3>2. ASSUME NEW t \in Lists, NEW j, InList(t, j, p) PROVE InList("free", j, p)
      BY <1>2, <1>3, <3>2
    <3>3. QED
      BY <3>1, <3>2, Zenon
  <2>2. QED
    BY <1>3, <2>1 DEF Single
<1>6. \/ \E j : AtPool(E, j, p)
      \/ \E q : Spared(E, q, p)
      \/ \E u, k : InRow(u, k, p)
  <2>1. CASE \E q : InTree(q, p)
    <3>1. PICK q : InTree(q, p)
      BY <2>1
    <3>2. CASE q \in E
      <4>1. PICK i \in 1 .. n : s[i] = q
        BY <1>1, <3>2
      <4>2. AtPool(E, Len(free) + i, p)
        BY <1>1, <3>1, <4>1
      <4>3. QED
        BY <4>2
    <3>3. QED
      BY <3>1, <3>2 DEF Spared
  <2>2. QED
    BY <1>1, <1>5, <2>1
<1>7. \A i, j : AtPool(E, i, p) /\ AtPool(E, j, p) => i = j
  BY <1>1, <1>5
<1>8. \A j, q : ~ (AtPool(E, j, p) /\ Spared(E, q, p))
  BY <1>1, <1>5 DEF Spared
<1>9. \A j, u, k : ~ (AtPool(E, j, p) /\ InRow(u, k, p))
  BY <1>1, <1>5
<1>10. QED
  BY <1>5, <1>6, <1>7, <1>8, <1>9, Zenon DEF SingleServed, Spared

(* The x-th page of the pool is the i-th request's: its next one or later. *)
Dealt(E, i, x, v, k, p) ==
    /\ i \in 1 .. Len(Batch.reqs) /\ v = Batch.reqs[i]
    /\ PagesBefore(i) < x /\ x <= PagesBefore(i + 1)
    /\ k = Len(row[v]) + (x - PagesBefore(i))
    /\ AtPool(E, x, p)

LEMMA DealtOnce ==
  ASSUME NEW E, NEW p, SingleServed(E, p), Len(Batch.reqs) \in Nat,
         \A i \in 1 .. Len(Batch.reqs) : NewPages(Batch.reqs[i]) \in Nat,
         \A j : ~ InList("lazy", j, p)',
         \A j : InList("free", j, p)' <=> j \in Nat \ {0} /\ AtPool(E, needed_pages + j, p),
         \A q : InTree(q, p)' <=> Spared(E, q, p),
         \A v, k : InRow(v, k, p)' <=> InRow(v, k, p) \/ \E i, x : Dealt(E, i, x, v, k, p)
  PROVE  Single(p)'
<1> DEFINE n == Len(Batch.reqs)
           b(i) == PagesBefore(i)
           m == needed_pages
           w(i) == Batch.reqs[i]
<1>1. /\ m \in Nat
      /\ \A i \in 1 .. n : b(i) \in Nat /\ b(i + 1) \in Nat /\ b(i + 1) <= m
      /\ \A i, j \in 1 .. n : i < j => b(i + 1) <= b(j)
      /\ \A x \in 1 .. m : \E i \in 1 .. n : b(i) < x /\ x <= b(i + 1)
  <2>1. /\ m \in Nat
        /\ \A i \in 1 .. n : /\ b(i) \in Nat /\ b(i + 1) = b(i) + NewPages(w(i))
                             /\ b(i + 1) <= m
        /\ \A i, j \in 1 .. n : i < j => b(i + 1) <= b(j)
        /\ \A x \in 1 .. m : \E i \in 1 .. n : b(i) < x /\ x <= b(i + 1)
    BY Slices
  <2> HIDE DEF m, b
  <2>2. \A i \in 1 .. n : b(i + 1) \in Nat
    BY <2>1
  <2>3. QED
    BY <2>1, <2>2
<1>2. \A x : AtPool(E, x, p) => x \in Nat \ {0}
  BY DEF AtPool
<1>3. \A i, x, v, k : Dealt(E, i, x, v, k, p) <=>
         /\ i \in 1 .. n /\ v = w(i) /\ b(i) < x /\ x <= b(i + 1)
         /\ k = Len(row[v]) + (x - b(i)) /\ AtPool(E, x, p)
  BY DEF Dealt
<1> HIDE DEF m, b, w, n
<1>4. CASE \A x : ~ AtPool(E, x, p)
  <2>1. /\ \A j : ~ InList("free", j, p)'
        /\ \A i, x, v, k : ~ Dealt(E, i, x, v, k, p)
    BY <1>3, <1>4 DEF m
  <2>2. \A t \in Lists : \A j : ~ InList(t, j, p)'
    BY <2>1 DEF Lists
  <2>3. \A v, k : InRow(v, k, p)' <=> InRow(v, k, p)
    BY <2>1
  <2>4. QED
    BY <1>4, <2>2, <2>3 DEF Single, SingleServed
<1>5. CASE \E x : AtPool(E, x, p)
  <2>1. PICK x : AtPool(E, x, p)
    BY <1>5
  <2>2. /\ \A y : AtPool(E, y, p) <=> y = x
        /\ \A q : ~ Spared(E, q, p)
        /\ \A v, k : ~ InRow(v, k, p)
        /\ x \in Nat \ {0}
    BY <1>2, <2>1 DEF SingleServed
  <2>3. \A q : ~ InTree(q, p)'
    BY <2>2
  <2>4. \A v, k : InRow(v, k, p)' <=> \E i \in 1 .. n : /\ v = w(i) /\ b(i) < x /\ x <= b(i + 1)
                                                       /\ k = Len(row[v]) + (x - b(i))
    <3>1. ASSUME NEW v, NEW k, NEW i, NEW y, Dealt(E, i, y, v, k, p)
          PROVE  i \in 1 .. n /\ v = w(i) /\ b(i) < x /\ x <= b(i + 1) /\ k = Len(row[v]) + (x - b(i))
      <4>1. y = x
        BY <1>3, <2>2, <3>1
      <4>2. QED
        BY <1>3, <3>1, <4>1
    <3>2. ASSUME NEW v, NEW k, NEW i \in 1 .. n, v = w(i), b(i) < x, x <= b(i + 1),
                 k = Len(row[v]) + (x - b(i))
          PROVE  Dealt(E, i, x, v, k, p)
      BY <1>3, <2>1, <3>2
    <3>3. \A v, k : InRow(v, k, p)' <=> \E i, y : Dealt(E, i, y, v, k, p)
      BY <2>2
    <3>4. ASSUME NEW v, NEW k
          PROVE  (\E i, y : Dealt(E, i, y, v, k, p)) <=>
             \E i \in 1 .. n : v = w(i) /\ b(i) < x /\ x <= b(i + 1) /\ k = Len(row[v]) + (x - b(i))
      <4>1. ASSUME NEW i, NEW y, Dealt(E, i, y, v, k, p)
            PROVE  \E j \in 1 .. n : v = w(j) /\ b(j) < x /\ x <= b(j + 1) /\ k = Len(row[v]) + (x - b(j))
        BY <3>1, <4>1
      <4>2. ASSUME NEW i \in 1 .. n, v = w(i), b(i) < x, x <= b(i + 1), k = Len(row[v]) + (x - b(i))
            PROVE  \E j, y : Dealt(E, j, y, v, k, p)
        BY <3>2, <4>2
      <4>3. QED
        BY <4>1, <4>2
    <3>5. QED
      BY <3>3, <3>4
  <2>5. \A j : InList("free", j, p)' <=> j \in Nat \ {0} /\ m + j = x
    BY <2>2 DEF m
  <2>6. CASE x <= m
    <3>1. \A t \in Lists : \A j : ~ InList(t, j, p)'
      BY <1>1, <2>2, <2>5, <2>6 DEF Lists
    <3>2. PICK i \in 1 .. n : b(i) < x /\ x <= b(i + 1)
      <4>1. x \in 1 .. m
        BY <1>1, <2>2, <2>6
      <4>2. QED
        BY <1>1, <4>1
    <3>3. ASSUME NEW j \in 1 .. n, b(j) < x, x <= b(j + 1) PROVE j = i
      <4>1. j \in Nat /\ i \in Nat /\ b(i) \in Nat /\ b(j) \in Nat
            /\ b(i + 1) \in Nat /\ b(j + 1) \in Nat
        BY <1>1
      <4>2. ~ (i < j)
        BY <1>1, <2>2, <3>2, <3>3, <4>1, SMTT(30)
      <4>3. ~ (j < i)
        BY <1>1, <2>2, <3>2, <3>3, <4>1
      <4>4. QED
        BY <4>1, <4>2, <4>3
    <3>4. \A v, k : InRow(v, k, p)' <=> v = w(i) /\ k = Len(row[v]) + (x - b(i))
      BY <2>4, <3>2, <3>3
    <3>5. \E v, k : InRow(v, k, p)'
      BY <3>4, Zenon
    <3>6. \A u, v, k, l : InRow(u, k, p)' /\ InRow(v, l, p)' => u = v /\ k = l
      BY <3>4
    <3>7. QED
      BY <2>3, <3>1, <3>5, <3>6, Zenon DEF Single
  <2>7. CASE ~ (x <= m)
    <3>1. x - m \in Nat \ {0} /\ m + (x - m) = x
      BY <1>1, <2>2, <2>7
    <3>2. \A j : InList("free", j, p)' <=> j = x - m
      <4>1. \A j : j \in Nat \ {0} /\ m + j = x <=> j = x - m
        <5>1. \A j \in Nat : m + j = x <=> j = x - m
          BY <1>1, <2>2
        <5>2. QED
          BY <3>1, <5>1
      <4>2. QED
        BY <2>5, <4>1
    <3>3. \A v, k : ~ InRow(v, k, p)'
      BY <1>1, <2>2, <2>4, <2>7
    <3>4. \A t \in Lists : \A j : InList(t, j, p)' <=> t = "free" /\ j = x - m
      BY <3>2 DEF Lists
    <3>5. QED
      BY <2>3, <3>3, <3>4 DEF Single, Lists
  <2>8. QED
    BY <2>6, <2>7
<1>6. QED
  BY <1>4, <1>5

(* A row with a stretch of the first m pages of a list at its end.         *)
Grow(s, q, m, a, b) == s \o SubSeq(SubSeq(q, 1, m), a + 1, b)

Grows(s, q, m, a, b) ==
    /\ Grow(s, q, m, a, b) \in Seq(Pages)
    /\ Len(Grow(s, q, m, a, b)) = Len(s) + (b - a)
    /\ \A k, p : k \in 1 .. Len(Grow(s, q, m, a, b)) /\ Grow(s, q, m, a, b)[k] = p <=>
         \/ k \in 1 .. Len(s) /\ s[k] = p
         \/ \E x \in 1 .. Len(q) : a < x /\ x <= b /\ k = Len(s) + (x - a) /\ q[x] = p

LEMMA RowGrows ==
  ASSUME NEW s \in Seq(Pages), NEW q \in Seq(Pages), NEW m \in Nat, NEW a \in Nat, NEW b \in Nat,
         a <= b, b <= m, m <= Len(q)
  PROVE  Grows(s, q, m, a, b)
<1> DEFINE f == SubSeq(q, 1, m)
           c == SubSeq(f, a + 1, b)
           g == Grow(s, q, m, a, b)
<1>1. Len(s) \in Nat /\ Len(q) \in Nat
  OBVIOUS
<1>2. f \in Seq(Pages) /\ Len(f) = m /\ \A j \in 1 .. m : f[j] = q[j]
  BY <1>1
<1> HIDE DEF f
<1>3. c \in Seq(Pages) /\ Len(c) = b - a /\ \A j \in 1 .. b - a : c[j] = f[a + j]
  BY <1>2, CutOut
<1>4. g = s \o c
  BY DEF Grow, f
<1> HIDE DEF c, g
<1>5. g \in Seq(Pages) /\ Len(g) = Len(s) + Len(c)
  <2>1. s \in Seq(Pages) /\ c \in Seq(Pages) /\ g = s \o c
    BY <1>3, <1>4
  <2>2. QED
    BY <2>1
<1>6. \A j \in 1 .. Len(s) + Len(c) : g[j] = IF j <= Len(s) THEN s[j] ELSE c[j - Len(s)]
  <2>1. s \in Seq(Pages) /\ c \in Seq(Pages) /\ g = s \o c
    BY <1>3, <1>4
  <2>2. QED
    BY <2>1
<1>7. \A k \in 1 .. Len(s) : k \in 1 .. Len(g) /\ g[k] = s[k]
  BY <1>1, <1>3, <1>5, <1>6
<1>8. ASSUME NEW x \in 1 .. Len(q), a < x, x <= b
      PROVE  Len(s) + (x - a) \in 1 .. Len(g) /\ g[Len(s) + (x - a)] = q[x]
  <2> DEFINE y == Len(s) + (x - a)
  <2>1. y \in Nat /\ y = Len(s) + (x - a)
    BY <1>1, <1>8
  <2> HIDE DEF y
  <2>2. /\ y \in 1 .. Len(s) + Len(c) /\ ~ (y <= Len(s)) /\ y - Len(s) = x - a
        /\ x - a \in 1 .. b - a /\ a + (x - a) = x /\ x \in 1 .. m
    BY <1>1, <1>3, <1>8, <2>1
  <2>3. g[y] = c[x - a]
    BY <1>6, <2>2
  <2>4. c[x - a] = f[x]
    BY <1>3, <2>2
  <2>5. QED
    BY <1>2, <1>5, <2>1, <2>2, <2>3, <2>4
<1>9. ASSUME NEW k \in 1 .. Len(g)
      PROVE  k \in 1 .. Len(s) \/ \E x \in 1 .. Len(q) : a < x /\ x <= b /\ k = Len(s) + (x - a)
  <2>1. CASE k <= Len(s)
    BY <1>1, <2>1
  <2>2. CASE ~ (k <= Len(s))
    <3> DEFINE x == a + (k - Len(s))
    <3>1. x \in 1 .. Len(q) /\ a < x /\ x <= b /\ k = Len(s) + (x - a)
      BY <1>1, <1>3, <1>5, <2>2
    <3> HIDE DEF x
    <3>2. QED
      BY <3>1
  <2>3. QED
    BY <2>1, <2>2
<1>10. ASSUME NEW k, NEW p, k \in 1 .. Len(g), g[k] = p
       PROVE  \/ k \in 1 .. Len(s) /\ s[k] = p
              \/ \E x \in 1 .. Len(q) : a < x /\ x <= b /\ k = Len(s) + (x - a) /\ q[x] = p
  <2>1. CASE k \in 1 .. Len(s)
    BY <1>7, <1>10, <2>1
  <2>2. CASE \E x \in 1 .. Len(q) : a < x /\ x <= b /\ k = Len(s) + (x - a)
    <3>1. PICK x \in 1 .. Len(q) : a < x /\ x <= b /\ k = Len(s) + (x - a)
      BY <2>2
    <3>2. q[x] = p
      BY <1>8, <1>10, <3>1
    <3>3. QED
      BY <3>1, <3>2
  <2>3. QED
    BY <1>9, <1>10, <2>1, <2>2
<1>11. \A k, p : k \in 1 .. Len(g) /\ g[k] = p <=>
          \/ k \in 1 .. Len(s) /\ s[k] = p
          \/ \E x \in 1 .. Len(q) : a < x /\ x <= b /\ k = Len(s) + (x - a) /\ q[x] = p
  <2>1. ASSUME NEW k, NEW p, NEW x \in 1 .. Len(q), a < x, x <= b, k = Len(s) + (x - a), q[x] = p
        PROVE  k \in 1 .. Len(g) /\ g[k] = p
    BY <1>8, <2>1
  <2>2. ASSUME NEW k, NEW p, k \in 1 .. Len(s), s[k] = p
        PROVE  k \in 1 .. Len(g) /\ g[k] = p
    BY <1>7, <2>2, Zenon
  <2>3. QED
    BY <1>10, <2>1, <2>2, ZenonT(30)
<1>12. Len(g) = Len(s) + (b - a)
  BY <1>3, <1>5
<1>13. QED
  BY <1>5, <1>11, <1>12 DEF Grows, g

(* Who is in the batch holds a row, and its row grows to what is computed  *)
(* next.                                                                   *)
LEMMA BatchHolds ==
  ASSUME ReplyInv, Lengths, Holding, Rows, pc = "launch"
  PROVE  /\ Batch.reqs \in Seq(Uids) /\ Once(Batch.reqs) /\ Len(Batch.reqs) \in Nat
         /\ \A i \in 1 .. Len(Batch.reqs) : Batch.reqs[i] \in InBatch
         /\ InBatch \subseteq Live
         /\ \A u \in InBatch : /\ NewPages(u) \in Nat /\ Len(row[u]) \in Nat
                               /\ div_ceil(Most(req[u].alloc, req[u].dev)) = Len(row[u]) + NewPages(u)
<1>1. /\ Batch.reqs \in Seq(Uids) /\ Once(Batch.reqs)
      /\ \A u : In(Batch.reqs, u) => In(adder.reqs, u) \/ u \in running
  BY BatchOnce DEF ReplyInv
<1>2. \A i \in 1 .. Len(Batch.reqs) : Batch.reqs[i] \in InBatch
  BY DEF InBatch
<1>3. ASSUME NEW u \in InBatch PROVE u \in Live
  <2>1. In(Batch.reqs, u) /\ u \in Uids
    BY <1>1 DEF InBatch, In
  <2>2. QED
    BY <1>1, <2>1 DEF Holding, Live
<1>4. ASSUME NEW u \in InBatch
      PROVE  /\ NewPages(u) \in Nat /\ Len(row[u]) \in Nat
             /\ div_ceil(Most(req[u].alloc, req[u].dev)) = Len(row[u]) + NewPages(u)
  <2> DEFINE a == req[u].alloc
             d == req[u].dev
  <2>1. u \in Live /\ req[u] \in Requests
    BY <1>3 DEF Lengths, Live
  <2>2. a \in Nat /\ d \in Nat /\ req[u].cached \in Nat /\ req[u].cached <= a
        /\ Len(row[u]) = div_ceil(a)
    BY <2>1, RequestFields DEF Rows
  <2>3. Most(req[u].cached, a) = a
    BY <2>2 DEF Most
  <2> HIDE DEF a, d
  <2>4. NewPages(u) = Most(div_ceil(d) - div_ceil(a), 0)
    BY <2>3 DEF NewPages, a, d
  <2>5. div_ceil(a) \in Nat /\ div_ceil(d) \in Nat
    BY <2>2, StartedPages
  <2>6. CASE a <= d
    <3>1. div_ceil(a) <= div_ceil(d) /\ Most(a, d) = d
      BY <2>2, <2>6, StartedPages DEF Most
    <3>2. QED
      BY <2>2, <2>4, <2>5, <3>1 DEF Most, a, d
  <2>7. CASE ~ (a <= d)
    <3>1. div_ceil(d) <= div_ceil(a) /\ Most(a, d) = a
      BY <2>2, <2>7, StartedPages DEF Most
    <3>2. QED
      BY <2>2, <2>4, <2>5, <3>1 DEF Most, a, d
  <2>8. QED
    BY <2>6, <2>7
<1>5. Len(Batch.reqs) \in Nat
  BY <1>1
<1>6. QED
  BY <1>1, <1>2, <1>3, <1>4, <1>5

(* What a launch does to the free list and the rows.                       *)
LEMMA LaunchServes ==
  ASSUME ReplyInv, Lengths, Holding, Rows, Pool, NEW E \in SUBSET DOMAIN tree, NEW tokens,
         Launch(E, tokens)
  PROVE  /\ needed_pages \in Nat /\ needed_pages <= Len(PoolOf(E))
         /\ free' = SubSeq(PoolOf(E), needed_pages + 1, Len(PoolOf(E)))
         /\ \A u \in Uids \ InBatch : row'[u] = row[u]
         /\ \A i \in 1 .. Len(Batch.reqs) :
               /\ PagesBefore(i) \in Nat /\ PagesBefore(i) <= PagesBefore(i + 1)
               /\ PagesBefore(i + 1) = PagesBefore(i) + NewPages(Batch.reqs[i])
               /\ PagesBefore(i + 1) <= needed_pages
               /\ row'[Batch.reqs[i]] = Grow(row[Batch.reqs[i]], PoolOf(E), needed_pages,
                                             PagesBefore(i), PagesBefore(i + 1))
         /\ row' = [u \in Uids |-> row'[u]]
<1> DEFINE n == Len(Batch.reqs)
           m == needed_pages
           pool == PoolOf(E)
           taken == SubSeq(pool, 1, m)
<1>1. /\ pc = "launch"
      /\ IF m > Len(free) THEN E \in Evictions(m - Len(free)) ELSE E = {}
      /\ free' = SubSeq(pool, m + 1, Len(pool))
      /\ row' = GrownRows(taken)
  BY DEF Launch, PoolOf
<1>2. /\ Batch.reqs \in Seq(Uids) /\ Once(Batch.reqs) /\ n \in Nat
      /\ \A i \in 1 .. n : Batch.reqs[i] \in InBatch
      /\ \A u \in InBatch : NewPages(u) \in Nat
  BY <1>1, BatchHolds
<1>3. /\ m \in Nat
      /\ \A i \in 1 .. n : /\ PagesBefore(i) \in Nat
                           /\ PagesBefore(i + 1) = PagesBefore(i) + NewPages(Batch.reqs[i])
                           /\ PagesBefore(i + 1) <= m
  <2>1. \A i \in 1 .. n : NewPages(Batch.reqs[i]) \in Nat
    BY <1>2
  <2>2. QED
    BY <1>2, <2>1, Slices
<1>4. Cardinality(E) \in Nat /\ Len(free) \in Nat /\ Len(pool) = Len(free) + Cardinality(E)
  BY PoolServes
<1> HIDE DEF pool, m, n
<1>5. m <= Len(pool)
  <2>1. CASE m > Len(free)
    <3>1. E \in Evictions(m - Len(free))
      BY <1>1, <2>1
    <3>2. Cardinality(E) >= m - Len(free)
      BY <3>1 DEF Evictions
    <3>3. QED
      BY <1>3, <1>4, <3>2
  <2>2. CASE ~ (m > Len(free))
    BY <1>3, <1>4, <2>2
  <2>3. QED
    BY <2>1, <2>2
<1>6. \A u \in Uids \ InBatch : row'[u] = row[u]
  BY <1>1 DEF GrownRows
<1>7. ASSUME NEW i \in 1 .. n
      PROVE  row'[Batch.reqs[i]] = Grow(row[Batch.reqs[i]], pool, m, PagesBefore(i), PagesBefore(i + 1))
  <2> DEFINE u == Batch.reqs[i]
             j == CHOOSE l \in 1 .. Len(Batch.reqs) : Batch.reqs[l] = u
  <2>1. u \in Uids /\ u \in InBatch
    BY <1>2 DEF n
  <2>2. j = i
    BY <1>2 DEF Once, n
  <2>3. row'[u] = row[u] \o SubSeq(taken, PagesBefore(j) + 1, PagesBefore(j) + NewPages(u))
    BY <1>1, <2>1, Zenon DEF GrownRows
  <2> HIDE DEF u, j, taken
  <2>4. PagesBefore(j) + NewPages(u) = PagesBefore(i + 1)
    BY <1>3, <2>2 DEF u
  <2>5. row'[u] = row[u] \o SubSeq(taken, PagesBefore(i) + 1, PagesBefore(i + 1))
    BY <2>2, <2>3, <2>4
  <2>6. QED
    BY <2>5 DEF Grow, taken, u
<1>8. \A i \in 1 .. n : PagesBefore(i) <= PagesBefore(i + 1)
  <2>1. ASSUME NEW i \in 1 .. n PROVE PagesBefore(i) <= PagesBefore(i + 1)
    <3>1. NewPages(Batch.reqs[i]) \in Nat
      BY <1>2
    <3>2. QED
      BY <1>3, <3>1
  <2>2. QED
    BY <2>1
<1>9. row' = [u \in Uids |-> row'[u]]
  BY <1>1 DEF GrownRows
<1>10. QED
  BY <1>1, <1>3, <1>5, <1>6, <1>7, <1>8, <1>9 DEF pool, m, n

(* The places of the pages after a launch.                                 *)
LEMMA PlacesLaunched ==
  ASSUME ReplyInv, Lengths, Holding, Rows, Pool, NEW E \in SUBSET DOMAIN tree, NEW tokens,
         Launch(E, tokens)
  PROVE  /\ free' \in Seq(Pages) /\ row' \in [Uids -> Seq(Pages)]
         /\ \A u \in InBatch : Len(row'[u]) = Len(row[u]) + NewPages(u)
         /\ \A j, p : InList("free", j, p)' <=> j \in Nat \ {0} /\ AtPool(E, needed_pages + j, p)
         /\ \A v, k, p : InRow(v, k, p)' <=> InRow(v, k, p) \/ \E i, x : Dealt(E, i, x, v, k, p)
<1> DEFINE n == Len(Batch.reqs)
           w(i) == Batch.reqs[i]
           b(i) == PagesBefore(i)
           m == needed_pages
           pool == PoolOf(E)
<1>1. /\ Batch.reqs \in Seq(Uids) /\ Once(Batch.reqs) /\ n \in Nat
      /\ \A i \in 1 .. n : w(i) \in InBatch
      /\ InBatch \subseteq Live
      /\ \A u \in InBatch : NewPages(u) \in Nat /\ Len(row[u]) \in Nat
  <2>1. pc = "launch"
    BY DEF Launch
  <2>2. QED
    BY <2>1, BatchHolds
<1>2. /\ m \in Nat /\ m <= Len(pool)
      /\ free' = SubSeq(pool, m + 1, Len(pool))
      /\ \A u \in Uids \ InBatch : row'[u] = row[u]
      /\ \A i \in 1 .. n :
            /\ b(i) \in Nat /\ b(i) <= b(i + 1) /\ b(i + 1) = b(i) + NewPages(w(i)) /\ b(i + 1) <= m
            /\ row'[w(i)] = Grow(row[w(i)], pool, m, b(i), b(i + 1))
      /\ row' = [u \in Uids |-> row'[u]]
  BY LaunchServes
<1>3. pool \in Seq(Pages) /\ Len(pool) \in Nat
  <2>1. pool \in Seq(Pages)
    BY PoolServes
  <2> HIDE DEF pool
  <2>2. QED
    BY <2>1
<1>4. \A j, p : AtPool(E, j, p) <=> j \in 1 .. Len(pool) /\ pool[j] = p
  BY DEF AtPool
<1>5. \A i, x, v, k, p : Dealt(E, i, x, v, k, p) <=>
         /\ i \in 1 .. n /\ v = w(i) /\ b(i) < x /\ x <= b(i + 1)
         /\ k = Len(row[v]) + (x - b(i)) /\ AtPool(E, x, p)
  BY DEF Dealt
<1>6. \A u \in InBatch : \E i \in 1 .. n : u = w(i)
  BY DEF InBatch
<1> HIDE DEF n, w, b, m, pool
<1>7. free' \in Seq(Pages) /\ Len(free') = Len(pool) - m
      /\ \A j \in 1 .. Len(pool) - m : free'[j] = pool[m + j]
  BY <1>2, <1>3, CutOut
<1>8. ASSUME NEW j, NEW p
      PROVE  InList("free", j, p)' <=> j \in Nat \ {0} /\ AtPool(E, m + j, p)
  <2>1. InList("free", j, p)' <=> j \in 1 .. Len(pool) - m /\ pool[m + j] = p
    BY <1>7 DEF InList, ListOf
  <2>2. j \in 1 .. Len(pool) - m <=> j \in Nat \ {0} /\ m + j \in 1 .. Len(pool)
    BY <1>2, <1>3
  <2>3. QED
    BY <1>4, <2>1, <2>2
<1>9. ASSUME NEW i \in 1 .. n
      PROVE  Grows(row[w(i)], pool, m, b(i), b(i + 1))
  <2>1. row[w(i)] \in Seq(Pages)
    BY <1>1 DEF Rows, Live
  <2>2. b(i) \in Nat /\ b(i + 1) \in Nat /\ b(i) <= b(i + 1) /\ b(i + 1) <= m
    BY <1>1, <1>2
  <2>3. QED
    BY <1>2, <1>3, <2>1, <2>2, RowGrows
<1>10. ASSUME NEW u \in InBatch
       PROVE  row'[u] \in Seq(Pages) /\ Len(row'[u]) = Len(row[u]) + NewPages(u)
  <2>1. PICK i \in 1 .. n : u = w(i)
    BY <1>6
  <2>2. /\ row'[u] \in Seq(Pages)
        /\ Len(row'[u]) = Len(row[u]) + (b(i + 1) - b(i))
    BY <1>2, <1>9, <2>1 DEF Grows
  <2>3. b(i + 1) - b(i) = NewPages(u) /\ Len(row[u]) \in Nat
    BY <1>1, <1>2, <2>1
  <2>4. QED
    BY <2>2, <2>3
<1>11. row' \in [Uids -> Seq(Pages)]
  <2>1. \A u \in Uids : row'[u] \in Seq(Pages)
    BY <1>2, <1>10 DEF Rows
  <2>2. QED
    BY <1>2, <2>1
<1>12. /\ \A u \in Uids : req'[u].held = req[u].held /\ req'[u].handle = req[u].handle
       /\ \A u : u \in Live' <=> u \in Live
  <2>1. \A u \in Uids : req'[u].held = req[u].held /\ req'[u].handle = req[u].handle
    BY LaunchComputes
  <2>2. QED
    BY <2>1 DEF Live
<1>13. ASSUME NEW v, NEW k, NEW p
       PROVE  InRow(v, k, p)' <=> InRow(v, k, p) \/ \E i, x : Dealt(E, i, x, v, k, p)
  <2> DEFINE h == req[v].handle \div PageSize
  <2>1. CASE v \in InBatch
    <3>1. PICK i \in 1 .. n : v = w(i)
      BY <1>6, <2>1
    <3>2. v \in Live /\ v \in Uids /\ Len(row[v]) \in Nat /\ row'[v] = Grow(row[v], pool, m, b(i), b(i + 1))
      BY <1>1, <1>2, <2>1, <3>1 DEF Live
    <3>3. k \in 1 .. Len(row'[v]) /\ row'[v][k] = p <=>
            \/ k \in 1 .. Len(row[v]) /\ row[v][k] = p
            \/ \E x \in 1 .. Len(pool) : b(i) < x /\ x <= b(i + 1) /\ k = Len(row[v]) + (x - b(i))
                                         /\ pool[x] = p
      <4>1. Grows(row[v], pool, m, b(i), b(i + 1))
        BY <1>9, <3>1
      <4>2. QED
        BY <3>2, <4>1, ZenonT(60) DEF Grows
    <3>4. h \in Nat /\ h <= Len(row[v])
      <4>1. /\ req[v].handle \in Nat /\ req[v].alloc \in Nat /\ req[v].cached \in Nat
        BY <3>2, RequestFields DEF Lengths
      <4>2. req[v].handle <= req[v].alloc /\ Len(row[v]) = div_ceil(req[v].alloc)
        BY <3>2, <4>1 DEF Rows
      <4>3. QED
        BY <4>1, <4>2, StartedPages, PagesGrow
    <3>5. \A x \in 1 .. Len(pool) : b(i) < x => Len(row[v]) + (x - b(i)) > h
      BY <1>2, <1>3, <3>2, <3>4
    <3>6. \A j, x : Dealt(E, j, x, v, k, p) <=>
             /\ j = i /\ b(i) < x /\ x <= b(i + 1) /\ k = Len(row[v]) + (x - b(i))
             /\ x \in 1 .. Len(pool) /\ pool[x] = p
      <4>1. \A j \in 1 .. n : v = w(j) <=> j = i
        BY <1>1, <3>1 DEF Once, w, n
      <4> HIDE DEF h
      <4>2. \A j, x : Dealt(E, j, x, v, k, p) <=>
               /\ j = i /\ b(j) < x /\ x <= b(j + 1) /\ k = Len(row[v]) + (x - b(j))
               /\ AtPool(E, x, p)
        BY <1>5, <3>1, <4>1, Zenon
      <4>3. QED
        BY <1>4, <4>2
    <3>7. InRow(v, k, p)' <=> k \in 1 .. Len(row'[v]) /\ k > h /\ row'[v][k] = p
      BY <1>12, <3>2 DEF InRow
    <3>8. InRow(v, k, p) <=> k \in 1 .. Len(row[v]) /\ k > h /\ row[v][k] = p
      BY <3>2 DEF InRow
    <3> HIDE DEF h
    <3>9. QED
      BY <3>3, <3>5, <3>6, <3>7, <3>8
  <2>2. CASE v \notin InBatch
    <3>1. \A i, x : ~ Dealt(E, i, x, v, k, p)
      BY <1>1, <1>5, <2>2
    <3>2. InRow(v, k, p)' <=> InRow(v, k, p)
      BY <1>2, <1>12, <2>2 DEF InRow, Live
    <3>3. QED
      BY <3>1, <3>2
  <2>3. QED
    BY <2>1, <2>2
<1>14. QED
  BY <1>7, <1>8, <1>10, <1>11, <1>13 DEF m

LEMMA PagesLaunch ==
  ASSUME ReplyInv, LocksInv, PagesInv, NEW E \in SUBSET DOMAIN tree,
         NEW tokens \in [Samplers -> Sampled], Launch(E, tokens)
  PROVE  PagesInv'
<1> USE DEF PagesInv, LocksInv
<1>1. /\ pc = "launch" /\ adder' = NoAdder /\ drainer' = [NoDrain EXCEPT !.todo = last.reqs]
      /\ UNCHANGED <<slots, job, finished, tombs, aborts>>
      /\ tree' = [p \in DOMAIN tree \ E |-> tree[p]]
      /\ running' = {u \in running \cup Samplers : req'[u].dev < max_device_len(u)}
  BY DEF Launch, Evict, inbox
<1>2. /\ drainer.lazy = <<>> /\ drainer' = [todo |-> last.reqs, lazy |-> <<>>, done |-> {}]
      /\ adder'.reqs = <<>> /\ adder'.budget = 0 /\ adder'.reserved = 0
  <2>1. drainer = NoDrain
    BY <1>1 DEF ReplyInv, Phases
  <2>2. QED
    BY <1>1, <2>1 DEF NoDrain, NoAdder
<1>3. /\ Batch.reqs \in Seq(Uids) /\ Once(Batch.reqs) /\ Len(Batch.reqs) \in Nat
      /\ \A i \in 1 .. Len(Batch.reqs) : Batch.reqs[i] \in InBatch
      /\ InBatch \subseteq Live
      /\ \A u \in InBatch : /\ NewPages(u) \in Nat /\ Len(row[u]) \in Nat
                            /\ div_ceil(Most(req[u].alloc, req[u].dev)) = Len(row[u]) + NewPages(u)
  BY <1>1, BatchHolds
<1>4. /\ free' \in Seq(Pages) /\ row' \in [Uids -> Seq(Pages)]
      /\ \A u \in InBatch : Len(row'[u]) = Len(row[u]) + NewPages(u)
      /\ \A j, p : InList("free", j, p)' <=> j \in Nat \ {0} /\ AtPool(E, needed_pages + j, p)
      /\ \A v, k, p : InRow(v, k, p)' <=> InRow(v, k, p) \/ \E i, x : Dealt(E, i, x, v, k, p)
  BY PlacesLaunched
<1>5. \A u \in Uids :
         /\ req'[u].held = req[u].held /\ req'[u].handle = req[u].handle
         /\ req'[u].host = req[u].host /\ req'[u].aborted = req[u].aborted
         /\ u \in InBatch => /\ req'[u].cached = req[u].dev /\ req'[u].dev = req[u].dev + 1
                             /\ req'[u].alloc = Most(req[u].alloc, req[u].dev)
         /\ u \notin InBatch => req'[u] = req[u]
  BY LaunchComputes
<1>6. Live' = Live
  BY <1>5 DEF Live
<1>7. \A u \in Uids \ InBatch : row'[u] = row[u]
  BY LaunchServes
<1> HIDE DEF InBatch, Samplers, Batch
<1>8. ASSUME NEW p \in Pages PROVE Single(p)'
  <2>1. SingleServed(E, p)
    BY <1>2, EvictedOnce
  <2>2. \A q : InTree(q, p)' <=> Spared(E, q, p)
    BY <1>1 DEF InTree, Spared
  <2>3. \A j : ~ InList("lazy", j, p)'
    BY <1>2 DEF InList, ListOf
  <2>4. \A i \in 1 .. Len(Batch.reqs) : NewPages(Batch.reqs[i]) \in Nat
    BY <1>3
  <2>5. QED
    BY <1>3, <1>4, <2>1, <2>2, <2>3, <2>4, DealtOnce
<1>9. Pool'
  <2>1. \A q \in DOMAIN tree' : tree'[q] \in Pages
    BY <1>1 DEF Pool
  <2>2. drainer'.lazy \in Seq(Pages)
    BY <1>2
  <2>3. QED
    BY <1>4, <1>8, <2>1, <2>2 DEF Pool
<1>10. Rows'
  <2>1. ASSUME NEW u \in Live
        PROVE  /\ req'[u].cached <= req'[u].alloc
               /\ req'[u].handle <= req'[u].cached /\ req'[u].handle <= req'[u].host
               /\ Len(row'[u]) = div_ceil(req'[u].alloc)
    <3>1. u \in Uids /\ req[u] \in Requests
      BY DEF Live, Lengths
    <3>2. /\ req[u].cached \in Nat /\ req[u].alloc \in Nat /\ req[u].dev \in Nat
          /\ req[u].handle \in Nat /\ req[u].host \in Nat
      BY <3>1, RequestFields
    <3>3. /\ req[u].cached <= req[u].alloc /\ req[u].cached <= req[u].dev
          /\ req[u].handle <= req[u].cached /\ req[u].handle <= req[u].host
          /\ Len(row[u]) = div_ceil(req[u].alloc)
      BY DEF Rows, Lengths
    <3>4. CASE u \in InBatch
      <4>1. req[u].dev <= Most(req[u].alloc, req[u].dev)
        BY <3>2 DEF Most
      <4>2. QED
        BY <1>3, <1>4, <1>5, <3>1, <3>2, <3>3, <3>4, <4>1, SMTT(30)
    <3>5. CASE u \notin InBatch
      BY <1>5, <1>7, <3>1, <3>3, <3>5
    <3>6. QED
      BY <3>4, <3>5
  <2>2. QED
    BY <1>4, <1>6, <2>1 DEF Rows, div_ceil
<1>11. Holding'
  <2>1. \A u : ~ In(adder'.reqs, u)
    BY <1>2 DEF In
  <2>2. \A u \in running' : u \in running \/ u \in InBatch
    BY <1>1 DEF Samplers
  <2>3. \A u \in running' : req'[u].dev < max_device_len(u)'
    BY <1>1 DEF max_device_len
  <2>4. \A u \in Uids : u \in running' => req'[u].held
    BY <1>3, <1>5, <2>2 DEF Holding, Live
  <2>5. \A u \in Uids : req'[u].aborted => u \in aborts'
    BY <1>1, <1>5 DEF Holding
  <2>6. QED
    BY <2>1, <2>3, <2>4, <2>5 DEF Holding
<1>12. RowsCount'
  BY <1>1, <1>6 DEF RowsCount
<1>13. Ledgers'
  <2>1. /\ drainer' = [todo |-> drainer'.todo, lazy |-> drainer'.lazy, done |-> drainer'.done]
        /\ drainer'.done = {}
    BY <1>2
  <2>2. finished' \subseteq Uids /\ tombs' \subseteq Uids
    BY <1>1 DEF Ledgers
  <2>3. adder'.budget \in Nat /\ adder'.reserved \in Nat
    BY <1>2
  <2>4. QED
    BY <2>1, <2>2, <2>3 DEF Ledgers
<1>14. QED
  BY <1>9, <1>10, <1>11, <1>12, <1>13

-----------------------------------------------------------------------------
(* Admission.                                                              *)

(* Who is admitted is in the queue, and not yet in the pass.               *)
LEMMA Admitted ==
  ASSUME ReplyInv, Lengths, NEW u \in Uids, Admitting(u)
  PROVE  /\ pc = "admit" /\ In(pending, u) /\ u \notin running
         /\ job[u].state = "accepted" /\ job[u].plen \in Nat /\ job[u].out \in Nat
         /\ text[u] \in Seq(Nat) /\ job[u].plen \in 1 .. Len(text[u])
<1>1. pc = "admit" /\ adder.index <= Len(pending) /\ u = pending[adder.index]
  BY DEF Admitting
<1>2. adder.index = Len(adder.reqs) + 1 /\ Len(adder.reqs) \in Nat /\ Len(pending) \in Nat
  <2>1. adder.reqs \in Seq(Uids) /\ pending \in Seq(Uids)
    BY DEF ReplyInv, Shapes
  <2>2. adder.index = Len(adder.reqs) + 1
    BY <1>1 DEF ReplyInv, Phases
  <2>3. QED
    BY <2>1, <2>2
<1>3. adder.index \in 1 .. Len(pending)
  BY <1>1, <1>2
<1>4. In(pending, u)
  BY <1>1, <1>3 DEF In
<1>5. u \notin running /\ job[u].state = "accepted"
  BY <1>4 DEF ReplyInv, Unqueued, Asked, Working
<1>6. job[u] \in [plen : Nat, out : Nat, state : {"none", "dropped", "refused", "accepted"}]
  BY DEF ReplyInv, Shapes
<1>7. job[u].plen \in Nat /\ job[u].out \in Nat
  BY <1>6
<1>8. text[u] \in Seq(Nat) /\ job[u].plen \in 1 .. Len(text[u])
  BY <1>5 DEF Lengths
<1>9. QED
  BY <1>1, <1>4, <1>5, <1>7, <1>8

LEMMA AdmitFields ==
  ASSUME ReplyInv, Lengths, Ledgers, NEW u \in Uids, Admitting(u),
         NEW start \in Nat, NEW handle \in Nat, NEW owned \in Nat, start <= job[u].plen,
         AddOneReq(u, start, handle, owned)
  PROVE  /\ req'[u].held /\ ~ req'[u].aborted
         /\ req'[u].cached = start /\ req'[u].alloc = Most(start, owned)
         /\ req'[u].handle = handle
         /\ req'[u].host \in Nat /\ start <= req'[u].host
         /\ \A v \in Uids : v # u => req'[v] = req[v]
         /\ adder'.budget \in Nat /\ adder'.reserved \in Nat
         /\ adder'.reqs = Append(adder.reqs, u)
<1> DEFINE chunk == Least(adder.budget, job[u].plen - start)
           part == start + chunk < job[u].plen
           owed == job[u].plen - start + job[u].out
           more == IF part THEN adder.chunks \cup {u} ELSE adder.chunks
           new == [cached |-> start, dev |-> start + chunk, alloc |-> Most(start, owned),
                   host |-> start + chunk, handle |-> handle, chunked |-> part,
                   aborted |-> FALSE, held |-> TRUE]
<1>1. /\ req' = [req EXCEPT ![u] = new]
      /\ adder' = [adder EXCEPT !.index = @ + 1, !.budget = @ - chunk,
                                !.reserved = @ + owed, !.reqs = Append(@, u), !.chunks = more]
  BY DEF AddOneReq
<1>2. job[u].plen \in Nat /\ job[u].out \in Nat
  BY Admitted
<1>3. adder.budget \in Nat /\ adder.reserved \in Nat
  BY DEF Ledgers
<1>4. /\ chunk \in Nat /\ adder.budget - chunk \in Nat /\ owed \in Nat
  BY <1>2, <1>3 DEF Least
<1>5. adder = [index |-> adder.index, budget |-> adder.budget,
               reserved |-> adder.reserved, reqs |-> adder.reqs, chunks |-> adder.chunks]
  BY DEF ReplyInv, Shapes
<1>6. req \in [Uids -> Requests]
  BY DEF Lengths
<1> HIDE DEF chunk, part, owed, more
<1>7. adder' = [index |-> adder.index + 1, budget |-> adder.budget - chunk,
                reserved |-> adder.reserved + owed, reqs |-> Append(adder.reqs, u),
                chunks |-> more]
  BY <1>1, <1>5
<1>8. /\ adder'.budget \in Nat /\ adder'.reserved \in Nat /\ adder'.reqs = Append(adder.reqs, u)
  BY <1>3, <1>4, <1>7, SMTT(30)
<1>9. req'[u] = new /\ \A v \in Uids : v # u => req'[v] = req[v]
  BY <1>1, <1>6
<1>10. /\ new.held /\ ~ new.aborted /\ new.cached = start /\ new.alloc = Most(start, owned)
       /\ new.handle = handle /\ new.host = start + chunk
  OBVIOUS
<1> HIDE DEF new
<1>11. QED
  BY <1>4, <1>8, <1>9, <1>10

(* The prefix matched for a prompt is whole pages, all in the cache.        *)
LEMMA MatchWhole ==
  ASSUME TreeClosed, NEW u \in Uids, text[u] \in Seq(Nat), job[u].plen \in 1 .. Len(text[u])
  PROVE  /\ Match(u) \in Nat /\ Match(u) <= job[u].plen
         /\ div_ceil(Match(u)) = Match(u) \div PageSize /\ Match(u) \div PageSize \in Nat
         /\ \A k \in 1 .. (Match(u) \div PageSize) : FirstTokens(u, k * PageSize) \in DOMAIN tree
<1> DEFINE l == job[u].plen - 1
           s == FirstTokens(u, l)
           n == Match(u)
           h == n \div PageSize
<1>1. /\ l \in 0 .. Len(text[u]) /\ l <= job[u].plen /\ l \in Nat /\ job[u].plen \in Nat
      /\ Len(text[u]) \in Nat
  OBVIOUS
<1> HIDE DEF l
<1>2. /\ s \in Seq(Nat) /\ Len(s) = l /\ s = SubSeq(text[u], 1, l)
  BY <1>1, CutCut DEF FirstTokens
<1>3. n = MatchLen(s)
  BY DEF Match, l
<1> HIDE DEF s, n
<1>4. /\ n \in 0 .. Len(s) /\ PathOf(SubSeq(s, 1, n)) \subseteq DOMAIN tree
      /\ n # 0 => SubSeq(s, 1, n) \in PathOf(s)
  BY <1>2, <1>3, MatchFound
<1>5. n \in Nat /\ n \in 0 .. l /\ n <= job[u].plen
  BY <1>1, <1>2, <1>4
<1>6. h \in Nat
  BY <1>5, PagesGrow
<1>7. Len(SubSeq(s, 1, n)) = n
  BY <1>2, <1>4, CutCut
<1>8. n = h * PageSize
  <2>1. CASE n = 0
    <3>1. PageSize \in Nat \ {0}
      BY SchedulerConstants
    <3>2. 0 \div PageSize = 0 /\ 0 * PageSize = 0
      BY <3>1
    <3>3. QED
      BY <2>1, <3>2
  <2>2. CASE n # 0
    <3>1. PICK k \in 1 .. (Len(s) \div PageSize) : SubSeq(s, 1, n) = SubSeq(s, 1, k * PageSize)
      BY <1>4, <2>2 DEF PathOf
    <3>2. Len(s) \in Nat /\ Len(s) \div PageSize \in Nat
      BY <1>1, <1>2, PagesGrow
    <3>3. k \in Nat /\ k <= Len(s) \div PageSize
      BY <3>1, <3>2
    <3>4. k * PageSize \in 0 .. Len(s)
      BY <3>2, <3>3, PagesFit, WholePages
    <3>5. Len(SubSeq(s, 1, k * PageSize)) = k * PageSize
      BY <1>2, <3>4, CutCut
    <3>6. n = k * PageSize
      BY <1>7, <3>1, <3>5
    <3>7. QED
      BY <3>3, <3>6, WholePages
  <2>3. QED
    BY <2>1, <2>2
<1>9. div_ceil(n) = h
  <2> HIDE DEF h
  <2>1. QED
    BY <1>6, <1>8, StartedWhole
<1>10. ASSUME NEW k \in 1 .. h PROVE FirstTokens(u, k * PageSize) \in DOMAIN tree
  <2>1. k \in Nat /\ k <= h
    BY <1>6
  <2>2. k * PageSize \in 0 .. n
    BY <1>5, <2>1, PagesFit, WholePages
  <2>3. SubSeq(SubSeq(s, 1, n), 1, k * PageSize) = SubSeq(s, 1, k * PageSize)
    BY <1>2, <1>4, <2>2, CutCut
  <2>4. k * PageSize \in 0 .. l
    BY <1>1, <1>5, <2>2
  <2>5. SubSeq(s, 1, k * PageSize) = FirstTokens(u, k * PageSize)
    BY <1>1, <1>2, <2>4, CutCut DEF FirstTokens
  <2>6. SubSeq(SubSeq(s, 1, n), 1, k * PageSize) \in PathOf(SubSeq(s, 1, n))
    BY <1>7 DEF PathOf
  <2>7. QED
    BY <1>4, <2>3, <2>5, <2>6
<1>11. QED
  BY <1>5, <1>6, <1>9, <1>10 DEF n

(* Nothing of the pages moves at an admission, and the accounts of the     *)
(* pass stay in order.                                                     *)
LEMMA PagesAdmit ==
  ASSUME ReplyInv, LocksInv, PagesInv, NEW u \in Uids, AdmitContinuation(u) \/ AdmitFresh(u)
  PROVE  PagesInv'
<1> USE DEF LocksInv, PagesInv
<1>1. /\ Admitting(u)
      /\ UNCHANGED <<pc, job, text, pending, running, free, tree, drainer, finished, tombs, aborts>>
  BY DEF AdmitContinuation, AdmitFresh, managers, inbox, cache
<1>2. /\ pc = "admit" /\ In(pending, u) /\ u \notin running
      /\ job[u].state = "accepted" /\ job[u].plen \in Nat /\ job[u].out \in Nat
      /\ text[u] \in Seq(Nat) /\ job[u].plen \in 1 .. Len(text[u])
  BY <1>1, Admitted
<1>3. row \in [Uids -> Seq(Pages)] /\ req \in [Uids -> Requests] /\ adder.reqs \in Seq(Uids)
      /\ req[u] \in Requests
  BY DEF Rows, Lengths, ReplyInv, Shapes
<1>4. ASSUME NEW start \in Nat, NEW handle \in Nat, NEW owned \in Nat, start <= job[u].plen,
             AddOneReq(u, start, handle, owned),
             handle <= start,
             row' \in [Uids -> Seq(Pages)],
             \A v \in Uids : v # u => row'[v] = row[v],
             Len(row'[u]) = div_ceil(Most(start, owned)),
             slots' \in Nat, slots' + Cardinality(Live') = MaxRunning,
             \A k, p : InRow(u, k, p)' <=> InRow(u, k, p)
      PROVE  PagesInv'
  <2>1. /\ req'[u].held /\ ~ req'[u].aborted
        /\ req'[u].cached = start /\ req'[u].alloc = Most(start, owned)
        /\ req'[u].handle = handle
        /\ req'[u].host \in Nat /\ start <= req'[u].host
        /\ \A v \in Uids : v # u => req'[v] = req[v]
        /\ adder'.budget \in Nat /\ adder'.reserved \in Nat
        /\ adder'.reqs = Append(adder.reqs, u)
    BY <1>1, <1>4, AdmitFields
  <2>2. \A v : In(adder'.reqs, v) <=> In(adder.reqs, v) \/ v = u
    BY <1>3, <2>1, InAppended
  <2>3. Holding'
    <3>1. \A v \in Uids : v \in running' \/ In(adder'.reqs, v) => req'[v].held
      BY <1>1, <2>1, <2>2 DEF Holding
    <3>2. \A v \in Uids : req'[v].aborted => v \in aborts'
      BY <1>1, <2>1 DEF Holding
    <3>3. \A v \in running' : req'[v].dev < max_device_len(v)'
      <4>1. \A v \in running' : v \in Uids /\ v # u
        BY <1>1, <1>2 DEF ReplyInv, Shapes
      <4>2. QED
        BY <1>1, <2>1, <4>1 DEF Holding, max_device_len
    <3>4. QED
      BY <3>1, <3>2, <3>3 DEF Holding
  <2>4. Rows'
    <3>1. ASSUME NEW v \in Live'
          PROVE  /\ req'[v].cached <= req'[v].alloc
                 /\ req'[v].handle <= req'[v].cached /\ req'[v].handle <= req'[v].host
                 /\ Len(row'[v]) = div_ceil(req'[v].alloc)
      <4>1. CASE v = u
        <5>1. start <= Most(start, owned)
          BY <1>4 DEF Most
        <5>2. QED
          BY <1>4, <2>1, <4>1, <5>1
      <4>2. CASE v # u
        <5>1. v \in Live /\ req'[v] = req[v] /\ row'[v] = row[v]
          BY <1>4, <2>1, <4>2 DEF Live
        <5>2. QED
          BY <5>1 DEF Rows
      <4>3. QED
        BY <4>1, <4>2
    <3>2. QED
      BY <1>4, <3>1 DEF Rows, div_ceil
  <2>5. Pool'
    <3>1. \A v, k, p : InRow(v, k, p)' <=> InRow(v, k, p)
      <4>1. \A v, k, p : v # u => (InRow(v, k, p)' <=> InRow(v, k, p))
        BY <1>4, <2>1 DEF InRow, Live
      <4>2. QED
        BY <1>4, <4>1
    <3>2. \A p : /\ \A t \in Lists : \A i : InList(t, i, p)' <=> InList(t, i, p)
                 /\ \A q : InTree(q, p)' <=> InTree(q, p)
      BY <1>1 DEF InList, ListOf, InTree
    <3>3. \A p \in Pages : Single(p)'
      BY <3>1, <3>2, PlacesStay DEF Pool
    <3>4. QED
      BY <1>1, <3>3 DEF Pool
  <2>6. RowsCount' /\ Ledgers'
    <3>1. RowsCount'
      BY <1>4 DEF RowsCount
    <3>2. Ledgers'
      BY <1>1, <2>1 DEF Ledgers
    <3>3. QED
      BY <3>1, <3>2
  <2>7. QED
    BY <2>3, <2>4, <2>5, <2>6
<1>5. Live \in SUBSET Uids /\ Live' \in SUBSET Uids
  BY DEF Live

<1>6. CASE AdmitContinuation(u)
  <2> DEFINE a == req[u].alloc
             c == req[u].cached
  <2>1. req[u].held /\ AddOneReq(u, c, req[u].handle, a) /\ row' = row /\ slots' = slots
    BY <1>6 DEF AdmitContinuation, managers
  <2>2. u \in Live
    BY <2>1 DEF Live
  <2>3. c \in Nat /\ a \in Nat /\ req[u].handle \in Nat /\ req[u].dev \in Nat
    BY <1>3, RequestFields
  <2>4. /\ c <= a /\ req[u].handle <= c /\ Len(row[u]) = div_ceil(a)
        /\ c <= req[u].dev /\ req[u].dev <= job[u].plen
    BY <1>2, <2>2 DEF Rows, Lengths
  <2>5. c <= job[u].plen /\ Most(c, a) = a
    BY <1>2, <2>3, <2>4 DEF Most
  <2>6. /\ req'[u].held /\ req'[u].handle = req[u].handle
        /\ \A v \in Uids : v # u => req'[v] = req[v]
    BY <1>1, <2>1, <2>3, <2>5, AdmitFields
  <2>7. Live' = Live
    BY <2>2, <2>6 DEF Live
  <2>8. \A k, p : InRow(u, k, p)' <=> InRow(u, k, p)
    BY <2>1, <2>6, <2>7 DEF InRow
  <2>9. slots' \in Nat /\ slots' + Cardinality(Live') = MaxRunning
    BY <2>1, <2>7 DEF RowsCount
  <2> HIDE DEF a, c
  <2>10. QED
    BY <1>3, <1>4, <2>1, <2>3, <2>4, <2>5, <2>8, <2>9
<1>7. CASE AdmitFresh(u)
  <2> DEFINE n == Match(u)
             h == n \div PageSize
             new == [k \in 1 .. h |-> tree[FirstTokens(u, k * PageSize)]]
  <2>1. /\ ~ req[u].held /\ AddOneReq(u, n, n, 0) /\ slots > 0 /\ slots' = slots - 1
        /\ row' = [row EXCEPT ![u] = new]
    BY <1>7 DEF AdmitFresh, Fits
  <2>2. /\ n \in Nat /\ n <= job[u].plen /\ div_ceil(n) = h /\ h \in Nat
        /\ \A k \in 1 .. h : FirstTokens(u, k * PageSize) \in DOMAIN tree
    BY <1>2, MatchWhole
  <2>3. new \in Seq(Pages) /\ Len(new) = h
    <3>1. \A k \in 1 .. h : tree[FirstTokens(u, k * PageSize)] \in Pages
      BY <2>2 DEF Pool
    <3> HIDE DEF h
    <3>2. QED
      BY <2>2, <3>1
  <2> HIDE DEF n, new
  <2>4. /\ row' \in [Uids -> Seq(Pages)] /\ row'[u] = new
        /\ \A v \in Uids : v # u => row'[v] = row[v]
    BY <1>3, <2>1, <2>3
  <2>5. Most(n, 0) = n /\ 0 \in Nat
    BY <2>2 DEF Most
  <2>6. /\ req'[u].held /\ req'[u].handle = n
        /\ \A v \in Uids : v # u => req'[v] = req[v]
    BY <1>1, <2>1, <2>2, <2>5, AdmitFields
  <2>7. u \in Live' /\ u \notin Live /\ \A v : v # u => (v \in Live <=> v \in Live')
    BY <2>1, <2>6 DEF Live
  <2>8. /\ Cardinality(Live) \in Nat /\ Cardinality(Live') \in Nat
        /\ Cardinality(Live') = Cardinality(Live) + 1
    <3>1. /\ Cardinality(Live) \in Nat /\ Cardinality(Live') \in Nat
          /\ Cardinality(Live') = Cardinality(Live) + (IF u \in Live' THEN 1 ELSE 0)
                                                    - (IF u \in Live THEN 1 ELSE 0)
      BY <1>5, <2>7, CardMove
    <3>2. QED
      BY <2>7, <3>1
  <2>9. slots' \in Nat /\ slots' + Cardinality(Live') = MaxRunning
    <3>1. slots \in Nat /\ slots + Cardinality(Live) = MaxRunning
      BY DEF RowsCount
    <3>2. QED
      BY <2>1, <2>8, <3>1
  <2>10. \A k, p : InRow(u, k, p)' <=> InRow(u, k, p)
    <3>1. \A k, p : ~ InRow(u, k, p)
      BY <2>7 DEF InRow
    <3>2. \A k \in 1 .. h : ~ (k > h)
      BY <2>2
    <3>3. \A k, p : ~ InRow(u, k, p)'
      BY <2>3, <2>4, <2>6, <3>2 DEF InRow
    <3>4. QED
      BY <3>1, <3>3
  <2>11. Len(row'[u]) = div_ceil(Most(n, 0))
    BY <2>2, <2>3, <2>4, <2>5
  <2>12. n <= n
    BY <2>2
  <2>13. QED
    BY <1>4, <2>1, <2>2, <2>4, <2>5, <2>9, <2>10, <2>11, <2>12
<1>8. QED
  BY <1>6, <1>7

-----------------------------------------------------------------------------
(* The steps that give pages back, and the ones that move none.            *)

(* A request's end: its row and its pages are given back, once.            *)
LEMMA PagesFreed ==
  ASSUME LocksInv, PagesInv, NEW u \in Uids, NEW t \in Lists,
         NEW r, r = req[u] \/ r = Appended(u), FreeResources(u, r),
         ListOf(t)' = ListOf(t) \o ReleasedPages(u, r),
         \A s \in Lists : s # t => ListOf(s)' = ListOf(s),
         text' = text, job' = job, adder' = adder, adder = NoAdder,
         running \subseteq Uids, running' \subseteq running, u \notin running',
         aborts \subseteq aborts', Ledgers'
  PROVE  PagesInv'
<1> USE DEF LocksInv, PagesInv
<1>1. /\ req \in [Uids -> Requests] /\ req[u] \in Requests /\ req[u].host \in Nat
      /\ req[u].held \in BOOLEAN /\ row \in [Uids -> Seq(Pages)]
  BY RequestFields DEF Lengths, Rows
<1>2. r \in Requests /\ r.held = req[u].held /\ r.aborted = req[u].aborted
  <2>1. /\ Appended(u) \in Requests /\ Appended(u).held = req[u].held
        /\ Appended(u).aborted = req[u].aborted
    <3>1. req[u] \in Requests /\ req[u].host + 1 \in Nat
      BY <1>1
    <3>2. QED
      BY <3>1 DEF Appended, Requests
  <2>2. QED
    BY <1>1, <2>1
<1>3. /\ ~ req'[u].held /\ req'[u].aborted = req[u].aborted
      /\ \A v \in Uids : v # u => req'[v] = req[v] /\ row'[v] = row[v]
      /\ row' \in [Uids -> Seq(Pages)]
      /\ slots' = slots + (IF req[u].held THEN 1 ELSE 0)
  <2>1. CASE req[u].held
    <3> DEFINE c == Clamped(r)
    <3>1. c \in Requests /\ c.aborted = r.aborted
      <4>1. r.cached \in Nat /\ r.host \in Nat
        BY <1>2, RequestFields
      <4>2. Least(r.cached, r.host) \in Nat
        BY <4>1 DEF Least
      <4>3. QED
        BY <1>2, <4>2 DEF Clamped, Requests
    <3>2. /\ req' = [req EXCEPT ![u] = [c EXCEPT !.held = FALSE]]
          /\ row' = [row EXCEPT ![u] = <<>>] /\ slots' = slots + 1
      BY <1>2, <2>1 DEF FreeResources
    <3> HIDE DEF c
    <3>3. QED
      BY <1>1, <1>2, <2>1, <3>1, <3>2 DEF Requests
  <2>2. CASE ~ req[u].held
    <3>1. req' = [req EXCEPT ![u] = r] /\ row' = row /\ slots' = slots
      BY <1>2, <2>2 DEF FreeResources
    <3>2. slots \in Nat
      BY DEF RowsCount
    <3>3. QED
      BY <1>1, <1>2, <2>2, <3>1, <3>2
  <2>3. QED
    BY <1>1, <2>1, <2>2
<1>4. \A v : v \in Live' <=> v \in Live /\ v # u
  BY <1>3 DEF Live
<1>5. Pool'
  BY PoolReleased
<1>6. Rows'
  <2>1. ASSUME NEW v \in Live'
        PROVE  /\ req'[v].cached <= req'[v].alloc
               /\ req'[v].handle <= req'[v].cached /\ req'[v].handle <= req'[v].host
               /\ Len(row'[v]) = div_ceil(req'[v].alloc)
    <3>1. v \in Live /\ req'[v] = req[v] /\ row'[v] = row[v]
      BY <1>3, <1>4 DEF Live
    <3>2. QED
      BY <3>1 DEF Rows
  <2>2. QED
    BY <1>3, <2>1 DEF Rows, div_ceil
<1>7. Holding'
  <2>1. \A v : ~ In(adder'.reqs, v)
    BY DEF In, NoAdder
  <2>2. \A v \in running' : v \in Uids /\ v \in running /\ v # u /\ req'[v] = req[v]
    BY <1>3
  <2>3. \A v \in Uids : v \in running' \/ In(adder'.reqs, v) => req'[v].held
    BY <2>1, <2>2 DEF Holding
  <2>4. \A v \in Uids : req'[v].aborted => v \in aborts'
    BY <1>3 DEF Holding
  <2>5. \A v \in running' : req'[v].dev < max_device_len(v)'
    BY <2>2 DEF Holding, max_device_len
  <2>6. QED
    BY <2>3, <2>4, <2>5 DEF Holding
<1>8. RowsCount'
  <2>1. /\ Live \in SUBSET Uids /\ Live' \in SUBSET Uids
        /\ \A v : v # u => (v \in Live <=> v \in Live')
        /\ u \notin Live' /\ (u \in Live <=> req[u].held)
    BY <1>3, <1>4 DEF Live
  <2>2. /\ Cardinality(Live) \in Nat /\ Cardinality(Live') \in Nat
        /\ Cardinality(Live') = Cardinality(Live) + (IF u \in Live' THEN 1 ELSE 0)
                                                  - (IF u \in Live THEN 1 ELSE 0)
    BY <2>1, CardMove
  <2>3. slots \in Nat /\ slots + Cardinality(Live) = MaxRunning
    BY DEF RowsCount
  <2>4. slots' \in Nat /\ slots' + Cardinality(Live') = MaxRunning
    BY <1>1, <1>3, <2>1, <2>2, <2>3
  <2>5. QED
    BY <2>4 DEF RowsCount
<1>9. QED
  BY <1>5, <1>6, <1>7, <1>8

(* No page moves, and no request comes to hold more or less.               *)
LEMMA PagesKept ==
  ASSUME PagesInv, UNCHANGED <<free, tree, row, slots>>, drainer'.lazy = drainer.lazy,
         \A v \in Uids : /\ req'[v].held = req[v].held /\ req'[v].handle = req[v].handle
                         /\ req'[v].cached = req[v].cached /\ req'[v].alloc = req[v].alloc
                         /\ req'[v].dev = req[v].dev
                         /\ req'[v].aborted => v \in aborts'
                         /\ req[v].held => req[v].handle <= req'[v].host,
         running \subseteq Uids, running' \subseteq running,
         \A v : In(adder'.reqs, v) => In(adder.reqs, v),
         \A v \in running : job'[v] = job[v],
         Ledgers'
  PROVE  PagesInv'
<1> USE DEF PagesInv
<1>1. Live' = Live
  BY DEF Live
<1>2. Pool'
  <2>1. \A u, k, p : InRow(u, k, p)' <=> InRow(u, k, p)
    BY <1>1 DEF InRow, Live
  <2>2. \A p : /\ \A t \in Lists : \A i : InList(t, i, p)' <=> InList(t, i, p)
               /\ \A q : InTree(q, p)' <=> InTree(q, p)
    BY DEF InList, ListOf, InTree
  <2>3. \A p \in Pages : Single(p)'
    BY <2>1, <2>2, PlacesStay DEF Pool
  <2>4. QED
    BY <2>3 DEF Pool
<1>3. Rows'
  <2>1. ASSUME NEW v \in Live
        PROVE  /\ req'[v].cached <= req'[v].alloc
               /\ req'[v].handle <= req'[v].cached /\ req'[v].handle <= req'[v].host
               /\ Len(row'[v]) = div_ceil(req'[v].alloc)
    <3>1. v \in Uids /\ req[v].held
      BY DEF Live
    <3>2. QED
      BY <3>1 DEF Rows
  <2>2. QED
    BY <1>1, <2>1 DEF Rows, div_ceil
<1>4. Holding'
  <2>1. \A v \in Uids : v \in running' \/ In(adder'.reqs, v) => req'[v].held
    BY DEF Holding
  <2>2. \A v \in running' : req'[v].dev < max_device_len(v)'
    BY DEF Holding, max_device_len
  <2>3. QED
    BY <2>1, <2>2 DEF Holding
<1>5. RowsCount'
  BY <1>1 DEF RowsCount
<1>6. QED
  BY <1>2, <1>3, <1>4, <1>5

(* Messages; of a new request nothing is held.                             *)
LEMMA PagesReceive ==
  ASSUME ReplyInv, LocksInv, PagesInv, NEW u \in Uids,
         \/ UserDropped(u) \/ \E p \in Prompts : UserTooLong(u, p)
         \/ \E p \in Prompts, m \in MaxTokens : UserAccepted(u, p, m)
  PROVE  PagesInv'
<1>1. /\ UNCHANGED <<adder, running, req, row, slots, free, tree, drainer, finished, aborts>>
      /\ job[u].state = "none" /\ tombs' \subseteq tombs
      /\ \A v \in Uids : v # u => job'[v] = job[v]
  <2>1. job \in [Uids -> [plen : Nat, out : Nat,
                          state : {"none", "dropped", "refused", "accepted"}]]
    BY DEF ReplyInv, Shapes
  <2>2. CASE UserDropped(u)
    BY <2>1, <2>2 DEF UserDropped
  <2>3. CASE \E p \in Prompts : UserTooLong(u, p)
    BY <2>1, <2>3 DEF UserTooLong
  <2>4. CASE \E p \in Prompts, m \in MaxTokens : UserAccepted(u, p, m)
    BY <2>1, <2>4 DEF UserAccepted
  <2>5. QED
    BY <2>2, <2>3, <2>4
<1>2. running \subseteq Uids /\ \A v \in running : job'[v] = job[v]
  BY <1>1 DEF ReplyInv, Shapes, Asked, Working
<1>3. Ledgers'
  BY <1>1 DEF PagesInv, Ledgers
<1>4. \A v \in Uids : /\ req[v].aborted => v \in aborts'
                      /\ req[v].held => req[v].handle <= req[v].host
  BY <1>1 DEF PagesInv, Holding, Rows, Live
<1>5. QED
  BY <1>1, <1>2, <1>3, <1>4, PagesKept

(* An abort gives the pages back at once, or leaves them to the drain.     *)
LEMMA PagesAbort ==
  ASSUME ReplyInv, LocksInv, PagesInv, NEW u \in Uids, Abort(u)
  PROVE  PagesInv'
<1>1. /\ UNCHANGED <<text, job, adder, drainer, finished>> /\ adder = NoAdder
      /\ aborts' = aborts \cup {u} /\ tombs' = tombs \cup {u}
      /\ running \subseteq Uids /\ running' = running \ {u}
  BY DEF Abort, ReplyInv, Shapes, Phases
<1>2. Ledgers'
  BY <1>1 DEF PagesInv, Ledgers
<1>3. CASE AbortFinds(u) /\ ~ InFlight(u)
  <2> DEFINE t == "free"
             r == req[u]
  <2>1. /\ FreeResources(u, r) /\ ListOf(t)' = ListOf(t) \o ReleasedPages(u, r)
        /\ t \in Lists /\ \A s \in Lists : s # t => ListOf(s)' = ListOf(s)
    BY <1>1, <1>3 DEF Abort, ListOf, Lists
  <2> HIDE DEF t
  <2>2. r = req[u] /\ running' \subseteq running /\ u \notin running' /\ aborts \subseteq aborts'
    BY <1>1
  <2> HIDE DEF r
  <2>3. QED
    BY <1>1, <1>2, <2>1, <2>2, PagesFreed
<1>4. CASE ~ (AbortFinds(u) /\ ~ InFlight(u))
  <2> DEFINE b == req[u].aborted \/ AbortFinds(u)
  <2>1. UNCHANGED <<free, tree, slots, row>> /\ req' = [req EXCEPT ![u].aborted = b]
    BY <1>4 DEF Abort
  <2> HIDE DEF b
  <2>2. req \in [Uids -> Requests]
    BY DEF LocksInv, Lengths
  <2>3. \A v \in Uids : /\ req'[v].held = req[v].held /\ req'[v].handle = req[v].handle
                        /\ req'[v].cached = req[v].cached /\ req'[v].alloc = req[v].alloc
                        /\ req'[v].dev = req[v].dev /\ req'[v].host = req[v].host
                        /\ v # u => req'[v].aborted = req[v].aborted
    BY <2>1, <2>2 DEF Requests
  <2>4. \A v \in Uids : /\ req'[v].aborted => v \in aborts'
                        /\ req[v].held => req[v].handle <= req'[v].host
    BY <1>1, <2>3 DEF PagesInv, Holding, Rows, Live
  <2>5. running' \subseteq running
    BY <1>1
  <2>6. QED
    BY <1>1, <1>2, <2>1, <2>3, <2>4, <2>5, PagesKept
<1>5. QED
  BY <1>3, <1>4

(* What a drained request adds to the loop's account.                      *)
LEMMA LedgersDrained ==
  ASSUME PagesInv, NEW pages, NEW ended \in SUBSET Uids, Drained(pages, ended),
         UNCHANGED <<adder, finished, tombs>>
  PROVE  Ledgers' /\ drainer'.lazy = drainer.lazy \o pages
<1> DEFINE todo == Tail(drainer.todo)
           lazy == drainer.lazy \o pages
           done == drainer.done \cup ended
<1>1. drainer' = [todo |-> todo, lazy |-> lazy, done |-> done]
  BY DEF Drained
<1>2. done \subseteq Uids
  BY DEF PagesInv, Ledgers
<1> HIDE DEF todo, lazy, done
<1>3. /\ drainer' = [todo |-> drainer'.todo, lazy |-> drainer'.lazy, done |-> drainer'.done]
      /\ drainer'.lazy = lazy /\ drainer'.done = done
  BY <1>1
<1>4. Ledgers'
  BY <1>2, <1>3 DEF PagesInv, Ledgers
<1>5. QED
  BY <1>3, <1>4 DEF lazy

(* A commit: the request keeps its row, and its handle goes up to what is  *)
(* both computed and known to the host.                                    *)
LEMMA PagesCommitted ==
  ASSUME LocksInv, PagesInv, NEW u \in Live, CommitPrefix(u, Appended(u)),
         Drained(Duplicates(u, Appended(u)), {}),
         UNCHANGED <<text, job, free, adder, running, finished, tombs, aborts>>,
         running \subseteq Uids
  PROVE  PagesInv'
<1> USE DEF LocksInv, PagesInv
<1> DEFINE r == Appended(u)
           n == Len(InsertIds(u, r))
<1>1. u \in Uids /\ req[u] \in Requests /\ req[u].held /\ req \in [Uids -> Requests]
  BY DEF Live, Lengths
<1>2. /\ req[u].cached \in Nat /\ req[u].host \in Nat /\ req[u].dev \in Nat
      /\ req[u].cached <= req[u].alloc /\ Len(row[u]) = div_ceil(req[u].alloc)
      /\ req[u].cached <= Len(text[u]) /\ Len(text[u]) \in Nat
  <2>1. /\ req[u].cached \in Nat /\ req[u].host \in Nat /\ req[u].dev \in Nat
    BY <1>1, RequestFields
  <2>2. Len(text[u]) \in Nat
    BY <1>1 DEF Lengths
  <2>3. req[u].cached <= req[u].dev /\ req[u].dev <= Len(text[u])
    BY DEF Lengths
  <2>4. QED
    BY <2>1, <2>2, <2>3 DEF Rows
<1>3. /\ r \in Requests /\ r.host = req[u].host + 1 /\ r.cached = req[u].cached
      /\ r.alloc = req[u].alloc /\ r.dev = req[u].dev /\ r.held = req[u].held
      /\ r.aborted = req[u].aborted
  <2>1. req[u] \in Requests /\ req[u].host + 1 \in Nat
    BY <1>1, <1>2
  <2>2. QED
    BY <2>1 DEF Appended, Requests
<1>4. Ledgers' /\ drainer'.lazy = drainer.lazy \o Duplicates(u, r)
  BY LedgersDrained
<1>5. Pool' /\ row' \in [Uids -> Seq(Pages)] /\ Len(row'[u]) = Len(row[u])
      /\ \A v \in Uids : v # u => row'[v] = row[v]
  BY <1>4, PoolCommitted
<1>6. /\ req' = [req EXCEPT ![u] = [r EXCEPT !.handle = n]] /\ slots' = slots
  BY DEF CommitPrefix
<1> HIDE DEF r
<1>7. n \in Nat /\ n <= req[u].cached /\ n <= r.host
  <2>1. r.host \in Nat /\ r.cached \in Nat /\ r.cached <= Len(text[u])
    BY <1>2, <1>3
  <2>2. n = align_down(Least(r.host, r.cached))
    BY <1>1, <2>1, Inserted
  <2>3. Least(r.host, r.cached) \in Nat /\ Least(r.host, r.cached) <= r.host
        /\ Least(r.host, r.cached) <= r.cached
    BY <2>1 DEF Least
  <2>4. align_down(Least(r.host, r.cached)) \in 0 .. Least(r.host, r.cached)
    BY <2>3, AlignDown
  <2>5. QED
    BY <1>3, <2>1, <2>2, <2>3, <2>4
<1> HIDE DEF n
<1>8. /\ req'[u].held = req[u].held /\ req'[u].handle = n /\ req'[u].host = r.host
      /\ req'[u].cached = req[u].cached /\ req'[u].alloc = req[u].alloc
      /\ req'[u].dev = req[u].dev /\ req'[u].aborted = req[u].aborted
      /\ \A v \in Uids : v # u => req'[v] = req[v]
  BY <1>1, <1>3, <1>6 DEF Requests
<1>9. Live' = Live
  BY <1>1, <1>8 DEF Live
<1>10. Rows'
  <2>1. ASSUME NEW v \in Live
        PROVE  /\ req'[v].cached <= req'[v].alloc
               /\ req'[v].handle <= req'[v].cached /\ req'[v].handle <= req'[v].host
               /\ Len(row'[v]) = div_ceil(req'[v].alloc)
    <3>1. CASE v = u
      BY <1>2, <1>5, <1>7, <1>8, <3>1
    <3>2. CASE v # u
      <4>1. v \in Uids /\ req'[v] = req[v] /\ row'[v] = row[v]
        BY <1>5, <1>8, <3>2 DEF Live
      <4>2. QED
        BY <4>1 DEF Rows
    <3>3. QED
      BY <3>1, <3>2
  <2>2. QED
    BY <1>5, <1>9, <2>1 DEF Rows, div_ceil
<1>11. Holding'
  <2>1. \A v \in Uids : req'[v].held = req[v].held /\ req'[v].aborted = req[v].aborted
                        /\ req'[v].dev = req[v].dev
    BY <1>8
  <2>2. \A v \in Uids : v \in running' \/ In(adder'.reqs, v) => req'[v].held
    BY <2>1 DEF Holding
  <2>3. \A v \in Uids : req'[v].aborted => v \in aborts'
    BY <2>1 DEF Holding
  <2>4. \A v \in running' : req'[v].dev < max_device_len(v)'
    BY <2>1 DEF Holding, max_device_len
  <2>5. QED
    BY <2>2, <2>3, <2>4 DEF Holding
<1>12. RowsCount'
  BY <1>6, <1>9 DEF RowsCount
<1>13. QED
  BY <1>4, <1>5, <1>10, <1>11, <1>12

(* The results of a batch, one request at a time.                          *)
LEMMA PagesDrain ==
  ASSUME ReplyInv, LocksInv, PagesInv, NEW u \in Uids,
         \/ DrainChunk(u) \/ DrainAborted(u) \/ DrainSurplus(u)
         \/ DrainFinal(u) \/ DrainToken(u)
  PROVE  PagesInv'
<1>1. /\ UNCHANGED <<text, job, free, adder, finished, tombs, aborts>> /\ pc = "drain"
      /\ running' \subseteq running
  BY DEF DrainChunk, DrainAborted, DrainSurplus, DrainFinal, DrainToken, Emits, Draining,
         managers, inbox, cache
<1>2. adder = NoAdder /\ running \subseteq Uids
  BY <1>1 DEF ReplyInv, Phases, Shapes
<1>3. /\ req \in [Uids -> Requests] /\ req[u] \in Requests /\ req[u].host \in Nat
      /\ drainer.lazy \in Seq(Pages)
  BY RequestFields DEF LocksInv, Lengths, PagesInv, Pool
<1>4. ASSUME NEW r, r = req[u] \/ r = Appended(u), FreeResources(u, r),
             NEW ended \in SUBSET Uids, Drained(ReleasedPages(u, r), ended), u \notin running'
      PROVE  PagesInv'
  <2> DEFINE t == "lazy"
  <2>1. Ledgers' /\ drainer'.lazy = drainer.lazy \o ReleasedPages(u, r)
    BY <1>1, <1>4, LedgersDrained
  <2>2. /\ t \in Lists /\ ListOf(t)' = ListOf(t) \o ReleasedPages(u, r)
        /\ \A s \in Lists : s # t => ListOf(s)' = ListOf(s)
    BY <1>1, <2>1 DEF ListOf, Lists
  <2> HIDE DEF t
  <2>3. QED
    BY <1>1, <1>2, <1>4, <2>1, <2>2, PagesFreed
<1>5. ASSUME UNCHANGED <<tree, row, slots>>, Drained(<<>>, {}), running' = running,
             req' = req \/ req' = [req EXCEPT ![u] = Appended(u)]
      PROVE  PagesInv'
  <2>1. Ledgers' /\ drainer'.lazy = drainer.lazy \o <<>>
    BY <1>1, <1>5, LedgersDrained
  <2>2. drainer'.lazy = drainer.lazy
    BY <1>3, <2>1
  <2>3. req[u] \in Requests /\ req[u].host + 1 \in Nat
    BY <1>3
  <2>4. /\ Appended(u).held = req[u].held /\ Appended(u).handle = req[u].handle
        /\ Appended(u).cached = req[u].cached /\ Appended(u).alloc = req[u].alloc
        /\ Appended(u).dev = req[u].dev /\ Appended(u).aborted = req[u].aborted
        /\ Appended(u).host = req[u].host + 1
    BY <2>3 DEF Appended, Requests
  <2>5. \A v \in Uids : v # u => req'[v] = req[v]
    BY <1>3, <1>5
  <2>6. req'[u] = req[u] \/ req'[u] = Appended(u)
    BY <1>3, <1>5
  <2>7. \A v \in Uids : /\ req'[v].held = req[v].held /\ req'[v].handle = req[v].handle
                        /\ req'[v].cached = req[v].cached /\ req'[v].alloc = req[v].alloc
                        /\ req'[v].dev = req[v].dev /\ req'[v].aborted = req[v].aborted
    BY <2>4, <2>5, <2>6
  <2>8. \A v \in Uids : req[v].held => req[v].handle <= req'[v].host
    <3>1. ASSUME NEW v \in Uids, req[v].held PROVE req[v].handle <= req'[v].host
      <4>1. /\ req[v].handle <= req[v].host /\ req[v].handle \in Nat /\ req[v].host \in Nat
        <5>1. req[v] \in Requests
          BY <1>3
        <5>2. req[v].handle \in Nat /\ req[v].host \in Nat
          BY <5>1, RequestFields
        <5>3. QED
          BY <3>1, <5>2 DEF PagesInv, Rows, Live
      <4>2. req'[v].host = req[v].host \/ req'[v].host = req[v].host + 1
        BY <2>4, <2>5, <2>6
      <4>3. QED
        BY <4>1, <4>2
    <3>2. QED
      BY <3>1
  <2>9. \A v \in Uids : req'[v].aborted => v \in aborts'
    BY <1>1, <2>7 DEF PagesInv, Holding
  <2>10. QED
    BY <1>1, <1>2, <1>5, <2>1, <2>2, <2>7, <2>8, <2>9, PagesKept
<1>6. CASE DrainChunk(u)
  <2>1. CASE req[u].aborted
    <3>1. Drained(ReleasedPages(u, req[u]), {}) /\ FreeResources(u, req[u]) /\ running' = running
      BY <1>6, <2>1 DEF DrainChunk
    <3>2. u \in aborts
      BY <2>1 DEF PagesInv, Holding
    <3>3. u \notin running'
      BY <3>1, <3>2 DEF ReplyInv, AbortsHold, Working
    <3>4. QED
      BY <1>4, <3>1, <3>3
  <2>2. CASE ~ req[u].aborted
    <3>1. UNCHANGED <<tree, row, slots, req>> /\ Drained(<<>>, {}) /\ running' = running
      BY <1>6, <2>2 DEF DrainChunk
    <3>2. QED
      BY <1>5, <3>1
  <2>3. QED
    BY <2>1, <2>2
<1>7. CASE DrainAborted(u)
  <2>1. /\ Drained(ReleasedPages(u, req[u]), {u}) /\ FreeResources(u, req[u])
        /\ running' = running \ {u}
    BY <1>7 DEF DrainAborted
  <2>2. u \notin running' /\ {u} \in SUBSET Uids
    BY <2>1
  <2>3. QED
    BY <1>4, <2>1, <2>2
<1>8. CASE DrainSurplus(u)
  <2>1. UNCHANGED <<tree, row, slots, req>> /\ Drained(<<>>, {}) /\ running' = running
    BY <1>8 DEF DrainSurplus, managers, cache
  <2>2. QED
    BY <1>5, <2>1
<1>9. CASE DrainFinal(u)
  <2>1. /\ Drained(ReleasedPages(u, Appended(u)), {u}) /\ FreeResources(u, Appended(u))
        /\ running' = running \ {u}
    BY <1>9 DEF DrainFinal
  <2>2. u \notin running' /\ {u} \in SUBSET Uids
    BY <2>1
  <2>3. QED
    BY <1>4, <2>1, <2>2
<1>10. CASE DrainToken(u)
  <2>1. CASE last.phase = "prefill" /\ req[u].held
    <3>1. CommitPrefix(u, Appended(u)) /\ Drained(Duplicates(u, Appended(u)), {})
          /\ running' = running /\ u \in Live
      BY <1>10, <2>1 DEF DrainToken, Live
    <3>2. QED
      BY <1>1, <1>2, <3>1, PagesCommitted
  <2>2. CASE ~ (last.phase = "prefill" /\ req[u].held)
    <3>1. UNCHANGED <<tree, row, slots>> /\ req' = [req EXCEPT ![u] = Appended(u)]
          /\ Drained(<<>>, {}) /\ running' = running
      BY <1>10, <2>2 DEF DrainToken
    <3>2. QED
      BY <1>5, <3>1
  <2>3. QED
    BY <2>1, <2>2
<1>11. QED
  BY <1>6, <1>7, <1>8, <1>9, <1>10

(* Two lists become one: the frees held back go to the free list.          *)
LEMMA PagesDrainEnd ==
  ASSUME ReplyInv, LocksInv, PagesInv, DrainEnd
  PROVE  PagesInv'
<1> USE DEF PagesInv
<1>1. /\ UNCHANGED <<pending, running, slots, tree, job, tombs, aborts, text, adder, req, row>>
      /\ free' = free \o drainer.lazy /\ drainer' = NoDrain
      /\ finished' = finished \/ finished' = drainer.done
  BY DEF DrainEnd, managers, inbox
<1>2. free \in Seq(Pages) /\ drainer.lazy \in Seq(Pages)
  BY DEF Pool
<1>3. drainer' = [todo |-> <<>>, lazy |-> <<>>, done |-> {}]
  BY <1>1 DEF NoDrain
<1>4. Ledgers'
  <2>1. drainer' = [todo |-> drainer'.todo, lazy |-> drainer'.lazy, done |-> drainer'.done]
        /\ drainer'.done = {}
    BY <1>3
  <2>2. finished' \subseteq Uids /\ tombs' \subseteq Uids /\ adder'.budget \in Nat
        /\ adder'.reserved \in Nat
    BY <1>1 DEF Ledgers
  <2>3. QED
    BY <2>1, <2>2 DEF Ledgers
<1>5. Holding' /\ Rows' /\ RowsCount'
  <2>1. Live' = Live
    BY <1>1 DEF Live
  <2>2. Holding'
    BY <1>1 DEF Holding, max_device_len
  <2>3. Rows'
    BY <1>1, <2>1 DEF Rows, div_ceil
  <2>4. RowsCount'
    BY <1>1, <2>1 DEF RowsCount
  <2>5. QED
    BY <2>2, <2>3, <2>4
<1> DEFINE n == Len(free)
           l == drainer.lazy
<1>6. n \in Nat /\ Len(l) \in Nat
  BY <1>2
<1>7. free' \in Seq(Pages) /\ Len(free') = n + Len(l)
  BY <1>1, <1>2
<1>8. /\ \A i \in 1 .. n : free'[i] = free[i]
      /\ \A i \in 1 .. Len(l) : free'[n + i] = l[i]
  BY <1>1, <1>2
<1> HIDE DEF l
<1>9. \A j : j \in 1 .. n + Len(l) => \/ j \in 1 .. n
                                      \/ \E i \in 1 .. Len(l) : j = n + i
  <2>1. ASSUME NEW j \in 1 .. n + Len(l), j \notin 1 .. n
        PROVE  \E i \in 1 .. Len(l) : j = n + i
    <3>1. j - n \in 1 .. Len(l) /\ j = n + (j - n)
      BY <1>6, <2>1
    <3>2. QED
      BY <3>1
  <2>2. QED
    BY <2>1
<1>10. /\ \A j \in 1 .. n : j \in 1 .. n + Len(l)
       /\ \A i \in 1 .. Len(l) : n + i \in 1 .. n + Len(l) /\ n + i \notin 1 .. n
       /\ \A i, k \in 1 .. Len(l) : n + i = n + k => i = k
  BY <1>6
<1>11. \A j, p : InList("free", j, p) <=> j \in 1 .. n /\ free[j] = p
  BY DEF InList, ListOf
<1>12. \A j, p : InList("lazy", j, p) <=> j \in 1 .. Len(l) /\ l[j] = p
  BY DEF InList, ListOf, l
<1>13. \A j, p : InList("free", j, p)' <=>
          InList("free", j, p) \/ \E i \in 1 .. Len(l) : InList("lazy", i, p) /\ j = n + i
  <2>1. \A j, p : InList("free", j, p)' <=> j \in 1 .. n + Len(l) /\ free'[j] = p
    BY <1>7 DEF InList, ListOf
  <2> HIDE DEF n
  <2>2. ASSUME NEW j, NEW p, InList("free", j, p)'
        PROVE  InList("free", j, p) \/ \E i \in 1 .. Len(l) : InList("lazy", i, p) /\ j = n + i
    <3>1. j \in 1 .. n + Len(l) /\ free'[j] = p
      BY <2>1, <2>2, Zenon
    <3>2. CASE j \in 1 .. n
      BY <1>8, <1>11, <3>1, <3>2, Zenon
    <3>3. CASE \E i \in 1 .. Len(l) : j = n + i
      <4>1. PICK i \in 1 .. Len(l) : j = n + i
        BY <3>3
      <4>2. l[i] = p
        BY <1>8, <3>1, <4>1, Zenon
      <4>3. QED
        BY <1>12, <4>1, <4>2, Zenon
    <3>4. QED
      BY <1>9, <3>1, <3>2, <3>3, Zenon
  <2>3. ASSUME NEW j, NEW p, InList("free", j, p)
        PROVE  InList("free", j, p)'
    <3>1. j \in 1 .. n /\ free[j] = p
      BY <1>11, <2>3
    <3>2. j \in 1 .. n + Len(l) /\ free'[j] = free[j]
      BY <1>8, <1>10, <3>1, Zenon
    <3>3. QED
      BY <2>1, <3>1, <3>2
  <2>4. ASSUME NEW j, NEW p, NEW i \in 1 .. Len(l), InList("lazy", i, p), j = n + i
        PROVE  InList("free", j, p)'
    <3>1. l[i] = p
      BY <1>12, <2>4
    <3>2. j \in 1 .. n + Len(l) /\ free'[j] = l[i]
      BY <1>8, <1>10, <2>4, Zenon
    <3>3. QED
      BY <2>1, <3>1, <3>2
  <2>5. QED
    BY <2>2, <2>3, <2>4, Zenon
<1>14. \A j, p : ~ InList("lazy", j, p)'
  BY <1>3 DEF InList, ListOf
<1>15. ASSUME NEW p \in Pages PROVE Single(p)'
  <2>1. Single(p)
    BY DEF Pool
  <2>2. \A q : InTree(q, p)' <=> InTree(q, p)
    BY <1>1 DEF InTree
  <2>3. \A v, k : InRow(v, k, p)' <=> InRow(v, k, p)
    BY <1>1 DEF InRow, Live
  <2>4. CASE \E i : InList("lazy", i, p)
    <3>1. PICK i : InList("lazy", i, p)
      BY <2>4
    <3>2. i \in 1 .. Len(l) /\ \A k : InList("lazy", k, p) => k = i
      BY <1>12, <2>1, <3>1, Zenon DEF Single, Lists
    <3>3. /\ \A k : ~ InList("free", k, p)
          /\ \A q : ~ InTree(q, p) /\ \A v, k : ~ InRow(v, k, p)
      BY <2>1, <3>1 DEF Single, Lists
    <3>4. \A j : InList("free", j, p)' <=> j = n + i
      BY <1>13, <3>1, <3>2, <3>3, Zenon
    <3>5. \A s \in Lists : \A j : InList(s, j, p)' <=> s = "free" /\ j = n + i
      BY <1>14, <3>4 DEF Lists
    <3>6. "free" \in Lists
      BY DEF Lists
    <3>7. QED
      BY <2>2, <2>3, <3>3, <3>5, <3>6 DEF Single
  <2>5. CASE \A i : ~ InList("lazy", i, p)
    <3>1. \A j : InList("free", j, p)' <=> InList("free", j, p)
      BY <1>13, <2>5
    <3>2. \A s \in Lists : \A j : InList(s, j, p)' <=> InList(s, j, p)
      BY <1>14, <2>5, <3>1 DEF Lists
    <3>3. QED
      BY <2>1, <2>2, <2>3, <3>2, PlacesStay
  <2>6. QED
    BY <2>4, <2>5
<1>16. Pool'
  <2>1. \A q \in DOMAIN tree' : tree'[q] \in Pages
    BY <1>1 DEF Pool
  <2>2. drainer'.lazy \in Seq(Pages)
    BY <1>3
  <2>3. QED
    BY <1>7, <1>15, <2>1, <2>2 DEF Pool
<1>17. QED
  BY <1>4, <1>5, <1>16

-----------------------------------------------------------------------------
(* What the decoders still have to generate.  Every token of it is a thing *)
(* of its own.                                                             *)
Due(S) == {x \in S \X Nat : x[2] \in 1 .. remain_len(x[1])}

(* What a function that sums it over the subsets of S satisfies.           *)
IsDue(g, S) ==
  g = [s \in SUBSET S |->
         IF s = {} THEN 0
         ELSE remain_len(CHOOSE x \in s : TRUE) + g[s \ {CHOOSE x \in s : TRUE}]]

(* The fold of the community module is such a sum.                         *)
LEMMA InflightIsSum ==
  ASSUME NEW S
  PROVE  MapThenSumSet(remain_len, S) = (CHOOSE g : IsDue(g, S))[S]
  BY Zenon DEF MapThenSumSet, MapThenFoldSet, IsDue

(* One decoder's tokens.                                                   *)
LEMMA DueOne ==
  ASSUME NEW x, remain_len(x) \in Nat
  PROVE  IsFiniteSet(Due({x})) /\ Cardinality(Due({x})) = remain_len(x)
<1> DEFINE n == remain_len(x)
           f == [i \in 1 .. n |-> <<x, i>>]
<1>1. IsFiniteSet(1 .. n) /\ Cardinality(1 .. n) = n
  <2>1. n \in Nat
    OBVIOUS
  <2> HIDE DEF n
  <2>2. IsFiniteSet(1 .. n) /\ Cardinality(1 .. n) = IF 1 > n THEN 0 ELSE n - 1 + 1
    BY <2>1, FS_Interval
  <2>3. QED
    BY <2>1, <2>2
<1>2. Due({x}) = {y \in {x} \X Nat : y[2] \in 1 .. n}
  BY DEF Due
<1>3. n \in Nat
  OBVIOUS
<1> HIDE DEF n
<1>4. f \in Bijection(1 .. n, Due({x}))
  <2>1. \A i \in 1 .. n : f[i] \in Due({x})
    BY <1>2, <1>3
  <2>2. \A i, j \in 1 .. n : f[i] = f[j] => i = j
    OBVIOUS
  <2>3. \A y \in Due({x}) : y[2] \in 1 .. n /\ f[y[2]] = y
    BY <1>2
  <2>4. f \in [1 .. n -> Due({x})]
    BY <2>1
  <2>5. QED
    BY <2>2, <2>3, <2>4, Zenon DEF Bijection, Injection, Surjection, IsInjective
<1>5. QED
  BY <1>1, <1>4, FS_Bijection DEF ExistsBijection, n

(* Finitely many decoders have finitely many.                              *)
LEMMA DueFinite ==
  ASSUME NEW S, IsFiniteSet(S), \A x \in S : remain_len(x) \in Nat
  PROVE  IsFiniteSet(Due(S))
<1> DEFINE f == [x \in S |-> Due({x})]
           T == {Due({x}) : x \in S}
<1>1. f \in Surjection(S, T)
  BY DEF Surjection
<1>2. IsFiniteSet(T)
  BY <1>1, FS_Surjection
<1>3. \A t \in T : IsFiniteSet(t)
  BY DueOne
<1>4. IsFiniteSet(UNION T)
  BY <1>2, <1>3, FS_UNION
<1>5. Due(S) \subseteq UNION T
  BY DEF Due
<1>6. QED
  BY <1>4, <1>5, FS_Subset

(* One decoder's less.                                                     *)
LEMMA DueRemove ==
  ASSUME NEW S, IsFiniteSet(S), \A x \in S : remain_len(x) \in Nat, NEW x \in S
  PROVE  Cardinality(Due(S)) = remain_len(x) + Cardinality(Due(S \ {x}))
<1>1. IsFiniteSet(S \ {x}) /\ IsFiniteSet(Due(S \ {x})) /\ IsFiniteSet(Due({x}))
  <2>1. IsFiniteSet(S \ {x})
    BY FS_RemoveElement
  <2>2. QED
    BY <2>1, DueFinite, DueOne
<1>2. Due(S) = Due({x}) \cup Due(S \ {x}) /\ Due({x}) \cap Due(S \ {x}) = {}
  BY DEF Due
<1>3. Cardinality(Due({x})) = remain_len(x) /\ Cardinality(Due(S \ {x})) \in Nat
  BY <1>1, DueOne, FS_CardinalityType
<1>4. Cardinality(Due(S)) = Cardinality(Due({x})) + Cardinality(Due(S \ {x})) - Cardinality({})
  BY <1>1, <1>2, FS_Union, ZenonT(30)
<1>5. QED
  BY <1>3, <1>4, FS_EmptySet

(* The sum counts the tokens.                                              *)
LEMMA InflightIsDue ==
  ASSUME NEW S, IsFiniteSet(S), \A x \in S : remain_len(x) \in Nat
  PROVE  MapThenSumSet(remain_len, S) = Cardinality(Due(S))
<1> DEFINE pick(s) == CHOOSE x \in s : TRUE
           g == [s \in SUBSET S |-> Cardinality(Due(s))]
           h == CHOOSE f : IsDue(f, S)
<1>1. ASSUME NEW s \in SUBSET S, s # {}
      PROVE  /\ pick(s) \in s
             /\ Cardinality(Due(s)) = remain_len(pick(s)) + Cardinality(Due(s \ {pick(s)}))
  <2>1. pick(s) \in s
    BY <1>1
  <2>2. IsFiniteSet(s)
    BY FS_Subset
  <2>3. QED
    BY <2>1, <2>2, DueRemove
<1>2. IsDue(g, S)
  <2>1. Cardinality(Due({})) = 0
    <3>1. Due({}) = {}
      BY DEF Due
    <3>2. QED
      BY <3>1, FS_EmptySet
  <2>2. ASSUME NEW s \in SUBSET S
        PROVE  g[s] = IF s = {} THEN 0 ELSE remain_len(pick(s)) + g[s \ {pick(s)}]
    <3>1. CASE s = {}
      BY <2>1, <3>1
    <3>2. CASE s # {}
      <4>1. s \ {pick(s)} \in SUBSET S
        OBVIOUS
      <4>2. QED
        BY <1>1, <3>2, <4>1
    <3>3. QED
      BY <3>1, <3>2
  <2>3. g = [s \in SUBSET S |-> IF s = {} THEN 0 ELSE remain_len(pick(s)) + g[s \ {pick(s)}]]
    BY <2>2
  <2>4. QED
    BY <2>3, Zenon DEF IsDue
<1>3. IsDue(h, S)
  BY <1>2, Zenon
<1> HIDE DEF h
<1>4. \A s \in SUBSET S : h[s] = IF s = {} THEN 0 ELSE remain_len(pick(s)) + h[s \ {pick(s)}]
  BY <1>3 DEF IsDue
<1>5. \A s \in SUBSET S : g[s] = IF s = {} THEN 0 ELSE remain_len(pick(s)) + g[s \ {pick(s)}]
  BY <1>2 DEF IsDue
<1> DEFINE T == {s \in SUBSET S : h[s] # g[s]}
<1> HIDE DEF g
<1>6. T = {}
  <2>1. SUFFICES ASSUME T # {} PROVE FALSE
    OBVIOUS
  <2>2. IsWellFoundedOn(StrictSubsetOrdering(S), FiniteSubsetsOf(S))
    BY FS_StrictSubsetOrderingWellFounded
  <2>3. T \subseteq FiniteSubsetsOf(S)
    BY FS_Subset DEF FiniteSubsetsOf
  <2>4. PICK s \in T : \A t \in T : ~(<<t, s>> \in StrictSubsetOrdering(S))
    BY <2>1, <2>2, <2>3, WFMin
  <2>5. s # {}
    BY <1>4, <1>5
  <2>6. pick(s) \in s
    BY <2>5
  <2> HIDE DEF pick
  <2>7. s \ {pick(s)} \notin T
    <3>1. <<s \ {pick(s)}, s>> \in StrictSubsetOrdering(S)
      BY <2>6 DEF StrictSubsetOrdering
    <3>2. QED
      BY <2>4, <3>1
  <2>8. h[s \ {pick(s)}] = g[s \ {pick(s)}]
    BY <2>7
  <2>9. QED
    BY <1>4, <1>5, <2>5, <2>8
<1>7. h[S] = g[S]
  BY <1>6
<1>8. QED
  BY <1>7, InflightIsSum DEF h, g

(* The reservation of the decoders is a number of tokens.                  *)
LEMMA InflightTokens ==
  ASSUME ReplyInv, LocksInv, PagesInv
  PROVE  inflight_tokens \in Nat
<1>1. running \subseteq Uids /\ IsFiniteSet(running)
  BY SchedulerConstants, FS_Subset DEF ReplyInv, Shapes
<1>2. ASSUME NEW u \in running PROVE remain_len(u) \in Nat
  <2>1. u \in Uids /\ req[u] \in Requests
    BY <1>1 DEF LocksInv, Lengths
  <2>2. req[u].dev \in Nat
    BY <2>1, RequestFields
  <2>3. job[u] \in [plen : Nat, out : Nat, state : {"none", "dropped", "refused", "accepted"}]
    BY <2>1 DEF ReplyInv, Shapes
  <2>4. job[u].plen \in Nat /\ job[u].out \in Nat
    BY <2>3
  <2>5. req[u].dev < max_device_len(u)
    BY DEF PagesInv, Holding
  <2>6. QED
    BY <2>2, <2>4, <2>5 DEF remain_len, max_device_len
<1>3. IsFiniteSet(Due(running)) /\ MapThenSumSet(remain_len, running) = Cardinality(Due(running))
  BY <1>1, <1>2, DueFinite, InflightIsDue
<1>4. /\ MapThenSumSet(remain_len, running) \in Nat
      /\ Cardinality(running) \in Nat
  BY <1>1, <1>3, FS_CardinalityType
<1>5. PageSize - 1 \in Nat
  BY SchedulerConstants
<1>6. (PageSize - 1) * Cardinality(running) \in Nat
  BY <1>4, <1>5
<1> DEFINE a == MapThenSumSet(remain_len, running)
           b == (PageSize - 1) * Cardinality(running)
<1>7. a \in Nat /\ b \in Nat /\ inflight_tokens = a + b
  BY <1>4, <1>6, Zenon DEF inflight_tokens
<1> HIDE DEF a, b
<1>8. QED
  BY <1>7

(* The other steps of the loop leave requests and pages alone.             *)
LEMMA PagesElse ==
  ASSUME ReplyInv, LocksInv, PagesInv,
         \/ \E b \in 1 .. PrefillBudget : SchedulePrefill(b)
         \/ ScheduleDecode \/ AdmitDone \/ LaunchNothing \/ LaunchAsserts
         \/ UNCHANGED vars
  PROVE  PagesInv'
<1>1. UNCHANGED <<job, running, slots, row, free, tree, req, finished, tombs, aborts>>
  BY DEF SchedulePrefill, ScheduleDecode, AdmitDone, LaunchNothing, LaunchAsserts, vars,
         managers, cache, inbox
<1>2. Ledgers
  BY DEF PagesInv
<1>3. /\ adder'.budget \in Nat /\ adder'.reserved \in Nat
      /\ \A v : In(adder'.reqs, v) => In(adder.reqs, v)
  <2>1. CASE \E b \in 1 .. PrefillBudget : SchedulePrefill(b)
    <3>1. PICK b \in 1 .. PrefillBudget : SchedulePrefill(b)
      BY <2>1
    <3> DEFINE t == inflight_tokens
    <3>2. t \in Nat /\ b \in Nat
      BY InflightTokens
    <3>3. adder' = [NoAdder EXCEPT !.index = 1, !.budget = b, !.reserved = t]
      BY <3>1 DEF SchedulePrefill
    <3> HIDE DEF t
    <3>4. adder'.budget = b /\ adder'.reserved = t /\ adder'.reqs = <<>>
      BY <3>3 DEF NoAdder
    <3>5. QED
      BY <3>2, <3>4 DEF In
  <2>2. CASE LaunchNothing
    <3>1. adder'.budget = 0 /\ adder'.reserved = 0 /\ adder'.reqs = <<>>
      BY <2>2 DEF LaunchNothing, NoAdder
    <3>2. QED
      BY <3>1 DEF In
  <2>3. CASE ScheduleDecode \/ AdmitDone \/ LaunchAsserts \/ UNCHANGED vars
    <3>1. adder' = adder
      BY <2>3 DEF ScheduleDecode, AdmitDone, LaunchAsserts, vars
    <3>2. QED
      BY <1>2, <3>1 DEF Ledgers
  <2>4. QED
    BY <2>1, <2>2, <2>3
<1>4. /\ drainer' = [todo |-> drainer'.todo, lazy |-> drainer'.lazy, done |-> drainer'.done]
      /\ drainer'.lazy = drainer.lazy /\ drainer'.done \subseteq Uids
  <2>1. CASE LaunchNothing
    <3>1. drainer = NoDrain /\ drainer' = [NoDrain EXCEPT !.todo = last.reqs]
      BY <2>1 DEF LaunchNothing, ReplyInv, Phases
    <3>2. drainer' = [todo |-> last.reqs, lazy |-> <<>>, done |-> {}] /\ drainer.lazy = <<>>
      BY <3>1 DEF NoDrain
    <3>3. QED
      BY <3>2
  <2>2. CASE ~ LaunchNothing
    <3>1. drainer' = drainer
      BY <2>2 DEF SchedulePrefill, ScheduleDecode, AdmitDone, LaunchAsserts, vars
    <3>2. QED
      BY <1>2, <3>1 DEF Ledgers
  <2>3. QED
    BY <2>1, <2>2
<1>5. Ledgers'
  BY <1>1, <1>2, <1>3, <1>4 DEF Ledgers
<1>6. running \subseteq Uids
  BY DEF ReplyInv, Shapes
<1>7. \A v \in Uids : /\ req'[v].aborted => v \in aborts'
                      /\ req[v].held => req[v].handle <= req'[v].host
  BY <1>1 DEF PagesInv, Holding, Rows, Live
<1>8. QED
  BY <1>1, <1>3, <1>4, <1>5, <1>6, <1>7, PagesKept

(* All pages are in the free list.                                         *)
LEMMA PagesInit == Init => PagesInv
<1> SUFFICES ASSUME Init PROVE PagesInv
  OBVIOUS
<1>1. /\ row = [u \in Uids |-> <<>>] /\ req = [u \in Uids |-> NoReq] /\ adder = NoAdder
      /\ free = SetToSeq(Pages) /\ tree = <<>> /\ drainer = NoDrain /\ slots = MaxRunning
      /\ running = {} /\ finished = {} /\ tombs = {}
  BY DEF Init
<1>2. \A u \in Uids : ~ req[u].held /\ ~ req[u].aborted
  BY <1>1 DEF NoReq
<1>3. Live = {}
  BY <1>2 DEF Live
<1>4. adder.reqs = <<>> /\ adder.budget = 0 /\ adder.reserved = 0
  BY <1>1 DEF NoAdder
<1>5. drainer = [todo |-> <<>>, lazy |-> <<>>, done |-> {}]
  BY <1>1 DEF NoDrain
<1>6. Holding
  BY <1>1, <1>2, <1>4 DEF Holding, In
<1>7. Rows
  BY <1>1, <1>3 DEF Rows
<1>8. RowsCount
  BY <1>1, <1>3, SchedulerConstants, FS_EmptySet DEF RowsCount
<1>9. Ledgers
  <2>1. drainer = [todo |-> drainer.todo, lazy |-> drainer.lazy, done |-> drainer.done]
        /\ drainer.done = {}
    BY <1>5
  <2>2. QED
    BY <1>1, <1>4, <2>1 DEF Ledgers
<1> DEFINE n == Cardinality(Pages)
           s == SetToSeq(Pages)
<1>10. /\ n \in Nat /\ s \in [1 .. n -> Pages]
       /\ \A i, j \in 1 .. n : s[i] = s[j] => i = j
       /\ \A p \in Pages : \E i \in 1 .. n : s[i] = p
  BY SchedulerConstants, Listed
<1> HIDE DEF n, s
<1>11. free \in Seq(Pages) /\ Len(free) = n /\ \A i \in 1 .. n : free[i] = s[i]
  BY <1>1, <1>10 DEF s
<1>12. /\ \A i, p : InList("free", i, p) <=> i \in 1 .. n /\ s[i] = p
       /\ \A i, p : ~ InList("lazy", i, p)
       /\ \A q, p : ~ InTree(q, p)
       /\ \A u, k, p : ~ InRow(u, k, p)
  <2>1. \A i, p : InList("free", i, p) <=> i \in 1 .. n /\ s[i] = p
    BY <1>11 DEF InList, ListOf
  <2>2. \A i, p : ~ InList("lazy", i, p)
    BY <1>5 DEF InList, ListOf
  <2>3. \A q, p : ~ InTree(q, p)
    BY <1>1 DEF InTree
  <2>4. \A u, k, p : ~ InRow(u, k, p)
    BY <1>3 DEF InRow
  <2>5. QED
    BY <2>1, <2>2, <2>3, <2>4
<1>13. ASSUME NEW p \in Pages PROVE Single(p)
  <2>1. PICK i \in 1 .. n : s[i] = p
    BY <1>10
  <2>2. \A j : InList("free", j, p) <=> j = i
    <3>1. \A j : j \in 1 .. n /\ s[j] = p <=> j = i
      BY <1>10, <2>1
    <3>2. QED
      BY <1>12, <3>1, Zenon
  <2>3. \A t \in Lists : \A j : InList(t, j, p) <=> t = "free" /\ j = i
    BY <1>12, <2>2 DEF Lists
  <2>4. "free" \in Lists
    BY DEF Lists
  <2>5. QED
    BY <1>12, <2>3, <2>4 DEF Single
<1>14. Pool
  <2>1. drainer.lazy \in Seq(Pages) /\ \A q \in DOMAIN tree : tree[q] \in Pages
    BY <1>1, <1>5
  <2>2. QED
    BY <1>11, <1>13, <2>1 DEF Pool
<1>15. QED
  BY <1>6, <1>7, <1>8, <1>9, <1>14 DEF PagesInv

(* Every step of the loop keeps the pages apart.                           *)
LEMMA PagesStep == ReplyInv /\ LocksInv /\ PagesInv /\ [Next]_vars => PagesInv'
<1> SUFFICES ASSUME ReplyInv, LocksInv, PagesInv, [Next]_vars PROVE PagesInv'
  OBVIOUS
<1>1. CASE Receive
  BY <1>1, PagesReceive, PagesAbort DEF Receive
<1>2. CASE Admit
  BY <1>2, PagesAdmit, PagesElse DEF Admit
<1>3. CASE Dispatch
  BY <1>3, PagesLaunch, PagesElse DEF Dispatch
<1>4. CASE Drain
  BY <1>4, PagesDrain, PagesDrainEnd DEF Drain
<1>5. CASE UNCHANGED vars
  BY <1>5, PagesElse
<1>6. QED
  BY <1>1, <1>2, <1>3, <1>4, <1>5 DEF Next

(* Wherever pages and rows go, together with what the requests hold and    *)
(* what the caches count, they are in one place at every moment.           *)
THEOREM PagesInvariant == Spec => []PagesInv
<1>1. Init => PagesInv
  BY PagesInit
<1>2. ReplyInv /\ LocksInv /\ PagesInv /\ [Next]_vars => PagesInv'
  BY PagesStep
<1>3. QED
  BY <1>1, <1>2, ReplyInvariant, LocksInvariant, PTL DEF Spec

(* A page that is in one place has one home.                               *)
LEMMA OneHome ==
  ASSUME PagesInv, NEW p \in Pages
  PROVE  Cardinality(Homes(p)) = 1
<1>1. Single(p)
  BY DEF PagesInv, Pool
<1>2. \A x : x \in Homes(p) <=>
        \/ \E i : x = <<"free", i>> /\ InList("free", i, p)
        \/ \E i : x = <<"lazy", i>> /\ InList("lazy", i, p)
        \/ \E q : x = <<"tree", q>> /\ InTree(q, p)
        \/ \E u, k : x = <<"row", <<u, k>>>> /\ InRow(u, k, p)
  <2> DEFINE F == {<<"free", i>> : i \in {j \in 1 .. Len(free) : free[j] = p}}
             L == {<<"lazy", i>> : i \in {j \in 1 .. Len(drainer.lazy) : drainer.lazy[j] = p}}
             T == {<<"tree", q>> : q \in {t \in DOMAIN tree : tree[t] = p}}
             W(u) == {<<"row", <<u, k>>>> :
                        k \in {j \in 1 .. Len(row[u]) :
                                 j > req[u].handle \div PageSize /\ row[u][j] = p}}
             R == UNION {W(u) : u \in Live}
  <2>1. Homes(p) = F \cup L \cup T \cup R
    BY Zenon DEF Homes
  <2>2. \A x : x \in F <=> \E i : x = <<"free", i>> /\ InList("free", i, p)
    BY DEF InList, ListOf
  <2>3. \A x : x \in L <=> \E i : x = <<"lazy", i>> /\ InList("lazy", i, p)
    BY DEF InList, ListOf
  <2>4. \A x : x \in T <=> \E q : x = <<"tree", q>> /\ InTree(q, p)
    BY DEF InTree
  <2>5. \A x : x \in R <=> \E u, k : x = <<"row", <<u, k>>>> /\ InRow(u, k, p)
    BY DEF InRow
  <2> HIDE DEF F, L, T, R
  <2>6. QED
    BY <2>1, <2>2, <2>3, <2>4, <2>5
<1>3. "free" \in Lists /\ "lazy" \in Lists /\ \A t \in Lists : t = "free" \/ t = "lazy"
  BY DEF Lists
<1>4. \E x : Homes(p) = {x}
  <2>1. CASE \E t \in Lists : \E i : InList(t, i, p)
    <3>0. PICK t \in Lists : \E i : InList(t, i, p)
      BY <2>1
    <3>1. PICK i : InList(t, i, p)
      BY <3>0
    <3>2. /\ \A s \in Lists : \A j : InList(s, j, p) => s = t /\ j = i
          /\ \A q : ~ InTree(q, p)
          /\ \A u, k : ~ InRow(u, k, p)
      BY <1>1, <3>1 DEF Single
    <3> DEFINE a == <<t, i>>
    <3>3. \A x : x \in Homes(p) <=> x = a
      BY <1>2, <1>3, <3>1, <3>2
    <3> HIDE DEF a
    <3>4. Homes(p) = {a}
      BY <3>3
    <3>5. QED
      BY <3>4
  <2>2. CASE \E q : InTree(q, p)
    <3>1. PICK q : InTree(q, p)
      BY <2>2
    <3>2. /\ \A s \in Lists : \A j : ~ InList(s, j, p)
          /\ \A r : InTree(r, p) => r = q
          /\ \A u, k : ~ InRow(u, k, p)
      BY <1>1, <3>1 DEF Single
    <3> DEFINE a == <<"tree", q>>
    <3>3. \A x : x \in Homes(p) <=> x = a
      BY <1>2, <1>3, <3>1, <3>2
    <3> HIDE DEF a
    <3>4. Homes(p) = {a}
      BY <3>3
    <3>5. QED
      BY <3>4
  <2>3. CASE \E u, k : InRow(u, k, p)
    <3>1. PICK u, k : InRow(u, k, p)
      BY <2>3
    <3>2. /\ \A s \in Lists : \A j : ~ InList(s, j, p)
          /\ \A q : ~ InTree(q, p)
          /\ \A v, l : InRow(v, l, p) => v = u /\ l = k
      BY <1>1, <3>1 DEF Single
    <3> DEFINE a == <<"row", <<u, k>>>>
    <3>3. \A x : x \in Homes(p) <=> x = a
      BY <1>2, <1>3, <3>1, <3>2
    <3> HIDE DEF a
    <3>4. Homes(p) = {a}
      BY <3>3
    <3>5. QED
      BY <3>4
  <2>4. QED
    BY <1>1, <2>1, <2>2, <2>3 DEF Single
<1>5. PICK x : Homes(p) = {x}
  BY <1>4
<1>6. Cardinality({x}) = 1
  BY FS_Singleton
<1>7. QED
  BY <1>5, <1>6

(* The three invariants give every variable its range.                     *)
LEMMA InRange ==
  ASSUME ReplyInv, LocksInv, PagesInv
  PROVE  TypeOK
<1> USE DEF ReplyInv, LocksInv, PagesInv
<1>1. /\ pc \in {"recv", "admit", "launch", "drain", "crashed"}
      /\ job \in [Uids -> [plen : Nat, out : Nat,
                           state : {"none", "dropped", "refused", "accepted"}]]
      /\ pending \in Seq(Uids) /\ running \subseteq Uids
      /\ last.reqs \in Seq(Uids) /\ ongoing.reqs \in Seq(Uids)
      /\ sent \in [Uids -> [n : Nat, kind : Kinds]]
      /\ aborts \subseteq Uids /\ acks \subseteq Uids
  BY DEF Shapes
<1>2. text \in [Uids -> Seq(Nat)] /\ req \in [Uids -> Requests]
  BY DEF Lengths
<1>3. row \in [Uids -> Seq(Pages)] /\ slots \in Nat /\ free \in Seq(Pages)
  BY DEF Rows, RowsCount, Pool
<1>4. adder \in [index : Nat, budget : Nat, reserved : Nat, reqs : Seq(Uids),
                 chunks : SUBSET Uids]
  <2>1. /\ adder.index \in Nat /\ adder.budget \in Nat /\ adder.reserved \in Nat
        /\ adder.reqs \in Seq(Uids) /\ adder.chunks \in SUBSET Uids
    BY DEF Shapes, Lengths, Ledgers
  <2>2. adder = [index |-> adder.index, budget |-> adder.budget,
                 reserved |-> adder.reserved, reqs |-> adder.reqs, chunks |-> adder.chunks]
    BY DEF Shapes
  <2>3. QED
    BY <2>1, <2>2
<1>5. drainer \in [todo : Seq(Uids), lazy : Seq(Pages), done : SUBSET Uids]
  <2>1. /\ drainer.todo \in Seq(Uids) /\ drainer.lazy \in Seq(Pages)
        /\ drainer.done \in SUBSET Uids
    BY DEF Shapes, Pool, Ledgers
  <2>2. drainer = [todo |-> drainer.todo, lazy |-> drainer.lazy, done |-> drainer.done]
    BY DEF Ledgers
  <2>3. QED
    BY <2>1, <2>2
<1>6. DOMAIN tree = DOMAIN ref /\ \A q \in DOMAIN tree : tree[q] \in Pages /\ ref[q] \in Nat
  <2>1. DOMAIN tree = DOMAIN ref
    BY DEF TreeClosed
  <2>2. ASSUME NEW q \in DOMAIN ref PROVE ref[q] \in Nat
    <3>1. Readers(q) \in SUBSET Uids
      BY DEF Readers
    <3>2. Cardinality(Readers(q)) \in Nat
      BY <3>1, CardMove
    <3>3. QED
      BY <3>2 DEF RefsCount
  <2>3. QED
    BY <2>1, <2>2 DEF Pool
<1>7. finished \subseteq Uids /\ tombs \subseteq Uids
  BY DEF Ledgers
<1>8. QED
  BY <1>1, <1>2, <1>3, <1>4, <1>5, <1>6, <1>7, Zenon DEF TypeOK

(* Each page of the pool is free, waiting to be freed, in the prefix       *)
(* cache or owned by one request, and each row of the page table is free   *)
(* or held: no interleaving of admissions, commits, evictions, ends and    *)
(* aborts with the batch in flight frees a page twice or loses one.        *)
THEOREM ResourcesAreAccounted == Spec => []ResourcesAccounted
<1>1. ReplyInv /\ LocksInv /\ PagesInv => ResourcesAccounted
  <2> SUFFICES ASSUME ReplyInv, LocksInv, PagesInv PROVE ResourcesAccounted
    OBVIOUS
  <2>1. \A p \in Pages : Cardinality(Homes(p)) = 1
    BY OneHome
  <2>2. slots + Cardinality(Live) = MaxRunning
    BY DEF PagesInv, RowsCount
  <2>3. QED
    BY InRange, <2>1, <2>2 DEF ResourcesAccounted
<1>2. QED
  BY <1>1, ReplyInvariant, LocksInvariant, PagesInvariant, PTL

-----------------------------------------------------------------------------
(* The contents of the pages: what a request reads as its history is its   *)
(* history, for any requests, pool, size of a page, budget and policy.     *)

Offsets == 0 .. PageSize - 1

(* The position, from 1, of an offset of the k-th page.                    *)
Place(k, o) == (k - 1) * PageSize + o + 1

(* The pages a request owns hold what it has computed.                     *)
OwnFilled ==
    \A u, k, p : InRow(u, k, p) =>
        \A o \in Offsets : Place(k, o) <= req[u].cached =>
            kv[p][o] = FirstTokens(u, Place(k, o))

(* The pages of the cache hold the prefixes they stand for.                *)
TreeFilled ==
    \A q, p : InTree(q, p) =>
        \A o \in Offsets : kv[p][o] = SubSeq(q, 1, Len(q) - PageSize + o + 1)

(* The pages a row does not own are the cache's for the same tokens.       *)
Shared ==
    \A u \in Live : \A k \in 1 .. (req[u].handle \div PageSize) :
        InTree(FirstTokens(u, k * PageSize), row[u][k])

ContentsInv == OwnFilled /\ TreeFilled /\ Shared

-----------------------------------------------------------------------------
(* Places.                                                                 *)

(* A place on a page, its page and its offset.                             *)
LEMMA Placed ==
  ASSUME NEW k \in Nat \ {0}, NEW o \in Offsets
  PROVE  /\ Place(k, o) \in Nat \ {0} /\ o \in Nat /\ o < PageSize
         /\ div_ceil(Place(k, o)) = k /\ (Place(k, o) - 1) % PageSize = o
         /\ Place(k, o) <= k * PageSize /\ k * PageSize \in Nat
         /\ k * PageSize - PageSize + o + 1 = Place(k, o)
<1>1. PageSize \in Nat \ {0} /\ o \in Nat /\ o < PageSize
  BY SchedulerConstants DEF Offsets
<1> DEFINE m == (k - 1) * PageSize
<1>2. m \in Nat /\ k * PageSize = m + PageSize /\ k * PageSize \in Nat
  BY <1>1
<1>3. Place(k, o) = m + o + 1
  BY DEF Place
<1>4. (m + o) % PageSize = o
  BY <1>1, <1>2
<1>5. div_ceil(m + o + 1) = k
  <2>1. m + o + 1 + PageSize - 1 = k * PageSize + o
    BY <1>1, <1>2
  <2>2. (k * PageSize + o) \div PageSize = k
    BY <1>1, <1>2
  <2>3. QED
    BY <2>1, <2>2 DEF div_ceil
<1> HIDE DEF m
<1>6. QED
  BY <1>1, <1>2, <1>3, <1>4, <1>5

(* Every place is on a page.                                               *)
LEMMA PlaceOf ==
  ASSUME NEW n \in Nat \ {0}
  PROVE  /\ div_ceil(n) \in Nat \ {0} /\ (n - 1) % PageSize \in Offsets
         /\ Place(div_ceil(n), (n - 1) % PageSize) = n
<1>1. PageSize \in Nat \ {0}
  BY SchedulerConstants
<1> DEFINE k == (n - 1) \div PageSize
           o == (n - 1) % PageSize
<1>2. k \in Nat /\ o \in Offsets /\ n - 1 = k * PageSize + o
  BY <1>1 DEF Offsets
<1>3. div_ceil(n) = k + 1
  <2>1. n + PageSize - 1 = (n - 1) + PageSize
    BY <1>1
  <2>2. ((n - 1) + PageSize) \div PageSize = k + 1
    BY <1>1, <1>2
  <2>3. QED
    BY <2>1, <2>2 DEF div_ceil
<1> HIDE DEF k
<1>4. (k + 1) - 1 = k
  BY <1>2
<1>5. o \in Nat /\ k * PageSize \in Int
  BY <1>1, <1>2 DEF Offsets
<1> HIDE DEF o
<1>6. Place(k + 1, o) = n
  BY <1>2, <1>4, <1>5 DEF Place
<1>7. QED
  BY <1>2, <1>3, <1>6 DEF o

(* What is not computed is on no page that lies within the handle.         *)
LEMMA BeyondHandle ==
  ASSUME NEW k \in Nat \ {0}, NEW o \in Offsets, NEW h \in Nat, h < Place(k, o)
  PROVE  k > h \div PageSize
<1>1. /\ Place(k, o) \in Nat /\ Place(k, o) <= k * PageSize /\ k * PageSize \in Nat
      /\ h \div PageSize \in Nat
  BY Placed, PagesGrow
<1>2. SUFFICES ASSUME k <= h \div PageSize PROVE FALSE
  BY <1>1
<1>3. k * PageSize <= h
  BY <1>2, PagesFit
<1>4. QED
  BY <1>1, <1>3

-----------------------------------------------------------------------------
(* Steps that compute nothing.                                             *)

(* Pages keep their contents, go from a row to the cache under the tokens  *)
(* that were computed in them, and are given up.                           *)
LEMMA FilledKept ==
  ASSUME Lengths, ContentsInv, kv' = kv,
         \A v \in Live' : text'[v] = text[v],
         \A v, k, p : InRow(v, k, p)' => InRow(v, k, p) /\ req'[v].cached = req[v].cached,
         \A q, p : InTree(q, p)' =>
            \/ InTree(q, p)
            \/ \E v, k : /\ InRow(v, k, p) /\ k * PageSize <= req[v].cached
                         /\ q = FirstTokens(v, k * PageSize)
  PROVE  OwnFilled' /\ TreeFilled'
<1>1. OwnFilled'
  <2>1. ASSUME NEW v, NEW k, NEW p, InRow(v, k, p)', NEW o \in Offsets,
               Place(k, o) <= req'[v].cached
        PROVE  kv'[p][o] = SubSeq(text'[v], 1, Place(k, o))
    <3>1. InRow(v, k, p) /\ req'[v].cached = req[v].cached
      BY <2>1
    <3>2. text'[v] = text[v]
      BY <2>1 DEF InRow
    <3>3. kv[p][o] = FirstTokens(v, Place(k, o))
      BY <2>1, <3>1 DEF ContentsInv, OwnFilled
    <3>4. QED
      BY <3>2, <3>3 DEF FirstTokens
  <2>2. QED
    BY <2>1, Zenon DEF OwnFilled, FirstTokens, Place, Offsets
<1>2. ASSUME NEW q, NEW p, InTree(q, p)', NEW o \in Offsets
      PROVE  kv'[p][o] = SubSeq(q, 1, Len(q) - PageSize + o + 1)
  <2>1. CASE InTree(q, p)
    BY <1>2, <2>1 DEF ContentsInv, TreeFilled
  <2>2. CASE \E v, k : /\ InRow(v, k, p) /\ k * PageSize <= req[v].cached
                       /\ q = FirstTokens(v, k * PageSize)
    <3>1. PICK v, k : /\ InRow(v, k, p) /\ k * PageSize <= req[v].cached
                      /\ q = FirstTokens(v, k * PageSize)
      BY <2>2
    <3>2. v \in Live /\ v \in Uids /\ k \in Nat \ {0}
      BY <3>1 DEF InRow, Live
    <3>3. /\ text[v] \in Seq(Nat) /\ req[v] \in Requests /\ Len(text[v]) \in Nat
          /\ req[v].cached <= req[v].dev /\ req[v].dev <= Len(text[v])
      BY <3>2 DEF Lengths
    <3>4. req[v].cached \in Nat /\ req[v].dev \in Nat
      BY <3>3, RequestFields
    <3> DEFINE n == Place(k, o)
               m == k * PageSize
    <3>5. n \in Nat \ {0} /\ m \in Nat /\ n <= m /\ m - PageSize + o + 1 = n
      BY <1>2, <3>2, Placed
    <3>6. kv[p][o] = FirstTokens(v, n)
      <4>1. n <= req[v].cached
        <5> HIDE DEF n
        <5>1. QED
          BY <3>1, <3>4, <3>5
      <4>2. QED
        BY <1>2, <3>1, <4>1 DEF ContentsInv, OwnFilled
    <3> HIDE DEF n, m
    <3>7. m \in 0 .. Len(text[v]) /\ n \in 0 .. m
      BY <3>1, <3>3, <3>4, <3>5 DEF m
    <3>8. Len(q) = m /\ SubSeq(q, 1, n) = FirstTokens(v, n)
      BY <3>1, <3>3, <3>7, CutCut DEF FirstTokens, m
    <3>9. QED
      BY <3>5, <3>6, <3>8
  <2>3. QED
    BY <1>2, <2>1, <2>2
<1>3. TreeFilled'
  BY <1>2, Zenon DEF TreeFilled, Offsets
<1>4. QED
  BY <1>1, <1>3

(* What is inserted has been computed.                                     *)
LEMMA InsertedComputed ==
  ASSUME LocksInv, Rows, NEW u, NEW r, Current(u, r)
  PROVE  /\ \A k \in 1 .. InsertPages(u, r) : k * PageSize <= req[u].cached
         /\ Len(InsertIds(u, r)) \in Nat
<1>1. /\ u \in Uids /\ r \in Requests /\ req[u] \in Requests /\ r.cached <= req[u].cached
      /\ text[u] \in Seq(Nat) /\ Len(text[u]) \in Nat
      /\ req[u].cached <= req[u].dev /\ req[u].dev <= Len(text[u])
  BY DEF Current, Live, LocksInv, Lengths
<1>2. /\ r.cached \in Nat /\ r.host \in Nat /\ req[u].cached \in Nat /\ req[u].dev \in Nat
  BY <1>1, RequestFields
<1>3. r.cached <= Len(text[u])
  BY <1>1, <1>2
<1> DEFINE l == Least(r.host, r.cached)
           n == Len(InsertIds(u, r))
<1>4. l \in Nat /\ l <= r.cached
  BY <1>2 DEF Least
<1>5. n = align_down(l)
  BY <1>1, <1>2, <1>3, Inserted DEF LocksInv
<1> HIDE DEF l, n
<1>6. n \in Nat /\ n <= req[u].cached
  <2>1. n \in 0 .. l
    BY <1>4, <1>5, AlignDown
  <2>2. QED
    BY <1>1, <1>2, <1>4, <2>1
<1>7. ASSUME NEW k \in 1 .. InsertPages(u, r) PROVE k * PageSize <= req[u].cached
  <2>1. k \in Nat /\ k <= n \div PageSize /\ n \div PageSize \in Nat /\ k * PageSize \in Nat
    <3>1. n \div PageSize \in Nat
      BY <1>6, PagesGrow
    <3>2. k \in Nat /\ k <= n \div PageSize
      BY <3>1 DEF InsertPages, n
    <3>3. QED
      BY <3>1, <3>2, WholePages
  <2>2. k * PageSize <= n
    BY <1>6, <2>1, PagesFit
  <2>3. QED
    BY <1>2, <1>6, <2>1, <2>2
<1>8. QED
  BY <1>6, <1>7 DEF n

(* The prefixes a request shares stay where they are.                      *)
LEMMA SharedKept ==
  ASSUME Shared,
         \A v \in Live' : /\ v \in Live /\ text'[v] = text[v] /\ row'[v] = row[v]
                          /\ req'[v].handle = req[v].handle,
         \A q, p : InTree(q, p) => InTree(q, p)'
  PROVE  Shared'
<1>1. \A q, p : q \in DOMAIN tree /\ tree[q] = p => q \in DOMAIN tree' /\ tree'[q] = p
  BY DEF InTree
<1>2. ASSUME NEW v \in Live', NEW k \in 1 .. (req'[v].handle \div PageSize)
      PROVE  /\ SubSeq(text'[v], 1, k * PageSize) \in DOMAIN tree'
             /\ tree'[SubSeq(text'[v], 1, k * PageSize)] = row'[v][k]
  <2>1. InTree(FirstTokens(v, k * PageSize), row[v][k])
    BY <1>2 DEF Shared
  <2>2. QED
    BY <1>1, <1>2, <2>1 DEF FirstTokens, InTree
<1>3. QED
  BY <1>2, Zenon DEF Shared, FirstTokens, InTree

(* A request's end: what it has computed goes to the cache, or is given up. *)
LEMMA ContentsFreed ==
  ASSUME LocksInv, Rows, ContentsInv, NEW u \in Uids, NEW r, r = req[u] \/ r = Appended(u),
         FreeResources(u, r), text' = text, kv' = kv
  PROVE  ContentsInv'
<1>1. Lengths /\ req \in [Uids -> Requests]
  BY DEF LocksInv, Lengths
<1>2. CASE ~ req[u].held
  <2>1. ~ r.held
    BY <1>1, <1>2 DEF Appended, Requests
  <2>2. req' = [req EXCEPT ![u] = r] /\ tree' = tree /\ row' = row
    BY <2>1 DEF FreeResources
  <2>3. ~ req'[u].held /\ \A v \in Uids : v # u => req'[v] = req[v]
    BY <1>1, <2>1, <2>2
  <2>4. \A v \in Live' : v \in Live /\ req'[v] = req[v]
    BY <2>3 DEF Live
  <2>5. \A v, k, p : InRow(v, k, p)' => InRow(v, k, p) /\ req'[v].cached = req[v].cached
    BY <2>2, <2>4 DEF InRow
  <2>6. \A q, p : InTree(q, p)' <=> InTree(q, p)
    BY <2>2 DEF InTree
  <2>7. OwnFilled' /\ TreeFilled'
    BY <1>1, <2>5, <2>6, FilledKept
  <2>8. Shared'
    BY <2>2, <2>4, <2>6, SharedKept DEF ContentsInv
  <2>9. QED
    BY <2>7, <2>8 DEF ContentsInv
<1>3. CASE req[u].held
  <2> DEFINE c == Clamped(r)
             m == CachedPages(u, c)
             i == InsertPages(u, c)
  <2>1. u \in Live
    BY <1>3 DEF Live
  <2>2. Current(u, c) /\ r.held
    BY <1>1, <2>1, CurrentNow
  <2>3. /\ tree' = InsertTree(u, c) /\ row' = [row EXCEPT ![u] = <<>>]
        /\ req' = [req EXCEPT ![u] = [c EXCEPT !.held = FALSE]]
    BY <2>2 DEF FreeResources
  <2>4. c \in Requests
    BY <2>2 DEF Current
  <2> HIDE DEF c
  <2>5. ~ req'[u].held
    BY <1>1, <2>3, <2>4 DEF Requests
  <2>6. \A v \in Live' : v \in Live /\ v # u /\ req'[v] = req[v] /\ row'[v] = row[v]
    BY <1>1, <2>3, <2>5 DEF Live, Rows
  <2>7. /\ i \in Nat /\ m \in Nat
        /\ \A k \in 1 .. i : k * PageSize <= req[u].cached
    BY <2>2, Spans, InsertedComputed
  <2> HIDE DEF m, i
  <2>8. \A q, p : InTree(q, p)' <=>
            \/ InTree(q, p)
            \/ \E k : InRow(u, k, p) /\ m < k /\ k <= i /\ q = FirstTokens(u, k * PageSize)
    <3>1. \A q, p : q \in DOMAIN InsertTree(u, c) /\ InsertTree(u, c)[q] = p <=>
            \/ InTree(q, p)
            \/ \E k : /\ InRow(u, k, p) /\ CachedPages(u, c) < k /\ k <= InsertPages(u, c)
                      /\ q = FirstTokens(u, k * PageSize)
      BY <2>2, InsertedPlaces, ZenonT(60)
    <3>2. \A q, p : InTree(q, p)' <=> q \in DOMAIN InsertTree(u, c) /\ InsertTree(u, c)[q] = p
      BY <2>3 DEF InTree
    <3>3. QED
      BY <3>1, <3>2, Zenon DEF m, i
  <2>9. \A q, p : InTree(q, p)' =>
            \/ InTree(q, p)
            \/ \E v, k : /\ InRow(v, k, p) /\ k * PageSize <= req[v].cached
                         /\ q = FirstTokens(v, k * PageSize)
    <3>1. \A k, p : InRow(u, k, p) /\ m < k /\ k <= i => k * PageSize <= req[u].cached
      BY <2>7 DEF InRow
    <3>2. QED
      BY <2>8, <3>1, Zenon
  <2>10. \A q, p : InTree(q, p) => InTree(q, p)'
    BY <2>8
  <2>11. \A v, k, p : InRow(v, k, p)' => InRow(v, k, p) /\ req'[v].cached = req[v].cached
    BY <2>6 DEF InRow
  <2>12. OwnFilled' /\ TreeFilled'
    BY <1>1, <2>9, <2>11, FilledKept
  <2>13. Shared'
    BY <2>6, <2>10, SharedKept DEF ContentsInv
  <2>14. QED
    BY <2>12, <2>13 DEF ContentsInv
<1>4. QED
  BY <1>2, <1>3

(* A commit: the row's pages up to the new handle are the cache's own, as  *)
(* inserted, or those it points at instead of its duplicates.              *)
LEMMA ContentsCommitted ==
  ASSUME LocksInv, Rows, ContentsInv, NEW u \in Live, CommitPrefix(u, Appended(u)),
         text' = text, kv' = kv
  PROVE  ContentsInv'
<1> DEFINE r == Appended(u)
           h == HandlePages(r)
           m == CachedPages(u, r)
           i == InsertPages(u, r)
<1>1. Current(u, r) /\ Lengths /\ u \in Uids /\ req \in [Uids -> Requests] /\ r.held
  BY CurrentNow DEF LocksInv, Live, Lengths
<1>2. row \in [Uids -> Seq(Pages)] /\ row[u] \in Seq(Pages)
  BY <1>1 DEF Rows
<1>3. /\ h \in Nat /\ m \in Nat /\ i \in Nat /\ Len(row[u]) \in Nat
      /\ h <= m /\ m <= i /\ i <= Len(row[u])
  BY <1>1, Spans
<1>4. \A q, p : q \in DOMAIN InsertTree(u, r) /\ InsertTree(u, r)[q] = p <=>
           \/ InTree(q, p)
           \/ \E k : InRow(u, k, p) /\ m < k /\ k <= i /\ q = FirstTokens(u, k * PageSize)
  <2> HIDE DEF r
  <2>1. Current(u, r)
    BY <1>1
  <2> HIDE DEF m, i, h
  <2>2. \A q, p : q \in DOMAIN InsertTree(u, r) /\ InsertTree(u, r)[q] = p <=>
          \/ InTree(q, p)
          \/ \E k : /\ InRow(u, k, p) /\ CachedPages(u, r) < k /\ k <= InsertPages(u, r)
                    /\ q = FirstTokens(u, k * PageSize)
    BY <2>1, InsertedPlaces, ZenonT(60)
  <2>3. QED
    BY <2>2, Zenon DEF m, i
<1>5. /\ tree' = InsertTree(u, r) /\ row' = [row EXCEPT ![u] = CommitRow(u, r)]
      /\ req' = [req EXCEPT ![u] = [r EXCEPT !.handle = Len(InsertIds(u, r))]]
  BY DEF CommitPrefix
<1>6. \A k \in 1 .. Len(row[u]) : k <= i =>
         /\ k * PageSize <= req[u].cached
         /\ FirstTokens(u, k * PageSize) \in DOMAIN tree <=> k <= m
  BY <1>1, <1>3, InsertedComputed, InsertedPath
<1>7. /\ Len(CommitRow(u, r)) = Len(row[u])
      /\ \A k \in 1 .. Len(row[u]) :
            CommitRow(u, r)[k] = IF k > h /\ k <= m THEN tree[FirstTokens(u, k * PageSize)]
                                                    ELSE row[u][k]
  BY <1>3 DEF CommitRow, HandlePages, CachedPages
<1>8. r \in Requests /\ r.cached = req[u].cached /\ h = req[u].handle \div PageSize
  <2>1. req[u] \in Requests /\ req[u].host + 1 \in Nat
    BY <1>1, RequestFields
  <2>2. QED
    BY <1>1, <2>1 DEF Current, HandlePages, Appended, Requests
<1>9. /\ \A v \in Uids : v # u => row'[v] = row[v] /\ req'[v] = req[v]
      /\ row'[u] = CommitRow(u, r) /\ req'[u].held /\ req'[u].cached = req[u].cached
      /\ req'[u].handle \div PageSize = i
  <2> HIDE DEF r
  <2>1. QED
    BY <1>1, <1>2, <1>5, <1>8 DEF Requests, InsertPages
<1> HIDE DEF h, m, i, r
<1>10. \A q, p : q \in DOMAIN tree' /\ tree'[q] = p <=>
           \/ InTree(q, p)
           \/ \E k : InRow(u, k, p) /\ m < k /\ k <= i /\ q = FirstTokens(u, k * PageSize)
  BY <1>4, <1>5, Zenon
<1>11. Live' = Live
  BY <1>1, <1>9 DEF Live
<1>12. \A v, k, p : InRow(v, k, p)' => InRow(v, k, p) /\ req'[v].cached = req[v].cached
  <2>1. ASSUME NEW k, NEW p, InRow(u, k, p)' PROVE InRow(u, k, p)
    <3>1. k \in 1 .. Len(row[u]) /\ k > i /\ CommitRow(u, r)[k] = p
      BY <1>7, <1>9, <2>1 DEF InRow
    <3>2. k > m /\ k > h
      BY <1>3, <3>1
    <3>3. row[u][k] = p
      BY <1>3, <1>7, <3>1, <3>2
    <3>4. QED
      BY <1>8, <3>1, <3>2, <3>3 DEF InRow
  <2>2. \A v, k, p : InRow(v, k, p)' /\ v # u => InRow(v, k, p) /\ req'[v].cached = req[v].cached
    BY <1>9, <1>11 DEF InRow, Live
  <2>3. QED
    BY <1>9, <2>1, <2>2
<1>13. \A q, p : InTree(q, p)' =>
            \/ InTree(q, p)
            \/ \E v, k : /\ InRow(v, k, p) /\ k * PageSize <= req[v].cached
                         /\ q = FirstTokens(v, k * PageSize)
  <2>1. \A k, p : InRow(u, k, p) /\ m < k /\ k <= i => k * PageSize <= req[u].cached
    BY <1>6 DEF InRow
  <2>2. QED
    BY <1>10, <2>1, Zenon DEF InTree
<1>14. OwnFilled' /\ TreeFilled'
  BY <1>1, <1>12, <1>13, FilledKept
<1>15. ASSUME NEW k \in 1 .. i
       PROVE  /\ FirstTokens(u, k * PageSize) \in DOMAIN tree'
              /\ tree'[FirstTokens(u, k * PageSize)] = row'[u][k]
  <2> DEFINE q == FirstTokens(u, k * PageSize)
             p == CommitRow(u, r)[k]
  <2>1. k \in 1 .. Len(row[u]) /\ k \in Nat /\ k <= i
    BY <1>3
  <2> SUFFICES q \in DOMAIN tree' /\ tree'[q] = p
    BY <1>9
  <2> HIDE DEF q
  <2>2. CASE k <= h
    <3>1. ~ (k > h)
      BY <1>3, <2>1, <2>2
    <3>2. p = row[u][k]
      BY <1>7, <2>1, <3>1
    <3>3. k \in 1 .. (req[u].handle \div PageSize)
      BY <1>3, <1>8, <2>1, <2>2
    <3>4. InTree(q, p)
      BY <3>2, <3>3 DEF ContentsInv, Shared, q
    <3>5. QED
      BY <1>10, <3>4
  <2>3. CASE k > h /\ k <= m
    <3>1. q \in DOMAIN tree
      BY <1>6, <2>1, <2>3 DEF q
    <3>2. p = tree[q]
      BY <1>7, <2>1, <2>3 DEF q
    <3>3. InTree(q, p)
      BY <3>1, <3>2 DEF InTree
    <3>4. QED
      BY <1>10, <3>3
  <2>4. CASE k > m
    <3>1. k > h /\ ~ (k <= m)
      BY <1>3, <2>1, <2>4
    <3>2. p = row[u][k]
      BY <1>7, <2>1, <3>1
    <3>3. InRow(u, k, p)
      BY <1>8, <2>1, <3>1, <3>2 DEF InRow
    <3>4. QED
      BY <1>10, <2>1, <2>4, <3>3 DEF q
  <2>5. QED
    BY <1>3, <2>1, <2>2, <2>3, <2>4
<1>16. ASSUME NEW v \in Live', NEW k \in 1 .. (req'[v].handle \div PageSize)
       PROVE  /\ SubSeq(text'[v], 1, k * PageSize) \in DOMAIN tree'
              /\ tree'[SubSeq(text'[v], 1, k * PageSize)] = row'[v][k]
  <2>1. CASE v = u
    BY <1>9, <1>15, <1>16, <2>1 DEF FirstTokens
  <2>2. CASE v # u
    <3>1. v \in Live /\ v \in Uids /\ req'[v] = req[v] /\ row'[v] = row[v]
      BY <1>9, <1>11, <1>16, <2>2 DEF Live
    <3>2. InTree(FirstTokens(v, k * PageSize), row[v][k])
      BY <1>16, <3>1 DEF ContentsInv, Shared
    <3>3. QED
      BY <1>10, <3>1, <3>2 DEF FirstTokens
  <2>3. QED
    BY <2>1, <2>2
<1>17. Shared'
  BY <1>16, Zenon DEF Shared, FirstTokens, InTree
<1>18. QED
  BY <1>14, <1>17 DEF ContentsInv

-----------------------------------------------------------------------------
(* A launch computes.                                                      *)

(* The forward of v fills the offset of the page p, the k-th of its row.   *)
Writes(rows, v, k, p, o) ==
    /\ v \in InBatch /\ k \in 1 .. Len(rows[v]) /\ rows[v][k] = p
    /\ (k - 1) * PageSize + o \in req[v].cached .. req[v].dev - 1

(* What nobody writes stays; what one request writes in one place is what  *)
(* it computes there.                                                      *)
LEMMA WrittenAt ==
  ASSUME NEW rows, NEW p \in Pages, NEW o \in Offsets
  PROVE  /\ (\A v, k : ~ Writes(rows, v, k, p, o)) => Written(rows)[p][o] = kv[p][o]
         /\ \A v, k :
               /\ Writes(rows, v, k, p, o)
               /\ \A u, l : Writes(rows, u, l, p, o) => u = v
               /\ \A n \in req[v].cached + 1 .. req[v].dev :
                     rows[v][div_ceil(n)] = p /\ (n - 1) % PageSize = o => n = Place(k, o)
               /\ req[v].cached \in Nat /\ req[v].dev \in Nat
               => Written(rows)[p][o] = FirstTokens(v, Place(k, o))
<1> DEFINE writer == {u \in InBatch : \E k \in 1 .. Len(rows[u]) :
                         /\ rows[u][k] = p
                         /\ (k - 1) * PageSize + o \in req[u].cached .. req[u].dev - 1}
           at(u) == CHOOSE n \in req[u].cached + 1 .. req[u].dev :
                        /\ rows[u][div_ceil(n)] = p
                        /\ (n - 1) % PageSize = o
<1>1. Written(rows)[p][o] = IF writer = {} THEN kv[p][o]
                            ELSE FirstTokens(CHOOSE v \in writer : TRUE,
                                             at(CHOOSE v \in writer : TRUE))
  BY DEF Written, Offsets
<1>2. \A v : v \in writer <=> \E k : Writes(rows, v, k, p, o)
  BY DEF Writes
<1> HIDE DEF writer
<1>3. (\A v, k : ~ Writes(rows, v, k, p, o)) => Written(rows)[p][o] = kv[p][o]
  <2> SUFFICES ASSUME \A v, k : ~ Writes(rows, v, k, p, o) PROVE Written(rows)[p][o] = kv[p][o]
    OBVIOUS
  <2> HIDE DEF at
  <2>1. writer = {}
    BY <1>2
  <2>2. QED
    BY <1>1, <2>1
<1>4. ASSUME NEW v, NEW k, Writes(rows, v, k, p, o),
             \A u, l : Writes(rows, u, l, p, o) => u = v,
             \A n \in req[v].cached + 1 .. req[v].dev :
                 rows[v][div_ceil(n)] = p /\ (n - 1) % PageSize = o => n = Place(k, o),
             req[v].cached \in Nat, req[v].dev \in Nat
      PROVE  Written(rows)[p][o] = FirstTokens(v, Place(k, o))
  <2>1. writer = {v}
    BY <1>2, <1>4
  <2>2. (CHOOSE u \in writer : TRUE) = v
    BY <2>1
  <2>3. /\ rows[v][k] = p /\ k \in Nat \ {0}
        /\ (k - 1) * PageSize + o \in req[v].cached .. req[v].dev - 1
    BY <1>4 DEF Writes
  <2>4. Place(k, o) \in Nat /\ div_ceil(Place(k, o)) = k /\ (Place(k, o) - 1) % PageSize = o
    BY <2>3, Placed
  <2>5. Place(k, o) \in req[v].cached + 1 .. req[v].dev
    <3> DEFINE m == (k - 1) * PageSize + o
    <3>1. m \in Int /\ Place(k, o) = m + 1
      <4>1. (k - 1) * PageSize \in Int /\ o \in Int
        BY <2>3, SchedulerConstants DEF Offsets
      <4>2. QED
        BY <4>1 DEF Place
    <3>2. req[v].cached <= m /\ m <= req[v].dev - 1
      BY <2>3
    <3> HIDE DEF m
    <3>3. QED
      BY <1>4, <3>1, <3>2
  <2>6. at(v) = Place(k, o)
    <3> DEFINE P(n) == rows[v][div_ceil(n)] = p /\ (n - 1) % PageSize = o
               R == req[v].cached + 1 .. req[v].dev
    <3>1. P(Place(k, o)) /\ Place(k, o) \in R
      BY <2>3, <2>4, <2>5
    <3>2. \A n \in R : P(n) => n = Place(k, o)
      BY <1>4
    <3>3. at(v) = CHOOSE n \in R : P(n)
      OBVIOUS
    <3> HIDE DEF P, R, at
    <3>4. QED
      BY <3>1, <3>2, <3>3
  <2> HIDE DEF at
  <2>7. QED
    BY <1>1, <2>1, <2>2, <2>6
<1>5. QED
  BY <1>3, <1>4, Zenon

(* The members of a batch write in places of their own, which nobody       *)
(* reads: not what the cache has, and not what another row points at.      *)
LEMMA ContentsLaunch ==
  ASSUME ReplyInv, LocksInv, PagesInv, ContentsInv, NEW E \in SUBSET DOMAIN tree,
         NEW tokens \in [Samplers -> Sampled], Launch(E, tokens)
  PROVE  ContentsInv'
<1>1. LocksInv' /\ PagesInv'
  BY LocksLaunch, PagesLaunch
<1>2. /\ pc = "launch" /\ kv' = Written(row')
      /\ tree' = [q \in DOMAIN tree \ E |-> tree[q]]
  BY DEF Launch, Evict
<1>3. /\ InBatch \subseteq Live /\ \A u \in InBatch : NewPages(u) \in Nat /\ Len(row[u]) \in Nat
  BY <1>2, BatchHolds DEF PagesInv, LocksInv
<1>4. \A u \in Uids :
         /\ req'[u].held = req[u].held /\ req'[u].handle = req[u].handle
         /\ u \in InBatch => req'[u].cached = req[u].dev
         /\ u \notin InBatch => req'[u] = req[u]
  BY LaunchComputes DEF LocksInv
<1>5. Live' = Live
  BY <1>4 DEF Live
<1>6. \A u \in Uids \ InBatch : row'[u] = row[u]
  BY LaunchServes DEF PagesInv, LocksInv
<1>7. \A v, k, p : InRow(v, k, p)' <=> InRow(v, k, p) \/ \E i, x : Dealt(E, i, x, v, k, p)
  BY PlacesLaunched DEF PagesInv, LocksInv
<1>8. \A u \in Uids : \A n \in 0 .. Len(text[u]) :
          SubSeq(text'[u], 1, n) = FirstTokens(u, n)
  BY TextGrows DEF LocksInv, FirstTokens
<1> HIDE DEF InBatch, Samplers, Batch
<1>9. ASSUME NEW u \in Live
      PROVE  /\ u \in Uids /\ req[u].cached \in Nat /\ req[u].dev \in Nat
             /\ req[u].handle \in Nat /\ req[u].alloc \in Nat /\ Len(text[u]) \in Nat
             /\ req[u].handle <= req[u].cached /\ req[u].cached <= req[u].alloc
             /\ req[u].cached <= req[u].dev /\ req[u].dev <= Len(text[u])
             /\ Len(row[u]) = div_ceil(req[u].alloc)
             /\ Len(row'[u]) \in Nat /\ row'[u] \in Seq(Pages)
  <2>1. u \in Uids /\ req[u] \in Requests /\ text[u] \in Seq(Nat) /\ row'[u] \in Seq(Pages)
    BY <1>1 DEF Live, LocksInv, Lengths, PagesInv, Rows
  <2>2. QED
    BY <2>1, RequestFields DEF LocksInv, Lengths, PagesInv, Rows
<1>10. ASSUME NEW u \in Live, NEW k \in 1 .. Len(row[u])
       PROVE  row'[u][k] = row[u][k]
  <2>1. u \in Uids /\ row[u] \in Seq(Pages)
    BY <1>9 DEF PagesInv, Rows
  <2>2. CASE u \notin InBatch
    BY <1>6, <2>1, <2>2
  <2>3. CASE u \in InBatch
    <3>1. PICK i \in 1 .. Len(Batch.reqs) : u = Batch.reqs[i]
      BY <2>3 DEF InBatch
    <3> DEFINE a == PagesBefore(i)
               b == PagesBefore(i + 1)
               m == needed_pages
               q == PoolOf(E)
    <3>2. /\ m \in Nat /\ m <= Len(q) /\ a \in Nat /\ a <= b /\ b = a + NewPages(u) /\ b <= m
          /\ row'[u] = Grow(row[u], q, m, a, b)
      BY <3>1, LaunchServes DEF PagesInv, LocksInv
    <3>3. q \in Seq(Pages)
      BY PoolServes DEF PagesInv
    <3>4. b \in Nat
      BY <1>3, <2>3, <3>2
    <3> HIDE DEF a, b, m, q
    <3>5. Grows(row[u], q, m, a, b)
      BY <2>1, <3>2, <3>3, <3>4, RowGrows
    <3>6. \A p : k \in 1 .. Len(row[u]) /\ row[u][k] = p => Grow(row[u], q, m, a, b)[k] = p
      BY <3>5 DEF Grows
    <3>7. QED
      BY <3>2, <3>6
  <2>4. QED
    BY <2>2, <2>3
<1>11. ASSUME NEW u \in Live, NEW k \in Nat \ {0}, NEW o \in Offsets
       PROVE  /\ Place(k, o) \in Nat \ {0}
              /\ Place(k, o) <= req[u].alloc => k \in 1 .. Len(row[u])
              /\ u \in InBatch /\ Place(k, o) <= req[u].dev => k \in 1 .. Len(row'[u])
              /\ req[u].cached < Place(k, o) => k > req[u].handle \div PageSize
  <2> DEFINE n == Place(k, o)
  <2>1. n \in Nat \ {0} /\ div_ceil(n) = k
    BY Placed
  <2>2. /\ req[u].cached \in Nat /\ req[u].handle \in Nat /\ req[u].alloc \in Nat
        /\ req[u].handle <= req[u].cached /\ Len(row[u]) = div_ceil(req[u].alloc)
    BY <1>9
  <2>3. req[u].handle < n => k > req[u].handle \div PageSize
    BY <2>2, BeyondHandle
  <2> HIDE DEF n
  <2>4. n <= req[u].alloc => k <= Len(row[u])
    BY <2>1, <2>2, StartedPages
  <2>5. ASSUME u \in InBatch, n <= req[u].dev PROVE k <= Len(row'[u])
    <3>1. req'[u].cached <= req'[u].alloc /\ Len(row'[u]) = div_ceil(req'[u].alloc)
      BY <1>1, <1>5 DEF PagesInv, Rows, div_ceil
    <3>2. req'[u].cached = req[u].dev /\ req[u].dev \in Nat
      BY <1>4, <1>9, <2>5
    <3>3. req'[u].alloc \in Nat
      <4>1. req'[u] \in Requests
        BY <1>1, <1>9 DEF LocksInv, Lengths
      <4>2. QED
        BY <4>1 DEF Requests
    <3>4. n <= req'[u].alloc
      BY <2>1, <2>5, <3>1, <3>2, <3>3
    <3>5. QED
      BY <2>1, <3>1, <3>3, <3>4, StartedPages
  <2>6. Len(row[u]) \in Nat /\ Len(row'[u]) \in Nat
    BY <1>9 DEF PagesInv, Rows
  <2>7. QED
    BY <2>1, <2>2, <2>3, <2>4, <2>5, <2>6 DEF n
<1>12. ASSUME NEW v, NEW k, NEW p, NEW o \in Offsets, Writes(row', v, k, p, o)
       PROVE  /\ InRow(v, k, p)' /\ v \in InBatch
              /\ req[v].cached < Place(k, o) /\ Place(k, o) <= req[v].dev
  <2>1. /\ v \in InBatch /\ k \in 1 .. Len(row'[v]) /\ row'[v][k] = p
        /\ (k - 1) * PageSize + o \in req[v].cached .. req[v].dev - 1
    BY <1>12 DEF Writes
  <2>2. v \in Live /\ v \in Uids /\ k \in Nat \ {0} /\ v \in Live'
    BY <1>3, <1>5, <2>1 DEF Live
  <2> DEFINE m == (k - 1) * PageSize + o
  <2>3. m \in Int /\ Place(k, o) = m + 1
    <3>1. (k - 1) * PageSize \in Int /\ o \in Int
      BY <2>2, SchedulerConstants DEF Offsets
    <3>2. QED
      BY <3>1 DEF Place
  <2>4. req[v].cached <= m /\ m <= req[v].dev - 1
    BY <2>1
  <2>5. req[v].cached \in Nat /\ req[v].dev \in Nat
    BY <1>9, <2>2
  <2> HIDE DEF m
  <2>6. req[v].cached < Place(k, o) /\ Place(k, o) <= req[v].dev
    BY <2>3, <2>4, <2>5
  <2>7. k > req'[v].handle \div PageSize
    BY <1>4, <1>11, <2>2, <2>6
  <2>8. QED
    BY <2>1, <2>2, <2>6, <2>7 DEF InRow
<1>13. \A p \in Pages : Single(p)'
  BY <1>1 DEF PagesInv, Pool
<1>14. ASSUME NEW q, NEW p, InTree(q, p)', NEW o \in Offsets
       PROVE  kv'[p][o] = SubSeq(q, 1, Len(q) - PageSize + o + 1)
  <2>1. InTree(q, p) /\ p \in Pages
    BY <1>2, <1>14 DEF InTree, PagesInv, Pool
  <2>2. Single(p)'
    BY <1>13, <2>1
  <2>3. \A v, k : ~ InRow(v, k, p)'
    BY <1>14, <2>2 DEF Single
  <2>4. \A v, k : ~ Writes(row', v, k, p, o)
    BY <1>12, <2>3
  <2>5. kv'[p][o] = kv[p][o]
    BY <1>2, <2>1, <2>4, WrittenAt
  <2>6. QED
    BY <2>1, <2>5 DEF ContentsInv, TreeFilled
<1>15. TreeFilled'
  BY <1>14, Zenon DEF TreeFilled, Offsets
<1>16. ASSUME NEW u, NEW k, NEW p, InRow(u, k, p)', NEW o \in Offsets,
              Place(k, o) <= req'[u].cached
       PROVE  kv'[p][o] = SubSeq(text'[u], 1, Place(k, o))
  <2>1. /\ u \in Live /\ u \in Uids /\ k \in Nat \ {0} /\ k \in 1 .. Len(row'[u])
        /\ row'[u][k] = p /\ k > req[u].handle \div PageSize
    BY <1>4, <1>5, <1>16 DEF InRow, Live
  <2>2. p \in Pages
    BY <1>9, <2>1
  <2> DEFINE n == Place(k, o)
  <2>3. n \in Nat \ {0}
    BY <1>11, <2>1
  <2>4. /\ req[u].cached \in Nat /\ req[u].dev \in Nat /\ Len(text[u]) \in Nat
        /\ req[u].alloc \in Nat /\ req[u].cached <= req[u].alloc
        /\ req[u].cached <= req[u].dev /\ req[u].dev <= Len(text[u])
    BY <1>9, <2>1
  <2>5. /\ n <= req[u].dev /\ (n > req[u].cached => u \in InBatch)
    <3> HIDE DEF n
    <3>1. n <= req'[u].cached
      BY <1>16 DEF n
    <3>2. CASE u \in InBatch
      BY <1>4, <2>1, <2>3, <2>4, <3>1, <3>2
    <3>3. CASE u \notin InBatch
      BY <1>4, <2>1, <2>3, <2>4, <3>1, <3>3
    <3>4. QED
      BY <3>2, <3>3
  <2>6. SubSeq(text'[u], 1, n) = FirstTokens(u, n)
    <3> HIDE DEF n
    <3>1. n \in 0 .. Len(text[u])
      BY <2>3, <2>4, <2>5
    <3>2. QED
      BY <1>8, <2>1, <3>1
  <2>7. \A v, l : InRow(v, l, p)' => v = u /\ l = k
    BY <1>13, <1>16, <2>2 DEF Single
  <2>8. \A v, l : Writes(row', v, l, p, o) => v = u /\ l = k
    BY <1>12, <2>7
  <2>9. CASE Writes(row', u, k, p, o)
    <3>1. ASSUME NEW j \in req[u].cached + 1 .. req[u].dev,
                 row'[u][div_ceil(j)] = p, (j - 1) % PageSize = o
          PROVE  j = n
      <4>1. j \in Nat \ {0} /\ req[u].cached < j /\ j <= req[u].dev
        BY <2>4
      <4> DEFINE l == div_ceil(j)
      <4>2. l \in Nat \ {0} /\ Place(l, o) = j
        BY <3>1, <4>1, PlaceOf
      <4>3. u \in InBatch
        BY <1>12, <2>9
      <4> HIDE DEF l
      <4>4. l \in 1 .. Len(row'[u]) /\ l > req[u].handle \div PageSize
        BY <1>11, <2>1, <4>1, <4>2, <4>3
      <4>5. InRow(u, l, p)'
        BY <1>4, <1>5, <2>1, <3>1, <4>4 DEF InRow, l
      <4>6. QED
        BY <2>7, <4>2, <4>5
    <3>2. Written(row')[p][o] = FirstTokens(u, n)
      BY <2>2, <2>4, <2>8, <2>9, <3>1, WrittenAt
    <3>3. QED
      BY <1>2, <2>6, <3>2
  <2>10. CASE ~ Writes(row', u, k, p, o)
    <3>1. \A v, l : ~ Writes(row', v, l, p, o)
      BY <2>8, <2>10
    <3>2. kv'[p][o] = kv[p][o]
      BY <1>2, <2>2, <3>1, WrittenAt
    <3>3. n <= req[u].cached
      <4>1. SUFFICES ASSUME n > req[u].cached PROVE FALSE
        BY <2>3, <2>4
      <4>2. u \in InBatch
        BY <2>5, <4>1
      <4>3. (k - 1) * PageSize + o \in req[u].cached .. req[u].dev - 1
        <5> DEFINE m == (k - 1) * PageSize + o
        <5>1. m \in Int /\ n = m + 1
          <6>1. (k - 1) * PageSize \in Int /\ o \in Int
            BY <2>1, SchedulerConstants DEF Offsets
          <6>2. QED
            BY <6>1 DEF Place
        <5> HIDE DEF m, n
        <5>2. m \in req[u].cached .. req[u].dev - 1
          BY <2>4, <2>5, <4>1, <5>1
        <5>3. QED
          BY <5>2 DEF m
      <4>4. QED
        BY <2>1, <2>10, <4>2, <4>3 DEF Writes
    <3>4. k \in 1 .. Len(row[u])
      <4>1. n <= req[u].alloc
        <5> HIDE DEF n
        <5>1. QED
          BY <2>3, <2>4, <3>3
      <4>2. QED
        BY <1>11, <2>1, <4>1
    <3>5. InRow(u, k, p)
      BY <1>10, <2>1, <3>4 DEF InRow
    <3>6. kv[p][o] = FirstTokens(u, n)
      BY <3>3, <3>5 DEF ContentsInv, OwnFilled
    <3>7. QED
      BY <2>6, <3>2, <3>6
  <2>11. QED
    BY <2>9, <2>10
<1>17. OwnFilled'
  BY <1>16, Zenon DEF OwnFilled, FirstTokens, Place, Offsets
<1>18. ASSUME NEW u \in Live', NEW k \in 1 .. (req'[u].handle \div PageSize)
       PROVE  /\ SubSeq(text'[u], 1, k * PageSize) \in DOMAIN tree'
              /\ tree'[SubSeq(text'[u], 1, k * PageSize)] = row'[u][k]
  <2> DEFINE h == req[u].handle
             q == FirstTokens(u, k * PageSize)
             s == text'[u]
  <2>1. /\ u \in Live /\ u \in Uids /\ req'[u].handle = h /\ h \in Nat
        /\ h <= Len(text[u]) /\ h <= req[u].alloc /\ req[u].alloc \in Nat /\ Len(text[u]) \in Nat
        /\ Len(row[u]) = div_ceil(req[u].alloc)
    <3>1. /\ u \in Live /\ u \in Uids /\ req'[u].handle = h
      BY <1>4, <1>5 DEF Live
    <3>2. QED
      BY <1>9, <3>1
  <2>2. /\ k \in Nat /\ k \in 1 .. (h \div PageSize) /\ h \div PageSize \in Nat
        /\ k * PageSize \in Nat
    <3>1. h \div PageSize \in Nat
      BY <2>1, PagesGrow
    <3>2. k \in Nat /\ k \in 1 .. (h \div PageSize)
      BY <1>18, <2>1, <3>1
    <3>3. QED
      BY <3>1, <3>2, WholePages
  <2>3. k * PageSize <= h
    BY <2>1, <2>2, PagesFit
  <2>4. InTree(q, row[u][k])
    BY <2>1, <2>2 DEF ContentsInv, Shared
  <2>5. s \in Seq(Nat) /\ h <= Len(s) /\ Len(s) \in Nat
    BY <1>1, <1>5, <2>1 DEF LocksInv, Lengths
  <2>6. SubSeq(s, 1, k * PageSize) = q
    <3>1. k * PageSize \in 0 .. Len(text[u])
      BY <2>1, <2>2, <2>3
    <3>2. QED
      BY <1>8, <2>1, <3>1
  <2> HIDE DEF s
  <2>7. SubSeq(s, 1, k * PageSize) \in PathOf(SubSeq(s, 1, h))
    <3>1. h \in 0 .. Len(s) /\ k * PageSize \in 0 .. h
      BY <2>1, <2>2, <2>3, <2>5
    <3> HIDE DEF h
    <3>2. /\ Len(SubSeq(s, 1, h)) = h
          /\ SubSeq(SubSeq(s, 1, h), 1, k * PageSize) = SubSeq(s, 1, k * PageSize)
      BY <2>5, <3>1, CutCut
    <3>3. QED
      BY <2>2, <3>2 DEF PathOf
  <2>8. req'[u].held /\ SubSeq(s, 1, k * PageSize) \in PathOf(SubSeq(text'[u], 1, req'[u].handle))
    BY <2>1, <2>7 DEF Live, s
  <2> HIDE DEF h, q
  <2>9. q \in DOMAIN tree'
    <3>1. \A x : req'[u].held /\ x \in PathOf(SubSeq(text'[u], 1, req'[u].handle))
                    => x \in DOMAIN tree'
      BY <1>1, <2>1, Zenon DEF LocksInv, RefsCount, Reads, FirstTokens, TreeClosed, PathOf
    <3>2. QED
      BY <2>6, <2>8, <3>1
  <2>10. tree'[q] = row[u][k]
    BY <1>2, <2>4, <2>9 DEF InTree
  <2>11. row'[u][k] = row[u][k]
    <3>1. h \div PageSize <= div_ceil(req[u].alloc) /\ div_ceil(req[u].alloc) \in Nat
      BY <2>1, StartedPages
    <3>2. k \in 1 .. Len(row[u])
      BY <2>1, <2>2, <3>1
    <3>3. QED
      BY <1>10, <2>1, <3>2
  <2>12. QED
    BY <2>6, <2>9, <2>10, <2>11 DEF s
<1>19. Shared'
  BY <1>18, Zenon DEF Shared, FirstTokens, InTree
<1>20. QED
  BY <1>15, <1>17, <1>19 DEF ContentsInv

-----------------------------------------------------------------------------
(* The other steps.                                                        *)

(* Requests that hold rows stay as they are, and so does the cache.        *)
LEMMA ContentsIdle ==
  ASSUME LocksInv, ContentsInv, UNCHANGED <<kv, tree, row>>,
         \A v \in Live' : /\ v \in Live /\ text'[v] = text[v]
                          /\ req'[v].handle = req[v].handle /\ req'[v].cached = req[v].cached
  PROVE  ContentsInv'
<1>1. Lengths
  BY DEF LocksInv
<1>2. \A v, k, p : InRow(v, k, p)' => InRow(v, k, p) /\ req'[v].cached = req[v].cached
  BY DEF InRow
<1>3. \A q, p : InTree(q, p)' <=> InTree(q, p)
  BY DEF InTree
<1>4. OwnFilled' /\ TreeFilled'
  BY <1>1, <1>2, <1>3, FilledKept
<1>5. Shared'
  BY <1>3, SharedKept DEF ContentsInv
<1>6. QED
  BY <1>4, <1>5 DEF ContentsInv

(* Messages; a new request has no row.                                     *)
LEMMA ContentsReceive ==
  ASSUME ReplyInv, LocksInv, ContentsInv, NEW u \in Uids,
         \/ UserDropped(u) \/ \E p \in Prompts : UserTooLong(u, p)
         \/ \E p \in Prompts, m \in MaxTokens : UserAccepted(u, p, m)
  PROVE  ContentsInv'
<1>1. UNCHANGED <<req, row, tree, kv>> /\ job[u].state = "none"
  BY DEF UserDropped, UserTooLong, UserAccepted
<1>2. \A v \in Uids : v # u => text'[v] = text[v]
  <2>1. text \in [Uids -> Seq(Nat)]
    BY DEF LocksInv, Lengths
  <2>2. text' = text \/ \E p \in Prompts : text' = [text EXCEPT ![u] = p]
    BY DEF UserDropped, UserTooLong, UserAccepted
  <2>3. QED
    BY <2>1, <2>2
<1>3. \A v \in Live : v # u /\ v \in Uids
  BY <1>1 DEF LocksInv, Lengths, Live
<1>4. Live' = Live
  BY <1>1 DEF Live
<1>5. QED
  BY <1>1, <1>2, <1>3, <1>4, ContentsIdle

(* An abort gives the row up, or leaves everything to the drain.           *)
LEMMA ContentsAbort ==
  ASSUME LocksInv, PagesInv, ContentsInv, NEW u \in Uids, Abort(u)
  PROVE  ContentsInv'
<1>1. UNCHANGED <<text, kv>>
  BY DEF Abort
<1>2. CASE AbortFinds(u) /\ ~ InFlight(u)
  <2>1. FreeResources(u, req[u])
    BY <1>2 DEF Abort
  <2>2. QED
    BY <1>1, <2>1, ContentsFreed DEF PagesInv
<1>3. CASE ~ (AbortFinds(u) /\ ~ InFlight(u))
  <2> DEFINE b == req[u].aborted \/ AbortFinds(u)
  <2>1. UNCHANGED <<tree, row>> /\ req' = [req EXCEPT ![u].aborted = b]
    BY <1>3 DEF Abort
  <2> HIDE DEF b
  <2>2. req \in [Uids -> Requests]
    BY DEF LocksInv, Lengths
  <2>3. \A v \in Uids : /\ req'[v].held = req[v].held /\ req'[v].handle = req[v].handle
                        /\ req'[v].cached = req[v].cached
    BY <2>1, <2>2 DEF Requests
  <2>4. \A v \in Live' : /\ v \in Live /\ req'[v].handle = req[v].handle
                         /\ req'[v].cached = req[v].cached
    BY <2>3 DEF Live
  <2>5. QED
    BY <1>1, <2>1, <2>4, ContentsIdle
<1>4. QED
  BY <1>2, <1>3

(* An admission takes over the row of an earlier chunk, or begins one with *)
(* the pages of the cache that the prompt matches.                         *)
LEMMA ContentsAdmit ==
  ASSUME ReplyInv, LocksInv, PagesInv, ContentsInv, NEW u \in Uids,
         AdmitContinuation(u) \/ AdmitFresh(u)
  PROVE  ContentsInv'
<1>1. Lengths /\ Ledgers /\ Rows /\ TreeClosed /\ req \in [Uids -> Requests]
  BY DEF LocksInv, PagesInv, Lengths
<1>2. /\ UNCHANGED <<text, kv, tree>> /\ Admitting(u)
  BY DEF AdmitContinuation, AdmitFresh, cache, inbox
<1>3. /\ text[u] \in Seq(Nat) /\ job[u].plen \in 1 .. Len(text[u]) /\ job[u].plen \in Nat
      /\ pc = "admit" /\ In(pending, u)
  BY <1>1, <1>2, Admitted
<1>4. CASE AdmitContinuation(u)
  <2> DEFINE a == req[u].alloc
             c == req[u].cached
             h == req[u].handle
  <2>1. req[u].held /\ AddOneReq(u, c, h, a) /\ row' = row
    BY <1>4 DEF AdmitContinuation
  <2>2. u \in Live
    BY <2>1 DEF Live
  <2>3. /\ c \in Nat /\ a \in Nat /\ h \in Nat /\ req[u].dev \in Nat
    <3>1. req[u] \in Requests
      BY <1>1
    <3>2. QED
      BY <3>1, RequestFields
  <2>4. c <= req[u].dev /\ req[u].dev <= job[u].plen
    BY <1>1, <1>3, <2>2 DEF Lengths
  <2>5. c <= job[u].plen
    BY <1>3, <2>3, <2>4
  <2> HIDE DEF a, c, h
  <2>6. /\ req'[u].held /\ req'[u].handle = h /\ req'[u].cached = c
        /\ \A v \in Uids : v # u => req'[v] = req[v]
    BY <1>1, <1>2, <2>1, <2>3, <2>5, AdmitFields
  <2>7. \A v \in Live' : /\ v \in Live /\ req'[v].handle = req[v].handle
                         /\ req'[v].cached = req[v].cached
    BY <2>2, <2>6 DEF Live, h, c
  <2>8. QED
    BY <1>2, <2>1, <2>7, ContentsIdle
<1>5. CASE AdmitFresh(u)
  <2> DEFINE n == Match(u)
             h == n \div PageSize
             new == [k \in 1 .. h |-> tree[FirstTokens(u, k * PageSize)]]
  <2>1. ~ req[u].held /\ AddOneReq(u, n, n, 0) /\ row' = [row EXCEPT ![u] = new]
    BY <1>5 DEF AdmitFresh
  <2>2. /\ n \in Nat /\ n <= job[u].plen /\ h \in Nat
        /\ \A k \in 1 .. h : FirstTokens(u, k * PageSize) \in DOMAIN tree
    BY <1>1, <1>3, MatchWhole
  <2>3. Len(new) = h /\ \A k \in 1 .. h : new[k] = tree[FirstTokens(u, k * PageSize)]
    <3> HIDE DEF h
    <3>1. QED
      BY <2>2
  <2> HIDE DEF n, new
  <2>4. row'[u] = new /\ \A v \in Uids : v # u => row'[v] = row[v]
    BY <1>1, <2>1 DEF Rows
  <2>5. /\ req'[u].held /\ req'[u].handle = n
        /\ \A v \in Uids : v # u => req'[v] = req[v]
    <3>1. 0 \in Nat
      OBVIOUS
    <3>2. QED
      BY <1>1, <1>2, <2>1, <2>2, <3>1, AdmitFields
  <2>6. \A v \in Live' : v \in Uids /\ (v # u => v \in Live /\ req'[v] = req[v] /\ row'[v] = row[v])
    BY <2>4, <2>5 DEF Live
  <2>7. \A k, p : ~ InRow(u, k, p)'
    <3>1. \A k \in 1 .. h : ~ (k > h)
      BY <2>2
    <3>2. QED
      BY <2>3, <2>4, <2>5, <3>1 DEF InRow
  <2>8. \A v, k, p : InRow(v, k, p)' => InRow(v, k, p) /\ req'[v].cached = req[v].cached
    <3>1. \A v, k, p : InRow(v, k, p)' => v # u
      BY <2>7
    <3>2. QED
      BY <2>6, <3>1 DEF InRow
  <2>9. \A q, p : InTree(q, p)' <=> InTree(q, p)
    BY <1>2 DEF InTree
  <2>10. OwnFilled' /\ TreeFilled'
    BY <1>1, <1>2, <2>8, <2>9, FilledKept
  <2>11. ASSUME NEW v \in Live', NEW k \in 1 .. (req'[v].handle \div PageSize)
         PROVE  /\ SubSeq(text'[v], 1, k * PageSize) \in DOMAIN tree'
                /\ tree'[SubSeq(text'[v], 1, k * PageSize)] = row'[v][k]
    <3>1. CASE v = u
      BY <1>2, <2>2, <2>3, <2>4, <2>5, <2>11, <3>1 DEF FirstTokens
    <3>2. CASE v # u
      <4>1. v \in Live /\ req'[v] = req[v] /\ row'[v] = row[v]
        BY <2>6, <3>2
      <4>2. InTree(FirstTokens(v, k * PageSize), row[v][k])
        BY <2>11, <4>1 DEF ContentsInv, Shared
      <4>3. QED
        BY <1>2, <4>1, <4>2 DEF FirstTokens, InTree
    <3>3. QED
      BY <3>1, <3>2
  <2>12. Shared'
    BY <2>11, Zenon DEF Shared, FirstTokens, InTree
  <2>13. QED
    BY <2>10, <2>12 DEF ContentsInv
<1>6. QED
  BY <1>4, <1>5

(* The results of a batch, one request at a time.                          *)
LEMMA ContentsDrain ==
  ASSUME LocksInv, PagesInv, ContentsInv, NEW u \in Uids,
         \/ DrainChunk(u) \/ DrainAborted(u) \/ DrainSurplus(u)
         \/ DrainFinal(u) \/ DrainToken(u)
  PROVE  ContentsInv'
<1>1. UNCHANGED <<text, kv>>
  BY DEF DrainChunk, DrainAborted, DrainSurplus, DrainFinal, DrainToken, inbox
<1>2. Rows /\ req \in [Uids -> Requests] /\ req[u] \in Requests /\ req[u].host + 1 \in Nat
  <2>1. Rows /\ req \in [Uids -> Requests] /\ req[u] \in Requests
    BY DEF PagesInv, LocksInv, Lengths
  <2>2. QED
    BY <2>1, RequestFields
<1>3. ASSUME FreeResources(u, req[u]) \/ FreeResources(u, Appended(u)) PROVE ContentsInv'
  BY <1>1, <1>2, <1>3, ContentsFreed
<1>4. ASSUME UNCHANGED <<tree, row>>, req' = req \/ req' = [req EXCEPT ![u] = Appended(u)]
      PROVE  ContentsInv'
  <2>1. /\ Appended(u).held = req[u].held /\ Appended(u).handle = req[u].handle
        /\ Appended(u).cached = req[u].cached
    BY <1>2 DEF Appended, Requests
  <2>2. \A v \in Uids : v # u => req'[v] = req[v]
    BY <1>2, <1>4
  <2>3. req'[u] = req[u] \/ req'[u] = Appended(u)
    BY <1>2, <1>4
  <2>4. \A v \in Live' : /\ v \in Live /\ req'[v].handle = req[v].handle
                         /\ req'[v].cached = req[v].cached
    BY <2>1, <2>2, <2>3 DEF Live
  <2>5. QED
    BY <1>1, <1>4, <2>4, ContentsIdle
<1>5. CASE DrainChunk(u)
  <2>1. FreeResources(u, req[u]) \/ UNCHANGED <<tree, row, req>>
    BY <1>5 DEF DrainChunk
  <2>2. QED
    BY <1>3, <1>4, <2>1
<1>6. CASE DrainAborted(u) \/ DrainFinal(u)
  BY <1>3, <1>6 DEF DrainAborted, DrainFinal
<1>7. CASE DrainSurplus(u)
  <2>1. UNCHANGED <<tree, row, req>>
    BY <1>7 DEF DrainSurplus, cache
  <2>2. QED
    BY <1>4, <2>1
<1>8. CASE DrainToken(u)
  <2>1. CASE last.phase = "prefill" /\ req[u].held
    <3>1. CommitPrefix(u, Appended(u)) /\ u \in Live
      BY <1>8, <2>1 DEF DrainToken, Live
    <3>2. QED
      BY <1>1, <1>2, <3>1, ContentsCommitted
  <2>2. CASE ~ (last.phase = "prefill" /\ req[u].held)
    <3>1. UNCHANGED <<tree, row>> /\ req' = [req EXCEPT ![u] = Appended(u)]
      BY <1>8, <2>2 DEF DrainToken
    <3>2. QED
      BY <1>4, <3>1
  <2>3. QED
    BY <2>1, <2>2
<1>9. QED
  BY <1>5, <1>6, <1>7, <1>8

(* The loop's own steps leave requests, rows and pages alone.              *)
LEMMA ContentsElse ==
  ASSUME LocksInv, ContentsInv,
         \/ \E b \in 1 .. PrefillBudget : SchedulePrefill(b)
         \/ ScheduleDecode \/ AdmitDone \/ LaunchNothing \/ LaunchAsserts \/ DrainEnd
         \/ UNCHANGED vars
  PROVE  ContentsInv'
<1>1. UNCHANGED <<kv, tree, row, req, text>>
  BY DEF SchedulePrefill, ScheduleDecode, AdmitDone, LaunchNothing, LaunchAsserts, DrainEnd,
         vars, cache
<1>2. Live' = Live
  BY <1>1 DEF Live
<1>3. QED
  BY <1>1, <1>2, ContentsIdle

(* Nothing is read and nothing is cached.                                  *)
LEMMA ContentsInit == Init => ContentsInv
<1> SUFFICES ASSUME Init PROVE ContentsInv
  OBVIOUS
<1>1. tree = <<>> /\ req = [u \in Uids |-> NoReq]
  BY DEF Init
<1>2. Live = {}
  BY <1>1 DEF Live, NoReq
<1>3. DOMAIN tree = {}
  BY <1>1
<1>4. QED
  BY <1>2, <1>3 DEF ContentsInv, OwnFilled, TreeFilled, Shared, InRow, InTree

(* No step lets a request read another's tokens.                           *)
LEMMA ContentsStep == ReplyInv /\ LocksInv /\ PagesInv /\ ContentsInv /\ [Next]_vars => ContentsInv'
<1> SUFFICES ASSUME ReplyInv, LocksInv, PagesInv, ContentsInv, [Next]_vars PROVE ContentsInv'
  OBVIOUS
<1>1. CASE Receive
  BY <1>1, ContentsReceive, ContentsAbort DEF Receive
<1>2. CASE Admit
  BY <1>2, ContentsAdmit, ContentsElse DEF Admit
<1>3. CASE Dispatch
  BY <1>3, ContentsLaunch, ContentsElse DEF Dispatch
<1>4. CASE Drain
  BY <1>4, ContentsDrain, ContentsElse DEF Drain
<1>5. CASE UNCHANGED vars
  BY <1>5, ContentsElse
<1>6. QED
  BY <1>1, <1>2, <1>3, <1>4, <1>5 DEF Next

(* Own pages hold what was computed in them, the cache's the prefixes they *)
(* stand for, and rows share the cache's pages up to their handle.         *)
THEOREM ContentsInvariant == Spec => []ContentsInv
<1>1. Init => ContentsInv
  BY ContentsInit
<1>2. ReplyInv /\ LocksInv /\ PagesInv /\ ContentsInv /\ [Next]_vars => ContentsInv'
  BY ContentsStep
<1>3. QED
  BY <1>1, <1>2, ReplyInvariant, LocksInvariant, PagesInvariant, PTL DEF Spec

(* A position of a row is on a page of its own or on one of the cache.     *)
LEMMA RowsRead ==
  ASSUME LocksInv, PagesInv, ContentsInv
  PROVE  RowsHoldOwnTokens
<1>1. ASSUME NEW u \in Live, NEW n \in 1 .. req[u].cached
      PROVE  KvAt(row[u], n) = FirstTokens(u, n)
  <2>1. /\ u \in Uids /\ req[u] \in Requests /\ text[u] \in Seq(Nat) /\ Len(text[u]) \in Nat
        /\ req[u].cached <= req[u].dev /\ req[u].dev <= Len(text[u])
        /\ req[u].cached <= req[u].alloc /\ Len(row[u]) = div_ceil(req[u].alloc)
        /\ row[u] \in Seq(Pages) /\ Len(row[u]) \in Nat
    BY DEF LocksInv, Lengths, PagesInv, Rows, Live
  <2>2. /\ req[u].cached \in Nat /\ req[u].dev \in Nat /\ req[u].alloc \in Nat
        /\ req[u].handle \in Nat
    BY <2>1, RequestFields
  <2>3. n \in Nat \ {0} /\ n <= req[u].alloc /\ n <= Len(text[u]) /\ n <= req[u].cached
    BY <2>1, <2>2, SMTT(30)
  <2> DEFINE k == div_ceil(n)
             o == (n - 1) % PageSize
             p == row[u][k]
  <2>4. k \in Nat \ {0} /\ o \in Offsets /\ Place(k, o) = n
    BY <2>3, PlaceOf
  <2>5. k <= Len(row[u])
    BY <2>1, <2>2, <2>3, StartedPages
  <2>6. KvAt(row[u], n) = kv[p][o]
    BY DEF KvAt
  <2> HIDE DEF k, o, p
  <2>7. k \in 1 .. Len(row[u])
    BY <2>1, <2>4, <2>5
  <2>8. req[u].handle \div PageSize \in Nat
    BY <2>2, PagesGrow
  <2>9. CASE k > req[u].handle \div PageSize
    <3>1. InRow(u, k, p)
      BY <2>7, <2>9 DEF InRow, p
    <3>2. QED
      BY <2>3, <2>4, <2>6, <3>1 DEF ContentsInv, OwnFilled
  <2>10. CASE k <= req[u].handle \div PageSize
    <3>1. k \in 1 .. (req[u].handle \div PageSize)
      BY <2>4, <2>8, <2>10
    <3> DEFINE m == k * PageSize
               q == FirstTokens(u, m)
    <3>2. InTree(q, p)
      BY <3>1 DEF ContentsInv, Shared, p
    <3>3. m \in Nat /\ n <= m /\ m - PageSize + o + 1 = n
      BY <2>4, Placed
    <3>4. m <= Len(text[u])
      <4>1. m <= req[u].handle
        BY <2>2, <2>4, <2>10, PagesFit
      <4>2. req[u].handle <= Len(text[u])
        BY DEF LocksInv, Lengths
      <4> HIDE DEF m
      <4>3. QED
        BY <2>1, <2>2, <3>3, <4>1, <4>2
    <3> HIDE DEF m
    <3>5. m \in 0 .. Len(text[u]) /\ n \in 0 .. m
      BY <2>1, <2>3, <3>3, <3>4
    <3>6. Len(q) = m /\ SubSeq(q, 1, n) = FirstTokens(u, n)
      BY <2>1, <3>5, CutCut DEF FirstTokens
    <3> HIDE DEF q
    <3>7. kv[p][o] = SubSeq(q, 1, Len(q) - PageSize + o + 1)
      BY <2>4, <3>2 DEF ContentsInv, TreeFilled
    <3>8. QED
      BY <2>6, <3>3, <3>6, <3>7
  <2>11. QED
    BY <2>4, <2>8, <2>9, <2>10
<1>2. \A q \in DOMAIN tree : \A o \in 0 .. PageSize - 1 :
         kv[tree[q]][o] = SubSeq(q, 1, Len(q) - PageSize + o + 1)
  BY DEF ContentsInv, TreeFilled, InTree, Offsets
<1>3. QED
  BY <1>1, <1>2 DEF RowsHoldOwnTokens

(* Whatever a row points at for the positions its request has computed is  *)
(* the KV of that request's own tokens, and what the cache holds for a     *)
(* prefix is the KV of that prefix: no early free, no missed re-pointing   *)
(* at a commit, no eviction under a reader and no surplus step of an ended *)
(* or aborted request lets another request write there.                    *)
THEOREM RowsReadOwnTokens == Spec => []RowsHoldOwnTokens
<1>1. LocksInv /\ PagesInv /\ ContentsInv => RowsHoldOwnTokens
  BY RowsRead
<1>2. QED
  BY <1>1, LocksInvariant, PagesInvariant, ContentsInvariant, PTL

=============================================================================
