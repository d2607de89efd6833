--------------------------- MODULE SwaRadixProofs ---------------------------
(***************************************************************************)
(* Proofs about SwaRadix, for any requests, prompts, sampled tokens, pools, *)
(* window and gap.                                                         *)
(***************************************************************************)
EXTENDS SwaRadix, FiniteSetTheorems, WellFoundedInduction, TLAPS

Toks == Seq(Nat)
Pool == 1 .. NumPages
NodeType == [ref : Nat, sref : Nat, tomb : BOOLEAN, uuid : Nat]

(* The node a cached prefix lies in: the first one at or below it.         *)
Lies(c, p, n) == /\ n \in DOMAIN c.nodes /\ IsPrefix(p, n)
                 /\ \A m \in DOMAIN c.nodes : IsPrefix(p, m) => IsPrefix(n, m)

(* A tree: its pages are those of the prefixes of its nodes, and it has a  *)
(* node wherever it branches.                                              *)
Shape(c) ==
    /\ c = [nodes |-> c.nodes, kv |-> c.kv, free |-> c.free, live |-> c.live]
    /\ IsFiniteSet(DOMAIN c.nodes) /\ DOMAIN c.nodes \subseteq Toks \ {Root}
    /\ c.nodes \in [DOMAIN c.nodes -> NodeType]
    /\ c.kv \in [DOMAIN c.kv -> Pool] /\ c.free \subseteq Pool /\ c.live \subseteq Pool
    /\ \A p : p \in DOMAIN c.kv <=> /\ p \in Toks \ {Root}
                                    /\ \E n \in DOMAIN c.nodes : IsPrefix(p, n)
    /\ \A p \in DOMAIN c.kv : \E n : Lies(c, p, n)
    /\ \A n, m \in DOMAIN c.nodes :
         c.nodes[n].uuid = c.nodes[m].uuid /\ c.nodes[n].uuid # 0 => n = m

(* The window lock of a handle reaches up to the node that carries its     *)
(* uuid, or to the root.                                                   *)
Holds(c, h, n) ==
    /\ n \in Path(c, h.at)
    /\ h.uuid # 0 => \E b \in Path(c, h.at) : /\ c.nodes[b].uuid = h.uuid
                                              /\ Len(b) <= Len(n)

(* A handle ends at a node, and its window lock covers its window.         *)
Anchored(c, h) ==
    /\ h.at \in Toks /\ h.uuid \in Nat
    /\ h.at = Root \/ h.at \in DOMAIN c.nodes
    /\ h.uuid # 0 => \E b \in Path(c, h.at) : c.nodes[b].uuid = h.uuid
    /\ \A n \in Path(c, h.at) : Len(n) > Len(h.at) - Window => Holds(c, h, n)

Readers(H, n) == {r \in DOMAIN H : IsPrefix(n, H[r].at)}
Holders(c, H, n) == {r \in DOMAIN H : Holds(c, H[r], n)}

(* The locks are those of the handles H.                                   *)
Locks(c, H) ==
    /\ IsFiniteSet(DOMAIN H)
    /\ \A r \in DOMAIN H : Anchored(c, H[r])
    /\ \A n \in DOMAIN c.nodes : /\ c.nodes[n].ref = Cardinality(Readers(H, n))
                                 /\ c.nodes[n].sref = Cardinality(Holders(c, H, n))
                                 /\ c.nodes[n].tomb => c.nodes[n].sref = 0
                                 /\ is_leaf(c, n) => ~c.nodes[n].tomb

Tree(c, H) == Shape(c) /\ Locks(c, H)

(* What a step leaves of the cached prefixes and of the pages.             *)
SamePages(c, d) == c.kv = d.kv /\ c.free = d.free /\ c.live = d.live

(* The prefix lies in a tombstone.                                         *)
Dead(c, p) == \E n : Lies(c, p, n) /\ c.nodes[n].tomb

-----------------------------------------------------------------------------
(* PrefixOrder.                                                               *)

(* A prefix of a sequence is its first elements.                           *)
LEMMA UpTos ==
  ASSUME NEW s \in Toks, NEW i \in 0 .. Len(s)
  PROVE  /\ UpTo(s, i) \in Toks /\ Len(UpTo(s, i)) = i /\ IsPrefix(UpTo(s, i), s)
         /\ \A j \in 1 .. i : UpTo(s, i)[j] = s[j]
         /\ i = 0 <=> UpTo(s, i) = Root
<1>1. UpTo(s, i) \in Toks /\ Len(UpTo(s, i)) = i /\ \A j \in 1 .. i : UpTo(s, i)[j] = s[j]
  BY DEF UpTo, Toks
<1>2. SubSeq(UpTo(s, i), 1, i) = UpTo(s, i)
  BY <1>1 DEF Toks
<1>3. IsPrefix(UpTo(s, i), s)
  BY <1>1, <1>2 DEF IsPrefix, UpTo, Toks
<1>4. QED
  BY <1>1, <1>3 DEF Root, Toks

(* A sequence is a prefix of another that begins with its elements.        *)
LEMMA PrefixIs ==
  ASSUME NEW s \in Toks, NEW t \in Toks
  PROVE  IsPrefix(s, t) <=> Len(s) <= Len(t) /\ \A i \in 1 .. Len(s) : s[i] = t[i]
<1>1. SubSeq(s, 1, Len(s)) = s
  BY DEF Toks
<1>2. ASSUME Len(s) <= Len(t)
      PROVE  /\ SubSeq(t, 1, Len(s)) \in Toks /\ Len(SubSeq(t, 1, Len(s))) = Len(s)
             /\ \A i \in 1 .. Len(s) : SubSeq(t, 1, Len(s))[i] = t[i]
  BY <1>2 DEF Toks
<1>3. ASSUME Len(s) <= Len(t), \A i \in 1 .. Len(s) : s[i] = t[i]
      PROVE  SubSeq(t, 1, Len(s)) = s
  BY <1>2, <1>3 DEF Toks
<1>4. QED
  BY <1>1, <1>2, <1>3 DEF IsPrefix

(* The order of prefixes.                                                  *)
LEMMA PrefixOrder ==
  /\ \A s \in Toks : Len(s) \in Nat /\ IsPrefix(s, s) /\ IsPrefix(Root, s)
  /\ \A s, t \in Toks : IsPrefix(s, t) => Len(s) <= Len(t)
  /\ \A s, t \in Toks : IsPrefix(s, t) /\ Len(t) <= Len(s) => s = t
  /\ \A s, t, u \in Toks : IsPrefix(s, t) /\ IsPrefix(t, u) => IsPrefix(s, u)
  /\ \A s, t, u \in Toks : IsPrefix(s, u) /\ IsPrefix(t, u) /\ Len(s) <= Len(t) => IsPrefix(s, t)
  /\ \A s \in Toks : Len(s) = 0 <=> s = Root
  /\ Root \in Toks /\ Len(Root) = 0
<1>1. Root \in Toks /\ Len(Root) = 0
  BY DEF Root, Toks
<1>2. \A s \in Toks : Len(s) \in Nat /\ IsPrefix(s, s) /\ IsPrefix(Root, s) /\ (Len(s) = 0 <=> s = Root)
  <2> TAKE s \in Toks
  <2>1. Len(s) \in Nat /\ (Len(s) = 0 <=> s = Root)
    BY DEF Toks, Root
  <2>2. QED
    BY <1>1, <2>1, PrefixIs
<1>3. \A s, t \in Toks : IsPrefix(s, t) /\ Len(t) <= Len(s) => s = t
  <2> SUFFICES ASSUME NEW s \in Toks, NEW t \in Toks, IsPrefix(s, t), Len(t) <= Len(s)
               PROVE  s = t
    OBVIOUS
  <2>1. Len(s) = Len(t) /\ \A i \in 1 .. Len(s) : s[i] = t[i]
    BY <1>2, PrefixIs
  <2>2. QED
    BY <2>1, SMTT(30) DEF Toks
<1>4. \A s, t, u \in Toks : IsPrefix(s, t) /\ IsPrefix(t, u) => IsPrefix(s, u)
  BY <1>2, PrefixIs
<1>5. \A s, t, u \in Toks : IsPrefix(s, u) /\ IsPrefix(t, u) /\ Len(s) <= Len(t) => IsPrefix(s, t)
  BY <1>2, PrefixIs
<1>6. QED
  BY <1>1, <1>2, <1>3, <1>4, <1>5, PrefixIs

(* A prefix of a sequence is the prefix of its length.                     *)
LEMMA PrefixUpTo ==
  ASSUME NEW s \in Toks, NEW p \in Toks, IsPrefix(p, s)
  PROVE  Len(p) \in 0 .. Len(s) /\ p = UpTo(s, Len(p))
<1>1. Len(p) \in 0 .. Len(s)
  BY PrefixOrder
<1>2. /\ UpTo(s, Len(p)) \in Toks /\ Len(UpTo(s, Len(p))) = Len(p)
      /\ IsPrefix(UpTo(s, Len(p)), s)
  BY <1>1, UpTos
<1>3. QED
  BY <1>1, <1>2, PrefixOrder

(* A prefix of a prefix.                                                   *)
LEMMA UpToUpTo ==
  ASSUME NEW s \in Toks, NEW i \in 0 .. Len(s), NEW j \in 0 .. i
  PROVE  UpTo(UpTo(s, i), j) = UpTo(s, j) /\ IsPrefix(UpTo(s, j), UpTo(s, i))
<1>1. /\ UpTo(s, i) \in Toks /\ Len(UpTo(s, i)) = i /\ IsPrefix(UpTo(s, i), s)
      /\ UpTo(s, j) \in Toks /\ Len(UpTo(s, j)) = j /\ IsPrefix(UpTo(s, j), s)
  BY UpTos, PrefixOrder
<1>2. IsPrefix(UpTo(s, j), UpTo(s, i))
  BY <1>1, PrefixOrder
<1>3. QED
  BY <1>1, <1>2, PrefixUpTo

(* A set of naturals with a member has a least one, its Min.               *)
LEMMA MinIsLeast ==
  ASSUME NEW S \in SUBSET Nat, S # {}
  PROVE  Min(S) \in S /\ \A m \in S : Min(S) <= m
<1>1. PICK n \in S : \A m \in S : ~(<<m, n>> \in OpToRel(<, Nat))
  BY NatLessThanWellFounded, WFMin
<1>2. \A m \in S : ~(m < n)
  BY <1>1 DEF OpToRel
<1>3. n \in S /\ \A m \in S : n <= m
  BY <1>2
<1>4. QED
  BY <1>3 DEF Min

(* A bounded set of naturals with a member has a greatest one, its Max.    *)
LEMMA MaxIsGreatest ==
  ASSUME NEW S \in SUBSET Nat, S # {}, NEW b \in Nat, \A m \in S : m <= b
  PROVE  Max(S) \in S /\ \A m \in S : m <= Max(S)
<1> DEFINE R == {b - m : m \in S}
<1>1. R \in SUBSET Nat /\ R # {}
  OBVIOUS
<1>2. Min(R) \in R /\ \A r \in R : Min(R) <= r
  <2> HIDE DEF R
  <2>1. QED
    BY <1>1, MinIsLeast
<1>3. PICK x \in S : Min(R) = b - x
  BY <1>2
<1>4. ASSUME NEW m \in S PROVE x >= m
  <2>1. b - m \in R
    OBVIOUS
  <2>2. b - x <= b - m
    BY <1>2, <1>3, <2>1
  <2>3. QED
    BY <2>2
<1>5. QED
  BY <1>4 DEF Max


(* The greatest of a bounded set, and of 0.                                *)
LEMMA MaxWithZero ==
  ASSUME NEW S \in SUBSET Nat, NEW b \in Nat, \A m \in S : m <= b
  PROVE  /\ Max({0} \cup S) \in {0} \cup S
         /\ \A m \in {0} \cup S : m <= Max({0} \cup S)
  BY MaxIsGreatest

(* The elements of a chain are counted by their lengths.                   *)
LEMMA ChainCount ==
  ASSUME NEW s \in Toks, NEW a \in Nat, NEW b \in 0 .. Len(s), a <= b
  PROVE  /\ IsFiniteSet({UpTo(s, i) : i \in a + 1 .. b})
         /\ Cardinality({UpTo(s, i) : i \in a + 1 .. b}) = b - a
<1> DEFINE I == a + 1 .. b
           C == {UpTo(s, i) : i \in I}
           f == [i \in I |-> UpTo(s, i)]
<1>1. IsFiniteSet(I) /\ Cardinality(I) = b - a
  <2>1. a + 1 \in Int /\ b \in Int
    BY PrefixOrder
  <2>2. IsFiniteSet(I) /\ Cardinality(I) = IF a + 1 > b THEN 0 ELSE b - (a + 1) + 1
    BY <2>1, FS_Interval
  <2>3. QED
    BY <2>1, <2>2
<1>2. \A i \in I : Len(UpTo(s, i)) = i
  BY UpTos DEF Toks
<1>3. f \in Bijection(I, C)
  <2>1. f \in [I -> C] /\ \A x \in C : \E i \in I : f[i] = x
    OBVIOUS
  <2>2. \A i, j \in I : f[i] = f[j] => i = j
    BY <1>2
  <2>3. QED
    BY <2>1, <2>2 DEF Bijection, Injection, Surjection, IsInjective
<1>4. IsFiniteSet(C) /\ Cardinality(C) = Cardinality(I)
  <2>1. ExistsBijection(I, C)
    BY <1>3 DEF ExistsBijection
  <2>2. QED
    BY <1>1, <2>1, FS_Bijection
<1>5. QED
  BY <1>1, <1>4

(* The numbers up to n are n.                                              *)
LEMMA FromOne ==
  ASSUME NEW n \in Nat
  PROVE  IsFiniteSet(1 .. n) /\ Cardinality(1 .. n) = n
<1>1. 1 \in Int /\ n \in Int
  OBVIOUS
<1>2. IsFiniteSet(1 .. n) /\ Cardinality(1 .. n) = IF 1 > n THEN 0 ELSE n - 1 + 1
  BY <1>1, FS_Interval
<1>3. QED
  BY <1>2

-----------------------------------------------------------------------------
(* The nodes of a tree, and what lies in them.                             *)

(* Nodes and cached prefixes are sequences of tokens.                      *)
LEMMA TreeToks ==
  ASSUME NEW c, Shape(c)
  PROVE  /\ \A n \in DOMAIN c.nodes : n \in Toks /\ n # Root /\ n \in DOMAIN c.kv
         /\ \A p \in DOMAIN c.kv : p \in Toks /\ p # Root
         /\ \A p \in DOMAIN c.kv : \A q \in Toks \ {Root} : IsPrefix(q, p) => q \in DOMAIN c.kv
<1>1. \A n \in DOMAIN c.nodes : n \in Toks /\ n # Root
  BY DEF Shape
<1>2. \A p \in DOMAIN c.kv : p \in Toks /\ p # Root
  BY DEF Shape
<1>3. \A n \in DOMAIN c.nodes : n \in DOMAIN c.kv
  BY <1>1, PrefixOrder DEF Shape
<1>4. ASSUME NEW p \in DOMAIN c.kv, NEW q \in Toks \ {Root}, IsPrefix(q, p)
      PROVE  q \in DOMAIN c.kv
  <2>1. PICK n \in DOMAIN c.nodes : IsPrefix(p, n)
    BY DEF Shape
  <2>2. IsPrefix(q, n)
    BY <1>1, <1>2, <1>4, <2>1, PrefixOrder
  <2>3. QED
    BY <2>2 DEF Shape
<1>5. QED
  BY <1>1, <1>2, <1>3, <1>4

(* A cached prefix lies in one node.                                       *)
LEMMA OneOwner ==
  ASSUME NEW c, Shape(c), NEW p, NEW n, NEW m, Lies(c, p, n), Lies(c, p, m)
  PROVE  n = m
<1>1. n \in Toks /\ m \in Toks
  BY TreeToks DEF Lies
<1>2. IsPrefix(n, m) /\ IsPrefix(m, n)
  BY DEF Lies
<1>3. QED
  BY <1>1, <1>2, PrefixOrder

(* Where a node starts.                                                    *)
LEMMA StartIs ==
  ASSUME NEW c, Shape(c), NEW n \in DOMAIN c.nodes
  PROVE  /\ Start(c, n) \in 0 .. Len(n) - 1
         /\ \A m \in Path(c, n) \ {n} : Len(m) <= Start(c, n)
         /\ Start(c, n) # 0 => UpTo(n, Start(c, n)) \in Path(c, n) \ {n}
<1> DEFINE L == {Len(p) : p \in Path(c, n) \ {n}}
<1>1. \A p \in Path(c, n) \ {n} : /\ p \in Toks /\ p # Root /\ IsPrefix(p, n)
                                  /\ Len(p) \in 1 .. Len(n) - 1
  <2> TAKE p \in Path(c, n) \ {n}
  <2>1. p \in Toks /\ p # Root /\ IsPrefix(p, n) /\ n \in Toks
    BY TreeToks DEF Path
  <2>2. QED
    BY <2>1, PrefixOrder
<1>2. n \in Toks /\ Len(n) \in Nat /\ Len(n) > 0
  BY TreeToks, PrefixOrder
<1>3. L \in SUBSET Nat /\ \A m \in L : m <= Len(n)
  BY <1>1
<1>4. /\ Start(c, n) \in {0} \cup L
      /\ \A m \in {0} \cup L : m <= Start(c, n)
  <2> HIDE DEF L
  <2>1. /\ Max({0} \cup L) \in {0} \cup L
        /\ \A m \in {0} \cup L : m <= Max({0} \cup L)
    BY <1>2, <1>3, MaxWithZero
  <2>2. QED
    BY <2>1 DEF Start, L
<1>5. Start(c, n) \in 0 .. Len(n) - 1
  BY <1>1, <1>2, <1>4
<1>6. ASSUME Start(c, n) # 0
      PROVE  UpTo(n, Start(c, n)) \in Path(c, n) \ {n}
  <2>1. PICK p \in Path(c, n) \ {n} : Len(p) = Start(c, n)
    BY <1>4, <1>6
  <2>2. p = UpTo(n, Len(p))
    BY <1>1, <1>2, PrefixUpTo
  <2>3. QED
    BY <2>1, <2>2
<1>7. QED
  BY <1>4, <1>5, <1>6

(* The cells of a node are the prefixes that lie in it.                    *)
LEMMA CellLies ==
  ASSUME NEW c, Shape(c), NEW n \in DOMAIN c.nodes, NEW p \in Toks \ {Root}
  PROVE  /\ p \in Cells(c, n) <=> Lies(c, p, n)
         /\ Lies(c, p, n) <=> IsPrefix(p, n) /\ Len(p) > Start(c, n)
<1>1. n \in Toks /\ \A m \in DOMAIN c.nodes : m \in Toks
  BY TreeToks
<1>2. ASSUME p \in Cells(c, n)
      PROVE  IsPrefix(p, n) /\ Len(p) > Start(c, n)
  <2>1. PICK i \in Start(c, n) + 1 .. Len(n) : p = UpTo(n, i)
    BY <1>2 DEF Cells
  <2>2. i \in 0 .. Len(n) /\ i > Start(c, n)
    BY <1>1, StartIs, PrefixOrder
  <2>3. QED
    BY <1>1, <2>1, <2>2, UpTos
<1>3. ASSUME IsPrefix(p, n), Len(p) > Start(c, n)
      PROVE  p \in Cells(c, n) /\ Lies(c, p, n)
  <2>1. p = UpTo(n, Len(p)) /\ Len(p) \in 0 .. Len(n)
    BY <1>1, <1>3, PrefixUpTo
  <2>2. p \in Cells(c, n)
    BY <1>3, <2>1, StartIs DEF Cells
  <2>3. p \in DOMAIN c.kv
    BY <1>3 DEF Shape
  <2>4. PICK m : Lies(c, p, m)
    BY <2>3 DEF Shape
  <2>5. IsPrefix(m, n) /\ IsPrefix(p, m) /\ m \in DOMAIN c.nodes
    BY <1>3, <2>4 DEF Lies
  <2>6. Len(p) <= Len(m)
    BY <1>1, <2>5, PrefixOrder
  <2>7. m = n
    <3>1. SUFFICES ASSUME m # n PROVE FALSE
      OBVIOUS
    <3>2. m \in Path(c, n) \ {n}
      BY <2>5, <3>1 DEF Path
    <3>3. Len(m) <= Start(c, n)
      BY <3>2, StartIs
    <3>4. Len(m) \in Nat /\ Len(p) \in Nat /\ Start(c, n) \in Nat
      BY <1>1, <2>5, PrefixOrder, StartIs
    <3>5. QED
      BY <1>3, <2>6, <3>3, <3>4
  <2>8. QED
    BY <2>2, <2>4, <2>7
<1>4. ASSUME Lies(c, p, n)
      PROVE  IsPrefix(p, n) /\ Len(p) > Start(c, n)
  <2>1. IsPrefix(p, n) /\ Len(p) \in Nat /\ Start(c, n) \in Nat /\ Len(p) # 0
    BY <1>1, <1>4, PrefixOrder, StartIs DEF Lies
  <2>2. ASSUME Len(p) <= Start(c, n)
        PROVE  FALSE
    <3>1. /\ UpTo(n, Start(c, n)) \in Path(c, n) \ {n}
          /\ Start(c, n) \in 0 .. Len(n)
      BY <1>1, <2>1, <2>2, StartIs, PrefixOrder
    <3> DEFINE m == UpTo(n, Start(c, n))
    <3>2. m \in DOMAIN c.nodes /\ IsPrefix(m, n) /\ m # n /\ Len(m) = Start(c, n)
      BY <1>1, <3>1, UpTos DEF Path
    <3> HIDE DEF m
    <3>3. IsPrefix(p, m)
      BY <1>1, <2>1, <2>2, <3>2, PrefixOrder
    <3>4. IsPrefix(n, m)
      BY <1>4, <3>2, <3>3 DEF Lies
    <3>5. QED
      BY <1>1, <3>2, <3>4, PrefixOrder
  <2>3. QED
    BY <2>1, <2>2
<1>5. QED
  BY <1>2, <1>3, <1>4

-----------------------------------------------------------------------------
(* split_at *)

(* Splitting at a cached prefix that is no node.                           *)
LEMMA SplitNew ==
  ASSUME NEW c, Shape(c), NEW p \in DOMAIN c.kv, p \notin DOMAIN c.nodes
  PROVE  LET m == Owner(c, p)
             d == split_at(c, p)
         IN /\ Lies(c, p, m) /\ m # p /\ Len(p) < Len(m)
            /\ DOMAIN d.nodes = DOMAIN c.nodes \cup {p}
            /\ d.nodes[p] = c.nodes[m]
            /\ d.nodes[m] = [c.nodes[m] EXCEPT !.uuid = 0]
            /\ \A n \in DOMAIN c.nodes \ {m} : d.nodes[n] = c.nodes[n]
            /\ SamePages(c, d)
            /\ d = [nodes |-> d.nodes, kv |-> d.kv, free |-> d.free, live |-> d.live]
<1> DEFINE m == Owner(c, p)
           d == split_at(c, p)
<1>1. p \in Toks /\ p # Root
  BY TreeToks
<1>2. PICK n : Lies(c, p, n)
  BY DEF Shape
<1>3. n \in Below(c, p) /\ \A x \in Below(c, p) : IsPrefix(n, x)
  BY <1>2 DEF Lies, Below
<1>4. m \in Below(c, p) /\ \A x \in Below(c, p) : IsPrefix(m, x)
  BY <1>3 DEF Owner
<1>5. Lies(c, p, m) /\ m # p
  <2>1. m \in DOMAIN c.nodes /\ IsPrefix(p, m) /\ m # p
    BY <1>4 DEF Below
  <2>2. ASSUME NEW x \in DOMAIN c.nodes, IsPrefix(p, x)
        PROVE  IsPrefix(m, x)
    BY <1>4, <2>2 DEF Below
  <2>3. QED
    BY <2>1, <2>2 DEF Lies
<1>6. Len(p) < Len(m)
  <2>1. m \in Toks /\ IsPrefix(p, m)
    BY <1>5, TreeToks DEF Lies
  <2>2. QED
    BY <1>1, <1>5, <2>1, PrefixOrder
<1>7. d = [c EXCEPT !.nodes = [x \in DOMAIN c.nodes \cup {p} |->
                CASE x = p -> c.nodes[m]
                  [] x = m -> [c.nodes[m] EXCEPT !.uuid = 0]
                  [] OTHER -> c.nodes[x]]]
  BY <1>1 DEF split_at
<1>8. d.nodes = [x \in DOMAIN c.nodes \cup {p} |->
                CASE x = p -> c.nodes[m]
                  [] x = m -> [c.nodes[m] EXCEPT !.uuid = 0]
                  [] OTHER -> c.nodes[x]]
  BY <1>7 DEF Shape
<1>9. SamePages(c, d) /\ d = [nodes |-> d.nodes, kv |-> d.kv, free |-> d.free, live |-> d.live]
  <2> c = [nodes |-> c.nodes, kv |-> c.kv, free |-> c.free, live |-> c.live]
    BY DEF Shape
  <2> QED
    BY <1>7 DEF SamePages
<1>10. m \in DOMAIN c.nodes
  BY <1>5 DEF Lies
<1>11. QED
  <2> HIDE DEF m, d
  <2>1. DOMAIN d.nodes = DOMAIN c.nodes \cup {p}
    BY <1>8
  <2>2. d.nodes[p] = c.nodes[m]
    BY <1>5, <1>8
  <2>3. d.nodes[m] = [c.nodes[m] EXCEPT !.uuid = 0]
    BY <1>5, <1>8, <1>10
  <2>4. \A x \in DOMAIN c.nodes \ {m} : d.nodes[x] = c.nodes[x]
    BY <1>8
  <2>5. QED
    BY <1>5, <1>6, <1>9, <2>1, <2>2, <2>3, <2>4 DEF m, d

(* What lies where after a split.                                          *)
LEMMA SplitLies ==
  ASSUME NEW c, Shape(c), NEW p \in DOMAIN c.kv, p \notin DOMAIN c.nodes,
         NEW q \in DOMAIN c.kv, NEW n, Lies(c, q, n)
  PROVE  LET m == Owner(c, p)
             d == split_at(c, p)
         IN Lies(d, q, IF n = m /\ IsPrefix(q, p) THEN p ELSE n)
<1> DEFINE m == Owner(c, p)
           d == split_at(c, p)
<1>1. Lies(c, p, m) /\ m # p /\ Len(p) < Len(m) /\ DOMAIN d.nodes = DOMAIN c.nodes \cup {p}
  BY SplitNew
<1> HIDE DEF m, d
<1>2. p \in Toks /\ q \in Toks /\ n \in Toks /\ m \in Toks /\ \A x \in DOMAIN c.nodes : x \in Toks
  BY <1>1, TreeToks DEF Lies
<1>3. /\ n \in DOMAIN c.nodes /\ m \in DOMAIN c.nodes /\ IsPrefix(q, n) /\ IsPrefix(p, m)
      /\ \A x \in DOMAIN c.nodes : /\ IsPrefix(q, x) => IsPrefix(n, x)
                                   /\ IsPrefix(p, x) => IsPrefix(m, x)
  BY <1>1 DEF Lies
<1>4. CASE n = m /\ IsPrefix(q, p)
  <2>1. ASSUME NEW x \in DOMAIN d.nodes, IsPrefix(q, x)
        PROVE  IsPrefix(p, x)
    <3>1. CASE x = p
      BY <1>2, <3>1, PrefixOrder
    <3>2. CASE x # p
      <4>1. x \in DOMAIN c.nodes /\ IsPrefix(m, x)
        BY <1>1, <1>3, <1>4, <2>1, <3>2
      <4>2. QED
        BY <1>2, <1>3, <4>1, PrefixOrder
    <3>3. QED
      BY <3>1, <3>2
  <2>2. QED
    BY <1>1, <1>4, <2>1 DEF Lies, m, d
<1>5. CASE ~(n = m /\ IsPrefix(q, p))
  <2>1. ASSUME IsPrefix(q, p)
        PROVE  IsPrefix(n, p)
    <3>1. IsPrefix(q, m)
      BY <1>2, <1>3, <2>1, PrefixOrder
    <3>2. IsPrefix(n, m)
      BY <1>3, <3>1
    <3>3. CASE Len(n) <= Len(p)
      BY <1>2, <1>3, <3>2, <3>3, PrefixOrder
    <3>4. CASE ~(Len(n) <= Len(p))
      <4>1. IsPrefix(p, n)
        BY <1>2, <1>3, <3>2, <3>4, PrefixOrder
      <4>2. IsPrefix(m, n)
        BY <1>3, <4>1
      <4>3. QED
        BY <1>2, <1>5, <2>1, <3>2, <4>2, PrefixOrder
    <3>5. QED
      BY <3>3, <3>4
  <2>2. \A x \in DOMAIN d.nodes : IsPrefix(q, x) => IsPrefix(n, x)
    BY <1>1, <1>3, <2>1
  <2>3. Lies(d, q, n)
    BY <1>1, <1>3, <2>2 DEF Lies
  <2>4. QED
    BY <1>5, <2>3 DEF m, d
<1>6. QED
  BY <1>4, <1>5

(* A split leaves a tree.                                                  *)
LEMMA SplitShape ==
  ASSUME NEW c, Shape(c), NEW p \in DOMAIN c.kv, p \notin DOMAIN c.nodes
  PROVE  Shape(split_at(c, p))
<1> DEFINE m == Owner(c, p)
           d == split_at(c, p)
<1>1. /\ Lies(c, p, m) /\ m # p /\ Len(p) < Len(m)
      /\ DOMAIN d.nodes = DOMAIN c.nodes \cup {p}
      /\ d.nodes[p] = c.nodes[m]
      /\ d.nodes[m] = [c.nodes[m] EXCEPT !.uuid = 0]
      /\ \A n \in DOMAIN c.nodes \ {m} : d.nodes[n] = c.nodes[n]
      /\ SamePages(c, d)
      /\ d = [nodes |-> d.nodes, kv |-> d.kv, free |-> d.free, live |-> d.live]
  BY SplitNew
<1>2. \A q \in DOMAIN c.kv : \E n : Lies(d, q, n)
  BY SplitLies DEF Shape
<1>3. d.nodes = [x \in DOMAIN d.nodes |-> d.nodes[x]]
  <2>1. d.nodes = [x \in DOMAIN c.nodes \cup {p} |->
                CASE x = p -> c.nodes[m]
                  [] x = m -> [c.nodes[m] EXCEPT !.uuid = 0]
                  [] OTHER -> c.nodes[x]]
    BY TreeToks DEF split_at, Shape
  <2>2. QED
    BY <2>1
<1> HIDE DEF m, d
<1>4. p \in Toks /\ p # Root /\ \A x \in DOMAIN c.nodes : x \in Toks
  BY TreeToks
<1>5. m \in DOMAIN c.nodes /\ IsPrefix(p, m)
  BY <1>1 DEF Lies
<1>6. IsFiniteSet(DOMAIN d.nodes) /\ DOMAIN d.nodes \subseteq Toks \ {Root}
  BY <1>1, <1>4, FS_AddElement DEF Shape
<1>7. d.nodes \in [DOMAIN d.nodes -> NodeType]
  <2>1. \A x \in DOMAIN c.nodes : c.nodes[x] \in NodeType
    BY DEF Shape
  <2>2. d.nodes[m] \in NodeType
    BY <1>1, <1>5, <2>1 DEF NodeType
  <2>3. \A x \in DOMAIN d.nodes : d.nodes[x] \in NodeType
    BY <1>1, <1>5, <2>1, <2>2
  <2>4. QED
    BY <1>3, <2>3
<1>8. d.kv \in [DOMAIN d.kv -> Pool] /\ d.free \subseteq Pool /\ d.live \subseteq Pool
  BY <1>1 DEF Shape, SamePages
<1>9. \A x : x \in DOMAIN d.kv <=> /\ x \in Toks \ {Root}
                                   /\ \E n \in DOMAIN d.nodes : IsPrefix(x, n)
  <2>1. \A x \in Toks : IsPrefix(x, p) => IsPrefix(x, m)
    BY <1>4, <1>5, PrefixOrder
  <2>2. DOMAIN d.kv = DOMAIN c.kv
    BY <1>1 DEF SamePages
  <2>3. \A x : x \in DOMAIN c.kv <=> /\ x \in Toks \ {Root}
                                     /\ \E n \in DOMAIN c.nodes : IsPrefix(x, n)
    BY DEF Shape
  <2>4. QED
    BY <1>1, <1>5, <2>1, <2>2, <2>3
<1>10. \A x \in DOMAIN d.kv : \E n : Lies(d, x, n)
  BY <1>1, <1>2 DEF SamePages
<1>11. ASSUME NEW x \in DOMAIN d.nodes, NEW y \in DOMAIN d.nodes,
              d.nodes[x].uuid = d.nodes[y].uuid, d.nodes[x].uuid # 0
       PROVE  x = y
  <2>1. \A n, k \in DOMAIN c.nodes :
           c.nodes[n].uuid = c.nodes[k].uuid /\ c.nodes[n].uuid # 0 => n = k
    BY DEF Shape
  <2>2. d.nodes[m].uuid = 0
    <3>1. c.nodes[m] \in NodeType
      BY <1>5 DEF Shape
    <3>2. QED
      BY <1>1, <3>1 DEF NodeType
  <2>3. x # m /\ y # m
    BY <1>11, <2>2
  <2>4. CASE x = p /\ y = p
    BY <2>4
  <2>5. CASE x # p /\ y # p
    BY <1>1, <1>11, <2>1, <2>3, <2>5
  <2>6. CASE x = p /\ y # p
    <3>1. c.nodes[m].uuid = c.nodes[y].uuid /\ c.nodes[m].uuid # 0 /\ y \in DOMAIN c.nodes
      BY <1>1, <1>11, <2>3, <2>6
    <3>2. QED
      BY <1>5, <2>1, <2>3, <3>1
  <2>7. CASE x # p /\ y = p
    <3>1. c.nodes[m].uuid = c.nodes[x].uuid /\ c.nodes[m].uuid # 0 /\ x \in DOMAIN c.nodes
      BY <1>1, <1>11, <2>3, <2>7
    <3>2. QED
      BY <1>5, <2>1, <2>3, <3>1
  <2>8. QED
    BY <2>4, <2>5, <2>6, <2>7
<1>12. Shape(d)
  BY <1>1, <1>6, <1>7, <1>8, <1>9, <1>10, <1>11 DEF Shape
<1>13. QED
  BY <1>12 DEF d

(* The handles hold after a split what they held, the new node with the    *)
(* one it was part of.                                                     *)
LEMMA SplitHolds ==
  ASSUME NEW c, NEW p \in DOMAIN c.kv, p \notin DOMAIN c.nodes, Shape(c),
         NEW h, Anchored(c, h)
  PROVE  LET m == Owner(c, p)
             d == split_at(c, p)
         IN /\ \A n \in DOMAIN c.nodes : Holds(d, h, n) <=> Holds(c, h, n)
            /\ Holds(d, h, p) <=> Holds(c, h, m)
            /\ IsPrefix(p, h.at) <=> IsPrefix(m, h.at)
            /\ Anchored(d, h)
<1> DEFINE m == Owner(c, p)
           d == split_at(c, p)
<1>1. /\ Lies(c, p, m) /\ m # p /\ Len(p) < Len(m)
      /\ DOMAIN d.nodes = DOMAIN c.nodes \cup {p}
      /\ d.nodes[p] = c.nodes[m]
      /\ d.nodes[m] = [c.nodes[m] EXCEPT !.uuid = 0]
      /\ \A n \in DOMAIN c.nodes \ {m} : d.nodes[n] = c.nodes[n]
  BY SplitNew
<1> HIDE DEF m, d
<1>2. /\ p \in Toks /\ p # Root /\ \A x \in DOMAIN c.nodes : x \in Toks
      /\ m \in DOMAIN c.nodes /\ m \in Toks /\ IsPrefix(p, m)
      /\ \A x \in DOMAIN c.nodes : IsPrefix(p, x) => IsPrefix(m, x)
  BY <1>1, TreeToks DEF Lies
<1>3. /\ h.at \in Toks /\ h.uuid \in Nat
      /\ h.at = Root \/ h.at \in DOMAIN c.nodes
      /\ h.uuid # 0 => \E b \in Path(c, h.at) : c.nodes[b].uuid = h.uuid
      /\ \A n \in Path(c, h.at) : Len(n) > Len(h.at) - Window => Holds(c, h, n)
  BY DEF Anchored
<1>4. d.nodes[m].uuid = 0
  <2>1. c.nodes[m] \in NodeType
    BY <1>2 DEF Shape
  <2>2. QED
    BY <1>1, <2>1 DEF NodeType
<1>5. IsPrefix(p, h.at) <=> IsPrefix(m, h.at)
  <2>1. h.at = Root => ~IsPrefix(p, h.at) /\ ~IsPrefix(m, h.at)
    BY <1>2, <1>3, <1>1, PrefixOrder
  <2>2. h.at \in DOMAIN c.nodes => (IsPrefix(p, h.at) <=> IsPrefix(m, h.at))
    BY <1>2, <1>3, PrefixOrder
  <2>3. QED
    BY <1>3, <2>1, <2>2
<1>6. /\ \A n \in DOMAIN c.nodes : n \in Path(d, h.at) <=> n \in Path(c, h.at)
      /\ p \in Path(d, h.at) <=> m \in Path(c, h.at)
      /\ \A n \in Path(d, h.at) : n # p => n \in Path(c, h.at)
  BY <1>1, <1>2, <1>5 DEF Path
(* the boundary, if it was split, has moved to the new node                *)
<1>7. ASSUME NEW b \in Path(c, h.at), c.nodes[b].uuid = h.uuid, h.uuid # 0
      PROVE  \E a \in Path(d, h.at) : /\ d.nodes[a].uuid = h.uuid /\ Len(a) <= Len(b)
                                      /\ a = IF b = m THEN p ELSE b
  <2>1. b \in DOMAIN c.nodes /\ Len(b) \in Nat
    BY <1>2, PrefixOrder DEF Path
  <2>2. CASE b = m
    <3>1. Len(p) <= Len(m)
      BY <1>2, PrefixOrder
    <3>2. QED
      BY <1>1, <1>6, <1>7, <2>2, <3>1
  <2>3. CASE b # m
    <3>1. b \in Path(d, h.at) /\ d.nodes[b].uuid = h.uuid
      BY <1>1, <1>6, <1>7, <2>1, <2>3
    <3>2. QED
      BY <2>1, <2>3, <3>1
  <2>4. QED
    BY <2>2, <2>3
<1>8. ASSUME NEW a \in Path(d, h.at), d.nodes[a].uuid = h.uuid, h.uuid # 0
      PROVE  IF a = p THEN m \in Path(c, h.at) /\ c.nodes[m].uuid = h.uuid
                      ELSE a # m /\ a \in Path(c, h.at) /\ c.nodes[a].uuid = h.uuid
  BY <1>1, <1>4, <1>6, <1>8 DEF Path
<1>9. ASSUME NEW n \in DOMAIN c.nodes
      PROVE  Holds(d, h, n) <=> Holds(c, h, n)
  <2>1. ASSUME Holds(c, h, n)
        PROVE  Holds(d, h, n)
    <3>1. n \in Path(d, h.at)
      BY <1>6, <2>1 DEF Holds
    <3>2. ASSUME h.uuid # 0
          PROVE  \E a \in Path(d, h.at) : d.nodes[a].uuid = h.uuid /\ Len(a) <= Len(n)
      <4>1. PICK b \in Path(c, h.at) : c.nodes[b].uuid = h.uuid /\ Len(b) <= Len(n)
        BY <2>1, <3>2 DEF Holds
      <4>2. PICK a \in Path(d, h.at) : d.nodes[a].uuid = h.uuid /\ Len(a) <= Len(b)
        BY <1>7, <3>2, <4>1
      <4>3. Len(a) \in Nat /\ Len(b) \in Nat /\ Len(n) \in Nat
        BY <1>1, <1>2, PrefixOrder DEF Path
      <4>4. QED
        BY <4>1, <4>2, <4>3
    <3>3. QED
      BY <3>1, <3>2 DEF Holds
  <2>2. ASSUME Holds(d, h, n)
        PROVE  Holds(c, h, n)
    <3>1. n \in Path(c, h.at)
      BY <1>6, <2>2 DEF Holds
    <3>2. ASSUME h.uuid # 0
          PROVE  \E b \in Path(c, h.at) : c.nodes[b].uuid = h.uuid /\ Len(b) <= Len(n)
      <4>1. PICK a \in Path(d, h.at) : d.nodes[a].uuid = h.uuid /\ Len(a) <= Len(n)
        BY <2>2, <3>2 DEF Holds
      <4>2. CASE a # p
        BY <1>8, <3>2, <4>1, <4>2
      <4>3. CASE a = p
        <5>1. m \in Path(c, h.at) /\ c.nodes[m].uuid = h.uuid
          BY <1>8, <3>2, <4>1, <4>3
        <5>2. IsPrefix(p, h.at) /\ IsPrefix(n, h.at)
          BY <1>5, <3>1, <5>1 DEF Path
        <5>3. IsPrefix(p, n)
          BY <1>2, <1>3, <4>1, <4>3, <5>2, PrefixOrder
        <5>4. Len(m) <= Len(n)
          BY <1>2, <5>3, PrefixOrder
        <5>5. QED
          BY <5>1, <5>4
      <4>4. QED
        BY <4>2, <4>3
    <3>3. QED
      BY <3>1, <3>2 DEF Holds
  <2>3. QED
    BY <2>1, <2>2
<1>10. Holds(d, h, p) <=> Holds(c, h, m)
  <2>1. ASSUME Holds(c, h, m)
        PROVE  Holds(d, h, p)
    <3>1. p \in Path(d, h.at) /\ m \in Path(c, h.at)
      BY <1>6, <2>1 DEF Holds
    <3>2. ASSUME h.uuid # 0
          PROVE  \E a \in Path(d, h.at) : d.nodes[a].uuid = h.uuid /\ Len(a) <= Len(p)
      <4>1. PICK b \in Path(c, h.at) : c.nodes[b].uuid = h.uuid /\ Len(b) <= Len(m)
        BY <2>1, <3>2 DEF Holds
      <4>2. PICK a \in Path(d, h.at) : d.nodes[a].uuid = h.uuid /\ a = IF b = m THEN p ELSE b
        BY <1>7, <3>2, <4>1
      <4>3. CASE b = m
        BY <1>2, <4>2, <4>3, PrefixOrder
      <4>4. CASE b # m
        <5>1. b \in Toks /\ b \in DOMAIN c.nodes /\ IsPrefix(b, h.at) /\ IsPrefix(m, h.at)
              /\ IsPrefix(p, h.at)
          BY <1>2, <1>5, <3>1, <4>1 DEF Path
        <5>2. ASSUME Len(p) < Len(b)
              PROVE  FALSE
          <6>1. IsPrefix(p, b)
            BY <1>2, <1>3, <5>1, <5>2, PrefixOrder
          <6>2. IsPrefix(m, b)
            BY <1>2, <5>1, <6>1
          <6>3. QED
            BY <1>2, <4>1, <4>4, <5>1, <6>2, PrefixOrder
        <5>3. Len(b) <= Len(p)
          BY <1>2, <5>1, <5>2, PrefixOrder
        <5>4. QED
          BY <4>2, <4>4, <5>3
      <4>5. QED
        BY <4>3, <4>4
    <3>3. QED
      BY <3>1, <3>2 DEF Holds
  <2>2. ASSUME Holds(d, h, p)
        PROVE  Holds(c, h, m)
    <3>1. m \in Path(c, h.at)
      BY <1>6, <2>2 DEF Holds
    <3>2. ASSUME h.uuid # 0
          PROVE  \E b \in Path(c, h.at) : c.nodes[b].uuid = h.uuid /\ Len(b) <= Len(m)
      <4>1. PICK a \in Path(d, h.at) : d.nodes[a].uuid = h.uuid /\ Len(a) <= Len(p)
        BY <2>2, <3>2 DEF Holds
      <4>2. CASE a = p
        BY <1>2, <1>8, <3>2, <4>1, <4>2, PrefixOrder
      <4>3. CASE a # p
        <5>1. a \in Path(c, h.at) /\ c.nodes[a].uuid = h.uuid /\ a \in Toks
          BY <1>2, <1>8, <3>2, <4>1, <4>3 DEF Path
        <5>2. Len(a) <= Len(m)
          BY <1>1, <1>2, <4>1, <5>1, PrefixOrder
        <5>3. QED
          BY <5>1, <5>2
      <4>4. QED
        BY <4>2, <4>3
    <3>3. QED
      BY <3>1, <3>2 DEF Holds
  <2>3. QED
    BY <2>1, <2>2
<1>11. Anchored(d, h)
  <2>1. h.at = Root \/ h.at \in DOMAIN d.nodes
    BY <1>1, <1>3
  <2>2. h.uuid # 0 => \E a \in Path(d, h.at) : d.nodes[a].uuid = h.uuid
    BY <1>3, <1>7
  <2>3. ASSUME NEW n \in Path(d, h.at), Len(n) > Len(h.at) - Window
        PROVE  Holds(d, h, n)
    <3>1. CASE n = p
      <4>1. m \in Path(c, h.at)
        BY <1>6, <2>3, <3>1
      <4>2. Len(m) > Len(h.at) - Window
        <5>1. /\ Len(p) \in Nat /\ Len(m) \in Nat /\ Len(h.at) \in Nat /\ Window \in Nat
              /\ Len(p) < Len(m)
          BY <1>1, <1>2, <1>3, PrefixOrder, SwaConstants
        <5>2. Len(p) > Len(h.at) - Window
          BY <2>3, <3>1
        <5>3. QED
          BY ONLY <5>1, <5>2
      <4>3. QED
        BY <1>3, <1>10, <3>1, <4>1, <4>2
    <3>2. CASE n # p
      BY <1>3, <1>6, <1>9, <2>3, <3>2 DEF Path
    <3>3. QED
      BY <3>1, <3>2
  <2>4. QED
    BY <1>3, <2>1, <2>2, <2>3 DEF Anchored
<1>12. QED
  BY <1>5, <1>9, <1>10, <1>11 DEF m, d

(* A split keeps the locks and the tombstones.                             *)
LEMMA SplitKeeps ==
  ASSUME NEW c, NEW H, Tree(c, H), NEW p, p = Root \/ p \in DOMAIN c.kv
  PROVE  LET d == split_at(c, p)
         IN /\ Tree(d, H) /\ SamePages(c, d)
            /\ DOMAIN d.nodes = DOMAIN c.nodes \cup ({p} \ {Root})
            /\ \A n \in DOMAIN c.nodes : /\ d.nodes[n].tomb = c.nodes[n].tomb
                                         /\ d.nodes[n].ref = c.nodes[n].ref
                                         /\ d.nodes[n].sref = c.nodes[n].sref
            /\ \A q \in DOMAIN c.kv : Dead(d, q) <=> Dead(c, q)
<1> DEFINE d == split_at(c, p)
           m == Owner(c, p)
<1>1. CASE p = Root \/ p \in DOMAIN c.nodes
  <2>1. d = c
    BY <1>1 DEF split_at
  <2>2. p # Root => p \in DOMAIN c.nodes
    BY <1>1
  <2>3. QED
    BY <2>1, <2>2 DEF SamePages
<1>2. CASE p # Root /\ p \in DOMAIN c.kv /\ p \notin DOMAIN c.nodes
  <2>1. /\ Lies(c, p, m) /\ m # p /\ Len(p) < Len(m)
        /\ DOMAIN d.nodes = DOMAIN c.nodes \cup {p}
        /\ d.nodes[p] = c.nodes[m]
        /\ d.nodes[m] = [c.nodes[m] EXCEPT !.uuid = 0]
        /\ \A n \in DOMAIN c.nodes \ {m} : d.nodes[n] = c.nodes[n]
        /\ SamePages(c, d)
    BY <1>2, SplitNew DEF Tree
  <2>2. Shape(d) /\ Shape(c) /\ Locks(c, H)
    BY <1>2, SplitShape DEF Tree
  <2>3. \A r \in DOMAIN H :
          /\ \A n \in DOMAIN c.nodes : Holds(d, H[r], n) <=> Holds(c, H[r], n)
          /\ Holds(d, H[r], p) <=> Holds(c, H[r], m)
          /\ IsPrefix(p, H[r].at) <=> IsPrefix(m, H[r].at)
          /\ Anchored(d, H[r])
    BY <1>2, <2>2, SplitHolds DEF Locks
  <2>4. \A q \in DOMAIN c.kv : \A n : Lies(c, q, n) =>
            Lies(d, q, IF n = m /\ IsPrefix(q, p) THEN p ELSE n)
    BY <1>2, <2>2, SplitLies
  <2> HIDE DEF d, m
  <2>5. m \in DOMAIN c.nodes
    BY <2>1 DEF Lies
  <2>6. \A n \in DOMAIN c.nodes : /\ d.nodes[n].tomb = c.nodes[n].tomb
                                  /\ d.nodes[n].ref = c.nodes[n].ref
                                  /\ d.nodes[n].sref = c.nodes[n].sref
    <3>1. c.nodes[m] \in NodeType
      BY <2>2, <2>5 DEF Shape
    <3>2. /\ d.nodes[m].tomb = c.nodes[m].tomb /\ d.nodes[m].ref = c.nodes[m].ref
          /\ d.nodes[m].sref = c.nodes[m].sref
      BY <2>1, <3>1 DEF NodeType
    <3>3. QED
      BY <2>1, <3>2
  <2>7. ASSUME NEW n \in DOMAIN d.nodes
        PROVE  /\ d.nodes[n].ref = Cardinality(Readers(H, n))
               /\ d.nodes[n].sref = Cardinality(Holders(d, H, n))
               /\ d.nodes[n].tomb => d.nodes[n].sref = 0
               /\ is_leaf(d, n) => ~d.nodes[n].tomb
    <3>1. CASE n \in DOMAIN c.nodes
      <4>1. Holders(d, H, n) = Holders(c, H, n)
        BY <2>3, <3>1 DEF Holders
      <4>2. is_leaf(d, n) => is_leaf(c, n)
        BY <2>1 DEF is_leaf, Below
      <4>3. QED
        BY <2>2, <2>6, <3>1, <4>1, <4>2 DEF Locks
    <3>2. CASE n = p
      <4>1. Holders(d, H, p) = Holders(c, H, m) /\ Readers(H, p) = Readers(H, m)
        BY <2>3 DEF Holders, Readers
      <4>2. ~is_leaf(d, p)
        BY <2>1, <2>5 DEF is_leaf, Below, Lies
      <4>3. QED
        BY <2>1, <2>2, <2>5, <3>2, <4>1, <4>2 DEF Locks
    <3>3. QED
      BY <2>1, <3>1, <3>2
  <2>8. Tree(d, H)
    BY <2>2, <2>3, <2>7 DEF Tree, Locks
  <2>9. ASSUME NEW q \in DOMAIN c.kv
        PROVE  Dead(d, q) <=> Dead(c, q)
    <3>1. PICK n : Lies(c, q, n)
      BY <2>2 DEF Shape
    <3> DEFINE x == IF n = m /\ IsPrefix(q, p) THEN p ELSE n
    <3>2. Lies(d, q, x)
      BY <2>4, <3>1
    <3>3. d.nodes[x].tomb = c.nodes[n].tomb
      BY <2>1, <2>6, <3>1 DEF Lies
    <3>4. \A y : Lies(c, q, y) => y = n
      BY <2>2, <3>1, OneOwner
    <3>5. \A y : Lies(d, q, y) => y = x
      BY <2>2, <3>2, OneOwner
    <3> HIDE DEF x
    <3>6. QED
      BY <3>1, <3>2, <3>3, <3>4, <3>5 DEF Dead
  <2>10. QED
    BY <1>2, <2>1, <2>6, <2>8, <2>9 DEF d
<1>3. QED
  BY <1>1, <1>2

-----------------------------------------------------------------------------
(* match_prefix                                                            *)

(* What the tree has of a sequence.                                        *)
LEMMA MatchIs ==
  ASSUME NEW c, Shape(c), NEW ids \in Toks
  PROVE  /\ MatchLen(c, ids) \in 0 .. Len(ids)
         /\ UpTo(ids, MatchLen(c, ids)) = Root \/ UpTo(ids, MatchLen(c, ids)) \in DOMAIN c.kv
         /\ \A i \in 1 .. Len(ids) : UpTo(ids, i) \in DOMAIN c.kv <=> i <= MatchLen(c, ids)
<1> DEFINE S == {i \in 1 .. Len(ids) : UpTo(ids, i) \in DOMAIN c.kv}
           k == MatchLen(c, ids)
<1>1. Len(ids) \in Nat
  BY PrefixOrder
<1>2. S \in SUBSET Nat /\ \A i \in S : i <= Len(ids)
  BY <1>1
<1>3. k \in {0} \cup S /\ \A i \in {0} \cup S : i <= k
  <2> HIDE DEF S
  <2>1. Max({0} \cup S) \in {0} \cup S /\ \A i \in {0} \cup S : i <= Max({0} \cup S)
    BY <1>1, <1>2, MaxWithZero
  <2>2. QED
    BY <2>1 DEF MatchLen, S
<1>4. k \in 0 .. Len(ids)
  BY <1>1, <1>3
<1>5. UpTo(ids, k) = Root \/ UpTo(ids, k) \in DOMAIN c.kv
  <2>1. CASE k = 0
    BY <1>4, <2>1, UpTos
  <2>2. CASE k # 0
    BY <1>3, <2>2
  <2>3. QED
    BY <2>1, <2>2
<1>6. ASSUME NEW i \in 1 .. Len(ids), i <= k
      PROVE  UpTo(ids, i) \in DOMAIN c.kv
  <2>1. UpTo(ids, k) \in DOMAIN c.kv
    BY <1>3, <1>6
  <2>2. IsPrefix(UpTo(ids, i), UpTo(ids, k))
    BY <1>1, <1>4, <1>6, UpToUpTo
  <2>3. UpTo(ids, i) \in Toks \ {Root}
    BY <1>1, <1>6, UpTos
  <2>4. QED
    BY <2>1, <2>2, <2>3, TreeToks
<1>7. QED
  BY <1>3, <1>4, <1>5, <1>6

(* A walk splits where the match ends, and changes nothing else.           *)
LEMMA WalkedIs ==
  ASSUME NEW c, NEW H, Tree(c, H), NEW ids \in Toks
  PROVE  LET d == Walked(c, ids)
             k == MatchLen(c, ids)
         IN /\ Tree(d, H) /\ SamePages(c, d) /\ MatchLen(d, ids) = k
            /\ UpTo(ids, k) = Root \/ UpTo(ids, k) \in DOMAIN d.nodes
            /\ DOMAIN d.nodes = DOMAIN c.nodes \cup ({UpTo(ids, k)} \ {Root})
            /\ \A n \in DOMAIN c.nodes : /\ d.nodes[n].tomb = c.nodes[n].tomb
                                         /\ d.nodes[n].ref = c.nodes[n].ref
                                         /\ d.nodes[n].sref = c.nodes[n].sref
            /\ \A q \in DOMAIN c.kv : Dead(d, q) <=> Dead(c, q)
<1> DEFINE p == UpTo(ids, MatchLen(c, ids))
<1>1. p = Root \/ p \in DOMAIN c.kv
  BY MatchIs DEF Tree
<1>2. Walked(c, ids) = split_at(c, p)
  BY DEF Walked
<1> HIDE DEF p
<1>3. LET d == split_at(c, p)
      IN /\ Tree(d, H) /\ SamePages(c, d)
         /\ DOMAIN d.nodes = DOMAIN c.nodes \cup ({p} \ {Root})
         /\ \A n \in DOMAIN c.nodes : /\ d.nodes[n].tomb = c.nodes[n].tomb
                                      /\ d.nodes[n].ref = c.nodes[n].ref
                                      /\ d.nodes[n].sref = c.nodes[n].sref
         /\ \A q \in DOMAIN c.kv : Dead(d, q) <=> Dead(c, q)
  BY <1>1, SplitKeeps
<1> DEFINE d == Walked(c, ids)
<1>4. MatchLen(d, ids) = MatchLen(c, ids)
  BY <1>2, <1>3 DEF MatchLen, SamePages
<1> HIDE DEF d
<1>5. p = Root \/ p \in DOMAIN d.nodes
  BY <1>2, <1>3 DEF d
<1>6. QED
  BY <1>2, <1>3, <1>4, <1>5 DEF d, p

(* A match ends at a node whose window is live, or is empty.               *)
LEMMA MatchPrefixIs ==
  ASSUME NEW c, Shape(c), NEW ids \in Toks
  PROVE  /\ match_prefix(c, ids) \in 0 .. Len(ids)
         /\ match_prefix(c, ids) # 0 =>
              /\ UpTo(ids, match_prefix(c, ids)) \in Path(c, ids)
              /\ Usable(c, UpTo(ids, match_prefix(c, ids)))
<1> DEFINE S == {Len(n) : n \in {m \in Path(c, ids) : Usable(c, m)}}
           k == match_prefix(c, ids)
<1>1. Len(ids) \in Nat /\ \A n \in Path(c, ids) : n \in Toks /\ IsPrefix(n, ids)
  BY PrefixOrder, TreeToks DEF Path
<1>2. S \in SUBSET Nat /\ \A i \in S : i <= Len(ids)
  BY <1>1, PrefixOrder
<1>3. k \in {0} \cup S
  <2> HIDE DEF S
  <2>1. Max({0} \cup S) \in {0} \cup S
    BY <1>1, <1>2, MaxWithZero
  <2>2. QED
    BY <2>1 DEF match_prefix, S
<1>4. k \in 0 .. Len(ids)
  BY <1>1, <1>2, <1>3
<1>5. ASSUME k # 0
      PROVE  UpTo(ids, k) \in Path(c, ids) /\ Usable(c, UpTo(ids, k))
  <2>1. PICK n \in Path(c, ids) : Usable(c, n) /\ k = Len(n)
    BY <1>3, <1>5
  <2>2. n = UpTo(ids, Len(n))
    BY <1>1, PrefixUpTo
  <2>3. QED
    BY <2>1, <2>2
<1>6. QED
  BY <1>4, <1>5

-----------------------------------------------------------------------------
(* inc_lock and dec_lock                                                   *)

(* The tokens of nodes of a path, those from a place on at most, and at    *)
(* least those of a stretch that lies in them.                             *)
LEMMA TokensBound ==
  ASSUME NEW c, Shape(c), NEW n \in DOMAIN c.nodes, NEW S \in SUBSET Path(c, n), NEW a \in 0 .. Len(n)
  PROVE  /\ (\A q \in S : Start(c, q) >= a) => Tokens(c, S) <= Len(n) - a
         /\ (\A i \in a + 1 .. Len(n) : \E q \in S : Lies(c, UpTo(n, i), q))
               => Tokens(c, S) >= Len(n) - a
<1> DEFINE U == UNION {Cells(c, q) : q \in S}
           C == {UpTo(n, i) : i \in a + 1 .. Len(n)}
           A == {UpTo(n, i) : i \in 0 + 1 .. Len(n)}
<1>1. n \in Toks /\ Len(n) \in Nat
  BY TreeToks, PrefixOrder
<1>2. IsFiniteSet(C) /\ Cardinality(C) = Len(n) - a /\ IsFiniteSet(A)
  <2>1. Len(n) \in 0 .. Len(n) /\ a \in Nat /\ a <= Len(n) /\ 0 \in Nat /\ 0 <= Len(n)
    BY <1>1
  <2>2. IsFiniteSet(C) /\ Cardinality(C) = Len(n) - a
    BY <1>1, <2>1, ChainCount
  <2>3. IsFiniteSet(A)
    BY <1>1, <2>1, ChainCount
  <2>4. QED
    BY <2>2, <2>3
<1>3. ASSUME NEW x \in U
      PROVE  \E q \in S : Lies(c, x, q) /\ IsPrefix(x, n) /\ Len(x) > Start(c, q) /\ x \in Toks \ {Root}
  <2>1. PICK q \in S : x \in Cells(c, q)
    OBVIOUS
  <2>2. q \in DOMAIN c.nodes /\ q \in Toks /\ IsPrefix(q, n) /\ Start(c, q) \in Nat
    BY TreeToks, StartIs DEF Path
  <2>3. PICK i \in Start(c, q) + 1 .. Len(q) : x = UpTo(q, i)
    BY <2>1 DEF Cells
  <2>4. i \in 0 .. Len(q) /\ i # 0
    BY <2>2
  <2>5. x \in Toks \ {Root}
    BY <2>2, <2>3, <2>4, UpTos
  <2>6. Lies(c, x, q) /\ IsPrefix(x, q) /\ Len(x) > Start(c, q)
    BY <2>1, <2>2, <2>5, CellLies
  <2>7. IsPrefix(x, n)
    BY <1>1, <2>2, <2>5, <2>6, PrefixOrder
  <2>8. QED
    BY <2>5, <2>6, <2>7
<1>4. U \subseteq A
  <2>1. SUFFICES ASSUME NEW x \in U PROVE x \in A
    OBVIOUS
  <2>2. x \in Toks /\ x # Root /\ IsPrefix(x, n)
    BY <1>3
  <2>3. x = UpTo(n, Len(x)) /\ Len(x) \in 1 .. Len(n)
    BY <1>1, <2>2, PrefixUpTo, PrefixOrder
  <2>4. QED
    BY <2>3
<1>5. IsFiniteSet(U) /\ Cardinality(U) \in Nat
  BY <1>2, <1>4, FS_Subset, FS_CardinalityType
<1>6. ASSUME \A q \in S : Start(c, q) >= a
      PROVE  Tokens(c, S) <= Len(n) - a
  <2>1. U \subseteq C
    <3>1. SUFFICES ASSUME NEW x \in U PROVE x \in C
      OBVIOUS
    <3>2. PICK q \in S : IsPrefix(x, n) /\ Len(x) > Start(c, q) /\ x \in Toks \ {Root}
      BY <1>3
    <3>3. x = UpTo(n, Len(x)) /\ Len(x) \in 0 .. Len(n)
      BY <1>1, <3>2, PrefixUpTo
    <3>4. Start(c, q) \in Nat
      BY StartIs DEF Path
    <3>5. Len(x) \in a + 1 .. Len(n)
      BY <1>1, <1>6, <3>2, <3>3, <3>4
    <3>6. QED
      BY <3>3, <3>5
  <2>2. QED
    BY <1>2, <2>1, FS_Subset DEF Tokens
<1>7. ASSUME \A i \in a + 1 .. Len(n) : \E q \in S : Lies(c, UpTo(n, i), q)
      PROVE  Tokens(c, S) >= Len(n) - a
  <2>1. C \subseteq U
    <3>1. SUFFICES ASSUME NEW i \in a + 1 .. Len(n) PROVE UpTo(n, i) \in U
      OBVIOUS
    <3>2. PICK q \in S : Lies(c, UpTo(n, i), q)
      BY <1>7
    <3>3. UpTo(n, i) \in Toks \ {Root}
      BY <1>1, UpTos
    <3>4. UpTo(n, i) \in Cells(c, q)
      BY <3>2, <3>3, CellLies DEF Lies
    <3>5. QED
      BY <3>4
  <2>2. Cardinality(C) <= Cardinality(U)
    BY <1>5, <2>1, FS_Subset
  <2>3. QED
    BY <1>2, <2>2 DEF Tokens
<1>8. QED
  BY <1>6, <1>7

(* The tokens of nodes are a number.                                       *)
LEMMA TokensNat ==
  ASSUME NEW c, Shape(c), NEW S \in SUBSET DOMAIN c.nodes
  PROVE  Tokens(c, S) \in Nat
<1>1. IsFiniteSet(S)
  <2>1. S \subseteq DOMAIN c.nodes /\ IsFiniteSet(DOMAIN c.nodes)
    BY DEF Shape
  <2>2. QED
    BY <2>1, FS_Subset
<1>2. ASSUME NEW q \in S
      PROVE  IsFiniteSet(Cells(c, q))
  <2>1. q \in DOMAIN c.nodes /\ q \in Toks
    BY TreeToks
  <2>2. Start(c, q) \in Nat /\ Start(c, q) <= Len(q) /\ Len(q) \in 0 .. Len(q)
    BY <2>1, StartIs, PrefixOrder
  <2>3. QED
    BY <2>1, <2>2, ChainCount DEF Cells
<1>3. QED
  <2> DEFINE f == [q \in S |-> Cells(c, q)]
             T == {Cells(c, q) : q \in S}
  <2>1. IsFiniteSet(T)
    <3>1. f \in Surjection(S, T)
      BY DEF Surjection
    <3>2. QED
      BY <1>1, <3>1, FS_Surjection
  <2>2. \A x \in T : IsFiniteSet(x)
    BY <1>2
  <2>3. IsFiniteSet(UNION T)
    <3> HIDE DEF T
    <3>1. QED
      BY <2>1, <2>2, FS_UNION
  <2>4. QED
    BY <2>3, FS_CardinalityType DEF Tokens

(* The prefixes within the window of a live end lie in live nodes within   *)
(* the window.                                                             *)
LEMMA WindowLies ==
  ASSUME NEW c, Shape(c), NEW n \in DOMAIN c.nodes, Usable(c, n),
         NEW i \in 1 .. Len(n), i > Len(n) - Window
  PROVE  \E q \in Path(c, n) : /\ Lies(c, UpTo(n, i), q) /\ ~c.nodes[q].tomb
                               /\ Len(q) >= i
<1>1. n \in Toks /\ Len(n) \in Nat /\ Window \in Nat
  BY TreeToks, PrefixOrder, SwaConstants
<1>2. UpTo(n, i) \in Toks \ {Root} /\ IsPrefix(UpTo(n, i), n) /\ Len(UpTo(n, i)) = i
  BY <1>1, UpTos
<1>3. UpTo(n, i) \in DOMAIN c.kv
  BY <1>2 DEF Shape
<1>4. PICK q : Lies(c, UpTo(n, i), q)
  BY <1>3 DEF Shape
<1>5. q \in Path(c, n) /\ IsPrefix(UpTo(n, i), q) /\ q \in Toks /\ c.nodes[q] \in NodeType
  BY <1>2, <1>4, TreeToks DEF Lies, Path, Shape
<1>6. Len(q) >= i /\ Len(q) \in Nat
  BY <1>2, <1>5, PrefixOrder
<1>7. ~c.nodes[q].tomb
  BY <1>1, <1>5, <1>6 DEF Usable
<1>8. QED
  BY <1>4, <1>5, <1>6, <1>7

(* The window lock takes the nodes that reach into the window, and its     *)
(* boundary is the first of them.                                          *)
LEMMA LockedIs ==
  ASSUME NEW c, Shape(c), NEW n \in DOMAIN c.nodes, Usable(c, n)
  PROVE  LET L == SwaLocked(c, n)
         IN /\ L = {p \in Path(c, n) : Len(p) > Len(n) - Window}
            /\ \A p \in L : ~c.nodes[p].tomb
            /\ IF Len(n) < Window THEN Boundary(c, L) = Root
               ELSE Boundary(c, L) \in L /\ \A q \in L : IsPrefix(Boundary(c, L), q)
<1> DEFINE W == {p \in Path(c, n) : Len(p) > Len(n) - Window}
           Above(p) == {q \in Path(c, n) : ~c.nodes[q].tomb /\ Len(q) > Len(p)}
<1>1. /\ n \in Toks /\ Len(n) \in Nat /\ Window \in Nat /\ Window > 0
      /\ \A p \in Path(c, n) : p \in Toks /\ Len(p) \in Nat /\ IsPrefix(p, n) /\ Len(p) <= Len(n)
      /\ \A p \in Path(c, n) : p \in DOMAIN c.nodes
  BY TreeToks, PrefixOrder, SwaConstants DEF Path
<1>2. \A p \in W : ~c.nodes[p].tomb
  <2>1. \A p \in Path(c, n) : c.nodes[p].tomb => Len(n) - Len(p) >= Window
    BY DEF Usable
  <2>2. QED
    BY <1>1, <2>1
<1>3. ASSUME NEW p \in W
      PROVE  Tokens(c, Above(p)) < Window
  <2>1. Above(p) \in SUBSET Path(c, n) /\ Len(p) \in 0 .. Len(n)
    BY <1>1
  <2>2. ASSUME NEW q \in Above(p)
        PROVE  Start(c, q) >= Len(p)
    <3>1. IsPrefix(p, q) /\ p # q
      BY <1>1, PrefixOrder
    <3>2. p \in Path(c, q) \ {q}
      BY <1>1, <3>1 DEF Path
    <3>3. QED
      BY <1>1, <3>2, StartIs
  <2> HIDE DEF Above
  <2>3. Tokens(c, Above(p)) <= Len(n) - Len(p)
    BY <2>1, <2>2, TokensBound
  <2>4. Tokens(c, Above(p)) \in Int
    <3>1. QED
      BY <1>1, <2>1, TokensNat
  <2>5. QED
    BY <1>1, <2>3, <2>4
<1>4. ASSUME NEW p \in Path(c, n), p \notin W
      PROVE  ~(Tokens(c, Above(p)) < Window)
  <2> DEFINE a == Len(n) - Window
  <2>1. a \in 0 .. Len(n) /\ Len(p) <= a /\ Above(p) \in SUBSET Path(c, n)
    BY <1>1, <1>4
  <2>2. ASSUME NEW i \in a + 1 .. Len(n)
        PROVE  \E q \in Above(p) : Lies(c, UpTo(n, i), q)
    <3>1. i \in 1 .. Len(n) /\ i > Len(n) - Window
      BY <1>1, <2>1
    <3>2. PICK q \in Path(c, n) : Lies(c, UpTo(n, i), q) /\ ~c.nodes[q].tomb /\ Len(q) >= i
      BY <3>1, WindowLies
    <3>3. Len(q) > Len(p)
      BY <1>1, <2>1, <3>1, <3>2
    <3>4. QED
      BY <3>2, <3>3
  <2> HIDE DEF Above
  <2>3. Tokens(c, Above(p)) >= Len(n) - a
    BY <2>1, <2>2, TokensBound
  <2>4. Tokens(c, Above(p)) \in Int
    BY <1>1, <2>1, TokensNat
  <2>5. QED
    BY <1>1, <2>3, <2>4
<1>5. SwaLocked(c, n) = W
  BY <1>2, <1>3, <1>4 DEF SwaLocked
<1> HIDE DEF Above
<1>6. W \in SUBSET Path(c, n)
  OBVIOUS
<1>7. CASE Len(n) < Window
  <2>1. \A q \in W : Start(c, q) >= 0
    BY <1>1, StartIs
  <2>2. 0 \in 0 .. Len(n)
    BY <1>1
  <2>3. Tokens(c, W) <= Len(n) - 0 /\ Tokens(c, W) \in Int
    <3> HIDE DEF W
    <3>1. W \in SUBSET DOMAIN c.nodes
      BY <1>1, <1>6
    <3>2. QED
      BY <1>6, <2>1, <2>2, <3>1, TokensBound, TokensNat
  <2>4. Tokens(c, W) < Window
    BY <1>1, <1>7, <2>3
  <2>5. QED
    BY <1>2, <1>5, <1>7, <2>4 DEF Boundary
<1>8. CASE ~(Len(n) < Window)
  <2> DEFINE a == Len(n) - Window
  <2>1. a \in 0 .. Len(n) /\ a + 1 \in 1 .. Len(n) /\ a + 1 > Len(n) - Window
    BY <1>1, <1>8
  <2>2. ASSUME NEW i \in a + 1 .. Len(n)
        PROVE  \E q \in W : Lies(c, UpTo(n, i), q) /\ Len(q) >= i
    <3>1. i \in 1 .. Len(n) /\ i > Len(n) - Window
      BY <1>1, <2>1
    <3>2. PICK q \in Path(c, n) : Lies(c, UpTo(n, i), q) /\ Len(q) >= i
      BY <3>1, WindowLies
    <3>3. QED
      BY <1>1, <3>1, <3>2
  <2>3. Tokens(c, W) >= Len(n) - a /\ Tokens(c, W) \in Int
    <3> HIDE DEF W
    <3>1. W \in SUBSET DOMAIN c.nodes
      BY <1>1, <1>6
    <3>2. Tokens(c, W) >= Len(n) - a
      BY <1>6, <2>1, <2>2, TokensBound
    <3>3. Tokens(c, W) \in Nat
      BY <3>1, TokensNat
    <3>4. QED
      BY <3>2, <3>3
  <2>4. ~(Tokens(c, W) < Window)
    BY <1>1, <2>3
  <2>5. PICK b \in W : Lies(c, UpTo(n, a + 1), b)
    BY <1>1, <2>1, <2>2
  <2>6. ASSUME NEW q \in W
        PROVE  IsPrefix(b, q)
    <3>1. /\ UpTo(n, a + 1) \in Toks /\ Len(UpTo(n, a + 1)) = a + 1
          /\ IsPrefix(UpTo(n, a + 1), n)
      <4>1. a + 1 \in 0 .. Len(n)
        BY <1>1, <2>1
      <4> HIDE DEF a
      <4>2. QED
        BY <1>1, <4>1, UpTos
    <3>2. IsPrefix(UpTo(n, a + 1), q)
      BY <1>1, <3>1, PrefixOrder
    <3>3. QED
      BY <1>1, <2>5, <3>2 DEF Lies
  <2> HIDE DEF W
  <2>7. Boundary(c, W) = CHOOSE p \in W : \A q \in W : IsPrefix(p, q)
    BY <2>4 DEF Boundary
  <2>8. Boundary(c, W) \in W /\ \A q \in W : IsPrefix(Boundary(c, W), q)
    BY <2>5, <2>6, <2>7
  <2>9. QED
    BY <1>2, <1>5, <1>8, <2>8 DEF W
<1>9. QED
  BY <1>7, <1>8

(* A fresh uuid is carried by no node and by no handle.                    *)
LEMMA FreshIs ==
  ASSUME NEW c, Shape(c)
  PROVE  /\ FreshUuid(c) \in Nat /\ FreshUuid(c) # 0
         /\ \A n \in DOMAIN c.nodes : c.nodes[n].uuid # FreshUuid(c)
         /\ \A r \in Reqs : reqs[r].uuid # FreshUuid(c)
<1> DEFINE N == DOMAIN c.nodes
           K == Cardinality(N) + NumReqs
           f == [n \in N |-> c.nodes[n].uuid]
           g == [r \in Reqs |-> reqs[r].uuid]
           A == {c.nodes[n].uuid : n \in N}
           B == {reqs[r].uuid : r \in Reqs}
           S == {u \in 1 .. K + 1 : /\ \A n \in N : c.nodes[n].uuid # u
                                    /\ \A r \in Reqs : reqs[r].uuid # u}
<1>1. IsFiniteSet(N) /\ Cardinality(N) \in Nat /\ NumReqs \in Nat
  BY FS_CardinalityType, SwaConstants DEF Shape
<1>2. IsFiniteSet(Reqs) /\ Cardinality(Reqs) = NumReqs
  BY <1>1, FromOne DEF Reqs
<1>3. IsFiniteSet(A) /\ Cardinality(A) <= Cardinality(N) /\ Cardinality(A) \in Nat
  <2>1. f \in Surjection(N, A)
    BY DEF Surjection
  <2>2. QED
    BY <1>1, <2>1, FS_Surjection, FS_CardinalityType
<1>4. IsFiniteSet(B) /\ Cardinality(B) <= NumReqs /\ Cardinality(B) \in Nat
  <2>1. g \in Surjection(Reqs, B)
    BY DEF Surjection
  <2>2. IsFiniteSet(B) /\ Cardinality(B) <= Cardinality(Reqs)
    BY <1>2, <2>1, FS_Surjection
  <2>3. QED
    BY <1>2, <2>2, FS_CardinalityType
<1>5. IsFiniteSet(A \cup B) /\ Cardinality(A \cup B) <= K /\ Cardinality(A \cup B) \in Nat
  <2> HIDE DEF A, B
  <2>1. /\ IsFiniteSet(A \cup B)
        /\ Cardinality(A \cup B) = Cardinality(A) + Cardinality(B) - Cardinality(A \cap B)
    BY <1>3, <1>4, FS_Union
  <2>2. IsFiniteSet(A \cap B) /\ Cardinality(A \cap B) \in Nat
    BY <1>3, FS_Intersection, FS_CardinalityType
  <2>3. QED
    BY <1>1, <1>3, <1>4, <2>1, <2>2, FS_CardinalityType
<1>6. S # {}
  <2> HIDE DEF A, B
  <2>1. SUFFICES ASSUME 1 .. K + 1 \subseteq A \cup B PROVE FALSE
    BY DEF A, B
  <2>2. Cardinality(1 .. K + 1) = K + 1
    <3>1. K + 1 \in Nat
      BY <1>1
    <3>2. QED
      BY <3>1, FromOne
  <2>3. Cardinality(1 .. K + 1) <= Cardinality(A \cup B)
    BY <1>5, <2>1, FS_Subset
  <2>4. QED
    BY <1>1, <1>5, <2>2, <2>3
<1>7. S \in SUBSET Nat
  OBVIOUS
<1>8. FreshUuid(c) = Min(S)
  BY DEF FreshUuid
<1> HIDE DEF S
<1>9. FreshUuid(c) \in S
  BY <1>6, <1>7, <1>8, MinIsLeast
<1>10. QED
  BY <1>9 DEF S

(* The handles with one more.                                              *)
With(H, r, h) == [s \in DOMAIN H \cup {r} |-> IF s = r THEN h ELSE H[s]]

(* What a lock changes.                                                    *)
NodeLocked(c, n, L, b, u, p) ==
    IF p \notin Path(c, n) THEN c.nodes[p]
    ELSE [c.nodes[p] EXCEPT
            !.ref = c.nodes[p].ref + 1,
            !.sref = IF p \in L THEN c.nodes[p].sref + 1 ELSE c.nodes[p].sref,
            !.uuid = IF p = b THEN u ELSE c.nodes[p].uuid]
Relocked(c, n, L, b, u) ==
    [c EXCEPT !.nodes = [p \in DOMAIN c.nodes |-> NodeLocked(c, n, L, b, u, p)]]

(* A lock changes the nodes of the path.                                   *)
LEMMA LockedFields ==
  ASSUME NEW c, NEW n, NEW L, NEW b
  PROVE  Locked(c, n, L, b).c = Relocked(c, n, L, b, Locked(c, n, L, b).uuid)
  BY DEF Locked, Relocked, NodeLocked

(* A lock taken at a live end, or at the root, is one handle more.         *)
LEMMA LockTaken ==
  ASSUME NEW c, NEW H, Tree(c, H), NEW r \in Reqs, r \notin DOMAIN H,
         \A s \in DOMAIN H : s \in Reqs /\ H[s].uuid = reqs[s].uuid,
         NEW n, n = Root \/ (n \in DOMAIN c.nodes /\ Usable(c, n))
  PROVE  LET k == inc_lock(c, n)
         IN /\ Tree(k.c, With(H, r, [at |-> n, uuid |-> k.uuid])) /\ SamePages(c, k.c)
            /\ DOMAIN k.c.nodes = DOMAIN c.nodes /\ k.uuid \in Nat
            /\ \A m \in DOMAIN c.nodes : k.c.nodes[m].tomb = c.nodes[m].tomb
<1> DEFINE L == SwaLocked(c, n)
           b == Boundary(c, L)
           k == inc_lock(c, n)
           d == k.c
           u == k.uuid
           h == [at |-> n, uuid |-> u]
           G == With(H, r, h)
<1>1. /\ Shape(c) /\ Locks(c, H) /\ n \in Toks /\ Window \in Nat /\ Window > 0
      /\ \A m \in DOMAIN c.nodes : /\ m \in Toks /\ m # Root /\ Len(m) \in Nat
                                   /\ c.nodes[m] \in NodeType
  <2>1. Shape(c) /\ Locks(c, H)
    BY DEF Tree
  <2>2. /\ \A m \in DOMAIN c.nodes : m \in Toks /\ m # Root /\ Len(m) \in Nat
        /\ n \in Toks
    BY <2>1, TreeToks, PrefixOrder
  <2>3. \A m \in DOMAIN c.nodes : c.nodes[m] \in NodeType
    BY <2>1 DEF Shape
  <2>4. Window \in Nat /\ Window > 0
    BY SwaConstants
  <2>5. QED
    BY ONLY <2>1, <2>2, <2>3, <2>4
<1>2. u = IF b = Root THEN 0 ELSE IF c.nodes[b].uuid # 0 THEN c.nodes[b].uuid ELSE FreshUuid(c)
  BY DEF inc_lock, Locked
<1>3. /\ d.nodes = [p \in DOMAIN c.nodes |-> NodeLocked(c, n, L, b, u, p)]
      /\ SamePages(c, d)
      /\ d = [nodes |-> d.nodes, kv |-> d.kv, free |-> d.free, live |-> d.live]
  <2>1. c = [nodes |-> c.nodes, kv |-> c.kv, free |-> c.free, live |-> c.live]
    BY <1>1 DEF Shape
  <2>0. k = Locked(c, n, L, b)
    BY DEF inc_lock
  <2> HIDE DEF L, b, k
  <2>2. d = Relocked(c, n, L, b, u)
    BY <2>0, LockedFields
  <2> HIDE DEF d, u
  <2>3. QED
    BY <2>1, <2>2 DEF SamePages, Relocked
(* what the window lock takes, and the boundary                            *)
<1>4. /\ L = {p \in Path(c, n) : Len(p) > Len(n) - Window}
      /\ \A p \in L : ~c.nodes[p].tomb
      /\ IF Len(n) < Window THEN b = Root ELSE b \in L /\ \A q \in L : IsPrefix(b, q)
  <2>1. CASE n = Root
    <3>1. Path(c, n) = {}
      BY <1>1, <2>1, PrefixOrder DEF Path
    <3>2. L = {} /\ Len(n) = 0
      BY <2>1, <3>1, PrefixOrder DEF SwaLocked
    <3>3. Tokens(c, {}) = 0
      BY FS_EmptySet DEF Tokens
    <3>4. b = Root
      BY <1>1, <3>2, <3>3 DEF Boundary
    <3>5. QED
      BY <1>1, <3>1, <3>2, <3>4
  <2>2. CASE n # Root
    BY <1>1, <2>2, LockedIs
  <2>3. QED
    BY <2>1, <2>2
<1>5. /\ FreshUuid(c) \in Nat /\ FreshUuid(c) # 0
      /\ \A m \in DOMAIN c.nodes : c.nodes[m].uuid # FreshUuid(c)
      /\ \A s \in DOMAIN H : H[s].uuid # FreshUuid(c)
  BY <1>1, FreshIs
<1> HIDE DEF L, b, k, d, u
<1>6. /\ \A p \in L : p \in Path(c, n) /\ p \in DOMAIN c.nodes /\ p # Root
      /\ \A p \in Path(c, n) : p \in DOMAIN c.nodes /\ IsPrefix(p, n)
      /\ \A p \in DOMAIN c.nodes : IsPrefix(p, n) => p \in Path(c, n)
  BY <1>1, <1>4 DEF Path
<1>7. /\ u \in Nat /\ (b = Root <=> u = 0)
      /\ b # Root => /\ b \in L /\ c.nodes[b].uuid \in {0, u}
                     /\ c.nodes[b].uuid = 0 => u = FreshUuid(c)
  <2>1. b # Root => b \in L /\ c.nodes[b].uuid \in Nat
    BY <1>1, <1>4, <1>6 DEF NodeType
  <2>2. QED
    BY <1>2, <1>5, <2>1
<1>8. /\ DOMAIN d.nodes = DOMAIN c.nodes
      /\ \A p \in DOMAIN c.nodes :
           /\ d.nodes[p] \in NodeType /\ d.nodes[p].tomb = c.nodes[p].tomb
           /\ d.nodes[p].uuid = IF p = b THEN u ELSE c.nodes[p].uuid
           /\ d.nodes[p].ref = IF p \in Path(c, n) THEN c.nodes[p].ref + 1 ELSE c.nodes[p].ref
           /\ d.nodes[p].sref = IF p \in L THEN c.nodes[p].sref + 1 ELSE c.nodes[p].sref
  <2>1. DOMAIN d.nodes = DOMAIN c.nodes
    BY <1>3
  <2>2. ASSUME NEW p \in DOMAIN c.nodes
        PROVE  /\ d.nodes[p] \in NodeType /\ d.nodes[p].tomb = c.nodes[p].tomb
               /\ d.nodes[p].uuid = IF p = b THEN u ELSE c.nodes[p].uuid
               /\ d.nodes[p].ref = IF p \in Path(c, n) THEN c.nodes[p].ref + 1 ELSE c.nodes[p].ref
               /\ d.nodes[p].sref = IF p \in L THEN c.nodes[p].sref + 1 ELSE c.nodes[p].sref
    <3>0. d.nodes[p] = NodeLocked(c, n, L, b, u, p)
      BY <1>3
    <3>1. c.nodes[p] \in NodeType
      BY <1>1
    <3>2. CASE p \in Path(c, n)
      <4>1. d.nodes[p] = [c.nodes[p] EXCEPT
              !.ref = c.nodes[p].ref + 1,
              !.sref = IF p \in L THEN c.nodes[p].sref + 1 ELSE c.nodes[p].sref,
              !.uuid = IF p = b THEN u ELSE c.nodes[p].uuid]
        BY <3>0, <3>2 DEF NodeLocked
      <4>2. /\ d.nodes[p].ref = c.nodes[p].ref + 1
            /\ d.nodes[p].sref = IF p \in L THEN c.nodes[p].sref + 1 ELSE c.nodes[p].sref
            /\ d.nodes[p].uuid = IF p = b THEN u ELSE c.nodes[p].uuid
            /\ d.nodes[p].tomb = c.nodes[p].tomb
            /\ d.nodes[p] = [ref |-> d.nodes[p].ref, sref |-> d.nodes[p].sref,
                             tomb |-> d.nodes[p].tomb, uuid |-> d.nodes[p].uuid]
        BY <3>1, <4>1 DEF NodeType
      <4>3. d.nodes[p] \in NodeType
        BY <1>7, <3>1, <4>2 DEF NodeType
      <4>4. QED
        BY <3>2, <4>2, <4>3
    <3>3. CASE p \notin Path(c, n)
      <4>0. d.nodes[p] = c.nodes[p]
        BY <3>0, <3>3 DEF NodeLocked
      <4>1. d.nodes[p] = c.nodes[p] /\ p # b /\ p \notin L
        BY <4>0, <1>6, <1>7, <1>1, <3>3
      <4>2. QED
        BY <3>1, <3>3, <4>1
    <3>4. QED
      BY <3>2, <3>3
  <2>3. QED
    BY <2>1, <2>2
<1>9. \A x : Path(d, x) = Path(c, x)
  BY <1>8 DEF Path
<1>10. Shape(d)
  <2>1. d.nodes \in [DOMAIN d.nodes -> NodeType]
    <3>1. d.nodes = [p \in DOMAIN d.nodes |-> d.nodes[p]]
      BY <1>3
    <3>2. QED
      BY <1>8, <3>1
  <2>2. ASSUME NEW p \in DOMAIN d.nodes, NEW q \in DOMAIN d.nodes,
               d.nodes[p].uuid = d.nodes[q].uuid, d.nodes[p].uuid # 0
        PROVE  p = q
    <3>1. \A x, y \in DOMAIN c.nodes :
             c.nodes[x].uuid = c.nodes[y].uuid /\ c.nodes[x].uuid # 0 => x = y
      BY <1>1 DEF Shape
    <3>2. CASE p = b /\ q # b
      <4>1. c.nodes[q].uuid = u /\ q \in DOMAIN c.nodes /\ b \in DOMAIN c.nodes
        BY <1>8, <2>2, <3>2
      <4>2. c.nodes[b].uuid = u
        BY <1>1, <1>5, <1>7, <1>8, <4>1
      <4>3. QED
        BY <1>7, <1>8, <2>2, <3>1, <3>2, <4>1, <4>2
    <3>3. CASE p # b /\ q = b
      <4>1. c.nodes[p].uuid = u /\ p \in DOMAIN c.nodes /\ b \in DOMAIN c.nodes
        BY <1>8, <2>2, <3>3
      <4>2. c.nodes[b].uuid = u
        BY <1>1, <1>5, <1>7, <1>8, <4>1
      <4>3. QED
        BY <1>7, <1>8, <2>2, <3>1, <3>3, <4>1, <4>2
    <3>4. CASE p # b /\ q # b
      BY <1>8, <2>2, <3>1, <3>4
    <3>5. QED
      BY <3>2, <3>3, <3>4
  <2>3. \A x, y : Lies(d, x, y) <=> Lies(c, x, y)
    BY <1>8 DEF Lies
  <2>4. QED
    BY <1>1, <1>3, <1>8, <2>1, <2>2, <2>3 DEF Shape, SamePages
(* the old handles                                                         *)
<1>11. ASSUME NEW s \in DOMAIN H
       PROVE  /\ \A x : Holds(d, H[s], x) <=> Holds(c, H[s], x)
              /\ Anchored(d, H[s])
  <2>1. Anchored(c, H[s])
    BY <1>1 DEF Locks
  <2>2. ASSUME H[s].uuid # 0, NEW a \in DOMAIN c.nodes
        PROVE  d.nodes[a].uuid = H[s].uuid <=> c.nodes[a].uuid = H[s].uuid
    BY <1>1, <1>5, <1>7, <1>8, <2>2
  <2>3. \A x : Holds(d, H[s], x) <=> Holds(c, H[s], x)
    BY <1>9, <2>2 DEF Holds, Path
  <2>4. H[s].uuid # 0 => \E a \in Path(d, H[s].at) : d.nodes[a].uuid = H[s].uuid
    BY <1>9, <2>1, <2>2 DEF Anchored, Path
  <2>5. QED
    BY <1>8, <1>9, <2>1, <2>3, <2>4 DEF Anchored
(* the new one                                                             *)
<1>12. \A x : Holds(d, h, x) <=> x \in L
  <2>1. ASSUME NEW x, Holds(d, h, x)
        PROVE  x \in L
    <3>1. x \in Path(c, n) /\ x \in Toks /\ Len(x) \in Nat
      BY <1>1, <1>9, <2>1, <1>6 DEF Holds
    <3>2. CASE Len(n) < Window
      BY <1>1, <1>4, <3>1, <3>2, PrefixOrder
    <3>3. CASE ~(Len(n) < Window)
      <4>1. u # 0 /\ b \in L /\ b # Root
        BY <1>4, <1>6, <1>7, <3>3
      <4>2. PICK a \in Path(c, n) : d.nodes[a].uuid = u /\ Len(a) <= Len(x)
        BY <1>9, <2>1, <4>1 DEF Holds
      <4>3. a = b
        <5>1. a \in DOMAIN d.nodes /\ b \in DOMAIN d.nodes /\ d.nodes[b].uuid = u
          BY <1>6, <1>8, <4>1, <4>2
        <5>2. QED
          BY <1>10, <4>1, <4>2, <5>1 DEF Shape
      <4>4. Len(b) > Len(n) - Window /\ Len(b) \in Nat /\ Len(n) \in Nat
        BY <1>1, <1>4, <1>6, <4>1, PrefixOrder
      <4>5. Len(x) > Len(n) - Window
        BY <1>1, <3>1, <4>2, <4>3, <4>4
      <4>6. QED
        BY <1>4, <3>1, <4>5
    <3>4. QED
      BY <3>2, <3>3
  <2>2. ASSUME NEW x \in L
        PROVE  Holds(d, h, x)
    <3>1. x \in Path(d, n)
      BY <1>6, <1>9
    <3>2. ASSUME u # 0
          PROVE  b \in Path(d, n) /\ d.nodes[b].uuid = u /\ Len(b) <= Len(x)
      <4>1. b # Root /\ b \in L
        BY <1>7, <3>2
      <4>2. IsPrefix(b, x) /\ b \in Toks /\ x \in Toks /\ b \in DOMAIN c.nodes
        BY <1>1, <1>4, <1>6, <4>1
      <4>3. QED
        BY <1>6, <1>8, <1>9, <4>1, <4>2, PrefixOrder
    <3>3. QED
      BY <3>1, <3>2 DEF Holds
  <2>3. QED
    BY <2>1, <2>2
<1>13. Anchored(d, h)
  <2>1. n = Root \/ n \in DOMAIN d.nodes
    BY <1>8
  <2>2. u # 0 => b \in Path(d, n) /\ d.nodes[b].uuid = u
    BY <1>6, <1>7, <1>8, <1>9
  <2>3. \A x \in Path(d, n) : Len(x) > Len(n) - Window => Holds(d, h, x)
    BY <1>4, <1>9, <1>12
  <2>4. QED
    BY <1>1, <1>7, <2>1, <2>2, <2>3 DEF Anchored
(* the counts                                                              *)
<1>14. DOMAIN G = DOMAIN H \cup {r} /\ G[r] = h /\ \A s \in DOMAIN H : G[s] = H[s]
  BY DEF With
<1> HIDE DEF h, G
<1>15. IsFiniteSet(DOMAIN H)
  BY <1>1 DEF Locks
<1>16. ASSUME NEW p \in DOMAIN c.nodes
       PROVE  /\ d.nodes[p].ref = Cardinality(Readers(G, p))
              /\ d.nodes[p].sref = Cardinality(Holders(d, G, p))
              /\ d.nodes[p].tomb => d.nodes[p].sref = 0
              /\ is_leaf(d, p) => ~d.nodes[p].tomb
  <2>1. /\ c.nodes[p].ref = Cardinality(Readers(H, p))
        /\ c.nodes[p].sref = Cardinality(Holders(c, H, p))
        /\ c.nodes[p].tomb => c.nodes[p].sref = 0
        /\ is_leaf(c, p) => ~c.nodes[p].tomb
    BY <1>1 DEF Locks
  <2>2. /\ IsFiniteSet(Readers(H, p)) /\ IsFiniteSet(Holders(c, H, p))
        /\ r \notin Readers(H, p) /\ r \notin Holders(c, H, p)
    <3>1. Readers(H, p) \subseteq DOMAIN H /\ Holders(c, H, p) \subseteq DOMAIN H
      BY DEF Readers, Holders
    <3>2. QED
      BY <1>15, <3>1, FS_Subset
  <2>3. Readers(G, p) = IF p \in Path(c, n) THEN Readers(H, p) \cup {r} ELSE Readers(H, p)
    <3>1. h.at = n
      BY DEF h
    <3>2. QED
      BY <1>6, <1>14, <3>1 DEF Readers
  <2>4. Holders(d, G, p) = IF p \in L THEN Holders(c, H, p) \cup {r} ELSE Holders(c, H, p)
    BY <1>11, <1>12, <1>14 DEF Holders
  <2>0. /\ Cardinality(Readers(H, p) \cup {r}) = Cardinality(Readers(H, p)) + 1
        /\ Cardinality(Holders(c, H, p) \cup {r}) = Cardinality(Holders(c, H, p)) + 1
    BY <2>2, FS_AddElement
  <2>5. d.nodes[p].ref = Cardinality(Readers(G, p))
    BY <1>8, <2>0, <2>1, <2>3
  <2>6. d.nodes[p].sref = Cardinality(Holders(d, G, p))
    BY <1>8, <2>0, <2>1, <2>4
  <2>7. d.nodes[p].tomb => d.nodes[p].sref = 0
    BY <1>4, <1>8, <2>1
  <2>8. is_leaf(d, p) => ~d.nodes[p].tomb
    BY <1>8, <2>1 DEF is_leaf, Below
  <2>9. QED
    BY <2>5, <2>6, <2>7, <2>8
<1>17. Tree(d, G)
  <2>1. IsFiniteSet(DOMAIN G)
    BY <1>14, <1>15, FS_AddElement
  <2>2. \A s \in DOMAIN G : Anchored(d, G[s])
    BY <1>11, <1>13, <1>14
  <2>3. QED
    BY <1>8, <1>10, <1>16, <2>1, <2>2 DEF Tree, Locks
<1>18. QED
  BY <1>3, <1>7, <1>8, <1>17 DEF d, u, G, h, k

(* The handles without one.                                                *)
Without(H, r) == [s \in DOMAIN H \ {r} |-> H[s]]

(* What the release of a lock changes.                                     *)
HeldAt(c, p) == ~c.nodes[p].tomb /\ c.nodes[p].sref > 0
PastAt(c, n, uuid, p) ==
    \E q \in Path(c, n) : /\ Len(q) > Len(p) /\ HeldAt(c, q)
                          /\ uuid # 0 /\ c.nodes[q].uuid = uuid
NodeFreed(c, n, uuid, p) ==
    IF p \notin Path(c, n) THEN c.nodes[p]
    ELSE [c.nodes[p] EXCEPT
            !.ref = c.nodes[p].ref - 1,
            !.sref = IF HeldAt(c, p) /\ ~PastAt(c, n, uuid, p)
                     THEN c.nodes[p].sref - 1 ELSE c.nodes[p].sref]

(* The release changes the nodes of the path.                              *)
LEMMA ReleasedFields ==
  ASSUME NEW c, NEW n, NEW uuid
  PROVE  dec_lock(c, n, uuid) =
            [c EXCEPT !.nodes = [p \in DOMAIN c.nodes |-> NodeFreed(c, n, uuid, p)]]
  BY DEF dec_lock, NodeFreed, PastAt, HeldAt

(* The window lock is given back by exactly the nodes that the handle held.*)
LEMMA GivesBack ==
  ASSUME NEW c, NEW H, Tree(c, H), NEW r \in DOMAIN H, NEW p \in Path(c, H[r].at)
  PROVE  /\ HeldAt(c, p) /\ ~PastAt(c, H[r].at, H[r].uuid, p) <=> Holds(c, H[r], p)
         /\ Holds(c, H[r], p) => c.nodes[p].sref >= 1 /\ ~c.nodes[p].tomb
<1> DEFINE h == H[r]
<1>1. /\ Shape(c) /\ Anchored(c, h) /\ IsFiniteSet(DOMAIN H)
      /\ \A m \in DOMAIN c.nodes : /\ m \in Toks /\ Len(m) \in Nat /\ c.nodes[m] \in NodeType
                                   /\ c.nodes[m].sref = Cardinality(Holders(c, H, m))
                                   /\ c.nodes[m].tomb => c.nodes[m].sref = 0
      /\ \A m, x \in DOMAIN c.nodes :
           c.nodes[m].uuid = c.nodes[x].uuid /\ c.nodes[m].uuid # 0 => m = x
  BY TreeToks, PrefixOrder DEF Tree, Shape, Locks
<1> HIDE DEF h
<1>2. \A m \in Path(c, h.at) : m \in DOMAIN c.nodes
  BY DEF Path
<1>3. ASSUME NEW m \in Path(c, h.at), Holds(c, h, m)
      PROVE  c.nodes[m].sref >= 1 /\ ~c.nodes[m].tomb /\ HeldAt(c, m)
  <2>1. r \in Holders(c, H, m) /\ Holders(c, H, m) \subseteq DOMAIN H
    BY <1>3 DEF h, Holders
  <2>2. IsFiniteSet(Holders(c, H, m)) /\ Cardinality(Holders(c, H, m)) # 0
    BY <1>1, <2>1, FS_Subset, FS_EmptySet
  <2>3. QED
    BY <1>1, <1>2, <2>2, FS_CardinalityType DEF HeldAt
<1>4. p \in Path(c, h.at)
  BY DEF h
<1>5. ASSUME Holds(c, h, p), PastAt(c, h.at, h.uuid, p)
      PROVE  FALSE
  <2>1. PICK q \in Path(c, h.at) : Len(q) > Len(p) /\ h.uuid # 0 /\ c.nodes[q].uuid = h.uuid
    BY <1>5 DEF PastAt
  <2>2. PICK b \in Path(c, h.at) : c.nodes[b].uuid = h.uuid /\ Len(b) <= Len(p)
    BY <1>5, <2>1 DEF Holds
  <2>3. b = q
    BY <1>1, <1>2, <2>1, <2>2
  <2>4. QED
    BY <1>1, <1>2, <1>4, <2>1, <2>2, <2>3
<1>6. ASSUME HeldAt(c, p), ~PastAt(c, h.at, h.uuid, p)
      PROVE  Holds(c, h, p)
  <2>1. ASSUME h.uuid # 0
        PROVE  \E b \in Path(c, h.at) : c.nodes[b].uuid = h.uuid /\ Len(b) <= Len(p)
    <3>1. PICK b \in Path(c, h.at) : c.nodes[b].uuid = h.uuid
      BY <1>1, <2>1 DEF Anchored
    <3>2. Holds(c, h, b)
      BY <1>1, <1>2, <3>1 DEF Holds
    <3>3. HeldAt(c, b)
      BY <1>3, <3>2
    <3>4. ~(Len(b) > Len(p))
      BY <1>6, <2>1, <3>1, <3>3 DEF PastAt
    <3>5. QED
      BY <1>1, <1>2, <1>4, <3>1, <3>4
  <2>2. QED
    BY <1>4, <2>1 DEF Holds
<1>7. QED
  BY <1>3, <1>4, <1>5, <1>6 DEF h

(* A lock given back is one handle less.                                   *)
LEMMA LockReleased ==
  ASSUME NEW c, NEW H, Tree(c, H), NEW r \in DOMAIN H
  PROVE  LET d == dec_lock(c, H[r].at, H[r].uuid)
         IN /\ Tree(d, Without(H, r)) /\ SamePages(c, d) /\ DOMAIN d.nodes = DOMAIN c.nodes
            /\ \A m \in DOMAIN c.nodes : d.nodes[m].tomb = c.nodes[m].tomb
<1> DEFINE n == H[r].at
           d == dec_lock(c, n, H[r].uuid)
           G == Without(H, r)
<1>1. /\ Shape(c) /\ Locks(c, H)
      /\ \A m \in DOMAIN c.nodes : m \in Toks /\ Len(m) \in Nat /\ c.nodes[m] \in NodeType
  BY TreeToks, PrefixOrder DEF Tree, Shape
<1>2. d = [c EXCEPT !.nodes = [p \in DOMAIN c.nodes |-> NodeFreed(c, n, H[r].uuid, p)]]
  BY ReleasedFields
<1>3. /\ d.nodes = [p \in DOMAIN c.nodes |-> NodeFreed(c, n, H[r].uuid, p)]
      /\ SamePages(c, d)
      /\ d = [nodes |-> d.nodes, kv |-> d.kv, free |-> d.free, live |-> d.live]
  <2>1. c = [nodes |-> c.nodes, kv |-> c.kv, free |-> c.free, live |-> c.live]
    BY <1>1 DEF Shape
  <2> HIDE DEF d, n
  <2>2. QED
    BY <1>2, <2>1 DEF SamePages
<1> HIDE DEF d, n
<1>4. \A p \in DOMAIN c.nodes : p \in Path(c, n) <=> IsPrefix(p, n)
  BY DEF Path
<1>5. /\ DOMAIN d.nodes = DOMAIN c.nodes
      /\ \A p \in DOMAIN c.nodes :
           /\ d.nodes[p] \in NodeType /\ d.nodes[p].tomb = c.nodes[p].tomb
           /\ d.nodes[p].uuid = c.nodes[p].uuid
           /\ d.nodes[p].ref = IF p \in Path(c, n) THEN c.nodes[p].ref - 1 ELSE c.nodes[p].ref
           /\ d.nodes[p].sref = IF Holds(c, H[r], p) THEN c.nodes[p].sref - 1
                                                   ELSE c.nodes[p].sref
  <2>1. DOMAIN d.nodes = DOMAIN c.nodes
    BY <1>3
  <2>2. ASSUME NEW p \in DOMAIN c.nodes
        PROVE  /\ d.nodes[p] \in NodeType /\ d.nodes[p].tomb = c.nodes[p].tomb
               /\ d.nodes[p].uuid = c.nodes[p].uuid
               /\ d.nodes[p].ref = IF p \in Path(c, n) THEN c.nodes[p].ref - 1 ELSE c.nodes[p].ref
               /\ d.nodes[p].sref = IF Holds(c, H[r], p) THEN c.nodes[p].sref - 1
                                                       ELSE c.nodes[p].sref
    <3>0. d.nodes[p] = NodeFreed(c, n, H[r].uuid, p)
      BY <1>3
    <3>1. c.nodes[p] \in NodeType
      BY <1>1
    <3>2. CASE p \in Path(c, n)
      <4>1. d.nodes[p] = [c.nodes[p] EXCEPT
                            !.ref = c.nodes[p].ref - 1,
                            !.sref = IF HeldAt(c, p) /\ ~PastAt(c, n, H[r].uuid, p)
                                     THEN c.nodes[p].sref - 1 ELSE c.nodes[p].sref]
        BY <3>0, <3>2 DEF NodeFreed
      <4>2. /\ HeldAt(c, p) /\ ~PastAt(c, n, H[r].uuid, p) <=> Holds(c, H[r], p)
            /\ Holds(c, H[r], p) => c.nodes[p].sref >= 1
        BY <3>2, GivesBack DEF n
      <4>3. c.nodes[p].ref >= 1
        <5>1. r \in Readers(H, p) /\ Readers(H, p) \subseteq DOMAIN H
          BY <1>4, <3>2 DEF Readers, n
        <5>2. IsFiniteSet(DOMAIN H) /\ c.nodes[p].ref = Cardinality(Readers(H, p))
          BY <1>1 DEF Locks
        <5>3. IsFiniteSet(Readers(H, p)) /\ Cardinality(Readers(H, p)) # 0
          BY <5>1, <5>2, FS_Subset, FS_EmptySet
        <5>4. QED
          BY <5>2, <5>3, FS_CardinalityType
      <4>4. /\ d.nodes[p].ref = c.nodes[p].ref - 1
            /\ d.nodes[p].sref = IF HeldAt(c, p) /\ ~PastAt(c, n, H[r].uuid, p)
                                 THEN c.nodes[p].sref - 1 ELSE c.nodes[p].sref
            /\ d.nodes[p].uuid = c.nodes[p].uuid
            /\ d.nodes[p].tomb = c.nodes[p].tomb
            /\ d.nodes[p] = [ref |-> d.nodes[p].ref, sref |-> d.nodes[p].sref,
                             tomb |-> d.nodes[p].tomb, uuid |-> d.nodes[p].uuid]
        BY <3>1, <4>1 DEF NodeType
      <4>5. c.nodes[p].ref \in Nat /\ c.nodes[p].sref \in Nat /\ c.nodes[p].tomb \in BOOLEAN
            /\ c.nodes[p].uuid \in Nat
        BY <3>1 DEF NodeType
      <4>6. d.nodes[p].ref \in Nat /\ d.nodes[p].sref \in Nat
        BY <4>2, <4>3, <4>4, <4>5
      <4>7. d.nodes[p] \in NodeType
        BY <4>4, <4>5, <4>6 DEF NodeType
      <4>8. QED
        BY <3>2, <4>2, <4>4, <4>7
    <3>3. CASE p \notin Path(c, n)
      <4>1. d.nodes[p] = c.nodes[p]
        BY <3>0, <3>3 DEF NodeFreed
      <4>2. ~Holds(c, H[r], p)
        BY <3>3 DEF Holds, n
      <4>3. QED
        BY <3>1, <3>3, <4>1, <4>2
    <3>4. QED
      BY <3>2, <3>3
  <2>3. QED
    BY <2>1, <2>2
<1>6. \A x : Path(d, x) = Path(c, x)
  BY <1>5 DEF Path
<1>7. Shape(d)
  <2>1. d.nodes \in [DOMAIN d.nodes -> NodeType]
    <3>1. d.nodes = [p \in DOMAIN d.nodes |-> d.nodes[p]]
      BY <1>3
    <3>2. QED
      BY <1>5, <3>1
  <2>2. \A x, y : Lies(d, x, y) <=> Lies(c, x, y)
    BY <1>5 DEF Lies
  <2>3. QED
    BY <1>1, <1>3, <1>5, <2>1, <2>2 DEF Shape, SamePages
<1>8. ASSUME NEW s \in DOMAIN H
      PROVE  /\ \A x : Holds(d, H[s], x) <=> Holds(c, H[s], x)
             /\ Anchored(d, H[s])
  <2>1. Anchored(c, H[s])
    BY <1>1 DEF Locks
  <2>2. \A x : Holds(d, H[s], x) <=> Holds(c, H[s], x)
    BY <1>5, <1>6 DEF Holds, Path
  <2>3. H[s].uuid # 0 => \E a \in Path(d, H[s].at) : d.nodes[a].uuid = H[s].uuid
    BY <1>5, <1>6, <2>1 DEF Anchored, Path
  <2>4. QED
    BY <1>5, <1>6, <2>1, <2>2, <2>3 DEF Anchored
<1>9. DOMAIN G = DOMAIN H \ {r} /\ \A s \in DOMAIN G : G[s] = H[s]
  BY DEF Without
<1> HIDE DEF G
<1>10. IsFiniteSet(DOMAIN H)
  BY <1>1 DEF Locks
<1>11. ASSUME NEW p \in DOMAIN c.nodes
       PROVE  /\ d.nodes[p].ref = Cardinality(Readers(G, p))
              /\ d.nodes[p].sref = Cardinality(Holders(d, G, p))
              /\ d.nodes[p].tomb => d.nodes[p].sref = 0
              /\ is_leaf(d, p) => ~d.nodes[p].tomb
  <2>1. /\ c.nodes[p].ref = Cardinality(Readers(H, p))
        /\ c.nodes[p].sref = Cardinality(Holders(c, H, p))
        /\ c.nodes[p].tomb => c.nodes[p].sref = 0
        /\ is_leaf(c, p) => ~c.nodes[p].tomb
    BY <1>1 DEF Locks
  <2>2. IsFiniteSet(Readers(H, p)) /\ IsFiniteSet(Holders(c, H, p))
    <3>1. Readers(H, p) \subseteq DOMAIN H /\ Holders(c, H, p) \subseteq DOMAIN H
      BY DEF Readers, Holders
    <3>2. QED
      BY <1>10, <3>1, FS_Subset
  <2>3. /\ Readers(G, p) = Readers(H, p) \ {r}
        /\ r \in Readers(H, p) <=> p \in Path(c, n)
    BY <1>4, <1>9 DEF Readers, n
  <2>4. /\ Holders(d, G, p) = Holders(c, H, p) \ {r}
        /\ r \in Holders(c, H, p) <=> Holds(c, H[r], p)
    BY <1>8, <1>9 DEF Holders
  <2>5. /\ Cardinality(Readers(H, p) \ {r}) = IF r \in Readers(H, p) THEN Cardinality(Readers(H, p)) - 1 ELSE Cardinality(Readers(H, p))
        /\ Cardinality(Holders(c, H, p) \ {r}) = IF r \in Holders(c, H, p) THEN Cardinality(Holders(c, H, p)) - 1 ELSE Cardinality(Holders(c, H, p))
    BY <2>2, FS_RemoveElement
  <2>6. d.nodes[p].ref = Cardinality(Readers(G, p))
    BY <1>5, <2>1, <2>3, <2>5
  <2>7. d.nodes[p].sref = Cardinality(Holders(d, G, p))
    BY <1>5, <2>1, <2>4, <2>5
  <2>8. d.nodes[p].tomb => d.nodes[p].sref = 0
    <3>1. Holds(c, H[r], p) => ~c.nodes[p].tomb
      BY GivesBack DEF Holds
    <3>2. QED
      BY <1>5, <2>1, <3>1
  <2>9. is_leaf(d, p) => ~d.nodes[p].tomb
    BY <1>5, <2>1 DEF is_leaf, Below
  <2>10. QED
    BY <2>6, <2>7, <2>8, <2>9
<1>12. Tree(d, G)
  <2>1. IsFiniteSet(DOMAIN G)
    BY <1>9, <1>10, FS_RemoveElement
  <2>2. \A s \in DOMAIN G : Anchored(d, G[s])
    BY <1>8, <1>9
  <2>3. QED
    BY <1>5, <1>7, <1>11, <2>1, <2>2 DEF Tree, Locks
<1>13. QED
  BY <1>3, <1>5, <1>12 DEF d, n, G

-----------------------------------------------------------------------------
(* insert *)

(* The head of the node that is revived in part, and the new nodes.        *)
HeadOf(c, ids, evicted, R) ==
    IF \E n \in R : Start(c, n) < evicted THEN UpTo(ids, evicted) ELSE Root
SuffixOf(k, ids, evicted) ==
    IF Len(ids) = k THEN {}
    ELSE {UpTo(ids, Len(ids))}
         \cup (IF TombEnd(k, Len(ids), evicted) > k
               THEN {UpTo(ids, TombEnd(k, Len(ids), evicted))} ELSE {})
AdoptedOf(c, evicted, R) == UNION {High(evicted, Start(c, n)) + 1 .. Len(n) : n \in R}
SpannedOf(c, F) == UNION {Start(c, n) + 1 .. Len(n) : n \in F}

(* A tree grown by the nodes S and the pages of the lengths A of ids.      *)
NodeGrown(c, last, S, R, n) ==
    CASE n \in S -> NewNode(Len(n) < last)
      [] n \in R -> [c.nodes[n] EXCEPT !.tomb = FALSE]
      [] OTHER -> c.nodes[n]
PageGrown(c, k, ids, row, A, p) ==
    IF IsPrefix(p, ids) /\ Len(p) \in A \cup (k + 1 .. Len(ids)) THEN row[Len(p)] ELSE c.kv[p]
Grown(c, k, ids, row, S, R, A) ==
    [c EXCEPT
       !.nodes = [n \in DOMAIN c.nodes \cup S |-> NodeGrown(c, Len(ids), S, R, n)],
       !.kv = [p \in DOMAIN c.kv \cup {UpTo(ids, i) : i \in k + 1 .. Len(ids)} |->
                 PageGrown(c, k, ids, row, A, p)]]

(* Reconciliation, in these terms.                                         *)
LEMMA ReconciledFields ==
  ASSUME NEW c, NEW k, NEW ids, NEW row, NEW evicted, NEW F, NEW R
  PROVE  LET i == Reconciled(c, k, ids, row, evicted, F, R)
             A == AdoptedOf(c, evicted, R)
         IN /\ i.c = Grown(split_at(c, HeadOf(c, ids, evicted, R)), k, ids, row,
                           SuffixOf(k, ids, evicted), R, A)
            /\ i.freed = {c.kv[UpTo(ids, j)] : j \in A} \cup {row[j] : j \in SpannedOf(c, F) \ A}
  BY DEF Reconciled, Grown, NodeGrown, PageGrown, HeadOf, SuffixOf, AdoptedOf, SpannedOf

(* What a tree may grow by: a suffix of ids past the k tokens it has, and  *)
(* the pages of nodes that nobody reads.                                   *)
Grows(c, k, ids, row, S, R, A) ==
    /\ ids \in Toks /\ k \in 0 .. Len(ids)
    /\ \A i \in 1 .. Len(ids) : UpTo(ids, i) \in DOMAIN c.kv <=> i <= k
    /\ k # 0 => UpTo(ids, k) \in DOMAIN c.nodes
    /\ row \in Seq(Pool) /\ Len(ids) <= Len(row)
    /\ IsFiniteSet(S) /\ \A n \in S : \E j \in k + 1 .. Len(ids) : n = UpTo(ids, j)
    /\ k # Len(ids) => UpTo(ids, Len(ids)) \in S
    /\ R \in SUBSET Path(c, ids) /\ \A n \in R : c.nodes[n].ref = 0
    /\ A \in SUBSET (1 .. k) /\ \A i \in A : \E n \in R : Lies(c, UpTo(ids, i), n)

(* What a tree that grows by a suffix of ids, and takes over the pages A   *)
(* of nodes R without a reader, is: its nodes and its pages.               *)
LEMMA GrownFields ==
  ASSUME NEW c, Shape(c), NEW k, NEW ids, NEW row, NEW S, NEW R, NEW A,
         Grows(c, k, ids, row, S, R, A)
  PROVE  LET d == Grown(c, k, ids, row, S, R, A)
         IN /\ d = [nodes |-> d.nodes, kv |-> d.kv, free |-> d.free, live |-> d.live]
            /\ DOMAIN d.nodes = DOMAIN c.nodes \cup S /\ S \cap DOMAIN c.nodes = {}
            /\ d.nodes \in [DOMAIN d.nodes -> NodeType]
            /\ \A n \in S : d.nodes[n] = NewNode(Len(n) < Len(ids))
            /\ \A n \in DOMAIN c.nodes :
                 /\ d.nodes[n].ref = c.nodes[n].ref /\ d.nodes[n].sref = c.nodes[n].sref
                 /\ d.nodes[n].uuid = c.nodes[n].uuid
                 /\ d.nodes[n].tomb = (c.nodes[n].tomb /\ n \notin R)
            /\ DOMAIN d.kv = DOMAIN c.kv \cup {UpTo(ids, i) : i \in k + 1 .. Len(ids)}
            /\ d.kv \in [DOMAIN d.kv -> Pool]
            /\ \A i \in A \cup (k + 1 .. Len(ids)) : d.kv[UpTo(ids, i)] = row[i]
            /\ \A p \in DOMAIN c.kv : \/ d.kv[p] = c.kv[p]
                                      \/ \E i \in A : p = UpTo(ids, i)
            /\ \A p \in DOMAIN c.kv : (\A i \in A : p # UpTo(ids, i)) => d.kv[p] = c.kv[p]
            /\ d.free = c.free /\ d.live = c.live
<1> DEFINE d == Grown(c, k, ids, row, S, R, A)
           E == {UpTo(ids, i) : i \in k + 1 .. Len(ids)}
           last == Len(ids)
<1>0. /\ ids \in Toks /\ k \in 0 .. last /\ row \in Seq(Pool) /\ last <= Len(row)
      /\ \A i \in 1 .. last : UpTo(ids, i) \in DOMAIN c.kv <=> i <= k
      /\ \A n \in S : \E j \in k + 1 .. last : n = UpTo(ids, j)
      /\ R \in SUBSET Path(c, ids) /\ A \in SUBSET (1 .. k)
  BY DEF Grows
<1>1. /\ c = [nodes |-> c.nodes, kv |-> c.kv, free |-> c.free, live |-> c.live]
      /\ c.nodes \in [DOMAIN c.nodes -> NodeType] /\ c.kv \in [DOMAIN c.kv -> Pool]
      /\ last \in Nat
      /\ \A p \in DOMAIN c.kv : p \in Toks /\ p # Root
      /\ \A n \in DOMAIN c.nodes : n \in DOMAIN c.kv
  BY <1>0, TreeToks, PrefixOrder DEF Shape
<1>2. /\ d.nodes = [n \in DOMAIN c.nodes \cup S |-> NodeGrown(c, last, S, R, n)]
      /\ d.kv = [p \in DOMAIN c.kv \cup E |-> PageGrown(c, k, ids, row, A, p)]
      /\ d.free = c.free /\ d.live = c.live
      /\ d = [nodes |-> d.nodes, kv |-> d.kv, free |-> d.free, live |-> d.live]
  <2> DEFINE N == [n \in DOMAIN c.nodes \cup S |-> NodeGrown(c, last, S, R, n)]
             K == [p \in DOMAIN c.kv \cup E |-> PageGrown(c, k, ids, row, A, p)]
  <2>1. d = [c EXCEPT !.nodes = N, !.kv = K]
    BY DEF Grown
  <2> HIDE DEF d, N, K
  <2>0. c = [nodes |-> c.nodes, kv |-> c.kv, free |-> c.free, live |-> c.live]
    BY <1>1
  <2>2. /\ d.nodes = N /\ d.kv = K /\ d.free = c.free /\ d.live = c.live
        /\ d = [nodes |-> d.nodes, kv |-> d.kv, free |-> d.free, live |-> d.live]
    BY ONLY <2>0, <2>1
  <2>3. QED
    BY <2>2 DEF N, K
<1> HIDE DEF d
<1>3. \A i \in A \cup (k + 1 .. last) : i \in 1 .. last /\ i \in 1 .. Len(row)
  BY <1>0, <1>1
<1>4. S \cap DOMAIN c.nodes = {}
  <2>1. ASSUME NEW n \in S, n \in DOMAIN c.nodes
        PROVE  FALSE
    <3>1. PICK j \in k + 1 .. last : n = UpTo(ids, j)
      BY <1>0
    <3>2. j \in 1 .. last /\ ~(j <= k)
      BY <1>0, <1>1
    <3>3. QED
      BY <1>0, <1>1, <2>1, <3>1, <3>2
  <2>2. QED
    BY <2>1
<1>5. /\ \A n \in S : d.nodes[n] = NewNode(Len(n) < last)
      /\ \A n \in DOMAIN c.nodes : d.nodes[n] = IF n \in R THEN [c.nodes[n] EXCEPT !.tomb = FALSE]
                                                           ELSE c.nodes[n]
  <2>1. ASSUME NEW n \in S
        PROVE  d.nodes[n] = NewNode(Len(n) < last)
    <3>1. d.nodes[n] = NodeGrown(c, last, S, R, n)
      BY <1>2
    <3>2. n \notin R
      BY <1>0, <1>4 DEF Path
    <3>3. QED
      BY <3>1, <3>2 DEF NodeGrown
  <2>2. ASSUME NEW n \in DOMAIN c.nodes
        PROVE  d.nodes[n] = IF n \in R THEN [c.nodes[n] EXCEPT !.tomb = FALSE] ELSE c.nodes[n]
    <3>1. d.nodes[n] = NodeGrown(c, last, S, R, n)
      BY <1>2
    <3>2. n \notin S
      BY <1>4
    <3>3. QED
      BY <3>1, <3>2 DEF NodeGrown
  <2>3. QED
    BY <2>1, <2>2
<1>6. \A n \in DOMAIN c.nodes :
        /\ d.nodes[n].ref = c.nodes[n].ref /\ d.nodes[n].sref = c.nodes[n].sref
        /\ d.nodes[n].uuid = c.nodes[n].uuid
        /\ d.nodes[n].tomb = (c.nodes[n].tomb /\ n \notin R)
        /\ d.nodes[n] \in NodeType
  <2> TAKE n \in DOMAIN c.nodes
  <2>1. c.nodes[n] \in NodeType
    BY <1>1
  <2>2. CASE n \in R
    <3>1. d.nodes[n] = [c.nodes[n] EXCEPT !.tomb = FALSE]
      BY <1>5, <2>2
    <3>2. QED
      BY <2>1, <2>2, <3>1 DEF NodeType
  <2>3. CASE n \notin R
    <3>1. d.nodes[n] = c.nodes[n] /\ c.nodes[n].tomb \in BOOLEAN
      BY <1>5, <2>1, <2>3 DEF NodeType
    <3>2. QED
      BY <2>1, <2>3, <3>1
  <2>4. QED
    BY <2>2, <2>3
<1>7. \A n \in S : d.nodes[n] \in NodeType
  <2> TAKE n \in S
  <2>1. \A b \in BOOLEAN : NewNode(b) \in NodeType
    BY DEF NewNode, NodeType
  <2>2. (Len(n) < last) \in BOOLEAN
    OBVIOUS
  <2>3. NewNode(Len(n) < last) \in NodeType
    BY <2>1, <2>2
  <2>4. QED
    BY <1>5, <2>3
<1>8. DOMAIN d.nodes = DOMAIN c.nodes \cup S /\ d.nodes \in [DOMAIN d.nodes -> NodeType]
  <2>1. d.nodes = [n \in DOMAIN d.nodes |-> d.nodes[n]] /\ DOMAIN d.nodes = DOMAIN c.nodes \cup S
    BY <1>2
  <2>2. QED
    BY <1>6, <1>7, <2>1
<1>9. DOMAIN d.kv = DOMAIN c.kv \cup E
  BY <1>2
<1>10. ASSUME NEW i \in A \cup (k + 1 .. last)
       PROVE  UpTo(ids, i) \in DOMAIN d.kv /\ d.kv[UpTo(ids, i)] = row[i]
  <2>1. i \in 1 .. last /\ i \in 0 .. last
    BY <1>0, <1>1, <1>3
  <2>2. IsPrefix(UpTo(ids, i), ids) /\ Len(UpTo(ids, i)) = i
    BY <1>0, <2>1, UpTos
  <2>3. UpTo(ids, i) \in DOMAIN c.kv \cup E
    <3>1. CASE i \in A
      <4>1. i <= k
        BY <1>0, <1>1, <3>1
      <4>2. QED
        BY <1>0, <2>1, <4>1
    <3>2. CASE i \in k + 1 .. last
      BY <3>2
    <3>3. QED
      BY <3>1, <3>2
  <2>4. QED
    BY <1>2, <2>2, <2>3 DEF PageGrown
<1>11. ASSUME NEW p \in DOMAIN c.kv, \A i \in A : p # UpTo(ids, i)
       PROVE  d.kv[p] = c.kv[p]
  <2>1. SUFFICES ASSUME IsPrefix(p, ids), Len(p) \in A \cup (k + 1 .. last) PROVE FALSE
    BY <1>2 DEF PageGrown
  <2>2. p = UpTo(ids, Len(p))
    BY <1>0, <1>1, <2>1, PrefixUpTo
  <2>3. Len(p) \in k + 1 .. last /\ Len(p) \in 1 .. last /\ ~(Len(p) <= k)
    BY <1>0, <1>1, <1>11, <2>1, <2>2
  <2>4. QED
    BY <1>0, <1>11, <2>2, <2>3
<1>12. ASSUME NEW p \in DOMAIN d.kv
       PROVE  d.kv[p] \in Pool
  <2>1. CASE \E i \in A \cup (k + 1 .. last) : p = UpTo(ids, i)
    <3>1. PICK i \in A \cup (k + 1 .. last) : p = UpTo(ids, i)
      BY <2>1
    <3>2. d.kv[p] = row[i] /\ i \in 1 .. Len(row)
      BY <1>3, <1>10, <3>1
    <3>3. QED
      BY <1>0, <3>2
  <2>2. CASE ~ \E i \in A \cup (k + 1 .. last) : p = UpTo(ids, i)
    <3>1. p \in DOMAIN c.kv
      BY <1>9, <2>2
    <3>2. d.kv[p] = c.kv[p]
      BY <1>11, <2>2, <3>1
    <3>3. QED
      BY <1>1, <3>1, <3>2
  <2>3. QED
    BY <2>1, <2>2
<1>13. d.kv \in [DOMAIN d.kv -> Pool]
  <2>1. d.kv = [p \in DOMAIN d.kv |-> d.kv[p]]
    BY <1>2
  <2>2. QED
    BY <1>12, <2>1
<1>14. QED
  BY <1>2, <1>4, <1>5, <1>6, <1>8, <1>9, <1>10, <1>11, <1>13 DEF d

(* What was cached lies where it lay, and the suffix lies in the new nodes.*)
LEMMA GrownLies ==
  ASSUME NEW c, Shape(c), NEW k, NEW ids, NEW row, NEW S, NEW R, NEW A,
         Grows(c, k, ids, row, S, R, A)
  PROVE  LET d == Grown(c, k, ids, row, S, R, A)
         IN /\ \A p \in DOMAIN c.kv : \A n : Lies(c, p, n) => Lies(d, p, n)
            /\ \A i \in k + 1 .. Len(ids) : \E n \in S :
                 /\ Lies(d, UpTo(ids, i), n) /\ Len(n) \in i .. Len(ids)
                 /\ \A m \in S : Len(m) >= i => Len(n) <= Len(m)
<1> DEFINE d == Grown(c, k, ids, row, S, R, A)
           last == Len(ids)
<1>1. /\ ids \in Toks /\ k \in 0 .. last /\ last \in Nat
      /\ \A i \in 1 .. last : UpTo(ids, i) \in DOMAIN c.kv <=> i <= k
      /\ k # 0 => UpTo(ids, k) \in DOMAIN c.nodes
      /\ IsFiniteSet(S) /\ \A n \in S : \E j \in k + 1 .. last : n = UpTo(ids, j)
      /\ k # last => UpTo(ids, last) \in S
      /\ \A n \in DOMAIN c.nodes : n \in Toks /\ n # Root /\ n \in DOMAIN c.kv
      /\ \A p \in DOMAIN c.kv : p \in Toks /\ p # Root
      /\ \A p \in DOMAIN c.kv : \A q \in Toks \ {Root} : IsPrefix(q, p) => q \in DOMAIN c.kv
  BY TreeToks, PrefixOrder DEF Grows
<1>2. DOMAIN d.nodes = DOMAIN c.nodes \cup S
  BY GrownFields
<1> HIDE DEF d
<1>3. ASSUME NEW n \in S
      PROVE  /\ n \in Toks /\ n # Root /\ IsPrefix(n, ids) /\ Len(n) \in k + 1 .. last
             /\ n = UpTo(ids, Len(n))
  <2>1. PICK j \in k + 1 .. last : n = UpTo(ids, j)
    BY <1>1
  <2>2. j \in 0 .. last /\ j # 0
    BY <1>1
  <2>3. QED
    BY <1>1, <2>1, <2>2, UpTos
<1>4. ASSUME NEW p \in DOMAIN c.kv, NEW n, Lies(c, p, n)
      PROVE  Lies(d, p, n)
  <2>1. n \in DOMAIN d.nodes /\ n \in DOMAIN c.nodes /\ n \in Toks /\ p \in Toks /\ IsPrefix(p, n)
    BY <1>1, <1>2, <1>4 DEF Lies
  <2>2. ASSUME NEW m \in DOMAIN d.nodes, IsPrefix(p, m)
        PROVE  IsPrefix(n, m)
    <3>1. CASE m \in DOMAIN c.nodes
      BY <1>4, <2>2, <3>1 DEF Lies
    <3>2. CASE m \in S
      <4>1. m \in Toks /\ IsPrefix(m, ids) /\ Len(m) \in k + 1 .. last
        BY <1>3, <3>2
      <4>2. IsPrefix(p, ids) /\ Len(p) \in Nat /\ Len(p) # 0
        BY <1>1, <2>1, <2>2, <4>1, PrefixOrder
      <4>3. p = UpTo(ids, Len(p)) /\ Len(p) \in 0 .. last
        BY <1>1, <2>1, <4>2, PrefixUpTo
      <4>4. Len(p) \in 1 .. last
        BY <4>2, <4>3
      <4>5. Len(p) <= k
        BY <1>1, <4>3, <4>4
      <4>6. k # 0 /\ UpTo(ids, k) \in DOMAIN c.nodes
        BY <1>1, <4>4, <4>5
      <4>7. IsPrefix(p, UpTo(ids, k))
        BY <1>1, <4>3, <4>5, <4>2, UpToUpTo
      <4>8. IsPrefix(n, UpTo(ids, k))
        BY <1>4, <4>6, <4>7 DEF Lies
      <4>9. /\ UpTo(ids, k) \in Toks /\ Len(UpTo(ids, k)) = k /\ IsPrefix(UpTo(ids, k), ids)
        BY <1>1, UpTos
      <4>10. IsPrefix(UpTo(ids, k), m)
        BY <1>1, <4>1, <4>9, PrefixOrder
      <4>11. QED
        BY <2>1, <4>1, <4>8, <4>9, <4>10, PrefixOrder
    <3>3. QED
      BY <1>2, <2>2, <3>1, <3>2
  <2>3. QED
    BY <2>1, <2>2 DEF Lies
<1>5. ASSUME NEW i \in k + 1 .. last
      PROVE  \E n \in S : /\ Lies(d, UpTo(ids, i), n) /\ Len(n) \in i .. last
                          /\ \A m \in S : Len(m) >= i => Len(n) <= Len(m)
  <2> DEFINE p == UpTo(ids, i)
             B == {Len(m) : m \in {x \in S : Len(x) >= i}}
  <2>1. i \in 1 .. last /\ i \in 0 .. last /\ ~(i <= k) /\ k # last
    BY <1>1
  <2>2. p \in Toks /\ Len(p) = i /\ IsPrefix(p, ids) /\ p \notin DOMAIN c.kv /\ p # Root
    BY <1>1, <2>1, UpTos
  <2>3. B \in SUBSET Nat /\ B # {}
    <3>1. UpTo(ids, last) \in S /\ Len(UpTo(ids, last)) = last /\ last >= i
      BY <1>1, <2>1, UpTos
    <3>2. \A x \in S : Len(x) \in Nat
      BY <1>1, <1>3
    <3>3. QED
      BY <3>1, <3>2
  <2>4. Min(B) \in B /\ \A x \in B : Min(B) <= x
    <3> HIDE DEF B
    <3>1. QED
      BY <2>3, MinIsLeast
  <2>5. PICK n \in S : Len(n) >= i /\ Len(n) = Min(B)
    BY <2>4
  <2>6. \A m \in S : Len(m) >= i => Len(n) <= Len(m)
    BY <2>4, <2>5
  <2> HIDE DEF p, B
  <2>7. n \in Toks /\ IsPrefix(n, ids) /\ Len(n) \in i .. last /\ n \in DOMAIN d.nodes
    BY <1>1, <1>2, <1>3, <2>1, <2>5
  <2>8. IsPrefix(p, n)
    BY <1>1, <2>2, <2>7, PrefixOrder
  <2>9. ASSUME NEW m \in DOMAIN d.nodes, IsPrefix(p, m)
        PROVE  IsPrefix(n, m)
    <3>1. CASE m \in DOMAIN c.nodes
      <4>1. m \in DOMAIN c.kv
        BY <1>1, <3>1
      <4>2. QED
        BY <1>1, <2>2, <2>9, <4>1
    <3>2. CASE m \in S
      <4>1. m \in Toks /\ IsPrefix(m, ids) /\ Len(m) >= i
        BY <1>3, <2>2, <2>9, <3>2, PrefixOrder
      <4>2. Len(n) <= Len(m)
        BY <2>6, <3>2, <4>1
      <4>3. QED
        BY <1>1, <2>7, <4>1, <4>2, PrefixOrder
    <3>3. QED
      BY <1>2, <2>9, <3>1, <3>2
  <2>10. Lies(d, p, n)
    BY <2>7, <2>8, <2>9 DEF Lies
  <2>11. QED
    BY <2>5, <2>6, <2>7, <2>10 DEF p
<1>6. QED
  BY <1>4, <1>5 DEF d

(* The grown tree is a tree.                                               *)
LEMMA GrownShape ==
  ASSUME NEW c, Shape(c), NEW k, NEW ids, NEW row, NEW S, NEW R, NEW A,
         Grows(c, k, ids, row, S, R, A)
  PROVE  Shape(Grown(c, k, ids, row, S, R, A))
<1> DEFINE d == Grown(c, k, ids, row, S, R, A)
           last == Len(ids)
           E == {UpTo(ids, i) : i \in k + 1 .. last}
<1>1. /\ ids \in Toks /\ k \in 0 .. last /\ last \in Nat
      /\ \A i \in 1 .. last : UpTo(ids, i) \in DOMAIN c.kv <=> i <= k
      /\ IsFiniteSet(S) /\ \A n \in S : \E j \in k + 1 .. last : n = UpTo(ids, j)
      /\ k # last => UpTo(ids, last) \in S
      /\ \A n \in DOMAIN c.nodes : n \in Toks /\ n # Root /\ n \in DOMAIN c.kv
      /\ \A p \in DOMAIN c.kv : p \in Toks /\ p # Root
      /\ \A p : p \in DOMAIN c.kv <=> /\ p \in Toks \ {Root}
                                      /\ \E n \in DOMAIN c.nodes : IsPrefix(p, n)
      /\ IsFiniteSet(DOMAIN c.nodes) /\ c.free \subseteq Pool /\ c.live \subseteq Pool
      /\ \A n, m \in DOMAIN c.nodes :
           c.nodes[n].uuid = c.nodes[m].uuid /\ c.nodes[n].uuid # 0 => n = m
  BY TreeToks, PrefixOrder DEF Grows, Shape
<1>2. /\ d = [nodes |-> d.nodes, kv |-> d.kv, free |-> d.free, live |-> d.live]
      /\ DOMAIN d.nodes = DOMAIN c.nodes \cup S /\ S \cap DOMAIN c.nodes = {}
      /\ d.nodes \in [DOMAIN d.nodes -> NodeType]
      /\ \A n \in S : d.nodes[n] = NewNode(Len(n) < last)
      /\ \A n \in DOMAIN c.nodes : d.nodes[n].uuid = c.nodes[n].uuid
      /\ DOMAIN d.kv = DOMAIN c.kv \cup E
      /\ d.kv \in [DOMAIN d.kv -> Pool]
      /\ d.free = c.free /\ d.live = c.live
  BY GrownFields
<1>3. /\ \A p \in DOMAIN c.kv : \A n : Lies(c, p, n) => Lies(d, p, n)
      /\ \A i \in k + 1 .. last : \E n \in S : Lies(d, UpTo(ids, i), n)
  BY GrownLies
<1> HIDE DEF d
<1>4. \A n \in S : n \in Toks /\ n # Root /\ IsPrefix(n, ids)
  <2> TAKE n \in S
  <2>1. PICK j \in k + 1 .. last : n = UpTo(ids, j)
    BY <1>1
  <2>2. j \in 0 .. last /\ j # 0
    BY <1>1
  <2>3. QED
    BY <1>1, <2>1, <2>2, UpTos
<1>5. \A n \in S : d.nodes[n].uuid = 0
  <2>1. \A x : NewNode(x).uuid = 0
    BY DEF NewNode
  <2>2. QED
    BY <1>2, <2>1
<1>6. \A p \in E : p \in Toks \ {Root} /\ \E n \in DOMAIN d.nodes : IsPrefix(p, n)
  <2> TAKE p \in E
  <2>1. PICK i \in k + 1 .. last : p = UpTo(ids, i)
    OBVIOUS
  <2>2. i \in 0 .. last /\ i # 0
    BY <1>1
  <2>3. p \in Toks \ {Root}
    BY <1>1, <2>1, <2>2, UpTos
  <2>4. QED
    BY <1>3, <2>1, <2>3 DEF Lies
<1>7. ASSUME NEW p \in Toks \ {Root}, NEW n \in DOMAIN d.nodes, IsPrefix(p, n)
      PROVE  p \in DOMAIN d.kv
  <2>1. CASE n \in DOMAIN c.nodes
    BY <1>1, <1>2, <1>7, <2>1
  <2>2. CASE n \in S
    <3>1. IsPrefix(p, ids)
      BY <1>1, <1>4, <1>7, <2>2, PrefixOrder
    <3>2. p = UpTo(ids, Len(p)) /\ Len(p) \in 0 .. last /\ Len(p) # 0
      BY <1>1, <3>1, PrefixUpTo, PrefixOrder
    <3>3. CASE Len(p) <= k
      <4>1. Len(p) \in 1 .. last
        BY <3>2
      <4>2. QED
        BY <1>1, <1>2, <3>2, <3>3, <4>1
    <3>4. CASE ~(Len(p) <= k)
      <4>1. Len(p) \in k + 1 .. last
        BY <1>1, <3>2, <3>4
      <4>2. QED
        BY <1>2, <3>2, <4>1
    <3>5. QED
      BY <3>3, <3>4
  <2>3. QED
    BY <1>2, <2>1, <2>2
<1>8. \A p : p \in DOMAIN d.kv <=> /\ p \in Toks \ {Root}
                                   /\ \E n \in DOMAIN d.nodes : IsPrefix(p, n)
  <2> TAKE p
  <2>1. ASSUME p \in DOMAIN c.kv
        PROVE  p \in Toks \ {Root} /\ \E n \in DOMAIN d.nodes : IsPrefix(p, n)
    BY <1>1, <1>2, <2>1
  <2>2. QED
    BY <1>2, <1>6, <1>7, <2>1
<1>9. \A p \in DOMAIN d.kv : \E n : Lies(d, p, n)
  <2>1. \A p \in DOMAIN c.kv : \E n : Lies(c, p, n)
    BY DEF Shape
  <2>2. QED
    BY <1>2, <1>3, <2>1
<1>10. \A n, m \in DOMAIN d.nodes :
         d.nodes[n].uuid = d.nodes[m].uuid /\ d.nodes[n].uuid # 0 => n = m
  BY <1>1, <1>2, <1>5
<1>11. IsFiniteSet(DOMAIN d.nodes) /\ DOMAIN d.nodes \subseteq Toks \ {Root}
  <2>1. IsFiniteSet(DOMAIN c.nodes \cup S)
    BY <1>1, FS_Union
  <2>2. QED
    BY <1>1, <1>2, <1>4, <2>1
<1>12. Shape(d)
  BY <1>1, <1>2, <1>8, <1>9, <1>10, <1>11 DEF Shape
<1>13. QED
  BY <1>12 DEF d

(* A node without a full lock has no reader, and one without a window lock *)
(* no holder.                                                              *)
LEMMA NoReader ==
  ASSUME NEW c, NEW H, Tree(c, H), NEW n \in DOMAIN c.nodes, NEW s \in DOMAIN H
  PROVE  /\ c.nodes[n].ref = 0 => ~IsPrefix(n, H[s].at)
         /\ c.nodes[n].sref = 0 => ~Holds(c, H[s], n)
<1>1. /\ IsFiniteSet(DOMAIN H) /\ c.nodes[n].ref = Cardinality(Readers(H, n))
      /\ c.nodes[n].sref = Cardinality(Holders(c, H, n))
  BY DEF Tree, Locks
<1>2. Readers(H, n) \subseteq DOMAIN H /\ Holders(c, H, n) \subseteq DOMAIN H
  BY DEF Readers, Holders
<1>3. IsFiniteSet(Readers(H, n)) /\ IsFiniteSet(Holders(c, H, n))
  BY <1>1, <1>2, FS_Subset
<1>4. /\ c.nodes[n].ref = 0 => Readers(H, n) = {}
      /\ c.nodes[n].sref = 0 => Holders(c, H, n) = {}
  BY <1>1, <1>3, FS_EmptySet
<1>5. QED
  BY <1>4 DEF Readers, Holders

(* The pages that the handles read are the same in both trees.             *)
SameRead(c, d, H) ==
    \A s \in DOMAIN H : \A p \in DOMAIN c.kv :
       IsPrefix(p, H[s].at) => p \in DOMAIN d.kv /\ d.kv[p] = c.kv[p]

(* A cached prefix of what a handle reads lies in a node that it reads.    *)
LEMMA ReadLies ==
  ASSUME NEW c, NEW H, Tree(c, H), NEW s \in DOMAIN H, NEW p \in DOMAIN c.kv,
         IsPrefix(p, H[s].at)
  PROVE  /\ H[s].at \in DOMAIN c.nodes
         /\ \A n : Lies(c, p, n) => IsPrefix(n, H[s].at)
<1>1. /\ H[s].at \in Toks
      /\ H[s].at = Root \/ H[s].at \in DOMAIN c.nodes
      /\ p \in Toks /\ p # Root
  BY TreeToks DEF Tree, Locks, Anchored
<1>2. H[s].at # Root
  BY <1>1, PrefixOrder
<1>3. QED
  BY <1>1, <1>2 DEF Lies

(* The grown tree has the same handles, and they read what they did.       *)
LEMMA GrownTree ==
  ASSUME NEW c, NEW H, Tree(c, H), NEW k, NEW ids, NEW row, NEW S, NEW R, NEW A,
         Grows(c, k, ids, row, S, R, A)
  PROVE  LET d == Grown(c, k, ids, row, S, R, A)
         IN Tree(d, H) /\ SameRead(c, d, H)
<1> DEFINE d == Grown(c, k, ids, row, S, R, A)
           last == Len(ids)
<1>1. /\ Shape(c) /\ Locks(c, H) /\ ids \in Toks /\ k \in 0 .. last /\ last \in Nat
      /\ \A i \in 1 .. last : UpTo(ids, i) \in DOMAIN c.kv <=> i <= k
      /\ \A n \in S : \E j \in k + 1 .. last : n = UpTo(ids, j)
      /\ k # last => UpTo(ids, last) \in S
      /\ R \in SUBSET Path(c, ids) /\ \A n \in R : c.nodes[n].ref = 0
      /\ \A i \in A : \E n \in R : Lies(c, UpTo(ids, i), n)
  BY PrefixOrder DEF Grows, Tree
<1>2. /\ \A n \in DOMAIN c.nodes : n \in Toks /\ n # Root /\ n \in DOMAIN c.kv
      /\ \A p \in DOMAIN c.kv : p \in Toks /\ p # Root
      /\ \A p \in DOMAIN c.kv : \A q \in Toks \ {Root} : IsPrefix(q, p) => q \in DOMAIN c.kv
  BY <1>1, TreeToks
<1>3. /\ DOMAIN d.nodes = DOMAIN c.nodes \cup S /\ S \cap DOMAIN c.nodes = {}
      /\ \A n \in S : d.nodes[n] = NewNode(Len(n) < last)
      /\ \A n \in DOMAIN c.nodes :
           /\ d.nodes[n].ref = c.nodes[n].ref /\ d.nodes[n].sref = c.nodes[n].sref
           /\ d.nodes[n].uuid = c.nodes[n].uuid
           /\ d.nodes[n].tomb = (c.nodes[n].tomb /\ n \notin R)
      /\ DOMAIN c.kv \subseteq DOMAIN d.kv
      /\ \A p \in DOMAIN c.kv : d.kv[p] = c.kv[p] \/ \E i \in A : p = UpTo(ids, i)
  BY <1>1, GrownFields
<1>4. Shape(d)
  BY <1>1, GrownShape
<1> HIDE DEF d
<1>5. \A n \in S : n \in Toks /\ n # Root /\ Len(n) \in Nat /\ Len(n) <= last
                   /\ n \notin DOMAIN c.kv /\ IsPrefix(n, ids)
  <2> TAKE n \in S
  <2>1. PICK j \in k + 1 .. last : n = UpTo(ids, j)
    BY <1>1
  <2>2. j \in 0 .. last /\ j \in 1 .. last /\ ~(j <= k)
    BY <1>1
  <2>3. QED
    BY <1>1, <2>1, <2>2, UpTos
<1>6. ASSUME NEW s \in DOMAIN H
      PROVE  /\ H[s].at \in Toks /\ Anchored(c, H[s])
             /\ H[s].at = Root \/ H[s].at \in DOMAIN c.nodes
             /\ \A n \in S : ~IsPrefix(n, H[s].at)
             /\ Path(d, H[s].at) = Path(c, H[s].at)
  <2>1. Anchored(c, H[s])
    BY <1>1 DEF Locks
  <2>2. H[s].at \in Toks /\ (H[s].at = Root \/ H[s].at \in DOMAIN c.nodes)
    BY <2>1 DEF Anchored
  <2>3. ASSUME NEW n \in S, IsPrefix(n, H[s].at)
        PROVE  FALSE
    <3>1. n \in Toks /\ n # Root /\ n \notin DOMAIN c.kv
      BY <1>5
    <3>2. H[s].at # Root
      BY <2>3, <3>1, PrefixOrder
    <3>3. QED
      BY <1>2, <2>2, <2>3, <3>1, <3>2
  <2>4. Path(d, H[s].at) = Path(c, H[s].at)
    BY <1>3, <2>3 DEF Path
  <2>5. QED
    BY <2>1, <2>2, <2>3, <2>4
<1>7. ASSUME NEW s \in DOMAIN H
      PROVE  (\A x : Holds(d, H[s], x) <=> Holds(c, H[s], x)) /\ Anchored(d, H[s])
  <2>1. \A x \in Path(c, H[s].at) : x \in DOMAIN c.nodes
    BY DEF Path
  <2>2. \A x : Holds(d, H[s], x) <=> Holds(c, H[s], x)
    BY <1>3, <1>6, <2>1 DEF Holds
  <2>3. H[s].uuid # 0 => \E a \in Path(d, H[s].at) : d.nodes[a].uuid = H[s].uuid
    BY <1>3, <1>6, <2>1 DEF Anchored
  <2>4. QED
    BY <1>3, <1>6, <2>2, <2>3 DEF Anchored
<1>8. ASSUME NEW p \in DOMAIN c.nodes
      PROVE  /\ d.nodes[p].ref = Cardinality(Readers(H, p))
             /\ d.nodes[p].sref = Cardinality(Holders(d, H, p))
             /\ d.nodes[p].tomb => d.nodes[p].sref = 0
             /\ is_leaf(d, p) => ~d.nodes[p].tomb
  <2>1. /\ c.nodes[p].ref = Cardinality(Readers(H, p))
        /\ c.nodes[p].sref = Cardinality(Holders(c, H, p))
        /\ c.nodes[p].tomb => c.nodes[p].sref = 0
        /\ is_leaf(c, p) => ~c.nodes[p].tomb
    BY <1>1 DEF Locks
  <2>2. Holders(d, H, p) = Holders(c, H, p)
    BY <1>7 DEF Holders
  <2>3. is_leaf(d, p) => is_leaf(c, p)
    BY <1>3 DEF is_leaf, Below
  <2>4. QED
    BY <1>3, <2>1, <2>2, <2>3
<1>9. ASSUME NEW p \in S
      PROVE  /\ d.nodes[p].ref = Cardinality(Readers(H, p))
             /\ d.nodes[p].sref = Cardinality(Holders(d, H, p))
             /\ d.nodes[p].tomb => d.nodes[p].sref = 0
             /\ is_leaf(d, p) => ~d.nodes[p].tomb
  <2>1. /\ d.nodes[p].ref = 0 /\ d.nodes[p].sref = 0
        /\ d.nodes[p].tomb = (Len(p) < last)
    <3>1. d.nodes[p] = NewNode(Len(p) < last)
      BY <1>3
    <3>2. QED
      BY <3>1 DEF NewNode
  <2>2. Readers(H, p) = {} /\ Holders(d, H, p) = {}
    <3>1. \A s \in DOMAIN H : ~Holds(d, H[s], p)
      BY <1>6 DEF Holds, Path
    <3>2. QED
      BY <1>6, <3>1 DEF Readers, Holders
  <2>3. ASSUME is_leaf(d, p), Len(p) < last
        PROVE  FALSE
    <3>1. UpTo(ids, last) = ids /\ k # last
      <4>1. PICK j \in k + 1 .. last : p = UpTo(ids, j)
        BY <1>1
      <4>2. last \in 0 .. last
        BY <1>1
      <4>3. UpTo(ids, last) \in Toks /\ Len(UpTo(ids, last)) = last /\ IsPrefix(UpTo(ids, last), ids)
        BY <1>1, <4>2, UpTos
      <4>4. QED
        BY <1>1, <4>1, <4>3, PrefixOrder
    <3>2. ids \in DOMAIN d.nodes /\ ids # p /\ IsPrefix(p, ids)
      BY <1>1, <1>3, <1>5, <2>3, <3>1
    <3>3. QED
      BY <2>3, <3>2 DEF is_leaf, Below
  <2>4. QED
    BY <2>1, <2>2, <2>3, FS_EmptySet
<1>10. Tree(d, H)
  <2>1. IsFiniteSet(DOMAIN H)
    BY <1>1 DEF Locks
  <2>2. QED
    BY <1>3, <1>4, <1>7, <1>8, <1>9, <2>1 DEF Tree, Locks
<1>11. SameRead(c, d, H)
  <2>1. SUFFICES ASSUME NEW s \in DOMAIN H, NEW p \in DOMAIN c.kv, IsPrefix(p, H[s].at)
                 PROVE  d.kv[p] = c.kv[p]
    BY <1>3 DEF SameRead
  <2>2. SUFFICES ASSUME NEW i \in A, p = UpTo(ids, i) PROVE FALSE
    BY <1>3
  <2>3. PICK n \in R : Lies(c, p, n)
    BY <1>1, <2>2
  <2>4. n \in DOMAIN c.nodes /\ c.nodes[n].ref = 0
    BY <1>1, <2>3 DEF Path
  <2>5. IsPrefix(n, H[s].at)
    BY <2>1, <2>3, ReadLies
  <2>6. QED
    BY <2>4, <2>5, NoReader
<1>12. QED
  BY <1>10, <1>11 DEF d

(* A split at a shorter prefix leaves a prefix where it lies.              *)
LEMMA SplitAbove ==
  ASSUME NEW c, Shape(c), NEW p, p = Root \/ p \in DOMAIN c.kv,
         NEW q \in DOMAIN c.kv, Len(q) > Len(p), NEW n, Lies(c, q, n)
  PROVE  Lies(split_at(c, p), q, n)
<1>1. q \in Toks /\ (p = Root \/ p \in Toks)
  BY TreeToks
<1>2. CASE p = Root \/ p \in DOMAIN c.nodes
  BY <1>2 DEF split_at
<1>3. CASE ~(p = Root \/ p \in DOMAIN c.nodes)
  <2>1. Lies(split_at(c, p), q, IF n = Owner(c, p) /\ IsPrefix(q, p) THEN p ELSE n)
    BY <1>3, SplitLies
  <2>2. ~IsPrefix(q, p)
    BY <1>1, <1>3, PrefixOrder
  <2>3. QED
    BY <2>1, <2>2
<1>4. QED
  BY <1>2, <1>3

(* The numbers of a suffix's tombstone.                                    *)
LEMMA TombEndIs ==
  ASSUME NEW k \in Nat, NEW last \in Nat, k < last, NEW evicted \in Nat
  PROVE  /\ TombEnd(k, last, evicted) \in k .. last - 1
         /\ TombEnd(k, last, evicted) > k => TombEnd(k, last, evicted) <= evicted
         /\ evicted < last => evicted <= TombEnd(k, last, evicted) \/ evicted <= k
  BY DEF TombEnd, Low, High

(* Where the revived nodes begin: the head of one becomes a node.          *)
LEMMA HeadIs ==
  ASSUME NEW c, Shape(c), NEW ids \in Toks, NEW k \in 0 .. Len(ids),
         \A i \in 1 .. Len(ids) : UpTo(ids, i) \in DOMAIN c.kv <=> i <= k,
         NEW evicted \in Nat, NEW R \in SUBSET Path(c, ids), \A n \in R : evicted < Len(n)
  PROVE  LET p == HeadOf(c, ids, evicted, R)
         IN /\ p = Root \/ p \in DOMAIN c.kv
            /\ p # Root => Len(p) = evicted
            /\ \A n \in R : \A i \in High(evicted, Start(c, n)) + 1 .. Len(n) :
                 /\ i \in 1 .. k /\ i > evicted /\ UpTo(ids, i) \in DOMAIN c.kv
                 /\ Lies(c, UpTo(ids, i), n) /\ Lies(split_at(c, p), UpTo(ids, i), n)
<1> DEFINE p == HeadOf(c, ids, evicted, R)
<1>1. ASSUME NEW n \in Path(c, ids)
      PROVE  /\ n \in DOMAIN c.nodes /\ n \in Toks /\ IsPrefix(n, ids) /\ n = UpTo(ids, Len(n))
             /\ Len(n) \in 1 .. k /\ Start(c, n) \in 0 .. Len(n) - 1
  <2>1. n \in DOMAIN c.nodes /\ IsPrefix(n, ids) /\ n \in Toks /\ n # Root /\ n \in DOMAIN c.kv
    BY TreeToks DEF Path
  <2>2. Len(n) \in 0 .. Len(ids) /\ n = UpTo(ids, Len(n)) /\ Len(n) # 0 /\ Len(ids) \in Nat
    BY <2>1, PrefixUpTo, PrefixOrder
  <2>3. Len(n) \in 1 .. Len(ids)
    BY <2>2
  <2>4. Len(n) <= k
    BY <2>1, <2>2, <2>3
  <2>5. Start(c, n) \in 0 .. Len(n) - 1
    BY <2>1, StartIs
  <2>6. QED
    BY <2>1, <2>2, <2>3, <2>4, <2>5
<1>2. /\ p = Root \/ p \in DOMAIN c.kv
      /\ p # Root => Len(p) = evicted
  <2>1. CASE \E n \in R : Start(c, n) < evicted
    <3>1. PICK n \in R : Start(c, n) < evicted
      BY <2>1
    <3>2. evicted \in 1 .. Len(ids) /\ evicted <= k /\ evicted \in 0 .. Len(ids)
      <4>1. Len(n) \in 1 .. k /\ Start(c, n) \in 0 .. Len(n) - 1 /\ evicted < Len(n) /\ Len(ids) \in Nat
        BY <1>1, PrefixOrder
      <4>2. QED
        BY <3>1, <4>1
    <3>3. p = UpTo(ids, evicted)
      BY <2>1 DEF HeadOf
    <3>4. QED
      BY <3>2, <3>3, UpTos
  <2>2. CASE ~ \E n \in R : Start(c, n) < evicted
    BY <2>2 DEF HeadOf
  <2>3. QED
    BY <2>1, <2>2
<1> HIDE DEF p
<1>3. ASSUME NEW n \in R, NEW i \in High(evicted, Start(c, n)) + 1 .. Len(n)
      PROVE  /\ i \in 1 .. k /\ i > evicted /\ UpTo(ids, i) \in DOMAIN c.kv
             /\ Lies(c, UpTo(ids, i), n) /\ Lies(split_at(c, p), UpTo(ids, i), n)
  <2>1. Len(n) \in 1 .. k /\ Start(c, n) \in 0 .. Len(n) - 1 /\ Len(ids) \in Nat
    BY <1>1, PrefixOrder
  <2>2. i \in 1 .. k /\ i > evicted /\ i > Start(c, n) /\ i \in 0 .. Len(n)
        /\ i \in 0 .. Len(ids) /\ i \in 1 .. Len(ids) /\ Len(n) \in 0 .. Len(ids)
    BY <2>1 DEF High
  <2>3. UpTo(ids, i) \in DOMAIN c.kv
    BY <2>2
  <2>4. UpTo(ids, i) \in Toks /\ UpTo(ids, i) # Root /\ Len(UpTo(ids, i)) = i
    BY <2>2, UpTos
  <2>5. IsPrefix(UpTo(ids, i), n)
    <3>1. n = UpTo(ids, Len(n))
      BY <1>1
    <3>2. IsPrefix(UpTo(ids, i), UpTo(ids, Len(n)))
      BY <2>2, UpToUpTo
    <3>3. QED
      BY <3>1, <3>2
  <2>6. Lies(c, UpTo(ids, i), n)
    BY <1>1, <2>2, <2>4, <2>5, CellLies
  <2>7. Len(UpTo(ids, i)) > Len(p)
    <3>1. CASE p = Root
      BY <2>2, <2>4, <3>1, PrefixOrder
    <3>2. CASE p # Root
      BY <1>2, <2>2, <2>4, <3>2
    <3>3. QED
      BY <3>1, <3>2
  <2>8. Lies(split_at(c, p), UpTo(ids, i), n)
    BY <1>2, <2>3, <2>6, <2>7, SplitAbove
  <2>9. QED
    BY <2>2, <2>3, <2>6, <2>8
<1>4. QED
  BY <1>2, <1>3 DEF p

(* Reconciliation grows the walked tree, split at the head of what it      *)
(* revives.                                                                *)
LEMMA ReconciledGrows ==
  ASSUME NEW c, NEW H, Tree(c, H), NEW ids \in Toks, NEW k \in 0 .. Len(ids),
         \A i \in 1 .. Len(ids) : UpTo(ids, i) \in DOMAIN c.kv <=> i <= k,
         k # 0 => UpTo(ids, k) \in DOMAIN c.nodes,
         NEW row \in Seq(Pool), Len(ids) <= Len(row), NEW evicted \in Nat,
         NEW R \in SUBSET Path(c, ids), \A n \in R : evicted < Len(n) /\ c.nodes[n].ref = 0
  PROVE  LET s == split_at(c, HeadOf(c, ids, evicted, R))
         IN /\ Tree(s, H) /\ SamePages(c, s)
            /\ Grows(s, k, ids, row, SuffixOf(k, ids, evicted), R, AdoptedOf(c, evicted, R))
<1> DEFINE p == HeadOf(c, ids, evicted, R)
           s == split_at(c, p)
           last == Len(ids)
           S == SuffixOf(k, ids, evicted)
           A == AdoptedOf(c, evicted, R)
<1>1. Shape(c) /\ last \in Nat /\ \A n \in R : evicted < Len(n)
  BY PrefixOrder DEF Tree
<1>2. /\ p = Root \/ p \in DOMAIN c.kv
      /\ \A n \in R : \A i \in High(evicted, Start(c, n)) + 1 .. Len(n) :
           i \in 1 .. k /\ Lies(s, UpTo(ids, i), n)
  BY <1>1, HeadIs
<1> HIDE DEF p
<1>3. /\ Tree(s, H) /\ SamePages(c, s)
      /\ DOMAIN s.nodes = DOMAIN c.nodes \cup ({p} \ {Root})
      /\ \A n \in DOMAIN c.nodes : s.nodes[n].ref = c.nodes[n].ref
  BY <1>2, SplitKeeps
<1> HIDE DEF s
<1>4. R \in SUBSET Path(s, ids) /\ \A n \in R : s.nodes[n].ref = 0
  BY <1>3 DEF Path
<1>5. A \in SUBSET (1 .. k) /\ \A i \in A : \E n \in R : Lies(s, UpTo(ids, i), n)
  BY <1>2 DEF AdoptedOf
<1>6. IsFiniteSet(S)
  <2>1. \A x, y : IsFiniteSet({x} \cup {y}) /\ IsFiniteSet({x}) /\ IsFiniteSet({x} \cup {})
    BY FS_Singleton, FS_Union, FS_EmptySet
  <2>2. IsFiniteSet({})
    BY FS_EmptySet
  <2>3. QED
    BY <2>1, <2>2 DEF SuffixOf
<1>7. ASSUME NEW n \in S
      PROVE  \E j \in k + 1 .. last : n = UpTo(ids, j)
  <2>1. k # last
    BY <1>7 DEF SuffixOf
  <2>2. TombEnd(k, last, evicted) \in k .. last - 1
    <3>1. k \in Nat /\ k < last
      BY <1>1, <2>1
    <3>2. QED
      BY <1>1, <3>1, TombEndIs
  <2>3. \/ n = UpTo(ids, last)
        \/ n = UpTo(ids, TombEnd(k, last, evicted)) /\ TombEnd(k, last, evicted) > k
    BY <1>7, <2>1 DEF SuffixOf
  <2>4. last \in k + 1 .. last
    BY <1>1, <2>1
  <2>5. TombEnd(k, last, evicted) > k => TombEnd(k, last, evicted) \in k + 1 .. last
    BY <1>1, <2>2
  <2>6. QED
    BY <2>3, <2>4, <2>5
<1>8. k # last => UpTo(ids, last) \in S
  BY DEF SuffixOf
<1> HIDE DEF S, A
<1>9. Grows(s, k, ids, row, S, R, A)
  <2>1. c.kv = s.kv
    BY <1>3 DEF SamePages
  <2>2. k # 0 => UpTo(ids, k) \in DOMAIN s.nodes
    BY <1>3
  <2>3. QED
    BY <1>4, <1>5, <1>6, <1>7, <1>8, <2>1, <2>2 DEF Grows
<1>10. QED
  BY <1>3, <1>9 DEF s, p, S, A

(* Only the free pages and the live ones differ.                           *)
SameNodes(c, d) ==
    /\ d.nodes = c.nodes /\ d.kv = c.kv /\ d.free \subseteq Pool /\ d.live \subseteq Pool
    /\ d = [nodes |-> d.nodes, kv |-> d.kv, free |-> d.free, live |-> d.live]

(* Pages that come and go leave the nodes a tree.                          *)
LEMMA PagesTree ==
  ASSUME NEW c, NEW H, Tree(c, H), NEW d, SameNodes(c, d)
  PROVE  /\ Tree(d, H) /\ SameRead(c, d, H)
         /\ \A ids : MatchLen(d, ids) = MatchLen(c, ids)
         /\ \A p, n : Lies(d, p, n) <=> Lies(c, p, n)
         /\ \A p : Dead(d, p) <=> Dead(c, p)
<1>1. d.nodes = c.nodes /\ d.kv = c.kv
  BY DEF SameNodes
<1>2. /\ \A x : Path(d, x) = Path(c, x) /\ \A n : is_leaf(d, n) <=> is_leaf(c, n)
  BY <1>1 DEF Path, is_leaf, Below
<1>3. /\ \A p, n : Lies(d, p, n) <=> Lies(c, p, n)
  BY <1>1 DEF Lies
<1>4. \A h : /\ \A n : Holds(d, h, n) <=> Holds(c, h, n)
             /\ Anchored(d, h) <=> Anchored(c, h)
  <2> TAKE h
  <2>1. \A n : Holds(d, h, n) <=> Holds(c, h, n)
    BY <1>1, <1>2 DEF Holds
  <2>2. QED
    BY <1>1, <1>2, <2>1 DEF Anchored
<1>5. \A n : Holders(d, H, n) = Holders(c, H, n)
  BY <1>4 DEF Holders
<1>6. Shape(d)
  BY <1>1, <1>3 DEF Shape, Tree, SameNodes
<1>7. Locks(d, H)
  BY <1>1, <1>2, <1>4, <1>5 DEF Locks, Tree
<1>8. SameRead(c, d, H)
  BY <1>1 DEF SameRead
<1>9. \A p : Dead(d, p) <=> Dead(c, p)
  BY <1>1, <1>3 DEF Dead
<1>10. \A ids : MatchLen(d, ids) = MatchLen(c, ids)
  BY <1>1 DEF MatchLen
<1>11. QED
  BY <1>3, <1>6, <1>7, <1>8, <1>9, <1>10 DEF Tree

(* What the frees change.                                                  *)
LEMMA FreeFields ==
  ASSUME NEW c, Shape(c), NEW P \in SUBSET Pool
  PROVE  /\ SameNodes(c, _free_swa(c, P)) /\ SameNodes(c, _free_both(c, P)) /\ SameNodes(c, _free(c, P))
         /\ _free_swa(c, P).live = c.live \ P /\ _free_swa(c, P).free = c.free
         /\ _free_both(c, P).live = c.live \ P /\ _free_both(c, P).free = c.free \cup P
         /\ _free(c, P).live = c.live /\ _free(c, P).free = c.free \cup P
<1>1. /\ c = [nodes |-> c.nodes, kv |-> c.kv, free |-> c.free, live |-> c.live]
      /\ c.free \subseteq Pool /\ c.live \subseteq Pool
  BY DEF Shape
<1>2. /\ SameNodes(c, _free_swa(c, P))
      /\ _free_swa(c, P).live = c.live \ P /\ _free_swa(c, P).free = c.free
  BY ONLY <1>1, P \in SUBSET Pool DEF SameNodes, _free_swa
<1>3. /\ SameNodes(c, _free(c, P))
      /\ _free(c, P).live = c.live /\ _free(c, P).free = c.free \cup P
  <2> DEFINE d == _free(c, P)
  <2>1. /\ d.nodes = c.nodes /\ d.kv = c.kv /\ d.free = c.free \cup P /\ d.live = c.live
        /\ d = [nodes |-> d.nodes, kv |-> d.kv, free |-> d.free, live |-> d.live]
    BY ONLY <1>1 DEF _free
  <2> HIDE DEF d
  <2>2. QED
    BY <1>1, <2>1 DEF SameNodes, d
<1>4. /\ SameNodes(c, _free_both(c, P))
      /\ _free_both(c, P).live = c.live \ P /\ _free_both(c, P).free = c.free \cup P
  <2> DEFINE d == _free_swa(c, P)
  <2>1. _free_both(c, P) = _free(d, P)
    BY DEF _free_both
  <2>2. /\ d.nodes = c.nodes /\ d.kv = c.kv /\ d.free = c.free /\ d.live = c.live \ P
        /\ d = [nodes |-> d.nodes, kv |-> d.kv, free |-> d.free, live |-> d.live]
        /\ d.live \subseteq Pool
    BY <1>2 DEF SameNodes
  <2> HIDE DEF d
  <2>3. QED
    BY ONLY <1>1, <2>1, <2>2, P \in SUBSET Pool DEF SameNodes, _free
<1>5. QED
  BY <1>2, <1>3, <1>4

(* An insert keeps the handles, and what they read.                        *)
LEMMA InsertTree ==
  ASSUME NEW c0, NEW H, Tree(c0, H), NEW ids \in Toks,
         NEW row \in Seq(Pool), Len(ids) <= Len(row), NEW evicted \in Nat, NEW after
  PROVE  LET i == insert(c0, ids, row, evicted, after)
         IN /\ Tree(i.c, H) /\ SameRead(c0, i.c, H)
            /\ i.freed \subseteq Pool /\ i.c.free = c0.free /\ i.c.live = c0.live
<1> DEFINE c == Walked(c0, ids)
           k == MatchLen(c0, ids)
           F == Fresh(c, ids, after)
           R == {n \in F : Revivable(c, n, evicted)}
           s == split_at(c, HeadOf(c, ids, evicted, R))
           S == SuffixOf(k, ids, evicted)
           A == AdoptedOf(c, evicted, R)
           i == insert(c0, ids, row, evicted, after)
<1>1. Shape(c0)
  BY DEF Tree
<1>2. /\ Tree(c, H) /\ SamePages(c0, c)
      /\ UpTo(ids, k) = Root \/ UpTo(ids, k) \in DOMAIN c.nodes
  BY WalkedIs
<1>3. /\ k \in 0 .. Len(ids)
      /\ \A j \in 1 .. Len(ids) : UpTo(ids, j) \in DOMAIN c.kv <=> j <= k
  BY <1>1, <1>2, MatchIs DEF SamePages
<1>4. k # 0 => UpTo(ids, k) \in DOMAIN c.nodes
  BY <1>2, <1>3, UpTos
<1>5. F \in SUBSET Path(c, ids) /\ R \in SUBSET Path(c, ids)
      /\ \A n \in R : evicted < Len(n) /\ c.nodes[n].ref = 0
  BY DEF Fresh, Revivable
<1>6. i = Reconciled(c, k, ids, row, evicted, F, R)
  BY DEF insert
<1>7. /\ i.c = Grown(s, k, ids, row, S, R, A)
      /\ i.freed = {c.kv[UpTo(ids, j)] : j \in A} \cup {row[j] : j \in SpannedOf(c, F) \ A}
  <2> HIDE DEF c, k, F, R, i
  <2>1. QED
    BY <1>6, ReconciledFields
<1> HIDE DEF c, k, F, R
<1>8. Tree(s, H) /\ SamePages(c, s) /\ Grows(s, k, ids, row, S, R, A)
  BY <1>2, <1>3, <1>4, <1>5, ReconciledGrows
<1> HIDE DEF s, S, A, i
<1>9. Tree(i.c, H) /\ SameRead(s, i.c, H)
  BY <1>7, <1>8, GrownTree
<1>10. i.c.free = s.free /\ i.c.live = s.live
  BY <1>7, <1>8, GrownFields DEF Tree
<1>11. ASSUME NEW x \in i.freed
       PROVE  x \in Pool
  <2>1. c.kv \in [DOMAIN c.kv -> Pool] /\ Shape(c) /\ Len(ids) \in Nat
    BY <1>2, PrefixOrder DEF Tree, Shape
  <2>2. CASE \E j \in A : x = c.kv[UpTo(ids, j)]
    <3>1. PICK j \in A : x = c.kv[UpTo(ids, j)]
      BY <2>2
    <3>2. j \in 1 .. Len(ids) /\ j <= k
      BY <1>3, <1>8, <2>1 DEF Grows
    <3>3. QED
      BY <1>3, <2>1, <3>1, <3>2
  <2>3. CASE \E j \in SpannedOf(c, F) \ A : x = row[j]
    <3>1. PICK j \in SpannedOf(c, F) \ A : x = row[j]
      BY <2>3
    <3>2. PICK n \in F : j \in Start(c, n) + 1 .. Len(n)
      BY DEF SpannedOf
    <3>3. n \in DOMAIN c.nodes /\ IsPrefix(n, ids) /\ n \in Toks
      BY <1>5, <2>1, TreeToks DEF Path
    <3>4. Len(n) <= Len(ids) /\ Start(c, n) \in Nat /\ Len(n) \in Nat
      BY <2>1, <3>3, PrefixOrder, StartIs
    <3>5. j \in 1 .. Len(row)
      BY <2>1, <3>2, <3>4
    <3>6. QED
      BY <3>1, <3>5
  <2>4. QED
    BY <1>7, <2>2, <2>3
<1>12. c0.kv = s.kv /\ c0.free = s.free /\ c0.live = s.live
  BY <1>2, <1>8 DEF SamePages
<1>13. SameRead(c0, i.c, H)
  BY <1>9, <1>12 DEF SameRead
<1>14. QED
  BY <1>9, <1>10, <1>11, <1>12, <1>13 DEF i

(* What is read stays the same from tree to tree, and for fewer handles.   *)
LEMMA SameReads ==
  ASSUME NEW c, NEW d, NEW e, NEW H
  PROVE  /\ c.kv = d.kv => SameRead(c, d, H)
         /\ SameRead(c, d, H) /\ SameRead(d, e, H) => SameRead(c, e, H)
         /\ \A r : SameRead(c, d, H) => SameRead(c, d, Without(H, r))
<1>1. c.kv = d.kv => SameRead(c, d, H)
  BY DEF SameRead
<1>2. SameRead(c, d, H) /\ SameRead(d, e, H) => SameRead(c, e, H)
  BY DEF SameRead
<1>3. \A r : SameRead(c, d, H) => SameRead(c, d, Without(H, r))
  BY DEF SameRead, Without
<1>4. QED
  BY <1>1, <1>2, <1>3

(* The request: its tokens, its row and its handle.                        *)
Request(q, H, r) ==
    /\ q.ids \in Toks /\ q.row \in Seq(Pool) /\ q.evicted \in Nat /\ q.hlen \in 0 .. Len(q.ids)
    /\ r \in DOMAIN H /\ H[r] = [at |-> UpTo(q.ids, q.hlen), uuid |-> q.uuid]

(* An insert takes the request's handle away, and no other.                *)
LEMMA InsertedTree ==
  ASSUME NEW c, NEW H, Tree(c, H), NEW r, NEW q, Request(q, H, r),
         NEW cached \in 0 .. Len(q.ids), cached <= Len(q.row)
  PROVE  LET d == Inserted(c, q, cached)
         IN /\ Tree(d, Without(H, r)) /\ SameRead(c, d, Without(H, r))
            /\ d.live \subseteq c.live
<1> DEFINE ids == UpTo(q.ids, cached)
           i == insert(c, ids, q.row, q.evicted, q.hlen)
           l == dec_lock(i.c, UpTo(q.ids, q.hlen), q.uuid)
           d == Inserted(c, q, cached)
<1>1. /\ q.ids \in Toks /\ q.row \in Seq(Pool) /\ q.evicted \in Nat
      /\ r \in DOMAIN H /\ H[r].at = UpTo(q.ids, q.hlen) /\ H[r].uuid = q.uuid
  BY DEF Request
<1>2. ids \in Toks /\ Len(ids) = cached
  BY <1>1, UpTos
<1>3. d = _free_both(l, i.freed)
  BY DEF Inserted, Released
<1> HIDE DEF ids
<1>4. /\ Tree(i.c, H) /\ SameRead(c, i.c, H)
      /\ i.freed \subseteq Pool /\ i.c.free = c.free /\ i.c.live = c.live
  BY <1>1, <1>2, InsertTree
<1> HIDE DEF i, d
<1>5. Tree(l, Without(H, r)) /\ SamePages(i.c, l)
  BY <1>1, <1>4, LockReleased
<1> HIDE DEF l
<1>6. SameNodes(l, d) /\ d.live = l.live \ i.freed
  BY <1>3, <1>4, <1>5, FreeFields DEF Tree
<1>7. Tree(d, Without(H, r)) /\ SameRead(l, d, Without(H, r))
  BY <1>5, <1>6, PagesTree
<1>8. SameRead(i.c, l, Without(H, r)) /\ SameRead(c, i.c, Without(H, r))
  BY <1>4, <1>5, SameReads DEF SamePages
<1>9. SameRead(c, d, Without(H, r))
  BY <1>7, <1>8, SameReads
<1>10. QED
  BY <1>4, <1>5, <1>6, <1>7, <1>9 DEF SamePages, d

-----------------------------------------------------------------------------
(* tombstones: the trim of a head and the eviction of a window *)

(* The pages of a node are pages of the pool.                              *)
LEMMA PagesIn ==
  ASSUME NEW c, Shape(c), NEW n \in DOMAIN c.nodes
  PROVE  Cells(c, n) \subseteq DOMAIN c.kv /\ Pages(c, n) \subseteq Pool
<1>1. c.kv \in [DOMAIN c.kv -> Pool] /\ n \in Toks /\ n \in DOMAIN c.kv /\ Len(n) \in Nat
      /\ Start(c, n) \in Nat
      /\ \A q \in Toks \ {Root} : IsPrefix(q, n) => q \in DOMAIN c.kv
  <2>1. c.kv \in [DOMAIN c.kv -> Pool] /\ n \in Toks /\ n \in DOMAIN c.kv
        /\ \A q \in Toks \ {Root} : IsPrefix(q, n) => q \in DOMAIN c.kv
    BY TreeToks DEF Shape
  <2>2. Start(c, n) \in Nat /\ Len(n) \in Nat
    BY <2>1, StartIs, PrefixOrder
  <2>3. QED
    BY <2>1, <2>2
<1>2. ASSUME NEW p \in Cells(c, n)
      PROVE  p \in DOMAIN c.kv
  <2>1. PICK i \in Start(c, n) + 1 .. Len(n) : p = UpTo(n, i)
    BY DEF Cells
  <2>2. i \in 0 .. Len(n) /\ i # 0
    BY <1>1, <2>1
  <2>3. p \in Toks /\ p # Root /\ IsPrefix(p, n)
    BY <1>1, <2>1, <2>2, UpTos
  <2>4. QED
    BY <1>1, <2>3
<1>3. QED
  BY <1>1, <1>2 DEF Pages

(* A tree in which nodes of T have become tombstones.                      *)
NodeBuried(c, T, n) == IF n \in T THEN [c.nodes[n] EXCEPT !.tomb = TRUE] ELSE c.nodes[n]
Buried(c, T) == [c EXCEPT !.nodes = [n \in DOMAIN c.nodes |-> NodeBuried(c, T, n)]]

(* The trim and the eviction, in these terms.                              *)
LEMMA BuriedFields ==
  ASSUME NEW c, Shape(c)
  PROVE  /\ \A T : Trimmed(c, T) = _free_swa(Buried(c, T), UNION {Pages(c, n) : n \in T})
         /\ \A n \in DOMAIN c.nodes : Tombstoned(c, n) = _free_swa(Buried(c, {n}), Pages(c, n))
<1>1. \A T : Trimmed(c, T) = _free_swa(Buried(c, T), UNION {Pages(c, n) : n \in T})
  BY DEF Trimmed, Buried, NodeBuried
<1>2. ASSUME NEW n \in DOMAIN c.nodes
      PROVE  Tombstoned(c, n) = _free_swa(Buried(c, {n}), Pages(c, n))
  <2> DEFINE f == [c.nodes EXCEPT ![n].tomb = TRUE]
             g == [m \in DOMAIN c.nodes |-> NodeBuried(c, {n}, m)]
  <2>1. c.nodes \in [DOMAIN c.nodes -> NodeType]
        /\ c = [nodes |-> c.nodes, kv |-> c.kv, free |-> c.free, live |-> c.live]
    BY DEF Shape
  <2>2. /\ f = [m \in DOMAIN c.nodes |-> f[m]] /\ \A m \in DOMAIN c.nodes : f[m] = NodeBuried(c, {n}, m)
    BY <2>1 DEF NodeBuried
  <2>3. g = [m \in DOMAIN c.nodes |-> g[m]] /\ \A m \in DOMAIN c.nodes : g[m] = NodeBuried(c, {n}, m)
    OBVIOUS
  <2>4. f = g
    <3> HIDE DEF f, g
    <3>1. QED
      BY <2>2, <2>3
  <2>5. [c EXCEPT !.nodes[n].tomb = TRUE] = [c EXCEPT !.nodes = f]
    BY <2>1
  <2>6. QED
    BY <2>4, <2>5 DEF Tombstoned, Buried
<1>3. QED
  BY <1>1, <1>2

(* Nodes that are no leaves and whose window nobody holds may become       *)
(* tombstones.                                                             *)
LEMMA BuriedTree ==
  ASSUME NEW c, NEW H, Tree(c, H), NEW T \in SUBSET DOMAIN c.nodes,
         \A n \in T : c.nodes[n].sref = 0 /\ ~is_leaf(c, n)
  PROVE  LET d == Buried(c, T)
         IN /\ Tree(d, H) /\ SamePages(c, d) /\ DOMAIN d.nodes = DOMAIN c.nodes
            /\ \A n \in DOMAIN c.nodes : d.nodes[n].tomb = (c.nodes[n].tomb \/ n \in T)
            /\ \A p, n : Lies(d, p, n) <=> Lies(c, p, n)
<1> DEFINE d == Buried(c, T)
<1>1. Shape(c) /\ Locks(c, H) /\ c.nodes \in [DOMAIN c.nodes -> NodeType]
      /\ c = [nodes |-> c.nodes, kv |-> c.kv, free |-> c.free, live |-> c.live]
  BY DEF Tree, Shape
<1>2. /\ d.nodes = [n \in DOMAIN c.nodes |-> NodeBuried(c, T, n)] /\ SamePages(c, d)
      /\ d = [nodes |-> d.nodes, kv |-> d.kv, free |-> d.free, live |-> d.live]
  <2> DEFINE N == [n \in DOMAIN c.nodes |-> NodeBuried(c, T, n)]
  <2>1. d = [c EXCEPT !.nodes = N]
    BY DEF Buried
  <2> HIDE DEF d, N
  <2>2. c = [nodes |-> c.nodes, kv |-> c.kv, free |-> c.free, live |-> c.live]
    BY <1>1
  <2>3. d.nodes = N /\ SamePages(c, d)
        /\ d = [nodes |-> d.nodes, kv |-> d.kv, free |-> d.free, live |-> d.live]
    BY ONLY <2>1, <2>2 DEF SamePages
  <2>4. QED
    BY <2>3 DEF N
<1> HIDE DEF d
<1>3. /\ DOMAIN d.nodes = DOMAIN c.nodes
      /\ \A n \in DOMAIN c.nodes :
           /\ d.nodes[n] \in NodeType /\ d.nodes[n].tomb = (c.nodes[n].tomb \/ n \in T)
           /\ d.nodes[n].uuid = c.nodes[n].uuid
           /\ d.nodes[n].ref = c.nodes[n].ref /\ d.nodes[n].sref = c.nodes[n].sref
  <2>1. DOMAIN d.nodes = DOMAIN c.nodes
    BY <1>2
  <2>2. ASSUME NEW n \in DOMAIN c.nodes
        PROVE  /\ d.nodes[n] \in NodeType /\ d.nodes[n].tomb = (c.nodes[n].tomb \/ n \in T)
               /\ d.nodes[n].uuid = c.nodes[n].uuid
               /\ d.nodes[n].ref = c.nodes[n].ref /\ d.nodes[n].sref = c.nodes[n].sref
    <3>1. d.nodes[n] = NodeBuried(c, T, n) /\ c.nodes[n] \in NodeType
      BY <1>1, <1>2
    <3>2. CASE n \in T
      <4>1. d.nodes[n] = [c.nodes[n] EXCEPT !.tomb = TRUE]
        BY <3>1, <3>2 DEF NodeBuried
      <4>2. QED
        BY <3>1, <3>2, <4>1 DEF NodeType
    <3>3. CASE n \notin T
      <4>1. d.nodes[n] = c.nodes[n] /\ c.nodes[n].tomb \in BOOLEAN
        BY <3>1, <3>3 DEF NodeBuried, NodeType
      <4>2. QED
        BY <3>1, <3>3, <4>1
    <3>4. QED
      BY <3>2, <3>3
  <2>3. QED
    BY <2>1, <2>2
<1>4. /\ \A x : Path(d, x) = Path(c, x) /\ \A n : is_leaf(d, n) <=> is_leaf(c, n)
  BY <1>3 DEF Path, is_leaf, Below
<1>5. \A p, n : Lies(d, p, n) <=> Lies(c, p, n)
  BY <1>3 DEF Lies
<1>6. Shape(d)
  <2>1. d.nodes \in [DOMAIN d.nodes -> NodeType]
    <3>1. d.nodes = [n \in DOMAIN d.nodes |-> d.nodes[n]]
      BY <1>2
    <3>2. QED
      BY <1>3, <3>1
  <2>2. QED
    BY <1>1, <1>2, <1>3, <1>5, <2>1 DEF Shape, SamePages
<1>7. \A h : /\ \A n : Holds(d, h, n) <=> Holds(c, h, n)
             /\ Anchored(d, h) <=> Anchored(c, h)
  <2> TAKE h
  <2>1. \A n : Holds(d, h, n) <=> Holds(c, h, n)
    BY <1>3, <1>4 DEF Holds, Path
  <2>2. QED
    BY <1>3, <1>4, <2>1 DEF Anchored, Path
<1>8. \A n : Holders(d, H, n) = Holders(c, H, n)
  BY <1>7 DEF Holders
<1>9. Locks(d, H)
  <2>1. \A n \in DOMAIN c.nodes : d.nodes[n].tomb => d.nodes[n].sref = 0
    BY <1>1, <1>3 DEF Locks
  <2>2. \A n \in DOMAIN c.nodes : is_leaf(d, n) => ~d.nodes[n].tomb
    BY <1>1, <1>3, <1>4 DEF Locks
  <2>3. QED
    BY <1>1, <1>3, <1>7, <1>8, <2>1, <2>2 DEF Locks
<1>10. QED
  BY <1>2, <1>3, <1>5, <1>6, <1>9 DEF Tree, d

(* Nodes become tombstones, and their pages leave the window pool.         *)
LEMMA BuriedFreed ==
  ASSUME NEW c, NEW H, Tree(c, H), NEW T \in SUBSET DOMAIN c.nodes,
         \A n \in T : c.nodes[n].sref = 0 /\ ~is_leaf(c, n), NEW P \in SUBSET Pool
  PROVE  LET d == _free_swa(Buried(c, T), P)
         IN Tree(d, H) /\ SameRead(c, d, H) /\ d.live \subseteq c.live /\ d.kv = c.kv
<1> DEFINE b == Buried(c, T)
           d == _free_swa(b, P)
<1>1. Tree(b, H) /\ SamePages(c, b)
  BY BuriedTree
<1> HIDE DEF b
<1>2. SameNodes(b, d) /\ d.live = b.live \ P
  BY <1>1, FreeFields DEF Tree
<1> HIDE DEF d
<1>3. Tree(d, H) /\ SameRead(b, d, H)
  BY <1>1, <1>2, PagesTree
<1>4. d.kv = c.kv /\ d.live \subseteq c.live
  BY <1>1, <1>2 DEF SamePages, SameNodes
<1>5. SameRead(c, d, H)
  BY <1>4, SameReads
<1>6. QED
  BY <1>3, <1>4, <1>5 DEF b, d

(* The trim of a head.                                                     *)
LEMMA TrimTree ==
  ASSUME NEW c0, NEW H, Tree(c0, H), NEW ids \in Toks
  PROVE  LET d == trim_head_swa(c0, ids)
         IN Tree(d, H) /\ SameRead(c0, d, H) /\ d.live \subseteq c0.live
<1>1. CASE ids = <<>>
  BY <1>1, SameReads DEF trim_head_swa
<1>2. CASE ids # <<>>
  <2> DEFINE c == Walked(c0, ids)
             T == Trimmable(c, ids)
             P == UNION {Pages(c, n) : n \in T}
  <2>1. Tree(c, H) /\ SamePages(c0, c)
    BY WalkedIs
  <2>2. trim_head_swa(c0, ids) = Trimmed(c, T)
    BY <1>2 DEF trim_head_swa
  <2> HIDE DEF c
  <2>3. T \in SUBSET DOMAIN c.nodes /\ \A n \in T : c.nodes[n].sref = 0 /\ ~is_leaf(c, n)
    BY DEF Trimmable, Path
  <2>4. P \in SUBSET Pool
    BY <2>1, <2>3, PagesIn DEF Tree
  <2>5. Trimmed(c, T) = _free_swa(Buried(c, T), P)
    BY <2>1, BuriedFields DEF Tree
  <2> HIDE DEF T, P
  <2> DEFINE d == Trimmed(c, T)
  <2>6. Tree(d, H) /\ SameRead(c, d, H) /\ d.live \subseteq c.live
    BY <2>1, <2>3, <2>4, <2>5, BuriedFreed
  <2> HIDE DEF d
  <2>7. SameRead(c0, d, H) /\ d.live \subseteq c0.live
    BY <2>1, <2>6, SameReads DEF SamePages
  <2>8. QED
    BY <2>2, <2>6, <2>7 DEF d
<1>3. QED
  BY <1>1, <1>2

-----------------------------------------------------------------------------
(* the eviction of a leaf *)

(* What goes with a leaf: the nodes and their prefixes.                    *)
Gones(c, n) == Cascade(c, n) \cup {n}
GonePrefixes(c, n) ==
    {p \in DOMAIN c.kv : \E m \in Gones(c, n) : IsPrefix(p, m) /\ Len(p) > Start(c, m)}

(* What an eviction changes.                                               *)
LEMMA UnlinkedFields ==
  ASSUME NEW c, Shape(c), NEW n \in DOMAIN c.nodes
  PROVE  LET d == Unlinked(c, n)
             S == Gones(c, n)
             gone == GonePrefixes(c, n)
         IN /\ d = [nodes |-> d.nodes, kv |-> d.kv, free |-> d.free, live |-> d.live]
            /\ d.nodes = [m \in DOMAIN c.nodes \ S |-> c.nodes[m]]
            /\ d.kv = [p \in DOMAIN c.kv \ gone |-> c.kv[p]]
            /\ d.free = c.free \cup {c.kv[p] : p \in gone}
            /\ d.live = c.live \ (IF c.nodes[n].tomb THEN {} ELSE Pages(c, n))
            /\ d.free \subseteq Pool /\ d.live \subseteq Pool
<1> DEFINE S == Gones(c, n)
           gone == GonePrefixes(c, n)
           L == IF c.nodes[n].tomb THEN {} ELSE Pages(c, n)
           P == {c.kv[p] : p \in gone}
           b == _free_swa(c, L)
           e == _free(b, P)
           d == Unlinked(c, n)
           N == [m \in DOMAIN e.nodes \ S |-> e.nodes[m]]
           K == [p \in DOMAIN e.kv \ gone |-> e.kv[p]]
<1>1. L \in SUBSET Pool /\ P \in SUBSET Pool
  <2>1. c.kv \in [DOMAIN c.kv -> Pool] /\ gone \subseteq DOMAIN c.kv
    BY DEF Shape, GonePrefixes
  <2>2. Pages(c, n) \subseteq Pool
    BY PagesIn
  <2> HIDE DEF gone
  <2>3. QED
    BY <2>1, <2>2
<1>2. d = [e EXCEPT !.nodes = N, !.kv = K]
  BY DEF Unlinked, Gones, GonePrefixes
<1> HIDE DEF L, P, S, gone, d
<1>3. SameNodes(c, b) /\ b.live = c.live \ L /\ b.free = c.free
  BY <1>1, FreeFields
<1>4. b = [nodes |-> b.nodes, kv |-> b.kv, free |-> b.free, live |-> b.live]
      /\ b.nodes = c.nodes /\ b.kv = c.kv /\ b.free \subseteq Pool /\ b.live \subseteq Pool
  BY <1>3 DEF SameNodes
<1> HIDE DEF b
<1>5. /\ e.nodes = b.nodes /\ e.kv = b.kv /\ e.free = b.free \cup P /\ e.live = b.live
      /\ e = [nodes |-> e.nodes, kv |-> e.kv, free |-> e.free, live |-> e.live]
  BY ONLY <1>4 DEF _free
<1> HIDE DEF e
<1>6. /\ d.nodes = N /\ d.kv = K /\ d.free = e.free /\ d.live = e.live
      /\ d = [nodes |-> d.nodes, kv |-> d.kv, free |-> d.free, live |-> d.live]
  <2>1. e = [nodes |-> e.nodes, kv |-> e.kv, free |-> e.free, live |-> e.live]
    BY <1>5
  <2> HIDE DEF N, K
  <2>2. QED
    BY ONLY <1>2, <2>1
<1>7. /\ N = [m \in DOMAIN c.nodes \ S |-> c.nodes[m]]
      /\ K = [p \in DOMAIN c.kv \ gone |-> c.kv[p]]
  BY <1>4, <1>5
<1> HIDE DEF N, K
<1>8. QED
  BY <1>1, <1>3, <1>4, <1>5, <1>6, <1>7 DEF S, gone, L, P, d

(* Who goes with a leaf: unlocked tombstones above it, with nothing else   *)
(* below them.                                                             *)
LEMMA CascadeIs ==
  ASSUME NEW c, Shape(c), NEW n \in DOMAIN c.nodes, NEW m \in Cascade(c, n)
  PROVE  /\ m \in DOMAIN c.nodes /\ m # n /\ IsPrefix(m, n)
         /\ c.nodes[m].ref = 0 /\ c.nodes[m].tomb /\ Below(c, m) \subseteq Path(c, n)
         /\ \A q \in Path(c, n) \ {n} : IsPrefix(m, q) => q \in Cascade(c, n)
<1>1. /\ m \in Path(c, n) \ {n} /\ m \in DOMAIN c.nodes /\ IsPrefix(m, n)
      /\ \A q \in Path(c, n) \ {n} : IsPrefix(m, q) =>
          c.nodes[q].tomb /\ c.nodes[q].ref = 0 /\ Below(c, q) \subseteq Path(c, n)
  BY DEF Cascade, Path
<1>2. \A q \in Path(c, n) : q \in Toks /\ m \in Toks
  BY <1>1, TreeToks DEF Path
<1>3. IsPrefix(m, m)
  BY <1>1, <1>2, PrefixOrder
<1>4. ASSUME NEW q \in Path(c, n) \ {n}, IsPrefix(m, q)
      PROVE  q \in Cascade(c, n)
  <2>1. \A x \in Path(c, n) : IsPrefix(q, x) => IsPrefix(m, x)
    BY <1>2, <1>4, PrefixOrder
  <2>2. QED
    BY <1>1, <1>4, <2>1 DEF Cascade
<1>5. QED
  BY <1>1, <1>3, <1>4

(* What lies elsewhere stays, and what lies in them goes.                  *)
LEMMA UnlinkedLies ==
  ASSUME NEW c, Shape(c), NEW n \in DOMAIN c.nodes, is_leaf(c, n)
  PROVE  LET d == Unlinked(c, n)
             S == Gones(c, n)
         IN /\ \A p \in DOMAIN c.kv : p \in GonePrefixes(c, n) <=> \E m \in S : Lies(c, p, m)
            /\ \A p \in DOMAIN c.kv \ GonePrefixes(c, n) : \A m : Lies(c, p, m) => Lies(d, p, m)
            /\ \A p \in GonePrefixes(c, n) : \A m \in DOMAIN c.nodes \ S : ~IsPrefix(p, m)
<1> DEFINE d == Unlinked(c, n)
           S == Gones(c, n)
           gone == GonePrefixes(c, n)
<1>1. DOMAIN d.nodes = DOMAIN c.nodes \ S
  <2>1. d.nodes = [m \in DOMAIN c.nodes \ S |-> c.nodes[m]]
    BY UnlinkedFields
  <2> HIDE DEF d, S
  <2>2. QED
    BY <2>1
<1>2. S \subseteq DOMAIN c.nodes /\ \A m \in S : m = n \/ m \in Cascade(c, n)
  BY CascadeIs DEF Gones
<1>3. ASSUME NEW p \in DOMAIN c.kv
      PROVE  p \in gone <=> \E m \in S : Lies(c, p, m)
  <2>1. p \in Toks \ {Root}
    BY TreeToks
  <2>2. \A m \in S : Lies(c, p, m) <=> IsPrefix(p, m) /\ Len(p) > Start(c, m)
    BY <1>2, <2>1, CellLies
  <2>3. QED
    BY <2>2 DEF GonePrefixes
<1> HIDE DEF d, S, gone
<1>4. ASSUME NEW p \in DOMAIN c.kv \ gone, NEW m, Lies(c, p, m)
      PROVE  Lies(d, p, m)
  <2>1. m \notin S
    BY <1>3, <1>4
  <2>2. QED
    BY <1>1, <1>4, <2>1 DEF Lies
<1>5. ASSUME NEW p \in gone, NEW m \in DOMAIN c.nodes \ S, IsPrefix(p, m)
      PROVE  FALSE
  <2>1. p \in DOMAIN c.kv
    BY DEF gone, GonePrefixes
  <2>2. PICK x \in S : Lies(c, p, x)
    BY <1>3, <2>1
  <2>3. IsPrefix(x, m) /\ x # m /\ m \in Below(c, x)
    BY <1>5, <2>2 DEF Lies, Below
  <2>4. x # n
    BY <2>3 DEF is_leaf
  <2>5. x \in Cascade(c, n)
    BY <1>2, <2>4
  <2>6. m \in Path(c, n)
    BY <2>3, <2>5, CascadeIs
  <2>7. m # n /\ m \notin Cascade(c, n)
    BY <1>5 DEF S, Gones
  <2>8. QED
    BY <2>3, <2>5, <2>6, <2>7, CascadeIs
<1>6. QED
  BY <1>3, <1>4, <1>5 DEF d, S, gone

(* The eviction of a leaf leaves a tree, its handles and what they read.   *)
LEMMA UnlinkedTree ==
  ASSUME NEW c, NEW H, Tree(c, H), NEW n \in Leaves(c)
  PROVE  LET d == Unlinked(c, n)
         IN Tree(d, H) /\ SameRead(c, d, H) /\ d.live \subseteq c.live
<1> DEFINE d == Unlinked(c, n)
           S == Gones(c, n)
           gone == GonePrefixes(c, n)
<1>1. /\ Shape(c) /\ Locks(c, H) /\ n \in DOMAIN c.nodes /\ c.nodes[n].ref = 0 /\ is_leaf(c, n)
      /\ \A m \in DOMAIN c.nodes : m \in Toks /\ m # Root /\ Len(m) \in Nat
      /\ \A m \in DOMAIN c.nodes : c.nodes[m].tomb => c.nodes[m].sref = 0
      /\ \A m \in DOMAIN c.nodes : is_leaf(c, m) => ~c.nodes[m].tomb
  BY TreeToks, PrefixOrder DEF Leaves, full_evictable, Tree, Locks
<1>2. /\ d = [nodes |-> d.nodes, kv |-> d.kv, free |-> d.free, live |-> d.live]
      /\ d.nodes = [m \in DOMAIN c.nodes \ S |-> c.nodes[m]]
      /\ d.kv = [p \in DOMAIN c.kv \ gone |-> c.kv[p]]
      /\ d.live \subseteq c.live
      /\ d.free \subseteq Pool /\ d.live \subseteq Pool
  <2>1. /\ d = [nodes |-> d.nodes, kv |-> d.kv, free |-> d.free, live |-> d.live]
        /\ d.nodes = [m \in DOMAIN c.nodes \ S |-> c.nodes[m]]
        /\ d.kv = [p \in DOMAIN c.kv \ gone |-> c.kv[p]]
        /\ d.live = c.live \ (IF c.nodes[n].tomb THEN {} ELSE Pages(c, n))
        /\ d.free \subseteq Pool /\ d.live \subseteq Pool
    <3>1. Shape(c) /\ n \in DOMAIN c.nodes
      BY <1>1
    <3>2. QED
      BY <3>1, UnlinkedFields
  <2> HIDE DEF d, S, gone
  <2>2. QED
    BY <2>1
<1>3. /\ S \subseteq DOMAIN c.nodes /\ n \in S
      /\ \A m \in S : c.nodes[m].ref = 0
      /\ \A m \in S : m = n \/ m \in Cascade(c, n)
  BY <1>1, CascadeIs DEF Gones
<1>4. /\ \A p \in DOMAIN c.kv : p \in gone <=> \E m \in S : Lies(c, p, m)
      /\ \A p \in DOMAIN c.kv \ gone : \A m : Lies(c, p, m) => Lies(d, p, m)
      /\ \A p \in gone : \A m \in DOMAIN c.nodes \ S : ~IsPrefix(p, m)
  BY <1>1, UnlinkedLies
<1> HIDE DEF d, gone
<1>5. /\ DOMAIN d.nodes = DOMAIN c.nodes \ S /\ \A m \in DOMAIN d.nodes : d.nodes[m] = c.nodes[m]
      /\ DOMAIN d.kv = DOMAIN c.kv \ gone /\ \A p \in DOMAIN d.kv : d.kv[p] = c.kv[p]
  <2> HIDE DEF S
  <2>1. QED
    BY <1>2
<1> HIDE DEF S
<1>6. Shape(d)
  <2>1. /\ IsFiniteSet(DOMAIN c.nodes) /\ DOMAIN c.nodes \subseteq Toks \ {Root}
        /\ c.nodes \in [DOMAIN c.nodes -> NodeType] /\ c.kv \in [DOMAIN c.kv -> Pool]
        /\ \A p : p \in DOMAIN c.kv <=> /\ p \in Toks \ {Root}
                                        /\ \E x \in DOMAIN c.nodes : IsPrefix(p, x)
        /\ \A p \in DOMAIN c.kv : \E x : Lies(c, p, x)
        /\ \A x, y \in DOMAIN c.nodes :
             c.nodes[x].uuid = c.nodes[y].uuid /\ c.nodes[x].uuid # 0 => x = y
    BY <1>1 DEF Shape
  <2>2. IsFiniteSet(DOMAIN d.nodes)
    BY <1>5, <2>1, FS_Subset
  <2>3. d.nodes \in [DOMAIN d.nodes -> NodeType] /\ d.kv \in [DOMAIN d.kv -> Pool]
    <3>1. d.nodes = [m \in DOMAIN d.nodes |-> d.nodes[m]] /\ d.kv = [p \in DOMAIN d.kv |-> d.kv[p]]
      BY <1>2
    <3>2. \A m \in DOMAIN d.nodes : d.nodes[m] \in NodeType
      BY <1>5, <2>1
    <3>3. \A p \in DOMAIN d.kv : d.kv[p] \in Pool
      BY <1>5, <2>1
    <3>4. QED
      BY <3>1, <3>2, <3>3
  <2>4. \A p \in DOMAIN d.kv : \E x : Lies(d, p, x)
    BY <1>4, <1>5, <2>1
  <2>5. \A p : p \in DOMAIN d.kv <=> /\ p \in Toks \ {Root}
                                     /\ \E x \in DOMAIN d.nodes : IsPrefix(p, x)
    <3> TAKE p
    <3>1. ASSUME p \in DOMAIN d.kv
          PROVE  p \in Toks \ {Root} /\ \E x \in DOMAIN d.nodes : IsPrefix(p, x)
      BY <1>5, <2>1, <2>4, <3>1 DEF Lies
    <3>2. ASSUME p \in Toks \ {Root}, NEW x \in DOMAIN d.nodes, IsPrefix(p, x)
          PROVE  p \in DOMAIN d.kv
      BY <1>4, <1>5, <2>1, <3>2
    <3>3. QED
      BY <3>1, <3>2
  <2>6. QED
    BY <1>2, <1>5, <2>1, <2>2, <2>3, <2>4, <2>5 DEF Shape
<1>7. ASSUME NEW s \in DOMAIN H
      PROVE  /\ Anchored(c, H[s]) /\ Path(d, H[s].at) = Path(c, H[s].at)
             /\ H[s].at \in Toks
             /\ H[s].at = Root \/ (H[s].at \in DOMAIN d.nodes /\ H[s].at \in DOMAIN c.nodes)
             /\ \A m \in S : ~IsPrefix(m, H[s].at)
  <2>1. Anchored(c, H[s])
    BY <1>1 DEF Locks
  <2>2. H[s].at \in Toks /\ (H[s].at = Root \/ H[s].at \in DOMAIN c.nodes)
    BY <2>1 DEF Anchored
  <2>3. \A m \in S : ~IsPrefix(m, H[s].at)
    BY <1>3, NoReader
  <2>4. Path(d, H[s].at) = Path(c, H[s].at)
    BY <1>5, <2>3 DEF Path
  <2>5. IsPrefix(H[s].at, H[s].at)
    BY <2>2, PrefixOrder
  <2>6. QED
    BY <1>5, <2>1, <2>2, <2>3, <2>4, <2>5
<1>8. ASSUME NEW s \in DOMAIN H
      PROVE  (\A x : Holds(d, H[s], x) <=> Holds(c, H[s], x)) /\ Anchored(d, H[s])
  <2>1. \A x \in Path(c, H[s].at) : x \in DOMAIN d.nodes
    BY <1>7 DEF Path
  <2>2. \A x : Holds(d, H[s], x) <=> Holds(c, H[s], x)
    BY <1>5, <1>7, <2>1 DEF Holds
  <2>3. H[s].uuid # 0 => \E a \in Path(d, H[s].at) : d.nodes[a].uuid = H[s].uuid
    BY <1>5, <1>7, <2>1 DEF Anchored
  <2>4. QED
    BY <1>5, <1>7, <2>2, <2>3 DEF Anchored
(* a tombstone that is laid bare goes too *)
<1>9. ASSUME NEW x \in DOMAIN d.nodes, is_leaf(d, x), d.nodes[x].tomb
      PROVE  FALSE
  <2>1. x \in DOMAIN c.nodes /\ x \notin S /\ c.nodes[x].tomb /\ x \in Toks
    BY <1>1, <1>5, <1>9
  <2>2. Below(c, x) # {} /\ Below(c, x) \subseteq S
    <3>1. Below(c, x) # {}
      BY <1>1, <2>1 DEF is_leaf
    <3>2. Below(d, x) = {}
      BY <1>9 DEF is_leaf
    <3>3. QED
      BY <1>5, <3>1, <3>2 DEF Below
  <2>3. PICK y \in S : y \in Below(c, x)
    BY <2>2
  <2>4. y \in DOMAIN c.nodes /\ IsPrefix(x, y) /\ IsPrefix(y, n) /\ y \in Toks /\ n \in Toks
    BY <1>1, <1>3, <2>3, CascadeIs, PrefixOrder DEF Below
  <2>5. IsPrefix(x, n) /\ x # n /\ x \in Path(c, n) \ {n}
    BY <1>3, <2>1, <2>4, PrefixOrder DEF Path
  <2>6. S \subseteq Path(c, n)
    BY <1>1, <1>3, CascadeIs, PrefixOrder DEF Path
  <2>7. c.nodes[x].ref = 0
    <3>1. SUFFICES ASSUME c.nodes[x].ref # 0 PROVE FALSE
      OBVIOUS
    <3>2. PICK s \in DOMAIN H : IsPrefix(x, H[s].at)
      <4>1. c.nodes[x].ref = Cardinality(Readers(H, x))
        BY <1>1, <2>1 DEF Locks
      <4>2. Readers(H, x) # {}
        BY <3>1, <4>1, FS_EmptySet
      <4>3. QED
        BY <4>2 DEF Readers
    <3>3. H[s].at # Root /\ H[s].at \in Toks
      BY <1>1, <1>7, <2>1, <3>2, PrefixOrder
    <3>4. H[s].at \in DOMAIN c.nodes /\ H[s].at \notin S
      BY <1>5, <1>7, <3>3
    <3>5. H[s].at = x
      BY <2>2, <3>2, <3>4 DEF Below
    <3>6. Holds(c, H[s], x)
      <4>1. Len(x) \in Nat /\ Window \in Nat /\ Window > 0
        BY <1>1, <2>1, SwaConstants
      <4>2. x \in Path(c, H[s].at)
        BY <2>1, <3>2 DEF Path
      <4>3. Len(x) > Len(H[s].at) - Window
        BY <3>5, <4>1
      <4>4. QED
        BY <1>7, <4>2, <4>3 DEF Anchored
    <3>7. c.nodes[x].sref = 0
      BY <1>1, <2>1
    <3>8. QED
      BY <2>1, <3>6, <3>7, NoReader
  <2>8. x \in Cascade(c, n)
    <3>1. ASSUME NEW q \in Path(c, n) \ {n}, IsPrefix(x, q)
          PROVE  c.nodes[q].tomb /\ c.nodes[q].ref = 0 /\ Below(c, q) \subseteq Path(c, n)
      <4>1. CASE q = x
        BY <2>1, <2>2, <2>6, <2>7, <4>1
      <4>2. CASE q # x
        <5>1. q \in Below(c, x)
          BY <3>1, <4>2 DEF Below, Path
        <5>2. q \in Cascade(c, n)
          BY <1>3, <2>2, <3>1, <5>1
        <5>3. QED
          BY <1>1, <5>2, CascadeIs
      <4>3. QED
        BY <4>1, <4>2
    <3>2. QED
      BY <2>5, <3>1 DEF Cascade
  <2>9. QED
    BY <2>1, <2>8 DEF S, Gones
<1>10. Locks(d, H)
  <2>1. \A m : Holders(d, H, m) = Holders(c, H, m)
    BY <1>8 DEF Holders
  <2>2. \A m \in DOMAIN c.nodes : /\ c.nodes[m].ref = Cardinality(Readers(H, m))
                                  /\ c.nodes[m].sref = Cardinality(Holders(c, H, m))
    BY <1>1 DEF Locks
  <2>3. IsFiniteSet(DOMAIN H)
    BY <1>1 DEF Locks
  <2>4. QED
    BY <1>1, <1>5, <1>8, <1>9, <2>1, <2>2, <2>3 DEF Locks
<1>11. SameRead(c, d, H)
  <2>1. SUFFICES ASSUME NEW s \in DOMAIN H, NEW p \in DOMAIN c.kv, IsPrefix(p, H[s].at)
                 PROVE  p \notin gone
    BY <1>5 DEF SameRead
  <2>2. SUFFICES ASSUME NEW m \in S, Lies(c, p, m) PROVE FALSE
    BY <1>4
  <2>3. IsPrefix(m, H[s].at)
    BY <2>1, <2>2, ReadLies
  <2>4. QED
    BY <1>7, <2>3
<1>12. QED
  BY <1>2, <1>6, <1>10, <1>11 DEF Tree, d

(* A node whose window nobody holds is no leaf, or a free one.             *)
LEMMA NoLeaf ==
  ASSUME NEW c, NEW H, Tree(c, H), NEW n \in swa_evictable(c), n \notin Leaves(c)
  PROVE  n \in DOMAIN c.nodes /\ c.nodes[n].sref = 0 /\ ~is_leaf(c, n)
<1>1. n \in DOMAIN c.nodes /\ c.nodes[n].sref = 0 /\ Shape(c) /\ n \in Toks /\ n # Root
      /\ Len(n) \in Nat
  BY TreeToks, PrefixOrder DEF swa_evictable, Tree
<1>2. SUFFICES ASSUME is_leaf(c, n), c.nodes[n].ref # 0 PROVE FALSE
  BY <1>1 DEF Leaves, full_evictable
<1>3. PICK s \in DOMAIN H : IsPrefix(n, H[s].at)
  <2>1. c.nodes[n].ref = Cardinality(Readers(H, n))
    BY <1>1 DEF Locks, Tree
  <2>2. Readers(H, n) # {}
    BY <1>2, <2>1, FS_EmptySet
  <2>3. QED
    BY <2>2 DEF Readers
<1>4. Anchored(c, H[s]) /\ H[s].at \in Toks /\ (H[s].at = Root \/ H[s].at \in DOMAIN c.nodes)
  BY DEF Tree, Locks, Anchored
<1>5. H[s].at = n
  BY <1>1, <1>2, <1>3, <1>4, PrefixOrder DEF is_leaf, Below
<1>6. Holds(c, H[s], n)
  <2>1. Window \in Nat /\ Window > 0
    BY SwaConstants
  <2>2. n \in Path(c, H[s].at) /\ Len(n) > Len(H[s].at) - Window
    BY <1>1, <1>3, <1>5, <2>1 DEF Path
  <2>3. QED
    BY <1>4, <2>2 DEF Anchored
<1>7. QED
  BY <1>1, <1>6, NoReader

(* The eviction of a window: a free leaf goes, any other node becomes a    *)
(* tombstone.                                                              *)
LEMMA SwaEvictTree ==
  ASSUME NEW c, NEW H, Tree(c, H), NEW n \in swa_evictable(c), n \notin Leaves(c)
  PROVE  LET d == Tombstoned(c, n)
         IN Tree(d, H) /\ SameRead(c, d, H) /\ d.live \subseteq c.live
<1>1. n \in DOMAIN c.nodes /\ c.nodes[n].sref = 0 /\ ~is_leaf(c, n) /\ Shape(c)
  BY NoLeaf DEF Tree
<1>2. {n} \in SUBSET DOMAIN c.nodes /\ \A m \in {n} : c.nodes[m].sref = 0 /\ ~is_leaf(c, m)
  BY <1>1
<1>3. Tombstoned(c, n) = _free_swa(Buried(c, {n}), Pages(c, n)) /\ Pages(c, n) \in SUBSET Pool
  BY <1>1, BuriedFields, PagesIn
<1>4. QED
  BY <1>2, <1>3, BuriedFreed

-----------------------------------------------------------------------------
(* the end of a request and the commit of its prompt *)

(* The sizes are numbers.                                                  *)
LEMMA Sizes ==
  /\ Window \in Nat /\ Window > 0 /\ Gap \in Nat /\ NumReqs \in Nat /\ NumPages \in Nat
  /\ TokenBudget \in Nat /\ TokenBudget > 0 /\ MaxAborts \in Nat /\ NumSwa \in Nat
<1>1. /\ {NumReqs, Window, MaxRunning, TokenBudget, NumPages} \subseteq Nat \ {0}
      /\ {MaxAborts, Gap, NumSwa} \subseteq Nat
  BY SwaConstants
<1>2. QED
  BY ONLY <1>1

ReqType == [st : {"pending", "chunk", "decode", "done"}, ids : Toks, prompt : Nat, out : Nat,
            cached : Nat, row : Seq(Pool), hlen : Nat, uuid : Nat, evicted : Nat,
            stepped : BOOLEAN, aborted : BOOLEAN]

(* A request that ends takes its handle with it, and nothing that another  *)
(* one reads.                                                              *)
LEMMA FinishedTree ==
  ASSUME NEW c, NEW H, Tree(c, H), NEW r, NEW q \in ReqType, Request(q, H, r),
         Len(q.row) = q.cached
  PROVE  LET d == Finished(c, q)
         IN /\ Tree(d, Without(H, r)) /\ SameRead(c, d, Without(H, r))
            /\ d.live \subseteq c.live
<1> DEFINE G == Without(H, r)
           cached == Low(q.cached, Len(q.ids))
           prompt == UpTo(q.ids, Low(q.prompt, cached))
           rest == {q.row[i] : i \in cached + 1 .. Len(q.row)}
           head == UpTo(prompt, KeepFrom(Len(prompt)))
           e == Inserted(c, q, cached)
           f == _free_both(e, rest)
           g == trim_head_swa(f, head)
           d == Walked(g, prompt)
<1>1. /\ q.ids \in Toks /\ q.row \in Seq(Pool) /\ q.prompt \in Nat /\ q.cached \in Nat
      /\ Len(q.ids) \in Nat
  BY PrefixOrder DEF ReqType
<1>2. cached \in 0 .. Len(q.ids) /\ cached <= Len(q.row) /\ Low(q.prompt, cached) \in 0 .. Len(q.ids)
  BY <1>1 DEF Low
<1>3. prompt \in Toks /\ Len(prompt) \in Nat
  BY <1>1, <1>2, UpTos, PrefixOrder
<1>4. head \in Toks
  <2> HIDE DEF prompt
  <2>1. KeepFrom(Len(prompt)) \in 0 .. Len(prompt)
    BY <1>3, Sizes DEF KeepFrom, High
  <2>2. QED
    BY <1>3, <2>1, UpTos
<1>5. rest \in SUBSET Pool
  <2>1. \A i \in cached + 1 .. Len(q.row) : i \in 1 .. Len(q.row)
    BY <1>1, <1>2
  <2>2. QED
    BY <1>1, <2>1
<1>6. Finished(c, q) = d
  BY DEF Finished
<1> HIDE DEF cached, prompt, rest, head
<1>7. Tree(e, G) /\ SameRead(c, e, G) /\ e.live \subseteq c.live
  BY <1>2, InsertedTree
<1> HIDE DEF e, G
<1>8. SameNodes(e, f) /\ f.live = e.live \ rest
  BY <1>5, <1>7, FreeFields DEF Tree
<1> HIDE DEF f
<1>9. Tree(f, G) /\ SameRead(e, f, G)
  BY <1>7, <1>8, PagesTree
<1>10. Tree(g, G) /\ SameRead(f, g, G) /\ g.live \subseteq f.live
  BY <1>4, <1>9, TrimTree
<1> HIDE DEF g
<1>11. Tree(d, G) /\ SamePages(g, d)
  BY <1>3, <1>10, WalkedIs
<1> HIDE DEF d
<1>12. SameRead(g, d, G) /\ d.live = g.live
  BY <1>11, SameReads DEF SamePages
<1>13. SameRead(c, d, G)
  BY <1>7, <1>9, <1>10, <1>12, SameReads
<1>14. QED
  BY <1>6, <1>7, <1>8, <1>10, <1>11, <1>12, <1>13 DEF G

(* A request under a new handle.                                           *)
Rehandled(q, m, u, row) == [q EXCEPT !.hlen = m, !.uuid = u, !.row = row]
RowOver(c, q, ids, m) == [i \in DOMAIN q.row |-> IF i <= m THEN c.kv[UpTo(ids, i)] ELSE q.row[i]]

(* The match and its lock.                                                 *)
LEMMA RematchedFields ==
  ASSUME NEW c, NEW q, NEW ids
  PROVE  LET m == match_prefix(c, ids)
             k == inc_lock(c, UpTo(ids, m))
         IN /\ Rematched(c, q, ids).c = k.c
            /\ Rematched(c, q, ids).q = Rehandled(q, m, k.uuid, RowOver(c, q, ids, m))
  BY DEF Rematched, Rehandled, RowOver

(* A commit exchanges the request's handle for one at what matches now,    *)
(* whose pages its row takes over.                                         *)
LEMMA CommittedTree ==
  ASSUME NEW c, NEW H, Tree(c, H), NEW r \in Reqs, NEW q \in ReqType, Request(q, H, r),
         Len(q.row) = q.cached, q.cached <= Len(q.ids),
         \A s \in DOMAIN H : s \in Reqs /\ (s # r => H[s].uuid = reqs[s].uuid)
  PROVE  LET k == Committed(c, q)
             m == k.q.hlen
         IN /\ k.q = Rehandled(q, m, k.q.uuid, k.q.row)
            /\ m \in 0 .. q.cached /\ k.q.uuid \in Nat
            /\ k.q.row \in Seq(Pool) /\ Len(k.q.row) = q.cached
            /\ \A i \in 1 .. q.cached : i > m => k.q.row[i] = q.row[i]
            /\ \A i \in 1 .. m : /\ UpTo(q.ids, i) \in DOMAIN k.c.kv
                                 /\ k.c.kv[UpTo(q.ids, i)] = k.q.row[i]
            /\ Tree(k.c, With(Without(H, r), r, [at |-> UpTo(q.ids, m), uuid |-> k.q.uuid]))
            /\ SameRead(c, k.c, Without(H, r)) /\ k.c.live \subseteq c.live
<1> DEFINE G == Without(H, r)
           ids == UpTo(q.ids, q.cached)
           head == UpTo(ids, KeepFrom(q.cached))
           e == Inserted(c, q, q.cached)
           f == Walked(e, head)
           g == Walked(f, ids)
           m == match_prefix(g, ids)
           l == inc_lock(g, UpTo(ids, m))
           row == RowOver(g, q, ids, m)
           k == Committed(c, q)
<1>1. /\ q.ids \in Toks /\ q.row \in Seq(Pool) /\ q.cached \in Nat /\ Len(q.ids) \in Nat
      /\ q.cached \in 0 .. Len(q.ids) /\ Len(q.row) = q.cached /\ DOMAIN q.row = 1 .. q.cached
  BY PrefixOrder DEF ReqType
<1>2. ids \in Toks /\ Len(ids) = q.cached
  BY <1>1, UpTos
<1>3. \A i \in 0 .. q.cached : UpTo(ids, i) = UpTo(q.ids, i)
  BY <1>1, UpToUpTo
<1>4. head \in Toks
  <2> HIDE DEF ids
  <2>1. KeepFrom(q.cached) \in 0 .. q.cached
    <3>1. q.cached \in Nat
      BY <1>1
    <3>2. QED
      BY ONLY <3>1, Sizes DEF KeepFrom, High
  <2>2. QED
    BY <1>2, <2>1, UpTos
<1>5. k = Rematched(g, q, ids)
  BY DEF Committed
<1> HIDE DEF ids, head
<1>6. Tree(e, G) /\ SameRead(c, e, G) /\ e.live \subseteq c.live
  BY <1>1, InsertedTree
<1> HIDE DEF e, G
<1>7. Tree(f, G) /\ SamePages(e, f)
  BY <1>4, <1>6, WalkedIs
<1> HIDE DEF f
<1>8. Tree(g, G) /\ SamePages(f, g)
  BY <1>2, <1>7, WalkedIs
<1> HIDE DEF g
<1>9. k.c = l.c /\ k.q = Rehandled(q, m, l.uuid, row)
  <2> HIDE DEF k, m, l, row
  <2>1. Rematched(g, q, ids).c = l.c /\ Rematched(g, q, ids).q = Rehandled(q, m, l.uuid, row)
    BY RematchedFields DEF m, l, row
  <2>2. QED
    BY <1>5, <2>1
<1> HIDE DEF k
<1>10. /\ m \in 0 .. q.cached
       /\ UpTo(ids, m) = Root \/ (UpTo(ids, m) \in DOMAIN g.nodes /\ Usable(g, UpTo(ids, m)))
  <2>1. /\ m \in 0 .. Len(ids)
        /\ m # 0 => UpTo(ids, m) \in Path(g, ids) /\ Usable(g, UpTo(ids, m))
    BY <1>2, <1>8, MatchPrefixIs DEF Tree
  <2>2. m = 0 => UpTo(ids, m) = Root
    BY <1>2, <2>1, UpTos
  <2>3. QED
    BY <1>2, <2>1, <2>2 DEF Path
<1> HIDE DEF m
<1>11. /\ Tree(l.c, With(G, r, [at |-> UpTo(ids, m), uuid |-> l.uuid])) /\ SamePages(g, l.c)
       /\ l.uuid \in Nat
  <2>1. r \notin DOMAIN G /\ \A s \in DOMAIN G : s \in Reqs /\ G[s].uuid = reqs[s].uuid
    BY DEF G, Without
  <2>2. QED
    BY <1>8, <1>10, <2>1, LockTaken
<1> HIDE DEF l
<1>12. \A i \in 1 .. m : UpTo(ids, i) \in DOMAIN g.kv /\ g.kv[UpTo(ids, i)] \in Pool
  <2> TAKE i \in 1 .. m
  <2>0. m # 0 /\ UpTo(ids, m) # Root /\ i \in 0 .. m /\ i # 0 /\ i \in 0 .. Len(ids) /\ m \in 0 .. Len(ids)
    <3>1. m # 0 /\ i \in 0 .. m /\ i # 0 /\ i \in 0 .. Len(ids) /\ m \in 0 .. Len(ids)
      BY <1>1, <1>2, <1>10
    <3>2. QED
      BY <1>2, <3>1, UpTos
  <2>1. UpTo(ids, m) \in DOMAIN g.nodes /\ Shape(g)
    BY <1>8, <1>10, <2>0 DEF Tree
  <2>2. /\ UpTo(ids, i) \in Toks /\ UpTo(ids, i) # Root /\ IsPrefix(UpTo(ids, i), UpTo(ids, m))
    BY <1>2, <2>0, UpTos, UpToUpTo
  <2>3. UpTo(ids, i) \in DOMAIN g.kv
    BY <2>1, <2>2, TreeToks
  <2>4. g.kv \in [DOMAIN g.kv -> Pool]
    BY <2>1 DEF Shape
  <2>5. QED
    BY <2>3, <2>4
<1>13. /\ row \in Seq(Pool) /\ Len(row) = q.cached
       /\ \A i \in 1 .. m : row[i] = g.kv[UpTo(ids, i)]
       /\ \A i \in 1 .. q.cached : i > m => row[i] = q.row[i]
  <2>1. row = [i \in 1 .. q.cached |-> row[i]]
        /\ \A i \in 1 .. q.cached : row[i] = IF i <= m THEN g.kv[UpTo(ids, i)] ELSE q.row[i]
    BY <1>1 DEF RowOver
  <2> HIDE DEF row
  <2>2. \A i \in 1 .. q.cached : row[i] \in Pool
    <3> TAKE i \in 1 .. q.cached
    <3>1. q.row[i] \in Pool
      BY <1>1
    <3>2. i <= m => i \in 1 .. m
      BY <1>1, <1>10
    <3>3. QED
      BY <1>12, <2>1, <3>1, <3>2
  <2>3. row \in [1 .. q.cached -> Pool]
    BY <2>1, <2>2
  <2>4. row \in Seq(Pool) /\ Len(row) = q.cached
    BY <1>1, <2>3
  <2>5. \A i \in 1 .. m : i \in 1 .. q.cached /\ i <= m
    BY <1>1, <1>10
  <2>6. \A i \in 1 .. q.cached : i > m => ~(i <= m)
    BY <1>1, <1>10
  <2>7. QED
    BY <2>1, <2>4, <2>5, <2>6
<1> HIDE DEF row
<1>14. k.q.hlen = m /\ k.q.uuid = l.uuid /\ k.q.row = row
  <2>1. m \in Nat
    BY <1>1, <1>10
  <2>2. l.uuid \in Nat /\ row \in Seq(Pool)
    BY <1>11, <1>13
  <2>3. q \in ReqType
    OBVIOUS
  <2>4. k.q = Rehandled(q, m, l.uuid, row)
    BY <1>9
  <2>5. QED
    BY ONLY <2>3, <2>4 DEF Rehandled, ReqType
<1>15. \A i \in 1 .. m : UpTo(q.ids, i) \in DOMAIN k.c.kv /\ k.c.kv[UpTo(q.ids, i)] = row[i]
  <2>1. \A i \in 1 .. m : i \in 0 .. q.cached
    BY <1>1, <1>10
  <2>2. k.c.kv = g.kv
    BY <1>9, <1>11 DEF SamePages
  <2>3. QED
    BY <1>3, <1>12, <1>13, <2>1, <2>2
<1>16. Tree(k.c, With(G, r, [at |-> UpTo(q.ids, m), uuid |-> l.uuid]))
  BY <1>3, <1>9, <1>10, <1>11
<1>17. SameRead(c, k.c, G) /\ k.c.live \subseteq c.live
  <2>1. e.kv = k.c.kv /\ e.live = k.c.live
    BY <1>7, <1>8, <1>9, <1>11 DEF SamePages
  <2>2. SameRead(e, k.c, G)
    BY <2>1, SameReads
  <2>3. QED
    BY <1>6, <2>1, <2>2, SameReads
<1>18. QED
  BY <1>9, <1>10, <1>11, <1>13, <1>14, <1>15, <1>16, <1>17 DEF k, G

-----------------------------------------------------------------------------
(* the invariant *)

(* The handles: one for each running request.                              *)
Handles ==
    [r \in {s \in Reqs : Alive(s)} |->
       [at |-> UpTo(reqs[r].ids, reqs[r].hlen), uuid |-> reqs[r].uuid]]

(* The tree has the locks of the handles, every row reads what it locked,  *)
(* and the window pool is not overdrawn.                                   *)
TreeInv == Tree(tree, Handles) /\ RowsBacked /\ Cardinality(tree.live) <= NumSwa

(* The forwards of a request that will bring a token.                      *)
Brings(r, i) ==
    IF i <= Len(inflight) /\ inflight[i].r = r /\ inflight[i].kind # "chunk" THEN 1 ELSE 0
Bringing(r) == Brings(r, 1) + Brings(r, 2)

(* What a request has, by the state that it is in.                         *)
ReqInv(r) ==
    /\ Len(reqs[r].row) = reqs[r].cached
    /\ reqs[r].hlen <= reqs[r].cached /\ reqs[r].hlen <= Len(reqs[r].ids)
    /\ reqs[r].aborted => reqs[r].st \in {"chunk", "decode"}
    /\ reqs[r].st = "pending" =>
         /\ reqs[r].cached = 0 /\ reqs[r].prompt = Len(reqs[r].ids) /\ reqs[r].prompt > 0
         /\ reqs[r].evicted = 0
         /\ ~Flying(r) /\ alloc.r # r
    /\ reqs[r].st = "chunk" =>
         /\ reqs[r].cached + (IF alloc.r = r THEN alloc.n ELSE 0) < Len(reqs[r].ids)
         /\ reqs[r].prompt = Len(reqs[r].ids) /\ Bringing(r) = 0
    /\ reqs[r].st = "decode" =>
         reqs[r].cached + (IF alloc.r = r THEN alloc.n - 1 ELSE 0)
           = Len(reqs[r].ids) - 1 + Bringing(r)

(* What is being allocated, and what is in flight.                         *)
Kinds == {"chunk", "prefill", "decode"}
Flights == [r : Reqs, kind : Kinds]
LoopInv ==
    /\ inflight \in Seq(Flights) /\ Len(inflight) <= 2
    /\ \/ alloc = Idle
       \/ /\ alloc \in [r : Reqs, n : Nat \ {0}, kind : Kinds] /\ Len(inflight) <= 1
          /\ reqs[alloc.r].st = IF alloc.kind = "chunk" THEN "chunk" ELSE "decode"
    /\ aborts \in 0 .. MaxAborts

SwaInv == TreeInv /\ reqs \in [Reqs -> ReqType] /\ (\A r \in Reqs : ReqInv(r)) /\ LoopInv

(* A token more at the end of a sequence.                                  *)
LEMMA AppendUpTo ==
  ASSUME NEW s \in Toks, NEW t \in Nat
  PROVE  /\ Append(s, t) \in Toks /\ Len(Append(s, t)) = Len(s) + 1
         /\ \A i \in 0 .. Len(s) : UpTo(Append(s, t), i) = UpTo(s, i)
  BY DEF Toks, UpTo

(* Who has a handle, and which.                                            *)
LEMMA HandlesAre ==
  /\ \A r : r \in DOMAIN Handles <=> r \in Reqs /\ Alive(r)
  /\ \A r \in DOMAIN Handles : /\ Handles[r] = [at |-> UpTo(reqs[r].ids, reqs[r].hlen),
                                                uuid |-> reqs[r].uuid]
                               /\ Handles[r].at = UpTo(reqs[r].ids, reqs[r].hlen)
                               /\ Handles[r].uuid = reqs[r].uuid
  /\ IsFiniteSet(Reqs) /\ Handles = [r \in DOMAIN Handles |-> Handles[r]]
<1>1. IsFiniteSet(Reqs)
  BY Sizes, FS_Interval DEF Reqs
<1>2. QED
  BY <1>1 DEF Handles

(* A running request is a request with its handle.                         *)
LEMMA RunningRequest ==
  ASSUME SwaInv, NEW r \in Reqs, Alive(r)
  PROVE  Request(reqs[r], Handles, r)
<1>1. reqs[r] \in ReqType /\ reqs[r].hlen <= Len(reqs[r].ids)
  BY DEF SwaInv, ReqInv
<1>2. /\ reqs[r].ids \in Toks /\ reqs[r].row \in Seq(Pool) /\ reqs[r].evicted \in Nat
      /\ reqs[r].hlen \in Nat /\ Len(reqs[r].ids) \in Nat
  BY <1>1, PrefixOrder DEF ReqType
<1>3. QED
  BY <1>1, <1>2, HandlesAre DEF Request

(* A step that leaves the requests alone keeps what the trees agree on.    *)
LEMMA TreeStays ==
  ASSUME SwaInv, reqs' = reqs, Tree(tree', Handles), SameRead(tree, tree', Handles),
         Cardinality(tree'.live) <= NumSwa
  PROVE  TreeInv'
<1>1. Handles' = Handles
  BY DEF Handles, Alive
<1>2. ASSUME NEW r \in Reqs, Alive(r), NEW i \in 1 .. reqs[r].hlen
      PROVE  LET p == UpTo(reqs[r].ids, i)
             IN p \in DOMAIN tree'.kv /\ tree'.kv[p] = reqs[r].row[i]
  <2>1. Request(reqs[r], Handles, r)
    BY <1>2, RunningRequest
  <2>2. /\ reqs[r].ids \in Toks /\ reqs[r].hlen \in 0 .. Len(reqs[r].ids)
        /\ r \in DOMAIN Handles /\ Handles[r].at = UpTo(reqs[r].ids, reqs[r].hlen)
    BY <2>1, HandlesAre DEF Request
  <2>3. UpTo(reqs[r].ids, i) \in DOMAIN tree.kv /\ tree.kv[UpTo(reqs[r].ids, i)] = reqs[r].row[i]
    BY <1>2 DEF SwaInv, TreeInv, RowsBacked
  <2>4. i \in 0 .. reqs[r].hlen
    BY <2>2
  <2>5. IsPrefix(UpTo(reqs[r].ids, i), Handles[r].at)
    BY <2>2, <2>4, UpToUpTo
  <2>6. QED
    BY <2>2, <2>3, <2>5 DEF SameRead
<1>3. RowsBacked'
  BY <1>2 DEF RowsBacked, Alive
<1>4. QED
  BY <1>1, <1>3 DEF TreeInv

(* A step that changes one request keeps what the others read.             *)
LEMMA TreeChanges ==
  ASSUME SwaInv, NEW r \in Reqs, NEW q \in ReqType, reqs' = [reqs EXCEPT ![r] = q],
         IF q.st \in {"chunk", "decode"}
         THEN Tree(tree', With(Without(Handles, r), r, [at |-> UpTo(q.ids, q.hlen), uuid |-> q.uuid]))
         ELSE Tree(tree', Without(Handles, r)),
         SameRead(tree, tree', Without(Handles, r)),
         q.st \in {"chunk", "decode"} =>
           \A i \in 1 .. q.hlen : /\ UpTo(q.ids, i) \in DOMAIN tree'.kv
                                  /\ tree'.kv[UpTo(q.ids, i)] = q.row[i],
         Cardinality(tree'.live) <= NumSwa
  PROVE  TreeInv'
<1>1. reqs \in [Reqs -> ReqType]
  BY DEF SwaInv
<1>2. reqs'[r] = q /\ \A s \in Reqs : s # r => reqs'[s] = reqs[s]
  BY <1>1
<1>3. Handles' = IF q.st \in {"chunk", "decode"}
                 THEN With(Without(Handles, r), r, [at |-> UpTo(q.ids, q.hlen), uuid |-> q.uuid])
                 ELSE Without(Handles, r)
  <2> DEFINE h == [at |-> UpTo(q.ids, q.hlen), uuid |-> q.uuid]
             K == IF q.st \in {"chunk", "decode"} THEN With(Without(Handles, r), r, h)
                  ELSE Without(Handles, r)
  <2>1. /\ DOMAIN Handles' = {s \in Reqs : reqs'[s].st \in {"chunk", "decode"}}
        /\ \A s \in DOMAIN Handles' : Handles'[s] = [at |-> UpTo(reqs'[s].ids, reqs'[s].hlen),
                                                     uuid |-> reqs'[s].uuid]
        /\ Handles' = [s \in DOMAIN Handles' |-> Handles'[s]]
    BY DEF Handles, Alive
  <2>2. /\ DOMAIN Handles = {s \in Reqs : reqs[s].st \in {"chunk", "decode"}}
        /\ \A s \in DOMAIN Handles : Handles[s] = [at |-> UpTo(reqs[s].ids, reqs[s].hlen),
                                                   uuid |-> reqs[s].uuid]
    BY DEF Handles, Alive
  <2>3. CASE q.st \in {"chunk", "decode"}
    <3>1. /\ K = [s \in DOMAIN K |-> K[s]] /\ DOMAIN K = DOMAIN Handles \cup {r}
          /\ K[r] = h /\ \A s \in DOMAIN Handles \ {r} : K[s] = Handles[s]
      BY <2>3 DEF With, Without
    <3> HIDE DEF K
    <3>2. DOMAIN K = DOMAIN Handles'
      BY <1>2, <2>1, <2>2, <2>3, <3>1
    <3>3. ASSUME NEW s \in DOMAIN K
          PROVE  K[s] = Handles'[s]
      <4>1. Handles'[s] = [at |-> UpTo(reqs'[s].ids, reqs'[s].hlen), uuid |-> reqs'[s].uuid]
        BY <2>1, <3>2
      <4>2. CASE s = r
        BY <1>2, <3>1, <4>1, <4>2
      <4>3. CASE s # r
        <5>1. s \in DOMAIN Handles /\ s \in Reqs
          BY <2>2, <3>1, <4>3
        <5>2. reqs'[s] = reqs[s] /\ K[s] = Handles[s]
          BY <1>2, <3>1, <4>3, <5>1
        <5>3. QED
          BY <2>2, <4>1, <5>1, <5>2
      <4>4. QED
        BY <4>2, <4>3
    <3>4. K = Handles'
      BY <2>1, <3>1, <3>2, <3>3
    <3>5. QED
      BY <3>4 DEF K
  <2>4. CASE ~(q.st \in {"chunk", "decode"})
    <3>1. /\ K = [s \in DOMAIN K |-> K[s]] /\ DOMAIN K = DOMAIN Handles \ {r}
          /\ \A s \in DOMAIN K : K[s] = Handles[s]
      BY <2>4 DEF Without
    <3> HIDE DEF K
    <3>2. DOMAIN K = DOMAIN Handles'
      BY <1>2, <2>1, <2>2, <2>4, <3>1
    <3>3. ASSUME NEW s \in DOMAIN K
          PROVE  K[s] = Handles'[s]
      <4>1. Handles'[s] = [at |-> UpTo(reqs'[s].ids, reqs'[s].hlen), uuid |-> reqs'[s].uuid]
        BY <2>1, <3>2
      <4>2. s \in DOMAIN Handles /\ s \in Reqs /\ s # r
        BY <2>2, <3>1
      <4>3. reqs'[s] = reqs[s] /\ K[s] = Handles[s]
        BY <1>2, <3>1, <4>2
      <4>4. QED
        BY <2>2, <4>1, <4>2, <4>3
    <3>4. K = Handles'
      BY <2>1, <3>1, <3>2, <3>3
    <3>5. QED
      BY <3>4 DEF K
  <2>5. QED
    BY <2>3, <2>4
<1>4. ASSUME NEW s \in Reqs, reqs'[s].st \in {"chunk", "decode"}, NEW i \in 1 .. reqs'[s].hlen
      PROVE  LET p == UpTo(reqs'[s].ids, i)
             IN p \in DOMAIN tree'.kv /\ tree'.kv[p] = reqs'[s].row[i]
  <2>1. CASE s = r
    BY <1>2, <1>4, <2>1
  <2>2. CASE s # r
    <3>1. reqs'[s] = reqs[s] /\ Alive(s)
      BY <1>2, <1>4, <2>2 DEF Alive
    <3>2. Request(reqs[s], Handles, s)
      BY <3>1, RunningRequest
    <3>3. /\ reqs[s].ids \in Toks /\ reqs[s].hlen \in 0 .. Len(reqs[s].ids)
          /\ s \in DOMAIN Handles /\ Handles[s].at = UpTo(reqs[s].ids, reqs[s].hlen)
      BY <3>2, HandlesAre DEF Request
    <3>4. UpTo(reqs[s].ids, i) \in DOMAIN tree.kv /\ tree.kv[UpTo(reqs[s].ids, i)] = reqs[s].row[i]
      BY <1>4, <3>1 DEF SwaInv, TreeInv, RowsBacked
    <3>5. i \in 0 .. reqs[s].hlen
      BY <1>4, <3>1, <3>3
    <3>6. IsPrefix(UpTo(reqs[s].ids, i), Handles[s].at)
      BY <3>3, <3>5, UpToUpTo
    <3>7. s \in DOMAIN Without(Handles, r) /\ Without(Handles, r)[s] = Handles[s]
      BY <2>2, <3>3 DEF Without
    <3>8. QED
      BY <3>1, <3>4, <3>6, <3>7 DEF SameRead
  <2>3. QED
    BY <2>1, <2>2
<1>5. RowsBacked'
  BY <1>4 DEF RowsBacked, Alive
<1>6. Tree(tree', Handles')
  BY <1>3
<1>7. QED
  BY <1>5, <1>6 DEF TreeInv

-----------------------------------------------------------------------------
(* the requests and the loop *)

(* A launch adds one batch to those in flight.                             *)
LEMMA Launches ==
  ASSUME inflight \in Seq(Flights), Len(inflight) <= 1,
         NEW a \in Reqs, NEW k \in Kinds, inflight' = Append(inflight, [r |-> a, kind |-> k])
  PROVE  /\ inflight' \in Seq(Flights) /\ Len(inflight') <= 2
         /\ \A s : Bringing(s)' = Bringing(s) + (IF s = a /\ k # "chunk" THEN 1 ELSE 0)
         /\ \A s : Flying(s)' <=> Flying(s) \/ s = a
<1> DEFINE b == [r |-> a, kind |-> k]
<1>1. b \in Flights /\ b.r = a /\ b.kind = k /\ inflight' = Append(inflight, b)
  BY DEF Flights
<1> HIDE DEF b
<1>2. /\ Len(inflight) \in {0, 1} /\ Len(inflight') = Len(inflight) + 1
      /\ \A i \in 1 .. Len(inflight) : inflight'[i] = inflight[i]
      /\ inflight'[Len(inflight) + 1] = b
      /\ inflight' \in Seq(Flights)
      /\ DOMAIN inflight = 1 .. Len(inflight) /\ DOMAIN inflight' = 1 .. Len(inflight')
  <2>1. inflight \in Seq(Flights) /\ Len(inflight) <= 1
    OBVIOUS
  <2>2. Len(inflight) \in {0, 1} /\ DOMAIN inflight = 1 .. Len(inflight)
    <3>1. Len(inflight) \in Nat /\ DOMAIN inflight = 1 .. Len(inflight)
      BY <2>1
    <3>2. QED
      BY <2>1, <3>1
  <2>3. /\ inflight' \in Seq(Flights) /\ Len(inflight') = Len(inflight) + 1
        /\ DOMAIN inflight' = 1 .. Len(inflight')
    BY ONLY <1>1, <2>1
  <2>4. \A i \in 1 .. Len(inflight) : inflight'[i] = inflight[i]
    BY ONLY <1>1, <2>1
  <2>5. inflight'[Len(inflight) + 1] = b
    BY ONLY <1>1, <2>1
  <2>6. QED
    BY <2>1, <2>2, <2>3, <2>4, <2>5
<1>3. ASSUME NEW s
      PROVE  Bringing(s)' = Bringing(s) + (IF s = a /\ k # "chunk" THEN 1 ELSE 0)
  <2>1. CASE Len(inflight) = 0
    BY <1>1, <1>2, <2>1 DEF Bringing, Brings
  <2>2. CASE Len(inflight) = 1
    BY <1>1, <1>2, <2>2 DEF Bringing, Brings
  <2>3. QED
    BY <1>2, <2>1, <2>2
<1>4. ASSUME NEW s
      PROVE  Flying(s)' <=> Flying(s) \/ s = a
  <2>1. CASE Len(inflight) = 0
    BY <1>1, <1>2, <2>1 DEF Flying
  <2>2. CASE Len(inflight) = 1
    BY <1>1, <1>2, <2>2 DEF Flying
  <2>3. QED
    BY <1>2, <2>1, <2>2
<1>5. QED
  BY <1>2, <1>3, <1>4

(* A drain takes the oldest batch from them.                               *)
LEMMA DrainsIs ==
  ASSUME LoopInv, NEW a, NEW k, Drains(a, k)
  PROVE  /\ LoopInv' /\ a \in Reqs /\ alloc = Idle /\ alloc' = Idle
         /\ \A s : Bringing(s) = Bringing(s)' + (IF s = a /\ k # "chunk" THEN 1 ELSE 0)
         /\ \A s : Flying(s)' => Flying(s)
         /\ Flying(a) /\ \A s : Bringing(s)' \in {0, 1}
<1>1. /\ inflight \in Seq(Flights) /\ Len(inflight) <= 2 /\ inflight # <<>>
      /\ inflight' = Tail(inflight) /\ Head(inflight) = [r |-> a, kind |-> k]
      /\ alloc = Idle /\ alloc' = alloc /\ aborts' = aborts /\ aborts \in 0 .. MaxAborts
  BY DEF Drains, LoopInv
<1>2. /\ Len(inflight) \in {1, 2} /\ Len(inflight') = Len(inflight) - 1
      /\ inflight' \in Seq(Flights)
      /\ \A i \in 1 .. Len(inflight') : inflight'[i] = inflight[i + 1]
      /\ inflight[1] = [r |-> a, kind |-> k] /\ inflight[1] \in Flights
      /\ DOMAIN inflight = 1 .. Len(inflight) /\ DOMAIN inflight' = 1 .. Len(inflight')
  <2>1. inflight \in Seq(Flights) /\ Len(inflight) <= 2 /\ inflight # <<>>
        /\ inflight' = Tail(inflight) /\ Head(inflight) = [r |-> a, kind |-> k]
    BY <1>1
  <2>2. Len(inflight) \in {1, 2} /\ DOMAIN inflight = 1 .. Len(inflight)
    <3>1. /\ Len(inflight) \in Nat /\ DOMAIN inflight = 1 .. Len(inflight)
          /\ Len(inflight) # 0
      BY <2>1
    <3>2. QED
      BY <2>1, <3>1
  <2>3. /\ inflight' \in Seq(Flights) /\ Len(inflight') = Len(inflight) - 1
        /\ DOMAIN inflight' = 1 .. Len(inflight')
    BY ONLY <2>1
  <2>4. \A i \in 1 .. Len(inflight') : inflight'[i] = inflight[i + 1]
    BY ONLY <2>1
  <2>5. inflight[1] = Head(inflight) /\ inflight[1] \in Flights
    BY ONLY <2>1
  <2>6. QED
    BY <2>1, <2>2, <2>3, <2>4, <2>5
<1>3. inflight[1].r = a /\ inflight[1].kind = k /\ a \in Reqs
  BY <1>2 DEF Flights
<1>4. ASSUME NEW s
      PROVE  /\ Bringing(s) = Bringing(s)' + (IF s = a /\ k # "chunk" THEN 1 ELSE 0)
             /\ Flying(s)' => Flying(s)
             /\ Bringing(s)' \in {0, 1}
  <2>1. CASE Len(inflight) = 1
    BY <1>2, <1>3, <2>1 DEF Bringing, Brings, Flying
  <2>2. CASE Len(inflight) = 2
    <3>1. inflight'[1] = inflight[2] /\ Len(inflight') = 1
      BY <1>2, <2>2
    <3>2. Bringing(s) = Bringing(s)' + (IF s = a /\ k # "chunk" THEN 1 ELSE 0)
          /\ Bringing(s)' \in {0, 1}
      BY <1>2, <1>3, <2>2, <3>1 DEF Bringing, Brings
    <3>3. Flying(s)' => Flying(s)
      BY <1>2, <1>3, <2>2, <3>1 DEF Flying
    <3>4. QED
      BY <3>2, <3>3
  <2>3. QED
    BY <1>2, <2>1, <2>2
<1>5. Flying(a)
  BY <1>2, <1>3 DEF Flying
<1>6. LoopInv'
  BY <1>1, <1>2 DEF LoopInv
<1>7. QED
  BY <1>1, <1>3, <1>4, <1>5, <1>6

(* A step of one request leaves the others as they are.                    *)
LEMMA ReqsChange ==
  ASSUME SwaInv, NEW r \in Reqs, NEW q \in ReqType, reqs' = [reqs EXCEPT ![r] = q],
         \A s \in Reqs \ {r} : /\ Bringing(s)' = Bringing(s) /\ (Flying(s)' => Flying(s))
                               /\ alloc.r # s /\ alloc'.r # s,
         ReqInv(r)'
  PROVE  /\ reqs' \in [Reqs -> ReqType] /\ \A s \in Reqs : ReqInv(s)'
         /\ reqs'[r] = q /\ \A s \in Reqs \ {r} : reqs'[s] = reqs[s]
<1>1. reqs \in [Reqs -> ReqType] /\ \A s \in Reqs : ReqInv(s)
  BY DEF SwaInv
<1>2. reqs' \in [Reqs -> ReqType] /\ reqs'[r] = q /\ \A s \in Reqs : s # r => reqs'[s] = reqs[s]
  BY <1>1
<1>3. ASSUME NEW s \in Reqs, s # r
      PROVE  ReqInv(s)'
  <2>1. ReqInv(s) /\ reqs'[s] = reqs[s]
    BY <1>1, <1>2, <1>3
  <2>2. /\ Bringing(s)' = Bringing(s) /\ (Flying(s)' => Flying(s))
        /\ alloc.r # s /\ alloc'.r # s
    BY <1>3
  <2>3. QED
    BY <2>1, <2>2 DEF ReqInv
<1>4. QED
  BY <1>2, <1>3

(* What is left of a request that is gone.                                 *)
LEMMA GoneIs ==
  /\ Gone \in ReqType /\ Gone.st = "done" /\ Gone.aborted = FALSE
  /\ Len(Gone.row) = Gone.cached
  /\ Gone.hlen <= Gone.cached /\ Gone.hlen <= Len(Gone.ids)
<1>1. <<>> \in Toks /\ <<>> \in Seq(Pool) /\ Len(<<>>) = 0
  BY DEF Toks
<1>2. QED
  BY <1>1 DEF Gone, ReqType

-----------------------------------------------------------------------------
(* evictions, drains and aborts *)

(* A pool that shrinks stays within its bound.                             *)
LEMMA LiveShrinks ==
  ASSUME SwaInv, NEW L, L \subseteq tree.live
  PROVE  IsFiniteSet(L) /\ Cardinality(L) <= NumSwa
<1>1. tree.live \subseteq Pool /\ Cardinality(tree.live) <= NumSwa
  BY DEF SwaInv, TreeInv, Tree, Shape
<1>2. IsFiniteSet(Pool)
  BY Sizes, FS_Interval DEF Pool
<1>3. IsFiniteSet(tree.live)
  BY <1>1, <1>2, FS_Subset
<1>4. IsFiniteSet(L) /\ Cardinality(L) <= Cardinality(tree.live)
  BY <1>3, FS_Subset
<1>5. Cardinality(L) \in Nat /\ Cardinality(tree.live) \in Nat /\ NumSwa \in Nat
  BY <1>3, <1>4, FS_CardinalityType, Sizes
<1>6. QED
  BY <1>1, <1>4, <1>5

(* A step of the pools alone leaves the requests and the loop as they are. *)
LEMMA LoopStays ==
  ASSUME SwaInv, UNCHANGED <<reqs, inflight, alloc, aborts>>
  PROVE  reqs' \in [Reqs -> ReqType] /\ (\A r \in Reqs : ReqInv(r)') /\ LoopInv'
<1>1. reqs' = reqs /\ inflight' = inflight /\ alloc' = alloc /\ aborts' = aborts
  OBVIOUS
<1>2. ASSUME NEW r \in Reqs
      PROVE  ReqInv(r)'
  <2>1. Bringing(r)' = Bringing(r) /\ (Flying(r)' <=> Flying(r))
    BY <1>1 DEF Bringing, Brings, Flying
  <2>2. ReqInv(r)
    BY DEF SwaInv
  <2>3. QED
    BY <1>1, <2>1, <2>2 DEF ReqInv
<1>3. LoopInv'
  BY <1>1 DEF SwaInv, LoopInv
<1>4. QED
  BY <1>1, <1>2, <1>3 DEF SwaInv

(* An eviction for pages.                                                  *)
LEMMA EvictFullStep ==
  ASSUME SwaInv, NEW n \in DOMAIN tree.nodes, evict_full(n)
  PROVE  SwaInv'
<1>1. /\ n \in Leaves(tree) /\ tree' = Unlinked(tree, n)
      /\ UNCHANGED <<reqs, inflight, alloc, aborts>> /\ reqs' = reqs
  BY DEF evict_full
<1>2. Tree(tree, Handles)
  BY DEF SwaInv, TreeInv
<1>3. Tree(tree', Handles) /\ SameRead(tree, tree', Handles) /\ tree'.live \subseteq tree.live
  BY <1>1, <1>2, UnlinkedTree
<1>4. TreeInv'
  BY <1>1, <1>3, TreeStays, LiveShrinks
<1>5. QED
  BY <1>1, <1>4, LoopStays DEF SwaInv

(* An eviction for window slots.                                           *)
LEMMA EvictSwaStep ==
  ASSUME SwaInv, NEW n \in DOMAIN tree.nodes, evict_swa(n)
  PROVE  SwaInv'
<1>1. /\ n \in swa_evictable(tree)
      /\ tree' = IF n \in Leaves(tree) THEN Unlinked(tree, n) ELSE Tombstoned(tree, n)
      /\ UNCHANGED <<reqs, inflight, alloc, aborts>> /\ reqs' = reqs
  BY DEF evict_swa
<1>2. Tree(tree, Handles)
  BY DEF SwaInv, TreeInv
<1>3. Tree(tree', Handles) /\ SameRead(tree, tree', Handles) /\ tree'.live \subseteq tree.live
  <2>1. CASE n \in Leaves(tree)
    BY <1>1, <1>2, <2>1, UnlinkedTree
  <2>2. CASE n \notin Leaves(tree)
    BY <1>1, <1>2, <2>2, SwaEvictTree
  <2>3. QED
    BY <2>1, <2>2
<1>4. TreeInv'
  BY <1>1, <1>3, TreeStays, LiveShrinks
<1>5. QED
  BY <1>1, <1>4, LoopStays DEF SwaInv

(* The tree and the requests stay as they are, whatever else happens.      *)
LEMMA TreeUnchanged ==
  ASSUME SwaInv, tree' = tree, reqs' = reqs
  PROVE  TreeInv'
<1>1. Tree(tree, Handles) /\ Cardinality(tree.live) <= NumSwa
  BY DEF SwaInv, TreeInv
<1>2. SameRead(tree, tree, Handles)
  BY SameReads
<1>3. QED
  BY <1>1, <1>2, TreeStays

(* A request is freed: its handle goes.                                    *)
LEMMA FreeStep ==
  ASSUME SwaInv, NEW r \in Reqs, NEW q \in ReqType, Request(q, Handles, r),
         Len(q.row) = q.cached, Free(r, q)
  PROVE  TreeInv' /\ reqs' = [reqs EXCEPT ![r] = Gone]
<1>1. tree' = Finished(tree, q) /\ reqs' = [reqs EXCEPT ![r] = Gone]
  BY DEF Free
<1>2. Tree(tree, Handles)
  BY DEF SwaInv, TreeInv
<1>3. /\ Tree(tree', Without(Handles, r)) /\ SameRead(tree, tree', Without(Handles, r))
      /\ tree'.live \subseteq tree.live
  BY <1>1, <1>2, FinishedTree
<1>4. Cardinality(tree'.live) <= NumSwa
  BY <1>3, LiveShrinks
<1>5. Gone \in ReqType /\ Gone.st \notin {"chunk", "decode"}
  BY GoneIs
<1>6. TreeInv'
  BY <1>1, <1>3, <1>4, <1>5, TreeChanges
<1>7. QED
  BY <1>1, <1>6

(* What is left of a request that has ended, or whose flight drains.       *)
LEMMA EndsStep ==
  ASSUME SwaInv, NEW r \in Reqs, reqs' = [reqs EXCEPT ![r] = Gone], alloc = Idle, alloc' = Idle,
         \A s \in Reqs \ {r} : Bringing(s)' = Bringing(s) /\ (Flying(s)' => Flying(s))
  PROVE  reqs' \in [Reqs -> ReqType] /\ \A s \in Reqs : ReqInv(s)'
<1>1. reqs \in [Reqs -> ReqType]
  BY DEF SwaInv
<1>2. reqs'[r] = Gone
  BY <1>1
<1>3. ReqInv(r)'
  BY <1>2, GoneIs DEF ReqInv
<1>4. \A s \in Reqs : alloc.r # s /\ alloc'.r # s
  BY DEF Idle, Reqs
<1>5. QED
  BY <1>3, <1>4, GoneIs, ReqsChange

(* The drain of a chunk.                                                   *)
LEMMA DrainChunkStep ==
  ASSUME SwaInv, NEW r \in Reqs, DrainChunk(r)
  PROVE  SwaInv'
<1>1. Drains(r, "chunk") /\ LoopInv
  BY DEF DrainChunk, SwaInv
<1>2. /\ LoopInv' /\ alloc = Idle /\ alloc' = Idle
      /\ \A s : Bringing(s)' = Bringing(s) /\ (Flying(s)' => Flying(s))
      /\ Flying(r)
  <2>1. \A s : Bringing(s) = Bringing(s)' + 0 /\ Bringing(s)' \in {0, 1}
    BY <1>1, DrainsIs
  <2>2. QED
    BY <1>1, <2>1, DrainsIs
<1>3. CASE UNCHANGED <<tree, reqs>>
  <2>1. TreeInv'
    BY <1>3, TreeUnchanged
  <2>2. \A s \in Reqs : ReqInv(s)'
    BY <1>2, <1>3 DEF SwaInv, ReqInv
  <2>3. QED
    BY <1>2, <1>3, <2>1, <2>2 DEF SwaInv
<1>4. CASE reqs[r].aborted /\ Free(r, reqs[r])
  <2>1. reqs[r] \in ReqType /\ ReqInv(r)
    BY DEF SwaInv
  <2>2. Alive(r)
    BY <1>4, <2>1 DEF ReqInv, Alive
  <2>3. Request(reqs[r], Handles, r)
    BY <2>2, RunningRequest
  <2>4. Len(reqs[r].row) = reqs[r].cached
    BY <2>1 DEF ReqInv
  <2>5. TreeInv' /\ reqs' = [reqs EXCEPT ![r] = Gone]
    BY <1>4, <2>1, <2>3, <2>4, FreeStep
  <2>6. reqs' \in [Reqs -> ReqType] /\ \A s \in Reqs : ReqInv(s)'
    BY <1>2, <2>5, EndsStep
  <2>7. QED
    BY <1>2, <2>5, <2>6 DEF SwaInv
<1>5. QED
  BY <1>3, <1>4 DEF DrainChunk


(* A handle put back is the handle that was there.                         *)
LEMMA WithBack ==
  ASSUME NEW r \in DOMAIN Handles
  PROVE  With(Without(Handles, r), r, Handles[r]) = Handles
<1> DEFINE K == With(Without(Handles, r), r, Handles[r])
<1>1. /\ K = [s \in DOMAIN K |-> K[s]] /\ DOMAIN K = DOMAIN Handles
      /\ \A s \in DOMAIN K : K[s] = Handles[s]
  BY DEF With, Without
<1>2. Handles = [s \in DOMAIN Handles |-> Handles[s]]
  BY HandlesAre
<1> HIDE DEF K
<1>3. K = Handles
  BY <1>1, <1>2
<1>4. QED
  BY <1>3 DEF K

(* A request that goes on under its handle reads on what it read.          *)
LEMMA HandleKept ==
  ASSUME SwaInv, NEW r \in Reqs, Alive(r), NEW q \in ReqType, reqs' = [reqs EXCEPT ![r] = q],
         q.st \in {"chunk", "decode"}, q.hlen = reqs[r].hlen, q.uuid = reqs[r].uuid,
         \A i \in 0 .. q.hlen : UpTo(q.ids, i) = UpTo(reqs[r].ids, i),
         \A i \in 1 .. q.hlen : q.row[i] = reqs[r].row[i],
         SameNodes(tree, tree'), Cardinality(tree'.live) <= NumSwa
  PROVE  TreeInv'
<1>1. Tree(tree, Handles) /\ RowsBacked
  BY DEF SwaInv, TreeInv
<1>2. Tree(tree', Handles) /\ SameRead(tree, tree', Without(Handles, r)) /\ tree'.kv = tree.kv
  <2>1. Tree(tree', Handles) /\ tree'.kv = tree.kv
    BY <1>1, PagesTree DEF SameNodes
  <2>2. QED
    BY <2>1, SameReads
<1>3. /\ r \in DOMAIN Handles /\ q.hlen \in Nat
      /\ Handles[r] = [at |-> UpTo(q.ids, q.hlen), uuid |-> q.uuid]
  <2>1. r \in DOMAIN Handles /\ q.hlen \in Nat
    BY HandlesAre DEF ReqType
  <2>2. UpTo(q.ids, q.hlen) = UpTo(reqs[r].ids, reqs[r].hlen)
    BY <2>1
  <2>3. QED
    BY <2>1, <2>2, HandlesAre
<1>4. Tree(tree', With(Without(Handles, r), r, [at |-> UpTo(q.ids, q.hlen), uuid |-> q.uuid]))
  BY <1>2, <1>3, WithBack
<1>5. ASSUME NEW i \in 1 .. q.hlen
      PROVE  UpTo(q.ids, i) \in DOMAIN tree'.kv /\ tree'.kv[UpTo(q.ids, i)] = q.row[i]
  <2>1. i \in 1 .. reqs[r].hlen /\ i \in 0 .. q.hlen
    BY <1>3
  <2>2. UpTo(reqs[r].ids, i) \in DOMAIN tree.kv /\ tree.kv[UpTo(reqs[r].ids, i)] = reqs[r].row[i]
    BY <1>1, <2>1 DEF RowsBacked
  <2>3. QED
    BY <1>2, <2>1, <2>2
<1>6. QED
  BY <1>2, <1>4, <1>5, TreeChanges

(* The drain of a step of a request that has ended, or is aborted.         *)
LEMMA DrainDroppedStep ==
  ASSUME SwaInv, NEW r \in Reqs, DrainDropped(r)
  PROVE  SwaInv'
<1>1. PICK kind \in {"prefill", "decode"} : Drains(r, kind)
  BY DEF DrainDropped
<1>2. /\ LoopInv' /\ alloc = Idle /\ alloc' = Idle
      /\ \A s \in Reqs \ {r} : Bringing(s)' = Bringing(s) /\ (Flying(s)' => Flying(s))
      /\ \A s : Flying(s)' => Flying(s)
  <2>1. LoopInv
    BY DEF SwaInv
  <2>2. \A s \in Reqs \ {r} : Bringing(s) = Bringing(s)' + 0 /\ Bringing(s)' \in {0, 1}
    BY <1>1, <2>1, DrainsIs
  <2>3. QED
    BY <1>1, <2>1, <2>2, DrainsIs
<1>3. CASE reqs[r].st = "done" /\ UNCHANGED <<tree, reqs>>
  <2>1. TreeInv'
    BY <1>3, TreeUnchanged
  <2>2. ASSUME NEW s \in Reqs
        PROVE  ReqInv(s)'
    <3>1. ReqInv(s) /\ reqs' = reqs
      BY <1>3 DEF SwaInv
    <3>2. CASE s = r
      BY <1>2, <1>3, <3>1, <3>2 DEF ReqInv
    <3>3. CASE s # r
      <4>1. Bringing(s)' = Bringing(s) /\ (Flying(s)' => Flying(s))
        BY <1>2, <3>3
      <4>2. QED
        BY <1>2, <3>1, <4>1 DEF ReqInv
    <3>4. QED
      BY <3>2, <3>3
  <2>3. QED
    BY <1>2, <1>3, <2>1, <2>2 DEF SwaInv
<1>4. CASE reqs[r].aborted /\ Free(r, reqs[r])
  <2>1. reqs[r] \in ReqType /\ ReqInv(r)
    BY DEF SwaInv
  <2>2. Alive(r)
    BY <1>4, <2>1 DEF ReqInv, Alive
  <2>3. Request(reqs[r], Handles, r)
    BY <2>2, RunningRequest
  <2>4. Len(reqs[r].row) = reqs[r].cached
    BY <2>1 DEF ReqInv
  <2>5. TreeInv' /\ reqs' = [reqs EXCEPT ![r] = Gone]
    BY <1>4, <2>1, <2>3, <2>4, FreeStep
  <2>6. reqs' \in [Reqs -> ReqType] /\ \A s \in Reqs : ReqInv(s)'
    BY <1>2, <2>5, EndsStep
  <2>7. QED
    BY <1>2, <2>5, <2>6 DEF SwaInv
<1>5. QED
  BY <1>3, <1>4 DEF DrainDropped

(* A token more for a request.                                             *)
Sampling(q, t) == [q EXCEPT !.ids = Append(@, t)]

(* What a token changes of a request.                                      *)
LEMMA SamplingFields ==
  ASSUME NEW q \in ReqType, NEW t \in Nat, NEW x, x = Sampling(q, t)
  PROVE  /\ x \in ReqType /\ x.ids = Append(q.ids, t) /\ x.hlen = q.hlen /\ x.uuid = q.uuid
         /\ x.row = q.row /\ x.st = q.st /\ x.prompt = q.prompt /\ x.out = q.out
         /\ x.cached = q.cached /\ x.evicted = q.evicted /\ x.stepped = q.stepped
         /\ x.aborted = q.aborted
<1>1. Append(q.ids, t) \in Toks
  BY AppendUpTo DEF ReqType
<1>2. QED
  BY <1>1 DEF Sampling, ReqType

(* The drain of a sampled token.                                           *)
LEMMA DrainTokenStep ==
  ASSUME SwaInv, NEW r \in Reqs, NEW t \in Sampled, NEW stops \in BOOLEAN,
         DrainToken(r, t, stops)
  PROVE  SwaInv'
<1> DEFINE q == Sampling(reqs[r], t)
           ends == stops \/ Len(q.ids) >= q.prompt + q.out
<1>1. PICK kind \in {"prefill", "decode"} :
         /\ Drains(r, kind)
         /\ \/ ends /\ Free(r, q)
            \/ /\ ~ends /\ kind = "prefill"
               /\ \E k \in {Committed(tree, q)} :
                    tree' = k.c /\ reqs' = [reqs EXCEPT ![r] = k.q]
            \/ /\ ~ends /\ kind = "decode"
               /\ reqs' = [reqs EXCEPT ![r] = q] /\ UNCHANGED tree
  BY DEF DrainToken, Sampling
<1> HIDE DEF ends
<1>2. /\ LoopInv' /\ alloc = Idle /\ alloc' = Idle
      /\ \A s \in Reqs \ {r} : Bringing(s)' = Bringing(s) /\ (Flying(s)' => Flying(s))
      /\ Bringing(r) = Bringing(r)' + 1 /\ Bringing(r)' \in {0, 1}
  <2>1. LoopInv
    BY DEF SwaInv
  <2>2. \A s \in Reqs \ {r} : Bringing(s) = Bringing(s)' + 0 /\ Bringing(s)' \in {0, 1}
    BY <1>1, <2>1, DrainsIs
  <2>3. QED
    BY <1>1, <2>1, <2>2, DrainsIs
<1>3. /\ reqs[r] \in ReqType /\ ReqInv(r) /\ reqs[r].st = "decode" /\ ~reqs[r].aborted
      /\ Alive(r) /\ t \in Nat
  BY SwaConstants DEF SwaInv, DrainToken, Alive
<1>4. /\ q \in ReqType /\ q.ids = Append(reqs[r].ids, t) /\ q.hlen = reqs[r].hlen
      /\ q.uuid = reqs[r].uuid /\ q.row = reqs[r].row /\ q.st = "decode"
      /\ q.cached = reqs[r].cached /\ q.evicted = reqs[r].evicted /\ ~q.aborted
  <2> DEFINE y == reqs[r]
  <2>1. y \in ReqType /\ t \in Nat /\ q = Sampling(y, t) /\ y.st = "decode" /\ ~y.aborted
    BY <1>3
  <2> HIDE DEF q, y
  <2>2. /\ q \in ReqType /\ q.ids = Append(y.ids, t) /\ q.hlen = y.hlen
        /\ q.uuid = y.uuid /\ q.row = y.row /\ q.st = y.st
        /\ q.cached = y.cached /\ q.evicted = y.evicted /\ q.aborted = y.aborted
    BY ONLY <2>1, SamplingFields, ZenonT(30)
  <2>3. QED
    BY <2>1, <2>2 DEF y
<1> HIDE DEF q
<1>5. /\ Len(q.ids) = Len(reqs[r].ids) + 1 /\ Len(reqs[r].ids) \in Nat
      /\ reqs[r].hlen \in 0 .. Len(reqs[r].ids)
      /\ \A i \in 0 .. Len(reqs[r].ids) : UpTo(q.ids, i) = UpTo(reqs[r].ids, i)
  <2>1. reqs[r].ids \in Toks /\ reqs[r].hlen \in Nat /\ reqs[r].hlen <= Len(reqs[r].ids)
    BY <1>3 DEF ReqType, ReqInv
  <2>2. t \in Nat /\ Len(reqs[r].ids) \in Nat
    BY <1>3, <2>1, PrefixOrder
  <2>3. /\ Len(Append(reqs[r].ids, t)) = Len(reqs[r].ids) + 1
        /\ \A i \in 0 .. Len(reqs[r].ids) : UpTo(Append(reqs[r].ids, t), i) = UpTo(reqs[r].ids, i)
    BY ONLY <2>1, <2>2, AppendUpTo
  <2>4. QED
    BY <1>4, <2>1, <2>2, <2>3
<1>6. /\ q.cached = Len(q.ids) - 1 + Bringing(r)' /\ q.cached <= Len(q.ids)
      /\ Len(q.row) = q.cached /\ q.hlen <= q.cached /\ q.hlen <= Len(q.ids)
  <2>1. /\ reqs[r].cached + 0 = Len(reqs[r].ids) - 1 + Bringing(r)
        /\ Len(reqs[r].row) = reqs[r].cached /\ reqs[r].hlen <= reqs[r].cached
    BY <1>2, <1>3 DEF ReqInv, Idle, Reqs
  <2>2. reqs[r].cached \in Nat
    BY <1>3 DEF ReqType
  <2>3. QED
    BY <1>2, <1>4, <1>5, <2>1, <2>2
<1>7. Request(q, Handles, r)
  <2>1. Request(reqs[r], Handles, r)
    BY <1>3, RunningRequest
  <2>2. q.ids \in Toks
    BY <1>4 DEF ReqType
  <2>3. q.hlen \in 0 .. Len(q.ids) /\ UpTo(q.ids, q.hlen) = UpTo(reqs[r].ids, reqs[r].hlen)
    BY <1>4, <1>5
  <2>4. QED
    BY <1>4, <2>1, <2>2, <2>3 DEF Request
<1>8. CASE Free(r, q)
  <2>1. TreeInv' /\ reqs' = [reqs EXCEPT ![r] = Gone]
    BY <1>4, <1>6, <1>7, <1>8, FreeStep
  <2>2. reqs' \in [Reqs -> ReqType] /\ \A s \in Reqs : ReqInv(s)'
    BY <1>2, <2>1, EndsStep
  <2>3. QED
    BY <1>2, <2>1, <2>2 DEF SwaInv
<1>9. ASSUME NEW x \in ReqType, reqs' = [reqs EXCEPT ![r] = x], x.ids = q.ids, x.st = "decode",
             x.cached = q.cached, Len(x.row) = q.cached, x.hlen <= q.cached, ~x.aborted
      PROVE  reqs' \in [Reqs -> ReqType] /\ \A s \in Reqs : ReqInv(s)'
  <2>1. reqs'[r] = x
    BY <1>9 DEF SwaInv
  <2>2. \A s \in Reqs : alloc.r # s /\ alloc'.r # s
    BY <1>2 DEF Idle, Reqs
  <2>3. x.hlen <= Len(x.ids)
    <3>1. x.hlen \in Nat /\ q.cached \in Nat
      BY <1>4 DEF ReqType
    <3>2. QED
      BY <1>5, <1>6, <1>9, <3>1
  <2>4. ReqInv(r)'
    BY <1>4, <1>6, <1>9, <2>1, <2>2, <2>3 DEF ReqInv
  <2>5. QED
    BY <1>2, <1>9, <2>2, <2>4, ReqsChange
<1>10. CASE \E k \in {Committed(tree, q)} : tree' = k.c /\ reqs' = [reqs EXCEPT ![r] = k.q]
  <2> DEFINE k == Committed(tree, q)
             m == k.q.hlen
  <2>1. tree' = k.c /\ reqs' = [reqs EXCEPT ![r] = k.q]
    BY <1>10
  <2>2. Tree(tree, Handles)
    BY DEF SwaInv, TreeInv
  <2>3. \A s \in DOMAIN Handles : s \in Reqs /\ Handles[s].uuid = reqs[s].uuid
    BY HandlesAre
  <2>4. /\ k.q = Rehandled(q, m, k.q.uuid, k.q.row)
        /\ m \in 0 .. q.cached /\ k.q.uuid \in Nat
        /\ k.q.row \in Seq(Pool) /\ Len(k.q.row) = q.cached
        /\ \A i \in 1 .. m : /\ UpTo(q.ids, i) \in DOMAIN k.c.kv
                              /\ k.c.kv[UpTo(q.ids, i)] = k.q.row[i]
        /\ Tree(k.c, With(Without(Handles, r), r, [at |-> UpTo(q.ids, m), uuid |-> k.q.uuid]))
        /\ SameRead(tree, k.c, Without(Handles, r)) /\ k.c.live \subseteq tree.live
    <3>1. q \in ReqType /\ Len(q.row) = q.cached /\ q.cached <= Len(q.ids)
      BY <1>4, <1>6
    <3>2. r \in Reqs /\ \A s \in DOMAIN Handles : s \in Reqs /\ (s # r => Handles[s].uuid = reqs[s].uuid)
      BY <2>3
    <3> HIDE DEF k, m
    <3>3. QED
      BY ONLY <1>7, <2>2, <3>1, <3>2, CommittedTree DEF k, m
  <2> HIDE DEF k
  <2>5. /\ k.q \in ReqType /\ k.q.ids = q.ids /\ k.q.st = "decode"
        /\ k.q.cached = q.cached /\ ~k.q.aborted
    <3> DEFINE x == k.q
               u == x.uuid
               w == x.row
    <3>1. m \in Nat
      BY <1>4, <2>4 DEF ReqType
    <3>2. q \in ReqType /\ u \in Nat /\ w \in Seq(Pool)
      BY <1>4, <2>4
    <3>3. x = Rehandled(q, m, u, w)
      BY <2>4
    <3> HIDE DEF m, x, u, w
    <3>4. /\ x \in ReqType /\ x.ids = q.ids /\ x.st = q.st
          /\ x.cached = q.cached /\ x.aborted = q.aborted
      BY ONLY <3>1, <3>2, <3>3 DEF Rehandled, ReqType
    <3>5. QED
      BY <1>4, <3>4 DEF x
  <2>6. Cardinality(tree'.live) <= NumSwa
    BY <2>1, <2>4, LiveShrinks
  <2>7. TreeInv'
    BY <2>1, <2>4, <2>5, <2>6, TreeChanges
  <2>8. k.q.hlen <= q.cached
    BY <1>4, <2>4 DEF ReqType
  <2>9. reqs' \in [Reqs -> ReqType] /\ \A s \in Reqs : ReqInv(s)'
    BY <1>9, <2>1, <2>4, <2>5, <2>8
  <2>10. QED
    BY <1>2, <2>7, <2>9 DEF SwaInv
<1>11. CASE reqs' = [reqs EXCEPT ![r] = q] /\ UNCHANGED tree
  <2>1. SameNodes(tree, tree') /\ Cardinality(tree'.live) <= NumSwa
    BY <1>11 DEF SwaInv, TreeInv, Tree, Shape, SameNodes
  <2>2. /\ \A i \in 0 .. q.hlen : UpTo(q.ids, i) = UpTo(reqs[r].ids, i)
        /\ \A i \in 1 .. q.hlen : q.row[i] = reqs[r].row[i]
    BY <1>4, <1>5
  <2>3. TreeInv'
    BY <1>3, <1>4, <1>11, <2>1, <2>2, HandleKept
  <2>4. reqs' \in [Reqs -> ReqType] /\ \A s \in Reqs : ReqInv(s)'
    BY <1>4, <1>6, <1>9, <1>11
  <2>5. QED
    BY <1>2, <2>3, <2>4 DEF SwaInv
<1>12. QED
  BY <1>1, <1>8, <1>10, <1>11

(* An abort.                                                               *)
Aborting(q) == [q EXCEPT !.aborted = TRUE]
LEMMA AbortStep ==
  ASSUME SwaInv, NEW r \in Reqs, Abort(r)
  PROVE  SwaInv'
<1>1. /\ alloc = Idle /\ alloc' = Idle /\ inflight' = inflight
      /\ aborts \in 0 .. MaxAborts /\ aborts < MaxAborts /\ aborts' = aborts + 1
      /\ reqs[r].st # "done" /\ ~reqs[r].aborted
      /\ reqs[r] \in ReqType /\ ReqInv(r)
  BY DEF Abort, SwaInv, LoopInv
<1>2. LoopInv'
  <2>1. aborts' \in 0 .. MaxAborts
    BY <1>1, Sizes
  <2>2. QED
    BY <1>1, <2>1 DEF LoopInv, SwaInv
<1>3. /\ \A s : Bringing(s)' = Bringing(s) /\ (Flying(s)' => Flying(s))
      /\ \A s \in Reqs : alloc.r # s /\ alloc'.r # s
  BY <1>1 DEF Bringing, Brings, Flying, Idle, Reqs
<1>4. CASE reqs[r].st = "pending" /\ reqs' = [reqs EXCEPT ![r] = Gone] /\ tree' = tree
  <2>1. reqs' \in [Reqs -> ReqType] /\ \A s \in Reqs : ReqInv(s)'
    BY <1>1, <1>3, <1>4, EndsStep
  <2>2. r \notin DOMAIN Handles
    BY <1>4, HandlesAre DEF Alive
  <2>3. Without(Handles, r) = Handles
    <3>1. Handles = [s \in DOMAIN Handles |-> Handles[s]]
      BY HandlesAre
    <3>2. QED
      BY <2>2, <3>1 DEF Without
  <2>4. Tree(tree', Without(Handles, r)) /\ Cardinality(tree'.live) <= NumSwa
    BY <1>4, <2>3 DEF SwaInv, TreeInv
  <2>5. SameRead(tree, tree', Without(Handles, r))
    BY <1>4, SameReads
  <2>6. Gone \in ReqType /\ Gone.st \notin {"chunk", "decode"}
    BY GoneIs
  <2>7. TreeInv'
    BY <1>4, <2>4, <2>5, <2>6, TreeChanges
  <2>8. QED
    BY <1>2, <2>1, <2>7 DEF SwaInv
<1>5. Alive(r) \/ reqs[r].st = "pending"
  BY <1>1 DEF ReqType, Alive
<1>6. CASE Alive(r) /\ reqs' = [reqs EXCEPT ![r].aborted = TRUE] /\ tree' = tree
  <2> DEFINE q == Aborting(reqs[r])
  <2>1. /\ q \in ReqType /\ q.ids = reqs[r].ids /\ q.hlen = reqs[r].hlen /\ q.uuid = reqs[r].uuid
        /\ q.row = reqs[r].row /\ q.st = reqs[r].st /\ q.prompt = reqs[r].prompt
        /\ q.cached = reqs[r].cached /\ q.evicted = reqs[r].evicted /\ q.aborted = TRUE
    BY ONLY <1>1 DEF Aborting, ReqType
  <2>2. reqs' = [reqs EXCEPT ![r] = q]
    BY <1>6 DEF Aborting
  <2> HIDE DEF q
  <2>3. SameNodes(tree, tree') /\ Cardinality(tree'.live) <= NumSwa
    BY <1>6 DEF SwaInv, TreeInv, Tree, Shape, SameNodes
  <2>4. q.st \in {"chunk", "decode"}
    BY <1>6, <2>1 DEF Alive
  <2>5. TreeInv'
    BY <1>6, <2>1, <2>2, <2>3, <2>4, HandleKept
  <2>6. reqs'[r] = q
    BY <2>2 DEF SwaInv
  <2>7. ReqInv(r)'
    BY <1>1, <1>3, <2>1, <2>4, <2>6 DEF ReqInv
  <2>8. reqs' \in [Reqs -> ReqType] /\ \A s \in Reqs : ReqInv(s)'
    BY <1>3, <2>1, <2>2, <2>7, ReqsChange
  <2>9. QED
    BY <1>2, <2>5, <2>8 DEF SwaInv
<1>7. CASE Alive(r) /\ Free(r, reqs[r])
  <2>1. Request(reqs[r], Handles, r)
    BY <1>7, RunningRequest
  <2>2. Len(reqs[r].row) = reqs[r].cached
    BY <1>1 DEF ReqInv
  <2>3. TreeInv' /\ reqs' = [reqs EXCEPT ![r] = Gone]
    BY <1>1, <1>7, <2>1, <2>2, FreeStep
  <2>4. reqs' \in [Reqs -> ReqType] /\ \A s \in Reqs : ReqInv(s)'
    BY <1>1, <1>3, <2>3, EndsStep
  <2>5. QED
    BY <1>2, <2>3, <2>4 DEF SwaInv
<1>8. QED
  BY <1>4, <1>5, <1>6, <1>7 DEF Abort

(* An allocation that fails leaves everything as it is.                    *)
LEMMA FailsStep ==
  ASSUME SwaInv, UNCHANGED <<tree, reqs, inflight, alloc, aborts>>
  PROVE  SwaInv'
<1>1. TreeInv'
  BY TreeUnchanged
<1>2. QED
  BY <1>1, LoopStays DEF SwaInv
-----------------------------------------------------------------------------
(* admission, continuation, decode and launch *)

(* The prefixes of a match are cached.                                     *)
LEMMA MatchedRow ==
  ASSUME NEW c, Shape(c), NEW ids \in Toks
  PROVE  LET m == match_prefix(c, ids)
         IN /\ m \in 0 .. Len(ids)
            /\ UpTo(ids, m) = Root \/ (UpTo(ids, m) \in DOMAIN c.nodes /\ Usable(c, UpTo(ids, m)))
            /\ \A i \in 1 .. m : UpTo(ids, i) \in DOMAIN c.kv /\ c.kv[UpTo(ids, i)] \in Pool
<1> DEFINE m == match_prefix(c, ids)
<1>1. /\ m \in 0 .. Len(ids) /\ Len(ids) \in Nat
      /\ m # 0 => UpTo(ids, m) \in Path(c, ids) /\ Usable(c, UpTo(ids, m))
  BY MatchPrefixIs, PrefixOrder
<1> HIDE DEF m
<1>2. m = 0 => UpTo(ids, m) = Root
  BY <1>1, UpTos
<1>3. UpTo(ids, m) = Root \/ (UpTo(ids, m) \in DOMAIN c.nodes /\ Usable(c, UpTo(ids, m)))
  BY <1>1, <1>2 DEF Path
<1>4. ASSUME NEW i \in 1 .. m
      PROVE  UpTo(ids, i) \in DOMAIN c.kv /\ c.kv[UpTo(ids, i)] \in Pool
  <2>1. m # 0 /\ i \in 0 .. m /\ i # 0 /\ i \in 0 .. Len(ids)
    BY <1>1
  <2>2. UpTo(ids, m) \in DOMAIN c.nodes
    BY <1>1, <2>1 DEF Path
  <2>3. /\ UpTo(ids, i) \in Toks /\ UpTo(ids, i) # Root /\ IsPrefix(UpTo(ids, i), UpTo(ids, m))
    BY <1>1, <2>1, UpTos, UpToUpTo
  <2>4. UpTo(ids, i) \in DOMAIN c.kv
    BY <2>2, <2>3, TreeToks
  <2>5. c.kv \in [DOMAIN c.kv -> Pool]
    BY DEF Shape
  <2>6. QED
    BY <2>4, <2>5
<1>5. QED
  BY <1>1, <1>3, <1>4 DEF m

(* What the window pool can give is a number.                              *)
LEMMA SwaAvailable ==
  ASSUME NEW c, Shape(c), Cardinality(c.live) <= NumSwa
  PROVE  swa_free(c) \in Nat /\ swa_available_size(c) \in Nat
<1>1. Cardinality(c.live) \in Nat
  <2>1. IsFiniteSet(Pool) /\ c.live \subseteq Pool
    BY Sizes, FromOne DEF Pool, Shape
  <2>2. QED
    BY <2>1, FS_Subset, FS_CardinalityType
<1>2. swa_free(c) \in Nat
  BY <1>1, Sizes DEF swa_free
<1>3. swa_evictable(c) \in SUBSET DOMAIN c.nodes
  BY DEF swa_evictable
<1>4. Tokens(c, swa_evictable(c)) \in Nat
  <2> DEFINE S == swa_evictable(c)
  <2>1. S \in SUBSET DOMAIN c.nodes
    BY <1>3
  <2> HIDE DEF S
  <2>2. Tokens(c, S) \in Nat
    BY <2>1, TokensNat
  <2>3. QED
    BY <2>2 DEF S
<1>5. QED
  BY <1>2, <1>4 DEF swa_available_size

(* No forward of a request in flight brings it a token.                    *)
LEMMA NotFlying ==
  ASSUME LoopInv, NEW r, ~Flying(r)
  PROVE  Bringing(r) = 0
<1>1. Len(inflight) \in Nat /\ DOMAIN inflight = 1 .. Len(inflight)
  BY DEF LoopInv
<1>2. Brings(r, 1) = 0
  BY <1>1 DEF Flying, Brings
<1>3. Brings(r, 2) = 0
  BY <1>1 DEF Flying, Brings
<1>4. QED
  BY <1>2, <1>3 DEF Bringing

(* What an extension changes.                                              *)
Restated(q, s) == [q EXCEPT !.st = s]
LEMMA RestatedFields ==
  ASSUME NEW q \in ReqType, NEW s \in {"chunk", "decode"}
  PROVE  LET x == Restated(q, s)
         IN /\ x \in ReqType /\ x.st = s /\ x.ids = q.ids /\ x.hlen = q.hlen /\ x.uuid = q.uuid
            /\ x.row = q.row /\ x.prompt = q.prompt /\ x.out = q.out /\ x.cached = q.cached
            /\ x.evicted = q.evicted /\ x.stepped = q.stepped /\ x.aborted = q.aborted
  BY DEF Restated, ReqType

(* A prompt is extended by what is left of it, or by less.                 *)
LEMMA ExtendStep ==
  ASSUME SwaInv, NEW r \in Reqs, alloc = Idle, Len(inflight) < 2, NEW q \in ReqType,
         q.prompt = Len(q.ids), Len(q.row) = q.cached, q.hlen <= q.cached, Bringing(r) = 0,
         NEW n \in Nat \ {0}, n <= q.prompt - q.cached, NEW c, Extend(r, q, c, n)
  PROVE  /\ reqs' \in [Reqs -> ReqType] /\ (\A s \in Reqs : ReqInv(s)') /\ LoopInv'
         /\ tree' = c
         /\ \E s \in {"chunk", "decode"} : reqs' = [reqs EXCEPT ![r] = Restated(q, s)]
<1> DEFINE kind == IF n < q.prompt - q.cached THEN "chunk" ELSE "prefill"
           st == IF kind = "chunk" THEN "chunk" ELSE "decode"
           x == Restated(q, st)
<1>1. /\ tree' = c /\ reqs' = [reqs EXCEPT ![r] = x] /\ alloc' = [r |-> r, n |-> n, kind |-> kind]
      /\ inflight' = inflight /\ aborts' = aborts
  BY DEF Extend, Restated
<1>2. /\ kind \in Kinds /\ st \in {"chunk", "decode"}
      /\ st = IF kind = "chunk" THEN "chunk" ELSE "decode"
      /\ st = "chunk" => n < q.prompt - q.cached
      /\ st = "decode" => ~(n < q.prompt - q.cached)
  BY DEF Kinds
<1> HIDE DEF kind, st
<1>3. /\ x \in ReqType /\ x.st = st /\ x.ids = q.ids /\ x.hlen = q.hlen /\ x.row = q.row
      /\ x.prompt = q.prompt /\ x.cached = q.cached /\ x.evicted = q.evicted
  BY <1>2, RestatedFields
<1>4. alloc'.r = r /\ alloc'.n = n /\ alloc'.kind = kind
  BY <1>1
<1>5. /\ \A s : Bringing(s)' = Bringing(s) /\ (Flying(s)' => Flying(s))
      /\ \A s \in Reqs \ {r} : alloc.r # s /\ alloc'.r # s
  BY <1>1, <1>4 DEF Bringing, Brings, Flying, Idle, Reqs
<1> HIDE DEF x
<1>6. reqs'[r] = x
  BY <1>1 DEF SwaInv
<1>7. ReqInv(r)'
  <2>1. q.hlen \in Nat /\ q.cached \in Nat /\ q.prompt \in Nat
    BY DEF ReqType
  <2>2. q.hlen <= Len(q.ids)
    BY <2>1
  <2>3. CASE st = "chunk"
    <3>1. q.cached + n < Len(q.ids)
      BY <1>2, <2>1, <2>3
    <3>2. QED
      BY <1>3, <1>4, <1>5, <1>6, <2>2, <2>3, <3>1 DEF ReqInv
  <2>4. CASE st = "decode"
    <3>1. q.cached + (n - 1) = Len(q.ids) - 1 + 0
      <4>1. ~(n < q.prompt - q.cached) /\ n <= q.prompt - q.cached /\ q.prompt = Len(q.ids) /\ n \in Nat
        BY <1>2, <2>4
      <4>2. QED
        BY ONLY <2>1, <4>1
    <3>2. QED
      BY <1>3, <1>4, <1>5, <1>6, <2>2, <2>4, <3>1 DEF ReqInv
  <2>5. QED
    BY <1>2, <2>3, <2>4
<1>8. reqs' \in [Reqs -> ReqType] /\ \A s \in Reqs : ReqInv(s)'
  BY <1>1, <1>3, <1>5, <1>7, ReqsChange
<1>9. LoopInv'
  <2>1. alloc' \in [r : Reqs, n : Nat \ {0}, kind : Kinds]
    BY <1>1, <1>2
  <2>2. reqs'[alloc'.r].st = IF alloc'.kind = "chunk" THEN "chunk" ELSE "decode"
    BY <1>2, <1>3, <1>4, <1>6
  <2>3. Len(inflight) \in Nat
    BY DEF SwaInv, LoopInv
  <2>4. Len(inflight') <= 1
    BY <1>1, <2>3
  <2>5. QED
    BY <1>1, <2>1, <2>2, <2>4 DEF SwaInv, LoopInv
<1>10. QED
  BY <1>1, <1>2, <1>8, <1>9 DEF x

(* An admission.                                                           *)
LEMMA AdmitStep ==
  ASSUME SwaInv, NEW r \in Reqs, Admit(r)
  PROVE  SwaInv'
<1> DEFINE ids == UpTo(reqs[r].ids, reqs[r].prompt - 1)
           c == Walked(tree, ids)
           m == match_prefix(c, ids)
           extend == reqs[r].prompt - m
           k == inc_lock(c, UpTo(ids, m))
           w == [i \in 1 .. m |-> c.kv[UpTo(ids, i)]]
           q == Admitted(reqs[r], c, ids, m, k.uuid)
           n == Chunk(q, swa_available_size(k.c))
<1>1. /\ alloc = Idle /\ Len(inflight) < 2 /\ reqs[r].st = "pending"
      /\ Low(extend, Window) + 1 <= swa_available_size(k.c) /\ Extend(r, q, k.c, n)
  <2>1. \E c1 \in {c} : \E k1 \in {inc_lock(c1, UpTo(ids, match_prefix(c1, ids)))} :
          /\ Low(reqs[r].prompt - match_prefix(c1, ids), Window) + 1 <= swa_available_size(k1.c)
          /\ Extend(r, Admitted(reqs[r], c1, ids, match_prefix(c1, ids), k1.uuid), k1.c,
                    Chunk(Admitted(reqs[r], c1, ids, match_prefix(c1, ids), k1.uuid),
                          swa_available_size(k1.c)))
    BY ZenonT(60) DEF Admit
  <2>2. Low(extend, Window) + 1 <= swa_available_size(k.c) /\ Extend(r, q, k.c, n)
    BY ONLY <2>1, Zenon
  <2>3. MayLaunch /\ r \in Pending
    BY Zenon DEF Admit
  <2>4. alloc = Idle /\ Len(inflight) < 2 /\ reqs[r].st = "pending"
    BY ONLY <2>3 DEF MayLaunch, Pending
  <2> HIDE DEF ids, c, m, extend, k, w, q, n
  <2>5. QED
    BY <2>2, <2>4
<1>2. /\ reqs[r] \in ReqType /\ ReqInv(r) /\ Tree(tree, Handles) /\ LoopInv
      /\ Cardinality(tree.live) <= NumSwa
  BY DEF SwaInv, TreeInv
<1>3. /\ reqs[r].prompt = Len(reqs[r].ids) /\ reqs[r].ids \in Toks /\ ~Flying(r)
      /\ reqs[r].prompt \in Nat \ {0} /\ reqs[r].prompt - 1 \in 0 .. Len(reqs[r].ids)
  <2>1. /\ reqs[r].prompt = Len(reqs[r].ids) /\ reqs[r].ids \in Toks /\ ~Flying(r)
        /\ reqs[r].prompt \in Nat /\ reqs[r].prompt > 0
    BY <1>1, <1>2 DEF ReqInv, ReqType
  <2>2. QED
    BY <2>1
<1>4. ids \in Toks /\ Len(ids) = reqs[r].prompt - 1
  BY <1>3, UpTos
<1>5. \A i \in 0 .. Len(ids) : UpTo(ids, i) = UpTo(reqs[r].ids, i)
  BY <1>3, <1>4, UpToUpTo
<1> HIDE DEF ids
<1>6. Tree(c, Handles) /\ SamePages(tree, c)
  BY <1>2, <1>4, WalkedIs
<1> HIDE DEF c
<1>7. /\ m \in 0 .. Len(ids)
      /\ UpTo(ids, m) = Root \/ (UpTo(ids, m) \in DOMAIN c.nodes /\ Usable(c, UpTo(ids, m)))
      /\ \A i \in 1 .. m : UpTo(ids, i) \in DOMAIN c.kv /\ c.kv[UpTo(ids, i)] \in Pool
  BY <1>4, <1>6, MatchedRow DEF Tree
<1> HIDE DEF m
<1>8. r \notin DOMAIN Handles /\ \A s \in DOMAIN Handles : s \in Reqs /\ Handles[s].uuid = reqs[s].uuid
  BY <1>1, HandlesAre DEF Alive
<1>9. /\ Tree(k.c, With(Handles, r, [at |-> UpTo(ids, m), uuid |-> k.uuid])) /\ SamePages(c, k.c)
      /\ k.uuid \in Nat
  BY <1>6, <1>7, <1>8, LockTaken
<1> HIDE DEF k
<1>10. m \in Nat /\ m <= reqs[r].prompt - 1
  BY <1>3, <1>4, <1>7
<1>11. /\ w \in Seq(Pool) /\ Len(w) = m /\ \A i \in 1 .. m : w[i] = c.kv[UpTo(ids, i)]
  BY <1>7, <1>10
<1> HIDE DEF w
<1>12. /\ q \in ReqType /\ q.cached = m /\ q.hlen = m /\ q.uuid = k.uuid /\ q.row = w
       /\ q.ids = reqs[r].ids /\ q.prompt = reqs[r].prompt
  <2> DEFINE y == reqs[r]
             u == k.uuid
  <2>1. y \in ReqType /\ u \in Nat /\ w \in Seq(Pool) /\ m \in Nat
    BY <1>2, <1>9, <1>10, <1>11
  <2>2. q = [y EXCEPT !.cached = m, !.hlen = m, !.uuid = u, !.row = w]
    BY Zenon DEF Admitted, w
  <2> HIDE DEF q, y, u
  <2>3. /\ q \in ReqType /\ q.cached = m /\ q.hlen = m /\ q.uuid = u /\ q.row = w
        /\ q.ids = y.ids /\ q.prompt = y.prompt
    BY ONLY <2>1, <2>2 DEF ReqType
  <2>4. QED
    BY <2>3 DEF y, u
<1> HIDE DEF q
<1>13. n \in Nat \ {0} /\ n <= q.prompt - q.cached
  <2> DEFINE b == swa_available_size(k.c)
  <2>1. b \in Nat
    BY <1>2, <1>6, <1>9, SwaAvailable DEF Tree, SamePages
  <2>2. Low(extend, Window) + 1 <= b /\ extend = reqs[r].prompt - m
    BY <1>1
  <2> HIDE DEF b, extend
  <2>3. extend \in Nat /\ extend > 0 /\ b > 0
    BY <1>3, <1>10, <2>1, <2>2, Sizes DEF Low
  <2>4. n = Low(TokenBudget, Low(extend, b))
    BY <1>12, <2>2 DEF Chunk, b
  <2>5. QED
    BY <1>12, <2>1, <2>2, <2>3, <2>4, Sizes DEF Low
<1> HIDE DEF n
<1>14. Bringing(r) = 0
  BY <1>2, <1>3, NotFlying
<1>15. /\ reqs' \in [Reqs -> ReqType] /\ (\A s \in Reqs : ReqInv(s)') /\ LoopInv' /\ tree' = k.c
       /\ \E s \in {"chunk", "decode"} : reqs' = [reqs EXCEPT ![r] = Restated(q, s)]
  <2>1. q.prompt = Len(q.ids) /\ Len(q.row) = q.cached /\ q.hlen <= q.cached
    BY <1>3, <1>10, <1>11, <1>12
  <2>2. q \in ReqType /\ alloc = Idle /\ Len(inflight) < 2 /\ Extend(r, q, k.c, n)
    BY <1>1, <1>12
  <2>3. QED
    BY <1>13, <1>14, <2>1, <2>2, ExtendStep
<1>16. TreeInv'
  <2>1. PICK s \in {"chunk", "decode"} : reqs' = [reqs EXCEPT ![r] = Restated(q, s)]
    BY <1>15
  <2> DEFINE x == Restated(q, s)
  <2>2. /\ x \in ReqType /\ x.st \in {"chunk", "decode"} /\ x.ids = reqs[r].ids
        /\ x.hlen = m /\ x.uuid = k.uuid /\ x.row = w
    BY <1>12, RestatedFields
  <2> HIDE DEF x
  <2>3. Without(Handles, r) = Handles
    <3>1. Handles = [t \in DOMAIN Handles |-> Handles[t]]
      BY HandlesAre
    <3>2. QED
      BY <1>8, <3>1 DEF Without
  <2>4. UpTo(ids, m) = UpTo(x.ids, x.hlen)
    BY <1>5, <1>7, <2>2
  <2>5. Tree(tree', With(Without(Handles, r), r, [at |-> UpTo(x.ids, x.hlen), uuid |-> x.uuid]))
    BY <1>9, <1>15, <2>2, <2>3, <2>4
  <2>6. SameRead(tree, tree', Without(Handles, r))
    BY <1>6, <1>9, <1>15, SameReads DEF SamePages
  <2>7. ASSUME NEW i \in 1 .. x.hlen
        PROVE  UpTo(x.ids, i) \in DOMAIN tree'.kv /\ tree'.kv[UpTo(x.ids, i)] = x.row[i]
    <3>1. i \in 1 .. m /\ i \in 0 .. Len(ids)
      BY <1>4, <1>7, <2>2
    <3>2. tree'.kv = c.kv /\ UpTo(x.ids, i) = UpTo(ids, i)
      BY <1>5, <1>9, <1>15, <2>2, <3>1 DEF SamePages
    <3>3. QED
      BY <1>7, <1>11, <2>2, <3>1, <3>2
  <2>8. Cardinality(tree'.live) <= NumSwa
    BY <1>2, <1>6, <1>9, <1>15 DEF SamePages
  <2>9. reqs' = [reqs EXCEPT ![r] = x]
    BY <2>1 DEF x
  <2>10. QED
    BY <2>2, <2>5, <2>6, <2>7, <2>8, <2>9, TreeChanges
<1>17. QED
  BY <1>15, <1>16 DEF SwaInv

(* A request whose own slots are freed moves its frontier only.            *)
LEMMA AdvancedFields ==
  ASSUME NEW q \in ReqType, q.row \in Seq(Pool), Len(q.row) = q.cached
  PROVE  LET x == Advanced(q)
         IN /\ x \in ReqType /\ x.ids = q.ids /\ x.hlen = q.hlen /\ x.uuid = q.uuid /\ x.row = q.row
            /\ x.prompt = q.prompt /\ x.cached = q.cached /\ x.st = q.st
<1>1. q.cached \in Nat /\ q.hlen \in Nat /\ q.evicted \in Nat
  BY DEF ReqType
<1>2. Frontier(q) \in Int /\ Kept(q) \in Nat
  BY <1>1, Sizes DEF Frontier, Kept, High
<1> DEFINE e == IF Frontier(q) > Kept(q) THEN Frontier(q) ELSE q.evicted
<1>3. e \in Nat
  BY <1>1, <1>2
<1>4. Advanced(q) = [q EXCEPT !.evicted = e]
  BY DEF Advanced
<1> HIDE DEF e
<1>5. QED
  BY ONLY <1>3, <1>4, q \in ReqType DEF ReqType

(* What a request frees of its own row are pages.                          *)
LEMMA PassedPages ==
  ASSUME NEW q \in ReqType, q.row \in Seq(Pool), Len(q.row) = q.cached
  PROVE  Passed(q) \in SUBSET Pool
<1>1. q.cached \in Nat /\ q.hlen \in Nat /\ q.evicted \in Nat
  BY DEF ReqType
<1>2. Kept(q) \in Nat /\ Frontier(q) = q.cached - Window - 1
  BY <1>1 DEF Frontier, Kept, High
<1>3. ASSUME NEW i \in Kept(q) + 1 .. Frontier(q)
      PROVE  q.row[i] \in Pool
  <2>1. i \in 1 .. Len(q.row)
    BY <1>1, <1>2, Sizes
  <2>2. QED
    BY <2>1
<1>4. QED
  BY <1>3 DEF Passed

(* The next chunk of a prompt.                                             *)
LEMMA ContinueStep ==
  ASSUME SwaInv, NEW r \in Reqs, Continue(r)
  PROVE  SwaInv'
<1> DEFINE y == reqs[r]
           q == Advanced(y)
           b == swa_available_size(tree) + High(0, Frontier(y) - Kept(y))
           n == Chunk(y, b)
<1>1. /\ MayLaunch /\ r \in Chunked
      /\ IF n = 0 THEN UNCHANGED <<tree, reqs, inflight, alloc, aborts>>
         ELSE Extend(r, q, _free_swa(tree, Passed(y)), n)
  BY Zenon DEF Continue
<1>2. /\ alloc = Idle /\ Len(inflight) < 2 /\ y.st = "chunk"
      /\ y \in ReqType /\ ReqInv(r) /\ Tree(tree, Handles)
      /\ Cardinality(tree.live) <= NumSwa /\ Alive(r)
  BY <1>1 DEF MayLaunch, Chunked, SwaInv, TreeInv, Alive
<1>3. /\ y.cached \in Nat /\ y.hlen \in Nat /\ y.evicted \in Nat /\ y.row \in Seq(Pool)
      /\ y.prompt \in Nat /\ y.prompt = Len(y.ids) /\ y.cached < y.prompt
      /\ Len(y.row) = y.cached /\ y.hlen <= y.cached /\ Bringing(r) = 0
  <2>1. alloc.r # r
    BY <1>2 DEF Idle, Reqs
  <2>2. /\ y.cached \in Nat /\ y.hlen \in Nat /\ y.evicted \in Nat /\ y.row \in Seq(Pool)
        /\ y.prompt \in Nat
    BY <1>2 DEF ReqType
  <2>3. /\ y.prompt = Len(y.ids) /\ y.cached + 0 < Len(y.ids)
        /\ Len(y.row) = y.cached /\ y.hlen <= y.cached /\ Bringing(r) = 0
    BY <1>2, <2>1 DEF ReqInv
  <2>4. QED
    BY <2>2, <2>3
<1>4. CASE n = 0
  BY <1>1, <1>4, FailsStep
<1>5. CASE n # 0
  <2>1. Extend(r, q, _free_swa(tree, Passed(y)), n)
    BY <1>1, <1>5
  <2>2. n \in Nat \ {0} /\ n <= y.prompt - y.cached
    <3>1. Shape(tree)
      BY <1>2 DEF Tree
    <3>2. swa_available_size(tree) \in Nat
      BY <1>2, <3>1, SwaAvailable
    <3>3. Frontier(y) - Kept(y) \in Int
      <4>1. y.cached \in Nat /\ y.hlen \in Nat /\ y.evicted \in Nat
        BY <1>3
      <4> HIDE DEF y
      <4>2. QED
        BY ONLY <4>1, Sizes DEF Frontier, Kept, High
    <3>4. b \in Nat
      BY <3>2, <3>3 DEF High
    <3> HIDE DEF b
    <3>5. n = Low(TokenBudget, Low(y.prompt - y.cached, b))
      BY DEF Chunk
    <3> HIDE DEF n, y
    <3>6. y.cached \in Nat /\ y.prompt \in Nat /\ y.cached < y.prompt /\ n # 0
      BY <1>3, <1>5
    <3>7. QED
      BY ONLY <3>4, <3>5, <3>6, Sizes DEF Low
  <2>3. /\ q \in ReqType /\ q.ids = y.ids /\ q.hlen = y.hlen /\ q.uuid = y.uuid /\ q.row = y.row
        /\ q.prompt = y.prompt /\ q.cached = y.cached
    BY <1>2, <1>3, AdvancedFields
  <2>4. Passed(y) \in SUBSET Pool
    BY <1>2, <1>3, PassedPages
  <2>5. /\ SameNodes(tree, _free_swa(tree, Passed(y)))
        /\ _free_swa(tree, Passed(y)).live = tree.live \ Passed(y)
    BY <1>2, <2>4, FreeFields DEF Tree
  <2> HIDE DEF n, q
  <2>6. /\ reqs' \in [Reqs -> ReqType] /\ (\A s \in Reqs : ReqInv(s)') /\ LoopInv'
        /\ tree' = _free_swa(tree, Passed(y))
        /\ \E s \in {"chunk", "decode"} : reqs' = [reqs EXCEPT ![r] = Restated(q, s)]
    <3>1. /\ q \in ReqType /\ q.prompt = Len(q.ids) /\ Len(q.row) = q.cached /\ q.hlen <= q.cached
          /\ n <= q.prompt - q.cached
      BY <1>3, <2>2, <2>3
    <3>2. alloc = Idle /\ Len(inflight) < 2 /\ Bringing(r) = 0
      BY <1>2, <1>3
    <3> HIDE DEF y
    <3>3. QED
      BY <2>1, <2>2, <3>1, <3>2, ExtendStep
  <2>7. PICK s \in {"chunk", "decode"} : reqs' = [reqs EXCEPT ![r] = Restated(q, s)]
    BY <2>6
  <2> DEFINE x == Restated(q, s)
  <2>8. /\ x \in ReqType /\ x.st \in {"chunk", "decode"} /\ x.ids = y.ids /\ x.hlen = y.hlen
        /\ x.uuid = y.uuid /\ x.row = y.row
    BY <2>3, RestatedFields
  <2> HIDE DEF x
  <2>9. Cardinality(tree'.live) <= NumSwa
    <3>1. tree'.live \subseteq tree.live
      BY <2>5, <2>6
    <3>2. QED
      BY <3>1, LiveShrinks
  <2>10. TreeInv'
    <3>1. reqs' = [reqs EXCEPT ![r] = x]
      BY <2>7 DEF x
    <3>2. SameNodes(tree, tree')
      BY <2>5, <2>6
    <3>3. QED
      BY <1>2, <2>8, <2>9, <3>1, <3>2, HandleKept
  <2>11. QED
    BY <2>6, <2>10 DEF SwaInv
<1>6. QED
  BY <1>4, <1>5

(* A decode step.                                                          *)
Stepped(q) == [q EXCEPT !.stepped = TRUE]
LEMMA DecodeStep ==
  ASSUME SwaInv, NEW r \in Reqs, Decode(r)
  PROVE  SwaInv'
<1> DEFINE y == reqs[r]
<1>1. /\ MayLaunch /\ r \in Decoding /\ alloc' = [r |-> r, n |-> 1, kind |-> "decode"]
      /\ UNCHANGED <<inflight, aborts>>
      /\ IF y.stepped
         THEN tree' = _free_swa(tree, Passed(y)) /\ reqs' = [reqs EXCEPT ![r] = Advanced(y)]
         ELSE reqs' = [reqs EXCEPT ![r] = Stepped(y)] /\ tree' = tree
  BY DEF Decode, Stepped
<1>2. /\ alloc = Idle /\ Len(inflight) < 2 /\ y.st = "decode"
      /\ y \in ReqType /\ ReqInv(r) /\ Tree(tree, Handles)
      /\ Cardinality(tree.live) <= NumSwa /\ Alive(r) /\ y.stepped \in BOOLEAN
  BY <1>1 DEF MayLaunch, Decoding, SwaInv, TreeInv, Alive, ReqType
<1>3. /\ y.cached \in Nat /\ y.hlen \in Nat /\ y.evicted \in Nat /\ y.row \in Seq(Pool)
      /\ y.hlen <= Len(y.ids) /\ Len(y.row) = y.cached /\ y.hlen <= y.cached
      /\ y.cached = Len(y.ids) - 1 + Bringing(r)
  <2>1. alloc.r # r
    BY <1>2 DEF Idle, Reqs
  <2>2. /\ y.cached \in Nat /\ y.hlen \in Nat /\ y.evicted \in Nat /\ y.row \in Seq(Pool)
    BY <1>2 DEF ReqType
  <2>3. /\ y.hlen <= Len(y.ids) /\ Len(y.row) = y.cached /\ y.hlen <= y.cached
        /\ y.cached + 0 = Len(y.ids) - 1 + Bringing(r)
    BY <1>2, <2>1 DEF ReqInv
  <2>4. QED
    BY <2>2, <2>3
<1>4. /\ \A s : Bringing(s)' = Bringing(s) /\ (Flying(s)' => Flying(s))
      /\ \A s \in Reqs \ {r} : alloc.r # s /\ alloc'.r # s
      /\ alloc'.r = r /\ alloc'.n = 1 /\ alloc'.kind = "decode"
  BY <1>1, <1>2 DEF Bringing, Brings, Flying, Idle, Reqs
<1>5. ASSUME NEW x \in ReqType, reqs' = [reqs EXCEPT ![r] = x], x.ids = y.ids, x.hlen = y.hlen,
             x.uuid = y.uuid, x.row = y.row, x.cached = y.cached, x.st = "decode",
             SameNodes(tree, tree'), tree'.live \subseteq tree.live
      PROVE  SwaInv'
  <2>1. TreeInv'
    <3>1. Cardinality(tree'.live) <= NumSwa
      BY <1>5, LiveShrinks
    <3>2. x.st \in {"chunk", "decode"}
      BY <1>5
    <3>3. QED
      BY <1>2, <1>5, <3>1, <3>2, HandleKept
  <2>2. reqs'[r] = x
    BY <1>5 DEF SwaInv
  <2>3. ReqInv(r)'
    <3>1. x.cached + (1 - 1) = Len(x.ids) - 1 + Bringing(r)'
      BY <1>3, <1>4, <1>5
    <3>2. QED
      BY <1>3, <1>4, <1>5, <2>2, <3>1 DEF ReqInv
  <2>4. reqs' \in [Reqs -> ReqType] /\ \A s \in Reqs : ReqInv(s)'
    BY <1>4, <1>5, <2>3, ReqsChange
  <2>5. LoopInv'
    <3>1. alloc' \in [r : Reqs, n : Nat \ {0}, kind : Kinds]
      BY <1>1 DEF Kinds
    <3>2. reqs'[alloc'.r].st = IF alloc'.kind = "chunk" THEN "chunk" ELSE "decode"
      BY <1>4, <1>5, <2>2
    <3>3. Len(inflight) \in Nat
      BY DEF SwaInv, LoopInv
    <3>4. Len(inflight') <= 1
      BY <1>1, <1>2, <3>3
    <3>5. QED
      BY <1>1, <3>1, <3>2, <3>4 DEF SwaInv, LoopInv
  <2>6. QED
    BY <2>1, <2>4, <2>5 DEF SwaInv
<1>6. CASE y.stepped
  <2> DEFINE x == Advanced(y)
  <2>1. /\ x \in ReqType /\ x.ids = y.ids /\ x.hlen = y.hlen /\ x.uuid = y.uuid /\ x.row = y.row
        /\ x.cached = y.cached /\ x.st = y.st
    BY <1>2, <1>3, AdvancedFields
  <2>2. Passed(y) \in SUBSET Pool
    BY <1>2, <1>3, PassedPages
  <2>3. /\ SameNodes(tree, _free_swa(tree, Passed(y)))
        /\ _free_swa(tree, Passed(y)).live = tree.live \ Passed(y)
    BY <1>2, <2>2, FreeFields DEF Tree
  <2>4. tree' = _free_swa(tree, Passed(y)) /\ reqs' = [reqs EXCEPT ![r] = x]
    BY <1>1, <1>6
  <2> HIDE DEF x
  <2>5. SameNodes(tree, tree') /\ tree'.live \subseteq tree.live
    BY <2>3, <2>4
  <2>6. QED
    BY <1>2, <1>5, <2>1, <2>4, <2>5
<1>7. CASE ~y.stepped
  <2> DEFINE x == Stepped(y)
  <2>1. /\ x \in ReqType /\ x.ids = y.ids /\ x.hlen = y.hlen /\ x.uuid = y.uuid /\ x.row = y.row
        /\ x.cached = y.cached /\ x.st = y.st
    <3>1. y \in ReqType
      BY <1>2
    <3> HIDE DEF y
    <3>2. QED
      BY ONLY <3>1 DEF Stepped, ReqType
  <2>2. tree' = tree /\ reqs' = [reqs EXCEPT ![r] = x]
    BY <1>1, <1>7
  <2> HIDE DEF x
  <2>3. SameNodes(tree, tree') /\ tree'.live \subseteq tree.live
    BY <1>2, <2>2 DEF SameNodes, Tree, Shape
  <2>4. QED
    BY <1>2, <1>5, <2>1, <2>2, <2>3
<1>8. QED
  BY <1>6, <1>7

(* In a set of naturals, some element has any number of others below it.   *)
LEMMA Ranks ==
  ASSUME NEW b \in Nat, NEW S \in SUBSET (1 .. b), NEW i \in 1 .. Cardinality(S)
  PROVE  \E p \in S : Cardinality({f \in S : f < p}) = i - 1
<1> DEFINE C(k) == {f \in S : f <= k}
           K == {k \in Nat : Cardinality(C(k)) >= i}
<1>1. /\ IsFiniteSet(S) /\ Cardinality(S) \in Nat /\ i \in Nat /\ i >= 1 /\ i <= Cardinality(S)
      /\ \A f \in S : f \in Nat /\ f >= 1 /\ f <= b
  <2>1. IsFiniteSet(S)
    BY FromOne, FS_Subset
  <2>2. Cardinality(S) \in Nat
    BY <2>1, FS_CardinalityType
  <2>3. QED
    BY <2>1, <2>2
<1>0. \A f \in S : f \in Nat /\ f >= 1 /\ f <= b
  BY <1>1
<1>2. \A k \in Nat : IsFiniteSet(C(k)) /\ Cardinality(C(k)) \in Nat
  <2> TAKE k \in Nat
  <2>1. IsFiniteSet(C(k))
    BY <1>1, FS_Subset
  <2>2. QED
    BY <2>1, FS_CardinalityType
<1>3. K \in SUBSET Nat /\ b \in K
  <2>1. C(b) = S
    BY <1>1
  <2>2. QED
    BY <1>1, <2>1
<1> DEFINE p == Min(K)
<1>4. p \in K /\ \A m \in K : p <= m
  <2> HIDE DEF K
  <2>1. QED
    BY <1>3, MinIsLeast
<1> HIDE DEF p
<1>5. p \in Nat /\ Cardinality(C(p)) >= i
  BY <1>4
<1>6. p # 0
  <2>1. SUFFICES ASSUME p = 0 PROVE FALSE
    OBVIOUS
  <2>2. C(p) = {}
    <3>1. \A f \in S : ~(f <= 0)
      BY ONLY <1>0
    <3>2. QED
      BY ONLY <2>1, <3>1
  <2>3. Cardinality(C(p)) = 0
    BY <2>2, FS_EmptySet
  <2>4. QED
    BY <1>1, <1>5, <2>3
<1>7. p - 1 \in Nat /\ Cardinality(C(p - 1)) < i
  <2>1. p - 1 \in Nat /\ ~(p <= p - 1)
    BY <1>5, <1>6
  <2>2. p - 1 \notin K
    BY <1>4, <2>1
  <2>3. ~(Cardinality(C(p - 1)) >= i) /\ Cardinality(C(p - 1)) \in Nat
    BY <1>2, <2>1, <2>2
  <2>4. QED
    BY <1>1, <2>1, <2>3
<1>8. {f \in S : f < p} = C(p - 1)
  <2>1. p \in Nat /\ p # 0
    BY <1>5, <1>6
  <2>2. \A f \in S : f < p <=> f <= p - 1
    BY ONLY <1>0, <2>1
  <2>3. QED
    BY ONLY <2>2
<1>9. p \in S
  <2>1. SUFFICES ASSUME p \notin S PROVE FALSE
    OBVIOUS
  <2>0. p \in Nat /\ p # 0
    BY <1>5, <1>6
  <2>2. C(p) = C(p - 1)
    <3>1. \A f \in S : f <= p <=> f <= p - 1
      BY ONLY <1>0, <2>0, <2>1
    <3>2. QED
      BY ONLY <3>1
  <2> HIDE DEF C
  <2>3. QED
    BY <1>1, <1>2, <1>5, <1>7, <2>2
<1>10. Cardinality(C(p)) = Cardinality(C(p - 1)) + 1
  <2>1. C(p) = C(p - 1) \cup {p} /\ p \notin C(p - 1)
    <3>1. p \in Nat /\ p # 0
      BY <1>5, <1>6
    <3>2. \A f \in S : f <= p <=> f <= p - 1 \/ f = p
      BY ONLY <1>0, <3>1
    <3>3. p <= p /\ ~(p <= p - 1)
      BY ONLY <3>1
    <3>4. QED
      BY ONLY <1>9, <3>2, <3>3
  <2> HIDE DEF C
  <2>2. IsFiniteSet(C(p - 1))
    BY <1>2, <1>7
  <2>3. QED
    BY <2>1, <2>2, FS_AddElement
<1>11. Cardinality(C(p - 1)) = i - 1
  <2> HIDE DEF C
  <2>1. Cardinality(C(p - 1)) \in Nat
    BY <1>2, <1>7
  <2>2. QED
    BY <1>1, <1>5, <1>7, <1>10, <2>1
<1>12. QED
  BY <1>8, <1>9, <1>11

(* What a launch writes into the row.                                      *)
nthFree(i) == CHOOSE p \in tree.free : Cardinality({f \in tree.free : f < p}) = i - 1
NextFree(n) == [i \in 1 .. n |-> nthFree(i)]
Extended(q, w, n) == [q EXCEPT !.row = q.row \o w, !.cached = q.cached + n]
LEMMA ExtendedFields ==
  ASSUME NEW q \in ReqType, NEW n \in Nat, NEW w \in Seq(Pool), Len(w) = n, Len(q.row) = q.cached
  PROVE  LET x == Extended(q, w, n)
         IN /\ x \in ReqType /\ Len(x.row) = x.cached /\ x.cached = q.cached + n
            /\ \A i \in 1 .. q.cached : x.row[i] = q.row[i]
            /\ x.st = q.st /\ x.ids = q.ids /\ x.hlen = q.hlen /\ x.uuid = q.uuid
            /\ x.prompt = q.prompt /\ x.aborted = q.aborted
<1> DEFINE v == q.row \o w
           c == q.cached + n
           x == Extended(q, w, n)
<1>1. q.cached \in Nat /\ q.row \in Seq(Pool) /\ c \in Nat
  BY DEF ReqType
<1>2. v \in Seq(Pool) /\ Len(v) = c /\ \A i \in 1 .. q.cached : v[i] = q.row[i]
  <2>1. v \in Seq(Pool) /\ Len(v) = Len(q.row) + Len(w)
    BY <1>1
  <2>2. \A i \in 1 .. Len(q.row) : v[i] = q.row[i]
    BY <1>1
  <2>3. QED
    BY <2>1, <2>2
<1>3. x = [q EXCEPT !.row = v, !.cached = c]
  BY DEF Extended
<1> HIDE DEF v, c, x
<1>4. /\ x \in ReqType /\ x.row = v /\ x.cached = c
      /\ x.st = q.st /\ x.ids = q.ids /\ x.hlen = q.hlen /\ x.uuid = q.uuid
      /\ x.prompt = q.prompt /\ x.aborted = q.aborted
  BY ONLY <1>1, <1>2, <1>3, q \in ReqType DEF ReqType
<1>5. QED
  BY <1>2, <1>4 DEF x, c

(* The pages that a launch takes.                                          *)
LEMMA TakenPages ==
  ASSUME Shape(tree), NEW n \in Nat, n <= Cardinality(tree.free)
  PROVE  /\ NextFree(n) \in Seq(Pool) /\ Len(NextFree(n)) = n
         /\ {nthFree(i) : i \in 1 .. n} \subseteq tree.free
         /\ IsFiniteSet({nthFree(i) : i \in 1 .. n}) /\ Cardinality({nthFree(i) : i \in 1 .. n}) <= n
<1>1. tree.free \in SUBSET (1 .. NumPages) /\ NumPages \in Nat
  BY Sizes DEF Shape, Pool
<1>2. Cardinality(tree.free) \in Nat
  BY <1>1, FromOne, FS_Subset, FS_CardinalityType
<1>3. ASSUME NEW i \in 1 .. n
      PROVE  nthFree(i) \in tree.free
  <2>1. i \in 1 .. Cardinality(tree.free)
    BY <1>2
  <2>2. \E p \in tree.free : Cardinality({f \in tree.free : f < p}) = i - 1
    BY <1>1, <2>1, Ranks
  <2>3. QED
    BY <2>2 DEF nthFree
<1>4. NextFree(n) \in Seq(Pool) /\ Len(NextFree(n)) = n
  <2>1. \A i \in 1 .. n : nthFree(i) \in Pool
    BY <1>1, <1>3 DEF Pool
  <2>2. NextFree(n) \in [1 .. n -> Pool]
    BY <2>1 DEF NextFree
  <2>3. QED
    BY <2>2
<1> DEFINE T == {nthFree(i) : i \in 1 .. n}
<1>5. IsFiniteSet(T) /\ Cardinality(T) <= n
  <2>1. NextFree(n) \in Surjection(1 .. n, T)
    BY DEF NextFree, Surjection
  <2>2. IsFiniteSet(1 .. n) /\ Cardinality(1 .. n) = n
    BY FromOne
  <2> HIDE DEF T
  <2>3. QED
    BY <2>1, <2>2, FS_Surjection
<1>6. QED
  BY <1>3, <1>4, <1>5

(* A launch.                                                               *)
LEMMA LaunchStep ==
  ASSUME SwaInv, Launch, NEW a \in Reqs, a = alloc.r
  PROVE  SwaInv'
<1> DEFINE n == alloc.n
           y == reqs[a]
           T == {nthFree(i) : i \in 1 .. n}
           w == NextFree(n)
           x == Extended(y, w, n)
<1>1. /\ alloc # Idle /\ ~ShortOfPages /\ ~ShortOfSwa
      /\ tree' = [tree EXCEPT !.free = @ \ T, !.live = @ \cup T]
      /\ reqs' = [reqs EXCEPT ![a].row = @ \o w, ![a].cached = @ + n]
      /\ inflight' = Append(inflight, [r |-> a, kind |-> alloc.kind])
      /\ alloc' = Idle /\ aborts' = aborts
  <2>1. /\ alloc # Idle /\ ~ShortOfPages /\ ~ShortOfSwa
        /\ tree' = [tree EXCEPT !.free = @ \ T, !.live = @ \cup T]
        /\ reqs' = [reqs EXCEPT ![alloc.r].row = @ \o w, ![alloc.r].cached = @ + n]
        /\ inflight' = Append(inflight, [r |-> alloc.r, kind |-> alloc.kind])
        /\ alloc' = Idle /\ aborts' = aborts
    BY Zenon DEF Launch, nthFree, NextFree
  <2> HIDE DEF T, w, n
  <2>2. QED
    BY <2>1, Zenon
<1>2. /\ a \in Reqs /\ n \in Nat \ {0} /\ alloc.kind \in Kinds
      /\ inflight \in Seq(Flights) /\ Len(inflight) <= 1
      /\ y.st = IF alloc.kind = "chunk" THEN "chunk" ELSE "decode"
      /\ LoopInv
  BY <1>1 DEF SwaInv, LoopInv
<1>3. /\ y \in ReqType /\ ReqInv(a) /\ Tree(tree, Handles) /\ Shape(tree)
      /\ Cardinality(tree.live) <= NumSwa /\ reqs \in [Reqs -> ReqType]
  BY <1>2 DEF SwaInv, TreeInv, Tree
<1>4. /\ Alive(a) /\ Len(y.row) = y.cached /\ y.hlen <= y.cached /\ y.hlen <= Len(y.ids)
      /\ y.cached \in Nat /\ y.hlen \in Nat
  BY <1>2, <1>3 DEF Alive, ReqInv, ReqType
<1>5. Cardinality(tree.free) \in Nat /\ Cardinality(tree.live) \in Nat
      /\ IsFiniteSet(tree.live)
  <2>1. IsFiniteSet(Pool) /\ tree.free \subseteq Pool /\ tree.live \subseteq Pool
    BY <1>3, Sizes, FromOne DEF Pool, Shape
  <2>2. QED
    BY <2>1, FS_Subset, FS_CardinalityType
<1>6. n <= Cardinality(tree.free) /\ Cardinality(tree.live) + n <= NumSwa
  <2>1. ~(Cardinality(tree.free) < n)
    BY <1>1 DEF ShortOfPages
  <2>2. ~(NumSwa - Cardinality(tree.live) < n)
    BY <1>1 DEF ShortOfSwa, swa_free
  <2> HIDE DEF n
  <2>3. QED
    BY <1>2, <1>5, <2>1, <2>2, Sizes
<1>7. /\ w \in Seq(Pool) /\ Len(w) = n /\ T \subseteq tree.free
      /\ IsFiniteSet(T) /\ Cardinality(T) <= n
  BY <1>2, <1>3, <1>6, TakenPages
<1> HIDE DEF w, T
<1>8. /\ x \in ReqType /\ Len(x.row) = x.cached /\ x.cached = y.cached + n
      /\ \A i \in 1 .. y.cached : x.row[i] = y.row[i]
      /\ x.st = y.st /\ x.ids = y.ids /\ x.hlen = y.hlen /\ x.uuid = y.uuid
      /\ x.prompt = y.prompt /\ x.aborted = y.aborted
  <2> HIDE DEF y, n
  <2>1. n \in Nat
    BY <1>2
  <2>2. QED
    BY <1>3, <1>4, <1>7, <2>1, ExtendedFields
<1>9. reqs' = [reqs EXCEPT ![a] = x]
  BY <1>1 DEF Extended
<1> HIDE DEF x
<1>10. SameNodes(tree, tree') /\ tree'.live = tree.live \cup T
  <2>1. /\ tree = [nodes |-> tree.nodes, kv |-> tree.kv, free |-> tree.free, live |-> tree.live]
        /\ tree.free \subseteq Pool /\ tree.live \subseteq Pool
    BY <1>3 DEF Shape
  <2>2. tree' = [tree EXCEPT !.free = @ \ T, !.live = @ \cup T]
    BY <1>1
  <2>3. QED
    BY ONLY <1>7, <2>1, <2>2 DEF SameNodes
<1>11. Cardinality(tree'.live) <= NumSwa
  <2>1. Cardinality(tree.live \cup T)
          = Cardinality(tree.live) + Cardinality(T) - Cardinality(tree.live \cap T)
    BY <1>5, <1>7, FS_Union
  <2>2. Cardinality(tree.live \cap T) \in Nat /\ Cardinality(T) \in Nat
    BY <1>5, <1>7, FS_Intersection, FS_CardinalityType
  <2> DEFINE L == Cardinality(tree.live)
             t == Cardinality(T)
             i == Cardinality(tree.live \cap T)
             u == Cardinality(tree.live \cup T)
  <2>3. u <= NumSwa
    <3>1. L \in Nat /\ t \in Nat /\ i \in Nat /\ u = L + t - i /\ t <= n /\ L + n <= NumSwa /\ n \in Nat
      BY <1>2, <1>5, <1>6, <1>7, <2>1, <2>2
    <3> HIDE DEF L, t, i, u, n
    <3>2. QED
      BY ONLY <3>1, Sizes
  <2>4. QED
    BY <1>10, <2>3 DEF u
<1>12. TreeInv'
  <2>1. x.st \in {"chunk", "decode"}
    BY <1>2, <1>8
  <2>2. \A i \in 1 .. x.hlen : x.row[i] = y.row[i]
    BY <1>4, <1>8
  <2>3. \A i \in 0 .. x.hlen : UpTo(x.ids, i) = UpTo(y.ids, i)
    BY <1>8
  <2>4. QED
    BY <1>2, <1>4, <1>8, <1>9, <1>10, <1>11, <2>1, <2>2, <2>3, HandleKept
<1>13. /\ inflight' \in Seq(Flights) /\ Len(inflight') <= 2
       /\ \A s : Bringing(s)' = Bringing(s) + (IF s = a /\ alloc.kind # "chunk" THEN 1 ELSE 0)
       /\ \A s : Flying(s)' <=> Flying(s) \/ s = a
  <2> DEFINE k == alloc.kind
  <2>1. a \in Reqs /\ k \in Kinds /\ inflight' = Append(inflight, [r |-> a, kind |-> k])
    BY <1>1, <1>2
  <2> HIDE DEF k
  <2>2. /\ inflight' \in Seq(Flights) /\ Len(inflight') <= 2
        /\ \A s : Bringing(s)' = Bringing(s) + (IF s = a /\ k # "chunk" THEN 1 ELSE 0)
        /\ \A s : Flying(s)' <=> Flying(s) \/ s = a
    BY <1>2, <2>1, Launches
  <2>3. QED
    BY <2>2 DEF k
<1>14. LoopInv'
  BY <1>1, <1>2, <1>13 DEF LoopInv
<1>15. reqs' \in [Reqs -> ReqType] /\ \A s \in Reqs : ReqInv(s)'
  <2>1. reqs'[a] = x
    BY <1>2, <1>3, <1>9
  <2>2. alloc'.r # a /\ \A s \in Reqs \ {a} : alloc.r # s /\ alloc'.r # s
    BY <1>1, <1>2 DEF Idle, Reqs
  <2>3. \A s \in Reqs \ {a} : Bringing(s)' = Bringing(s) /\ (Flying(s)' => Flying(s))
    <3> TAKE s \in Reqs \ {a}
    <3>0. ~(s = a /\ alloc.kind # "chunk")
      OBVIOUS
    <3>1. Bringing(s)' = Bringing(s) + 0
      BY <1>13, <3>0
    <3>2. Bringing(s) \in Int
      BY DEF Bringing, Brings
    <3>3. QED
      BY <1>13, <3>1, <3>2
  <2>4. ReqInv(a)'
    <3>1. Bringing(a)' = Bringing(a) + (IF alloc.kind # "chunk" THEN 1 ELSE 0)
      BY <1>13
    <3>2. n \in Nat /\ Bringing(a) \in Int /\ Len(y.ids) \in Nat
      BY <1>2, <1>3, PrefixOrder DEF Bringing, Brings, ReqType
    <3>3. /\ Len(x.row) = x.cached /\ x.hlen <= x.cached /\ x.hlen <= Len(x.ids)
          /\ x.st \in {"chunk", "decode"} /\ x.cached \in Nat /\ x.ids = y.ids
          /\ x.cached = y.cached + n
      <4>1. x.hlen = y.hlen /\ x.cached = y.cached + n /\ n \in Nat /\ y.hlen <= y.cached
            /\ y.hlen \in Nat /\ y.cached \in Nat
        BY <1>2, <1>4, <1>8
      <4>2. x.hlen <= x.cached /\ x.cached \in Nat
        <5> HIDE DEF x, y, n
        <5>1. QED
          BY ONLY <4>1
      <4>3. QED
        BY <1>2, <1>4, <1>8, <4>2
    <3>4. /\ x.st = "chunk" => /\ x.cached + 0 < Len(x.ids) /\ x.prompt = Len(x.ids)
                              /\ Bringing(a)' = 0
          /\ x.st = "decode" => x.cached + 0 = Len(x.ids) - 1 + Bringing(a)'
      <4>1. CASE alloc.kind = "chunk"
        <5>1. /\ y.st = "chunk" /\ y.cached + n < Len(y.ids) /\ y.prompt = Len(y.ids)
              /\ Bringing(a) = 0
          BY <1>2, <1>3, <4>1 DEF ReqInv
        <5>2. Bringing(a)' = 0
          BY <3>1, <4>1, <5>1
        <5>3. x.cached + 0 < Len(x.ids)
          <6> HIDE DEF x, y, n
          <6>1. QED
            BY ONLY <3>3, <5>1
        <5>4. QED
          BY <1>8, <5>1, <5>2, <5>3
      <4>2. CASE alloc.kind # "chunk"
        <5>1. y.st = "decode" /\ y.cached + (n - 1) = Len(y.ids) - 1 + Bringing(a)
          BY <1>2, <1>3, <4>2 DEF ReqInv
        <5>2. Bringing(a)' = Bringing(a) + 1
          BY <3>1, <4>2
        <5>3. y.cached \in Nat
          BY <1>4
        <5>4. x.cached + 0 = Len(x.ids) - 1 + (Bringing(a) + 1)
          <6> DEFINE g == Bringing(a)
                     l == Len(y.ids)
                     d == y.cached
                     e == x.cached
          <6>1. /\ n \in Nat /\ g \in Int /\ l \in Nat /\ d \in Nat
                /\ e = d + n /\ d + (n - 1) = l - 1 + g /\ Len(x.ids) = l
            BY <3>2, <3>3, <5>1, <5>3
          <6> HIDE DEF n, g, l, d, e
          <6>2. e + 0 = l - 1 + (g + 1)
            BY ONLY <6>1
          <6>3. QED
            BY <6>1, <6>2 DEF e, g
        <5>5. QED
          BY <1>8, <5>1, <5>2, <5>4
      <4>3. QED
        BY <4>1, <4>2
    <3> HIDE DEF y, n
    <3>5. QED
      BY ONLY <2>1, <2>2, <3>3, <3>4 DEF ReqInv
  <2>5. QED
    BY <1>2, <1>8, <1>9, <2>2, <2>3, <2>4, ReqsChange
<1>16. QED
  BY <1>12, <1>14, <1>15 DEF SwaInv
-----------------------------------------------------------------------------
(* the specification *)

(* The requests as they arrive.                                            *)
Arrived(y) == [Gone EXCEPT !.st = "pending", !.ids = y.ids, !.prompt = Len(y.ids), !.out = y.out]
LEMMA ArrivedFields ==
  ASSUME NEW y, y.ids \in Toks \ {<<>>}, y.out \in Nat
  PROVE  LET x == Arrived(y)
         IN /\ x \in ReqType /\ x.st = "pending" /\ x.ids = y.ids /\ x.prompt = Len(y.ids)
            /\ x.prompt > 0 /\ x.cached = 0 /\ x.hlen = 0 /\ Len(x.row) = 0 /\ x.evicted = 0
            /\ x.aborted = FALSE
<1>1. Len(y.ids) \in Nat /\ Len(y.ids) > 0 /\ y.ids \in Toks
  BY DEF Toks
<1>2. <<>> \in Toks /\ <<>> \in Seq(Pool) /\ Len(<<>>) = 0
  BY DEF Toks
<1> DEFINE x == Arrived(y)
           g == Gone
<1>3. /\ g \in ReqType /\ g.cached = 0 /\ g.hlen = 0 /\ g.row = <<>> /\ g.evicted = 0
      /\ g.aborted = FALSE
  BY GoneIs DEF Gone
<1>4. x = [g EXCEPT !.st = "pending", !.ids = y.ids, !.prompt = Len(y.ids), !.out = y.out]
  BY Zenon DEF Arrived
<1> HIDE DEF x, g
<1>5. /\ x \in ReqType /\ x.st = "pending" /\ x.ids = y.ids /\ x.prompt = Len(y.ids)
      /\ x.cached = 0 /\ x.hlen = 0 /\ x.row = <<>> /\ x.evicted = 0 /\ x.aborted = FALSE
  BY ONLY <1>1, <1>3, <1>4, y.out \in Nat DEF ReqType
<1>6. QED
  BY <1>1, <1>2, <1>5 DEF x

(* The empty tree is a tree.                                               *)
LEMMA EmptyTree ==
  ASSUME NEW c, c = [nodes |-> <<>>, kv |-> <<>>, free |-> 1 .. NumPages, live |-> {}],
         NEW H, DOMAIN H = {}
  PROVE  Tree(c, H)
<1>1. /\ c.nodes = <<>> /\ c.kv = <<>> /\ c.free = Pool /\ c.live = {}
      /\ c = [nodes |-> c.nodes, kv |-> c.kv, free |-> c.free, live |-> c.live]
  BY DEF Pool
<1>2. DOMAIN <<>> = {} /\ IsFiniteSet({})
  BY FS_EmptySet
<1>3. DOMAIN c.nodes = {} /\ DOMAIN c.kv = {}
  BY <1>1, <1>2
<1>4. c.nodes \in [DOMAIN c.nodes -> NodeType] /\ c.kv \in [DOMAIN c.kv -> Pool]
  BY <1>1, <1>2
<1>5. Shape(c)
  BY <1>1, <1>2, <1>3, <1>4 DEF Shape
<1>6. Locks(c, H)
  BY <1>2, <1>3 DEF Locks
<1>7. QED
  BY <1>5, <1>6 DEF Tree

(* The cache begins empty, and every request is pending.                   *)
LEMMA SwaInit ==
  ASSUME Init
  PROVE  SwaInv
<1>1. PICK a \in Arrivals : reqs = [r \in Reqs |-> Arrived(a[r])]
  BY Zenon DEF Init, Arrived
<1>2. /\ tree = [nodes |-> <<>>, kv |-> <<>>, free |-> 1 .. NumPages, live |-> {}]
      /\ inflight = <<>> /\ alloc = Idle /\ aborts = 0
  BY Zenon DEF Init
<1>3. \A r \in Reqs : a[r].ids \in Toks \ {<<>>} /\ a[r].out \in Nat
  <2>1. \A d \in Arrivals : /\ DOMAIN d = 1 .. NumReqs
                            /\ \A r \in DOMAIN d : /\ d[r].ids \in Seq(Nat) \ {<<>>}
                                                   /\ d[r].out \in Nat \ {0}
    BY SwaConstants
  <2>2. QED
    BY ONLY <2>1, a \in Arrivals DEF Reqs, Toks
<1>4. ASSUME NEW r \in Reqs
      PROVE  /\ reqs[r] \in ReqType /\ reqs[r].st = "pending" /\ reqs[r].prompt = Len(reqs[r].ids)
             /\ reqs[r].prompt > 0 /\ reqs[r].cached = 0 /\ reqs[r].hlen = 0
             /\ Len(reqs[r].row) = 0 /\ reqs[r].evicted = 0 /\ reqs[r].aborted = FALSE
             /\ Len(reqs[r].ids) \in Nat
  <2> DEFINE y == a[r]
  <2>1. y.ids \in Toks \ {<<>>} /\ y.out \in Nat
    BY <1>3
  <2>2. reqs[r] = Arrived(y)
    BY <1>1
  <2> HIDE DEF y
  <2> DEFINE x == Arrived(y)
  <2>3. /\ x \in ReqType /\ x.st = "pending" /\ x.ids = y.ids /\ x.prompt = Len(y.ids)
        /\ x.prompt > 0 /\ x.cached = 0 /\ x.hlen = 0 /\ Len(x.row) = 0 /\ x.evicted = 0
        /\ x.aborted = FALSE
    BY <2>1, ArrivedFields
  <2> HIDE DEF x
  <2>4. Len(y.ids) \in Nat
    BY <2>1, PrefixOrder
  <2>5. reqs[r] = x
    BY <2>2 DEF x
  <2>6. QED
    BY ONLY <2>3, <2>4, <2>5
<1>5. reqs \in [Reqs -> ReqType]
  BY <1>1, <1>4
<1>6. ASSUME NEW r \in Reqs
      PROVE  ReqInv(r)
  <2>1. ~Flying(r) /\ alloc.r # r
    BY <1>2 DEF Flying, Idle, Reqs
  <2>2. /\ reqs[r].st = "pending" /\ reqs[r].prompt = Len(reqs[r].ids)
        /\ reqs[r].prompt > 0 /\ reqs[r].cached = 0 /\ reqs[r].hlen = 0
        /\ Len(reqs[r].row) = 0 /\ reqs[r].evicted = 0 /\ reqs[r].aborted = FALSE
        /\ Len(reqs[r].ids) \in Nat
    BY <1>4
  <2>3. QED
    BY ONLY <2>1, <2>2 DEF ReqInv
<1>7. DOMAIN Handles = {}
  BY <1>4, HandlesAre DEF Alive
<1>8. TreeInv
  <2>1. Tree(tree, Handles)
    BY <1>2, <1>7, EmptyTree
  <2>2. RowsBacked
    BY <1>4 DEF RowsBacked, Alive
  <2>3. tree.live = {}
    BY <1>2
  <2>4. Cardinality(tree.live) <= NumSwa
    BY <2>3, FS_EmptySet, Sizes
  <2>5. QED
    BY <2>1, <2>2, <2>4 DEF TreeInv
<1>9. LoopInv
  <2>1. <<>> \in Seq(Flights) /\ Len(<<>>) = 0
    OBVIOUS
  <2>2. aborts \in 0 .. MaxAborts
    BY <1>2, Sizes
  <2>3. QED
    BY <1>2, <2>1, <2>2 DEF LoopInv
<1>10. QED
  BY <1>5, <1>6, <1>8, <1>9 DEF SwaInv

(* Every step keeps the invariant.                                         *)
LEMMA SwaNext ==
  ASSUME SwaInv, [Next]_vars
  PROVE  SwaInv'
<1>1. CASE UNCHANGED vars
  <2>1. UNCHANGED <<tree, reqs, inflight, alloc, aborts>>
    BY <1>1 DEF vars
  <2>2. QED
    BY <2>1, FailsStep
<1>2. ASSUME NEW r \in Reqs, Admit(r) PROVE SwaInv'
  BY <1>2, AdmitStep
<1>3. ASSUME NEW r \in Reqs, Continue(r) PROVE SwaInv'
  BY <1>3, ContinueStep
<1>4. ASSUME NEW r \in Reqs, Decode(r) PROVE SwaInv'
  BY <1>4, DecodeStep
<1>5. ASSUME NEW r \in Reqs, Abort(r) PROVE SwaInv'
  BY <1>5, AbortStep
<1>6. ASSUME NEW n \in DOMAIN tree.nodes, evict_full(n) PROVE SwaInv'
  BY <1>6, EvictFullStep
<1>7. ASSUME NEW n \in DOMAIN tree.nodes, evict_swa(n) PROVE SwaInv'
  BY <1>7, EvictSwaStep
<1>8. CASE AllocateFails
  <2>1. UNCHANGED <<tree, reqs, inflight, alloc, aborts>>
    BY <1>8 DEF AllocateFails
  <2>2. QED
    BY <2>1, FailsStep
<1>9. CASE Launch
  <2>1. alloc # Idle
    BY <1>9, Zenon DEF Launch
  <2>2. PICK a \in Reqs : a = alloc.r
    BY <2>1 DEF SwaInv, LoopInv
  <2>3. QED
    BY <1>9, <2>2, LaunchStep
<1>10. ASSUME NEW r \in Reqs, DrainChunk(r) PROVE SwaInv'
  BY <1>10, DrainChunkStep
<1>11. ASSUME NEW r \in Reqs, DrainDropped(r) PROVE SwaInv'
  BY <1>11, DrainDroppedStep
<1>12. ASSUME NEW r \in Reqs, NEW t \in Sampled, NEW stops \in BOOLEAN, DrainToken(r, t, stops)
       PROVE  SwaInv'
  BY <1>12, DrainTokenStep
<1>13. QED
  BY <1>1, <1>2, <1>3, <1>4, <1>5, <1>6, <1>7, <1>8, <1>9, <1>10, <1>11, <1>12, Zenon DEF Next

(* The inductive invariant: the tree is a tree whose locks are those of    *)
(* the handles of the running requests, whatever is admitted, launched,    *)
(* drained, committed, evicted or aborted, in any order.                   *)
THEOREM SwaInvariant == Spec => []SwaInv
<1>1. Init => SwaInv
  BY SwaInit
<1>2. SwaInv /\ [Next]_vars => SwaInv'
  BY SwaNext
<1>3. QED
  BY <1>1, <1>2, PTL DEF Spec

(* What the invariant says of the types.                                   *)
LEMMA TypesFollow ==
  ASSUME SwaInv
  PROVE  TypeOK
<1>1. /\ Shape(tree) /\ Cardinality(tree.live) <= NumSwa /\ reqs \in [Reqs -> ReqType]
      /\ \A r \in Reqs : ReqInv(r)
      /\ Len(inflight) <= 2 /\ aborts \in 0 .. MaxAborts
  BY DEF SwaInv, TreeInv, Tree, LoopInv
<1>2. DOMAIN tree.kv = UNION {{UpTo(n, i) : i \in 1 .. Len(n)} : n \in Nodes}
  <2>1. ASSUME NEW p \in DOMAIN tree.kv
        PROVE  \E n \in Nodes : \E i \in 1 .. Len(n) : p = UpTo(n, i)
    <3>1. p \in Toks /\ p # Root /\ \E n \in DOMAIN tree.nodes : IsPrefix(p, n)
      BY <1>1 DEF Shape
    <3>2. PICK n \in DOMAIN tree.nodes : IsPrefix(p, n)
      BY <3>1
    <3>3. n \in Toks
      BY <1>1, TreeToks
    <3>4. Len(p) \in 0 .. Len(n) /\ p = UpTo(n, Len(p))
      BY <3>1, <3>2, <3>3, PrefixUpTo
    <3>5. Len(p) \in 1 .. Len(n)
      BY <3>1, <3>3, <3>4, PrefixOrder
    <3>6. QED
      BY <3>4, <3>5 DEF Nodes
  <2>2. ASSUME NEW n \in Nodes, NEW i \in 1 .. Len(n)
        PROVE  UpTo(n, i) \in DOMAIN tree.kv
    <3>1. n \in DOMAIN tree.nodes /\ n \in Toks
      BY <1>1, TreeToks DEF Nodes
    <3>2. i \in 0 .. Len(n) /\ i # 0
      BY <3>1, PrefixOrder
    <3>3. UpTo(n, i) \in Toks /\ UpTo(n, i) # Root /\ IsPrefix(UpTo(n, i), n)
      BY <3>1, <3>2, UpTos
    <3>4. QED
      BY <1>1, <3>1, <3>3 DEF Shape
  <2>3. QED
    BY <2>1, <2>2
<1>3. \A n \in Nodes : tree.nodes[n].ref \in Nat /\ tree.nodes[n].sref \in Nat
  <2>1. \A n \in DOMAIN tree.nodes : tree.nodes[n] \in NodeType
    BY <1>1 DEF Shape
  <2>2. QED
    BY <2>1 DEF NodeType, Nodes
<1>4. \A r \in Reqs : reqs[r].hlen \in 0 .. reqs[r].cached /\ Len(reqs[r].row) = reqs[r].cached
  <2> TAKE r \in Reqs
  <2>1. reqs[r].hlen \in Nat /\ reqs[r].cached \in Nat
    BY <1>1 DEF ReqType
  <2>2. reqs[r].hlen <= reqs[r].cached /\ Len(reqs[r].row) = reqs[r].cached
    BY <1>1 DEF ReqInv
  <2>3. QED
    BY <2>1, <2>2
<1>5. swa_free(tree) \in Nat
  BY <1>1, SwaAvailable
<1>6. tree.free \subseteq 1 .. NumPages /\ tree.live \subseteq 1 .. NumPages
  BY <1>1 DEF Shape, Pool
<1>7. QED
  BY <1>1, <1>2, <1>3, <1>4, <1>5, <1>6 DEF TypeOK

(* What the invariant says of the locks.                                   *)
LEMMA LocksFollow ==
  ASSUME SwaInv
  PROVE  LocksExact
<1> DEFINE At(r) == UpTo(reqs[r].ids, reqs[r].hlen)
           R(n) == {r \in Reqs : Alive(r) /\ IsPrefix(n, At(r))}
           W(n) == {r \in R(n) : Len(n) > reqs[r].hlen - Window}
<1>1. Shape(tree) /\ Locks(tree, Handles)
  BY DEF SwaInv, TreeInv, Tree
<1>2. ASSUME NEW n \in Nodes
      PROVE  /\ tree.nodes[n].ref = Cardinality(R(n)) /\ tree.nodes[n].sref <= tree.nodes[n].ref
             /\ tree.nodes[n].sref >= Cardinality(W(n))
             /\ tree.nodes[n].tomb => tree.nodes[n].sref = 0
  <2>1. /\ tree.nodes[n].ref = Cardinality(Readers(Handles, n))
        /\ tree.nodes[n].sref = Cardinality(Holders(tree, Handles, n))
        /\ tree.nodes[n].tomb => tree.nodes[n].sref = 0
    BY <1>1 DEF Locks, Nodes
  <2>2. R(n) = Readers(Handles, n)
    BY HandlesAre DEF Readers
  <2>3. Holders(tree, Handles, n) \subseteq Readers(Handles, n)
    BY DEF Holders, Holds, Path, Readers
  <2>4. W(n) \subseteq Holders(tree, Handles, n)
    <3> SUFFICES ASSUME NEW r \in W(n) PROVE r \in Holders(tree, Handles, n)
      OBVIOUS
    <3>1. r \in Reqs /\ Alive(r) /\ IsPrefix(n, At(r)) /\ Len(n) > reqs[r].hlen - Window
      OBVIOUS
    <3>2. r \in DOMAIN Handles /\ Handles[r].at = At(r)
      BY <3>1, HandlesAre
    <3>3. Len(At(r)) = reqs[r].hlen
      <4>1. Request(reqs[r], Handles, r)
        BY <3>1, RunningRequest
      <4>2. QED
        BY <4>1, UpTos DEF Request
    <3>4. Anchored(tree, Handles[r])
      BY <1>1, <3>2 DEF Locks
    <3>5. n \in Path(tree, Handles[r].at)
      BY <3>1, <3>2 DEF Path, Nodes
    <3> HIDE DEF At
    <3>6. Holds(tree, Handles[r], n)
      BY <3>1, <3>2, <3>3, <3>4, <3>5 DEF Anchored
    <3>7. QED
      BY <3>2, <3>6 DEF Holders
  <2>5. IsFiniteSet(Readers(Handles, n))
    <3>1. Readers(Handles, n) \subseteq DOMAIN Handles /\ IsFiniteSet(DOMAIN Handles)
      BY <1>1 DEF Readers, Locks
    <3>2. QED
      BY <3>1, FS_Subset
  <2>6. Cardinality(Holders(tree, Handles, n)) <= Cardinality(Readers(Handles, n))
        /\ IsFiniteSet(Holders(tree, Handles, n))
    BY <2>3, <2>5, FS_Subset
  <2>7. Cardinality(W(n)) <= Cardinality(Holders(tree, Handles, n))
    <3> HIDE DEF W
    <3>1. QED
      BY <2>4, <2>6, FS_Subset
  <2>8. /\ Cardinality(W(n)) \in Nat /\ Cardinality(Holders(tree, Handles, n)) \in Nat
    <3> HIDE DEF W
    <3>1. QED
      BY <2>4, <2>6, FS_Subset, FS_CardinalityType
  <2> HIDE DEF R, W
  <2>9. QED
    BY <2>1, <2>2, <2>6, <2>7, <2>8
<1>3. QED
  BY <1>2 DEF LocksExact

(* What the invariant says of the leaves.                                  *)
LEMMA LeavesFollow ==
  ASSUME SwaInv
  PROVE  LeavesLive
<1>1. Locks(tree, Handles)
  BY DEF SwaInv, TreeInv, Tree
<1>2. QED
  BY <1>1 DEF LeavesLive, Locks, Nodes

(* Types: the kv map is closed under prefixes and covered by the nodes,    *)
(* and the window pool is never overdrawn.                                 *)
THEOREM SwaTypes == Spec => []TypeOK
<1>1. SwaInv => TypeOK
  BY TypesFollow
<1>2. QED
  BY <1>1, SwaInvariant, PTL

(* The reused part of a running request's row names the pages of the tree  *)
(* prefixes that its handle locks, whatever is evicted, trimmed, committed *)
(* or split meanwhile.                                                     *)
THEOREM SwaRowsBacked == Spec => []RowsBacked
<1>1. SwaInv => RowsBacked
  BY DEF SwaInv, TreeInv
<1>2. QED
  BY <1>1, SwaInvariant, PTL

(* The locks of every node are those of the handles: full locks exactly,   *)
(* window locks at least for every window, and none on a tombstone.        *)
THEOREM SwaLocksExact == Spec => []LocksExact
<1>1. SwaInv => LocksExact
  BY LocksFollow
<1>2. QED
  BY <1>1, SwaInvariant, PTL

(* A leaf is never a tombstone: an eviction takes the tombstones that it   *)
(* lays bare along.                                                        *)
THEOREM SwaLeavesLive == Spec => []LeavesLive
<1>1. SwaInv => LeavesLive
  BY LeavesFollow
<1>2. QED
  BY <1>1, SwaInvariant, PTL

-----------------------------------------------------------------------------
(* the pages *)

(* Every page is free, the page of one cached prefix, or among the pages O *)
(* that the requests own; and what a tree says of its window slots is true.*)
Sound(c, O) ==
    /\ O \subseteq Pool /\ c.free \cap O = {} /\ c.free \cap c.live = {}
    /\ \A p, q \in DOMAIN c.kv : c.kv[p] = c.kv[q] => p = q
    /\ \A p \in DOMAIN c.kv : /\ c.kv[p] \notin c.free \cup O
                              /\ c.kv[p] \in c.live <=> ~Dead(c, p)
    /\ \A x \in Pool : x \in c.free \cup O \/ \E p \in DOMAIN c.kv : c.kv[p] = x

(* The window slots of the pages O are what they were.                     *)
SameLive(c, d, O) == \A x \in O : x \in d.live <=> x \in c.live

(* Locks and splits leave the pages sound.                                 *)
LEMMA SameSound ==
  ASSUME NEW c, NEW d, NEW O, Sound(c, O), SamePages(c, d),
         \A p \in DOMAIN c.kv : Dead(d, p) <=> Dead(c, p)
  PROVE  Sound(d, O) /\ SameLive(c, d, O)
<1>1. c.kv = d.kv /\ c.free = d.free /\ c.live = d.live
  BY DEF SamePages
<1>2. QED
  BY <1>1 DEF Sound, SameLive

(* The same nodes with the same tombstones have the same dead prefixes.    *)
LEMMA TombsSame ==
  ASSUME NEW c, NEW d, DOMAIN d.nodes = DOMAIN c.nodes,
         \A m \in DOMAIN c.nodes : d.nodes[m].tomb = c.nodes[m].tomb
  PROVE  \A p : Dead(d, p) <=> Dead(c, p)
  BY DEF Dead, Lies

(* What was the same twice is the same, and so it is for fewer pages.      *)
LEMMA SameLives ==
  ASSUME NEW c, NEW d, NEW e, NEW O
  PROVE  /\ c.live = d.live => SameLive(c, d, O)
         /\ SameLive(c, d, O) /\ SameLive(d, e, O) => SameLive(c, e, O)
         /\ \A P : SameLive(c, d, O) /\ P \subseteq O => SameLive(c, d, P)
  BY DEF SameLive

(* A request gives back window slots, or pages, of its own.                *)
LEMMA FreeSound ==
  ASSUME NEW c, Shape(c), NEW O, Sound(c, O), NEW P \in SUBSET O
  PROVE  /\ Sound(_free_swa(c, P), O) /\ SameLive(c, _free_swa(c, P), O \ P)
         /\ Sound(_free_both(c, P), O \ P) /\ SameLive(c, _free_both(c, P), O \ P)
<1> DEFINE d == _free_swa(c, P)
           e == _free_both(c, P)
<1>1. P \in SUBSET Pool
  BY DEF Sound
<1>2. /\ SameNodes(c, d) /\ d.live = c.live \ P /\ d.free = c.free
      /\ SameNodes(c, e) /\ e.live = c.live \ P /\ e.free = c.free \cup P
  BY <1>1, FreeFields
<1> HIDE DEF d, e
<1>3. /\ d.nodes = c.nodes /\ d.kv = c.kv /\ e.nodes = c.nodes /\ e.kv = c.kv
  BY <1>2 DEF SameNodes
<1>4. \A p : (Dead(d, p) <=> Dead(c, p)) /\ (Dead(e, p) <=> Dead(c, p))
  BY <1>3, TombsSame
<1>5. \A p \in DOMAIN c.kv : c.kv[p] \notin P
  BY DEF Sound
<1>6. Sound(d, O) /\ SameLive(c, d, O \ P)
  BY <1>2, <1>3, <1>4, <1>5 DEF Sound, SameLive
<1>7. Sound(e, O \ P) /\ SameLive(c, e, O \ P)
  BY <1>2, <1>3, <1>4, <1>5 DEF Sound, SameLive
<1>8. QED
  BY <1>6, <1>7 DEF d, e

RowPages(row, a, b) == {row[j] : j \in a + 1 .. b}

(* What a tree that grows out of a row asks of it: past the handle its     *)
(* pages are the request's own, each once, with a window slot past the     *)
(* frontier; and what comes to life lies past the frontier.                *)
GrowsOut(c, k, ids, row, S, R, A, after, evicted, O, B, P) ==
    /\ after \in 0 .. k /\ evicted \in Nat
    /\ \A j \in after + 1 .. Len(ids) : row[j] \in O /\ (row[j] \in c.live <=> j > evicted)
    /\ \A i, j \in after + 1 .. Len(ids) : row[i] = row[j] => i = j
    /\ A \subseteq after + 1 .. k /\ \A j \in A : j > evicted
    /\ \A j \in 1 .. k : \A n \in R : Lies(c, UpTo(ids, j), n) => j \in A
    /\ \A j \in k + 1 .. Len(ids) : \A n \in S :
         Len(n) >= j /\ (\A m \in S : Len(m) >= j => Len(n) <= Len(m))
           => (Len(n) < Len(ids) <=> j <= evicted)
    /\ B = {c.kv[UpTo(ids, j)] : j \in A} \cup {row[j] : j \in (after + 1 .. k) \ A}
    /\ P = RowPages(row, after, Len(ids))

(* The tree holds the pages O but for P, of which B were given back.       *)
SoundBut(d, O, P, B) == Sound(d, (O \ P) \cup B) /\ B \cap (O \ P) = {}

(* What the tree takes in, it takes from the request; what it does not, or *)
(* had in its place, is left to be freed.                                  *)
LEMMA GrownSound ==
  ASSUME NEW c, Shape(c), NEW k, NEW ids, NEW row, NEW S, NEW R, NEW A,
         Grows(c, k, ids, row, S, R, A), NEW O, Sound(c, O),
         NEW after, NEW evicted, NEW B, NEW P,
         GrowsOut(c, k, ids, row, S, R, A, after, evicted, O, B, P)
  PROVE  SoundBut(Grown(c, k, ids, row, S, R, A), O, P, B)
<1> DEFINE d == Grown(c, k, ids, row, S, R, A)
           New == A \cup (k + 1 .. Len(ids))
           Q == (O \ P) \cup B
<1>1. /\ ids \in Toks /\ k \in 0 .. Len(ids) /\ Len(ids) \in Nat /\ k \in Nat
      /\ \A i \in 1 .. Len(ids) : UpTo(ids, i) \in DOMAIN c.kv <=> i <= k
      /\ R \in SUBSET Path(c, ids) /\ A \in SUBSET (1 .. k)
      /\ \A i \in A : \E n \in R : Lies(c, UpTo(ids, i), n)
  <2>1. ids \in Toks /\ k \in 0 .. Len(ids)
    BY DEF Grows
  <2>2. Len(ids) \in Nat
    BY <2>1, PrefixOrder
  <2>3. k \in Nat
    BY <2>1, <2>2
  <2>4. /\ \A i \in 1 .. Len(ids) : UpTo(ids, i) \in DOMAIN c.kv <=> i <= k
        /\ R \in SUBSET Path(c, ids) /\ A \in SUBSET (1 .. k)
        /\ \A i \in A : \E n \in R : Lies(c, UpTo(ids, i), n)
    BY Zenon DEF Grows
  <2>5. QED
    BY <2>1, <2>2, <2>3, <2>4
<1>2. /\ DOMAIN d.nodes = DOMAIN c.nodes \cup S /\ S \cap DOMAIN c.nodes = {}
      /\ \A n \in S : d.nodes[n] = NewNode(Len(n) < Len(ids))
      /\ \A n \in DOMAIN c.nodes : d.nodes[n].tomb = (c.nodes[n].tomb /\ n \notin R)
      /\ DOMAIN d.kv = DOMAIN c.kv \cup {UpTo(ids, i) : i \in k + 1 .. Len(ids)}
      /\ \A i \in New : d.kv[UpTo(ids, i)] = row[i]
      /\ \A p \in DOMAIN c.kv : (\A i \in A : p # UpTo(ids, i)) => d.kv[p] = c.kv[p]
      /\ d.free = c.free /\ d.live = c.live
  BY GrownFields
<1>3. /\ \A p \in DOMAIN c.kv : \A n : Lies(c, p, n) => Lies(d, p, n)
      /\ \A i \in k + 1 .. Len(ids) : \E n \in S :
           /\ Lies(d, UpTo(ids, i), n) /\ Len(n) \in i .. Len(ids)
           /\ \A m \in S : Len(m) >= i => Len(n) <= Len(m)
      /\ Shape(d)
  BY GrownLies, GrownShape
<1> HIDE DEF d
<1>4. /\ after \in 0 .. k /\ after \in Nat /\ evicted \in Nat
      /\ P = RowPages(row, after, Len(ids))
      /\ B = {c.kv[UpTo(ids, j)] : j \in A} \cup {row[j] : j \in (after + 1 .. k) \ A}
      /\ \A j \in after + 1 .. Len(ids) : row[j] \in O /\ (row[j] \in c.live <=> j > evicted)
      /\ \A i, j \in after + 1 .. Len(ids) : row[i] = row[j] => i = j
      /\ A \subseteq after + 1 .. k /\ \A j \in A : j > evicted
      /\ \A j \in 1 .. k : \A n \in R : Lies(c, UpTo(ids, j), n) => j \in A
      /\ \A j \in k + 1 .. Len(ids) : \A n \in S :
           Len(n) >= j /\ (\A m \in S : Len(m) >= j => Len(n) <= Len(m))
             => (Len(n) < Len(ids) <=> j <= evicted)
  BY <1>1 DEF GrowsOut
<1>5. /\ New \subseteq after + 1 .. Len(ids)
      /\ after + 1 .. k \subseteq after + 1 .. Len(ids)
      /\ after + 1 .. Len(ids) \subseteq (after + 1 .. k) \cup (k + 1 .. Len(ids))
      /\ \A j \in A : j \in 1 .. Len(ids) /\ j <= k
  <2>1. /\ k \in Nat /\ after \in Nat /\ after <= k /\ k <= Len(ids) /\ Len(ids) \in Nat
        /\ A \subseteq after + 1 .. k
    BY <1>1, <1>4
  <2> DEFINE last == Len(ids)
  <2> HIDE DEF last
  <2>2. /\ after + 1 .. k \subseteq after + 1 .. last
        /\ k + 1 .. last \subseteq after + 1 .. last
        /\ after + 1 .. last \subseteq (after + 1 .. k) \cup (k + 1 .. last)
        /\ \A j \in after + 1 .. k : j \in 1 .. last /\ j <= k
    BY ONLY <2>1 DEF last
  <2>3. QED
    BY <2>1, <2>2 DEF last
<1>6. /\ O \subseteq Pool /\ c.free \cap O = {} /\ c.free \cap c.live = {}
      /\ \A p, q \in DOMAIN c.kv : c.kv[p] = c.kv[q] => p = q
      /\ \A p \in DOMAIN c.kv : c.kv[p] \notin c.free /\ c.kv[p] \notin O
      /\ \A p \in DOMAIN c.kv : c.kv[p] \in c.live <=> ~Dead(c, p)
      /\ \A x \in Pool : x \in c.free \/ x \in O \/ \E p \in DOMAIN c.kv : c.kv[p] = x
      /\ \A p \in DOMAIN c.kv : c.kv[p] \in Pool
  BY DEF Sound, Shape
<1>7. \A j \in A : UpTo(ids, j) \in DOMAIN c.kv
  BY <1>1, <1>5
<1>8. \A x : x \in P <=> \E j \in after + 1 .. Len(ids) : x = row[j]
  BY <1>4 DEF RowPages
<1>9. \A x : x \in B <=> \/ \E j \in A : x = c.kv[UpTo(ids, j)]
                         \/ \E j \in (after + 1 .. k) \ A : x = row[j]
  BY <1>4
<1> HIDE DEF New
(* a cached prefix has a new page or the old one *)
<1>10. ASSUME NEW p \in DOMAIN d.kv
       PROVE  \/ \E j \in New : p = UpTo(ids, j) /\ d.kv[p] = row[j]
              \/ p \in DOMAIN c.kv /\ d.kv[p] = c.kv[p] /\ \A j \in A : p # UpTo(ids, j)
  <2>1. CASE p \in DOMAIN c.kv /\ \A j \in A : p # UpTo(ids, j)
    BY <1>2, <2>1
  <2>2. CASE \E j \in A : p = UpTo(ids, j)
    BY <1>2, <2>2 DEF New
  <2>3. CASE \E j \in k + 1 .. Len(ids) : p = UpTo(ids, j)
    BY <1>2, <2>3 DEF New
  <2>4. QED
    BY <1>2, <1>10, <2>1, <2>2, <2>3
<1>11. B \cap (O \ P) = {}
  BY <1>4, <1>5, <1>6, <1>7, <1>8, <1>9
<1>12. Q \subseteq Pool /\ d.free \cap Q = {} /\ d.free \cap d.live = {}
  <2>1. \A x \in B : x \in Pool /\ x \notin c.free
    BY <1>4, <1>5, <1>6, <1>7, <1>9
  <2>2. QED
    BY <1>2, <1>6, <2>1
<1>13. ASSUME NEW p \in DOMAIN d.kv, NEW q \in DOMAIN d.kv, d.kv[p] = d.kv[q]
       PROVE  p = q
  <2>1. CASE (\E j \in New : p = UpTo(ids, j) /\ d.kv[p] = row[j])
             /\ (\E j \in New : q = UpTo(ids, j) /\ d.kv[q] = row[j])
    BY <1>4, <1>5, <1>13, <2>1
  <2>2. \A j \in New : row[j] \in O
    BY <1>4, <1>5
  <2>3. QED
    BY <1>6, <1>10, <1>13, <2>1, <2>2
<1>14. ASSUME NEW p \in DOMAIN d.kv
       PROVE  d.kv[p] \notin d.free \cup Q
  <2>1. CASE \E j \in New : p = UpTo(ids, j) /\ d.kv[p] = row[j]
    <3>1. PICK j \in New : d.kv[p] = row[j]
      BY <2>1
    <3>2. j \in after + 1 .. Len(ids) /\ row[j] \in O /\ row[j] \in P
      BY <1>4, <1>5, <1>8
    <3>3. j \notin (after + 1 .. k) \ A
      BY <1>1, <1>4 DEF New
    <3>4. row[j] \notin B
      <4>1. ASSUME NEW i \in A, row[j] = c.kv[UpTo(ids, i)]
            PROVE  FALSE
        BY <1>6, <1>7, <3>2, <4>1
      <4>2. ASSUME NEW i \in (after + 1 .. k) \ A, row[j] = row[i]
            PROVE  FALSE
        <5>1. i \in after + 1 .. Len(ids)
          BY <1>5
        <5>2. i = j
          BY <1>4, <3>2, <4>2, <5>1
        <5>3. QED
          BY <3>3, <5>2
      <4>3. QED
        BY <1>9, <4>1, <4>2
    <3>5. QED
      BY <1>2, <1>6, <3>1, <3>2, <3>4
  <2>2. CASE p \in DOMAIN c.kv /\ d.kv[p] = c.kv[p] /\ \A j \in A : p # UpTo(ids, j)
    <3>1. c.kv[p] \notin B
      BY <1>4, <1>5, <1>6, <1>7, <1>9, <2>2
    <3>2. QED
      BY <1>2, <1>6, <2>2, <3>1
  <2>3. QED
    BY <1>10, <2>1, <2>2
<1>15. ASSUME NEW p, NEW n, Lies(d, p, n)
       PROVE  Dead(d, p) <=> d.nodes[n].tomb
  BY <1>3, <1>15, OneOwner DEF Dead
<1>16. ASSUME NEW p \in DOMAIN d.kv
       PROVE  d.kv[p] \in d.live <=> ~Dead(d, p)
  <2>1. CASE \E j \in A : p = UpTo(ids, j)
    <3>1. PICK j \in A : p = UpTo(ids, j)
      BY <2>1
    <3>2. PICK n \in R : Lies(c, p, n)
      BY <1>1, <3>1
    <3>3. Lies(d, p, n) /\ ~d.nodes[n].tomb
      BY <1>2, <1>3, <1>7, <3>1, <3>2 DEF Lies
    <3>4. d.kv[p] = row[j] /\ row[j] \in c.live
      BY <1>2, <1>4, <1>5, <3>1 DEF New
    <3>5. QED
      BY <1>2, <1>15, <3>3, <3>4
  <2>2. CASE \E j \in k + 1 .. Len(ids) : p = UpTo(ids, j)
    <3>1. PICK j \in k + 1 .. Len(ids) : p = UpTo(ids, j)
      BY <2>2
    <3>2. PICK n \in S : /\ Lies(d, p, n) /\ Len(n) \in j .. Len(ids)
                         /\ \A m \in S : Len(m) >= j => Len(n) <= Len(m)
      BY <1>3, <3>1
    <3>3. d.nodes[n].tomb = (Len(n) < Len(ids))
      <4>1. d.nodes[n] = NewNode(Len(n) < Len(ids))
        BY <1>2
      <4>2. QED
        BY ONLY <4>1 DEF NewNode
    <3>4. Len(n) < Len(ids) <=> j <= evicted
      BY <1>4, <3>2
    <3>5. d.kv[p] = row[j] /\ j \in after + 1 .. Len(ids)
      BY <1>2, <1>5, <3>1 DEF New
    <3>6. row[j] \in c.live <=> j > evicted
      BY <1>4, <3>5
    <3>7. j \in Int /\ evicted \in Int
      BY <1>4
    <3>8. j > evicted <=> ~(j <= evicted)
      BY ONLY <3>7
    <3>9. Dead(d, p) <=> d.nodes[n].tomb
      BY <1>15, <3>2
    <3>10. QED
      BY <1>2, <3>3, <3>4, <3>5, <3>6, <3>8, <3>9
  <2>3. CASE p \in DOMAIN c.kv /\ \A j \in A : p # UpTo(ids, j)
    <3>1. d.kv[p] = c.kv[p]
      BY <1>2, <2>3
    <3>2. PICK n : Lies(c, p, n)
      BY <2>3 DEF Shape
    <3>3. Lies(d, p, n) /\ n \in DOMAIN c.nodes
      BY <1>3, <2>3, <3>2 DEF Lies
    <3>4. n \notin R
      <4>1. SUFFICES ASSUME n \in R PROVE FALSE
        OBVIOUS
      <4>2. p \in Toks /\ p # Root /\ n \in Toks /\ IsPrefix(p, n) /\ IsPrefix(n, ids)
        BY <1>1, <2>3, <3>2, <4>1, TreeToks DEF Path, Lies
      <4>3. IsPrefix(p, ids)
        BY <1>1, <4>2, PrefixOrder
      <4>4. Len(p) \in 0 .. Len(ids) /\ p = UpTo(ids, Len(p)) /\ Len(p) # 0
        BY <1>1, <4>2, <4>3, PrefixUpTo, PrefixOrder
      <4>5. Len(p) \in 1 .. Len(ids) /\ Len(p) <= k
        BY <1>1, <2>3, <4>4
      <4>6. Len(p) \in 1 .. k
        BY <1>1, <4>5
      <4>7. QED
        BY <1>4, <2>3, <3>2, <4>1, <4>4, <4>6
    <3>5. Dead(d, p) <=> c.nodes[n].tomb
      BY <1>2, <1>15, <3>3, <3>4
    <3>6. Dead(c, p) <=> c.nodes[n].tomb
      BY <3>2, OneOwner DEF Dead
    <3>7. QED
      BY <1>2, <1>6, <2>3, <3>1, <3>5, <3>6
  <2>4. QED
    BY <1>2, <2>1, <2>2, <2>3
<1>17. ASSUME NEW x \in Pool
       PROVE  x \in d.free \cup Q \/ \E p \in DOMAIN d.kv : d.kv[p] = x
  <2>1. \A j \in New : UpTo(ids, j) \in DOMAIN d.kv /\ d.kv[UpTo(ids, j)] = row[j]
    BY <1>2, <1>7 DEF New
  <2>2. CASE x \in O /\ x \in P
    <3>1. PICK j \in after + 1 .. Len(ids) : x = row[j]
      BY <1>8, <2>2
    <3>2. j \in New \/ j \in (after + 1 .. k) \ A
      BY <1>5 DEF New
    <3>3. QED
      BY <1>9, <2>1, <3>1, <3>2
  <2>3. CASE \E p \in DOMAIN c.kv : c.kv[p] = x
    <3>1. PICK p \in DOMAIN c.kv : c.kv[p] = x
      BY <2>3
    <3>2. CASE \E j \in A : p = UpTo(ids, j)
      BY <1>9, <3>1, <3>2
    <3>3. CASE \A j \in A : p # UpTo(ids, j)
      BY <1>2, <3>1, <3>3
    <3>4. QED
      BY <3>2, <3>3
  <2>4. QED
    BY <1>2, <1>6, <2>2, <2>3
<1> HIDE DEF Q
<1>18. Sound(d, Q)
  BY <1>12, <1>13, <1>14, <1>16, <1>17 DEF Sound
<1>19. QED
  BY <1>11, <1>18 DEF SoundBut, d, Q

(* The nodes to reconcile span what is matched past the handle.            *)
LEMMA SpannedIs ==
  ASSUME NEW c, Shape(c), NEW ids \in Toks, NEW k \in 0 .. Len(ids),
         \A i \in 1 .. Len(ids) : UpTo(ids, i) \in DOMAIN c.kv <=> i <= k,
         k # 0 => UpTo(ids, k) \in DOMAIN c.nodes,
         NEW after \in 0 .. Len(ids), after # 0 => UpTo(ids, after) \in DOMAIN c.nodes
  PROVE  after <= k /\ SpannedOf(c, Fresh(c, ids, after)) = after + 1 .. k
<1> DEFINE F == Fresh(c, ids, after)
<1>1. Len(ids) \in Nat /\ k \in Nat /\ after \in Nat /\ k <= Len(ids)
  BY PrefixOrder
<1>2. after <= k
  <2>1. CASE after = 0
    BY <1>1, <2>1
  <2>2. CASE after # 0
    <3>1. after \in 1 .. Len(ids)
      BY <1>1, <2>2
    <3>2. UpTo(ids, after) \in DOMAIN c.kv
      BY <2>2, TreeToks
    <3>3. QED
      BY <3>1, <3>2
  <2>3. QED
    BY <2>1, <2>2
<1>3. ASSUME NEW n \in Path(c, ids), Len(n) > after
      PROVE  /\ n \in DOMAIN c.nodes /\ n = UpTo(ids, Len(n)) /\ Len(n) \in 1 .. k
             /\ Start(c, n) \in Nat /\ Start(c, n) >= after
  <2>1. n \in DOMAIN c.nodes /\ IsPrefix(n, ids) /\ n \in Toks /\ n # Root /\ n \in DOMAIN c.kv
    BY TreeToks DEF Path
  <2>2. Len(n) \in 0 .. Len(ids) /\ n = UpTo(ids, Len(n)) /\ Len(n) # 0
    BY <2>1, PrefixUpTo, PrefixOrder
  <2>3. Len(n) \in 1 .. Len(ids)
    BY <1>1, <2>2
  <2>4. Len(n) <= k
    BY <2>1, <2>2, <2>3
  <2>5. Start(c, n) \in Nat
    BY <2>1, <2>2, StartIs
  <2>6. CASE after # 0
    <3> DEFINE a == UpTo(ids, after)
    <3>1. a \in DOMAIN c.nodes /\ Len(a) = after /\ a \in Toks /\ IsPrefix(a, ids)
      BY <2>6, UpTos
    <3> HIDE DEF a
    <3>2. IsPrefix(a, n) /\ a # n
      BY <1>1, <1>3, <2>1, <2>2, <3>1, PrefixOrder
    <3>3. Len(a) <= Start(c, n)
      BY <2>1, <3>1, <3>2, StartIs DEF Path
    <3>4. QED
      BY <1>1, <2>1, <2>2, <2>3, <2>4, <2>5, <3>1, <3>3
  <2>7. QED
    BY <1>1, <2>1, <2>2, <2>3, <2>4, <2>5, <2>6
<1>4. ASSUME NEW j \in SpannedOf(c, F)
      PROVE  j \in after + 1 .. k
  <2>1. PICK n \in F : j \in Start(c, n) + 1 .. Len(n)
    BY <1>4 DEF SpannedOf
  <2>2. n \in Path(c, ids) /\ Len(n) > after
    BY DEF Fresh
  <2>3. Len(n) \in 1 .. k /\ Start(c, n) \in Nat /\ Start(c, n) >= after
    BY <1>3, <2>2
  <2>4. QED
    BY <1>1, <2>1, <2>3
<1>5. ASSUME NEW j \in after + 1 .. k
      PROVE  j \in SpannedOf(c, F)
  <2>1. /\ j \in 1 .. Len(ids) /\ j <= k /\ k # 0 /\ j \in 0 .. k /\ j > after /\ j \in 0 .. Len(ids)
    BY <1>1, <1>2
  <2>2. UpTo(ids, j) \in DOMAIN c.kv /\ UpTo(ids, k) \in DOMAIN c.nodes
    BY <2>1
  <2>3. /\ UpTo(ids, j) \in Toks \ {Root} /\ Len(UpTo(ids, j)) = j
        /\ UpTo(ids, k) \in Toks /\ IsPrefix(UpTo(ids, k), ids)
        /\ IsPrefix(UpTo(ids, j), UpTo(ids, k))
    BY <2>1, UpTos, UpToUpTo
  <2>4. PICK n : Lies(c, UpTo(ids, j), n)
    BY <2>2 DEF Shape
  <2>5. n \in DOMAIN c.nodes /\ n \in Toks /\ IsPrefix(UpTo(ids, j), n) /\ IsPrefix(n, UpTo(ids, k))
    BY <2>2, <2>3, <2>4, TreeToks DEF Lies
  <2>6. IsPrefix(n, ids) /\ j <= Len(n) /\ Len(n) \in Nat
    BY <2>3, <2>5, PrefixOrder
  <2>7. n \in F
    BY <1>1, <2>1, <2>5, <2>6 DEF Fresh, Path
  <2>8. j > Start(c, n)
    BY <2>3, <2>4, <2>5, CellLies
  <2>9. Start(c, n) \in Nat
    BY <2>5, <2>6, StartIs
  <2>10. j \in Start(c, n) + 1 .. Len(n)
    BY <2>1, <2>6, <2>8, <2>9
  <2>11. QED
    BY <2>7, <2>10 DEF SpannedOf
<1>6. QED
  BY <1>2, <1>4, <1>5

(* Where the suffix of a tree ends in a tombstone.                         *)
LEMMA SuffixDead ==
  ASSUME NEW ids \in Toks, NEW k \in 0 .. Len(ids), NEW evicted \in Nat,
         evicted = 0 \/ evicted < Len(ids), NEW S, S = SuffixOf(k, ids, evicted),
         NEW j \in k + 1 .. Len(ids), NEW n \in S, Len(n) >= j,
         \A m \in S : Len(m) >= j => Len(n) <= Len(m)
  PROVE  Len(n) < Len(ids) <=> j <= evicted
<1> DEFINE last == Len(ids)
           e == TombEnd(k, last, evicted)
<1>1. last \in Nat /\ k \in Nat /\ j \in Nat /\ k < j /\ j <= last /\ k < last /\ evicted < last
  <2>1. last \in Nat
    BY PrefixOrder
  <2>2. QED
    BY <2>1
<1>2. /\ e \in k .. last - 1 /\ (e > k => e <= evicted) /\ (evicted <= e \/ evicted <= k)
  BY <1>1, TombEndIs
<1>3. S = {UpTo(ids, last)} \cup (IF e > k THEN {UpTo(ids, e)} ELSE {})
  BY <1>1 DEF SuffixOf
<1>4. e \in Nat /\ e \in 0 .. last
  BY <1>1, <1>2
<1>5. Len(UpTo(ids, last)) = last /\ Len(UpTo(ids, e)) = e
  <2>1. last \in 0 .. last
    BY <1>1
  <2>2. QED
    BY <1>4, <2>1, UpTos
<1> HIDE DEF e, last
<1>6. \/ n = UpTo(ids, last) /\ Len(n) = last
      \/ n = UpTo(ids, e) /\ Len(n) = e /\ e > k
  BY <1>3, <1>5
<1>7. CASE j <= evicted
  <2>1. evicted > k /\ evicted <= e /\ e > k /\ e >= j
    BY <1>1, <1>2, <1>4, <1>7
  <2>2. UpTo(ids, e) \in S
    BY <1>3, <2>1
  <2>3. Len(n) <= e
    BY <1>5, <2>1, <2>2
  <2>4. e < last
    BY <1>1, <1>2, <1>4
  <2>5. Len(n) \in Nat
    BY <1>1, <1>4, <1>6
  <2>6. QED
    BY <1>1, <1>4, <1>7, <2>3, <2>4, <2>5 DEF last
<1>8. CASE ~(j <= evicted)
  <2>1. ~(n = UpTo(ids, e) /\ Len(n) = e /\ e > k)
    BY <1>1, <1>2, <1>4, <1>8
  <2>2. Len(n) = last
    BY <1>6, <2>1
  <2>3. QED
    BY <1>1, <1>8, <2>2 DEF last
<1>9. QED
  BY <1>7, <1>8


(* What an insert asks of the row that it is given.                        *)
RowFit(c, ids, row, evicted, after, O) ==
    /\ evicted = 0 \/ evicted < Len(ids)
    /\ after \in 0 .. Len(ids) /\ (after # 0 => UpTo(ids, after) \in DOMAIN c.nodes)
    /\ \A j \in after + 1 .. Len(ids) : row[j] \in O /\ (row[j] \in c.live <=> j > evicted)
    /\ \A i, j \in after + 1 .. Len(ids) : row[i] = row[j] => i = j

(* A prefix that lies in a revived node after the split lies past the      *)
(* frontier.                                                               *)
LEMMA RevivedLies ==
  ASSUME NEW c, Shape(c), NEW ids \in Toks, NEW evicted \in Nat,
         NEW R \in SUBSET Path(c, ids), \A n \in R : evicted < Len(n),
         NEW s, DOMAIN s.nodes = DOMAIN c.nodes \cup ({HeadOf(c, ids, evicted, R)} \ {Root}),
         NEW j \in 1 .. Len(ids), NEW n \in R, Lies(s, UpTo(ids, j), n)
  PROVE  j \in AdoptedOf(c, evicted, R)
<1> DEFINE p == UpTo(ids, j)
           h == UpTo(ids, evicted)
<1>1. Len(ids) \in Nat /\ j \in 0 .. Len(ids) /\ j \in Nat /\ j # 0
  BY PrefixOrder
<1>2. p \in Toks /\ Len(p) = j /\ p # Root /\ IsPrefix(p, ids)
  BY <1>1, UpTos
<1> HIDE DEF p
<1>3. n \in DOMAIN c.nodes /\ n \in Toks /\ IsPrefix(n, ids) /\ IsPrefix(p, n)
  BY TreeToks DEF Path, Lies, p
<1>4. Lies(c, p, n)
  BY <1>3 DEF Lies, p
<1>5. j > Start(c, n) /\ Start(c, n) \in Nat /\ Len(n) \in Nat /\ j <= Len(n)
      /\ Len(n) <= Len(ids)
  BY <1>2, <1>3, <1>4, CellLies, StartIs, PrefixOrder
<1>6. ~(j <= evicted)
  <2>1. SUFFICES ASSUME j <= evicted PROVE FALSE
    OBVIOUS
  <2>2. Start(c, n) < evicted /\ evicted < Len(n)
    BY <1>1, <1>5, <2>1
  <2>3. HeadOf(c, ids, evicted, R) = h
    BY <2>2 DEF HeadOf
  <2>4. evicted \in 0 .. Len(ids) /\ evicted # 0 /\ j \in 0 .. evicted
    BY <1>1, <1>5, <2>1, <2>2
  <2>5. h \in Toks /\ Len(h) = evicted /\ h # Root /\ IsPrefix(p, h)
    BY <2>4, UpTos, UpToUpTo DEF p
  <2>6. h \in DOMAIN s.nodes
    BY <2>3, <2>5
  <2> HIDE DEF h
  <2>7. IsPrefix(n, h)
    BY <2>5, <2>6 DEF Lies, p
  <2>8. Len(n) <= evicted
    BY <1>3, <2>5, <2>7, PrefixOrder
  <2>9. QED
    BY <1>5, <2>2, <2>8
<1>7. j \in High(evicted, Start(c, n)) + 1 .. Len(n)
  BY <1>1, <1>5, <1>6 DEF High
<1>8. QED
  BY <1>7 DEF AdoptedOf

(* An insert shares the pages of the row past the handle between the tree  *)
(* and what it leaves to be freed.                                         *)
LEMMA InsertSound ==
  ASSUME NEW c0, NEW H, Tree(c0, H), NEW ids \in Toks,
         NEW row \in Seq(Pool), Len(ids) <= Len(row), NEW evicted \in Nat, NEW after,
         NEW O, Sound(c0, O), RowFit(c0, ids, row, evicted, after, O)
  PROVE  LET i == insert(c0, ids, row, evicted, after)
             P == RowPages(row, after, Len(ids))
         IN SoundBut(i.c, O, P, i.freed)
<1> DEFINE c == Walked(c0, ids)
           k == MatchLen(c0, ids)
           F == Fresh(c, ids, after)
           R == {n \in F : Revivable(c, n, evicted)}
           h == HeadOf(c, ids, evicted, R)
           s == split_at(c, h)
           S == SuffixOf(k, ids, evicted)
           A == AdoptedOf(c, evicted, R)
           i == insert(c0, ids, row, evicted, after)
<1>1. Shape(c0)
  BY DEF Tree
<1>2. /\ Tree(c, H) /\ SamePages(c0, c)
      /\ UpTo(ids, k) = Root \/ UpTo(ids, k) \in DOMAIN c.nodes
      /\ DOMAIN c0.nodes \subseteq DOMAIN c.nodes
      /\ \A q \in DOMAIN c0.kv : Dead(c, q) <=> Dead(c0, q)
  BY WalkedIs
<1>3. /\ k \in 0 .. Len(ids)
      /\ \A j \in 1 .. Len(ids) : UpTo(ids, j) \in DOMAIN c.kv <=> j <= k
  BY <1>1, <1>2, MatchIs DEF SamePages
<1>4. k # 0 => UpTo(ids, k) \in DOMAIN c.nodes
  BY <1>2, <1>3, UpTos
<1>5. F \in SUBSET Path(c, ids) /\ R \in SUBSET Path(c, ids) /\ R \subseteq F
      /\ \A n \in R : evicted < Len(n) /\ c.nodes[n].ref = 0
  BY DEF Fresh, Revivable
<1>6. i = Reconciled(c, k, ids, row, evicted, F, R)
  BY DEF insert
<1>7. /\ i.c = Grown(s, k, ids, row, S, R, A)
      /\ i.freed = {c.kv[UpTo(ids, j)] : j \in A} \cup {row[j] : j \in SpannedOf(c, F) \ A}
  <2> HIDE DEF c, k, F, R, i
  <2>1. QED
    BY <1>6, ReconciledFields
<1>8. after <= k /\ SpannedOf(c, F) = after + 1 .. k
  <2>1. after \in 0 .. Len(ids) /\ (after # 0 => UpTo(ids, after) \in DOMAIN c.nodes)
    BY <1>2 DEF RowFit
  <2>2. Shape(c)
    BY <1>2 DEF Tree
  <2> HIDE DEF c, k
  <2>3. QED
    BY <1>3, <1>4, <2>1, <2>2, SpannedIs
<1>9. A \subseteq SpannedOf(c, F)
  <2>1. SUFFICES ASSUME NEW j \in A PROVE j \in SpannedOf(c, F)
    OBVIOUS
  <2>2. PICK n \in R : j \in High(evicted, Start(c, n)) + 1 .. Len(n)
    BY DEF AdoptedOf
  <2>3. n \in DOMAIN c.nodes /\ Shape(c) /\ n \in F /\ n \in Toks
    BY <1>2, <1>5, TreeToks DEF Tree, Path
  <2> HIDE DEF c, F
  <2>4. Start(c, n) \in Nat /\ Len(n) \in Nat
    BY <2>3, StartIs, PrefixOrder
  <2>5. j \in Start(c, n) + 1 .. Len(n)
    BY <2>2, <2>4 DEF High
  <2>6. QED
    BY <2>3, <2>5 DEF SpannedOf
<1> HIDE DEF c, k, F, R
<1>10. Tree(s, H) /\ SamePages(c, s) /\ Grows(s, k, ids, row, S, R, A)
  BY <1>2, <1>3, <1>4, <1>5, ReconciledGrows
<1>11. /\ h = Root \/ h \in DOMAIN c.kv
       /\ \A n \in R : \A j \in High(evicted, Start(c, n)) + 1 .. Len(n) : j > evicted
  BY <1>2, <1>3, <1>5, HeadIs DEF Tree
<1>12. /\ DOMAIN s.nodes = DOMAIN c.nodes \cup ({h} \ {Root})
       /\ \A q \in DOMAIN c.kv : Dead(s, q) <=> Dead(c, q)
  <2> HIDE DEF h
  <2>1. QED
    BY <1>2, <1>11, SplitKeeps
<1>13. Sound(s, O) /\ c0.live = s.live /\ Shape(s) /\ Shape(c)
  <2>1. Sound(c, O)
    BY <1>2, SameSound
  <2>2. Sound(s, O)
    BY <1>10, <1>12, <2>1, SameSound
  <2>3. QED
    BY <1>2, <1>10, <2>2 DEF SamePages, Tree
<1>14. ASSUME NEW B, B = {s.kv[UpTo(ids, j)] : j \in A} \cup {row[j] : j \in (after + 1 .. k) \ A},
              NEW P, P = RowPages(row, after, Len(ids))
       PROVE  GrowsOut(s, k, ids, row, S, R, A, after, evicted, O, B, P)
  <2>1. after \in 0 .. k
    BY <1>3, <1>8 DEF RowFit
  <2>2. /\ \A j \in after + 1 .. Len(ids) : row[j] \in O /\ (row[j] \in s.live <=> j > evicted)
        /\ \A m, j \in after + 1 .. Len(ids) : row[m] = row[j] => m = j
    BY <1>13 DEF RowFit
  <2>3. A \subseteq after + 1 .. k /\ \A j \in A : j > evicted
    <3>1. \A j \in A : j > evicted
      BY <1>11 DEF AdoptedOf
    <3> HIDE DEF A
    <3>2. QED
      BY <1>8, <1>9, <3>1
  <2>4. ASSUME NEW j \in 1 .. k, NEW n \in R, Lies(s, UpTo(ids, j), n)
        PROVE  j \in A
    <3>1. j \in 1 .. Len(ids)
      BY <1>3, PrefixOrder
    <3>2. DOMAIN s.nodes = DOMAIN c.nodes \cup ({HeadOf(c, ids, evicted, R)} \ {Root})
      BY <1>12
    <3> HIDE DEF s, h
    <3>3. QED
      BY <1>5, <1>13, <2>4, <3>1, <3>2, RevivedLies
  <2>5. ASSUME NEW j \in k + 1 .. Len(ids), NEW n \in S,
               Len(n) >= j /\ \A m \in S : Len(m) >= j => Len(n) <= Len(m)
        PROVE  Len(n) < Len(ids) <=> j <= evicted
    <3>1. evicted = 0 \/ evicted < Len(ids)
      BY DEF RowFit
    <3>2. QED
      BY <1>3, <2>5, <3>1, SuffixDead
  <2> HIDE DEF s, S, A
  <2>6. QED
    BY <1>14, <2>1, <2>2, <2>3, <2>4, <2>5 DEF GrowsOut
<1> HIDE DEF s, S, A, i, h
<1>15. i.freed = {s.kv[UpTo(ids, j)] : j \in A} \cup {row[j] : j \in (after + 1 .. k) \ A}
  BY <1>7, <1>8, <1>10 DEF SamePages
<1>16. ASSUME NEW B, B = i.freed, NEW P, P = RowPages(row, after, Len(ids))
       PROVE  SoundBut(i.c, O, P, B)
  <2>1. B = {s.kv[UpTo(ids, j)] : j \in A} \cup {row[j] : j \in (after + 1 .. k) \ A}
    BY <1>15, <1>16
  <2>2. GrowsOut(s, k, ids, row, S, R, A, after, evicted, O, B, P)
    BY <1>14, <1>16, <2>1
  <2>3. SoundBut(Grown(s, k, ids, row, S, R, A), O, P, B)
    <3>1. Shape(s) /\ Grows(s, k, ids, row, S, R, A) /\ Sound(s, O)
      BY <1>10, <1>13
    <3>2. QED
      BY ONLY <2>2, <3>1, GrownSound
  <2>4. QED
    BY <1>7, <2>3
<1>17. SoundBut(i.c, O, RowPages(row, after, Len(ids)), i.freed)
  BY <1>16
<1>18. QED
  BY <1>17 DEF i

(* The request's own part of its row: pages of its own, each once, whose   *)
(* window slots are given back up to the frontier.                         *)
Owns(c, q, O) ==
    /\ \A j \in q.hlen + 1 .. Len(q.row) : q.row[j] \in O /\ (q.row[j] \in c.live <=> j > q.evicted)
    /\ \A i, j \in q.hlen + 1 .. Len(q.row) : q.row[i] = q.row[j] => i = j

(* The tree holds the pages Q of the pages O, which lose no slot to it.    *)
SoundTo(c, d, Q) == Sound(d, Q) /\ SameLive(c, d, Q)

(* An insert leaves of the request's own pages those past what it inserts. *)
LEMMA InsertedSound ==
  ASSUME NEW c, NEW H, Tree(c, H), NEW r, NEW q, Request(q, H, r),
         NEW cached \in 0 .. Len(q.ids), cached <= Len(q.row), q.hlen <= cached,
         q.evicted = 0 \/ q.evicted < cached, NEW O, Sound(c, O), Owns(c, q, O)
  PROVE  SoundTo(c, Inserted(c, q, cached), O \ RowPages(q.row, q.hlen, cached))
<1> DEFINE ids == UpTo(q.ids, cached)
           i == insert(c, ids, q.row, q.evicted, q.hlen)
           l == dec_lock(i.c, UpTo(q.ids, q.hlen), q.uuid)
           d == Inserted(c, q, cached)
           P == RowPages(q.row, q.hlen, cached)
           Q == (O \ P) \cup i.freed
<1>1. /\ q.ids \in Toks /\ q.row \in Seq(Pool) /\ q.evicted \in Nat /\ q.hlen \in 0 .. Len(q.ids)
      /\ r \in DOMAIN H /\ H[r].at = UpTo(q.ids, q.hlen) /\ H[r].uuid = q.uuid
      /\ Len(q.ids) \in Nat /\ Len(q.row) \in Nat
  BY PrefixOrder DEF Request
<1>2. ids \in Toks /\ Len(ids) = cached
  BY <1>1, UpTos
<1>3. d = _free_both(l, i.freed)
  BY DEF Inserted, Released
<1>4. q.hlen # 0 => UpTo(ids, q.hlen) \in DOMAIN c.nodes
  <2>1. UpTo(q.ids, q.hlen) = Root \/ UpTo(q.ids, q.hlen) \in DOMAIN c.nodes
    BY <1>1 DEF Tree, Locks, Anchored
  <2>2. q.hlen \in 0 .. cached
    BY <1>1
  <2>3. UpTo(ids, q.hlen) = UpTo(q.ids, q.hlen)
    BY <1>1, <2>2, UpToUpTo
  <2>4. QED
    BY <1>1, <2>1, <2>3, UpTos
<1> HIDE DEF ids
<1>5. RowFit(c, ids, q.row, q.evicted, q.hlen, O)
  <2>1. q.hlen \in 0 .. cached /\ q.hlen + 1 .. cached \subseteq q.hlen + 1 .. Len(q.row)
    BY <1>1
  <2>2. QED
    BY <1>2, <1>4, <2>1 DEF RowFit, Owns
<1>6. /\ SoundBut(i.c, O, P, i.freed)
      /\ Tree(i.c, H) /\ i.freed \subseteq Pool /\ i.c.live = c.live
  <2>1. SoundBut(i.c, O, RowPages(q.row, q.hlen, Len(ids)), i.freed)
    BY <1>1, <1>2, <1>5, InsertSound
  <2>2. QED
    BY <1>1, <1>2, <2>1, InsertTree
<1> HIDE DEF i, d, P
<1>7. Sound(i.c, Q) /\ i.freed \in SUBSET Q /\ Q \ i.freed = O \ P
  BY <1>6 DEF SoundBut
<1> HIDE DEF Q
<1>8. /\ Tree(l, Without(H, r)) /\ SamePages(i.c, l) /\ DOMAIN l.nodes = DOMAIN i.c.nodes
      /\ \A m \in DOMAIN i.c.nodes : l.nodes[m].tomb = i.c.nodes[m].tomb
  BY <1>1, <1>6, LockReleased
<1> HIDE DEF l
<1>9. \A p : Dead(l, p) <=> Dead(i.c, p)
  BY <1>8, TombsSame
<1>10. Sound(l, Q) /\ l.live = c.live
  BY <1>6, <1>7, <1>8, <1>9, SameSound DEF SamePages
<1>11. Sound(d, O \ P) /\ SameLive(l, d, O \ P)
  <2>1. Shape(l)
    BY <1>8 DEF Tree
  <2>2. /\ Sound(_free_both(l, i.freed), Q \ i.freed)
        /\ SameLive(l, _free_both(l, i.freed), Q \ i.freed)
    BY <1>7, <1>10, <2>1, FreeSound
  <2>3. QED
    BY <1>3, <1>7, <2>2
<1>12. SoundTo(c, d, O \ P)
  BY <1>10, <1>11 DEF SoundTo, SameLive
<1>13. QED
  BY <1>12 DEF d, P

(* The pages of nodes that become tombstones leave the window pool.        *)
LEMMA BuriedSound ==
  ASSUME NEW c, NEW H, Tree(c, H), NEW T \in SUBSET DOMAIN c.nodes,
         \A n \in T : c.nodes[n].sref = 0 /\ ~is_leaf(c, n),
         NEW P, \A x : x \in P <=> \E n \in T : x \in Pages(c, n), NEW O, Sound(c, O)
  PROVE  SoundTo(c, _free_swa(Buried(c, T), P), O)
<1> DEFINE b == Buried(c, T)
           d == _free_swa(b, P)
<1>1. Shape(c) /\ P \in SUBSET Pool
  BY PagesIn DEF Tree
<1>2. /\ Tree(b, H) /\ SamePages(c, b) /\ DOMAIN b.nodes = DOMAIN c.nodes
      /\ \A n \in DOMAIN c.nodes : b.nodes[n].tomb = (c.nodes[n].tomb \/ n \in T)
      /\ \A p, n : Lies(b, p, n) <=> Lies(c, p, n)
  BY BuriedTree
<1> HIDE DEF b
<1>3. SameNodes(b, d) /\ d.live = b.live \ P /\ d.free = b.free
  BY <1>1, <1>2, FreeFields DEF Tree
<1> HIDE DEF d
<1>4. /\ d.nodes = b.nodes /\ d.kv = c.kv /\ d.free = c.free /\ d.live = c.live \ P
  BY <1>2, <1>3 DEF SameNodes, SamePages
<1>5. \A p, n : Lies(d, p, n) <=> Lies(c, p, n)
  BY <1>2, <1>4 DEF Lies
<1>6. ASSUME NEW p \in DOMAIN c.kv, NEW n, Lies(c, p, n)
      PROVE  /\ c.kv[p] \in P <=> n \in T
             /\ Dead(d, p) <=> (c.nodes[n].tomb \/ n \in T)
             /\ Dead(c, p) <=> c.nodes[n].tomb
  <2>1. n \in DOMAIN c.nodes /\ p \in Toks \ {Root}
    BY <1>1, <1>6, TreeToks DEF Lies
  <2>2. ASSUME n \in T PROVE c.kv[p] \in P
    <3>1. p \in Cells(c, n)
      BY <1>1, <1>6, <2>1, CellLies
    <3>2. QED
      BY <2>2, <3>1 DEF Pages
  <2>3. ASSUME c.kv[p] \in P PROVE n \in T
    <3>1. PICK m \in T : c.kv[p] \in Pages(c, m)
      BY <2>3
    <3>2. PICK q \in Cells(c, m) : c.kv[p] = c.kv[q]
      BY <3>1 DEF Pages
    <3>3. q \in DOMAIN c.kv
      BY <1>1, PagesIn
    <3>4. p = q
      BY <3>2, <3>3 DEF Sound
    <3>5. Lies(c, p, m)
      BY <1>1, <2>1, <3>4, CellLies
    <3>6. n = m
      BY <1>1, <1>6, <3>5, OneOwner
    <3>7. QED
      BY <3>6
  <2>4. \A m : Lies(c, p, m) => m = n
    BY <1>1, <1>6, OneOwner
  <2>5. /\ Dead(d, p) <=> d.nodes[n].tomb
        /\ Dead(c, p) <=> c.nodes[n].tomb
    BY <1>5, <1>6, <2>4 DEF Dead
  <2>6. QED
    BY <1>2, <1>4, <2>1, <2>2, <2>3, <2>5
<1>7. \A p \in DOMAIN c.kv : c.kv[p] \in d.live <=> ~Dead(d, p)
  <2> TAKE p \in DOMAIN c.kv
  <2>1. PICK n : Lies(c, p, n)
    BY <1>1 DEF Shape
  <2>2. c.kv[p] \in c.live <=> ~Dead(c, p)
    BY DEF Sound
  <2>3. QED
    BY <1>4, <1>6, <2>1, <2>2
<1>8. \A x \in O : x \notin P
  <2>1. SUFFICES ASSUME NEW x \in O, NEW n \in T, x \in Pages(c, n) PROVE FALSE
    OBVIOUS
  <2>2. PICK p \in Cells(c, n) : x = c.kv[p]
    BY <2>1 DEF Pages
  <2>3. p \in DOMAIN c.kv
    BY <1>1, PagesIn
  <2>4. QED
    BY <2>2, <2>3 DEF Sound
<1>9. Sound(d, O)
  BY <1>4, <1>7 DEF Sound
<1>10. SameLive(c, d, O)
  BY <1>4, <1>8 DEF SameLive
<1>11. QED
  BY <1>9, <1>10 DEF SoundTo, d, b

(* What a tree was sound to twice, it is sound to at once.                 *)
LEMMA SoundToo ==
  ASSUME NEW c, NEW d, NEW e, NEW O, NEW Q, Q \subseteq O
  PROVE  /\ c.live = d.live /\ SoundTo(d, e, Q) => SoundTo(c, e, Q)
         /\ SameLive(c, d, O) /\ SoundTo(d, e, Q) => SoundTo(c, e, Q)
         /\ SoundTo(c, d, O) => Sound(d, O) /\ SameLive(c, d, Q)
  BY DEF SoundTo, SameLive

(* A walk leaves the pages sound.                                          *)
LEMMA WalkedSound ==
  ASSUME NEW c, NEW H, Tree(c, H), NEW ids \in Toks, NEW O, Sound(c, O)
  PROVE  SoundTo(c, Walked(c, ids), O) /\ Walked(c, ids).live = c.live
<1> DEFINE d == Walked(c, ids)
<1>1. SamePages(c, d) /\ \A q \in DOMAIN c.kv : Dead(d, q) <=> Dead(c, q)
  BY WalkedIs
<1> HIDE DEF d
<1>2. SoundTo(c, d, O) /\ d.live = c.live
  BY <1>1, SameSound DEF SoundTo, SamePages
<1>3. QED
  BY <1>2 DEF d

(* The trim of a head leaves the pages sound.                              *)
LEMMA TrimSound ==
  ASSUME NEW c0, NEW H, Tree(c0, H), NEW ids \in Toks, NEW O, Sound(c0, O)
  PROVE  SoundTo(c0, trim_head_swa(c0, ids), O)
<1>1. CASE ids = <<>>
  BY <1>1 DEF trim_head_swa, SoundTo, SameLive
<1>2. CASE ids # <<>>
  <2> DEFINE c == Walked(c0, ids)
             T == Trimmable(c, ids)
             P == UNION {Pages(c, n) : n \in T}
  <2>1. Tree(c, H) /\ SoundTo(c0, c, O)
    BY WalkedIs, WalkedSound
  <2>2. trim_head_swa(c0, ids) = Trimmed(c, T)
    BY <1>2 DEF trim_head_swa
  <2> HIDE DEF c
  <2>3. T \in SUBSET DOMAIN c.nodes /\ \A n \in T : c.nodes[n].sref = 0 /\ ~is_leaf(c, n)
    BY DEF Trimmable, Path
  <2>4. \A x : x \in P <=> \E n \in T : x \in Pages(c, n)
    OBVIOUS
  <2>5. Trimmed(c, T) = _free_swa(Buried(c, T), P)
    BY <2>1, BuriedFields DEF Tree
  <2> HIDE DEF T, P
  <2>6. SoundTo(c, Trimmed(c, T), O)
    BY <2>1, <2>3, <2>4, <2>5, BuriedSound DEF SoundTo
  <2>7. QED
    BY <2>1, <2>2, <2>6, SoundToo
<1>3. QED
  BY <1>1, <1>2

(* The eviction of a window leaves the pages sound.                        *)
LEMMA SwaEvictSound ==
  ASSUME NEW c, NEW H, Tree(c, H), NEW n \in swa_evictable(c), n \notin Leaves(c),
         NEW O, Sound(c, O)
  PROVE  SoundTo(c, Tombstoned(c, n), O)
<1>1. n \in DOMAIN c.nodes /\ c.nodes[n].sref = 0 /\ ~is_leaf(c, n) /\ Shape(c)
  BY NoLeaf DEF Tree
<1>2. {n} \in SUBSET DOMAIN c.nodes /\ \A m \in {n} : c.nodes[m].sref = 0 /\ ~is_leaf(c, m)
  BY <1>1
<1>3. Tombstoned(c, n) = _free_swa(Buried(c, {n}), Pages(c, n))
  BY <1>1, BuriedFields
<1>4. \A x : x \in Pages(c, n) <=> \E m \in {n} : x \in Pages(c, m)
  OBVIOUS
<1>5. QED
  BY <1>2, <1>3, <1>4, BuriedSound

(* The eviction of a leaf leaves the pages sound: its own, and those of    *)
(* the tombstones that go with it, are free, and no free page has a slot.  *)
LEMMA UnlinkedSound ==
  ASSUME NEW c, NEW H, Tree(c, H), NEW n \in Leaves(c), NEW O, Sound(c, O)
  PROVE  SoundTo(c, Unlinked(c, n), O)
<1> DEFINE d == Unlinked(c, n)
           S == Gones(c, n)
           gone == GonePrefixes(c, n)
<1>1. Shape(c) /\ n \in DOMAIN c.nodes /\ is_leaf(c, n) /\ ~c.nodes[n].tomb
  BY DEF Tree, Locks, Leaves, full_evictable
<1>2. /\ d.nodes = [m \in DOMAIN c.nodes \ S |-> c.nodes[m]]
      /\ d.kv = [p \in DOMAIN c.kv \ gone |-> c.kv[p]]
      /\ d.free = c.free \cup {c.kv[p] : p \in gone}
      /\ d.live = c.live \ Pages(c, n)
  BY <1>1, UnlinkedFields
<1>3. /\ \A p \in DOMAIN c.kv : p \in gone <=> \E m \in S : Lies(c, p, m)
      /\ \A p \in DOMAIN c.kv \ gone : \A m : Lies(c, p, m) => Lies(d, p, m)
      /\ gone \subseteq DOMAIN c.kv
  BY <1>1, UnlinkedLies DEF GonePrefixes
<1>4. n \in S /\ \A m \in S : m = n \/ c.nodes[m].tomb
  BY <1>1, CascadeIs DEF Gones
<1> HIDE DEF d, S, gone
<1>5. /\ O \subseteq Pool /\ c.free \cap O = {} /\ c.free \cap c.live = {}
      /\ \A p, q \in DOMAIN c.kv : c.kv[p] = c.kv[q] => p = q
      /\ \A p \in DOMAIN c.kv : c.kv[p] \notin c.free /\ c.kv[p] \notin O
      /\ \A p \in DOMAIN c.kv : c.kv[p] \in c.live <=> ~Dead(c, p)
      /\ \A x \in Pool : x \in c.free \/ x \in O \/ \E p \in DOMAIN c.kv : c.kv[p] = x
  BY DEF Sound
<1>6. \A p \in DOMAIN c.kv : c.kv[p] \in Pages(c, n) <=> Lies(c, p, n)
  <2> TAKE p \in DOMAIN c.kv
  <2>1. p \in Toks \ {Root} /\ Cells(c, n) \subseteq DOMAIN c.kv
    BY <1>1, TreeToks, PagesIn
  <2>2. c.kv[p] \in Pages(c, n) <=> p \in Cells(c, n)
    BY <1>5, <2>1 DEF Pages
  <2>3. QED
    BY <1>1, <2>1, <2>2, CellLies
<1>7. \A x \in Pages(c, n) : \E p \in DOMAIN c.kv : x = c.kv[p]
  BY <1>1, PagesIn DEF Pages
<1>8. /\ DOMAIN d.kv = DOMAIN c.kv \ gone /\ \A p \in DOMAIN d.kv : d.kv[p] = c.kv[p]
      /\ DOMAIN d.nodes = DOMAIN c.nodes \ S /\ \A m \in DOMAIN d.nodes : d.nodes[m] = c.nodes[m]
  BY <1>2
<1>9. \A p \in gone : c.kv[p] \notin d.live
  <2> TAKE p \in gone
  <2>1. PICK m \in S : Lies(c, p, m)
    BY <1>3
  <2>2. CASE m = n
    BY <1>2, <1>3, <1>6, <2>1, <2>2
  <2>3. CASE c.nodes[m].tomb
    BY <1>2, <1>3, <1>5, <2>1, <2>3 DEF Dead
  <2>4. QED
    BY <1>4, <2>2, <2>3
<1>10. d.free \cap O = {} /\ d.free \cap d.live = {}
  BY <1>2, <1>3, <1>5, <1>9
<1>11. ASSUME NEW p \in DOMAIN d.kv
       PROVE  d.kv[p] \notin d.free \cup O /\ (d.kv[p] \in d.live <=> ~Dead(d, p))
  <2>1. p \in DOMAIN c.kv /\ p \notin gone /\ d.kv[p] = c.kv[p]
    BY <1>8
  <2>2. c.kv[p] \notin d.free \cup O
    BY <1>2, <1>3, <1>5, <2>1
  <2>3. PICK m : Lies(c, p, m)
    BY <1>1, <2>1 DEF Shape
  <2>4. m \notin S /\ Lies(d, p, m) /\ m \in DOMAIN c.nodes
    BY <1>3, <2>1, <2>3 DEF Lies
  <2>5. \A w : Lies(d, p, w) => w = m
    <3>1. Shape(d)
      BY UnlinkedTree DEF Tree, d
    <3>2. QED
      BY <2>4, <3>1, OneOwner
  <2>6. d.nodes[m] = c.nodes[m]
    BY <1>8, <2>4
  <2>7. \A w : Lies(c, p, w) => w = m
    BY <1>1, <2>3, OneOwner
  <2>8. Dead(d, p) <=> Dead(c, p)
    BY <2>3, <2>4, <2>5, <2>6, <2>7 DEF Dead
  <2>9. c.kv[p] \notin Pages(c, n)
    BY <1>4, <1>6, <2>1, <2>3, <2>4, <2>7
  <2>10. QED
    BY <1>2, <1>5, <2>1, <2>2, <2>8, <2>9
<1>12. ASSUME NEW x \in Pool
       PROVE  x \in d.free \cup O \/ \E p \in DOMAIN d.kv : d.kv[p] = x
  BY <1>2, <1>5, <1>8
<1>13. Sound(d, O)
  BY <1>5, <1>8, <1>10, <1>11, <1>12 DEF Sound
<1>14. SameLive(c, d, O)
  BY <1>2, <1>5, <1>7 DEF SameLive
<1>15. QED
  BY <1>13, <1>14 DEF SoundTo, d

OwnPages(q) == RowPages(q.row, q.hlen, Len(q.row))

(* A request that ends leaves all its own pages to the tree or the pool.   *)
LEMMA FinishedSound ==
  ASSUME NEW c, NEW H, Tree(c, H), NEW r, NEW q \in ReqType, Request(q, H, r),
         Len(q.row) = q.cached, q.hlen <= q.cached,
         q.evicted = 0 \/ q.evicted < Low(q.cached, Len(q.ids)),
         NEW O, Sound(c, O), Owns(c, q, O)
  PROVE  SoundTo(c, Finished(c, q), O \ OwnPages(q))
<1> DEFINE G == Without(H, r)
           cached == Low(q.cached, Len(q.ids))
           prompt == UpTo(q.ids, Low(q.prompt, cached))
           rest == {q.row[i] : i \in cached + 1 .. Len(q.row)}
           head == UpTo(prompt, KeepFrom(Len(prompt)))
           P == RowPages(q.row, q.hlen, cached)
           e == Inserted(c, q, cached)
           f == _free_both(e, rest)
           g == trim_head_swa(f, head)
           d == Walked(g, prompt)
           Q == O \ OwnPages(q)
<1>1. /\ q.ids \in Toks /\ q.row \in Seq(Pool) /\ q.prompt \in Nat /\ q.cached \in Nat
      /\ Len(q.ids) \in Nat /\ q.hlen \in Nat /\ q.hlen <= Len(q.ids)
  BY PrefixOrder DEF ReqType, Request
<1>2. /\ cached \in 0 .. Len(q.ids) /\ cached <= Len(q.row) /\ Low(q.prompt, cached) \in 0 .. Len(q.ids)
      /\ q.hlen <= cached /\ cached \in Nat
  BY <1>1 DEF Low
<1>3. prompt \in Toks /\ Len(prompt) \in Nat
  BY <1>1, <1>2, UpTos, PrefixOrder
<1>4. head \in Toks
  <2> HIDE DEF prompt
  <2>1. KeepFrom(Len(prompt)) \in 0 .. Len(prompt)
    BY <1>3, Sizes DEF KeepFrom, High
  <2>2. QED
    BY <1>3, <2>1, UpTos
<1>5. q.evicted = 0 \/ q.evicted < cached
  OBVIOUS
<1>6. Finished(c, q) = d
  BY DEF Finished
<1> HIDE DEF cached, prompt, head
<1>7. \A x : x \in OwnPages(q) <=> x \in P \/ x \in rest
  <2>1. \A j : j \in q.hlen + 1 .. Len(q.row)
                 <=> j \in q.hlen + 1 .. cached \/ j \in cached + 1 .. Len(q.row)
    <3>1. Len(q.row) \in Nat /\ cached <= Len(q.row) /\ q.hlen <= cached /\ q.hlen \in Nat /\ cached \in Nat
      BY <1>1, <1>2
    <3> DEFINE last == Len(q.row)
               h == q.hlen
    <3> HIDE DEF last, h
    <3>2. \A j : j \in h + 1 .. last <=> j \in h + 1 .. cached \/ j \in cached + 1 .. last
      BY <3>1 DEF last, h
    <3>3. QED
      BY <3>2 DEF last, h
  <2>2. QED
    BY <2>1 DEF OwnPages, RowPages
<1>8. rest \subseteq O /\ rest \cap P = {}
  <2>1. \A j \in cached + 1 .. Len(q.row) : j \in q.hlen + 1 .. Len(q.row)
    BY <1>1, <1>2
  <2>2. \A j \in q.hlen + 1 .. cached : /\ j \in q.hlen + 1 .. Len(q.row)
                                        /\ j \notin cached + 1 .. Len(q.row)
    BY <1>1, <1>2
  <2>3. QED
    BY <2>1, <2>2 DEF Owns, RowPages
<1> HIDE DEF rest, P
<1>9. Tree(e, G) /\ SoundTo(c, e, O \ P)
  BY <1>1, <1>2, <1>5, InsertedTree, InsertedSound DEF P
<1> HIDE DEF e, G
<1>10. rest \in SUBSET Pool /\ rest \in SUBSET (O \ P) /\ (O \ P) \ rest = Q /\ Q \subseteq O \ P
  BY <1>7, <1>8 DEF Sound
<1> HIDE DEF Q
<1>11. Tree(f, G) /\ SoundTo(e, f, Q)
  <2>1. SameNodes(e, f)
    BY <1>9, <1>10, FreeFields DEF Tree
  <2>2. Tree(f, G)
    BY <1>9, <2>1, PagesTree
  <2>3. Sound(f, (O \ P) \ rest) /\ SameLive(e, f, (O \ P) \ rest)
    <3> HIDE DEF f
    <3>1. Sound(e, O \ P) /\ Shape(e)
      BY <1>9 DEF SoundTo, Tree
    <3>2. QED
      BY <1>10, <3>1, FreeSound DEF f
  <2>4. QED
    BY <1>10, <2>2, <2>3 DEF SoundTo
<1> HIDE DEF f
<1>12. Tree(g, G) /\ SoundTo(f, g, Q)
  BY <1>4, <1>11, TrimTree, TrimSound DEF SoundTo
<1> HIDE DEF g
<1>13. SoundTo(g, d, Q)
  BY <1>3, <1>12, WalkedSound DEF SoundTo
<1> HIDE DEF d
<1>14. SoundTo(c, d, Q)
  BY <1>9, <1>10, <1>11, <1>12, <1>13 DEF SoundTo, SameLive
<1>15. QED
  BY <1>6, <1>14 DEF Q

(* A commit leaves all the request's own pages to the tree or the pool.    *)
LEMMA CommittedSound ==
  ASSUME NEW c, NEW H, Tree(c, H), NEW r \in Reqs, NEW q \in ReqType, Request(q, H, r),
         Len(q.row) = q.cached, q.cached <= Len(q.ids), q.hlen <= q.cached,
         \A s \in DOMAIN H : s \in Reqs /\ (s # r => H[s].uuid = reqs[s].uuid),
         q.evicted = 0 \/ q.evicted < q.cached, NEW O, Sound(c, O), Owns(c, q, O)
  PROVE  SoundTo(c, Committed(c, q).c, O \ OwnPages(q))
<1> DEFINE G == Without(H, r)
           ids == UpTo(q.ids, q.cached)
           head == UpTo(ids, KeepFrom(q.cached))
           e == Inserted(c, q, q.cached)
           f == Walked(e, head)
           g == Walked(f, ids)
           m == match_prefix(g, ids)
           n == UpTo(ids, m)
           l == inc_lock(g, n)
           k == Committed(c, q)
           Q == O \ OwnPages(q)
<1>1. /\ q.ids \in Toks /\ q.cached \in Nat /\ Len(q.ids) \in Nat
      /\ q.cached \in 0 .. Len(q.ids) /\ Len(q.row) = q.cached
  BY PrefixOrder DEF ReqType
<1>2. ids \in Toks /\ Len(ids) = q.cached
  BY <1>1, UpTos
<1>3. head \in Toks
  <2> HIDE DEF ids
  <2>1. KeepFrom(q.cached) \in 0 .. q.cached
    <3>1. q.cached \in Nat
      BY <1>1
    <3>2. QED
      BY ONLY <3>1, Sizes DEF KeepFrom, High
  <2>2. QED
    BY <1>2, <2>1, UpTos
<1>4. k.c = l.c
  <2>1. k = Rematched(g, q, ids)
    BY DEF Committed
  <2> HIDE DEF k, g, ids
  <2>2. QED
    BY <2>1, RematchedFields
<1> HIDE DEF ids, head, k
<1>5. Tree(e, G) /\ SoundTo(c, e, Q)
  BY <1>1, InsertedTree, InsertedSound DEF OwnPages
<1> HIDE DEF e, G, Q
<1>6. Tree(f, G) /\ SoundTo(e, f, Q)
  BY <1>3, <1>5, WalkedIs, WalkedSound DEF SoundTo
<1> HIDE DEF f
<1>7. Tree(g, G) /\ SoundTo(f, g, Q)
  BY <1>2, <1>6, WalkedIs, WalkedSound DEF SoundTo
<1> HIDE DEF g
<1>8. n = Root \/ (n \in DOMAIN g.nodes /\ Usable(g, n))
  BY <1>2, <1>7, MatchedRow DEF Tree
<1> HIDE DEF n
<1>9. /\ SamePages(g, l.c) /\ DOMAIN l.c.nodes = DOMAIN g.nodes
      /\ \A x \in DOMAIN g.nodes : l.c.nodes[x].tomb = g.nodes[x].tomb
  <2>1. r \notin DOMAIN G /\ \A s \in DOMAIN G : s \in Reqs /\ G[s].uuid = reqs[s].uuid
    BY DEF G, Without
  <2>2. /\ Tree(l.c, With(G, r, [at |-> n, uuid |-> l.uuid])) /\ SamePages(g, l.c)
        /\ DOMAIN l.c.nodes = DOMAIN g.nodes
        /\ \A x \in DOMAIN g.nodes : l.c.nodes[x].tomb = g.nodes[x].tomb
    BY <1>7, <1>8, <2>1, LockTaken
  <2>3. QED
    BY <2>2
<1> HIDE DEF l
<1>10. \A p : Dead(l.c, p) <=> Dead(g, p)
  BY <1>9, TombsSame
<1>11. SoundTo(g, k.c, Q)
  BY <1>4, <1>7, <1>9, <1>10, SameSound DEF SoundTo
<1>12. SoundTo(c, k.c, Q)
  BY <1>5, <1>6, <1>7, <1>11 DEF SoundTo, SameLive
<1>13. QED
  BY <1>12 DEF k, Q

(* The pages that the requests R own among them.                           *)
OwnAll(R) == UNION {OwnPages(R[s]) : s \in Reqs}

(* A request's own pages, each once, have window slots past the frontier,  *)
(* and the frontier stays out of the window.                               *)
Fits(c, q) ==
    /\ \A j \in q.hlen + 1 .. Len(q.row) : q.row[j] \in c.live <=> j > q.evicted
    /\ \A i, j \in q.hlen + 1 .. Len(q.row) : q.row[i] = q.row[j] => i = j
    /\ q.evicted = 0 \/ q.evicted < q.cached - Window

(* No two requests own a page.                                             *)
Apart(R) == \A r, s \in Reqs : r # s => OwnPages(R[r]) \cap OwnPages(R[s]) = {}

(* What the pages and the window slots are shared out to.                  *)
PageInv ==
    /\ Sound(tree, OwnAll(reqs)) /\ Apart(reqs)
    /\ \A r \in Reqs : Fits(tree, reqs[r])

(* What a request owns, it owns in the tree's eyes too.                    *)
LEMMA OwnsIts ==
  ASSUME PageInv, NEW r \in Reqs, NEW q,
         q.row = reqs[r].row, q.hlen = reqs[r].hlen, q.evicted = reqs[r].evicted
  PROVE  Owns(tree, q, OwnAll(reqs)) /\ OwnPages(q) = OwnPages(reqs[r])
<1>1. OwnPages(q) = OwnPages(reqs[r]) /\ OwnPages(reqs[r]) \subseteq OwnAll(reqs)
  BY DEF OwnPages, OwnAll
<1>2. Fits(tree, reqs[r])
  BY DEF PageInv
<1>3. \A j \in q.hlen + 1 .. Len(q.row) : q.row[j] \in OwnPages(q)
  BY DEF OwnPages, RowPages
<1>4. QED
  BY <1>1, <1>2, <1>3 DEF Owns, Fits

(* A step of one request: the pages of the others stay theirs.             *)
LEMMA PageChange ==
  ASSUME SwaInv, PageInv, NEW r \in Reqs, NEW q, reqs' = [reqs EXCEPT ![r] = q],
         NEW Q, Q = OwnAll(reqs) \ OwnPages(reqs[r]),
         Sound(tree', Q \cup OwnPages(q)), SameLive(tree, tree', Q),
         Q \cap OwnPages(q) = {}, Fits(tree', q)
  PROVE  PageInv'
<1>1. reqs'[r] = q /\ \A s \in Reqs \ {r} : reqs'[s] = reqs[s]
  BY DEF SwaInv
<1>2. \A s \in Reqs \ {r} : OwnPages(reqs[s]) \subseteq Q
  BY DEF PageInv, Apart, OwnAll
<1>3. \A x \in Q : \E s \in Reqs \ {r} : x \in OwnPages(reqs[s])
  BY DEF OwnAll
<1>4. OwnAll(reqs') = Q \cup OwnPages(q)
  BY <1>1, <1>2, <1>3 DEF OwnAll
<1>5. Apart(reqs')
  <2> SUFFICES ASSUME NEW a \in Reqs, NEW b \in Reqs, a # b
               PROVE  OwnPages(reqs'[a]) \cap OwnPages(reqs'[b]) = {}
    BY DEF Apart
  <2>1. CASE a = r
    BY <1>1, <1>2, <2>1
  <2>2. CASE b = r
    BY <1>1, <1>2, <2>2
  <2>3. CASE a # r /\ b # r
    BY <1>1, <2>3 DEF PageInv, Apart
  <2>4. QED
    BY <2>1, <2>2, <2>3
<1>6. ASSUME NEW s \in Reqs
      PROVE  Fits(tree', reqs'[s])
  <2>1. CASE s = r
    BY <1>1, <2>1
  <2>2. CASE s # r
    <3> DEFINE y == reqs[s]
    <3>1. Fits(tree, y) /\ reqs'[s] = y
      BY <1>1, <2>2 DEF PageInv
    <3>2. \A j \in y.hlen + 1 .. Len(y.row) : y.row[j] \in Q
      BY <1>2, <2>2 DEF OwnPages, RowPages
    <3> HIDE DEF y
    <3>3. Fits(tree', y)
      BY <3>1, <3>2 DEF Fits, SameLive
    <3>4. QED
      BY <3>1, <3>3
  <2>3. QED
    BY <2>1, <2>2
<1>7. Sound(tree', OwnAll(reqs'))
  BY <1>4
<1>8. QED
  BY <1>5, <1>6, <1>7 DEF PageInv

(* A request gives up all its own pages.                                   *)
LEMMA PageGoes ==
  ASSUME SwaInv, PageInv, NEW r \in Reqs, NEW q, reqs' = [reqs EXCEPT ![r] = q],
         q.hlen \in Nat, Len(q.row) = q.hlen, q.evicted = 0 \/ q.evicted < q.cached - Window,
         SoundTo(tree, tree', OwnAll(reqs) \ OwnPages(reqs[r]))
  PROVE  PageInv'
<1>1. q.hlen + 1 .. Len(q.row) = {}
  BY ONLY q.hlen \in Nat, Len(q.row) = q.hlen
<1>2. OwnPages(q) = {} /\ Fits(tree', q)
  BY <1>1 DEF OwnPages, RowPages, Fits
<1> DEFINE Q == OwnAll(reqs) \ OwnPages(reqs[r])
<1>3. Sound(tree', Q) /\ SameLive(tree, tree', Q)
  BY DEF SoundTo
<1>4. Q \cup OwnPages(q) = Q /\ Q \cap OwnPages(q) = {}
  BY <1>2
<1> HIDE DEF Q
<1>5. QED
  BY <1>2, <1>3, <1>4, PageChange DEF Q

(* A step of the tree that takes no slot of what the requests own.         *)
LEMMA PageTree ==
  ASSUME PageInv, reqs' = reqs, SoundTo(tree, tree', OwnAll(reqs))
  PROVE  PageInv'
<1>1. Sound(tree', OwnAll(reqs)) /\ SameLive(tree, tree', OwnAll(reqs))
  BY DEF SoundTo
<1>2. ASSUME NEW s \in Reqs
      PROVE  Fits(tree', reqs[s])
  <2> DEFINE y == reqs[s]
  <2>1. Fits(tree, y)
    BY DEF PageInv
  <2>2. \A j \in y.hlen + 1 .. Len(y.row) : y.row[j] \in OwnAll(reqs)
    BY DEF OwnPages, RowPages, OwnAll
  <2> HIDE DEF y
  <2>3. Fits(tree', y)
    BY <1>1, <2>1, <2>2 DEF Fits, SameLive
  <2>4. QED
    BY <2>3 DEF y
<1>3. QED
  BY <1>1, <1>2 DEF PageInv

(* A step of a request that keeps its row, its handle and its frontier.    *)
LEMMA PageSame ==
  ASSUME SwaInv, PageInv, NEW r \in Reqs, NEW q, reqs' = [reqs EXCEPT ![r] = q], tree' = tree,
         q.row = reqs[r].row, q.hlen = reqs[r].hlen, q.evicted = reqs[r].evicted,
         q.cached = reqs[r].cached
  PROVE  PageInv'
<1> DEFINE Q == OwnAll(reqs) \ OwnPages(reqs[r])
<1>1. OwnPages(q) = OwnPages(reqs[r]) /\ Q \cap OwnPages(q) = {} /\ Q \cup OwnPages(q) = OwnAll(reqs)
  BY DEF OwnPages, OwnAll
<1>2. Fits(tree', q)
  BY DEF Fits, PageInv
<1>3. Sound(tree', Q \cup OwnPages(q)) /\ SameLive(tree, tree', Q)
  BY <1>1 DEF PageInv, SameLive
<1> HIDE DEF Q
<1>4. QED
  BY <1>1, <1>2, <1>3, PageChange DEF Q

(* How far a running request's row is ahead of its tokens.                 *)
LEMMA CachedBound ==
  ASSUME SwaInv, NEW r \in Reqs, Alive(r), alloc = Idle
  PROVE  /\ reqs[r].cached <= Len(reqs[r].ids) + 1 /\ reqs[r] \in ReqType
         /\ Len(reqs[r].row) = reqs[r].cached /\ reqs[r].hlen <= reqs[r].cached
         /\ Request(reqs[r], Handles, r)
<1> DEFINE y == reqs[r]
<1>1. y \in ReqType /\ ReqInv(r) /\ alloc.r # r /\ Request(y, Handles, r)
  BY RunningRequest DEF SwaInv, Idle, Reqs
<1>2. y.cached \in Nat /\ Len(y.ids) \in Nat
  BY <1>1, PrefixOrder DEF ReqType
<1>3. Len(y.row) = y.cached /\ y.hlen <= y.cached
  BY <1>1 DEF ReqInv
<1>4. y.cached <= Len(y.ids) + 1
  <2>1. Bringing(r) \in {0, 1, 2}
    BY DEF Bringing, Brings
  <2>2. CASE y.st = "chunk"
    <3>1. y.cached + 0 < Len(y.ids)
      BY <1>1, <2>2 DEF ReqInv
    <3>2. QED
      BY <1>2, <3>1
  <2>3. CASE y.st = "decode"
    <3>1. y.cached + 0 = Len(y.ids) - 1 + Bringing(r)
      BY <1>1, <2>3 DEF ReqInv
    <3>2. QED
      BY <1>2, <2>1, <3>1
  <2>4. QED
    BY <2>2, <2>3 DEF Alive
<1>5. QED
  BY <1>1, <1>3, <1>4

(* A request is freed: its own pages go to the tree or to the pool.        *)
LEMMA FreePages ==
  ASSUME SwaInv, PageInv, NEW r \in Reqs, NEW q \in ReqType, Request(q, Handles, r),
         Len(q.row) = q.cached, q.hlen <= q.cached, q.cached <= Len(q.ids) + 1,
         q.row = reqs[r].row, q.hlen = reqs[r].hlen, q.evicted = reqs[r].evicted,
         q.cached = reqs[r].cached, Free(r, q)
  PROVE  PageInv'
<1>1. tree' = Finished(tree, q) /\ reqs' = [reqs EXCEPT ![r] = Gone]
  BY DEF Free
<1>2. Tree(tree, Handles) /\ Sound(tree, OwnAll(reqs))
  BY DEF SwaInv, TreeInv, PageInv
<1>3. Owns(tree, q, OwnAll(reqs)) /\ OwnPages(q) = OwnPages(reqs[r])
  BY OwnsIts
<1>4. q.evicted = 0 \/ q.evicted < Low(q.cached, Len(q.ids))
  <2>1. q.evicted = 0 \/ q.evicted < q.cached - Window
    BY DEF PageInv, Fits
  <2>2. q.evicted \in Nat /\ q.cached \in Nat /\ Len(q.ids) \in Nat
    BY PrefixOrder DEF ReqType
  <2> DEFINE e == q.evicted
             k == q.cached
             l == Len(q.ids)
  <2>3. e \in Nat /\ k \in Nat /\ l \in Nat /\ k <= l + 1 /\ (e = 0 \/ e < k - Window)
    BY <2>1, <2>2
  <2> HIDE DEF e, k, l
  <2>4. e = 0 \/ e < Low(k, l)
    BY ONLY <2>3, Sizes DEF Low
  <2>5. QED
    BY <2>4 DEF e, k, l
<1>5. SoundTo(tree, Finished(tree, q), OwnAll(reqs) \ OwnPages(q))
  BY <1>2, <1>3, <1>4, FinishedSound
<1>6. Gone.hlen = 0 /\ Len(Gone.row) = 0 /\ Gone.evicted = 0
  BY DEF Gone
<1>7. Gone.hlen \in Nat /\ Len(Gone.row) = Gone.hlen
  BY <1>6
<1>8. SoundTo(tree, tree', OwnAll(reqs) \ OwnPages(reqs[r]))
  BY <1>1, <1>3, <1>5
<1>9. QED
  BY <1>1, <1>6, <1>7, <1>8, PageGoes

(* A running request that is freed as it is.                               *)
LEMMA FreeAlive ==
  ASSUME SwaInv, PageInv, NEW r \in Reqs, Alive(r), alloc = Idle, Free(r, reqs[r])
  PROVE  PageInv'
<1> DEFINE y == reqs[r]
<1>1. /\ y \in ReqType /\ Request(y, Handles, r) /\ Len(y.row) = y.cached
      /\ y.hlen <= y.cached /\ y.cached <= Len(y.ids) + 1
      /\ y.row = reqs[r].row /\ y.hlen = reqs[r].hlen /\ y.evicted = reqs[r].evicted
      /\ y.cached = reqs[r].cached /\ Free(r, y)
  BY CachedBound
<1> HIDE DEF y
<1>2. QED
  BY <1>1, FreePages

(* What a request frees as it advances is its own, and its frontier moves  *)
(* along.                                                                  *)
LEMMA PageAdvance ==
  ASSUME SwaInv, PageInv, NEW r \in Reqs, NEW y, y = reqs[r], NEW x, reqs' = [reqs EXCEPT ![r] = x],
         x.row = y.row, x.hlen = y.hlen, x.cached = y.cached,
         x.evicted = IF Frontier(y) > Kept(y) THEN Frontier(y) ELSE y.evicted,
         tree' = _free_swa(tree, Passed(y))
  PROVE  PageInv'
<1> DEFINE F == Frontier(y)
           K == Kept(y)
           h == y.hlen
           e == y.evicted
           k == y.cached
           P == Passed(y)
           O == OwnAll(reqs)
           Q == O \ OwnPages(reqs[r])
<1>1. /\ y \in ReqType /\ Shape(tree) /\ Sound(tree, O) /\ Fits(tree, y)
      /\ Len(y.row) = k /\ h <= k /\ h \in Nat /\ e \in Nat /\ k \in Nat
  BY DEF SwaInv, TreeInv, Tree, ReqInv, ReqType, PageInv
<1>2. F = k - Window - 1 /\ K = High(e, h)
  BY DEF Frontier, Kept
<1>3. /\ \A j \in K + 1 .. F : j \in h + 1 .. k
      /\ \A j \in h + 1 .. k :
           (j > e /\ j \notin K + 1 .. F) <=> j > (IF F > K THEN F ELSE e)
      /\ e = 0 \/ e < k - Window => (IF F > K THEN F ELSE e) = 0 \/ (IF F > K THEN F ELSE e) < k - Window
  <2>1. h <= k /\ h \in Nat /\ e \in Nat /\ k \in Nat
    BY <1>1
  <2> HIDE DEF F, K, h, e, k
  <2>2. F \in Int /\ K \in Nat /\ K >= e /\ K >= h /\ (K = e \/ K = h) /\ F < k
    BY ONLY <1>2, <2>1, Sizes DEF High
  <2>3. QED
    BY ONLY <1>2, <2>1, <2>2, Sizes
<1>4. P \in SUBSET O /\ P \subseteq OwnPages(y)
  <2>1. \A j \in K + 1 .. F : j \in h + 1 .. Len(y.row)
    BY <1>1, <1>3
  <2>2. P \subseteq OwnPages(y)
    BY <2>1 DEF Passed, OwnPages, RowPages
  <2>3. QED
    BY <2>2 DEF OwnAll
<1>5. Sound(tree', O) /\ SameLive(tree, tree', O \ P) /\ tree'.live = tree.live \ P
  <2>1. P \in SUBSET Pool
    BY <1>1, <1>4 DEF Sound
  <2> HIDE DEF P, O
  <2>2. tree' = _free_swa(tree, P)
    BY DEF P
  <2>3. Sound(_free_swa(tree, P), O) /\ SameLive(tree, _free_swa(tree, P), O \ P)
    BY <1>1, <1>4, FreeSound
  <2>4. _free_swa(tree, P).live = tree.live \ P
    BY <1>1, <2>1, FreeFields
  <2>5. QED
    BY <2>2, <2>3, <2>4
<1>6. SameLive(tree, tree', Q)
  BY <1>4, <1>5 DEF SameLive
<1>7. OwnPages(x) = OwnPages(y) /\ Q \cup OwnPages(x) = O /\ Q \cap OwnPages(x) = {}
  BY DEF OwnPages, OwnAll
<1>8. Fits(tree', x)
  <2>1. ASSUME NEW j \in h + 1 .. k
        PROVE  y.row[j] \in P <=> j \in K + 1 .. F
    <3>1. \A i \in h + 1 .. k : y.row[i] = y.row[j] => i = j
      BY <1>1, <2>1 DEF Fits
    <3>2. y.row[j] \in P <=> \E i \in K + 1 .. F : y.row[j] = y.row[i]
      BY DEF Passed
    <3> HIDE DEF P, K, F, h, k
    <3>3. QED
      BY <1>3, <3>1, <3>2
  <2>2. ASSUME NEW j \in x.hlen + 1 .. Len(x.row)
        PROVE  x.row[j] \in tree'.live <=> j > x.evicted
    <3>1. j \in h + 1 .. k
      BY <1>1
    <3>2. y.row[j] \in tree.live <=> j > e
      BY <1>1, <3>1 DEF Fits
    <3>3. y.row[j] \in P <=> j \in K + 1 .. F
      BY <2>1, <3>1
    <3>4. (j > e /\ j \notin K + 1 .. F) <=> j > (IF F > K THEN F ELSE e)
      BY <1>3, <3>1
    <3>5. x.evicted = (IF F > K THEN F ELSE e) /\ x.row = y.row
      OBVIOUS
    <3> HIDE DEF P, K, F, h, k, e
    <3>6. QED
      BY <1>5, <3>2, <3>3, <3>4, <3>5
  <2>3. \A i, j \in x.hlen + 1 .. Len(x.row) : x.row[i] = x.row[j] => i = j
    BY <1>1 DEF Fits
  <2>4. x.evicted = 0 \/ x.evicted < x.cached - Window
    <3>1. e = 0 \/ e < k - Window
      BY <1>1 DEF Fits
    <3>2. x.evicted = (IF F > K THEN F ELSE e) /\ x.cached = k
      OBVIOUS
    <3> HIDE DEF K, F, k, e
    <3>3. QED
      BY <1>3, <3>1, <3>2
  <2>5. QED
    BY <2>2, <2>3, <2>4 DEF Fits
<1> HIDE DEF O, P
<1>9. Sound(tree', Q \cup OwnPages(x))
  BY <1>5, <1>7
<1>10. QED
  BY <1>6, <1>7, <1>8, <1>9, PageChange DEF O

(* The evictions.                                                          *)
LEMMA PageEvicts ==
  ASSUME SwaInv, PageInv, NEW n \in DOMAIN tree.nodes, evict_full(n) \/ evict_swa(n)
  PROVE  PageInv'
<1>1. Tree(tree, Handles) /\ Sound(tree, OwnAll(reqs))
  BY DEF SwaInv, TreeInv, PageInv
<1>2. /\ reqs' = reqs
      /\ \/ n \in Leaves(tree) /\ tree' = Unlinked(tree, n)
         \/ n \in swa_evictable(tree) /\ n \notin Leaves(tree) /\ tree' = Tombstoned(tree, n)
  BY DEF evict_full, evict_swa
<1>3. SoundTo(tree, tree', OwnAll(reqs))
  <2>1. CASE n \in Leaves(tree) /\ tree' = Unlinked(tree, n)
    BY <1>1, <2>1, UnlinkedSound
  <2>2. CASE n \in swa_evictable(tree) /\ n \notin Leaves(tree) /\ tree' = Tombstoned(tree, n)
    BY <1>1, <2>2, SwaEvictSound
  <2>3. QED
    BY <1>2, <2>1, <2>2
<1>4. QED
  BY <1>2, <1>3, PageTree

(* What an extension does to the tree and to the requests.                 *)
LEMMA ExtendIs ==
  ASSUME NEW r, NEW q, NEW c, NEW n, Extend(r, q, c, n)
  PROVE  /\ tree' = c
         /\ \E s \in {"chunk", "decode"} : reqs' = [reqs EXCEPT ![r] = Restated(q, s)]
  BY DEF Extend, Restated

(* An admission takes over no page: what it reuses is the tree's.          *)
LEMMA PageAdmit ==
  ASSUME SwaInv, PageInv, NEW r \in Reqs, Admit(r)
  PROVE  PageInv'
<1> DEFINE y == reqs[r]
           ids == UpTo(y.ids, y.prompt - 1)
           c == Walked(tree, ids)
           m == match_prefix(c, ids)
           k == inc_lock(c, UpTo(ids, m))
           w == [i \in 1 .. m |-> c.kv[UpTo(ids, i)]]
           q == Admitted(y, c, ids, m, k.uuid)
<1>1. /\ y.st = "pending" /\ tree' = k.c
      /\ \E s \in {"chunk", "decode"} : reqs' = [reqs EXCEPT ![r] = Restated(q, s)]
  <2>1. \E c1 \in {c} : \E k1 \in {inc_lock(c1, UpTo(ids, match_prefix(c1, ids)))} :
          \E n : Extend(r, Admitted(y, c1, ids, match_prefix(c1, ids), k1.uuid), k1.c, n)
    BY ZenonT(60) DEF Admit
  <2>2. \E n : Extend(r, q, k.c, n)
    BY ONLY <2>1, Zenon
  <2>3. r \in Pending
    BY Zenon DEF Admit
  <2>4. y.st = "pending"
    BY ONLY <2>3 DEF Pending
  <2> HIDE DEF ids, c, m, k, w, q, y
  <2>5. PICK n : Extend(r, q, k.c, n)
    BY <2>2
  <2>6. QED
    BY <2>4, <2>5, ExtendIs
<1>2. /\ y \in ReqType /\ ReqInv(r) /\ Tree(tree, Handles) /\ Sound(tree, OwnAll(reqs))
  BY DEF SwaInv, TreeInv, PageInv
<1>3. /\ y.prompt = Len(y.ids) /\ y.ids \in Toks /\ y.prompt - 1 \in 0 .. Len(y.ids)
      /\ Len(y.row) = 0 /\ y.evicted = 0 /\ y.hlen = 0
  <2>1. /\ y.prompt = Len(y.ids) /\ y.ids \in Toks /\ y.prompt \in Nat /\ y.prompt > 0
        /\ Len(y.row) = y.cached /\ y.cached = 0 /\ y.evicted = 0 /\ y.hlen <= y.cached /\ y.hlen \in Nat
    BY <1>1, <1>2 DEF ReqInv, ReqType
  <2> DEFINE p == y.prompt
             l == Len(y.ids)
             h == y.hlen
             z == y.cached
  <2>2. p = l /\ p \in Nat /\ p > 0 /\ z = 0 /\ h <= z /\ h \in Nat
    BY <2>1
  <2> HIDE DEF p, l, h, z
  <2>3. p - 1 \in 0 .. l /\ h = 0
    BY ONLY <2>2
  <2>4. y.prompt - 1 \in 0 .. Len(y.ids) /\ y.hlen = 0
    BY <2>3 DEF p, l, h
  <2>5. QED
    BY <2>1, <2>4
<1>4. ids \in Toks /\ Len(ids) = y.prompt - 1
  BY <1>3, UpTos
<1> HIDE DEF ids
<1>5. Tree(c, Handles) /\ SoundTo(tree, c, OwnAll(reqs))
  BY <1>2, <1>4, WalkedIs, WalkedSound
<1> HIDE DEF c
<1>6. /\ m \in 0 .. Len(ids)
      /\ UpTo(ids, m) = Root \/ (UpTo(ids, m) \in DOMAIN c.nodes /\ Usable(c, UpTo(ids, m)))
      /\ \A i \in 1 .. m : UpTo(ids, i) \in DOMAIN c.kv /\ c.kv[UpTo(ids, i)] \in Pool
  BY <1>4, <1>5, MatchedRow DEF Tree
<1> HIDE DEF m
<1>7. r \notin DOMAIN Handles /\ \A s \in DOMAIN Handles : s \in Reqs /\ Handles[s].uuid = reqs[s].uuid
  BY <1>1, HandlesAre DEF Alive
<1>8. /\ Tree(k.c, With(Handles, r, [at |-> UpTo(ids, m), uuid |-> k.uuid])) /\ SamePages(c, k.c)
      /\ DOMAIN k.c.nodes = DOMAIN c.nodes /\ k.uuid \in Nat
      /\ \A x \in DOMAIN c.nodes : k.c.nodes[x].tomb = c.nodes[x].tomb
  BY <1>5, <1>6, <1>7, LockTaken
<1> HIDE DEF k
<1>9. SoundTo(tree, k.c, OwnAll(reqs))
  <2>1. \A p : Dead(k.c, p) <=> Dead(c, p)
    BY <1>8, TombsSame
  <2>2. Sound(c, OwnAll(reqs)) /\ SameLive(tree, c, OwnAll(reqs))
    BY <1>5 DEF SoundTo
  <2>3. Sound(k.c, OwnAll(reqs)) /\ SameLive(c, k.c, OwnAll(reqs))
    BY <1>8, <2>1, <2>2, SameSound
  <2>4. QED
    BY <2>2, <2>3, SameLives DEF SoundTo
<1>10. OwnPages(y) = {}
  BY <1>3 DEF OwnPages, RowPages
<1>11. m \in Nat /\ w \in Seq(Pool) /\ Len(w) = m
  <2>1. m \in Nat
    BY <1>6
  <2>2. QED
    BY <1>6, <2>1
<1> HIDE DEF w
<1>12. q \in ReqType /\ q.hlen = m /\ q.row = w /\ q.evicted = 0 /\ q.cached = m
  <2> DEFINE u == k.uuid
  <2>1. y \in ReqType /\ u \in Nat /\ y.evicted = 0
    BY <1>2, <1>3, <1>8
  <2>2. q = [y EXCEPT !.cached = m, !.hlen = m, !.uuid = u, !.row = w]
    BY Zenon DEF Admitted, w
  <2> HIDE DEF q, y, u
  <2>3. QED
    BY ONLY <1>11, <2>1, <2>2 DEF ReqType
<1> HIDE DEF q
<1>13. PICK s \in {"chunk", "decode"} : reqs' = [reqs EXCEPT ![r] = Restated(q, s)]
  BY <1>1
<1> DEFINE x == Restated(q, s)
<1>14. x.hlen = m /\ x.row = w /\ x.evicted = 0 /\ reqs' = [reqs EXCEPT ![r] = x]
  BY <1>12, <1>13, RestatedFields
<1> HIDE DEF x
<1>15. SoundTo(tree, tree', OwnAll(reqs) \ OwnPages(reqs[r]))
  <2>1. OwnAll(reqs) \ OwnPages(reqs[r]) = OwnAll(reqs)
    BY <1>10
  <2>2. QED
    BY <1>1, <1>9, <2>1
<1>16. QED
  BY <1>11, <1>14, <1>15, PageGoes

(* What a request's advance changes of it.                                 *)
LEMMA AdvancedEvicted ==
  ASSUME NEW y \in ReqType
  PROVE  Advanced(y).evicted = IF Frontier(y) > Kept(y) THEN Frontier(y) ELSE y.evicted
  BY DEF Advanced, ReqType

(* The next chunk of a prompt.                                             *)
LEMMA PageContinue ==
  ASSUME SwaInv, PageInv, NEW r \in Reqs, Continue(r)
  PROVE  PageInv'
<1> DEFINE y == reqs[r]
           q == Advanced(y)
           d == _free_swa(tree, Passed(y))
<1>1. UNCHANGED <<tree, reqs>> \/ \E n : Extend(r, q, d, n)
  BY Zenon DEF Continue
<1>2. y \in ReqType /\ y.row \in Seq(Pool) /\ Len(y.row) = y.cached
  BY DEF SwaInv, ReqInv, ReqType
<1>3. CASE UNCHANGED <<tree, reqs>>
  BY <1>3, PageTree DEF PageInv, SoundTo, SameLive
<1>4. CASE \E n : Extend(r, q, d, n)
  <2>1. q \in ReqType /\ q.hlen = y.hlen /\ q.row = y.row /\ q.cached = y.cached
        /\ q.evicted = IF Frontier(y) > Kept(y) THEN Frontier(y) ELSE y.evicted
    BY <1>2, AdvancedFields, AdvancedEvicted
  <2> HIDE DEF q, d, y
  <2>2. PICK n : Extend(r, q, d, n)
    BY <1>4
  <2>3. PICK s \in {"chunk", "decode"} : reqs' = [reqs EXCEPT ![r] = Restated(q, s)]
    BY <2>2, ExtendIs
  <2>4. tree' = d
    BY <2>2, ExtendIs
  <2> DEFINE x == Restated(q, s)
  <2>5. x.hlen = y.hlen /\ x.row = y.row /\ x.cached = y.cached /\ x.evicted = q.evicted
    BY <2>1, RestatedFields
  <2>6. reqs' = [reqs EXCEPT ![r] = x]
    BY <2>3
  <2> HIDE DEF x
  <2>7. QED
    BY <2>1, <2>4, <2>5, <2>6, PageAdvance DEF d, y
<1>5. QED
  BY <1>1, <1>3, <1>4

(* A decode step.                                                          *)
LEMMA PageDecode ==
  ASSUME SwaInv, PageInv, NEW r \in Reqs, Decode(r)
  PROVE  PageInv'
<1> DEFINE y == reqs[r]
<1>1. \/ tree' = _free_swa(tree, Passed(y)) /\ reqs' = [reqs EXCEPT ![r] = Advanced(y)]
      \/ reqs' = [reqs EXCEPT ![r] = Stepped(y)] /\ tree' = tree
  BY DEF Decode, Stepped
<1>2. y \in ReqType /\ y.row \in Seq(Pool) /\ Len(y.row) = y.cached
  BY DEF SwaInv, ReqInv, ReqType
<1>3. CASE tree' = _free_swa(tree, Passed(y)) /\ reqs' = [reqs EXCEPT ![r] = Advanced(y)]
  <2> DEFINE x == Advanced(y)
  <2>1. x.hlen = y.hlen /\ x.row = y.row /\ x.cached = y.cached
        /\ x.evicted = IF Frontier(y) > Kept(y) THEN Frontier(y) ELSE y.evicted
    BY <1>2, AdvancedFields, AdvancedEvicted
  <2>2. reqs' = [reqs EXCEPT ![r] = x]
    BY <1>3
  <2> HIDE DEF x
  <2>3. QED
    BY <1>3, <2>1, <2>2, PageAdvance
<1>4. CASE reqs' = [reqs EXCEPT ![r] = Stepped(y)] /\ tree' = tree
  <2> DEFINE x == Stepped(y)
  <2>1. x.row = y.row /\ x.hlen = y.hlen /\ x.evicted = y.evicted /\ x.cached = y.cached
    <3>1. y \in ReqType
      BY <1>2
    <3> HIDE DEF y
    <3>2. QED
      BY ONLY <3>1 DEF Stepped, ReqType
  <2>2. reqs' = [reqs EXCEPT ![r] = x] /\ tree' = tree
    BY <1>4
  <2> HIDE DEF x
  <2>3. QED
    BY <2>1, <2>2, PageSame
<1>5. QED
  BY <1>1, <1>3, <1>4

-----------------------------------------------------------------------------
(* what a commit finds again *)

(* A split leaves a cached prefix in a node with the same window and the   *)
(* same readers.                                                           *)
LEMMA SplitRefs ==
  ASSUME NEW c, Shape(c), NEW p, p = Root \/ p \in DOMAIN c.kv,
         NEW q \in DOMAIN c.kv, NEW n, Lies(c, q, n)
  PROVE  LET d == split_at(c, p)
         IN \E x : /\ Lies(d, q, x) /\ d.nodes[x].tomb = c.nodes[n].tomb
                   /\ d.nodes[x].ref = c.nodes[n].ref
<1> DEFINE d == split_at(c, p)
           m == Owner(c, p)
<1>1. CASE p = Root \/ p \in DOMAIN c.nodes
  <2>1. d = c
    BY <1>1 DEF split_at
  <2>2. QED
    BY <2>1
<1>2. CASE p \in DOMAIN c.kv /\ p \notin DOMAIN c.nodes
  <2>1. /\ Lies(c, p, m) /\ d.nodes[p] = c.nodes[m]
        /\ d.nodes[m] = [c.nodes[m] EXCEPT !.uuid = 0]
        /\ \A y \in DOMAIN c.nodes \ {m} : d.nodes[y] = c.nodes[y]
    BY <1>2, SplitNew
  <2>2. Lies(d, q, IF n = m /\ IsPrefix(q, p) THEN p ELSE n)
    BY <1>2, SplitLies
  <2>3. c.nodes[m] \in NodeType /\ n \in DOMAIN c.nodes
    BY <2>1 DEF Shape, Lies
  <2> HIDE DEF d, m
  <2>4. d.nodes[m].tomb = c.nodes[m].tomb /\ d.nodes[m].ref = c.nodes[m].ref
    BY <2>1, <2>3 DEF NodeType
  <2>5. CASE n = m /\ IsPrefix(q, p)
    BY <2>1, <2>2, <2>5 DEF d
  <2>6. CASE ~(n = m /\ IsPrefix(q, p))
    <3>1. d.nodes[n].tomb = c.nodes[n].tomb /\ d.nodes[n].ref = c.nodes[n].ref
      BY <2>1, <2>3, <2>4
    <3>2. QED
      BY <2>2, <2>6, <3>1 DEF d
  <2>7. QED
    BY <2>5, <2>6
<1>3. QED
  BY <1>1, <1>2

(* An insert leaves its tokens past the frontier in live nodes, where they *)
(* lay in one, or in a tombstone past the handle that nobody reads.        *)
LEMMA InsertLives ==
  ASSUME NEW c0, NEW H, Tree(c0, H), NEW ids \in Toks,
         NEW row \in Seq(Pool), Len(ids) <= Len(row), NEW evicted \in Nat,
         evicted = 0 \/ evicted < Len(ids), NEW after \in Nat
  PROVE  LET i == insert(c0, ids, row, evicted, after)
         IN /\ ids # Root => ids \in DOMAIN i.c.nodes
            /\ \A j \in 1 .. Len(ids) :
                 /\ j > evicted
                 /\ Dead(c0, UpTo(ids, j)) =>
                      j > after /\ \A n : Lies(c0, UpTo(ids, j), n) => c0.nodes[n].ref = 0
                 => ~Dead(i.c, UpTo(ids, j))
<1> DEFINE c == Walked(c0, ids)
           k == MatchLen(c0, ids)
           F == Fresh(c, ids, after)
           R == {n \in F : Revivable(c, n, evicted)}
           h == HeadOf(c, ids, evicted, R)
           s == split_at(c, h)
           S == SuffixOf(k, ids, evicted)
           A == AdoptedOf(c, evicted, R)
           i == insert(c0, ids, row, evicted, after)
           d == i.c
<1>1. Shape(c0) /\ Len(ids) \in Nat
  BY PrefixOrder DEF Tree
<1>2. /\ Tree(c, H) /\ SamePages(c0, c)
      /\ UpTo(ids, k) = Root \/ UpTo(ids, k) \in DOMAIN c.nodes
      /\ \A q \in DOMAIN c0.kv : Dead(c, q) <=> Dead(c0, q)
  BY WalkedIs
<1>3. /\ k \in 0 .. Len(ids)
      /\ \A j \in 1 .. Len(ids) : UpTo(ids, j) \in DOMAIN c.kv <=> j <= k
      /\ UpTo(ids, k) = Root \/ UpTo(ids, k) \in DOMAIN c0.kv
  BY <1>1, <1>2, MatchIs DEF SamePages
<1>4. k # 0 => UpTo(ids, k) \in DOMAIN c.nodes
  BY <1>2, <1>3, UpTos
<1>5. F \in SUBSET Path(c, ids) /\ R \in SUBSET Path(c, ids)
      /\ \A n \in R : evicted < Len(n) /\ c.nodes[n].ref = 0
  BY DEF Fresh, Revivable
<1>6. i = Reconciled(c, k, ids, row, evicted, F, R)
  BY DEF insert
<1>7. d = Grown(s, k, ids, row, S, R, A)
  <2> HIDE DEF c, k, F, R, i
  <2>1. QED
    BY <1>6, ReconciledFields
<1>8. c = split_at(c0, UpTo(ids, k))
  BY DEF Walked
<1>9. \A n \in Path(c, ids) : /\ Len(n) > after /\ c.nodes[n].tomb /\ c.nodes[n].ref = 0
                              /\ evicted < Len(n)
                              => n \in R
  BY DEF Fresh, Revivable
<1> HIDE DEF c, k, F, R
<1>10. Tree(s, H) /\ SamePages(c, s) /\ Grows(s, k, ids, row, S, R, A)
  BY <1>2, <1>3, <1>4, <1>5, ReconciledGrows
<1>11. /\ h = Root \/ h \in DOMAIN c.kv
       /\ \A n \in R : \A j \in High(evicted, Start(c, n)) + 1 .. Len(n) :
            Lies(s, UpTo(ids, j), n)
  BY <1>2, <1>3, <1>5, HeadIs DEF Tree
<1>12. /\ DOMAIN s.nodes = DOMAIN c.nodes \cup ({h} \ {Root})
       /\ \A q \in DOMAIN c.kv : Dead(s, q) <=> Dead(c, q)
  <2> HIDE DEF h
  <2>1. QED
    BY <1>2, <1>11, SplitKeeps
<1> HIDE DEF s, h, d, i
<1>13. /\ DOMAIN d.nodes = DOMAIN s.nodes \cup S
       /\ \A n \in S : d.nodes[n] = NewNode(Len(n) < Len(ids))
       /\ \A n \in DOMAIN s.nodes : d.nodes[n].tomb = (s.nodes[n].tomb /\ n \notin R)
       /\ \A p \in DOMAIN s.kv : \A n : Lies(s, p, n) => Lies(d, p, n)
       /\ \A j \in k + 1 .. Len(ids) : \E n \in S :
            /\ Lies(d, UpTo(ids, j), n) /\ Len(n) \in j .. Len(ids)
            /\ \A m \in S : Len(m) >= j => Len(n) <= Len(m)
       /\ Shape(d)
  <2>1. Shape(s)
    BY <1>10 DEF Tree
  <2> HIDE DEF S, A
  <2>2. QED
    BY <1>7, <1>10, <2>1, GrownFields, GrownLies, GrownShape
<1>14. ASSUME ids # Root
       PROVE  ids \in DOMAIN d.nodes
  <2>1. UpTo(ids, Len(ids)) = ids /\ Len(ids) # 0
    BY <1>1, <1>14, PrefixUpTo, PrefixOrder
  <2>2. CASE k = Len(ids)
    BY <1>4, <1>12, <1>13, <2>1, <2>2
  <2>3. CASE k # Len(ids)
    <3>1. ids \in S
      BY <2>1, <2>3 DEF SuffixOf
    <3>2. QED
      BY <1>13, <3>1
  <2>4. QED
    BY <2>2, <2>3
<1> HIDE DEF S, A
<1>15. ASSUME NEW j \in 1 .. Len(ids), j > evicted,
              Dead(c0, UpTo(ids, j)) =>
                j > after /\ \A n : Lies(c0, UpTo(ids, j), n) => c0.nodes[n].ref = 0
       PROVE  ~Dead(d, UpTo(ids, j))
  <2> DEFINE p == UpTo(ids, j)
  <2>1. j \in 0 .. Len(ids) /\ j \in Nat /\ j # 0 /\ k \in Nat
    BY <1>1, <1>3
  <2>2. p \in Toks /\ Len(p) = j /\ p # Root /\ IsPrefix(p, ids)
    BY <2>1, UpTos
  <2>3. ASSUME NEW n, Lies(d, p, n), ~d.nodes[n].tomb
        PROVE  ~Dead(d, p)
    BY <1>13, <2>3, OneOwner DEF Dead
  <2>4. CASE j <= k
    <3>1. p \in DOMAIN c.kv /\ p \in DOMAIN c0.kv /\ p \in DOMAIN s.kv
      BY <1>2, <1>3, <1>10, <2>4 DEF SamePages
    <3>2. CASE ~Dead(c0, p)
      <4>1. ~Dead(s, p)
        BY <1>2, <1>12, <3>1, <3>2
      <4>2. PICK n : Lies(s, p, n)
        BY <1>10, <3>1 DEF Tree, Shape
      <4>3. ~s.nodes[n].tomb /\ n \in DOMAIN s.nodes
        BY <4>1, <4>2 DEF Dead, Lies
      <4>4. QED
        BY <1>13, <2>3, <3>1, <4>2, <4>3
    <3>3. CASE Dead(c0, p)
      <4>1. PICK y : Lies(c0, p, y) /\ c0.nodes[y].tomb /\ c0.nodes[y].ref = 0
        BY <1>15, <3>3 DEF Dead
      <4>2. PICK n : Lies(c, p, n) /\ c.nodes[n].tomb /\ c.nodes[n].ref = 0
        BY <1>1, <1>3, <1>8, <3>1, <4>1, SplitRefs
      <4>3. n \in DOMAIN c.nodes /\ n \in Toks /\ IsPrefix(p, n) /\ Shape(c)
        BY <1>2, <4>2, TreeToks DEF Lies, Tree
      <4>4. IsPrefix(n, ids)
        <5>1. UpTo(ids, k) \in DOMAIN c.nodes /\ IsPrefix(p, UpTo(ids, k))
          BY <1>3, <1>4, <2>1, <2>4, UpToUpTo
        <5>2. IsPrefix(n, UpTo(ids, k)) /\ UpTo(ids, k) \in Toks /\ IsPrefix(UpTo(ids, k), ids)
          BY <1>3, <4>2, <5>1, UpTos DEF Lies
        <5>3. QED
          BY <4>3, <5>2, PrefixOrder
      <4>5. Len(n) \in Nat /\ j <= Len(n) /\ j > Start(c, n) /\ Start(c, n) \in Nat
        BY <2>2, <4>2, <4>3, CellLies, StartIs, PrefixOrder
      <4>6. Len(n) > after /\ evicted < Len(n) /\ j > after
        BY <1>15, <2>1, <3>3, <4>5
      <4>7. n \in R
        BY <1>9, <4>2, <4>3, <4>4, <4>6 DEF Path
      <4>8. j \in High(evicted, Start(c, n)) + 1 .. Len(n)
        BY <1>15, <2>1, <4>5 DEF High
      <4>9. Lies(s, p, n)
        BY <1>11, <4>7, <4>8
      <4>10. n \in DOMAIN s.nodes
        BY <4>9 DEF Lies
      <4>11. Lies(d, p, n) /\ ~d.nodes[n].tomb
        BY <1>13, <3>1, <4>7, <4>9, <4>10
      <4>12. QED
        BY <2>3, <4>11
    <3>4. QED
      BY <3>2, <3>3
  <2>5. CASE ~(j <= k)
    <3>1. j \in k + 1 .. Len(ids)
      BY <2>1, <2>5
    <3>2. PICK n \in S : /\ Lies(d, p, n) /\ Len(n) \in j .. Len(ids)
                         /\ \A m \in S : Len(m) >= j => Len(n) <= Len(m)
      BY <1>13, <3>1
    <3>3. Len(n) >= j
      BY <3>2
    <3>4. Len(n) < Len(ids) <=> j <= evicted
      BY <1>3, <3>1, <3>2, <3>3, SuffixDead DEF S
    <3>5. ~(Len(n) < Len(ids))
      BY <1>15, <2>1, <3>4
    <3>6. ~d.nodes[n].tomb
      <4>1. d.nodes[n] = NewNode(Len(n) < Len(ids)) /\ (Len(n) < Len(ids)) = FALSE
        BY <1>13, <3>5
      <4>2. d.nodes[n] = NewNode(FALSE)
        BY <4>1
      <4>3. QED
        BY <4>2 DEF NewNode
    <3>7. QED
      BY <2>3, <3>2, <3>6
  <2>6. QED
    BY <2>4, <2>5
<1>16. QED
  BY <1>14, <1>15 DEF d, i

(* An insert that crosses no kept tombstone leaves the trailing window of  *)
(* its tokens live.                                                        *)
LEMMA InsertedLives ==
  ASSUME NEW c, NEW H, Tree(c, H), NEW r, NEW q \in ReqType, Request(q, H, r),
         Len(q.row) = q.cached, q.cached <= Len(q.ids), q.hlen <= q.cached,
         q.evicted = 0 \/ q.evicted < q.cached - Window, ~Crosses(c, q)
  PROVE  LET e == Inserted(c, q, q.cached)
             ids == UpTo(q.ids, q.cached)
         IN /\ q.cached # 0 => ids \in DOMAIN e.nodes
            /\ \A j \in 1 .. q.cached : j > q.cached - Window => ~Dead(e, UpTo(ids, j))
<1> DEFINE ids == UpTo(q.ids, q.cached)
           i == insert(c, ids, q.row, q.evicted, q.hlen)
           l == dec_lock(i.c, UpTo(q.ids, q.hlen), q.uuid)
           e == Inserted(c, q, q.cached)
           k == q.cached
           h == q.hlen
           at == UpTo(q.ids, h)
<1>1. /\ q.ids \in Toks /\ q.row \in Seq(Pool) /\ q.evicted \in Nat /\ h \in 0 .. Len(q.ids)
      /\ r \in DOMAIN H /\ H[r].at = at /\ H[r].uuid = q.uuid
      /\ Len(q.ids) \in Nat /\ k \in Nat /\ k \in 0 .. Len(q.ids) /\ h \in Nat
  <2>1. /\ q.ids \in Toks /\ q.row \in Seq(Pool) /\ q.evicted \in Nat /\ h \in 0 .. Len(q.ids)
        /\ r \in DOMAIN H /\ H[r].at = at /\ H[r].uuid = q.uuid /\ k \in Nat /\ h \in Nat
    BY DEF Request, ReqType
  <2>2. Len(q.ids) \in Nat
    BY <2>1, PrefixOrder
  <2>3. QED
    BY <2>1, <2>2
<1>2. ids \in Toks /\ Len(ids) = k /\ \A j \in 0 .. k : UpTo(ids, j) = UpTo(q.ids, j)
  BY <1>1, UpTos, UpToUpTo
<1>3. e = _free_both(l, i.freed)
  BY DEF Inserted, Released
<1>4. q.evicted = 0 \/ q.evicted < k
  <2>1. k \in Nat /\ q.evicted \in Nat
    BY <1>1
  <2>2. QED
    BY <2>1, Sizes
<1> HIDE DEF ids
<1>5. /\ Tree(i.c, H) /\ i.freed \subseteq Pool
      /\ ids # Root => ids \in DOMAIN i.c.nodes
      /\ \A j \in 1 .. k :
           /\ j > q.evicted
           /\ Dead(c, UpTo(ids, j)) =>
                j > h /\ \A n : Lies(c, UpTo(ids, j), n) => c.nodes[n].ref = 0
           => ~Dead(i.c, UpTo(ids, j))
  <2>1. Tree(i.c, H) /\ i.freed \subseteq Pool
    BY <1>1, <1>2, InsertTree
  <2>2. QED
    BY <1>1, <1>2, <1>4, <2>1, InsertLives
<1> HIDE DEF i, e
<1>6. /\ Tree(l, Without(H, r)) /\ DOMAIN l.nodes = DOMAIN i.c.nodes
      /\ \A m \in DOMAIN i.c.nodes : l.nodes[m].tomb = i.c.nodes[m].tomb
  BY <1>1, <1>5, LockReleased
<1> HIDE DEF l
<1>7. \A p : Dead(l, p) <=> Dead(i.c, p)
  BY <1>6, TombsSame
<1>8. e.nodes = l.nodes /\ \A p : Dead(e, p) <=> Dead(l, p)
  <2>1. SameNodes(l, e)
    BY <1>3, <1>5, <1>6, FreeFields DEF Tree
  <2>2. QED
    BY <1>6, <2>1, PagesTree DEF SameNodes
<1>9. ASSUME k # 0
      PROVE  ids \in DOMAIN e.nodes
  <2>1. ids # Root
    BY <1>1, <1>9, UpTos DEF ids
  <2>2. QED
    BY <1>5, <1>6, <1>8, <2>1
<1>10. ASSUME NEW j \in 1 .. k, j > k - Window
       PROVE  ~Dead(e, UpTo(ids, j))
  <2> DEFINE p == UpTo(ids, j)
  <2>1. /\ j \in Nat /\ j # 0 /\ j \in 0 .. k /\ j > q.evicted
        /\ j \in 0 .. Len(q.ids) /\ j <= k
    <3>1. j \in Nat /\ j \in 1 .. k /\ k \in Nat /\ q.evicted \in Nat
      BY <1>1
    <3>2. j > q.evicted
      BY <1>10, <3>1, Sizes
    <3>3. QED
      BY <1>1, <3>1, <3>2
  <2>2. p = UpTo(q.ids, j)
    BY <1>2, <2>1
  <2>3. p \in Toks /\ Len(p) = j /\ p # Root
    BY <1>1, <2>1, <2>2, UpTos
  <2>4. ASSUME NEW n, Lies(c, p, n), c.nodes[n].tomb
        PROVE  j > h
    <3>1. SUFFICES ASSUME j <= h PROVE FALSE
      BY <1>1, <2>1
    <3>2. /\ at \in Toks /\ Len(at) = h /\ IsPrefix(p, at) /\ at # Root
      <4>1. h \in 0 .. Len(q.ids) /\ j \in 0 .. h /\ h # 0
        BY <1>1, <2>1, <3>1
      <4>2. QED
        BY <1>1, <2>2, <4>1, UpTos, UpToUpTo
    <3>3. Anchored(c, H[r])
      BY <1>1 DEF Tree, Locks
    <3>4. at \in DOMAIN c.nodes
      BY <1>1, <3>2, <3>3 DEF Anchored
    <3>5. n \in Path(c, at) /\ n \in Toks /\ IsPrefix(p, n)
      BY <2>4, <3>2, <3>4, TreeToks DEF Lies, Path, Tree
    <3>6. Len(n) \in Nat /\ j <= Len(n)
      BY <2>3, <3>5, PrefixOrder
    <3>7. Len(n) > h - Window
      <4> DEFINE z == Len(n)
      <4>1. z \in Nat /\ j <= z /\ j \in Nat /\ j > k - Window /\ h <= k /\ k \in Nat /\ h \in Nat
        BY <1>1, <1>10, <2>1, <3>6
      <4> HIDE DEF z, k, h
      <4>2. z > h - Window
        BY ONLY <4>1, Sizes
      <4>3. QED
        BY <4>2 DEF z
    <3>8. Holds(c, H[r], n)
      BY <1>1, <3>2, <3>3, <3>5, <3>7 DEF Anchored
    <3>9. QED
      BY <1>1, <2>4, <3>5, <3>8, GivesBack
  <2>5. ASSUME NEW n, Lies(c, p, n), c.nodes[n].tomb
        PROVE  c.nodes[n].ref = 0
    <3>1. SUFFICES ASSUME c.nodes[n].ref # 0 PROVE FALSE
      OBVIOUS
    <3>2. n \in DOMAIN c.nodes /\ c.nodes[n] \in NodeType /\ IsPrefix(p, n) /\ Shape(c)
      BY <2>5 DEF Lies, Tree, Shape
    <3>3. c.nodes[n].ref > 0
      BY <3>1, <3>2 DEF NodeType
    <3>4. j > Start(c, n)
      BY <2>3, <2>5, <3>2, CellLies
    <3>5. j \in High(q.hlen, q.cached - Window) + 1 .. q.cached
      <4>1. j > h /\ j > k - Window /\ j <= k /\ h \in Nat /\ k \in Nat /\ j \in Nat
        BY <1>1, <1>10, <2>1, <2>4, <2>5
      <4> HIDE DEF k, h
      <4>2. j \in High(h, k - Window) + 1 .. k
        BY ONLY <4>1, Sizes DEF High
      <4>3. QED
        BY <4>2 DEF h, k
    <3>6. Crosses(c, q)
      BY <2>2, <2>5, <3>2, <3>3, <3>4, <3>5 DEF Crosses
    <3>7. QED
      BY <3>6
  <2>6. ASSUME Dead(c, p)
        PROVE  j > h /\ \A n : Lies(c, p, n) => c.nodes[n].ref = 0
    <3>1. PICK n : Lies(c, p, n) /\ c.nodes[n].tomb
      BY <2>6 DEF Dead
    <3>2. \A m : Lies(c, p, m) => m = n
      BY <3>1, OneOwner DEF Tree
    <3>3. QED
      BY <2>4, <2>5, <3>1, <3>2
  <2>7. ~Dead(i.c, p)
    BY <1>5, <2>1, <2>6
  <2>8. QED
    BY <1>7, <1>8, <2>7
<1>11. QED
  BY <1>9, <1>10 DEF e, ids

(* A match finds all of a sequence whose end is a node with a live window. *)
LEMMA MatchesAll ==
  ASSUME NEW g, Shape(g), NEW ids \in Toks, ids # Root => ids \in DOMAIN g.nodes,
         \A j \in 1 .. Len(ids) : j > Len(ids) - Window => ~Dead(g, UpTo(ids, j))
  PROVE  match_prefix(g, ids) = Len(ids)
<1> DEFINE S == {Len(n) : n \in {m \in Path(g, ids) : Usable(g, m)}}
           k == match_prefix(g, ids)
           last == Len(ids)
<1>1. last \in Nat /\ k \in 0 .. last
  BY PrefixOrder, MatchPrefixIs
<1>2. CASE ids = Root
  <2>1. last = 0
    BY <1>2 DEF Root
  <2>2. QED
    BY <1>1, <2>1
<1>3. CASE ids # Root
  <2>1. ids \in Path(g, ids)
    BY <1>3, PrefixOrder DEF Path
  <2>2. ASSUME NEW t \in Path(g, ids), g.nodes[t].tomb
        PROVE  last - Len(t) >= Window
    <3>1. t \in DOMAIN g.nodes /\ IsPrefix(t, ids) /\ t \in Toks /\ t # Root
      BY TreeToks DEF Path
    <3>2. Len(t) \in 0 .. last /\ t = UpTo(ids, Len(t)) /\ Len(t) # 0
      BY <3>1, PrefixUpTo, PrefixOrder
    <3>3. Lies(g, t, t)
      BY <3>1, PrefixOrder DEF Lies
    <3>4. Dead(g, UpTo(ids, Len(t)))
      BY <2>2, <3>2, <3>3 DEF Dead
    <3>5. Len(t) \in 1 .. last
      BY <1>1, <3>2
    <3>6. ~(Len(t) > last - Window)
      BY <3>4, <3>5
    <3>7. QED
      <4> DEFINE z == Len(t)
      <4>1. z \in Nat /\ last \in Nat /\ ~(z > last - Window)
        BY <1>1, <3>5, <3>6
      <4> HIDE DEF z, last
      <4>2. last - z >= Window
        BY ONLY <4>1, Sizes
      <4>3. QED
        BY <4>2 DEF z
  <2>3. Usable(g, ids)
    BY <2>2 DEF Usable
  <2>4. last \in S
    BY <2>1, <2>3
  <2>5. S \in SUBSET Nat /\ \A j \in S : j <= last
    <3>1. \A n \in Path(g, ids) : n \in Toks /\ IsPrefix(n, ids)
      BY TreeToks DEF Path
    <3>2. QED
      BY <3>1, PrefixOrder
  <2>6. last <= k
    <3> HIDE DEF S
    <3>1. \A j \in {0} \cup S : j <= Max({0} \cup S)
      BY <1>1, <2>5, MaxWithZero
    <3>2. k = Max({0} \cup S)
      BY DEF match_prefix, S
    <3>3. QED
      BY <2>4, <3>1, <3>2
  <2>7. QED
    BY <1>1, <2>6
<1>4. QED
  BY <1>2, <1>3

(* A commit that crosses no kept tombstone finds again all that it         *)
(* inserted.                                                               *)
LEMMA CommitRejoins ==
  ASSUME NEW c, NEW H, Tree(c, H), NEW r \in Reqs, NEW q \in ReqType, Request(q, H, r),
         Len(q.row) = q.cached, q.cached <= Len(q.ids), q.hlen <= q.cached,
         q.evicted = 0 \/ q.evicted < q.cached - Window, ~Crosses(c, q)
  PROVE  Committed(c, q).q.hlen = q.cached
<1> DEFINE G == Without(H, r)
           ids == UpTo(q.ids, q.cached)
           head == UpTo(ids, KeepFrom(q.cached))
           e == Inserted(c, q, q.cached)
           f == Walked(e, head)
           g == Walked(f, ids)
           m == match_prefix(g, ids)
           l == inc_lock(g, UpTo(ids, m))
           row == RowOver(g, q, ids, m)
           k == Committed(c, q)
<1>1. /\ q.ids \in Toks /\ q.cached \in Nat /\ Len(q.ids) \in Nat
      /\ q.cached \in 0 .. Len(q.ids) /\ q.cached <= Len(q.row)
  BY PrefixOrder DEF ReqType
<1>2. ids \in Toks /\ Len(ids) = q.cached /\ (ids # Root => q.cached # 0)
  BY <1>1, UpTos
<1>3. head \in Toks
  <2> HIDE DEF ids
  <2>1. KeepFrom(q.cached) \in 0 .. q.cached
    <3>1. q.cached \in Nat
      BY <1>1
    <3>2. QED
      BY ONLY <3>1, Sizes DEF KeepFrom, High
  <2>2. QED
    BY <1>2, <2>1, UpTos
<1>4. k.q = Rehandled(q, m, l.uuid, row)
  <2>1. k = Rematched(g, q, ids)
    BY DEF Committed
  <2> HIDE DEF k, g, ids, m, l, row
  <2>2. Rematched(g, q, ids).q = Rehandled(q, m, l.uuid, row)
    BY RematchedFields DEF m, l, row
  <2>3. QED
    BY <2>1, <2>2
<1>5. /\ Tree(e, G)
      /\ q.cached # 0 => ids \in DOMAIN e.nodes
      /\ \A j \in 1 .. q.cached : j > q.cached - Window => ~Dead(e, UpTo(ids, j))
  BY <1>1, InsertedTree, InsertedLives
<1> HIDE DEF ids, head, e, G
<1>6. /\ Tree(f, G) /\ DOMAIN e.nodes \subseteq DOMAIN f.nodes /\ SamePages(e, f)
      /\ \A p \in DOMAIN e.kv : Dead(f, p) <=> Dead(e, p)
  BY <1>3, <1>5, WalkedIs
<1> HIDE DEF f
<1>7. /\ Tree(g, G) /\ DOMAIN f.nodes \subseteq DOMAIN g.nodes /\ SamePages(f, g)
      /\ \A p \in DOMAIN f.kv : Dead(g, p) <=> Dead(f, p)
  BY <1>2, <1>6, WalkedIs
<1> HIDE DEF g
<1>8. ids # Root => ids \in DOMAIN g.nodes
  BY <1>2, <1>5, <1>6, <1>7
<1>9. ASSUME NEW j \in 1 .. Len(ids), j > Len(ids) - Window
      PROVE  ~Dead(g, UpTo(ids, j))
  <2>1. q.cached # 0 /\ ids \in DOMAIN e.nodes /\ j \in 0 .. Len(ids) /\ j # 0
    BY <1>1, <1>2, <1>5
  <2>2. UpTo(ids, j) \in Toks \ {Root} /\ IsPrefix(UpTo(ids, j), ids)
    BY <1>2, <2>1, UpTos
  <2>3. UpTo(ids, j) \in DOMAIN e.kv
    BY <1>5, <2>1, <2>2, TreeToks DEF Tree
  <2>4. ~Dead(e, UpTo(ids, j))
    BY <1>2, <1>5, <1>9
  <2>5. QED
    BY <1>6, <1>7, <2>3, <2>4 DEF SamePages
<1>10. m = q.cached
  BY <1>2, <1>7, <1>8, <1>9, MatchesAll DEF Tree
<1> HIDE DEF m, k, l, row
<1>11. k.q.hlen = m
  BY <1>4 DEF Rehandled, ReqType
<1>12. QED
  BY <1>10, <1>11 DEF k

(* An abort: what was never admitted owns nothing, and what flies stays.   *)
LEMMA PageAbort ==
  ASSUME SwaInv, PageInv, NEW r \in Reqs, Abort(r)
  PROVE  PageInv'
<1> DEFINE y == reqs[r]
<1>1. /\ alloc = Idle /\ y.st # "done" /\ y \in ReqType /\ ReqInv(r)
      /\ \/ y.st = "pending" /\ reqs' = [reqs EXCEPT ![r] = Gone] /\ tree' = tree
         \/ y.st # "pending" /\ reqs' = [reqs EXCEPT ![r].aborted = TRUE] /\ tree' = tree
         \/ y.st # "pending" /\ Free(r, reqs[r])
  BY DEF Abort, SwaInv
<1>2. CASE y.st = "pending" /\ reqs' = [reqs EXCEPT ![r] = Gone] /\ tree' = tree
  <2>1. Len(y.row) = y.cached /\ y.cached = 0 /\ y.hlen <= y.cached /\ y.hlen \in Nat
    BY <1>1, <1>2 DEF ReqInv, ReqType
  <2>2. y.hlen + 1 .. Len(y.row) = {}
    <3> DEFINE h == y.hlen
               l == Len(y.row)
    <3>1. h <= l /\ h \in Nat /\ l = 0
      BY <2>1
    <3> HIDE DEF h, l
    <3>2. h + 1 .. l = {}
      BY ONLY <3>1
    <3>3. QED
      BY <3>2 DEF h, l
  <2>3. OwnPages(reqs[r]) = {}
    BY <2>2 DEF OwnPages, RowPages
  <2>4. SoundTo(tree, tree', OwnAll(reqs) \ OwnPages(reqs[r]))
    BY <1>2, <2>3 DEF PageInv, SoundTo, SameLive
  <2>5. Gone.hlen = 0 /\ Len(Gone.row) = 0 /\ Gone.evicted = 0
    BY DEF Gone
  <2>6. Gone.hlen \in Nat /\ Len(Gone.row) = Gone.hlen
    BY <2>5
  <2>7. QED
    BY <1>2, <2>4, <2>5, <2>6, PageGoes
<1>3. CASE reqs' = [reqs EXCEPT ![r].aborted = TRUE] /\ tree' = tree
  <2> DEFINE q == Aborting(reqs[r])
  <2>1. q.row = y.row /\ q.hlen = y.hlen /\ q.evicted = y.evicted /\ q.cached = y.cached
    BY ONLY <1>1 DEF Aborting, ReqType
  <2>2. reqs' = [reqs EXCEPT ![r] = q]
    BY <1>3 DEF Aborting
  <2> HIDE DEF q
  <2>3. QED
    BY <1>3, <2>1, <2>2, PageSame
<1>4. CASE y.st # "pending" /\ Free(r, reqs[r])
  <2>1. Alive(r)
    BY <1>1, <1>4 DEF ReqType, Alive
  <2>2. QED
    BY <1>1, <1>4, <2>1, FreeAlive
<1>5. QED
  BY <1>1, <1>2, <1>3, <1>4

(* The drain of a chunk, or of a step that is dropped.                     *)
LEMMA PageDrains ==
  ASSUME SwaInv, PageInv, NEW r \in Reqs, DrainChunk(r) \/ DrainDropped(r)
  PROVE  PageInv'
<1>1. /\ alloc = Idle
      /\ \/ tree' = tree /\ reqs' = reqs
         \/ reqs[r].aborted /\ Free(r, reqs[r])
  BY DEF DrainChunk, DrainDropped, Drains
<1>2. CASE tree' = tree /\ reqs' = reqs
  BY <1>2, PageTree DEF PageInv, SoundTo, SameLive
<1>3. CASE reqs[r].aborted /\ Free(r, reqs[r])
  <2>1. Alive(r)
    BY <1>3 DEF SwaInv, ReqInv, Alive
  <2>2. QED
    BY <1>1, <1>3, <2>1, FreeAlive
<1>4. QED
  BY <1>1, <1>2, <1>3

(* A running request with a token more.                                    *)
LEMMA TokenIs ==
  ASSUME SwaInv, NEW r \in Reqs, Alive(r), alloc = Idle, NEW t \in Nat,
         NEW q, q = Sampling(reqs[r], t)
  PROVE  /\ q \in ReqType /\ Request(q, Handles, r) /\ Len(q.row) = q.cached
         /\ q.hlen <= q.cached /\ q.cached <= Len(q.ids)
         /\ q.row = reqs[r].row /\ q.hlen = reqs[r].hlen /\ q.evicted = reqs[r].evicted
         /\ q.cached = reqs[r].cached
<1> DEFINE y == reqs[r]
           l == Len(y.ids)
<1>1. /\ y \in ReqType /\ y.cached <= l + 1 /\ Len(y.row) = y.cached /\ y.hlen <= y.cached
      /\ Request(y, Handles, r)
  BY CachedBound
<1>2. /\ y.ids \in Toks /\ l \in Nat /\ y.hlen \in 0 .. l /\ y.cached \in Nat
      /\ y.row \in Seq(Pool) /\ y.evicted \in Nat
      /\ r \in DOMAIN Handles /\ Handles[r] = [at |-> UpTo(y.ids, y.hlen), uuid |-> y.uuid]
  BY <1>1, PrefixOrder DEF Request, ReqType
<1> HIDE DEF y
<1>3. /\ q \in ReqType /\ q.ids = Append(y.ids, t) /\ q.hlen = y.hlen /\ q.uuid = y.uuid
      /\ q.row = y.row /\ q.cached = y.cached /\ q.evicted = y.evicted
  <2>1. y \in ReqType /\ t \in Nat /\ q = Sampling(y, t)
    BY <1>1 DEF y
  <2>2. QED
    BY ONLY <2>1, SamplingFields, ZenonT(30)
<1>4. /\ q.ids \in Toks /\ Len(q.ids) = l + 1
      /\ \A i \in 0 .. l : UpTo(q.ids, i) = UpTo(y.ids, i)
  BY <1>2, <1>3, AppendUpTo
<1>5. q.hlen \in 0 .. Len(q.ids) /\ q.cached <= Len(q.ids)
  <2> DEFINE h == y.hlen
             k == y.cached
  <2>1. h \in 0 .. l /\ l \in Nat /\ k \in Nat /\ k <= l + 1 /\ q.hlen = h /\ q.cached = k
    BY <1>1, <1>2, <1>3
  <2> HIDE DEF h, k, l
  <2>2. h \in 0 .. (l + 1) /\ k <= l + 1
    BY ONLY <2>1
  <2>3. QED
    BY <1>4, <2>1, <2>2
<1>6. UpTo(q.ids, q.hlen) = UpTo(y.ids, y.hlen)
  BY <1>2, <1>3, <1>4
<1>7. Request(q, Handles, r)
  BY <1>2, <1>3, <1>4, <1>5, <1>6 DEF Request
<1>8. QED
  BY <1>1, <1>3, <1>5, <1>7 DEF y

(* The drain of a sampled token: a commit that crosses no kept tombstone   *)
(* leaves the request with no page of its own.                             *)
LEMMA PageToken ==
  ASSUME SwaInv, PageInv, NEW r \in Reqs, NEW t \in Sampled, NEW stops \in BOOLEAN,
         DrainToken(r, t, stops), ~crossed'
  PROVE  PageInv'
<1> DEFINE q == Sampling(reqs[r], t)
<1>1. PICK kind \in {"prefill", "decode"} :
         /\ Drains(r, kind)
         /\ \/ Free(r, q)
            \/ /\ ~Crosses(tree, q)
               /\ \E k \in {Committed(tree, q)} :
                    tree' = k.c /\ reqs' = [reqs EXCEPT ![r] = k.q]
            \/ reqs' = [reqs EXCEPT ![r] = q] /\ UNCHANGED tree
  BY DEF DrainToken, Sampling
<1>2. alloc = Idle
  BY <1>1 DEF Drains
<1>3. /\ Alive(r) /\ t \in Nat /\ reqs[r].st = "decode" /\ reqs[r] \in ReqType
      /\ Tree(tree, Handles) /\ Sound(tree, OwnAll(reqs))
  BY SwaConstants DEF DrainToken, Alive, SwaInv, TreeInv, PageInv
<1>4. q.st = "decode"
  BY <1>3, SamplingFields
<1> HIDE DEF q
<1>5. /\ q \in ReqType /\ Request(q, Handles, r) /\ Len(q.row) = q.cached
      /\ q.hlen <= q.cached /\ q.cached <= Len(q.ids)
      /\ q.row = reqs[r].row /\ q.hlen = reqs[r].hlen /\ q.evicted = reqs[r].evicted
      /\ q.cached = reqs[r].cached
  BY <1>2, <1>3, TokenIs DEF q
<1>6. CASE Free(r, q)
  <2>1. q.cached <= Len(q.ids) + 1
    <3>1. q.cached \in Nat /\ Len(q.ids) \in Nat
      BY <1>5, PrefixOrder DEF ReqType
    <3>2. QED
      BY <1>5, <3>1
  <2>2. QED
    BY <1>5, <1>6, <2>1, FreePages
<1>7. CASE /\ ~Crosses(tree, q)
           /\ \E k \in {Committed(tree, q)} : tree' = k.c /\ reqs' = [reqs EXCEPT ![r] = k.q]
  <2> DEFINE k == Committed(tree, q)
             m == k.q.hlen
  <2>1. tree' = k.c /\ reqs' = [reqs EXCEPT ![r] = k.q]
    BY <1>7
  <2>2. r \in Reqs /\ \A s \in DOMAIN Handles : s \in Reqs /\ (s # r => Handles[s].uuid = reqs[s].uuid)
    BY HandlesAre
  <2>3. /\ k.q = Rehandled(q, m, k.q.uuid, k.q.row) /\ m \in 0 .. q.cached
        /\ k.q.uuid \in Nat /\ k.q.row \in Seq(Pool) /\ Len(k.q.row) = q.cached
    <3>1. Tree(tree, Handles) /\ Request(q, Handles, r)
      BY <1>3, <1>5
    <3>2. q \in ReqType /\ Len(q.row) = q.cached /\ q.cached <= Len(q.ids)
      BY <1>5
    <3> HIDE DEF k, m
    <3>3. /\ k.q = Rehandled(q, m, k.q.uuid, k.q.row)
          /\ m \in 0 .. q.cached /\ k.q.uuid \in Nat
          /\ k.q.row \in Seq(Pool) /\ Len(k.q.row) = q.cached
          /\ \A i \in 1 .. m : /\ UpTo(q.ids, i) \in DOMAIN k.c.kv
                                /\ k.c.kv[UpTo(q.ids, i)] = k.q.row[i]
          /\ Tree(k.c, With(Without(Handles, r), r, [at |-> UpTo(q.ids, m), uuid |-> k.q.uuid]))
          /\ SameRead(tree, k.c, Without(Handles, r)) /\ k.c.live \subseteq tree.live
      BY ONLY <2>2, <3>1, <3>2, CommittedTree DEF k, m
    <3>4. QED
      BY <3>3
  <2> HIDE DEF k, m
  <2>4. q.evicted = 0 \/ q.evicted < q.cached
    <3>1. q.evicted = 0 \/ q.evicted < q.cached - Window
      BY <1>5 DEF PageInv, Fits
    <3>2. q.evicted \in Nat /\ q.cached \in Nat
      BY <1>5 DEF ReqType
    <3>3. QED
      BY <3>1, <3>2, Sizes
  <2>5. Owns(tree, q, OwnAll(reqs)) /\ OwnPages(q) = OwnPages(reqs[r])
    BY <1>5, OwnsIts
  <2>6. SoundTo(tree, k.c, OwnAll(reqs) \ OwnPages(q))
    BY <1>3, <1>5, <2>2, <2>4, <2>5, CommittedSound DEF k
  <2>7. /\ k.q.hlen = m /\ k.q.row = k.q.row /\ k.q.st = "decode"
        /\ k.q.evicted = q.evicted /\ k.q.cached = q.cached
    <3> DEFINE x == k.q
               u == x.uuid
               w == x.row
    <3>1. x = Rehandled(q, m, u, w) /\ q \in ReqType /\ q.st = "decode"
      BY <1>4, <1>5, <2>3
    <3> HIDE DEF x, u, w
    <3>2. x.hlen = m /\ x.st = q.st /\ x.evicted = q.evicted /\ x.cached = q.cached
      BY ONLY <3>1 DEF Rehandled, ReqType
    <3>3. QED
      BY <1>4, <3>2 DEF x
  <2>8. reqs'[r] = k.q
    BY <2>1 DEF SwaInv
  <2>9. k.q.hlen = q.cached
    <3>1. q.evicted = 0 \/ q.evicted < q.cached - Window
      BY <1>5 DEF PageInv, Fits
    <3>2. QED
      BY <1>3, <1>5, <1>7, <3>1, CommitRejoins DEF k
  <2>10. k.q.hlen \in Nat /\ Len(k.q.row) = k.q.hlen
    <3>1. q.cached \in Nat
      BY <1>5 DEF ReqType
    <3>2. QED
      BY <2>3, <2>9, <3>1
  <2>11. k.q.evicted = 0 \/ k.q.evicted < k.q.cached - Window
    BY <1>5, <2>7 DEF PageInv, Fits
  <2>12. SoundTo(tree, tree', OwnAll(reqs) \ OwnPages(reqs[r]))
    BY <2>1, <2>5, <2>6
  <2>13. QED
    BY <2>1, <2>10, <2>11, <2>12, PageGoes
<1>8. CASE reqs' = [reqs EXCEPT ![r] = q] /\ UNCHANGED tree
  BY <1>5, <1>8, PageSame
<1>9. QED
  BY <1>1, <1>6, <1>7, <1>8

(* A launch takes each page once.                                          *)
LEMMA TakenApart ==
  ASSUME Shape(tree), NEW n \in Nat, n <= Cardinality(tree.free),
         NEW i \in 1 .. n, NEW j \in 1 .. n, nthFree(i) = nthFree(j)
  PROVE  i = j
<1>1. tree.free \in SUBSET (1 .. NumPages) /\ NumPages \in Nat
  BY Sizes DEF Shape, Pool
<1>2. Cardinality(tree.free) \in Nat
  BY <1>1, FromOne, FS_Subset, FS_CardinalityType
<1>3. ASSUME NEW k \in 1 .. n
      PROVE  Cardinality({f \in tree.free : f < nthFree(k)}) = k - 1
  <2>1. k \in 1 .. Cardinality(tree.free)
    BY <1>2
  <2>2. \E p \in tree.free : Cardinality({f \in tree.free : f < p}) = k - 1
    BY <1>1, <2>1, Ranks
  <2>3. QED
    BY <2>2 DEF nthFree
<1>4. i - 1 = j - 1
  BY <1>3
<1>5. QED
  BY <1>4

(* The entries of two rows in a row.                                       *)
LEMMA Concats ==
  ASSUME NEW S, NEW s \in Seq(S), NEW t \in Seq(S)
  PROVE  \A j \in 1 .. Len(s) + Len(t) : (s \o t)[j] = IF j <= Len(s) THEN s[j] ELSE t[j - Len(s)]
  OBVIOUS

(* What a launch leaves of the request, and what it adds to its row.       *)
LEMMA ExtendedRow ==
  ASSUME NEW q \in ReqType, NEW n \in Nat, NEW w \in Seq(Pool), Len(w) = n, Len(q.row) = q.cached
  PROVE  LET x == Extended(q, w, n)
         IN x.evicted = q.evicted /\ \A i \in 1 .. n : x.row[q.cached + i] = w[i]
<1> DEFINE v == q.row \o w
           c == q.cached + n
           x == Extended(q, w, n)
<1>1. q.row \in Seq(Pool) /\ Len(q.row) \in Nat
  BY DEF ReqType
<1>2. \A i \in 1 .. n : v[q.cached + i] = w[i]
  <2> DEFINE s == q.row
             l == Len(s)
  <2>1. s \in Seq(Pool) /\ l \in Nat /\ l = q.cached /\ v = s \o w
    BY <1>1
  <2>2. \A j \in 1 .. l + n : v[j] = IF j <= l THEN s[j] ELSE w[j - l]
    <3>1. \A j \in 1 .. Len(s) + Len(w) : (s \o w)[j] = IF j <= Len(s) THEN s[j] ELSE w[j - Len(s)]
      <4> HIDE DEF s
      <4>1. QED
        BY <2>1, Concats
    <3>2. QED
      BY <2>1, <3>1
  <2> HIDE DEF v, s, l
  <2>3. ASSUME NEW i \in 1 .. n
        PROVE  v[l + i] = w[i]
    <3>1. l \in Nat /\ n \in Nat /\ i \in 1 .. n
      BY <2>1
    <3>2. l + i \in 1 .. l + n /\ ~(l + i <= l) /\ (l + i) - l = i
      BY ONLY <3>1
    <3>3. QED
      BY <2>2, <3>2
  <2>4. QED
    BY <2>1, <2>3
<1>3. x = [q EXCEPT !.row = v, !.cached = c]
  BY DEF Extended
<1> HIDE DEF v, c, x
<1>4. x.row = v /\ x.evicted = q.evicted
  BY ONLY <1>3, q \in ReqType DEF ReqType
<1>5. QED
  BY <1>2, <1>4 DEF x

(* A launch makes free pages the request's own, and gives them slots.      *)
Takes(c, d, T) ==
    /\ T \subseteq c.free /\ c.free \subseteq Pool
    /\ d.nodes = c.nodes /\ d.kv = c.kv /\ d.free = c.free \ T /\ d.live = c.live \cup T
SoundWith(d, O, T) == Sound(d, O \cup T) /\ O \cap T = {}
LEMMA TakeSound ==
  ASSUME NEW c, NEW d, NEW O, Sound(c, O), NEW T, Takes(c, d, T)
  PROVE  SoundWith(d, O, T) /\ SameLive(c, d, O)
<1>1. /\ T \subseteq c.free /\ c.free \subseteq Pool
      /\ d.nodes = c.nodes /\ d.kv = c.kv /\ d.free = c.free \ T /\ d.live = c.live \cup T
  BY DEF Takes
<1>2. \A p : Dead(d, p) <=> Dead(c, p)
  BY <1>1, TombsSame
<1>3. O \cap T = {}
  BY <1>1 DEF Sound
<1>4. Sound(d, O \cup T)
  BY ONLY <1>1, <1>2, Sound(c, O) DEF Sound
<1>5. SameLive(c, d, O)
  BY <1>1, <1>3 DEF SameLive
<1>6. QED
  BY <1>3, <1>4, <1>5 DEF SoundWith

(* A launch.                                                               *)
LEMMA PageLaunch ==
  ASSUME SwaInv, PageInv, Launch, NEW a \in Reqs, a = alloc.r
  PROVE  PageInv'
<1> DEFINE n == alloc.n
           y == reqs[a]
           T == {nthFree(i) : i \in 1 .. n}
           w == NextFree(n)
           x == Extended(y, w, n)
           h == y.hlen
           k == y.cached
           e == y.evicted
           O == OwnAll(reqs)
           Q == O \ OwnPages(reqs[a])
<1>1. /\ alloc # Idle /\ ~ShortOfPages
      /\ tree' = [tree EXCEPT !.free = @ \ T, !.live = @ \cup T]
      /\ reqs' = [reqs EXCEPT ![a].row = @ \o w, ![a].cached = @ + n]
  <2>1. /\ alloc # Idle /\ ~ShortOfPages
        /\ tree' = [tree EXCEPT !.free = @ \ T, !.live = @ \cup T]
        /\ reqs' = [reqs EXCEPT ![alloc.r].row = @ \o w, ![alloc.r].cached = @ + n]
    BY Zenon DEF Launch, nthFree, NextFree
  <2> HIDE DEF T, w, n
  <2>2. QED
    BY <2>1, Zenon
<1>2. n \in Nat \ {0} /\ n \in Nat
  BY <1>1 DEF SwaInv, LoopInv
<1>3. /\ y \in ReqType /\ ReqInv(a) /\ Shape(tree) /\ Sound(tree, O) /\ Fits(tree, y)
  BY DEF SwaInv, TreeInv, Tree, PageInv
<1>4. Len(y.row) = k /\ h <= k /\ k \in Nat /\ h \in Nat /\ e \in Nat
  BY <1>3 DEF ReqInv, ReqType
<1>5. n <= Cardinality(tree.free)
  <2>1. IsFiniteSet(Pool) /\ tree.free \subseteq Pool
    BY <1>3, Sizes, FromOne DEF Pool, Shape
  <2>2. Cardinality(tree.free) \in Nat
    BY <2>1, FS_Subset, FS_CardinalityType
  <2>3. ~(Cardinality(tree.free) < n)
    BY <1>1 DEF ShortOfPages
  <2> HIDE DEF n
  <2>4. QED
    BY <1>2, <2>2, <2>3
<1>6. /\ w \in Seq(Pool) /\ Len(w) = n /\ T \subseteq tree.free
      /\ \A i \in 1 .. n : w[i] = nthFree(i)
      /\ \A i, j \in 1 .. n : nthFree(i) = nthFree(j) => i = j
  <2>1. w \in Seq(Pool) /\ Len(w) = n /\ T \subseteq tree.free
    BY <1>2, <1>3, <1>5, TakenPages
  <2>2. \A i \in 1 .. n : w[i] = nthFree(i)
    BY DEF NextFree
  <2>3. \A i, j \in 1 .. n : nthFree(i) = nthFree(j) => i = j
    BY <1>2, <1>3, <1>5, TakenApart
  <2>4. QED
    BY <2>1, <2>2, <2>3
<1>7. \A p : p \in T <=> \E i \in 1 .. n : p = w[i]
  BY <1>6
<1> HIDE DEF w, T
<1>8. /\ Len(x.row) = k + n /\ x.cached = k + n /\ x.hlen = h /\ x.evicted = e
      /\ \A i \in 1 .. k : x.row[i] = y.row[i]
      /\ \A i \in 1 .. n : x.row[k + i] = w[i]
  <2> HIDE DEF y, n
  <2>1. y \in ReqType /\ n \in Nat /\ w \in Seq(Pool) /\ Len(w) = n /\ Len(y.row) = y.cached
    BY <1>2, <1>3, <1>4, <1>6
  <2>2. /\ Len(x.row) = x.cached /\ x.cached = y.cached + n /\ x.hlen = y.hlen
        /\ \A i \in 1 .. y.cached : x.row[i] = y.row[i]
    BY <2>1, ExtendedFields
  <2>3. x.evicted = y.evicted /\ \A i \in 1 .. n : x.row[y.cached + i] = w[i]
    BY <2>1, ExtendedRow
  <2>4. QED
    BY <2>2, <2>3
<1>9. reqs' = [reqs EXCEPT ![a] = x]
  BY <1>1 DEF Extended
<1> HIDE DEF x
<1>10. /\ Sound(tree', O \cup T) /\ SameLive(tree, tree', O) /\ O \cap T = {}
       /\ tree'.live = tree.live \cup T
  <2>1. /\ tree.free \subseteq Pool
        /\ tree = [nodes |-> tree.nodes, kv |-> tree.kv, free |-> tree.free, live |-> tree.live]
    BY <1>3 DEF Shape
  <2>2. tree' = [tree EXCEPT !.free = @ \ T, !.live = @ \cup T] /\ T \subseteq tree.free
        /\ Sound(tree, O)
    BY <1>1, <1>3, <1>6
  <2>3. /\ tree'.nodes = tree.nodes /\ tree'.kv = tree.kv
        /\ tree'.free = tree.free \ T /\ tree'.live = tree.live \cup T
    BY ONLY <2>1, <2>2
  <2>4. Takes(tree, tree', T)
    BY ONLY <2>1, <2>2, <2>3 DEF Takes
  <2> HIDE DEF O
  <2>5. SoundWith(tree', O, T) /\ SameLive(tree, tree', O)
    BY <2>2, <2>4, TakeSound
  <2>6. QED
    BY <2>3, <2>5 DEF SoundWith
<1>11. /\ \A j \in h + 1 .. k + n : j \in h + 1 .. k \/ \E i \in 1 .. n : j = k + i
       /\ \A i \in 1 .. n : k + i \in h + 1 .. k + n
       /\ \A j \in h + 1 .. k : j \in h + 1 .. k + n /\ j \in 1 .. k
       /\ \A i, j \in 1 .. n : k + i = k + j => i = j
  <2>1. h <= k /\ h \in Nat /\ k \in Nat /\ n \in Nat
    BY <1>2, <1>4
  <2> HIDE DEF h, k, n
  <2>2. ASSUME NEW j \in h + 1 .. k + n
        PROVE  j \in h + 1 .. k \/ \E i \in 1 .. n : j = k + i
    <3>1. CASE j <= k
      BY <2>1, <3>1
    <3>2. CASE ~(j <= k)
      <4>1. j - k \in 1 .. n /\ j = k + (j - k)
        BY <2>1, <3>2
      <4>2. QED
        BY <4>1
    <3>3. QED
      BY <3>1, <3>2
  <2>3. /\ \A i \in 1 .. n : k + i \in h + 1 .. k + n
        /\ \A j \in h + 1 .. k : j \in h + 1 .. k + n /\ j \in 1 .. k
        /\ \A i, j \in 1 .. n : k + i = k + j => i = j
    BY ONLY <2>1
  <2>4. QED
    BY <2>2, <2>3
<1>12. OwnPages(x) = OwnPages(y) \cup T
  <2>1. \A p : p \in OwnPages(x) <=> \E j \in h + 1 .. k + n : p = x.row[j]
    BY <1>8 DEF OwnPages, RowPages
  <2>2. \A p : p \in OwnPages(y) <=> \E j \in h + 1 .. k : p = y.row[j]
    BY <1>4 DEF OwnPages, RowPages
  <2> HIDE DEF h, k, n, y
  <2>3. QED
    BY <1>7, <1>8, <1>11, <2>1, <2>2
<1>13. \A j \in h + 1 .. k : y.row[j] \in O
  BY <1>4 DEF OwnPages, RowPages, OwnAll
<1>14. Q \cap OwnPages(x) = {} /\ Q \cup OwnPages(x) = O \cup T
  <2>1. OwnPages(y) \subseteq O
    BY DEF OwnAll
  <2>2. Q = O \ OwnPages(y)
    OBVIOUS
  <2> HIDE DEF O, Q, y
  <2>3. QED
    BY <1>10, <1>12, <2>1, <2>2
<1>15. SameLive(tree, tree', Q)
  BY <1>10 DEF SameLive
<1>16. Fits(tree', x)
  <2>1. /\ \A j \in h + 1 .. k : y.row[j] \in tree.live <=> j > e
        /\ \A i, j \in h + 1 .. k : y.row[i] = y.row[j] => i = j
        /\ e = 0 \/ e < k - Window
    BY <1>3, <1>4 DEF Fits
  <2> HIDE DEF O, Q
  <2>2. (\A i \in 1 .. n : k + i > e) /\ (e = 0 \/ e < (k + n) - Window)
    <3>1. e \in Nat /\ k \in Nat /\ n \in Nat /\ (e = 0 \/ e < k - Window)
      BY <1>2, <1>4, <2>1
    <3> HIDE DEF e, k, n
    <3>2. QED
      BY ONLY <3>1, Sizes
  <2> HIDE DEF h, k, n, y, e
  <2>3. ASSUME NEW j \in h + 1 .. k + n
        PROVE  x.row[j] \in tree'.live <=> j > e
    <3>1. CASE j \in h + 1 .. k
      BY <1>8, <1>10, <1>11, <1>13, <2>1, <3>1 DEF SameLive
    <3>2. CASE \E i \in 1 .. n : j = k + i
      BY <1>7, <1>8, <1>10, <2>2, <3>2
    <3>3. QED
      BY <1>11, <3>1, <3>2
  <2>4. ASSUME NEW i \in h + 1 .. k + n, NEW j \in h + 1 .. k + n, x.row[i] = x.row[j]
        PROVE  i = j
    <3>1. ASSUME NEW l \in h + 1 .. k
          PROVE  x.row[l] = y.row[l] /\ x.row[l] \in O /\ x.row[l] \notin T
      BY <1>8, <1>10, <1>11, <1>13
    <3>2. ASSUME NEW l \in 1 .. n
          PROVE  x.row[k + l] = nthFree(l) /\ x.row[k + l] \in T
      BY <1>6, <1>7, <1>8
    <3>3. CASE i \in h + 1 .. k /\ j \in h + 1 .. k
      BY <2>1, <2>4, <3>1, <3>3
    <3>4. CASE (\E l \in 1 .. n : i = k + l) /\ (\E l \in 1 .. n : j = k + l)
      <4>1. PICK l \in 1 .. n : i = k + l
        BY <3>4
      <4>2. PICK m \in 1 .. n : j = k + m
        BY <3>4
      <4>3. nthFree(l) = nthFree(m)
        BY <2>4, <3>2, <4>1, <4>2
      <4>4. QED
        BY <1>6, <4>1, <4>2, <4>3
    <3>5. QED
      BY <1>11, <2>4, <3>1, <3>2, <3>3, <3>4
  <2>5. QED
    BY <1>8, <2>2, <2>3, <2>4 DEF Fits
<1>17. QED
  <2>1. Q = OwnAll(reqs) \ OwnPages(reqs[a])
    BY DEF O
  <2>2. Sound(tree', Q \cup OwnPages(x))
    BY <1>10, <1>14
  <2> HIDE DEF Q, O
  <2>3. QED
    BY <1>9, <1>14, <1>15, <1>16, <2>1, <2>2, PageChange

(* At first all pages are free.                                            *)
LEMMA PageInit ==
  ASSUME Init
  PROVE  PageInv
<1>1. PICK a \in Arrivals : reqs = [r \in Reqs |-> Arrived(a[r])]
  BY Zenon DEF Init, Arrived
<1>2. tree = [nodes |-> <<>>, kv |-> <<>>, free |-> 1 .. NumPages, live |-> {}]
  BY Zenon DEF Init
<1>3. ASSUME NEW r \in Reqs
      PROVE  OwnPages(reqs[r]) = {} /\ Fits(tree, reqs[r])
  <2> DEFINE y == a[r]
             x == Arrived(y)
             g == Gone
  <2>1. g.hlen = 0 /\ g.row = <<>> /\ g.evicted = 0 /\ g \in ReqType
    BY GoneIs DEF Gone
  <2>2. x = [g EXCEPT !.st = "pending", !.ids = y.ids, !.prompt = Len(y.ids), !.out = y.out]
    BY Zenon DEF Arrived
  <2>3. reqs[r] = x
    BY <1>1
  <2> HIDE DEF x, y, g
  <2>4. x.hlen = 0 /\ x.row = <<>> /\ x.evicted = 0
    BY ONLY <2>1, <2>2 DEF ReqType
  <2>5. x.hlen + 1 .. Len(x.row) = {}
    <3>1. 0 + 1 .. 0 = {} /\ Len(<<>>) = 0
      OBVIOUS
    <3>2. QED
      BY <2>4, <3>1
  <2>6. OwnPages(x) = {} /\ Fits(tree, x)
    BY <2>4, <2>5 DEF OwnPages, RowPages, Fits
  <2>7. QED
    BY <2>3, <2>6
<1>4. OwnAll(reqs) = {}
  BY <1>3 DEF OwnAll
<1>5. /\ DOMAIN tree.kv = {} /\ tree.free = Pool /\ tree.live = {}
  BY <1>2 DEF Pool
<1>6. Sound(tree, OwnAll(reqs))
  BY <1>4, <1>5 DEF Sound
<1>7. Apart(reqs)
  BY <1>3 DEF Apart
<1>8. QED
  BY <1>3, <1>6, <1>7 DEF PageInv

(* A step that crosses no kept tombstone keeps the pages.                  *)
LEMMA PageNext ==
  ASSUME SwaInv, PageInv, [Next]_vars, ~crossed'
  PROVE  PageInv'
<1>1. ASSUME tree' = tree, reqs' = reqs
      PROVE  PageInv'
  BY <1>1, PageTree DEF PageInv, SoundTo, SameLive
<1>2. CASE UNCHANGED vars
  BY <1>1, <1>2 DEF vars
<1>3. ASSUME NEW r \in Reqs, Admit(r) PROVE PageInv'
  BY <1>3, PageAdmit
<1>4. ASSUME NEW r \in Reqs, Continue(r) PROVE PageInv'
  BY <1>4, PageContinue
<1>5. ASSUME NEW r \in Reqs, Decode(r) PROVE PageInv'
  BY <1>5, PageDecode
<1>6. ASSUME NEW r \in Reqs, Abort(r) PROVE PageInv'
  BY <1>6, PageAbort
<1>7. ASSUME NEW n \in DOMAIN tree.nodes, evict_full(n) \/ evict_swa(n) PROVE PageInv'
  BY <1>7, PageEvicts
<1>8. CASE AllocateFails
  BY <1>1, <1>8 DEF AllocateFails
<1>9. CASE Launch
  <2>1. alloc # Idle
    BY <1>9, Zenon DEF Launch
  <2>2. PICK a \in Reqs : a = alloc.r
    BY <2>1 DEF SwaInv, LoopInv
  <2>3. QED
    BY <1>9, <2>2, PageLaunch
<1>10. ASSUME NEW r \in Reqs, DrainChunk(r) \/ DrainDropped(r) PROVE PageInv'
  BY <1>10, PageDrains
<1>11. ASSUME NEW r \in Reqs, NEW t \in Sampled, NEW stops \in BOOLEAN, DrainToken(r, t, stops)
       PROVE  PageInv'
  BY <1>11, PageToken
<1>12. QED
  BY <1>2, <1>3, <1>4, <1>5, <1>6, <1>7, <1>8, <1>9, <1>10, <1>11, Zenon DEF Next

(* What was crossed stays crossed.                                         *)
LEMMA CrossedStays ==
  ASSUME [Next]_vars, ~crossed'
  PROVE  ~crossed
<1>1. CASE UNCHANGED vars
  BY <1>1 DEF vars
<1>2. ASSUME NEW r \in Reqs, Admit(r) \/ Continue(r) \/ Decode(r) \/ Abort(r)
      PROVE  ~crossed
  BY <1>2 DEF Admit, Continue, Extend, Decode, Abort
<1>3. ASSUME NEW n \in DOMAIN tree.nodes, evict_full(n) \/ evict_swa(n) PROVE ~crossed
  BY <1>3 DEF evict_full, evict_swa
<1>4. CASE AllocateFails \/ Launch
  BY <1>4 DEF AllocateFails, Launch
<1>5. ASSUME NEW r \in Reqs, DrainChunk(r) \/ DrainDropped(r) PROVE ~crossed
  BY <1>5 DEF DrainChunk, DrainDropped
<1>6. ASSUME NEW r \in Reqs, NEW t \in Sampled, NEW stops \in BOOLEAN, DrainToken(r, t, stops)
      PROVE  ~crossed
  BY <1>6 DEF DrainToken
<1>7. QED
  BY <1>1, <1>2, <1>3, <1>4, <1>5, <1>6, Zenon DEF Next

(* The pages are shared out among the pool, the tree and the requests      *)
(* whatever is admitted, launched, drained, committed, evicted or aborted, *)
(* in any order, as long as no commit has crossed a tombstone that another *)
(* reader keeps.                                                           *)
THEOREM SwaPageInvariant == Spec => [](crossed \/ PageInv)
<1>1. Init => PageInv
  BY PageInit
<1>2. SwaInv /\ (crossed \/ PageInv) /\ [Next]_vars => (crossed \/ PageInv)'
  BY PageNext, CrossedStays
<1>3. QED
  BY <1>1, <1>2, SwaInvariant, PTL DEF Spec

(* What the invariants say of the pages.                                   *)
LEMMA PagesFollow ==
  ASSUME SwaInv, PageInv
  PROVE  PagesConserved
<1> DEFINE O == OwnAll(reqs)
<1>1. /\ Shape(tree) /\ Sound(tree, O) /\ Apart(reqs) /\ \A r \in Reqs : Fits(tree, reqs[r])
  BY DEF SwaInv, TreeInv, Tree, PageInv
<1>2. \A r : Own(r) = OwnPages(reqs[r])
  BY DEF Own, OwnPages, RowPages
<1>3. UNION {Own(r) : r \in Reqs} = O
  BY <1>2 DEF OwnAll
<1>4. \A x : x \in TreePages <=> \E p \in DOMAIN tree.kv : tree.kv[p] = x
  BY DEF TreePages
<1>5. \A r \in Reqs : Own(r) \subseteq O
  BY <1>3
<1> HIDE DEF O
<1>6. /\ tree.free \cup TreePages \cup O = Pool
      /\ tree.free \cap TreePages = {} /\ O \cap (tree.free \cup TreePages) = {}
  <2>1. /\ O \subseteq Pool /\ tree.free \subseteq Pool /\ \A p \in DOMAIN tree.kv : tree.kv[p] \in Pool
    BY <1>1 DEF Sound, Shape
  <2>2. QED
    BY <1>1, <1>4, <2>1 DEF Sound
<1>7. IsInjective(tree.kv)
  BY <1>1 DEF Sound, IsInjective
<1>8. ASSUME NEW r \in Reqs
      PROVE  /\ Own(r) \cap (tree.free \cup TreePages) = {}
             /\ \A s \in Reqs \ {r} : Own(r) \cap Own(s) = {}
             /\ \A i, j \in reqs[r].hlen + 1 .. Len(reqs[r].row) :
                  reqs[r].row[i] = reqs[r].row[j] => i = j
  <2>1. Own(r) \cap (tree.free \cup TreePages) = {}
    BY <1>5, <1>6
  <2>2. \A s \in Reqs \ {r} : Own(r) \cap Own(s) = {}
    BY <1>1, <1>2 DEF Apart
  <2>3. QED
    BY <1>1, <2>1, <2>2 DEF Fits
<1>9. TypeOK
  BY TypesFollow
<1>10. QED
  BY <1>3, <1>6, <1>7, <1>8, <1>9 DEF PagesConserved, Pool

(* A node is a tombstone exactly when its pages have no window slot.       *)
LEMMA TombstonesFollow ==
  ASSUME SwaInv, PageInv
  PROVE  TombstonesTrue
<1>1. Shape(tree) /\ Sound(tree, OwnAll(reqs))
  BY DEF SwaInv, TreeInv, Tree, PageInv
<1>2. ASSUME NEW n \in Nodes, NEW p \in Cells(tree, n)
      PROVE  tree.kv[p] \in tree.live <=> ~tree.nodes[n].tomb
  <2>1. n \in DOMAIN tree.nodes
    BY DEF Nodes
  <2>2. p \in DOMAIN tree.kv
    BY <1>1, <2>1, PagesIn
  <2>3. p \in Toks \ {Root}
    BY <1>1, <2>2, TreeToks
  <2>4. Lies(tree, p, n)
    BY <1>1, <1>2, <2>1, <2>3, CellLies
  <2>5. Dead(tree, p) <=> tree.nodes[n].tomb
    BY <1>1, <2>4, OneOwner DEF Dead
  <2>6. QED
    BY <1>1, <2>2, <2>5 DEF Sound
<1>3. \A n \in Nodes : IF tree.nodes[n].tomb
                       THEN Pages(tree, n) \cap tree.live = {}
                       ELSE Pages(tree, n) \subseteq tree.live
  BY <1>2 DEF Pages
<1>4. QED
  BY <1>1, <1>3 DEF TombstonesTrue, Sound

(* The window of a running request has its slots: past the handle they are *)
(* the request's own, which it frees up to its frontier only; up to the    *)
(* handle they are the tree's, in nodes whose window the handle holds.     *)
LEMMA WindowFollows ==
  ASSUME SwaInv, PageInv
  PROVE  WindowLive
<1> SUFFICES ASSUME NEW r \in Reqs, Alive(r),
                    NEW i \in High(1, reqs[r].cached - Window + 1) .. reqs[r].cached
             PROVE  reqs[r].row[i] \in tree.live
  BY DEF WindowLive
<1> DEFINE y == reqs[r]
           k == y.cached
           h == y.hlen
           e == y.evicted
<1>1. /\ Tree(tree, Handles) /\ Shape(tree) /\ Sound(tree, OwnAll(reqs)) /\ RowsBacked
      /\ Fits(tree, y) /\ ReqInv(r) /\ y \in ReqType /\ Request(y, Handles, r)
  BY RunningRequest DEF SwaInv, TreeInv, Tree, PageInv
<1>2. Len(y.row) = k /\ h <= k /\ k \in Nat /\ h \in Nat /\ e \in Nat /\ (e = 0 \/ e < k - Window)
  BY <1>1 DEF ReqInv, ReqType, Fits
<1>3. i \in 1 .. k /\ i > k - Window /\ (h < i => i > e /\ i \in h + 1 .. k) /\ (~(h < i) => i \in 1 .. h)
  <2>1. i \in High(1, k - Window + 1) .. k
    OBVIOUS
  <2> HIDE DEF k, h, e
  <2>2. QED
    BY ONLY <1>2, <2>1, Sizes DEF High
<1>4. CASE h < i
  <2>1. i \in y.hlen + 1 .. Len(y.row) /\ i > y.evicted
    BY <1>2, <1>3, <1>4
  <2>2. QED
    BY <1>1, <2>1 DEF Fits
<1>5. CASE ~(h < i)
  <2> DEFINE p == UpTo(y.ids, i)
             at == UpTo(y.ids, h)
  <2>1. i \in 1 .. h
    BY <1>3, <1>5
  <2>2. /\ y.ids \in Toks /\ h \in 0 .. Len(y.ids) /\ r \in DOMAIN Handles /\ Handles[r].at = at
    BY <1>1, HandlesAre DEF Request
  <2>3. p \in DOMAIN tree.kv /\ tree.kv[p] = y.row[i]
    BY <1>1, <2>1 DEF RowsBacked
  <2>4. i \in 0 .. h /\ i \in 0 .. Len(y.ids)
    <3>1. Len(y.ids) \in Nat
      BY <2>2, PrefixOrder
    <3>2. QED
      BY <1>2, <2>1, <2>2, <3>1
  <2>5. /\ p \in Toks /\ Len(p) = i /\ at \in Toks /\ Len(at) = h /\ IsPrefix(p, at) /\ at # Root
    <3>1. h # 0
      BY <1>2, <2>1
    <3>2. QED
      BY <2>2, <2>4, <3>1, UpTos, UpToUpTo
  <2>6. Anchored(tree, Handles[r])
    BY <1>1, <2>2 DEF Tree, Locks
  <2>7. at \in DOMAIN tree.nodes
    BY <2>2, <2>5, <2>6 DEF Anchored
  <2>8. PICK n : Lies(tree, p, n)
    BY <1>1, <2>3 DEF Shape
  <2>9. n \in Path(tree, at) /\ n \in Toks /\ IsPrefix(p, n)
    BY <1>1, <2>5, <2>7, <2>8, TreeToks DEF Lies, Path
  <2>10. Len(n) \in Nat /\ i <= Len(n)
    BY <2>5, <2>9, PrefixOrder
  <2>11. Len(n) > h - Window
    <3> DEFINE l == Len(n)
    <3>1. l \in Nat /\ i <= l /\ i \in Nat /\ i > k - Window /\ h <= k /\ k \in Nat /\ h \in Nat
      BY <1>2, <1>3, <2>10
    <3> HIDE DEF l, k, h
    <3>2. l > h - Window
      BY ONLY <3>1, Sizes
    <3>3. QED
      BY <3>2 DEF l
  <2>12. Holds(tree, Handles[r], n)
    BY <2>2, <2>5, <2>6, <2>9, <2>11 DEF Anchored
  <2>13. ~tree.nodes[n].tomb
    BY <1>1, <2>2, <2>9, <2>12, GivesBack
  <2>14. ~Dead(tree, p)
    BY <1>1, <2>8, <2>13, OneOwner DEF Dead
  <2>15. tree.kv[p] \in tree.live
    BY <1>1, <2>3, <2>14 DEF Sound
  <2>16. QED
    BY <2>3, <2>15
<1>6. QED
  BY <1>4, <1>5

(* No page is lost and none has two owners.                                *)
THEOREM SwaPagesConserved == Spec => [](crossed \/ PagesConserved)
<1>1. SwaInv /\ (crossed \/ PageInv) => crossed \/ PagesConserved
  BY PagesFollow
<1>2. QED
  BY <1>1, SwaInvariant, SwaPageInvariant, PTL

(* The window that a running request reads next has its slots.             *)
THEOREM SwaWindowLive == Spec => [](crossed \/ WindowLive)
<1>1. SwaInv /\ (crossed \/ PageInv) => crossed \/ WindowLive
  BY WindowFollows
<1>2. QED
  BY <1>1, SwaInvariant, SwaPageInvariant, PTL

(* What the tree says of its slots, its locks and its leaves is true.      *)
THEOREM SwaTreeSound == Spec => [](crossed \/ TreeSound)
<1>1. SwaInv /\ (crossed \/ PageInv) => crossed \/ TreeSound
  BY TombstonesFollow, LocksFollow, LeavesFollow DEF TreeSound
<1>2. QED
  BY <1>1, SwaInvariant, SwaPageInvariant, PTL
=============================================================================
