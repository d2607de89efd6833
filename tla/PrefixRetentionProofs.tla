------------------------ MODULE PrefixRetentionProofs ------------------------
(***************************************************************************)
(* Proofs about PrefixRetention, for any records, requests, slots, limits  *)
(* and faults.                                                             *)
(***************************************************************************)
EXTENDS PrefixRetention, FiniteSetTheorems, WellFoundedInduction, TLAPS

EntryRecord == [key : Keys, slot : Slots, readers : {0, 1}]

Apart(es) ==
    \A i, j \in 1 .. Len(es) :
        es[i].key = es[j].key \/ es[i].slot = es[j].slot => i = j

(* A cache of endpoints with its free slots: a key and a slot occur once,   *)
(* and a slot in use is not free.                                          *)
IsCache(c) ==
    /\ c.entries \in Seq(EntryRecord)
    /\ c.free \in SUBSET Slots
    /\ Apart(c.entries)
    /\ \A i \in 1 .. Len(c.entries) : c.entries[i].slot \notin c.free


(* A restore group, when n tickets have been issued. *)
Restores(n) == [ticket : 0 .. n, key : Keys \cup {0}, slot : Slots \cup {0},
                waiters : SUBSET Uids]

(* Types of what names a ticket. *)
TicketTypes ==
    /\ tickets \in Seq(TicketRecord)
    /\ held \in SUBSET (1 .. Len(tickets))
    /\ jobs \in Seq(1 .. Len(tickets)) /\ done \in Seq(1 .. Len(tickets))
    /\ now \in 0 .. Len(tickets)
    /\ writes \in [Keys -> 0 .. Len(tickets)]
    /\ restore \in Restores(Len(tickets))

Submissions == [kind : {"none", "write", "read"}, key : Keys \cup {0},
                slot : Slots \cup {0}, uid : Uids \cup {0}]
Events == [ready : BOOLEAN, failure : BOOLEAN, closing : BOOLEAN,
           stopped : BOOLEAN, released : BOOLEAN, failed : BOOLEAN]

OtherTypes ==
    /\ flags \in Events
    /\ index \in SUBSET Keys /\ pins \in [Keys -> Nat]
    /\ worker \in {"opening", "loop", "busy", "skip", "drain", "sleep", "gone"}
    /\ at \in {"idle", "put", "repoll", "drained", "handle", "joining", "over", "broken"}
    /\ job \in Submissions
    /\ restoring \in {0, 1}
    /\ pending \in [Uids -> {"new", "waiting", "go"}]

Limits ==
    /\ Cardinality(held) <= MaxTickets
    /\ Cardinality(index) <= MaxDisk
    /\ Len(entries) <= MaxRecords

(* _submit: what is between its two halves. *)
Submitting ==
    /\ at = "put" => job.kind # "none" /\ job.key \in Keys /\ flags.ready
    /\ at # "put" => job = NoJob
    /\ job.kind = "write" => writes[job.key] = NoTicket /\ job.slot = 0
    /\ job.kind = "read"  => restore = NoRestore /\ job.uid \in Uids /\ job.slot \in Slots

(* A held ticket and the table or the restore that names it. *)
Tabled ==
    /\ \A t \in held : /\ tickets[t].kind = "write" => writes[tickets[t].key] = t
                       /\ tickets[t].kind = "read" => restore.ticket = t
    /\ \A k \in Keys : writes[k] # NoTicket =>
          writes[k] \in held /\ tickets[writes[k]].kind = "write" /\ tickets[writes[k]].key = k
    /\ restore.ticket # NoTicket =>
          /\ restore.ticket \in held /\ restore.key \in Keys /\ restore.slot \in Slots
          /\ tickets[restore.ticket].kind = "read"
          /\ tickets[restore.ticket].key = restore.key
    /\ restore.ticket = NoTicket => restore = NoRestore

Leased(k) == writes[k] # NoTicket \/ (job.kind = "write" /\ job.key = k)

(* Exactly the endpoints that a write is on its way from have a reader, and *)
(* all of those are in memory. *)
LeasesMatch(es) ==
    /\ \A i \in 1 .. Len(es) : es[i].readers = IF Leased(es[i].key) THEN 1 ELSE 0
    /\ \A k \in Keys : Leased(k) => Known(es, k)

Leases == IsCache(Endpoints) /\ LeasesMatch(entries)

Private == {restore.slot, job.slot} \ {0}

Images ==
    /\ Private \cap (free \cup Owned(entries)) = {}
    /\ free \cup Owned(entries) \cup Private = Slots
    /\ restoring = IF restore # NoRestore \/ job.kind = "read" THEN 1 ELSE 0

(* The worker, the events and the queue. *)
Serving ==
    /\ ~flags.ready <=> worker = "opening"
    /\ flags.stopped <=> worker \in {"drain", "sleep", "gone"}
    /\ worker \in {"opening", "gone"} => held = {}
    /\ now # NoTicket <=> worker \in {"busy", "skip"}
    /\ now # NoTicket => now \in held /\ ~tickets[now].finished
    /\ \A t \in 1 .. Len(tickets) : tickets[t].gpu => t \in held
    /\ ~flags.stopped =>
          /\ \A i \in 1 .. Len(jobs) : /\ jobs[i] \in held /\ jobs[i] # now
                                       /\ ~tickets[jobs[i]].finished
          /\ \A i, j \in 1 .. Len(jobs) : jobs[i] = jobs[j] => i = j

Pinned ==
    \A k \in Keys : /\ pins[k] = IF restore # NoRestore /\ restore.key = k THEN 1 ELSE 0
                    /\ pins[k] > 0 => k \in index

RetentionInv == /\ TicketTypes /\ OtherTypes /\ Limits /\ Submitting /\ Tabled /\ Leases /\ Images
                /\ Serving /\ Pinned /\ WaitersListed

-----------------------------------------------------------------------------
(* Sequences and numbers.                                                  *)

(* A set of naturals with a member has a least one, its Min.               *)
LEMMA MinIsLeast ==
  ASSUME NEW S \in SUBSET Nat, S # {}
  PROVE  Min(S) \in S /\ \A m \in S : Min(S) <= m
<1>1. PICK n \in S : \A m \in S : ~(<<m, n>> \in OpToRel(<, Nat))
  BY NatLessThanWellFounded, WFMin
<1>2. \A m \in S : ~(m < n)
  BY <1>1 DEF OpToRel
<1>3. n \in S /\ \A m \in S : n <= m
  BY <1>2
<1>4. QED
  BY <1>3 DEF Min

(* A bounded set of naturals with a member has a greatest one, its Max.    *)
LEMMA MaxIsGreatest ==
  ASSUME NEW S \in SUBSET Nat, S # {}, NEW b \in Nat, \A m \in S : m <= b
  PROVE  Max(S) \in S
<1> DEFINE R == {b - m : m \in S}
<1>1. R \in SUBSET Nat /\ R # {}
  OBVIOUS
<1>2. Min(R) \in R /\ \A r \in R : Min(R) <= r
  <2> HIDE DEF R
  <2>1. QED
    BY <1>1, MinIsLeast
<1>3. PICK x \in S : Min(R) = b - x
  BY <1>2
<1>4. ASSUME NEW m \in S PROVE x >= m
  <2>1. b - m \in R
    OBVIOUS
  <2>2. b - x <= b - m
    BY <1>2, <1>3, <2>1
  <2>3. QED
    BY <2>2
<1>5. QED
  BY <1>4 DEF Max

LEMMA RemoveAtDrops ==
  ASSUME NEW T, NEW s \in Seq(T), NEW i \in 1 .. Len(s)
  PROVE  /\ RemoveAt(s, i) \in Seq(T)
         /\ Len(RemoveAt(s, i)) = Len(s) - 1
         /\ \A j \in 1 .. Len(s) - 1 :
               RemoveAt(s, i)[j] = s[IF j < i THEN j ELSE j + 1]
<1> DEFINE a == SubSeq(s, 1, i - 1)
           b == SubSeq(s, i + 1, Len(s))
<1>1. a \in Seq(T) /\ Len(a) = i - 1 /\ \A j \in 1 .. i - 1 : a[j] = s[j]
  OBVIOUS
<1>2. /\ b \in Seq(T) /\ Len(b) = Len(s) - i
      /\ \A j \in 1 .. Len(s) - i : b[j] = s[i + j]
  OBVIOUS
<1>3. RemoveAt(s, i) = a \o b
  BY DEF RemoveAt
<1> HIDE DEF a, b
<1>4. a \in Seq(T) /\ b \in Seq(T)
  BY <1>1, <1>2
<1>5. a \o b \in Seq(T) /\ Len(a \o b) = Len(a) + Len(b)
  BY <1>4
<1>6. \A j \in 1 .. Len(a) + Len(b) :
            (a \o b)[j] = IF j <= Len(a) THEN a[j] ELSE b[j - Len(a)]
  BY <1>4
<1>7. ASSUME NEW j \in 1 .. Len(s) - 1
      PROVE  (a \o b)[j] = s[IF j < i THEN j ELSE j + 1]
  <2>1. CASE j < i
    <3>1. j \in 1 .. i - 1 /\ j \in 1 .. Len(a) + Len(b) /\ j <= Len(a)
      BY <1>1, <1>2, <2>1
    <3>2. QED
      BY <1>1, <1>5, <1>6, <2>1, <3>1
  <2>2. CASE ~(j < i)
    <3>1. /\ j - (i - 1) \in 1 .. Len(s) - i /\ i + (j - (i - 1)) = j + 1
          /\ j \in 1 .. Len(a) + Len(b) /\ ~(j <= Len(a)) /\ Len(a) = i - 1
      BY <1>1, <1>2, <2>2
    <3>2. b[j - (i - 1)] = s[j + 1]
      BY <1>2, <3>1
    <3>3. (a \o b)[j] = b[j - (i - 1)]
      BY <1>5, <1>6, <3>1
    <3>4. QED
      BY <2>2, <3>2, <3>3
  <2>3. QED
    BY <2>1, <2>2
<1>8. Len(a \o b) = Len(s) - 1
  BY <1>1, <1>2, <1>5, <1>6
<1>9. QED
  BY <1>3, <1>5, <1>7, <1>8

-----------------------------------------------------------------------------
(* The endpoint cache.                                                     *)

(* d is c after endpoints that nobody reads gave way.                      *)
GivesWay(c, d) ==
    /\ IsCache(d)
    /\ Len(d.entries) <= Len(c.entries)
    /\ d.free \cup Owned(d.entries) = c.free \cup Owned(c.entries)
    /\ c.free \subseteq d.free
    /\ \A i \in 1 .. Len(d.entries) : \E j \in 1 .. Len(c.entries) :
          d.entries[i] = c.entries[j]
    /\ \A j \in 1 .. Len(c.entries) : c.entries[j].readers # 0 =>
          \E i \in 1 .. Len(d.entries) : d.entries[i] = c.entries[j]

LEMMA GivesNothing ==
  ASSUME NEW c, IsCache(c)
  PROVE  GivesWay(c, c)
  BY DEF GivesWay, IsCache

LEMMA GivesMore ==
  ASSUME NEW c, NEW d, NEW e, IsCache(c), GivesWay(c, d), GivesWay(d, e)
  PROVE  GivesWay(c, e)
<1>1. /\ Len(c.entries) \in Nat /\ Len(d.entries) \in Nat /\ Len(e.entries) \in Nat
  BY DEF GivesWay, IsCache
<1>2. Len(e.entries) <= Len(c.entries)
  BY <1>1 DEF GivesWay
<1>3. ASSUME NEW i \in 1 .. Len(e.entries)
      PROVE  \E j \in 1 .. Len(c.entries) : e.entries[i] = c.entries[j]
  <2>1. PICK k \in 1 .. Len(d.entries) : e.entries[i] = d.entries[k]
    BY DEF GivesWay
  <2>2. PICK j \in 1 .. Len(c.entries) : d.entries[k] = c.entries[j]
    BY DEF GivesWay
  <2>3. QED
    BY <2>1, <2>2
<1>4. ASSUME NEW j \in 1 .. Len(c.entries), c.entries[j].readers # 0
      PROVE  \E i \in 1 .. Len(e.entries) : e.entries[i] = c.entries[j]
  <2>1. PICK k \in 1 .. Len(d.entries) : d.entries[k] = c.entries[j]
    BY <1>4 DEF GivesWay
  <2>2. PICK i \in 1 .. Len(e.entries) : e.entries[i] = d.entries[k]
    BY <1>4, <2>1 DEF GivesWay
  <2>3. QED
    BY <2>1, <2>2
<1>5. QED
  BY <1>2, <1>3, <1>4 DEF GivesWay

(* The entries that stay when one is removed.                              *)
LEMMA RemovedOne ==
  ASSUME NEW s \in Seq(EntryRecord), NEW i \in 1 .. Len(s), Apart(s)
  PROVE  LET r == RemoveAt(s, i)
         IN  /\ r \in Seq(EntryRecord) /\ Len(r) = Len(s) - 1
             /\ Apart(r)
             /\ \A j \in 1 .. Len(r) : \E k \in 1 .. Len(s) : k # i /\ r[j] = s[k]
             /\ \A k \in 1 .. Len(s) : k # i => \E j \in 1 .. Len(r) : r[j] = s[k]
<1> DEFINE r == RemoveAt(s, i)
<1> HIDE DEF r
<1> DEFINE p(j) == IF j < i THEN j ELSE j + 1
<1>1. /\ r \in Seq(EntryRecord) /\ Len(r) = Len(s) - 1
      /\ \A j \in 1 .. Len(s) - 1 : r[j] = s[p(j)]
  BY RemoveAtDrops DEF r
<1>2. \A j \in 1 .. Len(r) : p(j) \in 1 .. Len(s) /\ p(j) # i
  BY <1>1
<1>3. ASSUME NEW j \in 1 .. Len(r), NEW k \in 1 .. Len(r),
             r[j].key = r[k].key \/ r[j].slot = r[k].slot
      PROVE  j = k
  <2>1. p(j) \in 1 .. Len(s) /\ p(k) \in 1 .. Len(s)
    BY <1>2
  <2>2. r[j] = s[p(j)] /\ r[k] = s[p(k)]
    BY <1>1
  <2>3. p(j) = p(k)
    <3> HIDE DEF p
    <3>1. QED
      BY <1>3, <2>1, <2>2 DEF Apart
  <2>4. j \in Int /\ k \in Int
    OBVIOUS
  <2>5. QED
    BY <2>3, <2>4
<1>4. ASSUME NEW k \in 1 .. Len(s), k # i
      PROVE  \E j \in 1 .. Len(r) : r[j] = s[k]
  <2>1. CASE k < i
    <3>1. k \in 1 .. Len(r) /\ r[k] = s[k]
      BY <1>1, <2>1
    <3>2. QED
      BY <3>1
  <2>2. CASE ~(k < i)
    <3>1. k - 1 \in 1 .. Len(r) /\ ~(k - 1 < i) /\ k - 1 + 1 = k
      BY <1>1, <1>4, <2>2
    <3>2. r[k - 1] = s[k]
      BY <1>1, <3>1
    <3>3. QED
      BY <3>1, <3>2
  <2>3. QED
    BY <2>1, <2>2
<1>5. \A j \in 1 .. Len(r) : \E k \in 1 .. Len(s) : k # i /\ r[j] = s[k]
  <2> HIDE DEF p
  <2>1. QED
    BY <1>1, <1>2
<1>6. Apart(r)
  BY <1>3 DEF Apart
<1>7. QED
  BY <1>1, <1>4, <1>5, <1>6 DEF r

(* ExactEndpointCache.evict_one takes an endpoint that nobody reads.       *)
LEMMA EvictOneGives ==
  ASSUME NEW c, IsCache(c), NEW busy
  PROVE  GivesWay(c, evict_one(c, busy))
<1>1. CASE Idle(c.entries, busy) = {}
  BY <1>1, GivesNothing DEF evict_one
<1>2. CASE Idle(c.entries, busy) # {}
  <2> DEFINE s == c.entries
             i == Min(Idle(s, busy))
             r == RemoveAt(s, i)
             d == evict_one(c, busy)
  <2>1. i \in 1 .. Len(s) /\ s[i].readers = 0
    <3>1. Idle(s, busy) \in SUBSET Nat /\ Idle(s, busy) \subseteq 1 .. Len(s)
      BY DEF IsCache, Idle
    <3>2. i \in Idle(s, busy)
      BY <1>2, <3>1, MinIsLeast
    <3>3. QED
      BY <3>1, <3>2 DEF Idle
  <2>2. d.entries = r /\ d.free = c.free \cup {s[i].slot}
    BY <1>2 DEF evict_one
  <2> HIDE DEF i, r, d
  <2>3. /\ s \in Seq(EntryRecord) /\ c.free \subseteq Slots
        /\ Apart(s)
        /\ \A j \in 1 .. Len(s) : s[j].slot \notin c.free
    BY DEF IsCache
  <2> HIDE DEF s
  <2>4. /\ r \in Seq(EntryRecord) /\ Len(r) = Len(s) - 1
        /\ Apart(r)
        /\ \A j \in 1 .. Len(r) : \E k \in 1 .. Len(s) : k # i /\ r[j] = s[k]
        /\ \A k \in 1 .. Len(s) : k # i => \E j \in 1 .. Len(r) : r[j] = s[k]
    <3>1. i \in 1 .. Len(s) /\ s \in Seq(EntryRecord) /\ Apart(s)
      BY <2>1, <2>3
    <3>2. QED
      BY <3>1, RemovedOne DEF r
  <2>5. s[i].slot \in Slots /\ Len(s) \in Nat
    <3>1. s[i] \in EntryRecord
      BY <2>1, <2>3
    <3>2. QED
      BY <2>3, <3>1 DEF EntryRecord
  <2>6. IsCache(d)
    <3>1. ASSUME NEW j \in 1 .. Len(r)
          PROVE  r[j].slot \notin c.free \cup {s[i].slot}
      <4>1. PICK k \in 1 .. Len(s) : k # i /\ r[j] = s[k]
        BY <2>4
      <4>2. s[k].slot # s[i].slot
        BY <2>1, <2>3, <4>1 DEF Apart
      <4>3. QED
        BY <2>3, <4>1, <4>2
    <3>2. c.free \cup {s[i].slot} \in SUBSET Slots
      BY <2>3, <2>5
    <3>3. QED
      BY <2>2, <2>4, <3>1, <3>2 DEF IsCache
  <2>7. Owned(s) = Owned(r) \cup {s[i].slot}
    <3>1. DOMAIN s = 1 .. Len(s) /\ DOMAIN r = 1 .. Len(r)
      BY <2>3, <2>4
    <3>2. ASSUME NEW x \in Owned(s) PROVE x \in Owned(r) \cup {s[i].slot}
      <4>1. PICK k \in 1 .. Len(s) : x = s[k].slot
        BY <3>1 DEF Owned
      <4>2. QED
        BY <2>4, <3>1, <4>1 DEF Owned
    <3>3. ASSUME NEW x \in Owned(r) PROVE x \in Owned(s)
      <4>1. PICK j \in 1 .. Len(r) : x = r[j].slot
        BY <3>1, <3>3 DEF Owned
      <4>2. PICK k \in 1 .. Len(s) : r[j] = s[k]
        BY <2>4
      <4>3. QED
        BY <3>1, <4>1, <4>2 DEF Owned
    <3>4. s[i].slot \in Owned(s)
      BY <2>1, <3>1 DEF Owned
    <3>5. QED
      BY <3>2, <3>3, <3>4
  <2>8. Len(r) <= Len(s)
    BY <2>4, <2>5
  <2>9. \A k \in 1 .. Len(s) : s[k].readers # 0 => \E j \in 1 .. Len(r) : r[j] = s[k]
    BY <2>1, <2>4
  <2>10. QED
    BY <2>2, <2>4, <2>6, <2>7, <2>8, <2>9 DEF GivesWay, s, d
<1>3. QED
  BY <1>1, <1>2

IsLeft(f, c, n, busy) ==
    f = [i \in 0 .. n |-> IF i = 0 THEN c ELSE evict_one(f[i - 1], busy)]

(* The recursion of Evict has a solution.                                  *)
LEMMA LeftExists ==
  ASSUME NEW c, NEW n \in Nat, NEW busy
  PROVE  \E f : IsLeft(f, c, n, busy)
<1> DEFINE Bad == {m \in Nat : ~ \E f : IsLeft(f, c, m, busy)}
<1>1. SUFFICES ASSUME Bad # {} PROVE FALSE
  OBVIOUS
<1> DEFINE m == Min(Bad)
<1>2. m \in Bad /\ \A k \in Bad : m <= k
  <2>1. Bad \in SUBSET Nat
    OBVIOUS
  <2> HIDE DEF Bad
  <2>2. QED
    BY <1>1, <2>1, MinIsLeast
<1> HIDE DEF m
<1>3. CASE m = 0
  <2>1. IsLeft([i \in 0 .. 0 |-> c], c, 0, busy)
    BY DEF IsLeft
  <2>2. QED
    BY <1>2, <1>3, <2>1
<1>4. CASE m # 0
  <2>1. m - 1 \in Nat /\ m - 1 \notin Bad /\ m \in Nat
    BY <1>2, <1>4
  <2>2. PICK f : IsLeft(f, c, m - 1, busy)
    BY <2>1
  <2>3. f = [i \in 0 .. m - 1 |-> IF i = 0 THEN c ELSE evict_one(f[i - 1], busy)]
    BY <2>2 DEF IsLeft
  <2> DEFINE g == [i \in 0 .. m |-> IF i < m THEN f[i] ELSE evict_one(f[m - 1], busy)]
  <2>4. ASSUME NEW i \in 0 .. m
        PROVE  g[i] = IF i = 0 THEN c ELSE evict_one(g[i - 1], busy)
    <3>1. CASE i = m
      <4>1. g[i] = evict_one(f[m - 1], busy) /\ g[i - 1] = f[m - 1]
        BY <1>4, <2>1, <3>1
      <4>2. QED
        BY <1>4, <3>1, <4>1
    <3>2. CASE i # m
      <4>1. i \in 0 .. m - 1 /\ (i # 0 => i - 1 < m /\ i - 1 \in 0 .. m)
        BY <2>1, <3>2
      <4>2. f[i] = IF i = 0 THEN c ELSE evict_one(f[i - 1], busy)
        BY <2>3, <4>1
      <4>3. g[i] = f[i] /\ (i # 0 => g[i - 1] = f[i - 1])
        BY <2>1, <4>1
      <4>4. QED
        BY <4>2, <4>3
    <3>3. QED
      BY <3>1, <3>2
  <2>5. IsLeft(g, c, m, busy)
    BY <2>4 DEF IsLeft
  <2>6. QED
    BY <1>2, <2>5
<1>5. QED
  BY <1>3, <1>4

(* ensure_mamba_slots and its like: any number of evictions.               *)
LEMMA EvictGives ==
  ASSUME NEW c, IsCache(c), NEW n \in Nat, NEW busy
  PROVE  GivesWay(c, Evict(c, n, busy))
<1> DEFINE left == CHOOSE f : IsLeft(f, c, n, busy)
<1>1. IsLeft(left, c, n, busy)
  BY LeftExists, Zenon
<1>2. Evict(c, n, busy) = left[n]
  BY Zenon DEF Evict, IsLeft
<1> HIDE DEF left
<1>3. \A i \in 0 .. n : left[i] = IF i = 0 THEN c ELSE evict_one(left[i - 1], busy)
  BY <1>1 DEF IsLeft
<1> DEFINE Bad == {i \in 0 .. n : ~ GivesWay(c, left[i])}
<1>4. Bad = {}
  <2>1. SUFFICES ASSUME Bad # {} PROVE FALSE
    OBVIOUS
  <2> DEFINE m == Min(Bad)
  <2>2. m \in Bad /\ \A k \in Bad : m <= k
    <3>1. Bad \in SUBSET Nat
      OBVIOUS
    <3> HIDE DEF Bad
    <3>2. QED
      BY <2>1, <3>1, MinIsLeast
  <2> HIDE DEF m
  <2>3. m # 0
    BY <1>3, <2>2, GivesNothing
  <2>4. m - 1 \in 0 .. n /\ m - 1 \notin Bad
    BY <2>2, <2>3
  <2>5. GivesWay(c, left[m - 1])
    BY <2>4
  <2>6. IsCache(left[m - 1])
    BY <2>5 DEF GivesWay
  <2>7. GivesWay(left[m - 1], evict_one(left[m - 1], busy))
    BY <2>6, EvictOneGives
  <2>8. left[m] = evict_one(left[m - 1], busy)
    BY <1>3, <2>2, <2>3
  <2>9. GivesWay(c, left[m])
    BY <2>5, <2>7, <2>8, GivesMore
  <2>10. QED
    BY <2>2, <2>9
<1>5. QED
  BY <1>2, <1>4

LEMMA ShrinkGives ==
  ASSUME NEW c, IsCache(c), NEW busy
  PROVE  GivesWay(c, Shrink(c, busy))
  BY GivesNothing, EvictOneGives DEF Shrink

LEMMA EnsureGives ==
  ASSUME NEW c, IsCache(c), NEW busy
  PROVE  GivesWay(c, ensure_mamba_slots(c, busy))
<1> DEFINE short == SlotReserve - Cardinality(c.free)
<1>1. short \in Int
  <2>1. IsFiniteSet(c.free)
    BY RetentionConstants, FS_Subset DEF IsCache
  <2>2. Cardinality(c.free) \in Nat /\ SlotReserve \in Int
    BY <2>1, RetentionConstants, FS_CardinalityType
  <2>3. QED
    BY <2>2
<1>2. Max({0, short}) \in Nat
  <2> HIDE DEF short
  <2>1. \E x \in {0, short} : \A y \in {0, short} : x >= y
    BY <1>1
  <2>2. Max({0, short}) \in {0, short} /\ \A y \in {0, short} : Max({0, short}) >= y
    BY <2>1 DEF Max
  <2>3. QED
    BY <1>1, <2>2
<1>3. QED
  BY <1>2, EvictGives DEF ensure_mamba_slots

(* One more endpoint, in a slot that is in use nowhere else.               *)
LEMMA OneMore ==
  ASSUME NEW c, IsCache(c), NEW k \in Keys, ~Known(c.entries, k),
         NEW s \in Slots, s \notin Owned(c.entries),
         NEW F \in SUBSET c.free, s \notin F
  PROVE  LET es == Append(c.entries, Entry(k, s, 0))
         IN  /\ IsCache([entries |-> es, free |-> F])
             /\ Owned(es) = Owned(c.entries) \cup {s}
             /\ Len(es) = Len(c.entries) + 1
             /\ \A i \in 1 .. Len(es) : \/ i \in 1 .. Len(c.entries) /\ es[i] = c.entries[i]
                                        \/ es[i] = Entry(k, s, 0)
             /\ \A i \in 1 .. Len(c.entries) : i \in 1 .. Len(es) /\ es[i] = c.entries[i]
<1> DEFINE old == c.entries
           x == Entry(k, s, 0)
           es == Append(old, x)
<1>1. /\ old \in Seq(EntryRecord) /\ DOMAIN old = 1 .. Len(old) /\ Apart(old)
      /\ c.free \in SUBSET Slots
      /\ \A i \in 1 .. Len(old) : old[i].slot \notin c.free
  BY DEF IsCache
<1>2. x \in EntryRecord /\ x.key = k /\ x.slot = s
  BY DEF Entry, EntryRecord
<1>3. \A i \in 1 .. Len(old) : old[i].key # k /\ old[i].slot # s
  BY <1>1 DEF Known, Owned
<1> HIDE DEF old, x
<1>4. /\ es \in Seq(EntryRecord) /\ Len(es) = Len(old) + 1
      /\ \A i \in 1 .. Len(old) : i \in 1 .. Len(es) /\ es[i] = old[i]
      /\ es[Len(old) + 1] = x /\ DOMAIN es = 1 .. Len(es) /\ Len(old) \in Nat
  BY <1>1, <1>2
<1> HIDE DEF es
<1>5. \A i \in 1 .. Len(es) : \/ i \in 1 .. Len(old) /\ es[i] = old[i]
                              \/ i = Len(old) + 1 /\ es[i] = x
  BY <1>4
<1>6. Apart(es)
  BY <1>1, <1>2, <1>3, <1>5 DEF Apart
<1>7. Owned(es) = Owned(old) \cup {s}
  <2>1. \A i \in 1 .. Len(es) : es[i].slot \in Owned(old) \cup {s}
    BY <1>1, <1>2, <1>5 DEF Owned
  <2>2. s \in Owned(es)
    <3>1. Len(old) + 1 \in 1 .. Len(es)
      BY <1>4
    <3>2. QED
      BY <1>2, <1>4, <3>1 DEF Owned
  <2>3. \A i \in 1 .. Len(old) : old[i].slot \in Owned(es)
    BY <1>4 DEF Owned
  <2>4. QED
    BY <1>1, <1>4, <2>1, <2>2, <2>3 DEF Owned
<1>8. \A i \in 1 .. Len(es) : es[i].slot \notin F
  BY <1>1, <1>2, <1>5
<1>9. IsCache([entries |-> es, free |-> F])
  BY <1>1, <1>4, <1>6, <1>8 DEF IsCache
<1>10. QED
  BY <1>4, <1>5, <1>7, <1>9 DEF es, old, x


(* d is c after a publication of k: endpoints that nobody reads gave way,  *)
(* and k may have come, with no reader.                                    *)
Publishes(c, d, k) ==
    /\ IsCache(d)
    /\ Len(d.entries) <= MaxRecords
    /\ d.free \cup Owned(d.entries) = c.free \cup Owned(c.entries)
    /\ \A i \in 1 .. Len(d.entries) :
          \/ \E j \in 1 .. Len(c.entries) : d.entries[i] = c.entries[j]
          \/ /\ ~Known(c.entries, k)
             /\ d.entries[i].key = k /\ d.entries[i].readers = 0
    /\ \A j \in 1 .. Len(c.entries) : c.entries[j].readers # 0 =>
          \E i \in 1 .. Len(d.entries) : d.entries[i] = c.entries[j]

(* What is not known is not known after endpoints gave way.                *)
LEMMA StaysUnknown ==
  ASSUME NEW c, NEW d, IsCache(c), GivesWay(c, d), NEW k, ~Known(c.entries, k)
  PROVE  ~Known(d.entries, k)
<1>1. /\ DOMAIN c.entries = 1 .. Len(c.entries)
      /\ DOMAIN d.entries = 1 .. Len(d.entries)
  BY DEF GivesWay, IsCache
<1>2. ASSUME NEW i \in 1 .. Len(d.entries) PROVE d.entries[i].key # k
  <2>1. PICK j \in 1 .. Len(c.entries) : d.entries[i] = c.entries[j]
    BY DEF GivesWay
  <2>2. QED
    BY <1>1, <2>1 DEF Known
<1>3. QED
  BY <1>1, <1>2 DEF Known

(* A published endpoint that is known becomes the newest one.              *)
LEMMA MovedToEnd ==
  ASSUME NEW c, IsCache(c), NEW k \in Keys, Known(c.entries, k),
         Len(c.entries) <= MaxRecords
  PROVE  Publishes(c, [entries |-> MoveToEnd(c.entries, k), free |-> c.free], k)
<1> DEFINE s == c.entries
           i == Find(s, k)
           r == RemoveAt(s, i)
           m == Append(r, s[i])
<1>1. /\ s \in Seq(EntryRecord) /\ DOMAIN s = 1 .. Len(s) /\ Apart(s)
      /\ c.free \in SUBSET Slots /\ Len(s) \in Nat
      /\ \A j \in 1 .. Len(s) : s[j].slot \notin c.free
  BY DEF IsCache
<1>2. i \in 1 .. Len(s)
  BY <1>1 DEF Known, Find
<1>3. MoveToEnd(c.entries, k) = m
  BY DEF MoveToEnd
<1> HIDE DEF s, i
<1>4. /\ r \in Seq(EntryRecord) /\ Len(r) = Len(s) - 1 /\ Apart(r)
      /\ \A j \in 1 .. Len(r) : \E l \in 1 .. Len(s) : l # i /\ r[j] = s[l]
      /\ \A l \in 1 .. Len(s) : l # i => \E j \in 1 .. Len(r) : r[j] = s[l]
  BY <1>1, <1>2, RemovedOne
<1> HIDE DEF r
<1>5. s[i] \in EntryRecord
  BY <1>1, <1>2
<1>6. /\ m \in Seq(EntryRecord) /\ Len(m) = Len(s) /\ m[Len(s)] = s[i]
      /\ \A j \in 1 .. Len(r) : j \in 1 .. Len(s) /\ m[j] = r[j]
      /\ DOMAIN m = 1 .. Len(m) /\ Len(s) \in 1 .. Len(s)
  <2>1. Len(r) + 1 = Len(s) /\ Len(r) \in Nat /\ Len(s) \in 1 .. Len(s)
    BY <1>1, <1>2, <1>4
  <2>2. /\ m \in Seq(EntryRecord) /\ Len(m) = Len(r) + 1 /\ m[Len(r) + 1] = s[i]
        /\ \A j \in 1 .. Len(r) : m[j] = r[j]
    BY <1>4, <1>5
  <2> HIDE DEF m
  <2>3. QED
    BY <2>1, <2>2
<1> HIDE DEF m
<1>7. \A j \in 1 .. Len(s) : \/ j \in 1 .. Len(r) /\ m[j] = r[j]
                             \/ j = Len(s) /\ m[j] = s[i]
  <2>1. ASSUME NEW j \in 1 .. Len(s), j # Len(s) PROVE j \in 1 .. Len(r)
    <3>1. Len(s) \in Nat /\ Len(r) = Len(s) - 1
      BY <1>1, <1>4
    <3>2. QED
      BY <2>1, <3>1
  <2>2. QED
    BY <1>6, <2>1
<1>8. \A j \in 1 .. Len(r) : r[j].key # s[i].key /\ r[j].slot # s[i].slot
  <2>1. SUFFICES ASSUME NEW j \in 1 .. Len(r)
                 PROVE  r[j].key # s[i].key /\ r[j].slot # s[i].slot
    OBVIOUS
  <2>2. PICK l \in 1 .. Len(s) : l # i /\ r[j] = s[l]
    BY <1>4
  <2>3. QED
    BY <1>1, <1>2, <2>2 DEF Apart
<1>9. Apart(m)
  <2>1. ASSUME NEW j \in 1 .. Len(m), NEW l \in 1 .. Len(m),
               m[j].key = m[l].key \/ m[j].slot = m[l].slot
        PROVE  j = l
    <3>1. CASE j \in 1 .. Len(r) /\ m[j] = r[j]
      BY <1>4, <1>6, <1>7, <1>8, <2>1, <3>1 DEF Apart
    <3>2. CASE j = Len(s) /\ m[j] = s[i]
      BY <1>6, <1>7, <1>8, <2>1, <3>2
    <3>3. QED
      BY <1>6, <1>7, <3>1, <3>2
  <2>2. QED
    BY <2>1 DEF Apart
<1>10. \A j \in 1 .. Len(m) : \E l \in 1 .. Len(s) : m[j] = s[l]
  BY <1>2, <1>4, <1>6, <1>7
<1>11. \A l \in 1 .. Len(s) : \E j \in 1 .. Len(m) : m[j] = s[l]
  <2>1. SUFFICES ASSUME NEW l \in 1 .. Len(s) PROVE \E j \in 1 .. Len(m) : m[j] = s[l]
    OBVIOUS
  <2>2. CASE l = i
    BY <1>6, <2>2
  <2>3. CASE l # i
    <3>1. PICK j \in 1 .. Len(r) : r[j] = s[l]
      BY <1>4, <2>3
    <3>2. QED
      BY <1>6, <3>1
  <2>4. QED
    BY <2>2, <2>3
<1>12. Owned(m) = Owned(s)
  <2>1. Owned(m) = {m[j].slot : j \in 1 .. Len(m)}
    BY <1>6 DEF Owned
  <2>2. Owned(s) = {s[l].slot : l \in 1 .. Len(s)}
    BY <1>1 DEF Owned
  <2>3. Owned(m) \subseteq Owned(s)
    BY <1>10, <2>1, <2>2
  <2>4. Owned(s) \subseteq Owned(m)
    BY <1>11, <2>1, <2>2
  <2>5. QED
    BY <2>3, <2>4
<1>13. \A j \in 1 .. Len(m) : m[j].slot \notin c.free
  BY <1>1, <1>10
<1>14. IsCache([entries |-> m, free |-> c.free])
  BY <1>1, <1>6, <1>9, <1>13 DEF IsCache
<1>15. Len(m) <= MaxRecords
  BY <1>6 DEF s
<1>16. QED
  BY <1>3, <1>10, <1>11, <1>12, <1>14, <1>15 DEF Publishes, s

(* ExactEndpointCache.publish.                                             *)
LEMMA PublishGives ==
  ASSUME IsCache(Endpoints), Len(entries) <= MaxRecords, NEW k \in Keys, NEW busy, NEW tail
  PROVE  Publishes(Endpoints, published(k, busy, tail), k)
<1>1. CASE Known(entries, k)
  <2>1. Publishes(Endpoints, [entries |-> MoveToEnd(Endpoints.entries, k), free |-> Endpoints.free], k)
    BY <1>1, MovedToEnd DEF Endpoints
  <2>2. QED
    BY <1>1, <2>1 DEF published, Endpoints
<1>2. CASE ~Known(entries, k)
  <2> DEFINE c1 == Shrink(Endpoints, busy)
             c2 == IF c1.free = {} \/ tail # "fits" THEN evict_one(c1, busy) ELSE c1
  <2>1. IsCache(c1) /\ GivesWay(Endpoints, c1)
    BY ShrinkGives DEF GivesWay
  <2>2. GivesWay(c1, c2)
    BY <2>1, EvictOneGives, GivesNothing
  <2>3. published(k, busy, tail) = Placed(c1, c2, k, tail)
    BY <1>2 DEF published, Slotted, Endpoints
  <2> HIDE DEF c1, c2
  <2>4. IsCache(c2) /\ GivesWay(Endpoints, c2)
    <3>1. IsCache(c2)
      BY <2>2 DEF GivesWay
    <3>2. QED
      BY <2>1, <2>2, <3>1, GivesMore
  <2>5. ~Known(c2.entries, k)
    <3>1. ~Known(Endpoints.entries, k)
      BY <1>2 DEF Endpoints
    <3>2. QED
      BY <2>4, <3>1, StaysUnknown
  <2>6. /\ Len(c2.entries) \in Nat /\ Len(c1.entries) \in Nat /\ MaxRecords \in Nat
        /\ Len(entries) \in Nat /\ Len(c2.entries) <= Len(c1.entries)
        /\ Len(c2.entries) <= Len(entries)
    BY <2>1, <2>2, <2>4, RetentionConstants DEF GivesWay, IsCache, Endpoints
  <2>7. CASE ~(fits(c1) /\ c2.free # {} /\ tail # "short")
    <3>1. published(k, busy, tail) = c2
      BY <2>3, <2>7 DEF Placed
    <3>2. Len(c2.entries) <= MaxRecords
      BY <2>6
    <3>3. QED
      BY <2>4, <3>1, <3>2 DEF GivesWay, Publishes
  <2>8. CASE fits(c1) /\ c2.free # {} /\ tail # "short"
    <3> DEFINE s == CHOOSE x \in c2.free : TRUE
               F == c2.free \ {s}
               es == Append(c2.entries, Entry(k, s, 0))
               d == [entries |-> es, free |-> F]
    <3>1. published(k, busy, tail) = d
      BY <2>3, <2>8 DEF Placed, Appended
    <3>2. s \in c2.free
      BY <2>8
    <3> HIDE DEF s
    <3>3. s \in Slots /\ s \notin Owned(c2.entries) /\ F \in SUBSET c2.free /\ s \notin F
      <4>1. DOMAIN c2.entries = 1 .. Len(c2.entries)
        BY <2>4 DEF IsCache
      <4>2. QED
        BY <2>4, <3>2, <4>1 DEF IsCache, Owned
    <3> HIDE DEF F
    <3>4. /\ IsCache(d)
          /\ Owned(es) = Owned(c2.entries) \cup {s}
          /\ Len(es) = Len(c2.entries) + 1
          /\ \A i \in 1 .. Len(es) : \/ i \in 1 .. Len(c2.entries) /\ es[i] = c2.entries[i]
                                     \/ es[i] = Entry(k, s, 0)
          /\ \A i \in 1 .. Len(c2.entries) : i \in 1 .. Len(es) /\ es[i] = c2.entries[i]
      BY <2>4, <2>5, <3>3, OneMore
    <3>5. Len(es) <= MaxRecords
      BY <2>6, <2>8, <3>4 DEF fits
    <3>6. F \cup Owned(es) = Endpoints.free \cup Owned(Endpoints.entries)
      BY <2>4, <3>2, <3>4 DEF GivesWay, F
    <3> HIDE DEF es
    <3>7. ASSUME NEW i \in 1 .. Len(es)
          PROVE  \/ \E j \in 1 .. Len(Endpoints.entries) : es[i] = Endpoints.entries[j]
                 \/ ~Known(Endpoints.entries, k) /\ es[i].key = k /\ es[i].readers = 0
      <4>1. CASE i \in 1 .. Len(c2.entries) /\ es[i] = c2.entries[i]
        BY <2>4, <4>1 DEF GivesWay
      <4>2. CASE es[i] = Entry(k, s, 0)
        BY <1>2, <4>2 DEF Entry, Endpoints
      <4>3. QED
        BY <3>4, <4>1, <4>2
    <3>8. ASSUME NEW j \in 1 .. Len(Endpoints.entries), Endpoints.entries[j].readers # 0
          PROVE  \E i \in 1 .. Len(es) : es[i] = Endpoints.entries[j]
      <4>1. PICK i \in 1 .. Len(c2.entries) : c2.entries[i] = Endpoints.entries[j]
        BY <2>4, <3>8 DEF GivesWay
      <4>2. QED
        BY <3>4, <4>1
    <3>9. QED
      BY <3>1, <3>4, <3>5, <3>6, <3>7, <3>8 DEF Publishes
  <2>9. QED
    BY <2>7, <2>8
<1>3. QED
  BY <1>1, <1>2


(* A lease or the end of one.                                              *)
LEMMA ReadersChange ==
  ASSUME NEW es \in Seq(EntryRecord), Apart(es), NEW k, NEW d \in {1, -1},
         \A i \in 1 .. Len(es) : es[i].key = k => es[i].readers + d \in {0, 1}
  PROVE  LET r == Readers(es, k, d)
         IN  /\ r \in Seq(EntryRecord) /\ Len(r) = Len(es) /\ Apart(r)
             /\ Owned(r) = Owned(es)
             /\ \A i \in 1 .. Len(es) :
                   /\ r[i].key = es[i].key /\ r[i].slot = es[i].slot
                   /\ r[i].readers = IF es[i].key = k THEN es[i].readers + d
                                                      ELSE es[i].readers
<1> DEFINE r == Readers(es, k, d)
<1>1. /\ DOMAIN es = 1 .. Len(es) /\ Len(es) \in Nat
      /\ \A i \in 1 .. Len(es) : es[i] \in EntryRecord
  OBVIOUS
<1>2. r = [i \in 1 .. Len(es) |-> IF es[i].key = k
                                  THEN [es[i] EXCEPT !.readers = es[i].readers + d]
                                  ELSE es[i]]
  BY <1>1 DEF Readers
<1> HIDE DEF r
<1>3. ASSUME NEW i \in 1 .. Len(es)
      PROVE  /\ r[i] \in EntryRecord
             /\ r[i].key = es[i].key /\ r[i].slot = es[i].slot
             /\ r[i].readers = IF es[i].key = k THEN es[i].readers + d
                                                ELSE es[i].readers
  <2>1. es[i] \in EntryRecord
    BY <1>1
  <2>2. es[i] = [key |-> es[i].key, slot |-> es[i].slot, readers |-> es[i].readers]
        /\ es[i].key \in Keys /\ es[i].slot \in Slots /\ es[i].readers \in {0, 1}
    BY <2>1 DEF EntryRecord
  <2>3. CASE es[i].key = k
    <3>1. r[i] = [es[i] EXCEPT !.readers = es[i].readers + d]
      BY <1>2, <2>3
    <3>2. r[i] = [key |-> es[i].key, slot |-> es[i].slot, readers |-> es[i].readers + d]
      BY <2>2, <3>1
    <3>3. es[i].readers + d \in {0, 1}
      BY <2>3
    <3>4. QED
      BY <2>2, <2>3, <3>2, <3>3 DEF EntryRecord
  <2>4. CASE es[i].key # k
    BY <1>2, <2>1, <2>4
  <2>5. QED
    BY <2>3, <2>4
<1>4. DOMAIN r = 1 .. Len(es) /\ Len(r) = Len(es) /\ r \in Seq(EntryRecord)
  BY <1>1, <1>2, <1>3
<1>5. Apart(r)
  BY <1>3, <1>4 DEF Apart
<1>6. Owned(r) = Owned(es)
  BY <1>1, <1>3, <1>4 DEF Owned
<1>7. QED
  BY <1>3, <1>4, <1>5, <1>6 DEF r

-----------------------------------------------------------------------------
(* Tickets.                                                                *)

(* q has the tickets of p, for the same transfers.                         *)
Alike(p, q) ==
    /\ q \in Seq(TicketRecord) /\ Len(q) = Len(p)
    /\ \A t \in 1 .. Len(p) : q[t].kind = p[t].kind /\ q[t].key = p[t].key

LEMMA RecordFields ==
  ASSUME NEW p \in Seq(TicketRecord), NEW t \in 1 .. Len(p)
  PROVE  /\ p[t].kind \in {"write", "read"} /\ p[t].key \in Keys
         /\ p[t].cancelled \in BOOLEAN /\ p[t].finished \in BOOLEAN
         /\ p[t].reported \in BOOLEAN /\ p[t].error \in {"none", "benign", "odd"}
         /\ p[t].valid \in BOOLEAN /\ p[t].gpu \in BOOLEAN
         /\ p[t] \in TicketRecord
<1>1. p[t] \in TicketRecord
  OBVIOUS
<1>2. QED
  BY <1>1 DEF TicketRecord

(* A cancelled ticket is marked, no more.                                  *)
LEMMA CancelledIs ==
  ASSUME NEW p \in Seq(TicketRecord), NEW n \in 0 .. Len(p)
  PROVE  /\ Alike(p, Cancelled(p, n))
         /\ \A t \in 1 .. Len(p) :
               /\ Cancelled(p, n)[t].finished = p[t].finished
               /\ Cancelled(p, n)[t].gpu = p[t].gpu
               /\ t # n => Cancelled(p, n)[t].cancelled = p[t].cancelled
<1>1. CASE n = NoTicket
  BY <1>1 DEF Cancelled, NoTicket, Alike
<1>2. CASE n # NoTicket
  <2> DEFINE q == Cancelled(p, n)
  <2>1. n \in 1 .. Len(p)
    BY <1>2 DEF NoTicket
  <2>2. q = [p EXCEPT ![n] = [p[n] EXCEPT !.cancelled = TRUE]]
    BY <1>2, <2>1 DEF Cancelled
  <2>3. p[n] \in TicketRecord
    BY <2>1
  <2>4. /\ [p[n] EXCEPT !.cancelled = TRUE] \in TicketRecord
        /\ [p[n] EXCEPT !.cancelled = TRUE].kind = p[n].kind
        /\ [p[n] EXCEPT !.cancelled = TRUE].key = p[n].key
        /\ [p[n] EXCEPT !.cancelled = TRUE].finished = p[n].finished
        /\ [p[n] EXCEPT !.cancelled = TRUE].gpu = p[n].gpu
    BY <2>3 DEF TicketRecord
  <2> DEFINE x == [p[n] EXCEPT !.cancelled = TRUE]
  <2> HIDE DEF q, x
  <2>5. q = [p EXCEPT ![n] = x]
    BY <2>2 DEF x
  <2>6. x \in TicketRecord
    BY <2>4 DEF x
  <2>7. /\ q \in Seq(TicketRecord) /\ Len(q) = Len(p) /\ q[n] = x
        /\ \A t \in 1 .. Len(p) : t # n => q[t] = p[t]
    BY <2>1, <2>5, <2>6
  <2>8. QED
    BY <2>4, <2>7 DEF Alike, q, x
<1>3. QED
  BY <1>1, <1>2

(* The map of poll marks what it drained as reported.                      *)
Reported(p, D) ==
    [t \in DOMAIN p |-> IF t \in D THEN [p[t] EXCEPT !.reported = TRUE] ELSE p[t]]

LEMMA ReportedIs ==
  ASSUME NEW p \in Seq(TicketRecord), NEW D
  PROVE  /\ Alike(p, Reported(p, D))
         /\ \A t \in 1 .. Len(p) :
               /\ Reported(p, D)[t].finished = p[t].finished
               /\ Reported(p, D)[t].gpu = p[t].gpu
               /\ Reported(p, D)[t].cancelled = p[t].cancelled
<1> DEFINE q == Reported(p, D)
<1>1. q = [t \in 1 .. Len(p) |-> IF t \in D THEN [p[t] EXCEPT !.reported = TRUE] ELSE p[t]]
  BY DEF Reported
<1> HIDE DEF q
<1>2. ASSUME NEW t \in 1 .. Len(p)
      PROVE  /\ q[t] \in TicketRecord /\ q[t].kind = p[t].kind /\ q[t].key = p[t].key
             /\ q[t].finished = p[t].finished /\ q[t].gpu = p[t].gpu
             /\ q[t].cancelled = p[t].cancelled
  <2>1. p[t] \in TicketRecord
    OBVIOUS
  <2>2. q[t] = [p[t] EXCEPT !.reported = TRUE] \/ q[t] = p[t]
    BY <1>1
  <2>3. QED
    BY <2>1, <2>2 DEF TicketRecord
<1>3. DOMAIN q = 1 .. Len(p) /\ Len(p) \in Nat
  BY <1>1
<1>4. q \in Seq(TicketRecord) /\ Len(q) = Len(p)
  BY <1>1, <1>2, <1>3
<1>5. QED
  BY <1>2, <1>4 DEF Alike, q

(* A worker that has stopped: every ticket it left is finished.            *)
LEMMA StoppedIs ==
  ASSUME tickets \in Seq(TicketRecord), PollStopped
  PROVE  /\ Alike(tickets, tickets')
         /\ \A t \in 1 .. Len(tickets) :
               /\ tickets'[t].gpu = tickets[t].gpu
               /\ tickets'[t].cancelled = tickets[t].cancelled
               /\ tickets[t].finished => tickets'[t].finished
         /\ ~flags.stopped => tickets' = tickets
<1>1. CASE ~flags.stopped
  BY <1>1 DEF PollStopped, Alike
<1>2. CASE flags.stopped
  <2> DEFINE x(t) == [tickets[t] EXCEPT
                         !.error = IF tickets[t].finished THEN tickets[t].error ELSE "odd",
                         !.finished = TRUE, !.reported = TRUE]
  <2>1. tickets' = [t \in 1 .. Len(tickets) |-> IF t \in held THEN x(t) ELSE tickets[t]]
    <3>1. DOMAIN tickets = 1 .. Len(tickets)
      OBVIOUS
    <3>2. tickets' = [t \in DOMAIN tickets |-> IF t \in held THEN x(t) ELSE tickets[t]]
      BY <1>2, Zenon DEF PollStopped
    <3> HIDE DEF x
    <3>3. QED
      BY <3>1, <3>2
  <2>2. ASSUME NEW t \in 1 .. Len(tickets)
        PROVE  /\ x(t) \in TicketRecord
               /\ x(t).kind = tickets[t].kind /\ x(t).key = tickets[t].key
               /\ x(t).gpu = tickets[t].gpu /\ x(t).cancelled = tickets[t].cancelled
               /\ x(t).finished
    <3>1. tickets[t] \in TicketRecord
      OBVIOUS
    <3>2. (IF tickets[t].finished THEN tickets[t].error ELSE "odd") \in {"none", "benign", "odd"}
      BY <3>1 DEF TicketRecord
    <3> DEFINE e == IF tickets[t].finished THEN tickets[t].error ELSE "odd"
    <3> HIDE DEF e
    <3>3. x(t) = [tickets[t] EXCEPT !.error = e, !.finished = TRUE, !.reported = TRUE]
      BY DEF e
    <3>4. QED
      BY <3>1, <3>2, <3>3 DEF TicketRecord, e
  <2> HIDE DEF x
  <2>3. \A t \in 1 .. Len(tickets) :
           /\ tickets'[t] = IF t \in held THEN x(t) ELSE tickets[t]
           /\ tickets[t] \in TicketRecord
    BY <2>1
  <2>4. DOMAIN tickets' = 1 .. Len(tickets) /\ Len(tickets) \in Nat
    BY <2>1
  <2>5. tickets' \in Seq(TicketRecord) /\ Len(tickets') = Len(tickets)
    BY <2>1, <2>2, <2>3, <2>4
  <2>6. QED
    BY <1>2, <2>2, <2>3, <2>5 DEF Alike
<1>3. QED
  BY <1>1, <1>2

(* The end of a ticket's I/O.                                              *)
LEMMA FinishIs ==
  ASSUME tickets \in Seq(TicketRecord), now \in 1 .. Len(tickets),
         NEW o \in {"none", "benign", "odd"}, NEW g \in BOOLEAN, Finish(o, g)
  PROVE  /\ Alike(tickets, tickets')
         /\ tickets'[now].finished /\ tickets'[now].gpu = g
         /\ tickets'[now].cancelled = tickets[now].cancelled
         /\ \A t \in 1 .. Len(tickets) : t # now => tickets'[t] = tickets[t]
<1>1. /\ tickets[now] \in TicketRecord
      /\ (o = "none" /\ worker = "busy") \in BOOLEAN
  OBVIOUS
<1> DEFINE v == (o = "none" /\ worker = "busy")
           x == [tickets[now] EXCEPT !.finished = TRUE, !.gpu = g, !.error = o, !.valid = v]
<1>2. tickets' = [tickets EXCEPT ![now] = x]
  BY DEF Finish
<1> HIDE DEF v
<1>3. /\ x \in TicketRecord /\ x.kind = tickets[now].kind /\ x.key = tickets[now].key
      /\ x.finished /\ x.gpu = g /\ x.cancelled = tickets[now].cancelled
  BY <1>1 DEF TicketRecord, v
<1> HIDE DEF x
<1>4. /\ tickets' \in Seq(TicketRecord) /\ Len(tickets') = Len(tickets)
      /\ tickets'[now] = x
      /\ \A t \in 1 .. Len(tickets) : t # now => tickets'[t] = tickets[t]
  BY <1>2, <1>3
<1>5. QED
  BY <1>3, <1>4 DEF Alike

(* How a ticket's I/O ends.                                                *)
LEMMA FinishesWith ==
  ASSUME WorkerSkips \/ WorkerSkipFails \/ WorkerWrites \/ WorkerReads \/ WorkerFails
  PROVE  \E o \in {"none", "benign", "odd"}, g \in BOOLEAN : Finish(o, g)
<1>1. CASE WorkerSkips
  BY <1>1 DEF WorkerSkips
<1>2. CASE WorkerWrites
  BY <1>2 DEF WorkerWrites
<1>3. CASE WorkerReads
  BY <1>3 DEF WorkerReads
<1>4. CASE WorkerFails
  BY <1>4 DEF WorkerFails
<1>5. CASE WorkerSkipFails
  BY <1>5 DEF WorkerSkipFails
<1>6. QED
  BY <1>1, <1>2, <1>3, <1>4, <1>5

(* What is left of a released ticket.                                      *)
LEMMA SpentIs ==
  ASSUME tickets \in Seq(TicketRecord), NEW n \in 1 .. Len(tickets)
  PROVE  /\ Alike(tickets, Spent(n))
         /\ Spent(n)[n].finished /\ Spent(n)[n].gpu = tickets[n].gpu
         /\ \A t \in 1 .. Len(tickets) : t # n => Spent(n)[t] = tickets[t]
<1> DEFINE x == [Ticket(tickets[n].kind, tickets[n].key) EXCEPT
                   !.finished = TRUE, !.reported = TRUE, !.gpu = tickets[n].gpu]
<1>1. tickets[n] \in TicketRecord
  OBVIOUS
<1>2. Spent(n) = [tickets EXCEPT ![n] = x]
  BY DEF Spent
<1>3. /\ Ticket(tickets[n].kind, tickets[n].key) \in TicketRecord
      /\ Ticket(tickets[n].kind, tickets[n].key).kind = tickets[n].kind
      /\ Ticket(tickets[n].kind, tickets[n].key).key = tickets[n].key
  BY <1>1 DEF Ticket, TicketRecord
<1>4. /\ x \in TicketRecord /\ x.kind = tickets[n].kind /\ x.key = tickets[n].key
      /\ x.finished /\ x.gpu = tickets[n].gpu
  <2> DEFINE z == Ticket(tickets[n].kind, tickets[n].key)
  <2> HIDE DEF z
  <2>1. x = [z EXCEPT !.finished = TRUE, !.reported = TRUE, !.gpu = tickets[n].gpu]
    BY DEF z
  <2>2. z \in TicketRecord /\ tickets[n].gpu \in BOOLEAN
    BY <1>1, <1>3 DEF z, TicketRecord
  <2>3. x \in TicketRecord /\ x.kind = z.kind /\ x.key = z.key
        /\ x.finished /\ x.gpu = tickets[n].gpu
    BY <2>1, <2>2 DEF TicketRecord
  <2>4. QED
    BY <1>3, <2>3 DEF z
<1> HIDE DEF x
<1>5. /\ Spent(n) \in Seq(TicketRecord) /\ Len(Spent(n)) = Len(tickets)
      /\ Spent(n)[n] = x
      /\ \A t \in 1 .. Len(tickets) : t # n => Spent(n)[t] = tickets[t]
  BY <1>2, <1>4
<1>6. QED
  BY <1>4, <1>5 DEF Alike

(* The copies of one ticket end.                                           *)
LEMMA GpuDoneIs ==
  ASSUME tickets \in Seq(TicketRecord), held \in SUBSET (1 .. Len(tickets)), GpuDone
  PROVE  /\ Alike(tickets, tickets')
         /\ \A t \in 1 .. Len(tickets) :
               /\ tickets'[t].finished = tickets[t].finished
               /\ tickets'[t].cancelled = tickets[t].cancelled
               /\ tickets'[t].gpu => tickets[t].gpu
<1>1. PICK n \in held : tickets' = [tickets EXCEPT ![n].gpu = FALSE]
  BY DEF GpuDone
<1> DEFINE x == [tickets[n] EXCEPT !.gpu = FALSE]
<1>2. tickets[n] \in TicketRecord /\ n \in 1 .. Len(tickets)
  OBVIOUS
<1>3. tickets' = [tickets EXCEPT ![n] = x]
  BY <1>1
<1>4. /\ x \in TicketRecord /\ x.kind = tickets[n].kind /\ x.key = tickets[n].key
      /\ x.finished = tickets[n].finished /\ x.cancelled = tickets[n].cancelled
      /\ ~x.gpu
  BY <1>2 DEF TicketRecord
<1> HIDE DEF x
<1>5. /\ tickets' \in Seq(TicketRecord) /\ Len(tickets') = Len(tickets)
      /\ tickets'[n] = x
      /\ \A t \in 1 .. Len(tickets) : t # n => tickets'[t] = tickets[t]
  BY <1>2, <1>3, <1>4
<1>6. QED
  BY <1>4, <1>5 DEF Alike


-----------------------------------------------------------------------------
(* What the longer actions do.                                             *)

(* The record a restore is begun for.                                      *)
LEMMA CandidateIsKey ==
  ASSUME TicketTypes, OtherTypes, NEW u \in Uids, NEW raw, Candidates(u, raw) # {}
  PROVE  Max(Candidates(u, raw)) \in Keys
<1>1. descriptors \subseteq Keys /\ Keys \subseteq Nat
  BY RetentionConstants DEF OtherTypes, descriptors
<1>2. InputLen[u] \in Nat
  BY RetentionConstants
<1>3. Candidates(u, raw) \in SUBSET Nat /\ \A m \in Candidates(u, raw) : m <= InputLen[u]
  <2>1. Candidates(u, raw) \subseteq descriptors /\ \A m \in Candidates(u, raw) : m < InputLen[u]
    BY Zenon DEF Candidates
  <2>2. descriptors \subseteq Nat
    BY <1>1
  <2>3. ASSUME NEW m \in Candidates(u, raw) PROVE m \in Nat /\ m <= InputLen[u]
    <3>1. m \in Nat /\ m < InputLen[u]
      BY <2>1, <2>2
    <3>2. QED
      BY <1>2, <3>1
  <2>4. QED
    BY <2>3
<1>4. Max(Candidates(u, raw)) \in Candidates(u, raw)
  BY <1>2, <1>3, MaxIsGreatest
<1>5. QED
  BY <1>1, <1>4 DEF Candidates

(* RestoreBegun: endpoints give way; then the request goes on without a    *)
(* restore, or takes a free slot for one.                                  *)
LEMMA BegunIs ==
  ASSUME RetentionInv, NEW u \in Uids, RestoreBegun(u)
  PROVE  /\ at = "idle" /\ restore = NoRestore /\ flags.ready
         /\ pending[u] = "new"
         /\ \E c : /\ GivesWay(Endpoints, c)
                   /\ entries' = c.entries
                   /\ \/ /\ free' = c.free /\ Attempt(u, "go")
                         /\ UNCHANGED <<at, job, restoring>>
                      \/ /\ \E s \in c.free, k \in Keys :
                               /\ free' = c.free \ {s}
                               /\ job' = [kind |-> "read", key |-> k, slot |-> s, uid |-> u]
                         /\ restoring' = restoring + 1 /\ at' = "put"
                         /\ UNCHANGED pending
<1>1. PICK raw \in SUBSET Keys, busy \in SUBSET Keys :
         /\ CanRestore(u, raw)
         /\ \E c \in {ensure_mamba_slots(Endpoints, busy)} :
               IF Cardinality(c.free) < SlotReserve \/ ~MaySubmit
               THEN /\ Attempt(u, "go") /\ entries' = c.entries /\ free' = c.free
                    /\ UNCHANGED <<at, job, restoring>>
               ELSE \E n \in 0 .. MaxRecords :
                       PrivateImage(u, Max(Candidates(u, raw)), Evict(c, n, busy))
  BY Zenon DEF RestoreBegun
<1>2. /\ at = "idle" /\ restore = NoRestore /\ flags.ready /\ Candidates(u, raw) # {}
      /\ pending[u] = "new"
  BY <1>1 DEF RestoreBegun, CanRestore, Running
<1> DEFINE c == ensure_mamba_slots(Endpoints, busy)
           k == Max(Candidates(u, raw))
<1>3. IsCache(Endpoints) /\ GivesWay(Endpoints, c)
  BY EnsureGives DEF RetentionInv, Leases
<1>4. k \in Keys
  BY <1>2, CandidateIsKey DEF RetentionInv
<1>5. CASE Cardinality(c.free) < SlotReserve \/ ~MaySubmit
  <2>1. /\ entries' = c.entries /\ free' = c.free /\ Attempt(u, "go")
        /\ UNCHANGED <<at, job, restoring>>
    BY <1>1, <1>5
  <2> HIDE DEF c
  <2>2. QED
    BY <1>2, <1>3, <2>1
<1>6. CASE ~(Cardinality(c.free) < SlotReserve \/ ~MaySubmit)
  <2>1. PICK n \in 0 .. MaxRecords : PrivateImage(u, k, Evict(c, n, busy))
    BY <1>1, <1>6
  <2>2. c.free # {}
    <3>1. SlotReserve \in Nat /\ SlotReserve >= 1
      <4>1. Cardinality(Slots) \in Nat
        BY RetentionConstants, FS_CardinalityType
      <4>2. QED
        BY <4>1, RetentionConstants
    <3>2. Cardinality({}) = 0
      BY FS_EmptySet
    <3>3. QED
      BY <1>6, <3>1, <3>2
  <2> DEFINE d == Evict(c, n, busy)
             s == CHOOSE x \in d.free : TRUE
  <2> HIDE DEF c, k
  <2>3. GivesWay(c, d)
    <3>1. n \in Nat /\ IsCache(c)
      BY <1>3, RetentionConstants DEF GivesWay
    <3>2. QED
      BY <3>1, EvictGives
  <2>4. /\ entries' = d.entries /\ free' = d.free \ {s}
        /\ job' = [kind |-> "read", key |-> k, slot |-> s, uid |-> u]
        /\ restoring' = restoring + 1 /\ at' = "put" /\ UNCHANGED pending
    BY <2>1 DEF PrivateImage
  <2> HIDE DEF d
  <2>5. GivesWay(Endpoints, d)
    BY <1>3, <2>3, GivesMore
  <2>6. s \in d.free
    BY <2>2, <2>3 DEF GivesWay
  <2> HIDE DEF s
  <2>7. QED
    BY <1>2, <1>4, <2>4, <2>5, <2>6
<1>7. QED
  BY <1>5, <1>6

(* HandleRead: the image is adopted after at most one endpoint gave way,   *)
(* or returned.                                                            *)
LEMMA ReadIs ==
  ASSUME RetentionInv, NEW t \in held,
         Handles(t), tickets[t].kind = "read", restore.ticket = t, HandleRead
  PROVE  \E c : /\ GivesWay(Endpoints, c)
                /\ \/ /\ entries' = Append(c.entries, Entry(restore.key, restore.slot, 0))
                      /\ free' = c.free
                      /\ ~Known(entries, restore.key) /\ Len(c.entries) < MaxRecords
                   \/ /\ entries' = c.entries
                      /\ free' = c.free \cup {restore.slot}
<1>1. PICK n \in held, busy \in SUBSET Keys :
         LET c == Shrink(Endpoints, busy)
             wanted == /\ tickets[n].error = "none" /\ ~tickets[n].cancelled
                       /\ tickets[n].valid /\ restore.waiters # {}
             adopted == wanted /\ Adoptable(restore.key, busy)
             tried == IF wanted /\ ~Known(entries, restore.key) THEN c ELSE Endpoints
         IN  /\ entries' = IF adopted
                           THEN Append(c.entries, Entry(restore.key, restore.slot, 0))
                           ELSE tried.entries
             /\ free' = IF adopted THEN c.free ELSE tried.free \cup {restore.slot}
  BY Zenon DEF HandleRead
<1> DEFINE c == Shrink(Endpoints, busy)
           wanted == /\ tickets[n].error = "none" /\ ~tickets[n].cancelled
                     /\ tickets[n].valid /\ restore.waiters # {}
           adopted == wanted /\ Adoptable(restore.key, busy)
           tried == IF wanted /\ ~Known(entries, restore.key) THEN c ELSE Endpoints
<1>2. /\ entries' = IF adopted THEN Append(c.entries, Entry(restore.key, restore.slot, 0))
                               ELSE tried.entries
      /\ free' = IF adopted THEN c.free ELSE tried.free \cup {restore.slot}
  BY <1>1
<1>3. adopted => ~Known(entries, restore.key) /\ Len(c.entries) < MaxRecords
  BY DEF Adoptable, fits, Endpoints
<1>4. GivesWay(Endpoints, c) /\ GivesWay(Endpoints, Endpoints)
  BY ShrinkGives, GivesNothing DEF RetentionInv, Leases
<1> HIDE DEF c, wanted, adopted
<1>5. GivesWay(Endpoints, tried)
  BY <1>4
<1> HIDE DEF tried
<1>6. QED
  BY <1>2, <1>3, <1>4, <1>5


-----------------------------------------------------------------------------
(* Types.                                                                  *)

(* Sequences over more tickets.                                            *)
LEMMA MoreTickets ==
  ASSUME NEW m \in Nat, NEW n \in Nat, m <= n, NEW q \in Seq(1 .. m)
  PROVE  q \in Seq(1 .. n)
<1>1. \A i \in 1 .. Len(q) : q[i] \in 1 .. n
  OBVIOUS
<1>2. QED
  BY <1>1

LEMMA TicketTypesAlike ==
  ASSUME TicketTypes, Alike(tickets, tickets'),
         held' \in SUBSET held, jobs' \in Seq(1 .. Len(tickets)),
         done' \in Seq(1 .. Len(tickets)), now' \in 0 .. Len(tickets),
         writes' \in [Keys -> 0 .. Len(tickets)],
         restore' \in Restores(Len(tickets))
  PROVE  TicketTypes'
  BY DEF TicketTypes, Alike

(* Fewer or more waiters.                                                  *)
LEMMA RestoreFields ==
  ASSUME TicketTypes
  PROVE  /\ restore.ticket \in 0 .. Len(tickets) /\ restore.key \in Keys \cup {0}
         /\ restore.slot \in Slots \cup {0} /\ restore.waiters \in SUBSET Uids
         /\ \A W \in SUBSET Uids :
               /\ [restore EXCEPT !.waiters = W] \in Restores(Len(tickets))
               /\ [restore EXCEPT !.waiters = W].waiters = W
               /\ [restore EXCEPT !.waiters = W].ticket = restore.ticket
               /\ [restore EXCEPT !.waiters = W].key = restore.key
               /\ [restore EXCEPT !.waiters = W].slot = restore.slot
         /\ NoRestore \in Restores(Len(tickets))
<1>1. restore \in Restores(Len(tickets)) /\ Len(tickets) \in Nat
  BY DEF TicketTypes
<1>2. ASSUME NEW W \in SUBSET Uids
      PROVE  /\ [restore EXCEPT !.waiters = W] \in Restores(Len(tickets))
             /\ [restore EXCEPT !.waiters = W].waiters = W
             /\ [restore EXCEPT !.waiters = W].ticket = restore.ticket
             /\ [restore EXCEPT !.waiters = W].key = restore.key
             /\ [restore EXCEPT !.waiters = W].slot = restore.slot
  BY <1>1 DEF Restores
<1>3. NoRestore \in Restores(Len(tickets))
  <2>1. 0 \in 0 .. Len(tickets) /\ {} \in SUBSET Uids
    BY <1>1
  <2>2. QED
    BY <2>1 DEF NoRestore, NoTicket, Restores
<1>4. QED
  BY <1>1, <1>2, <1>3 DEF Restores

(* _submit: one more ticket, in the table or in the restore.               *)
LEMMA SubmitTypes ==
  ASSUME RetentionInv, _submit
  PROVE  TicketTypes'
<1>0. /\ TicketTypes /\ OtherTypes /\ Submitting
      /\ tickets \in Seq(TicketRecord) /\ held \in SUBSET (1 .. Len(tickets))
      /\ Len(tickets) \in Nat
  BY DEF RetentionInv, TicketTypes
<1> DEFINE n == Len(tickets) + 1
           x == Ticket(job.kind, job.key)
<1>1. at = "put" /\ job.kind \in {"write", "read"} /\ job.key \in Keys
  BY <1>0 DEF _submit, Submitting, OtherTypes, Submissions
<1>2. x \in TicketRecord
  BY <1>1 DEF Ticket, TicketRecord
<1>3. /\ tickets' = Append(tickets, x) /\ held' = held \cup {n}
      /\ jobs' = Append(jobs, n) /\ done' = done /\ now' = now
  BY DEF _submit
<1> HIDE DEF x
<1>4. tickets' \in Seq(TicketRecord) /\ Len(tickets') = n /\ n \in Nat
  BY <1>0, <1>2, <1>3
<1>5. held' \in SUBSET (1 .. n) /\ now' \in 0 .. n
  <2>1. 1 .. Len(tickets) \subseteq 1 .. n /\ n \in 1 .. n /\ now \in 0 .. n
    BY <1>0 DEF TicketTypes
  <2> HIDE DEF n
  <2>2. QED
    BY <1>0, <1>3, <2>1
<1>6. jobs \in Seq(1 .. n) /\ done \in Seq(1 .. n)
  BY <1>0, MoreTickets DEF TicketTypes
<1>7. jobs' \in Seq(1 .. n) /\ done' \in Seq(1 .. n)
  BY <1>0, <1>3, <1>6
<1>8. writes \in [Keys -> 0 .. n]
  BY <1>0 DEF TicketTypes
<1>9. restore \in Restores(n)
  <2>1. restore \in Restores(Len(tickets)) /\ 0 .. Len(tickets) \subseteq 0 .. n
    BY <1>0 DEF TicketTypes
  <2> HIDE DEF n
  <2>2. QED
    BY <2>1 DEF Restores
<1>10. CASE job.kind = "write"
  <2>1. writes' = [writes EXCEPT ![job.key] = n] /\ restore' = restore
    BY <1>10 DEF _submit
  <2>2. writes' \in [Keys -> 0 .. n]
    <3>1. n \in 0 .. n
      BY <1>4
    <3> HIDE DEF n
    <3>2. QED
      BY <1>8, <2>1, <3>1
  <2>3. QED
    BY <1>4, <1>5, <1>7, <1>9, <2>1, <2>2 DEF TicketTypes
<1>11. CASE job.kind = "read"
  <2>1. /\ writes' = writes
        /\ restore' = [ticket |-> n, key |-> job.key, slot |-> job.slot,
                       waiters |-> {job.uid}]
    BY <1>11 DEF _submit
  <2>2. job.uid \in Uids /\ job.slot \in Slots
    BY <1>0, <1>11 DEF Submitting
  <2>3. restore' \in Restores(n)
    <3>1. n \in 0 .. n /\ {job.uid} \in SUBSET Uids
      BY <1>4, <2>2
    <3> HIDE DEF n
    <3>2. QED
      BY <1>1, <2>1, <2>2, <3>1 DEF Restores
  <2>4. QED
    BY <1>4, <1>5, <1>7, <1>8, <2>1, <2>3 DEF TicketTypes
<1>12. QED
  BY <1>1, <1>10, <1>11

(* poll: the restore may be cancelled, and what is done is reported.       *)
LEMMA PolledIs ==
  ASSUME poll
  PROVE  \E ts : /\ ts = tickets \/ ts = Cancelled(tickets, restore.ticket)
                 /\ tickets' = Reported(ts, ToSet(done))
<1>1. PICK b \in BOOLEAN :
         tickets' = Reported(IF b THEN Cancelled(tickets, restore.ticket) ELSE tickets,
                             ToSet(done))
  BY ZenonT(60) DEF poll, Reported
<1>2. QED
  BY <1>1

(* Every other action leaves the tickets what they transfer.               *)
LEMMA TicketsAlike ==
  ASSUME RetentionInv, [Next]_vars, ~_submit
  PROVE  Alike(tickets, tickets')
<1> USE DEF shared
<1>1. /\ TicketTypes /\ Serving
      /\ tickets \in Seq(TicketRecord) /\ held \in SUBSET (1 .. Len(tickets))
      /\ Len(tickets) \in Nat
  BY DEF RetentionInv, TicketTypes
<1>2. ASSUME tickets' = tickets PROVE Alike(tickets, tickets')
  BY <1>1, <1>2 DEF Alike
<1>3. ASSUME tickets' = Cancelled(tickets, restore.ticket) PROVE Alike(tickets, tickets')
  BY <1>1, <1>3, RestoreFields, CancelledIs
<1>4. ASSUME NEW u \in Uids, detach(u) PROVE Alike(tickets, tickets')
  BY <1>2, <1>3, <1>4 DEF detach
<1>5. CASE poll
  <2>1. PICK ts : /\ ts = tickets \/ ts = Cancelled(tickets, restore.ticket)
                  /\ tickets' = Reported(ts, ToSet(done))
    BY <1>5, PolledIs
  <2>2. ts \in Seq(TicketRecord) /\ Alike(tickets, ts)
    BY <1>1, <2>1, RestoreFields, CancelledIs DEF Alike
  <2>3. Alike(ts, tickets')
    BY <2>1, <2>2, ReportedIs
  <2>4. QED
    BY <2>2, <2>3 DEF Alike
<1>6. CASE PollStopped
  BY <1>1, <1>6, StoppedIs
<1>7. CASE HandleWrite \/ HandleRead
  <2>1. PICK t \in held : tickets' = Spent(t)
    BY <1>7 DEF HandleWrite, HandleRead, release
  <2>2. QED
    BY <1>1, <2>1, SpentIs
<1>8. CASE close
  BY <1>3, <1>8 DEF close
<1>9. CASE WorkerSkips \/ WorkerSkipFails \/ WorkerWrites \/ WorkerReads \/ WorkerFails
  <2>1. now \in 1 .. Len(tickets)
    BY <1>1, <1>9
       DEF WorkerSkips, WorkerSkipFails, WorkerWrites, WorkerReads, WorkerFails, Serving, TicketTypes, NoTicket
  <2>2. \E o \in {"none", "benign", "odd"}, g \in BOOLEAN : Finish(o, g)
    BY <1>9, FinishesWith
  <2>3. QED
    BY <1>1, <2>1, <2>2, FinishIs
<1>10. CASE GpuDone
  BY <1>1, <1>10, GpuDoneIs
<1>11. ASSUME NEW k \in Keys, publish(k) PROVE Alike(tickets, tickets')
  BY <1>2, <1>11 DEF publish
<1>12. ASSUME NEW u \in Uids, RestoreSkipped(u) \/ RestoreJoined(u) \/ RestoreBegun(u)
       PROVE  Alike(tickets, tickets')
  BY <1>2, <1>12 DEF RestoreSkipped, RestoreJoined, RestoreBegun
<1>13. CASE SubmitRefused \/ _allocate \/ rebuild_cache \/ CloseGivesUp \/ CloseReturns
  BY <1>2, <1>13 DEF SubmitRefused, _allocate, rebuild_cache, CloseGivesUp, CloseReturns
<1>14. CASE HandleLater \/ HandleTwice \/ PollEnds
  BY <1>2, <1>14 DEF HandleLater, HandleTwice, PollEnds
<1>15. CASE OpenStore \/ OpenFails \/ WorkerTakes \/ WorkerStops \/ WorkerDrains \/ WorkerWakes
  BY <1>2, <1>15 DEF OpenStore, OpenFails, WorkerTakes, WorkerStops, WorkerDrains, WorkerWakes
<1>16. CASE UNCHANGED vars
  BY <1>2, <1>16 DEF vars
<1>17. QED
  BY <1>4, <1>5, <1>6, <1>7, <1>8, <1>9, <1>10, <1>11, <1>12, <1>13, <1>14, <1>15, <1>16
     DEF Next, ActorStep, WorkerStep

(* Only _submit and HandleRead change which restore there is.              *)
LEMMA RestoreStays ==
  ASSUME RetentionInv, [Next]_vars, ~_submit, ~HandleRead
  PROVE  /\ restore' \in Restores(Len(tickets))
         /\ restore'.ticket = restore.ticket
         /\ restore'.key = restore.key /\ restore'.slot = restore.slot
         /\ restore' = NoRestore <=> restore = NoRestore
<1> USE DEF shared, memory
<1>1. TicketTypes /\ Tabled /\ Serving /\ restore \in Restores(Len(tickets))
  BY DEF RetentionInv, TicketTypes
<1>2. ASSUME restore' = restore
      PROVE  /\ restore' \in Restores(Len(tickets))
             /\ restore'.ticket = restore.ticket
             /\ restore'.key = restore.key /\ restore'.slot = restore.slot
             /\ restore' = NoRestore <=> restore = NoRestore
  BY <1>1, <1>2
<1>3. ASSUME NEW W \in SUBSET Uids, restore' = [restore EXCEPT !.waiters = W],
             restore = NoRestore => W = {}
      PROVE  /\ restore' \in Restores(Len(tickets))
             /\ restore'.ticket = restore.ticket
             /\ restore'.key = restore.key /\ restore'.slot = restore.slot
             /\ restore' = NoRestore <=> restore = NoRestore
  <2>1. /\ restore' \in Restores(Len(tickets))
        /\ restore'.ticket = restore.ticket
        /\ restore'.key = restore.key /\ restore'.slot = restore.slot
    BY <1>1, <1>3, RestoreFields
  <2>2. restore = NoRestore => restore' = NoRestore
    <3>1. restore = NoRestore => W = restore.waiters
      BY <1>3 DEF NoRestore
    <3>2. W = restore.waiters => restore' = restore
      BY <1>1, <1>3 DEF Restores
    <3>3. QED
      BY <3>1, <3>2
  <2>3. restore' = NoRestore => restore = NoRestore
    BY <1>1, <2>1 DEF Tabled, NoRestore
  <2>4. QED
    BY <2>1, <2>2, <2>3
<1>4. restore.waiters \in SUBSET Uids /\ (restore = NoRestore => restore.waiters = {})
  BY <1>1, RestoreFields DEF NoRestore
<1>5. ASSUME NEW u \in Uids, RestoreJoined(u)
      PROVE  \E W \in SUBSET Uids : /\ restore' = [restore EXCEPT !.waiters = W]
                                    /\ restore = NoRestore => W = {}
  <2>1. restore # NoRestore /\ restore' = [restore EXCEPT !.waiters = restore.waiters \cup {u}]
    BY <1>5 DEF RestoreJoined, Joinable
  <2>2. QED
    BY <1>4, <2>1
<1>6. ASSUME NEW u \in Uids, detach(u)
      PROVE  \E W \in SUBSET Uids : /\ restore' = [restore EXCEPT !.waiters = W]
                                    /\ restore = NoRestore => W = {}
  <2>1. restore' = [restore EXCEPT !.waiters = restore.waiters \ {u}]
    BY <1>6 DEF detach
  <2>2. QED
    BY <1>4, <2>1
<1>7. CASE poll
  BY <1>2, <1>3, <1>7 DEF poll
<1>8. CASE close
  <2>1. {} \in SUBSET Uids /\ restore' = [restore EXCEPT !.waiters = {}]
    BY <1>8 DEF close
  <2>2. QED
    BY <1>3, <2>1
<1>9. CASE \/ PollStopped \/ HandleWrite \/ SubmitRefused \/ _allocate \/ rebuild_cache \/ CloseGivesUp
           \/ CloseReturns \/ HandleLater \/ HandleTwice \/ PollEnds
  BY <1>2, <1>9 DEF PollStopped, HandleWrite, SubmitRefused, _allocate, rebuild_cache, CloseGivesUp,
     CloseReturns, HandleLater, HandleTwice, PollEnds
<1>10. CASE \/ WorkerSkips \/ WorkerSkipFails \/ WorkerWrites \/ WorkerReads \/ WorkerFails \/ GpuDone
            \/ OpenStore \/ OpenFails \/ WorkerTakes \/ WorkerStops \/ WorkerDrains
            \/ WorkerWakes
  BY <1>2, <1>10 DEF WorkerSkips, WorkerSkipFails, WorkerWrites, WorkerReads, WorkerFails, GpuDone, Finish,
     OpenStore, OpenFails, WorkerTakes, WorkerStops, WorkerDrains, WorkerWakes
<1>11. ASSUME \/ \E k \in Keys : publish(k)
              \/ \E u \in Uids : RestoreSkipped(u) \/ RestoreBegun(u)
              \/ UNCHANGED vars
       PROVE  restore' = restore
  BY <1>11 DEF publish, RestoreSkipped, RestoreBegun, vars
<1>12. QED
  BY <1>2, <1>3, <1>5, <1>6, <1>7, <1>8, <1>9, <1>10, <1>11 DEF Next, ActorStep, WorkerStep

LEMMA TicketTypesStep == RetentionInv /\ [Next]_vars => TicketTypes'
<1> SUFFICES ASSUME RetentionInv, [Next]_vars, ~_submit PROVE TicketTypes'
  BY SubmitTypes
<1> USE DEF shared, memory, polling
<1>1. /\ TicketTypes /\ OtherTypes /\ Serving
      /\ tickets \in Seq(TicketRecord) /\ held \in SUBSET (1 .. Len(tickets))
      /\ jobs \in Seq(1 .. Len(tickets)) /\ done \in Seq(1 .. Len(tickets))
      /\ now \in 0 .. Len(tickets) /\ writes \in [Keys -> 0 .. Len(tickets)]
      /\ Len(tickets) \in Nat
  BY DEF RetentionInv, TicketTypes
<1>2. Alike(tickets, tickets')
  BY TicketsAlike
<1>3. restore' \in Restores(Len(tickets))
  <2>1. CASE HandleRead
    BY <1>1, <2>1, RestoreFields DEF HandleRead
  <2>2. CASE ~HandleRead
    BY <2>2, RestoreStays
  <2>3. QED
    BY <2>1, <2>2
<1>4. ASSUME UNCHANGED <<held, jobs, done, now, writes>>
      PROVE  TicketTypes'
  BY <1>1, <1>2, <1>3, <1>4, TicketTypesAlike
<1>5. CASE poll
  <2>1. done' = <<>> /\ UNCHANGED <<held, jobs, now, writes>>
    BY <1>5 DEF poll
  <2>2. QED
    BY <1>1, <1>2, <1>3, <2>1, TicketTypesAlike
<1>6. CASE HandleWrite \/ HandleRead
  <2>1. PICK t \in held : held' = held \ {t}
    BY <1>6 DEF HandleWrite, HandleRead, release
  <2>2. writes' \in [Keys -> 0 .. Len(tickets)]
    <3>1. 0 \in 0 .. Len(tickets)
      BY <1>1
    <3>2. QED
      BY <1>1, <1>6, <3>1 DEF HandleWrite, HandleRead, NoTicket
  <2>3. UNCHANGED <<jobs, done, now>>
    BY <1>6 DEF HandleWrite, HandleRead
  <2>4. QED
    BY <1>1, <1>2, <1>3, <2>1, <2>2, <2>3, TicketTypesAlike
<1>7. CASE WorkerTakes
  <2>1. jobs # <<>> /\ now' = Head(jobs) /\ jobs' = Tail(jobs) /\ UNCHANGED <<held, done, writes>>
    BY <1>7 DEF WorkerTakes
  <2>2. now' \in 0 .. Len(tickets) /\ jobs' \in Seq(1 .. Len(tickets))
    BY <1>1, <2>1
  <2>3. QED
    BY <1>1, <1>2, <1>3, <2>1, <2>2, TicketTypesAlike
<1>8. CASE WorkerSkips \/ WorkerSkipFails \/ WorkerWrites \/ WorkerReads \/ WorkerFails
  <2>1. now \in 1 .. Len(tickets)
    BY <1>1, <1>8
       DEF WorkerSkips, WorkerSkipFails, WorkerWrites, WorkerReads, WorkerFails, Serving, TicketTypes, NoTicket
  <2>2. done' = Append(done, now) /\ now' = 0 /\ UNCHANGED <<held, jobs, writes>>
    BY <1>8 DEF WorkerSkips, WorkerSkipFails, WorkerWrites, WorkerReads, WorkerFails, Finish, NoTicket
  <2>3. done' \in Seq(1 .. Len(tickets)) /\ now' \in 0 .. Len(tickets)
    BY <1>1, <2>1, <2>2
  <2>4. QED
    BY <1>1, <1>2, <1>3, <2>2, <2>3, TicketTypesAlike
<1>9. ASSUME NEW k \in Keys, publish(k) PROVE TicketTypes'
  BY <1>4, <1>9 DEF publish
<1>10. ASSUME NEW u \in Uids,
              RestoreSkipped(u) \/ RestoreJoined(u) \/ RestoreBegun(u) \/ detach(u)
       PROVE  TicketTypes'
  BY <1>4, <1>10 DEF RestoreSkipped, RestoreJoined, RestoreBegun, detach
<1>11. CASE \/ SubmitRefused \/ _allocate \/ rebuild_cache \/ CloseGivesUp \/ CloseReturns \/ close
            \/ PollStopped \/ HandleLater \/ HandleTwice \/ PollEnds
  BY <1>4, <1>11 DEF SubmitRefused, _allocate, rebuild_cache, CloseGivesUp, CloseReturns, close,
     PollStopped, HandleLater, HandleTwice, PollEnds
<1>12. CASE \/ OpenStore \/ OpenFails \/ WorkerStops \/ WorkerDrains \/ WorkerWakes
            \/ GpuDone \/ UNCHANGED vars
  BY <1>4, <1>12 DEF OpenStore, OpenFails, WorkerStops, WorkerDrains, WorkerWakes, GpuDone, vars
<1>13. QED
  BY <1>5, <1>6, <1>7, <1>8, <1>9, <1>10, <1>11, <1>12 DEF Next, ActorStep, WorkerStep

LEMMA NoJobTyped == NoJob \in Submissions
  BY DEF NoJob, Submissions

(* A restore is one ticket of the table, and it pins its record once.      *)
LEMMA RestoreTicket ==
  ASSUME RetentionInv, NEW t \in held, restore.ticket = t
  PROVE  /\ t # NoTicket /\ restore # NoRestore /\ job.kind # "read"
         /\ restore.key \in Keys /\ restore.slot \in Slots
         /\ tickets[t].kind = "read" /\ tickets[t].key = restore.key
         /\ pins[restore.key] = 1 /\ restoring = 1
<1>1. t # NoTicket /\ NoRestore.ticket = NoTicket
  BY DEF RetentionInv, TicketTypes, NoTicket, NoRestore
<1>2. restore # NoRestore
  BY <1>1
<1>3. restore.key \in Keys /\ restore.slot \in Slots
      /\ tickets[t].kind = "read" /\ tickets[t].key = restore.key
  BY <1>1 DEF RetentionInv, Tabled
<1>4. job.kind # "read"
  BY <1>2 DEF RetentionInv, Submitting
<1>5. pins[restore.key] = 1 /\ restoring = 1
  BY <1>2, <1>3 DEF RetentionInv, Pinned, Images
<1>6. QED
  BY <1>1, <1>2, <1>3, <1>4, <1>5

LEMMA PendingGo ==
  ASSUME OtherTypes, NEW W
  PROVE  /\ Go(W) \in [Uids -> {"new", "waiting", "go"}]
         /\ \A u \in Uids : Go(W)[u] = IF u \in W THEN "go" ELSE pending[u]
  BY DEF OtherTypes, Go

LEMMA PendingAttempt ==
  ASSUME OtherTypes, NEW u, NEW v \in {"new", "waiting", "go"}, Attempt(u, v)
  PROVE  /\ pending' \in [Uids -> {"new", "waiting", "go"}]
         /\ \A w \in Uids : pending'[w] = IF w = u THEN v ELSE pending[w]
  BY DEF OtherTypes, Attempt

(* What a write, or one that fails, makes of the index: room may have been  *)
(* made from one record that nobody has pinned, and the key may be there.  *)
LEMMA RoomMade ==
  ASSUME TicketTypes, OtherTypes, Serving, WorkerWrites \/ WorkerFails
  PROVE  /\ tickets[now].key \in Keys
         /\ \E S : /\ S = index \/ \E v \in Unpinned : S = index \ {v}
                   /\ \/ index' = S
                      \/ /\ index' = S \cup {tickets[now].key}
                         /\ S = index => \/ tickets[now].key \in index
                                         \/ Cardinality(index) < MaxDisk
<1> DEFINE k == tickets[now].key
<1>1. k \in Keys
  <2>1. now \in 1 .. Len(tickets)
    BY DEF WorkerWrites, WorkerFails, Serving, TicketTypes, NoTicket
  <2>2. QED
    BY <2>1, RecordFields DEF TicketTypes
<1>2. \/ index' = index
      \/ \E S \in WithRoom(k) : index' = S \/ index' = S \cup {k}
  BY DEF WorkerWrites, WorkerFails
<1> HIDE DEF k
<1>3. ASSUME NEW S \in WithRoom(k)
      PROVE  \/ S = index /\ (k \in index \/ Cardinality(index) < MaxDisk)
             \/ k \notin index /\ \E v \in Unpinned : S = index \ {v}
  BY <1>3 DEF WithRoom
<1>4. ASSUME NEW v \in Unpinned PROVE index \ {v} # index
  BY DEF Unpinned
<1>5. QED
  BY <1>1, <1>2, <1>3, <1>4 DEF k

LEMMA OtherTypesStep == RetentionInv /\ [Next]_vars => OtherTypes'
<1> SUFFICES ASSUME RetentionInv, [Next]_vars PROVE OtherTypes'
  OBVIOUS
<1> USE DEF shared, memory, polling
<1>1. /\ TicketTypes /\ OtherTypes /\ Submitting /\ Tabled /\ Images
      /\ flags \in Events /\ index \in SUBSET Keys /\ pins \in [Keys -> Nat]
      /\ worker \in {"opening", "loop", "busy", "skip", "drain", "sleep", "gone"}
      /\ at \in {"idle", "put", "repoll", "drained", "handle", "joining", "over", "broken"}
      /\ job \in Submissions /\ restoring \in {0, 1}
      /\ pending \in [Uids -> {"new", "waiting", "go"}]
  BY DEF RetentionInv, OtherTypes
<1>2. ASSUME NEW k \in Keys, publish(k) PROVE OtherTypes'
  <2>1. [NoJob EXCEPT !.kind = "write", !.key = k] \in Submissions
    BY DEF NoJob, Submissions
  <2>2. at' \in {at, "put"} /\ job' \in Submissions
    BY <1>1, <1>2, <2>1 DEF publish
  <2>3. QED
    BY <1>1, <1>2, <2>2 DEF publish, OtherTypes
<1>3. ASSUME NEW u \in Uids, RestoreSkipped(u) \/ RestoreJoined(u) \/ detach(u)
      PROVE  OtherTypes'
  <2>1. Attempt(u, "go") \/ Attempt(u, "waiting")
    BY <1>3 DEF RestoreSkipped, RestoreJoined, detach
  <2>2. pending' \in [Uids -> {"new", "waiting", "go"}]
    BY <1>1, <2>1, PendingAttempt
  <2>3. QED
    BY <1>1, <1>3, <2>2 DEF RestoreSkipped, RestoreJoined, detach, OtherTypes
<1>4. ASSUME NEW u \in Uids, RestoreBegun(u) PROVE OtherTypes'
  <2>1. restore = NoRestore /\ at = "idle"
    BY <1>4, BegunIs
  <2>2. restoring = 0
    BY <1>1, <2>1 DEF Submitting, Images, NoJob
  <2>3. PICK c : /\ GivesWay(Endpoints, c)
                 /\ \/ Attempt(u, "go") /\ UNCHANGED <<at, job, restoring>>
                    \/ /\ \E s \in c.free, k \in Keys :
                            job' = [kind |-> "read", key |-> k, slot |-> s, uid |-> u]
                       /\ restoring' = restoring + 1 /\ at' = "put" /\ UNCHANGED pending
    BY <1>4, BegunIs
  <2>4. c.free \in SUBSET Slots
    BY <2>3 DEF GivesWay, IsCache
  <2>5. /\ at' \in {at, "put"} /\ job' \in Submissions /\ restoring' \in {0, 1}
        /\ pending' \in [Uids -> {"new", "waiting", "go"}]
    <3>1. CASE Attempt(u, "go") /\ UNCHANGED <<at, job, restoring>>
      BY <1>1, <3>1, PendingAttempt
    <3>2. CASE /\ \E s \in c.free, k \in Keys :
                     job' = [kind |-> "read", key |-> k, slot |-> s, uid |-> u]
               /\ restoring' = restoring + 1 /\ at' = "put" /\ UNCHANGED pending
      <4>1. PICK s \in c.free, k \in Keys :
               job' = [kind |-> "read", key |-> k, slot |-> s, uid |-> u]
        BY <3>2
      <4>2. job' \in Submissions
        BY <2>4, <3>2, <4>1 DEF Submissions
      <4>3. QED
        BY <1>1, <2>2, <3>2, <4>2
    <3>3. QED
      BY <2>3, <3>1, <3>2
  <2>6. QED
    BY <1>1, <1>4, <2>5 DEF RestoreBegun, OtherTypes
<1>5. CASE _submit
  <2>1. at' = "idle" /\ job' = NoJob /\ restoring' = restoring
        /\ flags' = flags /\ index' = index /\ worker' = worker
    BY <1>5 DEF _submit
  <2>2. pins' \in [Keys -> Nat]
    <3>1. pins' = pins \/ pins' = [pins EXCEPT ![job.key] = pins[job.key] + 1]
      BY <1>5 DEF _submit
    <3>2. job.key \in Keys
      BY <1>1, <1>5 DEF _submit, Submitting
    <3>3. pins[job.key] \in Nat
      BY <1>1, <3>2
    <3>4. QED
      BY <1>1, <3>1, <3>3
  <2>3. pending' \in [Uids -> {"new", "waiting", "go"}]
    <3>1. pending' = pending \/ Attempt(job.uid, "waiting")
      BY <1>5 DEF _submit
    <3>2. QED
      BY <1>1, <3>1, PendingAttempt
  <2>4. QED
    BY <1>1, <2>1, <2>2, <2>3, NoJobTyped DEF OtherTypes
<1>6. CASE SubmitRefused
  <2>1. at' = "idle" /\ job' = NoJob
        /\ flags' = flags /\ index' = index /\ worker' = worker /\ pins' = pins
    BY <1>6 DEF SubmitRefused
  <2>2. pending' \in [Uids -> {"new", "waiting", "go"}] /\ restoring' \in {0, 1}
    <3>1. CASE job.kind = "write"
      BY <1>1, <1>6, <3>1 DEF SubmitRefused
    <3>2. CASE job.kind # "write"
      <4>1. job.kind = "read"
        BY <1>1, <1>6, <3>2 DEF SubmitRefused, Submitting, Submissions
      <4>2. restoring = 1
        BY <1>1, <4>1 DEF Images
      <4>3. restoring' = restoring - 1 /\ Attempt(job.uid, "go")
        BY <1>6, <3>2 DEF SubmitRefused
      <4>4. QED
        BY <1>1, <4>2, <4>3, PendingAttempt
    <3>3. QED
      BY <3>1, <3>2
  <2>3. QED
    BY <1>1, <2>1, <2>2, NoJobTyped DEF OtherTypes
<1>7. CASE poll
  <2>1. pending' = pending \/ pending' = Go(restore.waiters)
    BY <1>7 DEF poll
  <2>2. pending' \in [Uids -> {"new", "waiting", "go"}]
    BY <1>1, <2>1, PendingGo
  <2>3. QED
    BY <1>1, <1>7, <2>2 DEF poll, OtherTypes
<1>8. CASE PollStopped \/ HandleLater \/ HandleTwice \/ _allocate \/ rebuild_cache
           \/ CloseReturns \/ CloseGivesUp
  BY <1>1, <1>8 DEF PollStopped, HandleLater, HandleTwice, _allocate, rebuild_cache,
     CloseReturns, CloseGivesUp, OtherTypes
<1>9. CASE PollEnds
  <2>1. at' \in {"joining", "idle"}
    BY <1>9 DEF PollEnds
  <2>2. QED
    BY <1>1, <1>9, <2>1 DEF PollEnds, OtherTypes
<1>10. CASE HandleWrite
  <2>1. flags' \in Events
    BY <1>1, <1>10 DEF HandleWrite, release, Events
  <2>2. QED
    BY <1>1, <1>10, <2>1 DEF HandleWrite, OtherTypes
<1>11. CASE HandleRead
  <2>1. PICK t \in held : /\ restore.ticket = t
                          /\ pins' = [pins EXCEPT ![tickets[t].key] = pins[tickets[t].key] - 1]
    BY <1>11 DEF HandleRead
  <2>2. /\ restore.key \in Keys /\ tickets[t].key = restore.key
        /\ pins[restore.key] = 1 /\ restoring = 1
    BY <2>1, RestoreTicket
  <2>3. pins' \in [Keys -> Nat]
    BY <1>1, <2>1, <2>2
  <2>4. restoring' = restoring - 1 /\ pending' = Go(restore.waiters)
    BY <1>11 DEF HandleRead
  <2>5. restoring' \in {0, 1} /\ pending' \in [Uids -> {"new", "waiting", "go"}]
    BY <1>1, <2>2, <2>4, PendingGo
  <2>6. flags' \in Events
    BY <1>1, <1>11 DEF HandleRead, release, Events
  <2>7. QED
    BY <1>1, <1>11, <2>3, <2>5, <2>6 DEF HandleRead, OtherTypes
<1>12. CASE close
  <2>1. flags' \in Events
    BY <1>1, <1>12 DEF close, Events
  <2>2. pending' \in [Uids -> {"new", "waiting", "go"}]
    BY <1>1, <1>12, PendingGo DEF close
  <2>3. QED
    BY <1>1, <1>12, <2>1, <2>2 DEF close, OtherTypes
<1>13. CASE OpenStore \/ OpenFails \/ WorkerStops \/ WorkerDrains \/ WorkerWakes
  <2>1. flags' \in Events
    BY <1>1, <1>13 DEF OpenStore, OpenFails, WorkerStops, WorkerDrains, WorkerWakes, Events
  <2>2. index' \in SUBSET Keys
    BY <1>1, <1>13 DEF OpenStore, OpenFails, WorkerStops, WorkerDrains, WorkerWakes
  <2>3. worker' \in {"opening", "loop", "busy", "skip", "drain", "sleep", "gone"}
    BY <1>1, <1>13 DEF OpenStore, OpenFails, WorkerStops, WorkerDrains, WorkerWakes
  <2>4. UNCHANGED <<pins, at, job, restoring, pending>>
    BY <1>13 DEF OpenStore, OpenFails, WorkerStops, WorkerDrains, WorkerWakes
  <2>5. QED
    BY <1>1, <2>1, <2>2, <2>3, <2>4 DEF OtherTypes
<1>14. CASE WorkerTakes
  BY <1>1, <1>14 DEF WorkerTakes, OtherTypes
<1>15. CASE WorkerSkips \/ WorkerReads
  BY <1>1, <1>15 DEF WorkerSkips, WorkerReads, Finish, OtherTypes
<1>16. CASE WorkerWrites
  <2>1. index' \in SUBSET Keys
    BY <1>1, <1>16, RoomMade DEF Unpinned, RetentionInv
  <2>2. worker' = "loop" /\ UNCHANGED <<flags, pins, at, job, restoring, pending>>
    BY <1>16 DEF WorkerWrites, Finish
  <2>3. QED
    BY <1>1, <2>1, <2>2 DEF OtherTypes
<1>17. CASE WorkerFails
  <2>1. index' \in SUBSET Keys /\ flags' \in Events
    <3>1. index' \in SUBSET Keys
      BY <1>1, <1>17, RoomMade DEF Unpinned, RetentionInv
    <3>2. flags' \in Events
      <4>1. PICK f : flags' = [flags EXCEPT !.failure = flags.failure \/ f = "die",
                                           !.failed = flags.failed \/ f = "orphan"]
        BY <1>17 DEF WorkerFails
      <4>2. (flags.failure \/ f = "die") \in BOOLEAN /\ (flags.failed \/ f = "orphan") \in BOOLEAN
        OBVIOUS
      <4> DEFINE a == (flags.failure \/ f = "die")
                 b == (flags.failed \/ f = "orphan")
      <4> HIDE DEF a, b
      <4>3. flags' = [flags EXCEPT !.failure = a, !.failed = b]
        BY <4>1 DEF a, b
      <4>4. a \in BOOLEAN /\ b \in BOOLEAN
        BY <4>2 DEF a, b
      <4>5. QED
        BY <1>1, <4>3, <4>4 DEF Events
    <3>3. QED
      BY <1>1, <3>1, <3>2
  <2>2. worker' = "loop" /\ UNCHANGED <<pins, at, job, restoring, pending>>
    BY <1>17 DEF WorkerFails, Finish
  <2>3. QED
    BY <1>1, <2>1, <2>2 DEF OtherTypes
<1>18. CASE GpuDone \/ UNCHANGED vars
  BY <1>1, <1>18 DEF GpuDone, vars, OtherTypes
<1>19. CASE WorkerSkipFails
  <2>1. flags' \in Events
    BY <1>1, <1>19 DEF WorkerSkipFails, Events
  <2>2. QED
    BY <1>1, <1>19, <2>1 DEF WorkerSkipFails, Finish, OtherTypes
<1>20. QED
  BY <1>2, <1>3, <1>4, <1>5, <1>6, <1>7, <1>8, <1>9, <1>10, <1>11, <1>12, <1>13,
     <1>14, <1>15, <1>16, <1>17, <1>18, <1>19
     DEF Next, ActorStep, WorkerStep


-----------------------------------------------------------------------------
(* Submissions, the table of tickets and the pins.                         *)

LEMMA SubmittingStep == RetentionInv /\ [Next]_vars => Submitting'
<1> SUFFICES ASSUME RetentionInv, [Next]_vars PROVE Submitting'
  OBVIOUS
<1> USE DEF shared, memory, polling
<1>1. /\ Submitting /\ flags \in Events
      /\ NoJob.kind = "none" /\ NoJob.slot = 0
  BY DEF RetentionInv, OtherTypes, NoJob
<1>2. ASSUME at # "put", at' # "put", job' = job PROVE Submitting'
  BY <1>1, <1>2 DEF Submitting
<1>3. ASSUME UNCHANGED <<at, job, writes, restore>>, flags.ready => flags'.ready
      PROVE  Submitting'
  BY <1>1, <1>3 DEF Submitting
<1>4. ASSUME NEW k \in Keys, publish(k) PROVE Submitting'
  <2>1. at = "idle"
    BY <1>4 DEF publish, Running
  <2>2. CASE UNCHANGED <<at, job>>
    BY <1>2, <2>1, <2>2
  <2>3. CASE /\ at' = "put" /\ job' = [NoJob EXCEPT !.kind = "write", !.key = k]
             /\ writes[k] = NoTicket /\ flags.ready
    <3>1. job'.kind = "write" /\ job'.key = k /\ job'.slot = 0
      BY <2>3 DEF NoJob
    <3>2. writes' = writes /\ flags' = flags
      BY <1>4 DEF publish
    <3>3. QED
      BY <2>3, <3>1, <3>2 DEF Submitting
  <2>4. QED
    BY <1>4, <2>2, <2>3 DEF publish, MaySubmit
<1>5. ASSUME NEW u \in Uids, RestoreBegun(u) PROVE Submitting'
  <2>1. at = "idle" /\ restore = NoRestore /\ flags.ready
    BY <1>5, BegunIs
  <2>2. restore' = restore /\ flags' = flags
    BY <1>5 DEF RestoreBegun
  <2>3. PICK c : /\ GivesWay(Endpoints, c)
                 /\ \/ UNCHANGED <<at, job>>
                    \/ /\ \E s \in c.free, k \in Keys :
                            job' = [kind |-> "read", key |-> k, slot |-> s, uid |-> u]
                       /\ at' = "put"
    BY <1>5, BegunIs
  <2>4. CASE UNCHANGED <<at, job>>
    BY <1>2, <2>1, <2>4
  <2>5. CASE /\ \E s \in c.free, k \in Keys :
                   job' = [kind |-> "read", key |-> k, slot |-> s, uid |-> u]
             /\ at' = "put"
    <3>1. PICK s \in c.free, k \in Keys :
             job' = [kind |-> "read", key |-> k, slot |-> s, uid |-> u]
      BY <2>5
    <3>2. s \in Slots
      BY <2>3 DEF GivesWay, IsCache
    <3>3. job'.kind = "read" /\ job'.key \in Keys /\ job'.slot \in Slots /\ job'.uid \in Uids
      BY <2>5, <3>1, <3>2
    <3>4. QED
      BY <2>1, <2>2, <2>5, <3>3 DEF Submitting
  <2>6. QED
    BY <2>3, <2>4, <2>5
<1>6. CASE _submit \/ SubmitRefused
  <2>1. at' = "idle" /\ job' = NoJob
    BY <1>6 DEF _submit, SubmitRefused
  <2>2. QED
    BY <1>1, <2>1 DEF Submitting
<1>7. ASSUME NEW u \in Uids, RestoreSkipped(u) \/ RestoreJoined(u) \/ detach(u)
      PROVE  Submitting'
  <2>1. at = "idle" /\ at' = at /\ job' = job
    BY <1>7 DEF RestoreSkipped, RestoreJoined, Joinable, CanRestore, detach, Running
  <2>2. QED
    BY <1>2, <2>1
<1>8. CASE _allocate \/ rebuild_cache \/ close \/ CloseGivesUp \/ CloseReturns \/ poll
  BY <1>2, <1>8 DEF _allocate, rebuild_cache, Running, close, CloseGivesUp, CloseReturns, poll, MayPoll
<1>9. CASE PollStopped \/ HandleLater \/ HandleTwice \/ PollEnds \/ HandleWrite \/ HandleRead
  BY <1>2, <1>9
     DEF PollStopped, HandleLater, HandleTwice, PollEnds, HandleWrite, HandleRead, Handles
<1>10. CASE OpenStore \/ OpenFails \/ WorkerStops \/ WorkerDrains \/ WorkerWakes \/ WorkerTakes
  <2>1. UNCHANGED <<at, job, writes, restore>>
    BY <1>10 DEF OpenStore, OpenFails, WorkerStops, WorkerDrains, WorkerWakes, WorkerTakes
  <2>2. flags.ready => flags'.ready
    BY <1>1, <1>10
       DEF OpenStore, OpenFails, WorkerStops, WorkerDrains, WorkerWakes, WorkerTakes, Events
  <2>3. QED
    BY <1>3, <2>1, <2>2
<1>11. CASE WorkerSkips \/ WorkerSkipFails \/ WorkerWrites \/ WorkerReads \/ WorkerFails \/ GpuDone
  <2>1. UNCHANGED <<at, job, writes, restore>>
    BY <1>11 DEF WorkerSkips, WorkerSkipFails, WorkerWrites, WorkerReads, WorkerFails, GpuDone, Finish
  <2>2. flags.ready => flags'.ready
    BY <1>1, <1>11 DEF WorkerSkips, WorkerSkipFails, WorkerWrites, WorkerReads, WorkerFails, GpuDone, Events
  <2>3. QED
    BY <1>3, <2>1, <2>2
<1>12. CASE UNCHANGED vars
  BY <1>3, <1>12 DEF vars
<1>13. QED
  BY <1>4, <1>5, <1>6, <1>7, <1>8, <1>9, <1>10, <1>11, <1>12 DEF Next, ActorStep, WorkerStep

(* The actor alone changes the table; a ticket is in it from _submit to    *)
(* release.                                                                *)
LEMMA TabledStep == RetentionInv /\ [Next]_vars => Tabled'
<1> SUFFICES ASSUME RetentionInv, [Next]_vars PROVE Tabled'
  OBVIOUS
<1> USE DEF shared, memory, polling, NoTicket
<1>1. /\ Tabled /\ TicketTypes /\ Submitting /\ OtherTypes
      /\ tickets \in Seq(TicketRecord) /\ Len(tickets) \in Nat
      /\ held \in SUBSET (1 .. Len(tickets)) /\ writes \in [Keys -> 0 .. Len(tickets)]
      /\ restore.ticket \in 0 .. Len(tickets)
  BY RestoreFields DEF RetentionInv, TicketTypes
<1>2. CASE _submit
  <2> DEFINE n == Len(tickets) + 1
             x == Ticket(job.kind, job.key)
  <2>1. job.kind \in {"write", "read"} /\ job.key \in Keys
    BY <1>1, <1>2 DEF _submit, Submitting, OtherTypes, Submissions
  <2>2. x.kind = job.kind /\ x.key = job.key /\ x \in TicketRecord
    BY <2>1 DEF Ticket, TicketRecord
  <2>3. tickets' = Append(tickets, x) /\ held' = held \cup {n}
    BY <1>2 DEF _submit
  <2> HIDE DEF x
  <2>4. /\ tickets'[n].kind = job.kind /\ tickets'[n].key = job.key
        /\ \A t \in 1 .. Len(tickets) : tickets'[t] = tickets[t]
        /\ n \notin 1 .. Len(tickets) /\ n # 0
    BY <1>1, <2>2, <2>3
  <2> HIDE DEF n
  <2>5. CASE job.kind = "write"
    <3>1. writes' = [writes EXCEPT ![job.key] = n] /\ restore' = restore
      BY <1>2, <2>5 DEF _submit, n
    <3>2. writes[job.key] = 0
      BY <1>1, <2>5 DEF Submitting
    <3>3. ASSUME NEW t \in held'
          PROVE  /\ tickets'[t].kind = "write" => writes'[tickets'[t].key] = t
                 /\ tickets'[t].kind = "read" => restore'.ticket = t
      <4>1. CASE t = n
        BY <1>1, <2>1, <2>4, <2>5, <3>1, <4>1
      <4>2. CASE t # n
        <5>1. t \in held /\ t \in 1 .. Len(tickets) /\ tickets'[t] = tickets[t] /\ t # 0
          BY <1>1, <2>3, <2>4, <4>2
        <5>2. tickets[t].kind = "write" => tickets[t].key # job.key
          BY <1>1, <3>2, <5>1 DEF Tabled
        <5>3. QED
          BY <1>1, <3>1, <5>1, <5>2, RecordFields DEF Tabled
      <4>3. QED
        BY <4>1, <4>2
    <3>4. ASSUME NEW k \in Keys, writes'[k] # 0
          PROVE  writes'[k] \in held' /\ tickets'[writes'[k]].kind = "write"
                 /\ tickets'[writes'[k]].key = k
      <4>1. CASE k = job.key
        BY <1>1, <2>3, <2>4, <2>5, <3>1, <4>1
      <4>2. CASE k # job.key
        <5>1. writes'[k] = writes[k]
          BY <1>1, <3>1, <4>2
        <5>2. QED
          BY <1>1, <2>3, <2>4, <3>4, <5>1 DEF Tabled
      <4>3. QED
        BY <4>1, <4>2
    <3>5. /\ restore.ticket # 0 =>
                restore.ticket \in held' /\ tickets'[restore.ticket] = tickets[restore.ticket]
      BY <1>1, <2>3, <2>4 DEF Tabled
    <3>6. QED
      BY <1>1, <3>1, <3>3, <3>4, <3>5 DEF Tabled
  <2>6. CASE job.kind = "read"
    <3>1. /\ restore' = [ticket |-> n, key |-> job.key, slot |-> job.slot,
                         waiters |-> {job.uid}]
          /\ writes' = writes
      BY <1>2, <2>6 DEF _submit, n
    <3>2. restore.ticket = 0 /\ job.slot \in Slots
      BY <1>1, <2>6 DEF Submitting, NoRestore
    <3>3. ASSUME NEW t \in held'
          PROVE  /\ tickets'[t].kind = "write" => writes'[tickets'[t].key] = t
                 /\ tickets'[t].kind = "read" => restore'.ticket = t
      <4>1. CASE t = n
        BY <2>4, <2>6, <3>1, <4>1
      <4>2. CASE t # n
        BY <1>1, <2>3, <2>4, <3>1, <3>2, <4>2 DEF Tabled
      <4>3. QED
        BY <4>1, <4>2
    <3>4. ASSUME NEW k \in Keys, writes'[k] # 0
          PROVE  writes'[k] \in held' /\ tickets'[writes'[k]].kind = "write"
                 /\ tickets'[writes'[k]].key = k
      BY <1>1, <2>3, <2>4, <3>1, <3>4 DEF Tabled
    <3>5. /\ restore'.ticket \in held' /\ restore'.key \in Keys /\ restore'.slot \in Slots
          /\ tickets'[restore'.ticket].kind = "read"
          /\ tickets'[restore'.ticket].key = restore'.key
          /\ restore'.ticket # 0
      BY <2>1, <2>3, <2>4, <2>6, <3>1, <3>2
    <3>6. QED
      BY <3>3, <3>4, <3>5 DEF Tabled
  <2>7. QED
    BY <2>1, <2>5, <2>6
<1>3. CASE HandleWrite
  <2>1. PICK t \in held : /\ tickets[t].kind = "write" /\ tickets' = Spent(t)
                          /\ writes' = [writes EXCEPT ![tickets[t].key] = 0]
                          /\ held' = held \ {t} /\ restore' = restore
    BY <1>3 DEF HandleWrite, release
  <2>2. /\ t \in 1 .. Len(tickets) /\ t # 0 /\ tickets[t].key \in Keys
        /\ writes[tickets[t].key] = t
    BY <1>1, <2>1, RecordFields DEF Tabled
  <2>3. \A n \in held' : n # t /\ n \in held /\ n \in 1 .. Len(tickets) /\ tickets'[n] = tickets[n]
    BY <1>1, <2>1, <2>2, SpentIs
  <2>4. ASSUME NEW n \in held'
        PROVE  /\ tickets'[n].kind = "write" => writes'[tickets'[n].key] = n
               /\ tickets'[n].kind = "read" => restore'.ticket = n
    <3>1. tickets[n].kind = "write" => tickets[n].key # tickets[t].key
      BY <1>1, <2>2, <2>3 DEF Tabled
    <3>2. QED
      BY <1>1, <2>1, <2>3, <3>1, RecordFields DEF Tabled
  <2>5. ASSUME NEW k \in Keys, writes'[k] # 0
        PROVE  writes'[k] \in held' /\ tickets'[writes'[k]].kind = "write"
               /\ tickets'[writes'[k]].key = k
    <3>1. k # tickets[t].key /\ writes'[k] = writes[k]
      BY <1>1, <2>1, <2>5
    <3>2. writes[k] \in held /\ tickets[writes[k]].kind = "write" /\ tickets[writes[k]].key = k
      BY <1>1, <2>5, <3>1 DEF Tabled
    <3>3. QED
      BY <2>1, <2>3, <3>1, <3>2
  <2>6. restore.ticket # t
    BY <1>1, <2>1, <2>2 DEF Tabled
  <2>7. QED
    BY <1>1, <2>1, <2>3, <2>4, <2>5, <2>6 DEF Tabled
<1>4. CASE HandleRead
  <2>1. PICK t \in held : /\ tickets[t].kind = "read" /\ restore.ticket = t
                          /\ tickets' = Spent(t) /\ held' = held \ {t}
                          /\ restore' = NoRestore /\ writes' = writes
    BY <1>4 DEF HandleRead, release
  <2>2. t \in 1 .. Len(tickets)
    BY <1>1, <2>1
  <2>3. \A n \in held' : n # t /\ n \in held /\ tickets'[n] = tickets[n]
    BY <1>1, <2>1, <2>2, SpentIs
  <2>4. \A k \in Keys : writes[k] # t
    BY <1>1, <2>1, <2>2 DEF Tabled
  <2>5. restore'.ticket = 0
    BY <2>1 DEF NoRestore
  <2>6. QED
    BY <1>1, <2>1, <2>3, <2>4, <2>5 DEF Tabled
<1>5. ASSUME ~_submit, ~HandleRead, UNCHANGED <<held, writes>> PROVE Tabled'
  <2>1. Alike(tickets, tickets')
    BY <1>5, TicketsAlike
  <2>2. /\ restore'.ticket = restore.ticket
        /\ restore'.key = restore.key /\ restore'.slot = restore.slot
        /\ (restore' = NoRestore <=> restore = NoRestore)
    BY <1>5, RestoreStays
  <2>3. \A t \in 1 .. Len(tickets) : /\ tickets'[t].kind = tickets[t].kind
                                     /\ tickets'[t].key = tickets[t].key
    BY <2>1 DEF Alike
  <2>4. QED
    BY <1>1, <1>5, <2>2, <2>3 DEF Tabled
<1>6. _submit \/ HandleWrite \/ HandleRead \/ UNCHANGED <<held, writes>>
  <2>1. ASSUME NEW k \in Keys, publish(k) PROVE UNCHANGED <<held, writes>>
    BY <2>1 DEF publish
  <2>2. ASSUME NEW u \in Uids,
               RestoreSkipped(u) \/ RestoreJoined(u) \/ RestoreBegun(u) \/ detach(u)
        PROVE  UNCHANGED <<held, writes>>
    BY <2>2 DEF RestoreSkipped, RestoreJoined, RestoreBegun, detach
  <2>3. ASSUME \/ SubmitRefused \/ _allocate \/ rebuild_cache \/ CloseGivesUp \/ CloseReturns \/ close
               \/ poll \/ PollStopped \/ HandleLater \/ HandleTwice \/ PollEnds
        PROVE  UNCHANGED <<held, writes>>
    BY <2>3 DEF SubmitRefused, _allocate, rebuild_cache, CloseGivesUp, CloseReturns, close, poll,
       PollStopped, HandleLater, HandleTwice, PollEnds
  <2>4. ASSUME \/ OpenStore \/ OpenFails \/ WorkerStops \/ WorkerDrains \/ WorkerWakes
               \/ WorkerTakes \/ GpuDone \/ WorkerSkips \/ WorkerSkipFails \/ WorkerWrites \/ WorkerReads
               \/ WorkerFails \/ UNCHANGED vars
        PROVE  UNCHANGED <<held, writes>>
    BY <2>4 DEF OpenStore, OpenFails, WorkerStops, WorkerDrains, WorkerWakes, WorkerTakes,
       GpuDone, WorkerSkips, WorkerSkipFails, WorkerWrites, WorkerReads, WorkerFails, Finish, vars
  <2>5. QED
    BY <2>1, <2>2, <2>3, <2>4 DEF Next, ActorStep, WorkerStep
<1>7. QED
  BY <1>2, <1>3, <1>4, <1>5, <1>6


(* A read pins its record once, from _submit to release, and the index     *)
(* loses only what nobody has pinned.                                      *)
LEMMA PinnedStep == RetentionInv /\ [Next]_vars => Pinned'
<1> SUFFICES ASSUME RetentionInv, [Next]_vars PROVE Pinned'
  OBVIOUS
<1> USE DEF shared, memory, polling
<1>1. /\ Pinned /\ Tabled /\ TicketTypes /\ Submitting /\ OtherTypes /\ Serving
      /\ pins \in [Keys -> Nat] /\ index \in SUBSET Keys
  BY DEF RetentionInv, OtherTypes
<1>2. CASE _submit
  <2>1. job.kind \in {"write", "read"} /\ job.key \in Keys /\ index' = index
    BY <1>1, <1>2 DEF _submit, Submitting, OtherTypes, Submissions
  <2>2. CASE job.kind = "write"
    BY <1>1, <1>2, <2>1, <2>2 DEF _submit, Pinned
  <2>3. CASE job.kind = "read"
    <3>1. job.key \in index
      BY <1>2, <2>3 DEF _submit, Refused, pin
    <3>2. restore = NoRestore
      BY <1>1, <2>3 DEF Submitting
    <3>3. \A k \in Keys : pins[k] = 0
      BY <1>1, <3>2 DEF Pinned
    <3>4. pins' = [pins EXCEPT ![job.key] = pins[job.key] + 1]
      BY <1>2, <2>3 DEF _submit
    <3>5. \A k \in Keys : pins'[k] = IF k = job.key THEN 1 ELSE 0
      BY <1>1, <2>1, <3>3, <3>4
    <3>6. restore'.key = job.key /\ restore'.ticket # 0 /\ NoRestore.ticket = 0
      <4>1. restore'.ticket = Len(tickets) + 1 /\ Len(tickets) \in Nat
            /\ restore'.key = job.key
        BY <1>1, <1>2, <2>3 DEF _submit, TicketTypes
      <4>2. QED
        BY <4>1 DEF NoRestore, NoTicket
    <3>7. QED
      BY <2>1, <3>1, <3>5, <3>6 DEF Pinned
  <2>4. QED
    BY <2>1, <2>2, <2>3
<1>3. CASE HandleRead
  <2>1. PICK t \in held : /\ restore.ticket = t /\ restore' = NoRestore
                          /\ pins' = [pins EXCEPT ![tickets[t].key] = pins[tickets[t].key] - 1]
    BY <1>3 DEF HandleRead
  <2>2. /\ restore # NoRestore /\ restore.key \in Keys /\ tickets[t].key = restore.key
        /\ pins[restore.key] = 1
    BY <2>1, RestoreTicket
  <2>3. \A k \in Keys : pins[k] = IF k = restore.key THEN 1 ELSE 0
    BY <1>1, <2>2 DEF Pinned
  <2>4. \A k \in Keys : pins'[k] = 0
    BY <1>1, <2>1, <2>2, <2>3
  <2>5. QED
    BY <2>1, <2>4 DEF Pinned
<1>4. CASE OpenStore
  <2>1. restore = NoRestore
    BY <1>1, <1>4 DEF OpenStore, Serving, Tabled
  <2>2. restore' = restore /\ pins' = pins
    BY <1>4 DEF OpenStore
  <2>3. QED
    BY <1>1, <2>1, <2>2 DEF Pinned
<1>5. CASE WorkerWrites \/ WorkerFails
  <2>1. restore' = restore /\ pins' = pins
    BY <1>5 DEF WorkerWrites, WorkerFails, Finish
  <2>2. \A k \in index : pins[k] > 0 => k \in index'
    BY <1>1, <1>5, RoomMade DEF Unpinned
  <2>3. QED
    BY <1>1, <2>1, <2>2 DEF Pinned
<1>6. ASSUME ~_submit, ~HandleRead, UNCHANGED <<pins, index>> PROVE Pinned'
  <2>1. restore'.key = restore.key /\ (restore' = NoRestore <=> restore = NoRestore)
    BY <1>6, RestoreStays
  <2>2. QED
    BY <1>1, <1>6, <2>1 DEF Pinned
<1>7. \/ _submit \/ HandleRead \/ OpenStore \/ WorkerWrites \/ WorkerFails
      \/ UNCHANGED <<pins, index>>
  <2>1. ASSUME NEW k \in Keys, publish(k) PROVE UNCHANGED <<pins, index>>
    BY <2>1 DEF publish
  <2>2. ASSUME NEW u \in Uids,
               RestoreSkipped(u) \/ RestoreJoined(u) \/ RestoreBegun(u) \/ detach(u)
        PROVE  UNCHANGED <<pins, index>>
    BY <2>2 DEF RestoreSkipped, RestoreJoined, RestoreBegun, detach
  <2>3. ASSUME \/ SubmitRefused \/ _allocate \/ rebuild_cache \/ CloseGivesUp \/ CloseReturns \/ close
               \/ poll \/ PollStopped \/ HandleLater \/ HandleTwice \/ PollEnds \/ HandleWrite
        PROVE  UNCHANGED <<pins, index>>
    BY <2>3 DEF SubmitRefused, _allocate, rebuild_cache, CloseGivesUp, CloseReturns, close, poll,
       PollStopped, HandleLater, HandleTwice, PollEnds, HandleWrite
  <2>4. ASSUME \/ OpenFails \/ WorkerStops \/ WorkerDrains \/ WorkerWakes
               \/ WorkerTakes \/ GpuDone \/ WorkerSkips \/ WorkerSkipFails \/ WorkerReads
               \/ UNCHANGED vars
        PROVE  UNCHANGED <<pins, index>>
    BY <2>4 DEF OpenFails, WorkerStops, WorkerDrains, WorkerWakes, WorkerTakes,
       GpuDone, WorkerSkips, WorkerSkipFails, WorkerReads, Finish, vars
  <2>5. QED
    BY <2>1, <2>2, <2>3, <2>4 DEF Next, ActorStep, WorkerStep
<1>8. QED
  BY <1>2, <1>3, <1>4, <1>5, <1>6, <1>7


(* A request waits exactly while the restore lists it, and a restore that  *)
(* is cancelled lists nobody.                                              *)
LEMMA WaitersStep == RetentionInv /\ [Next]_vars => WaitersListed'
<1> SUFFICES ASSUME RetentionInv, [Next]_vars PROVE WaitersListed'
  OBVIOUS
<1> USE DEF shared, memory, polling
<1>1. /\ WaitersListed /\ Tabled /\ TicketTypes /\ Submitting /\ OtherTypes /\ Serving
      /\ tickets \in Seq(TicketRecord) /\ held \in SUBSET (1 .. Len(tickets))
      /\ Len(tickets) \in Nat /\ pending \in [Uids -> {"new", "waiting", "go"}]
      /\ restore.ticket \in 0 .. Len(tickets) /\ restore.waiters \in SUBSET Uids
  BY RestoreFields DEF RetentionInv, OtherTypes, TicketTypes
<1>2. restore.waiters # {} => restore.ticket \in 1 .. Len(tickets)
  BY <1>1 DEF Tabled, NoRestore, NoTicket
<1>3. ASSUME restore' = restore, pending' = pending,
             \A t \in 1 .. Len(tickets) : tickets'[t].cancelled = tickets[t].cancelled
      PROVE  WaitersListed'
  BY <1>1, <1>2, <1>3 DEF WaitersListed
<1>4. ASSUME restore'.waiters = {}, pending' = Go(restore.waiters) PROVE WaitersListed'
  BY <1>1, <1>4, PendingGo DEF WaitersListed
<1>5. ASSUME NEW u \in Uids, pending[u] = "new", Attempt(u, "go"),
             restore' = restore, tickets' = tickets
      PROVE  WaitersListed'
  BY <1>1, <1>5, PendingAttempt DEF WaitersListed
<1>6. ASSUME NEW u \in Uids, RestoreSkipped(u) PROVE WaitersListed'
  BY <1>5, <1>6 DEF RestoreSkipped
<1>7. ASSUME NEW u \in Uids, RestoreJoined(u) PROVE WaitersListed'
  <2>1. /\ ~tickets[restore.ticket].cancelled
        /\ restore' = [restore EXCEPT !.waiters = restore.waiters \cup {u}]
        /\ Attempt(u, "waiting") /\ tickets' = tickets
    BY <1>7 DEF RestoreJoined, Joinable
  <2>2. restore.waiters \cup {u} \in SUBSET Uids
    BY <1>1
  <2>3. restore'.waiters = restore.waiters \cup {u} /\ restore'.ticket = restore.ticket
    BY <1>1, <2>1, <2>2, RestoreFields
  <2>4. QED
    BY <1>1, <2>1, <2>3, PendingAttempt DEF WaitersListed
<1>8. ASSUME NEW u \in Uids, RestoreBegun(u) PROVE WaitersListed'
  <2>1. restore' = restore /\ tickets' = tickets
    BY <1>8 DEF RestoreBegun
  <2>2. pending[u] = "new" /\ (Attempt(u, "go") \/ pending' = pending)
    BY <1>8, BegunIs
  <2>3. QED
    BY <1>3, <1>5, <2>1, <2>2
<1>9. ASSUME NEW u \in Uids, detach(u) PROVE WaitersListed'
  <2> DEFINE W == restore.waiters \ {u}
  <2>1. /\ Attempt(u, "go") /\ restore' = [restore EXCEPT !.waiters = W]
        /\ W # {} => tickets' = tickets
    BY <1>9 DEF detach
  <2>2. restore'.waiters = W /\ restore'.ticket = restore.ticket /\ W \in SUBSET Uids
    BY <1>1, <2>1, RestoreFields
  <2>3. QED
    BY <1>1, <2>1, <2>2, PendingAttempt DEF WaitersListed
<1>10. CASE _submit
  <2> DEFINE n == Len(tickets) + 1
             x == Ticket(job.kind, job.key)
  <2>1. job.kind \in {"write", "read"} /\ job.key \in Keys
    BY <1>1, <1>10 DEF _submit, Submitting, OtherTypes, Submissions
  <2>2. x \in TicketRecord /\ ~x.cancelled
    BY <2>1 DEF Ticket, TicketRecord
  <2>3. tickets' = Append(tickets, x)
    BY <1>10 DEF _submit
  <2> HIDE DEF x
  <2>4. /\ ~tickets'[n].cancelled
        /\ \A t \in 1 .. Len(tickets) : tickets'[t].cancelled = tickets[t].cancelled
    BY <1>1, <2>2, <2>3
  <2>5. CASE job.kind = "write"
    BY <1>3, <1>10, <2>4, <2>5 DEF _submit
  <2>6. CASE job.kind = "read"
    <3>1. /\ restore'.ticket = n /\ restore'.waiters = {job.uid}
          /\ Attempt(job.uid, "waiting") /\ job.uid \in Uids
          /\ restore.waiters = {}
      BY <1>1, <1>10, <2>6 DEF _submit, Submitting, NoRestore
    <3> HIDE DEF n
    <3>2. QED
      BY <1>1, <2>4, <3>1, PendingAttempt DEF WaitersListed
  <2>7. QED
    BY <2>1, <2>5, <2>6
<1>11. CASE SubmitRefused
  <2>1. restore' = restore /\ tickets' = tickets
    BY <1>11 DEF SubmitRefused
  <2>2. pending' = pending \/ (Attempt(job.uid, "go") /\ job.kind = "read")
    BY <1>1, <1>11 DEF SubmitRefused, Submitting, OtherTypes, Submissions
  <2>3. ASSUME Attempt(job.uid, "go"), job.kind = "read"
        PROVE  WaitersListed'
    <3>1. job.uid \in Uids /\ restore.waiters = {}
      BY <1>1, <2>3 DEF Submitting, NoRestore
    <3>2. QED
      BY <1>1, <2>1, <2>3, <3>1, PendingAttempt DEF WaitersListed
  <2>4. QED
    BY <1>3, <2>1, <2>2, <2>3
<1>12. CASE poll
  <2>1. \/ pending' = Go(restore.waiters) /\ restore' = [restore EXCEPT !.waiters = {}]
        \/ /\ pending' = pending /\ restore' = restore
           /\ tickets' = Reported(tickets, ToSet(done))
    BY <1>12 DEF poll, Reported
  <2>2. \A t \in 1 .. Len(tickets) :
           Reported(tickets, ToSet(done))[t].cancelled = tickets[t].cancelled
    BY <1>1, ReportedIs
  <2>3. {} \in SUBSET Uids
    OBVIOUS
  <2>4. [restore EXCEPT !.waiters = {}].waiters = {}
    BY <1>1, <2>3, RestoreFields
  <2>5. QED
    BY <1>3, <1>4, <2>1, <2>2, <2>4
<1>13. CASE close
  <2>1. pending' = Go(restore.waiters) /\ restore' = [restore EXCEPT !.waiters = {}]
        /\ {} \in SUBSET Uids
    BY <1>13 DEF close
  <2>2. QED
    BY <1>1, <1>4, <2>1, RestoreFields
<1>14. CASE HandleRead
  <2>1. restore' = NoRestore /\ pending' = Go(restore.waiters)
    BY <1>14 DEF HandleRead
  <2>2. QED
    BY <1>4, <2>1 DEF NoRestore
<1>15. CASE HandleWrite
  <2>1. PICK t \in held : /\ tickets[t].kind = "write" /\ tickets' = Spent(t)
                          /\ restore' = restore /\ pending' = pending
    BY <1>15 DEF HandleWrite, release
  <2>2. restore.ticket # t
    BY <1>1, <2>1 DEF Tabled, NoTicket
  <2>3. t \in 1 .. Len(tickets)
    BY <1>1
  <2>4. \A n \in 1 .. Len(tickets) : n # t => tickets'[n] = tickets[n]
    BY <1>1, <2>1, <2>3, SpentIs
  <2>5. QED
    BY <1>1, <1>2, <2>1, <2>2, <2>4 DEF WaitersListed
<1>16. CASE PollStopped
  BY <1>1, <1>3, <1>16, StoppedIs DEF PollStopped
<1>17. CASE WorkerSkips \/ WorkerSkipFails \/ WorkerWrites \/ WorkerReads \/ WorkerFails
  <2>1. now \in 1 .. Len(tickets)
    BY <1>1, <1>17
       DEF WorkerSkips, WorkerSkipFails, WorkerWrites, WorkerReads, WorkerFails, Serving, TicketTypes, NoTicket
  <2>2. PICK o \in {"none", "benign", "odd"}, g \in BOOLEAN : Finish(o, g)
    BY <1>17, FinishesWith
  <2>3. \A t \in 1 .. Len(tickets) : tickets'[t].cancelled = tickets[t].cancelled
    BY <1>1, <2>1, <2>2, FinishIs
  <2>4. restore' = restore /\ pending' = pending
    BY <2>2 DEF Finish
  <2>5. QED
    BY <1>3, <2>3, <2>4
<1>18. CASE GpuDone
  BY <1>1, <1>3, <1>18, GpuDoneIs DEF GpuDone
<1>19. ASSUME NEW k \in Keys, publish(k) PROVE WaitersListed'
  BY <1>3, <1>19 DEF publish
<1>20. CASE _allocate \/ rebuild_cache \/ CloseGivesUp \/ CloseReturns \/ HandleLater \/ HandleTwice
            \/ PollEnds
  BY <1>3, <1>20 DEF _allocate, rebuild_cache, CloseGivesUp, CloseReturns, HandleLater, HandleTwice,
     PollEnds
<1>21. CASE OpenStore \/ OpenFails \/ WorkerTakes \/ WorkerStops \/ WorkerDrains \/ WorkerWakes
            \/ UNCHANGED vars
  BY <1>3, <1>21 DEF OpenStore, OpenFails, WorkerTakes, WorkerStops, WorkerDrains, WorkerWakes,
     vars
<1>22. QED
  BY <1>6, <1>7, <1>8, <1>9, <1>10, <1>11, <1>12, <1>13, <1>14, <1>15, <1>16, <1>17, <1>18,
     <1>19, <1>20, <1>21
     DEF Next, ActorStep, WorkerStep


-----------------------------------------------------------------------------
(* The worker, the events and the queue.                                   *)

LEMMA ServingStep == RetentionInv /\ [Next]_vars => Serving'
<1> SUFFICES ASSUME RetentionInv, [Next]_vars PROVE Serving'
  OBVIOUS
<1> USE DEF shared, memory, polling
<1>1. /\ Serving /\ TicketTypes /\ Submitting /\ OtherTypes
      /\ tickets \in Seq(TicketRecord) /\ held \in SUBSET (1 .. Len(tickets))
      /\ Len(tickets) \in Nat /\ now \in 0 .. Len(tickets)
      /\ jobs \in Seq(1 .. Len(tickets)) /\ Len(jobs) \in Nat
      /\ flags \in Events
      /\ worker \in {"opening", "loop", "busy", "skip", "drain", "sleep", "gone"}
  BY DEF RetentionInv, OtherTypes, TicketTypes
<1>2. ASSUME UNCHANGED <<worker, now, jobs, held>>,
             flags'.ready = flags.ready, flags'.stopped = flags.stopped,
             Len(tickets') = Len(tickets),
             \A t \in 1 .. Len(tickets) : tickets'[t].gpu => tickets[t].gpu,
             ~flags.stopped =>
                \A t \in 1 .. Len(tickets) : tickets'[t].finished = tickets[t].finished
      PROVE  Serving'
  <2>1. now # NoTicket => ~flags.stopped
    BY <1>1 DEF Serving
  <2>2. now # NoTicket => now \in 1 .. Len(tickets)
    BY <1>1 DEF NoTicket
  <2>3. \A i \in 1 .. Len(jobs) : jobs[i] \in 1 .. Len(tickets)
    BY <1>1
  <2>4. QED
    BY <1>1, <1>2, <2>1, <2>2, <2>3 DEF Serving
<1>3. ASSUME UNCHANGED <<worker, now, jobs, held, flags, tickets>> PROVE Serving'
  BY <1>2, <1>3
<1>4. CASE _submit
  <2> DEFINE n == Len(tickets) + 1
             x == Ticket(job.kind, job.key)
  <2>1. job.kind \in {"write", "read"} /\ job.key \in Keys /\ flags.ready /\ worker # "gone"
    BY <1>1, <1>4 DEF _submit, Submitting, OtherTypes, Submissions, Refused, ThreadAlive
  <2>2. x \in TicketRecord /\ ~x.finished /\ ~x.gpu
    BY <2>1 DEF Ticket, TicketRecord
  <2>3. /\ tickets' = Append(tickets, x) /\ held' = held \cup {n} /\ jobs' = Append(jobs, n)
        /\ UNCHANGED <<worker, now, flags>>
    BY <1>4 DEF _submit
  <2> HIDE DEF x
  <2>4. /\ tickets'[n] = x /\ Len(tickets') = n
        /\ \A t \in 1 .. Len(tickets) : tickets'[t] = tickets[t]
        /\ \A t \in 1 .. n : t = n \/ t \in 1 .. Len(tickets)
        /\ n \notin held /\ n # now /\ n # NoTicket
        /\ \A i \in 1 .. Len(jobs) : jobs[i] # n /\ jobs[i] \in 1 .. Len(tickets)
    BY <1>1, <2>2, <2>3 DEF NoTicket
  <2> DEFINE m == Len(jobs) + 1
  <2>5. /\ Len(jobs') = m /\ jobs'[m] = n
        /\ \A i \in 1 .. Len(jobs) : jobs'[i] = jobs[i]
        /\ \A i \in 1 .. m : i = m \/ i \in 1 .. Len(jobs)
    BY <1>1, <2>3
  <2> HIDE DEF m, n
  <2>6. ~flags.stopped =>
          /\ \A i \in 1 .. m : /\ jobs'[i] \in held' /\ jobs'[i] # now
                               /\ ~tickets'[jobs'[i]].finished
          /\ \A i, j \in 1 .. m : jobs'[i] = jobs'[j] => i = j
    BY <1>1, <2>2, <2>3, <2>4, <2>5 DEF Serving
  <2>7. now # NoTicket => now \in held' /\ ~tickets'[now].finished
    BY <1>1, <2>3, <2>4 DEF Serving
  <2>8. \A t \in 1 .. n : tickets'[t].gpu => t \in held'
    BY <1>1, <2>2, <2>3, <2>4 DEF Serving
  <2>9. QED
    BY <1>1, <2>1, <2>3, <2>4, <2>5, <2>6, <2>7, <2>8, SMTT(30) DEF Serving
<1>5. CASE HandleWrite \/ HandleRead
  <2>1. PICK t \in held : /\ transfer_complete(t) /\ tickets' = Spent(t) /\ held' = held \ {t}
                          /\ flags' = [flags EXCEPT !.released = TRUE]
                          /\ UNCHANGED <<worker, now, jobs>>
    BY <1>5 DEF HandleWrite, HandleRead, release
  <2>2. t \in 1 .. Len(tickets) /\ tickets[t].finished /\ ~tickets[t].gpu
    BY <1>1, <2>1 DEF transfer_complete
  <2>3. /\ Len(tickets') = Len(tickets) /\ ~tickets'[t].gpu
        /\ \A n \in 1 .. Len(tickets) : n # t => tickets'[n] = tickets[n]
    BY <1>1, <2>1, <2>2, SpentIs DEF Alike
  <2>4. flags'.ready = flags.ready /\ flags'.stopped = flags.stopped
    BY <1>1, <2>1 DEF Events
  <2>5. now # NoTicket => now \in held' /\ ~tickets'[now].finished
    BY <1>1, <2>1, <2>2, <2>3 DEF Serving
  <2>6. \A n \in 1 .. Len(tickets) : tickets'[n].gpu => n \in held'
    BY <1>1, <2>1, <2>2, <2>3 DEF Serving
  <2>7. ASSUME ~flags.stopped, NEW i \in 1 .. Len(jobs)
        PROVE  jobs[i] \in held' /\ jobs[i] # now /\ ~tickets'[jobs[i]].finished
    <3>1. jobs[i] \in held /\ jobs[i] # now /\ ~tickets[jobs[i]].finished
      BY <1>1, <2>7 DEF Serving
    <3>2. QED
      BY <1>1, <2>1, <2>2, <2>3, <3>1
  <2>8. QED
    BY <1>1, <2>1, <2>3, <2>4, <2>5, <2>6, <2>7 DEF Serving
<1>6. CASE OpenStore \/ OpenFails
  <2>1. /\ worker = "opening" /\ held = {} /\ now = NoTicket /\ ~flags.stopped
        /\ UNCHANGED <<tickets, held, jobs, now>>
    BY <1>1, <1>6 DEF OpenStore, OpenFails, Serving
  <2>2. /\ worker' \in {"loop", "gone"} /\ flags'.ready
        /\ flags'.stopped <=> worker' = "gone"
    BY <1>1, <1>6, <2>1 DEF OpenStore, OpenFails, Events
  <2>3. QED
    BY <1>1, <2>1, <2>2 DEF Serving
<1>7. CASE WorkerTakes
  <2>1. /\ worker = "loop" /\ jobs # <<>> /\ now' = Head(jobs) /\ jobs' = Tail(jobs)
        /\ worker' \in {"skip", "busy"} /\ UNCHANGED <<tickets, held, flags>>
    BY <1>7 DEF WorkerTakes
  <2>2. /\ flags.ready /\ ~flags.stopped
        /\ \A i \in 1 .. Len(jobs) : jobs[i] \in held /\ ~tickets[jobs[i]].finished
        /\ \A i, j \in 1 .. Len(jobs) : jobs[i] = jobs[j] => i = j
    BY <1>1, <2>1 DEF Serving
  <2>3. /\ 1 \in 1 .. Len(jobs) /\ now' = jobs[1] /\ now' # NoTicket
        /\ Len(jobs') = Len(jobs) - 1
        /\ \A i \in 1 .. Len(jobs) - 1 : /\ jobs'[i] = jobs[i + 1]
                                         /\ i + 1 \in 1 .. Len(jobs) /\ i + 1 # 1
    BY <1>1, <2>1 DEF NoTicket
  <2>4. \A i \in 1 .. Len(jobs') : /\ jobs'[i] \in held /\ jobs'[i] # now'
                                   /\ ~tickets[jobs'[i]].finished
    BY <2>2, <2>3
  <2>5. ASSUME NEW i \in 1 .. Len(jobs'), NEW j \in 1 .. Len(jobs'), jobs'[i] = jobs'[j]
        PROVE  i = j
    <3>1. i + 1 = j + 1
      BY <2>2, <2>3, <2>5
    <3>2. QED
      BY <3>1
  <2>6. now' \in held /\ ~tickets[now'].finished
    BY <2>2, <2>3
  <2>7. QED
    BY <1>1, <2>1, <2>2, <2>3, <2>4, <2>5, <2>6 DEF Serving
<1>8. CASE WorkerSkips \/ WorkerSkipFails \/ WorkerWrites \/ WorkerReads \/ WorkerFails
  <2>1. now \in 1 .. Len(tickets) /\ worker \in {"busy", "skip"} /\ now \in held
        /\ ~flags.stopped /\ flags.ready
    BY <1>1, <1>8
       DEF WorkerSkips, WorkerSkipFails, WorkerWrites, WorkerReads, WorkerFails, Serving, NoTicket
  <2>2. PICK o \in {"none", "benign", "odd"}, g \in BOOLEAN : Finish(o, g)
    BY <1>8, FinishesWith
  <2>3. /\ Len(tickets') = Len(tickets)
        /\ \A t \in 1 .. Len(tickets) : t # now => tickets'[t] = tickets[t]
    BY <1>1, <2>1, <2>2, FinishIs DEF Alike
  <2>4. worker' = "loop" /\ now' = NoTicket /\ UNCHANGED <<held, jobs>>
    BY <2>2 DEF Finish
  <2>5. flags'.ready = flags.ready /\ flags'.stopped = flags.stopped
    BY <1>1, <1>8 DEF WorkerSkips, WorkerSkipFails, WorkerWrites, WorkerReads, WorkerFails, Events
  <2>6. \A t \in 1 .. Len(tickets) : tickets'[t].gpu => t \in held
    BY <1>1, <2>1, <2>3 DEF Serving
  <2>7. \A i \in 1 .. Len(jobs) : /\ jobs[i] \in held /\ jobs[i] # NoTicket
                                  /\ ~tickets'[jobs[i]].finished
    BY <1>1, <2>1, <2>3 DEF Serving, NoTicket
  <2>8. \A i, j \in 1 .. Len(jobs) : jobs[i] = jobs[j] => i = j
    BY <1>1, <2>1 DEF Serving
  <2>9. QED
    BY <2>1, <2>3, <2>4, <2>5, <2>6, <2>7, <2>8 DEF Serving
<1>9. CASE WorkerStops \/ WorkerDrains \/ WorkerWakes
  <2>1. UNCHANGED <<tickets, held, jobs, now>> /\ flags'.ready = flags.ready
    BY <1>1, <1>9 DEF WorkerStops, WorkerDrains, WorkerWakes, Events
  <2>2. /\ worker \in {"loop", "drain", "sleep"} /\ worker' \in {"drain", "sleep", "gone"}
        /\ worker' = "gone" => held = {}
    BY <1>9 DEF WorkerStops, WorkerDrains, WorkerWakes
  <2>3. flags'.stopped
    BY <1>1, <1>9 DEF WorkerStops, WorkerDrains, WorkerWakes, Events, Serving
  <2>4. QED
    BY <1>1, <2>1, <2>2, <2>3 DEF Serving
<1>10. CASE PollStopped
  <2>1. UNCHANGED <<worker, now, jobs, held, flags>>
    BY <1>10 DEF PollStopped
  <2>2. QED
    BY <1>1, <1>2, <1>10, <2>1, StoppedIs DEF Alike
<1>11. CASE GpuDone
  <2>1. UNCHANGED <<worker, now, jobs, held, flags>>
    BY <1>11 DEF GpuDone
  <2>2. QED
    BY <1>1, <1>2, <1>11, <2>1, GpuDoneIs DEF Alike
<1>12. CASE poll
  <2>1. PICK ts : /\ ts = tickets \/ ts = Cancelled(tickets, restore.ticket)
                  /\ tickets' = Reported(ts, ToSet(done))
    BY <1>12, PolledIs
  <2>2. /\ ts \in Seq(TicketRecord) /\ Len(ts) = Len(tickets)
        /\ \A t \in 1 .. Len(tickets) : /\ ts[t].gpu = tickets[t].gpu
                                        /\ ts[t].finished = tickets[t].finished
    BY <1>1, <2>1, RestoreFields, CancelledIs DEF Alike
  <2>3. /\ Len(tickets') = Len(tickets)
        /\ \A t \in 1 .. Len(tickets) : /\ tickets'[t].gpu = tickets[t].gpu
                                        /\ tickets'[t].finished = tickets[t].finished
    BY <2>1, <2>2, ReportedIs DEF Alike
  <2>4. UNCHANGED <<worker, now, jobs, held, flags>>
    BY <1>12 DEF poll
  <2>5. QED
    BY <1>2, <2>3, <2>4
<1>13. /\ Len(Cancelled(tickets, restore.ticket)) = Len(tickets)
       /\ \A t \in 1 .. Len(tickets) :
             /\ Cancelled(tickets, restore.ticket)[t].gpu = tickets[t].gpu
             /\ Cancelled(tickets, restore.ticket)[t].finished = tickets[t].finished
  BY <1>1, RestoreFields, CancelledIs DEF Alike
<1>14. CASE close
  <2>1. /\ UNCHANGED <<worker, now, jobs, held>>
        /\ tickets' = Cancelled(tickets, restore.ticket)
    BY <1>14 DEF close
  <2>2. flags'.ready = flags.ready /\ flags'.stopped = flags.stopped
    BY <1>1, <1>14 DEF close, Events
  <2>3. QED
    BY <1>2, <1>13, <2>1, <2>2
<1>15. ASSUME NEW u \in Uids, detach(u) PROVE Serving'
  <2>1. /\ UNCHANGED <<worker, now, jobs, held, flags>>
        /\ tickets' = tickets \/ tickets' = Cancelled(tickets, restore.ticket)
    BY <1>15 DEF detach
  <2>2. QED
    BY <1>2, <1>13, <2>1
<1>16. ASSUME NEW k \in Keys, publish(k) PROVE Serving'
  BY <1>3, <1>16 DEF publish
<1>17. ASSUME NEW u \in Uids, RestoreSkipped(u) \/ RestoreJoined(u) \/ RestoreBegun(u)
       PROVE  Serving'
  BY <1>3, <1>17 DEF RestoreSkipped, RestoreJoined, RestoreBegun
<1>18. CASE SubmitRefused \/ _allocate \/ rebuild_cache \/ CloseGivesUp \/ CloseReturns \/ HandleLater
            \/ HandleTwice \/ PollEnds \/ UNCHANGED vars
  BY <1>3, <1>18 DEF SubmitRefused, _allocate, rebuild_cache, CloseGivesUp, CloseReturns, HandleLater,
     HandleTwice, PollEnds, vars
<1>19. QED
  BY <1>4, <1>5, <1>6, <1>7, <1>8, <1>9, <1>10, <1>11, <1>12, <1>14, <1>15, <1>16, <1>17,
     <1>18
     DEF Next, ActorStep, WorkerStep


-----------------------------------------------------------------------------
(* Endpoints, leases and slots.                                            *)

MemoryGood == Leases /\ Images /\ Len(entries) <= MaxRecords

(* Leases survive when only endpoints without readers give way or come.    *)
LEMMA LeasesSurvive ==
  ASSUME Leases, NEW es \in Seq(EntryRecord),
         \A i \in 1 .. Len(es) :
            \/ \E j \in 1 .. Len(entries) : es[i] = entries[j]
            \/ ~Known(entries, es[i].key) /\ es[i].readers = 0,
         \A j \in 1 .. Len(entries) : entries[j].readers # 0 =>
            \E i \in 1 .. Len(es) : es[i] = entries[j]
  PROVE  LeasesMatch(es)
<1>1. DOMAIN es = 1 .. Len(es) /\ DOMAIN entries = 1 .. Len(entries)
  BY DEF Leases, IsCache, Endpoints
<1>2. ASSUME NEW i \in 1 .. Len(es)
      PROVE  es[i].readers = IF Leased(es[i].key) THEN 1 ELSE 0
  <2>1. CASE \E j \in 1 .. Len(entries) : es[i] = entries[j]
    BY <2>1 DEF Leases, LeasesMatch
  <2>2. CASE ~Known(entries, es[i].key) /\ es[i].readers = 0
    <3>1. es[i].key \in Keys
      <4>1. es[i] \in EntryRecord
        OBVIOUS
      <4>2. QED
        BY <4>1 DEF EntryRecord
    <3>2. ~Leased(es[i].key)
      BY <2>2, <3>1 DEF Leases, LeasesMatch
    <3>3. QED
      BY <2>2, <3>2
  <2>3. QED
    BY <2>1, <2>2
<1>3. ASSUME NEW k \in Keys, Leased(k) PROVE Known(es, k)
  <2>1. PICK j \in 1 .. Len(entries) : entries[j].key = k
    BY <1>1, <1>3 DEF Leases, LeasesMatch, Known
  <2>2. entries[j].readers # 0
    BY <1>3, <2>1 DEF Leases, LeasesMatch
  <2>3. PICK i \in 1 .. Len(es) : es[i] = entries[j]
    BY <2>2
  <2>4. QED
    BY <1>1, <2>1, <2>3 DEF Known
<1>4. QED
  BY <1>2, <1>3 DEF LeasesMatch

LEMMA LeasesGiveWay ==
  ASSUME Leases, NEW c, GivesWay(Endpoints, c)
  PROVE  LeasesMatch(c.entries)
<1>1. c.entries \in Seq(EntryRecord)
  BY DEF GivesWay, IsCache
<1>2. QED
  BY <1>1, LeasesSurvive DEF GivesWay, Endpoints

(* The slots of endpoints that give way become free.                       *)
LEMMA SlotsGiveWay ==
  ASSUME Images, NEW c, GivesWay(Endpoints, c)
  PROVE  /\ c.free \cup Owned(c.entries) = free \cup Owned(entries)
         /\ c.free \cup Owned(c.entries) \cup Private = Slots
         /\ Private \cap (c.free \cup Owned(c.entries)) = {}
  BY DEF Images, GivesWay, Endpoints

LEMMA PublishMemory ==
  ASSUME RetentionInv, NEW k \in Keys, publish(k)
  PROVE  MemoryGood'
<1>1. /\ Leases /\ Images /\ Submitting /\ IsCache(Endpoints) /\ Len(entries) <= MaxRecords
      /\ at = "idle" /\ job = NoJob
  BY DEF RetentionInv, Leases, Limits, Submitting, publish, Running
<1>2. PICK busy, tail, c :
               /\ c = published(k, busy, tail)
               /\ \/ /\ entries' = Readers(c.entries, k, 1) /\ writes[k] = NoTicket
                     /\ Known(c.entries, k)
                     /\ job' = [NoJob EXCEPT !.kind = "write", !.key = k]
                  \/ entries' = c.entries /\ job' = job
               /\ free' = c.free /\ UNCHANGED <<writes, restore, restoring>>
  BY DEF publish
<1>3. Publishes(Endpoints, c, k)
  BY <1>1, <1>2, PublishGives
<1>4. /\ c.entries \in Seq(EntryRecord) /\ Apart(c.entries) /\ IsCache(c)
      /\ Len(c.entries) <= MaxRecords
      /\ c.free \cup Owned(c.entries) = free \cup Owned(entries)
      /\ \A i \in 1 .. Len(c.entries) : c.entries[i].slot \notin c.free
      /\ c.free \in SUBSET Slots
  BY <1>3 DEF Publishes, IsCache, Endpoints
<1>5. LeasesMatch(c.entries)
  BY <1>1, <1>3, <1>4, LeasesSurvive DEF Publishes, Endpoints
<1>6. Images' /\ (Leased(k)' => Known(c.entries, k) \/ job' = job)
  <2>1. job'.slot = job.slot /\ job.kind # "read" /\ job'.kind # "read"
    <3>1. /\ NoJob.slot = 0 /\ NoJob.kind = "none"
          /\ [NoJob EXCEPT !.kind = "write", !.key = k].slot = 0
          /\ [NoJob EXCEPT !.kind = "write", !.key = k].kind = "write"
      BY DEF NoJob
    <3>2. QED
      BY <1>1, <1>2, <3>1
  <2>2. Private' = Private
    BY <1>2, <2>1 DEF Private
  <2>3. Owned(entries') = Owned(c.entries)
    <3>1. DOMAIN c.entries = 1 .. Len(c.entries)
      BY <1>4
    <3>2. CASE entries' = Readers(c.entries, k, 1)
      <4>1. DOMAIN entries' = DOMAIN c.entries
            /\ \A i \in DOMAIN c.entries : entries'[i].slot = c.entries[i].slot
        <5>1. ASSUME NEW i \in DOMAIN c.entries
              PROVE  Readers(c.entries, k, 1)[i].slot = c.entries[i].slot
          BY <1>4, <3>1 DEF Readers, EntryRecord
        <5>2. QED
          BY <3>2, <5>1 DEF Readers
      <4>2. QED
        BY <4>1 DEF Owned
    <3>3. QED
      BY <1>2, <3>2
  <2>4. QED
    BY <1>1, <1>2, <1>4, <2>1, <2>2, <2>3 DEF Images
<1>7. CASE entries' = c.entries /\ job' = job
  <2>1. Endpoints' = [entries |-> c.entries, free |-> c.free]
    BY <1>2, <1>7 DEF Endpoints
  <2>2. IsCache(Endpoints)'
    BY <1>4, <2>1 DEF IsCache
  <2>3. LeasesMatch(entries)'
    BY <1>2, <1>5, <1>7 DEF LeasesMatch, Leased
  <2>4. QED
    BY <1>4, <1>6, <1>7, <2>2, <2>3 DEF MemoryGood, Leases
<1>8. CASE /\ entries' = Readers(c.entries, k, 1) /\ writes[k] = NoTicket
           /\ Known(c.entries, k)
           /\ job' = [NoJob EXCEPT !.kind = "write", !.key = k]
  <2>1. ~Leased(k)
    BY <1>1, <1>8 DEF Leased, NoJob
  <2>2. \A i \in 1 .. Len(c.entries) : c.entries[i].key = k => c.entries[i].readers + 1 \in {0, 1}
    BY <1>5, <2>1 DEF LeasesMatch
  <2> DEFINE r == Readers(c.entries, k, 1)
  <2>3. /\ r \in Seq(EntryRecord) /\ Len(r) = Len(c.entries) /\ Apart(r)
        /\ \A i \in 1 .. Len(c.entries) :
              /\ r[i].key = c.entries[i].key /\ r[i].slot = c.entries[i].slot
              /\ r[i].readers = IF c.entries[i].key = k THEN c.entries[i].readers + 1
                                                        ELSE c.entries[i].readers
    BY <1>4, <2>2, ReadersChange
  <2> HIDE DEF r
  <2>4. entries' = r /\ free' = c.free
    BY <1>2, <1>8 DEF r
  <2>5. IsCache(Endpoints)'
    BY <1>4, <2>3, <2>4 DEF IsCache, Endpoints
  <2>6. \A j \in Keys : Leased(j)' <=> j = k \/ Leased(j)
    BY <1>1, <1>2, <1>8 DEF Leased, NoJob
  <2>7. ASSUME NEW i \in 1 .. Len(r)
        PROVE  r[i].readers = IF Leased(r[i].key)' THEN 1 ELSE 0
    <3>1. c.entries[i].key \in Keys
      <4>1. c.entries[i] \in EntryRecord
        BY <1>4, <2>3
      <4>2. QED
        BY <4>1 DEF EntryRecord
    <3>2. c.entries[i].readers = IF Leased(c.entries[i].key) THEN 1 ELSE 0
      BY <1>5, <2>3 DEF LeasesMatch
    <3>3. QED
      BY <2>1, <2>3, <2>6, <3>1, <3>2
  <2>8. ASSUME NEW j \in Keys, Leased(j)' PROVE Known(r, j)
    <3>1. Known(c.entries, j)
      BY <1>5, <1>8, <2>6, <2>8 DEF LeasesMatch
    <3>2. DOMAIN r = 1 .. Len(r) /\ DOMAIN c.entries = 1 .. Len(c.entries)
      BY <1>4, <2>3
    <3>3. QED
      BY <2>3, <3>1, <3>2 DEF Known
  <2>9. LeasesMatch(entries)'
    BY <2>4, <2>7, <2>8 DEF LeasesMatch
  <2>10. QED
    BY <1>4, <1>6, <2>3, <2>4, <2>5, <2>9 DEF MemoryGood, Leases
<1>9. QED
  BY <1>2, <1>7, <1>8


LEMMA AllocateMemory ==
  ASSUME RetentionInv, _allocate
  PROVE  MemoryGood'
<1>1. /\ Leases /\ Images /\ Len(entries) <= MaxRecords
      /\ Len(entries) \in Nat /\ MaxRecords \in Nat
  BY RetentionConstants DEF RetentionInv, Limits, Leases, IsCache, Endpoints
<1>2. PICK busy, c : /\ c = evict_one(Endpoints, busy)
                     /\ entries' = c.entries /\ free' = c.free
                     /\ UNCHANGED <<writes, restore, restoring, job>>
  BY DEF _allocate
<1>3. GivesWay(Endpoints, c)
  BY <1>1, <1>2, EvictOneGives DEF Leases
<1>4. /\ IsCache(c) /\ LeasesMatch(c.entries) /\ Len(c.entries) <= MaxRecords
  <2>1. Len(c.entries) <= Len(entries) /\ IsCache(c) /\ Len(c.entries) \in Nat
    BY <1>3 DEF GivesWay, IsCache, Endpoints
  <2>2. QED
    BY <1>1, <1>3, <2>1, LeasesGiveWay
<1>5. /\ c.free \cup Owned(c.entries) \cup Private = Slots
      /\ Private \cap (c.free \cup Owned(c.entries)) = {}
  BY <1>1, <1>3, SlotsGiveWay
<1>6. IsCache(Endpoints)'
  BY <1>2, <1>4 DEF IsCache, Endpoints
<1>7. LeasesMatch(entries)'
  BY <1>2, <1>4 DEF LeasesMatch, Leased
<1>8. Images'
  BY <1>1, <1>2, <1>5 DEF Images, Private
<1>9. QED
  BY <1>2, <1>4, <1>6, <1>7, <1>8 DEF MemoryGood, Leases

LEMMA BegunMemory ==
  ASSUME RetentionInv, NEW u \in Uids, RestoreBegun(u)
  PROVE  MemoryGood'
<1>1. /\ Leases /\ Images /\ Submitting /\ Len(entries) <= MaxRecords
      /\ Len(entries) \in Nat /\ MaxRecords \in Nat
  BY RetentionConstants DEF RetentionInv, Limits, Leases, IsCache, Endpoints
<1>2. at = "idle" /\ restore = NoRestore
  BY BegunIs
<1>3. PICK c : /\ GivesWay(Endpoints, c) /\ entries' = c.entries
               /\ \/ free' = c.free /\ UNCHANGED <<job, restoring>>
                  \/ /\ \E s \in c.free, k \in Keys :
                           /\ free' = c.free \ {s}
                           /\ job' = [kind |-> "read", key |-> k, slot |-> s, uid |-> u]
                     /\ restoring' = restoring + 1
  BY BegunIs
<1>4. UNCHANGED <<writes, restore>>
  BY DEF RestoreBegun
<1>5. /\ IsCache(c) /\ c.free \in SUBSET Slots /\ LeasesMatch(c.entries)
      /\ Len(c.entries) <= MaxRecords /\ DOMAIN c.entries = 1 .. Len(c.entries)
      /\ \A i \in 1 .. Len(c.entries) : c.entries[i].slot \notin c.free
  <2>1. Len(c.entries) <= Len(entries) /\ IsCache(c) /\ Len(c.entries) \in Nat
    BY <1>3 DEF GivesWay, IsCache, Endpoints
  <2>2. QED
    BY <1>1, <1>3, <2>1, LeasesGiveWay DEF IsCache
<1>6. /\ c.free \cup Owned(c.entries) \cup Private = Slots
      /\ Private \cap (c.free \cup Owned(c.entries)) = {}
  BY <1>1, <1>3, SlotsGiveWay
<1>7. job = NoJob /\ job.kind = "none" /\ job.slot = 0 /\ restore.slot = 0
  BY <1>1, <1>2 DEF Submitting, NoJob, NoRestore
<1>8. CASE free' = c.free /\ UNCHANGED <<job, restoring>>
  <2>1. IsCache(Endpoints)'
    BY <1>3, <1>5, <1>8 DEF IsCache, Endpoints
  <2>2. LeasesMatch(entries)'
    BY <1>3, <1>4, <1>5, <1>8 DEF LeasesMatch, Leased
  <2>3. Images'
    BY <1>1, <1>3, <1>4, <1>6, <1>8 DEF Images, Private
  <2>4. QED
    BY <1>3, <1>5, <2>1, <2>2, <2>3 DEF MemoryGood, Leases
<1>9. CASE /\ \E s \in c.free, k \in Keys :
                 /\ free' = c.free \ {s}
                 /\ job' = [kind |-> "read", key |-> k, slot |-> s, uid |-> u]
           /\ restoring' = restoring + 1
  <2>1. PICK s \in c.free : free' = c.free \ {s} /\ job'.kind = "read" /\ job'.slot = s
    BY <1>9
  <2>2. s # 0 /\ s \notin Owned(c.entries)
    BY <1>5, RetentionConstants DEF Owned
  <2>3. Private = {} /\ Private' = {s}
    BY <1>4, <1>7, <2>1, <2>2 DEF Private
  <2>4. IsCache(Endpoints)'
    BY <1>3, <1>5, <2>1 DEF IsCache, Endpoints
  <2>5. LeasesMatch(entries)'
    BY <1>3, <1>4, <1>5, <1>7, <2>1 DEF LeasesMatch, Leased
  <2>6. Images'
    <3>1. restoring = 0
      BY <1>1, <1>2, <1>7 DEF Images
    <3>2. QED
      BY <1>3, <1>6, <1>9, <2>1, <2>2, <2>3, <3>1 DEF Images
  <2>7. QED
    BY <1>3, <1>5, <2>4, <2>5, <2>6 DEF MemoryGood, Leases
<1>10. QED
  BY <1>3, <1>8, <1>9

LEMMA SubmitMemory ==
  ASSUME RetentionInv, _submit
  PROVE  MemoryGood'
<1>1. /\ Leases /\ Images /\ Submitting /\ Len(entries) <= MaxRecords
      /\ writes \in [Keys -> 0 .. Len(tickets)] /\ Len(tickets) \in Nat
      /\ job.kind \in {"write", "read"} /\ job.key \in Keys
  BY DEF RetentionInv, Limits, TicketTypes, _submit, Submitting, OtherTypes, Submissions
<1>2. /\ UNCHANGED <<entries, free, restoring>> /\ job' = NoJob
      /\ job'.kind = "none" /\ job'.slot = 0
  BY DEF _submit, NoJob
<1>3. IsCache(Endpoints)'
  BY <1>1, <1>2 DEF Leases, Endpoints
<1>4. \A k \in Keys : Leased(k)' <=> Leased(k)
  <2>1. CASE job.kind = "write"
    <3>1. /\ writes' = [writes EXCEPT ![job.key] = Len(tickets) + 1]
          /\ Len(tickets) + 1 # NoTicket
      BY <1>1, <2>1 DEF _submit, NoTicket
    <3>2. QED
      BY <1>1, <1>2, <2>1, <3>1 DEF Leased
  <2>2. CASE job.kind = "read"
    BY <1>2, <2>2 DEF _submit, Leased
  <2>3. QED
    BY <1>1, <2>1, <2>2
<1>5. LeasesMatch(entries)'
  <2>1. \A i \in 1 .. Len(entries) : entries[i].key \in Keys
    <3>1. \A i \in 1 .. Len(entries) : entries[i] \in EntryRecord
      BY <1>1 DEF Leases, IsCache, Endpoints
    <3>2. QED
      BY <3>1 DEF EntryRecord
  <2>2. QED
    BY <1>1, <1>2, <1>4, <2>1 DEF Leases, LeasesMatch
<1>6. Images'
  <2>1. CASE job.kind = "write"
    <3>1. restore' = restore /\ job.slot = 0
      BY <1>1, <2>1 DEF _submit, Submitting
    <3>2. QED
      BY <1>1, <1>2, <2>1, <3>1 DEF Images, Private
  <2>2. CASE job.kind = "read"
    <3>1. /\ restore'.slot = job.slot /\ restore'.ticket = Len(tickets) + 1
          /\ restore.slot = 0 /\ NoRestore.ticket = 0
      BY <1>1, <2>2 DEF _submit, Submitting, NoRestore, NoTicket
    <3>2. restore' # NoRestore
      BY <1>1, <3>1
    <3>3. Private' = Private
      BY <1>2, <3>1 DEF Private
    <3>4. QED
      BY <1>1, <1>2, <2>2, <3>2, <3>3 DEF Images
  <2>3. QED
    BY <1>1, <2>1, <2>2
<1>7. QED
  BY <1>1, <1>2, <1>3, <1>5, <1>6 DEF MemoryGood, Leases


(* The lease of a write ends.                                              *)
LEMMA LeaseEnds ==
  ASSUME Leases, NEW k \in Keys, Leased(k), entries' = Readers(entries, k, -1),
         free' = free, \A j \in Keys : Leased(j)' <=> j # k /\ Leased(j)
  PROVE  Leases' /\ Owned(entries') = Owned(entries) /\ Len(entries') = Len(entries)
<1>0. PICK r : r = Readers(entries, k, -1)
  OBVIOUS
<1>1. /\ entries \in Seq(EntryRecord) /\ Apart(entries)
      /\ \A i \in 1 .. Len(entries) : entries[i].slot \notin free
      /\ free \in SUBSET Slots /\ IsCache(Endpoints)
  BY DEF Leases, IsCache, Endpoints
<1>2. \A i \in 1 .. Len(entries) : entries[i].key = k => entries[i].readers + (-1) \in {0, 1}
  BY DEF Leases, LeasesMatch
<1>3. /\ r \in Seq(EntryRecord) /\ Len(r) = Len(entries) /\ Apart(r)
      /\ Owned(r) = Owned(entries)
      /\ \A i \in 1 .. Len(entries) :
            /\ r[i].key = entries[i].key /\ r[i].slot = entries[i].slot
            /\ r[i].readers = IF entries[i].key = k THEN entries[i].readers + (-1)
                                                    ELSE entries[i].readers
  BY <1>0, <1>1, <1>2, ReadersChange
<1>4. entries' = r /\ free' = free
  BY <1>0
<1>5. IsCache(Endpoints)'
  BY <1>1, <1>3, <1>4 DEF IsCache, Endpoints
<1>6. ASSUME NEW i \in 1 .. Len(r)
      PROVE  r[i].readers = IF Leased(r[i].key)' THEN 1 ELSE 0
  <2>1. entries[i] \in EntryRecord
    BY <1>1, <1>3
  <2>2. entries[i].key \in Keys
    BY <2>1 DEF EntryRecord
  <2>3. entries[i].readers = IF Leased(entries[i].key) THEN 1 ELSE 0
    BY <1>3 DEF Leases, LeasesMatch
  <2>4. QED
    BY <1>3, <2>2, <2>3
<1>7. ASSUME NEW j \in Keys, Leased(j)' PROVE Known(r, j)
  <2>1. Known(entries, j)
    BY <1>7 DEF Leases, LeasesMatch
  <2>2. DOMAIN r = 1 .. Len(r) /\ DOMAIN entries = 1 .. Len(entries)
    BY <1>1, <1>3
  <2>3. QED
    BY <1>3, <2>1, <2>2 DEF Known
<1>8. LeasesMatch(entries)'
  BY <1>4, <1>6, <1>7 DEF LeasesMatch
<1>9. QED
  BY <1>3, <1>4, <1>5, <1>8 DEF Leases

(* A private slot becomes free.                                            *)
LEMMA SlotBack ==
  ASSUME Leases, entries' = entries, NEW s \in Slots, s \notin Owned(entries),
         free' = free \cup {s}, \A j \in Keys : Leased(j)' <=> Leased(j)
  PROVE  Leases'
<1>1. /\ entries \in Seq(EntryRecord) /\ Apart(entries)
      /\ \A i \in 1 .. Len(entries) : entries[i].slot \notin free
      /\ free \in SUBSET Slots /\ DOMAIN entries = 1 .. Len(entries)
  BY DEF Leases, IsCache, Endpoints
<1>2. IsCache(Endpoints)'
  BY <1>1 DEF IsCache, Endpoints, Owned
<1>3. \A i \in 1 .. Len(entries) : entries[i].key \in Keys
  <2>1. \A i \in 1 .. Len(entries) : entries[i] \in EntryRecord
    BY <1>1
  <2>2. QED
    BY <2>1 DEF EntryRecord
<1>4. QED
  BY <1>2, <1>3 DEF Leases, LeasesMatch

LEMMA RefusedMemory ==
  ASSUME RetentionInv, SubmitRefused
  PROVE  MemoryGood'
<1>1. /\ Leases /\ Images /\ Submitting /\ Len(entries) <= MaxRecords
      /\ job.kind \in {"write", "read"} /\ job.key \in Keys
  BY DEF RetentionInv, Limits, SubmitRefused, Submitting, OtherTypes, Submissions
<1>2. /\ job' = NoJob /\ job'.kind = "none" /\ job'.slot = 0
      /\ UNCHANGED <<writes, restore>>
  BY DEF SubmitRefused, NoJob
<1>3. CASE job.kind = "write"
  <2>1. /\ entries' = Readers(entries, job.key, -1) /\ UNCHANGED <<free, restoring>>
        /\ writes[job.key] = NoTicket /\ job.slot = 0
    BY <1>1, <1>3 DEF SubmitRefused, Submitting
  <2>2. Leased(job.key) /\ \A j \in Keys : Leased(j)' <=> j # job.key /\ Leased(j)
    BY <1>2, <1>3, <2>1 DEF Leased
  <2>3. Leases' /\ Owned(entries') = Owned(entries) /\ Len(entries') = Len(entries)
    BY <1>1, <2>1, <2>2, LeaseEnds
  <2>4. Images'
    BY <1>1, <1>2, <1>3, <2>1, <2>3 DEF Images, Private
  <2>5. QED
    BY <1>1, <2>3, <2>4 DEF MemoryGood
<1>4. CASE job.kind = "read"
  <2>1. /\ free' = free \cup {job.slot} /\ restoring' = restoring - 1 /\ entries' = entries
        /\ restore = NoRestore /\ job.slot \in Slots /\ restore.slot = 0
    BY <1>1, <1>4 DEF SubmitRefused, Submitting, NoRestore
  <2>2. Private = {job.slot} /\ Private' = {}
    BY <1>2, <2>1, RetentionConstants DEF Private
  <2>3. job.slot \notin Owned(entries)
    BY <1>1, <2>2 DEF Images
  <2>4. \A j \in Keys : Leased(j)' <=> Leased(j)
    BY <1>2, <1>4 DEF Leased
  <2>5. Leases'
    BY <1>1, <2>1, <2>3, <2>4, SlotBack
  <2>6. Images'
    <3>1. restoring = 1
      BY <1>1, <1>4 DEF Images
    <3>2. QED
      BY <1>1, <1>2, <2>1, <2>2, <3>1 DEF Images
  <2>7. QED
    BY <1>1, <2>1, <2>5, <2>6 DEF MemoryGood
<1>5. QED
  BY <1>1, <1>3, <1>4

(* With no ticket out nothing is leased and nothing private.               *)
LEMMA NothingOut ==
  ASSUME RetentionInv, held = {}, at # "put"
  PROVE  /\ restore = NoRestore /\ job = NoJob /\ restoring = 0 /\ Private = {}
         /\ \A k \in Keys : writes[k] = NoTicket /\ ~Leased(k)
         /\ \A i \in 1 .. Len(entries) : entries[i].readers = 0
<1>1. restore = NoRestore /\ \A k \in Keys : writes[k] = NoTicket
  BY DEF RetentionInv, Tabled
<1>2. job = NoJob
  BY DEF RetentionInv, Submitting
<1>3. restoring = 0 /\ Private = {}
  BY <1>1, <1>2 DEF RetentionInv, Images, Private, NoRestore, NoJob
<1>4. \A k \in Keys : ~Leased(k)
  BY <1>1, <1>2 DEF Leased, NoJob
<1>5. ASSUME NEW i \in 1 .. Len(entries) PROVE entries[i].readers = 0
  <2>1. entries \in Seq(EntryRecord)
    BY DEF RetentionInv, Leases, IsCache, Endpoints
  <2>2. entries[i] \in EntryRecord
    BY <2>1
  <2>3. entries[i].key \in Keys
    BY <2>2 DEF EntryRecord
  <2>4. QED
    BY <1>4, <2>3 DEF RetentionInv, Leases, LeasesMatch
<1>6. QED
  BY <1>1, <1>2, <1>3, <1>4, <1>5

LEMMA RebuildMemory ==
  ASSUME RetentionInv, rebuild_cache
  PROVE  MemoryGood'
<1>1. held = {} /\ at # "put" /\ entries' = <<>> /\ free' = Slots
      /\ UNCHANGED <<writes, job, restore, restoring>>
  BY DEF rebuild_cache, Running
<1>2. /\ restore = NoRestore /\ job = NoJob /\ restoring = 0 /\ Private = {}
      /\ \A k \in Keys : ~Leased(k)
  BY <1>1, NothingOut
<1>3. /\ entries' \in Seq(EntryRecord) /\ Len(entries') = 0 /\ Owned(entries') = {}
      /\ Apart(entries')
  BY <1>1 DEF Owned, Apart
<1>4. IsCache(Endpoints)'
  BY <1>1, <1>3 DEF IsCache, Endpoints
<1>5. LeasesMatch(entries)'
  BY <1>1, <1>2, <1>3 DEF LeasesMatch, Leased
<1>6. Images'
  BY <1>1, <1>2, <1>3 DEF Images, Private, NoJob
<1>7. Len(entries') <= MaxRecords
  BY <1>3, RetentionConstants
<1>8. QED
  BY <1>4, <1>5, <1>6, <1>7 DEF MemoryGood, Leases

LEMMA WriteMemory ==
  ASSUME RetentionInv, HandleWrite
  PROVE  MemoryGood'
<1>1. /\ Leases /\ Images /\ Submitting /\ Tabled /\ Len(entries) <= MaxRecords
      /\ tickets \in Seq(TicketRecord) /\ held \in SUBSET (1 .. Len(tickets))
      /\ writes \in [Keys -> 0 .. Len(tickets)]
  BY DEF RetentionInv, Limits, TicketTypes
<1>2. PICK t \in held : /\ at = "handle" /\ tickets[t].kind = "write"
                        /\ writes' = [writes EXCEPT ![tickets[t].key] = NoTicket]
                        /\ entries' = Readers(entries, tickets[t].key, -1)
                        /\ UNCHANGED <<free, restoring, restore, job>>
  BY DEF HandleWrite, Handles
<1>3. /\ tickets[t].key \in Keys /\ writes[tickets[t].key] = t /\ t # NoTicket
      /\ job = NoJob /\ job.kind = "none"
  BY <1>1, <1>2, RecordFields DEF Tabled, NoTicket, Submitting, NoJob
<1>4. Leased(tickets[t].key) /\ \A j \in Keys : Leased(j)' <=> j # tickets[t].key /\ Leased(j)
  BY <1>1, <1>2, <1>3 DEF Leased
<1>5. Leases' /\ Owned(entries') = Owned(entries) /\ Len(entries') = Len(entries)
  BY <1>1, <1>2, <1>3, <1>4, LeaseEnds
<1>6. Images'
  BY <1>1, <1>2, <1>5 DEF Images, Private
<1>7. QED
  BY <1>1, <1>5, <1>6 DEF MemoryGood

LEMMA ReadMemory ==
  ASSUME RetentionInv, HandleRead
  PROVE  MemoryGood'
<1>1. /\ Leases /\ Images /\ Submitting /\ Len(entries) <= MaxRecords
      /\ Len(entries) \in Nat /\ MaxRecords \in Nat
  BY RetentionConstants DEF RetentionInv, Limits, Leases, IsCache, Endpoints
<1>2. PICK t \in held : /\ Handles(t) /\ tickets[t].kind = "read" /\ restore.ticket = t
                        /\ restoring' = restoring - 1 /\ restore' = NoRestore
                        /\ UNCHANGED <<writes, job>>
  BY DEF HandleRead
<1>3. /\ restore # NoRestore /\ restore.key \in Keys /\ restore.slot \in Slots
      /\ restoring = 1 /\ job = NoJob
  BY <1>1, <1>2, RestoreTicket DEF Handles, Submitting
<1>4. /\ Private = {restore.slot} /\ Private' = {}
  BY <1>2, <1>3, RetentionConstants DEF Private, NoJob, NoRestore
<1>5. PICK c : /\ GivesWay(Endpoints, c)
               /\ \/ /\ entries' = Append(c.entries, Entry(restore.key, restore.slot, 0))
                     /\ free' = c.free
                     /\ ~Known(entries, restore.key) /\ Len(c.entries) < MaxRecords
                  \/ /\ entries' = c.entries
                     /\ free' = c.free \cup {restore.slot}
  BY <1>2, ReadIs
<1>6. /\ IsCache(c) /\ c.free \in SUBSET Slots /\ LeasesMatch(c.entries)
      /\ c.entries \in Seq(EntryRecord)
      /\ Len(c.entries) <= MaxRecords /\ DOMAIN c.entries = 1 .. Len(c.entries)
      /\ Apart(c.entries) /\ Len(c.entries) \in Nat
      /\ \A i \in 1 .. Len(c.entries) : c.entries[i].slot \notin c.free
  <2>1. Len(c.entries) <= Len(entries) /\ IsCache(c) /\ Len(c.entries) \in Nat
    BY <1>5 DEF GivesWay, IsCache, Endpoints
  <2>2. QED
    BY <1>1, <1>5, <2>1, LeasesGiveWay DEF IsCache
<1>7. /\ c.free \cup Owned(c.entries) \cup Private = Slots
      /\ Private \cap (c.free \cup Owned(c.entries)) = {}
  BY <1>1, <1>5, SlotsGiveWay
<1>8. restore.slot \notin c.free /\ restore.slot \notin Owned(c.entries)
  BY <1>4, <1>7
<1>9. CASE /\ entries' = Append(c.entries, Entry(restore.key, restore.slot, 0))
           /\ free' = c.free
           /\ ~Known(entries, restore.key) /\ Len(c.entries) < MaxRecords
  <2>0. PICK es : es = Append(c.entries, Entry(restore.key, restore.slot, 0))
    OBVIOUS
  <2>1. ~Known(c.entries, restore.key) /\ ~Leased(restore.key)
    <3>1. IsCache(Endpoints) /\ ~Known(Endpoints.entries, restore.key)
      BY <1>1, <1>9 DEF Leases, Endpoints
    <3>2. QED
      BY <1>1, <1>3, <1>5, <1>9, <3>1, StaysUnknown DEF Leases, LeasesMatch
  <2>2. /\ IsCache([entries |-> es, free |-> c.free])
        /\ Owned(es) = Owned(c.entries) \cup {restore.slot}
        /\ Len(es) = Len(c.entries) + 1
        /\ \A i \in 1 .. Len(es) :
              \/ i \in 1 .. Len(c.entries) /\ es[i] = c.entries[i]
              \/ es[i] = Entry(restore.key, restore.slot, 0)
        /\ \A i \in 1 .. Len(c.entries) : i \in 1 .. Len(es) /\ es[i] = c.entries[i]
    <3> DEFINE z == Append(c.entries, Entry(restore.key, restore.slot, 0))
    <3>1. c.free \in SUBSET c.free
      OBVIOUS
    <3>2. /\ IsCache([entries |-> z, free |-> c.free])
          /\ Owned(z) = Owned(c.entries) \cup {restore.slot}
          /\ Len(z) = Len(c.entries) + 1
          /\ \A i \in 1 .. Len(z) :
                \/ i \in 1 .. Len(c.entries) /\ z[i] = c.entries[i]
                \/ z[i] = Entry(restore.key, restore.slot, 0)
          /\ \A i \in 1 .. Len(c.entries) : i \in 1 .. Len(z) /\ z[i] = c.entries[i]
      BY <1>3, <1>6, <1>8, <2>1, <3>1, OneMore
    <3> HIDE DEF z
    <3>3. es = z
      BY <2>0 DEF z
    <3>4. QED
      BY <3>2, <3>3
  <2>3. Endpoints' = [entries |-> es, free |-> c.free] /\ entries' = es
    BY <1>9, <2>0 DEF Endpoints
  <2>4. IsCache(Endpoints)'
    BY <2>2, <2>3 DEF IsCache
  <2>5. ASSUME NEW i \in 1 .. Len(es)
        PROVE  es[i].readers = IF Leased(es[i].key)' THEN 1 ELSE 0
    <3>1. CASE i \in 1 .. Len(c.entries) /\ es[i] = c.entries[i]
      BY <1>2, <1>6, <3>1 DEF LeasesMatch, Leased
    <3>2. CASE es[i] = Entry(restore.key, restore.slot, 0)
      BY <1>2, <2>1, <3>2 DEF Leased, Entry
    <3>3. QED
      BY <2>2, <3>1, <3>2
  <2>6. ASSUME NEW j \in Keys, Leased(j)' PROVE Known(es, j)
    <3>1. Known(c.entries, j)
      BY <1>2, <1>6, <2>6 DEF LeasesMatch, Leased
    <3>2. DOMAIN es = 1 .. Len(es)
      BY <2>2 DEF IsCache
    <3>3. QED
      BY <1>6, <2>2, <3>1, <3>2 DEF Known
  <2>7. LeasesMatch(entries)'
    BY <2>3, <2>5, <2>6 DEF LeasesMatch
  <2>8. Images'
    <3>1. restoring' = 0 /\ restore' = NoRestore /\ job'.kind = "none"
      BY <1>2, <1>3 DEF NoJob
    <3>2. free' \cup Owned(entries') = Slots
      BY <1>4, <1>7, <1>9, <2>2, <2>3
    <3>3. QED
      BY <1>4, <3>1, <3>2 DEF Images
  <2>9. Len(es) <= MaxRecords
    BY <1>1, <1>6, <1>9, <2>2
  <2>10. QED
    BY <2>3, <2>4, <2>7, <2>8, <2>9 DEF MemoryGood, Leases
<1>10. CASE entries' = c.entries /\ free' = c.free \cup {restore.slot}
  <2>1. IsCache(Endpoints)'
    BY <1>3, <1>6, <1>8, <1>10 DEF IsCache, Endpoints, Owned
  <2>2. LeasesMatch(entries)'
    BY <1>2, <1>6, <1>10 DEF LeasesMatch, Leased
  <2>3. Images'
    BY <1>2, <1>3, <1>4, <1>7, <1>10 DEF Images, NoJob
  <2>4. QED
    BY <1>6, <1>10, <2>1, <2>2, <2>3 DEF MemoryGood, Leases
<1>11. QED
  BY <1>5, <1>9, <1>10


(* No other action touches the endpoints, the leases or a private slot.    *)
LEMMA MemoryStep == RetentionInv /\ [Next]_vars => MemoryGood'
<1> SUFFICES ASSUME RetentionInv, [Next]_vars PROVE MemoryGood'
  OBVIOUS
<1> USE DEF shared, memory, polling
<1>1. Leases /\ Images /\ Len(entries) <= MaxRecords
  BY DEF RetentionInv, Limits
<1>2. ASSUME ~_submit, ~HandleRead, UNCHANGED <<entries, free, restoring, writes, job>>
      PROVE  MemoryGood'
  <2>1. restore'.slot = restore.slot /\ (restore' = NoRestore <=> restore = NoRestore)
    BY <1>2, RestoreStays
  <2>2. Leases'
    BY <1>1, <1>2 DEF Leases, Endpoints, LeasesMatch, Leased
  <2>3. Images'
    BY <1>1, <1>2, <2>1 DEF Images, Private
  <2>4. QED
    BY <1>1, <1>2, <2>2, <2>3 DEF MemoryGood
<1>3. \/ \E k \in Keys : publish(k)
      \/ \E u \in Uids : RestoreBegun(u)
      \/ _submit \/ SubmitRefused \/ _allocate \/ rebuild_cache \/ HandleWrite \/ HandleRead
      \/ UNCHANGED <<entries, free, restoring, writes, job>>
  <2>1. ASSUME NEW u \in Uids, RestoreSkipped(u) \/ RestoreJoined(u) \/ detach(u)
        PROVE  UNCHANGED <<entries, free, restoring, writes, job>>
    BY <2>1 DEF RestoreSkipped, RestoreJoined, detach
  <2>2. ASSUME \/ CloseGivesUp \/ CloseReturns \/ close
               \/ poll \/ PollStopped \/ HandleLater \/ HandleTwice \/ PollEnds
        PROVE  UNCHANGED <<entries, free, restoring, writes, job>>
    BY <2>2 DEF CloseGivesUp, CloseReturns, close, poll, PollStopped, HandleLater, HandleTwice,
       PollEnds
  <2>3. ASSUME \/ OpenStore \/ OpenFails \/ WorkerStops \/ WorkerDrains \/ WorkerWakes
               \/ WorkerTakes \/ GpuDone \/ WorkerSkips \/ WorkerSkipFails \/ WorkerWrites \/ WorkerReads
               \/ WorkerFails \/ UNCHANGED vars
        PROVE  UNCHANGED <<entries, free, restoring, writes, job>>
    BY <2>3 DEF OpenStore, OpenFails, WorkerStops, WorkerDrains, WorkerWakes, WorkerTakes,
       GpuDone, WorkerSkips, WorkerSkipFails, WorkerWrites, WorkerReads, WorkerFails, Finish, vars
  <2>4. QED
    BY <2>1, <2>2, <2>3 DEF Next, ActorStep, WorkerStep
<1>4. QED
  BY <1>2, <1>3, PublishMemory, AllocateMemory, BegunMemory, SubmitMemory, RefusedMemory, RebuildMemory,
     WriteMemory, ReadMemory

LEMMA LimitsStep == RetentionInv /\ [Next]_vars => Limits'
<1> SUFFICES ASSUME RetentionInv, [Next]_vars PROVE Limits'
  OBVIOUS
<1> USE DEF shared, memory, polling
<1>1. Len(entries') <= MaxRecords
  BY MemoryStep DEF MemoryGood
<1>2. /\ Cardinality(held) <= MaxTickets /\ Cardinality(index) <= MaxDisk
      /\ MaxTickets \in Nat /\ MaxDisk \in Nat
      /\ held \in SUBSET (1 .. Len(tickets)) /\ Len(tickets) \in Nat
      /\ index \in SUBSET Keys
  BY RetentionConstants DEF RetentionInv, Limits, TicketTypes, OtherTypes
<1>3. /\ IsFiniteSet(held) /\ Cardinality(held) \in Nat
      /\ IsFiniteSet(index) /\ Cardinality(index) \in Nat
  <2>1. IsFiniteSet(1 .. Len(tickets))
    BY <1>2, FS_Interval
  <2>2. IsFiniteSet(held) /\ IsFiniteSet(index)
    BY <1>2, <2>1, FS_Subset, RetentionConstants
  <2>3. QED
    BY <2>2, FS_CardinalityType
<1>4. Cardinality(held') <= MaxTickets
  <2>1. CASE _submit
    <3>1. Cardinality(held) < MaxTickets /\ held' = held \cup {Len(tickets) + 1}
      BY <1>2, <1>3, <2>1 DEF _submit, Refused, Outstanding
    <3>2. Cardinality(held') <= Cardinality(held) + 1
      <4>1. Cardinality(held') = IF Len(tickets) + 1 \in held THEN Cardinality(held)
                                 ELSE Cardinality(held) + 1
        BY <1>3, <3>1, FS_AddElement
      <4>2. QED
        BY <1>3, <4>1
    <3>3. Cardinality(held') \in Nat
      BY <1>3, <3>1, FS_AddElement, FS_CardinalityType
    <3>4. QED
      BY <1>2, <1>3, <3>1, <3>2, <3>3
  <2>2. CASE ~_submit
    <3>1. held' \in SUBSET held
      <4>1. ASSUME NEW k \in Keys, publish(k) PROVE held' = held
        BY <4>1 DEF publish
      <4>2. ASSUME NEW u \in Uids,
                   RestoreSkipped(u) \/ RestoreJoined(u) \/ RestoreBegun(u) \/ detach(u)
            PROVE  held' = held
        BY <4>2 DEF RestoreSkipped, RestoreJoined, RestoreBegun, detach
      <4>3. ASSUME \/ SubmitRefused \/ _allocate \/ rebuild_cache \/ CloseGivesUp \/ CloseReturns \/ close
                   \/ poll \/ PollStopped \/ HandleLater \/ HandleTwice \/ PollEnds
            PROVE  held' = held
        BY <4>3 DEF SubmitRefused, _allocate, rebuild_cache, CloseGivesUp, CloseReturns, close, poll,
           PollStopped, HandleLater, HandleTwice, PollEnds
      <4>4. ASSUME \/ OpenStore \/ OpenFails \/ WorkerStops \/ WorkerDrains \/ WorkerWakes
                   \/ WorkerTakes \/ GpuDone \/ WorkerSkips \/ WorkerSkipFails \/ WorkerWrites \/ WorkerReads
                   \/ WorkerFails \/ UNCHANGED vars
            PROVE  held' = held
        BY <4>4 DEF OpenStore, OpenFails, WorkerStops, WorkerDrains, WorkerWakes, WorkerTakes,
           GpuDone, WorkerSkips, WorkerSkipFails, WorkerWrites, WorkerReads, WorkerFails, Finish, vars
      <4>5. ASSUME HandleWrite \/ HandleRead PROVE held' \in SUBSET held
        BY <4>5 DEF HandleWrite, HandleRead, release
      <4>6. QED
        BY <2>2, <4>1, <4>2, <4>3, <4>4, <4>5 DEF Next, ActorStep, WorkerStep
    <3>2. Cardinality(held') <= Cardinality(held) /\ IsFiniteSet(held')
      BY <1>3, <3>1, FS_Subset
    <3>3. Cardinality(held') \in Nat
      BY <3>2, FS_CardinalityType
    <3>4. QED
      BY <1>2, <1>3, <3>2, <3>3
  <2>3. QED
    BY <2>1, <2>2
<1>5. ASSUME index' \in SUBSET index PROVE Cardinality(index') <= MaxDisk
  <2>1. Cardinality(index') <= Cardinality(index) /\ IsFiniteSet(index')
    BY <1>3, <1>5, FS_Subset
  <2>2. Cardinality(index') \in Nat
    BY <2>1, FS_CardinalityType
  <2>3. QED
    BY <1>2, <1>3, <2>1, <2>2
<1>6. Cardinality(index') <= MaxDisk
  <2>1. CASE OpenStore
    BY <2>1 DEF OpenStore
  <2>2. CASE WorkerWrites \/ WorkerFails
    <3> DEFINE k == tickets[now].key
    <3>1. \/ index' = index \cup {k} /\ (k \in index \/ Cardinality(index) < MaxDisk)
          \/ \E v \in index : index' = (index \ {v}) \cup {k}
          \/ index' \in SUBSET index
      BY <2>2, RoomMade DEF Unpinned, RetentionInv
    <3>2. ASSUME index' = index \cup {k}, k \in index \/ Cardinality(index) < MaxDisk
          PROVE  Cardinality(index') <= MaxDisk
      <4>1. Cardinality(index') = IF k \in index THEN Cardinality(index)
                                                  ELSE Cardinality(index) + 1
        BY <1>3, <3>2, FS_AddElement
      <4>2. QED
        BY <1>2, <1>3, <3>2, <4>1
    <3>3. ASSUME NEW v \in index, index' = (index \ {v}) \cup {k}
          PROVE  Cardinality(index') <= MaxDisk
      <4>1. IsFiniteSet(index \ {v}) /\ Cardinality(index \ {v}) = Cardinality(index) - 1
        BY <1>3, FS_RemoveElement
      <4>2. Cardinality(index') <= Cardinality(index \ {v}) + 1
        <5>1. Cardinality(index \ {v}) \in Nat
          BY <4>1, FS_CardinalityType
        <5>2. Cardinality(index') = IF k \in index \ {v} THEN Cardinality(index \ {v})
                                    ELSE Cardinality(index \ {v}) + 1
          BY <3>3, <4>1, FS_AddElement
        <5>3. QED
          BY <5>1, <5>2
      <4>3. IsFiniteSet(index')
        BY <3>3, <4>1, FS_AddElement
      <4>4. Cardinality(index') \in Nat
        BY <4>3, FS_CardinalityType
      <4>5. QED
        BY <1>2, <1>3, <4>1, <4>2, <4>4
    <3>4. ASSUME index' \in SUBSET index PROVE Cardinality(index') <= MaxDisk
      BY <1>5, <3>4
    <3>5. QED
      BY <3>1, <3>2, <3>3, <3>4
  <2>3. CASE ~OpenStore /\ ~WorkerWrites /\ ~WorkerFails
    <3>1. index' = index
      <4>1. ASSUME NEW k \in Keys, publish(k) PROVE index' = index
        BY <4>1 DEF publish
      <4>2. ASSUME NEW u \in Uids,
                   RestoreSkipped(u) \/ RestoreJoined(u) \/ RestoreBegun(u) \/ detach(u)
            PROVE  index' = index
        BY <4>2 DEF RestoreSkipped, RestoreJoined, RestoreBegun, detach
      <4>3. ASSUME \/ _submit \/ SubmitRefused \/ _allocate \/ rebuild_cache \/ CloseGivesUp \/ CloseReturns
                   \/ close \/ poll \/ PollStopped \/ HandleLater \/ HandleTwice \/ PollEnds
                   \/ HandleWrite \/ HandleRead
            PROVE  index' = index
        BY <4>3 DEF _submit, SubmitRefused, _allocate, rebuild_cache, CloseGivesUp, CloseReturns, close,
           poll, PollStopped, HandleLater, HandleTwice, PollEnds, HandleWrite, HandleRead
      <4>4. ASSUME \/ OpenFails \/ WorkerStops \/ WorkerDrains \/ WorkerWakes
                   \/ WorkerTakes \/ GpuDone \/ WorkerSkips \/ WorkerSkipFails \/ WorkerReads
                   \/ UNCHANGED vars
            PROVE  index' = index
        BY <4>4 DEF OpenFails, WorkerStops, WorkerDrains, WorkerWakes, WorkerTakes,
           GpuDone, WorkerSkips, WorkerSkipFails, WorkerReads, Finish, vars
      <4>5. QED
        BY <2>3, <4>1, <4>2, <4>3, <4>4 DEF Next, ActorStep, WorkerStep
    <3>2. QED
      BY <1>2, <3>1
  <2>4. QED
    BY <2>1, <2>2, <2>3
<1>7. QED
  BY <1>1, <1>4, <1>6 DEF Limits


-----------------------------------------------------------------------------
(* The invariant.                                                          *)

LEMMA InitHolds == Init => RetentionInv
<1> SUFFICES ASSUME Init PROVE RetentionInv
  OBVIOUS
<1>1. TicketTypes
  <2>1. /\ tickets = <<>> /\ Len(tickets) = 0 /\ held = {} /\ jobs = <<>> /\ done = <<>>
        /\ now = 0 /\ restore = NoRestore
    BY DEF Init, NoTicket
  <2>2. restore \in Restores(0)
    BY <2>1 DEF Restores, NoRestore, NoTicket
  <2>3. writes \in [Keys -> 0 .. 0]
    BY DEF Init, NoTicket
  <2>4. QED
    BY <2>1, <2>2, <2>3 DEF TicketTypes
<1>2. OtherTypes
  <2>1. flags \in Events
    BY DEF Init, Events
  <2>2. pins \in [Keys -> Nat] /\ pending \in [Uids -> {"new", "waiting", "go"}]
    BY DEF Init
  <2>3. QED
    BY <2>1, <2>2, NoJobTyped DEF Init, OtherTypes
<1>3. Limits
  <2>1. Cardinality({}) = 0
    BY FS_EmptySet
  <2>2. held = {} /\ index = {} /\ Len(entries) = 0
    BY DEF Init
  <2>3. QED
    BY <2>1, <2>2, RetentionConstants DEF Limits
<1>4. Submitting /\ Tabled
  BY DEF Init, Submitting, Tabled, NoJob, NoRestore, NoTicket
<1>5. Leases
  <2>1. entries \in Seq(EntryRecord) /\ Len(entries) = 0 /\ free = Slots
    BY DEF Init
  <2>2. IsCache(Endpoints)
    BY <2>1 DEF IsCache, Endpoints, Apart
  <2>3. \A k \in Keys : ~Leased(k)
    BY DEF Init, Leased, NoJob, NoTicket
  <2>4. QED
    BY <2>1, <2>2, <2>3 DEF Leases, LeasesMatch
<1>6. Images
  BY DEF Init, Images, Private, Owned, NoJob, NoRestore
<1>7. Serving /\ Pinned /\ WaitersListed
  BY DEF Init, Serving, Pinned, WaitersListed, NoRestore, NoTicket
<1>8. QED
  BY <1>1, <1>2, <1>3, <1>4, <1>5, <1>6, <1>7 DEF RetentionInv

(* RetentionInv is inductive: tickets, table, leases, slots, pins, queue    *)
(* and events stay as the actor and the worker need them.                  *)
THEOREM RetentionInvariant == Spec => []RetentionInv
<1>1. RetentionInv /\ [Next]_vars => RetentionInv'
  <2> SUFFICES ASSUME RetentionInv, [Next]_vars PROVE RetentionInv'
    OBVIOUS
  <2>1. TicketTypes' /\ OtherTypes' /\ Limits' /\ Submitting' /\ Tabled'
    BY TicketTypesStep, OtherTypesStep, LimitsStep, SubmittingStep, TabledStep
  <2>2. Leases' /\ Images'
    BY MemoryStep DEF MemoryGood
  <2>3. Serving' /\ Pinned' /\ WaitersListed'
    BY ServingStep, PinnedStep, WaitersStep
  <2>4. QED
    BY <2>1, <2>2, <2>3 DEF RetentionInv
<1>2. QED
  BY <1>1, InitHolds, PTL DEF Spec

(* BuffersOwned: while the worker or the GPU may touch the buffers of a    *)
(* ticket, they belong to that ticket.                                     *)
THEOREM BuffersAreOwned == Spec => []BuffersOwned
<1>1. RetentionInv => BuffersOwned
  <2> SUFFICES ASSUME RetentionInv, NEW t \in DOMAIN tickets, Using(t)
               PROVE  /\ t \in held
                      /\ tickets[t].kind = "write" =>
                            /\ writes[tickets[t].key] = t
                            /\ \E i \in DOMAIN entries : /\ entries[i].key = tickets[t].key
                                                         /\ entries[i].readers > 0
                      /\ tickets[t].kind = "read" =>
                            /\ restore.ticket = t
                            /\ restore.slot \notin free \cup Owned(entries)
    BY DEF BuffersOwned
  <2>1. /\ tickets \in Seq(TicketRecord) /\ t \in 1 .. Len(tickets)
        /\ jobs \in Seq(1 .. Len(tickets))
        /\ DOMAIN jobs = 1 .. Len(jobs) /\ t # NoTicket
    BY DEF RetentionInv, TicketTypes, NoTicket
  <2>2. t \in held
    <3>1. CASE t \in ToSet(jobs) /\ ~flags.stopped
      <4>1. PICK i \in 1 .. Len(jobs) : jobs[i] = t
        BY <2>1, <3>1 DEF ToSet
      <4>2. QED
        BY <3>1, <4>1 DEF RetentionInv, Serving
    <3>2. CASE t = now
      BY <2>1, <3>2 DEF RetentionInv, Serving
    <3>3. CASE tickets[t].gpu
      BY <2>1, <3>3 DEF RetentionInv, Serving
    <3>4. QED
      BY <3>1, <3>2, <3>3 DEF Using
  <2>3. ASSUME tickets[t].kind = "write"
        PROVE  /\ writes[tickets[t].key] = t
               /\ \E i \in DOMAIN entries : /\ entries[i].key = tickets[t].key
                                            /\ entries[i].readers > 0
    <3>1. writes[tickets[t].key] = t
      BY <2>2, <2>3 DEF RetentionInv, Tabled
    <3>2. Leased(tickets[t].key) /\ tickets[t].key \in Keys
      BY <2>1, <3>1, RecordFields DEF Leased
    <3>3. DOMAIN entries = 1 .. Len(entries)
      BY DEF RetentionInv, Leases, IsCache, Endpoints
    <3>4. PICK i \in 1 .. Len(entries) : entries[i].key = tickets[t].key
      BY <3>2, <3>3 DEF RetentionInv, Leases, LeasesMatch, Known
    <3>5. entries[i].readers = 1
      BY <3>2, <3>4 DEF RetentionInv, Leases, LeasesMatch
    <3>6. QED
      BY <3>1, <3>3, <3>4, <3>5
  <2>4. ASSUME tickets[t].kind = "read"
        PROVE  restore.ticket = t /\ restore.slot \notin free \cup Owned(entries)
    <3>1. restore.ticket = t
      BY <2>2, <2>4 DEF RetentionInv, Tabled
    <3>2. restore.slot \in Slots
      BY <2>2, <3>1, RestoreTicket
    <3>3. restore.slot \in Private
      BY <3>2, RetentionConstants DEF Private
    <3>4. QED
      BY <3>1, <3>3 DEF RetentionInv, Images
  <2>5. QED
    BY <2>2, <2>3, <2>4
<1>2. QED
  BY <1>1, RetentionInvariant, PTL

(* A cache has as many slots in use as endpoints.                          *)
LEMMA OneSlotEach ==
  ASSUME Leases
  PROVE  IsFiniteSet(Owned(entries)) /\ Cardinality(Owned(entries)) = Len(entries)
<1> DEFINE n == Len(entries)
           f == [i \in 1 .. n |-> entries[i].slot]
<1>1. n \in Nat /\ DOMAIN entries = 1 .. n /\ Apart(entries)
  BY DEF Leases, IsCache, Endpoints
<1>2. IsFiniteSet(1 .. n) /\ Cardinality(1 .. n) = n
  <2> HIDE DEF n
  <2>1. IsFiniteSet(1 .. n) /\ Cardinality(1 .. n) = IF 1 > n THEN 0 ELSE n - 1 + 1
    BY <1>1, FS_Interval
  <2>2. QED
    BY <1>1, <2>1
<1>3. Owned(entries) = {entries[i].slot : i \in 1 .. n}
  BY <1>1 DEF Owned
<1>4. f \in [1 .. n -> Owned(entries)]
  BY <1>3
<1>5. \A i, j \in 1 .. n : f[i] = f[j] => i = j
  BY <1>1 DEF Apart
<1>6. \A s \in Owned(entries) : \E i \in 1 .. n : f[i] = s
  BY <1>3
<1> HIDE DEF f, n
<1>7. f \in Bijection(1 .. n, Owned(entries))
  BY <1>4, <1>5, <1>6, Zenon DEF Bijection, Injection, Surjection, IsInjective
<1>8. QED
  BY <1>2, <1>7, FS_Bijection DEF ExistsBijection, n

(* Sets that share nothing add up.                                         *)
LEMMA ApartAddUp ==
  ASSUME NEW S, NEW T, IsFiniteSet(S), IsFiniteSet(T), S \cap T = {}
  PROVE  IsFiniteSet(S \cup T) /\ Cardinality(S \cup T) = Cardinality(S) + Cardinality(T)
<1>1. /\ IsFiniteSet(S \cup T)
      /\ Cardinality(S \cup T) = Cardinality(S) + Cardinality(T) - Cardinality(S \cap T)
  BY FS_Union
<1>2. Cardinality(S \cap T) = 0
  BY FS_EmptySet
<1>3. Cardinality(S) \in Nat /\ Cardinality(T) \in Nat
  BY FS_CardinalityType
<1>4. QED
  BY <1>1, <1>2, <1>3

(* ImagesConserved: every slot is free, of one endpoint, or private to the *)
(* restore; none is lost and none has two owners.                          *)
THEOREM ImagesAreConserved == Spec => []ImagesConserved
<1>1. RetentionInv => ImagesConserved
  <2> SUFFICES ASSUME RetentionInv PROVE ImagesConserved
    OBVIOUS
  <2>1. Images /\ Leases /\ free \in SUBSET Slots
    BY DEF RetentionInv, Leases, IsCache, Endpoints
  <2>2. IsFiniteSet(free) /\ IsFiniteSet(Slots) /\ Cardinality(free) \in Nat
    <3>1. IsFiniteSet(free)
      BY <2>1, RetentionConstants, FS_Subset
    <3>2. QED
      BY <3>1, RetentionConstants, FS_CardinalityType
  <2>3. IsFiniteSet(Owned(entries)) /\ Cardinality(Owned(entries)) = Len(entries)
        /\ Len(entries) \in Nat
    BY <2>1, OneSlotEach DEF Leases, IsCache, Endpoints
  <2>4. IsFiniteSet(Private) /\ Cardinality(Private) = restoring /\ restoring \in {0, 1}
    <3>1. restore # NoRestore => restore.slot \in Slots
      BY DEF RetentionInv, Tabled, TicketTypes, Restores
    <3>2. restore = NoRestore => restore.slot = 0
      BY DEF NoRestore
    <3>3. /\ job.kind = "read" => restore = NoRestore /\ job.slot \in Slots
          /\ job.kind # "read" => job.slot = 0
      BY DEF RetentionInv, Submitting, OtherTypes, Submissions, NoJob
    <3>4. CASE restore = NoRestore /\ job.kind # "read"
      <4>1. Private = {} /\ restoring = 0
        BY <2>1, <3>2, <3>3, <3>4 DEF Private, Images
      <4>2. QED
        BY <4>1, FS_EmptySet
    <3>5. CASE restore # NoRestore \/ job.kind = "read"
      <4>1. \E s : Private = {s}
        BY <3>1, <3>2, <3>3, <3>5, RetentionConstants DEF Private
      <4>2. restoring = 1
        BY <2>1, <3>5 DEF Images
      <4>3. QED
        BY <4>1, <4>2, FS_Singleton
    <3>6. QED
      BY <3>4, <3>5
  <2>5. free \cap Owned(entries) = {}
    BY <2>1 DEF Leases, IsCache, Endpoints, Owned
  <2>6. /\ IsFiniteSet(free \cup Owned(entries))
        /\ Cardinality(free \cup Owned(entries)) = Cardinality(free) + Len(entries)
    BY <2>2, <2>3, <2>5, ApartAddUp
  <2>7. Cardinality(Slots) = Cardinality(free) + Len(entries) + restoring
    <3> DEFINE S == free \cup Owned(entries)
    <3>1. S \cap Private = {} /\ S \cup Private = Slots
      BY <2>1 DEF Images
    <3> HIDE DEF S
    <3>2. Cardinality(S \cup Private) = Cardinality(S) + Cardinality(Private)
      BY <2>4, <2>6, <3>1, ApartAddUp DEF S
    <3>3. QED
      BY <2>4, <2>6, <3>1, <3>2 DEF S
  <2>8. QED
    BY <2>1, <2>4, <2>7 DEF ImagesConserved, Images, Private
<1>2. QED
  BY <1>1, RetentionInvariant, PTL

(* Consistent: the books of the service, of the worker and of the store    *)
(* agree, and with no ticket out nothing is left of any.                   *)
THEOREM RetentionConsistent == Spec => []Consistent
<1>1. RetentionInv => TypeOK
  <2> SUFFICES ASSUME RetentionInv PROVE TypeOK
    OBVIOUS
  <2>1. /\ tickets \in Seq(TicketRecord) /\ DOMAIN tickets = 1 .. Len(tickets)
        /\ held \subseteq 1 .. Len(tickets)
        /\ jobs \in Seq(1 .. Len(tickets)) /\ done \in Seq(1 .. Len(tickets))
    BY DEF RetentionInv, TicketTypes
  <2>2. /\ now \in 1 .. Len(tickets) \cup {NoTicket}
        /\ writes \in [Keys -> 1 .. Len(tickets) \cup {NoTicket}]
    <3>1. 0 .. Len(tickets) = 1 .. Len(tickets) \cup {NoTicket}
      <4>1. Len(tickets) \in Nat
        BY <2>1
      <4>2. QED
        BY <4>1 DEF NoTicket
    <3>2. QED
      BY <3>1 DEF RetentionInv, TicketTypes
  <2>3. Cardinality(held) <= MaxTickets /\ Cardinality(index) <= MaxDisk
        /\ Len(entries) <= MaxRecords
    BY DEF RetentionInv, Limits
  <2>4. free \subseteq Slots /\ \A i \in DOMAIN entries : entries[i].readers \in Nat
    <3>1. /\ free \in SUBSET Slots /\ DOMAIN entries = 1 .. Len(entries)
          /\ \A i \in 1 .. Len(entries) : entries[i] \in EntryRecord
      BY DEF RetentionInv, Leases, IsCache, Endpoints
    <3>2. QED
      BY <3>1 DEF EntryRecord
  <2>5. /\ index \subseteq Keys /\ pins \in [Keys -> Nat]
        /\ worker \in {"opening", "loop", "busy", "skip", "drain", "sleep", "gone"}
        /\ at \in {"idle", "put", "repoll", "drained", "handle", "joining", "over", "broken"}
        /\ restoring \in {0, 1}
        /\ pending \in [Uids -> {"new", "waiting", "go"}]
    BY DEF RetentionInv, OtherTypes
  <2>6. QED
    BY <2>1, <2>2, <2>3, <2>4, <2>5 DEF TypeOK
<1>2. RetentionInv => PinnedStaysIndexed
  <2> SUFFICES ASSUME RetentionInv, NEW k \in Keys
               PROVE  /\ pins[k] = Cardinality({t \in held : tickets[t].kind = "read"
                                                             /\ tickets[t].key = k})
                      /\ pins[k] > 0 => k \in index
    BY DEF PinnedStaysIndexed
  <2> DEFINE R == {t \in held : tickets[t].kind = "read" /\ tickets[t].key = k}
  <2>1. \A t \in held : tickets[t].kind = "read" => t = restore.ticket
    BY DEF RetentionInv, Tabled
  <2>2. CASE restore # NoRestore /\ restore.key = k
    <3>1. R = {restore.ticket}
      BY <2>1, <2>2 DEF RetentionInv, Tabled
    <3>2. QED
      BY <2>2, <3>1, FS_Singleton DEF RetentionInv, Pinned
  <2>3. CASE ~(restore # NoRestore /\ restore.key = k)
    <3>1. R = {}
      <4>1. ASSUME NEW t \in R PROVE FALSE
        <5>1. t \in held /\ restore.ticket = t /\ tickets[t].key = k
          BY <2>1
        <5>2. restore # NoRestore /\ restore.key = k
          BY <5>1, RestoreTicket
        <5>3. QED
          BY <2>3, <5>2
      <4>2. QED
        BY <4>1
    <3>2. QED
      BY <2>3, <3>1, FS_EmptySet DEF RetentionInv, Pinned
  <2>4. QED
    BY <2>2, <2>3
<1>3. RetentionInv => NamespaceHeld /\ WaitersListed
  BY DEF RetentionInv, Serving, NamespaceHeld
<1>4. RetentionInv => DrainedMeansIdle
  <2> SUFFICES ASSUME RetentionInv, held = {}, at \in {"idle", "joining", "over"}
               PROVE  /\ restore = NoRestore /\ restoring = 0
                      /\ \A k \in Keys : writes[k] = NoTicket
                      /\ \A i \in DOMAIN entries : entries[i].readers = 0
    BY DEF DrainedMeansIdle
  <2>1. DOMAIN entries = 1 .. Len(entries)
    BY DEF RetentionInv, Leases, IsCache, Endpoints
  <2>2. QED
    BY <2>1, NothingOut
<1>5. QED
  BY <1>1, <1>2, <1>3, <1>4, RetentionInvariant, PTL DEF Consistent


============================================================================
