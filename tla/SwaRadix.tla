------------------------------- MODULE SwaRadix -------------------------------
(***************************************************************************)
(* The prefix cache of sliding-window models: SWARadixCache and the part   *)
(* of CacheManager and of the scheduler that drives it.                    *)
(*                                                                         *)
(* Every cached token has a page of the full pool.  Its sliding-window KV  *)
(* lives in a second, smaller pool, reached through the full->swa mapping, *)
(* and is given back as the token leaves the window, by the request that   *)
(* computed it or by an eviction: the tree node then is a tombstone, whose *)
(* full KV survives.  A node has two locks: a full one for every reader    *)
(* below it, and a window one for the readers whose trailing window it     *)
(* holds.  A commit reconciles the request's own pages with the tree's.    *)
(*                                                                         *)
(* What is abstracted: a node is named by the token prefix it ends at      *)
(* (which is what survives a split: the object stays the suffix); a page   *)
(* is one token; any evictable node may be the victim, of which the LRU    *)
(* picks one; the four size counters are the sums they stand for; a batch  *)
(* holds one request (the latency policy cuts batches to that).  The loop  *)
(* runs one batch behind the device, so a request may have decoded once    *)
(* more when the results of its prefill are committed.                     *)
(***************************************************************************)
EXTENDS Integers, Sequences, FiniteSets, SequencesExt, FiniteSetsExt, Functions

CONSTANTS
    NumReqs,        \* bound: requests that arrive
    Arrivals,       \* the sequences they arrive in: token ids and output_len
    Sampled,        \* tokens the sampler may produce
    MaxAborts,      \* bound: aborts of the whole run
    Window,         \* sliding_window_size
    Gap,            \* _SWA_RETAIN_GAP
    MaxRunning,     \* rows of the page table
    TokenBudget,    \* tokens a prefill batch may extend by
    NumPages,       \* pages of the full pool
    NumSwa          \* slots of the swa pool, the sentinel aside

\* _swa_pool_floor, with an eviction interval of one forward: the pool holds
\* every running request's window lock and decode tail.
ASSUME SwaConstants ==
    /\ {NumReqs, Window, MaxRunning, TokenBudget, NumPages} \subseteq Nat \ {0}
    /\ {MaxAborts, Gap, NumSwa} \subseteq Nat
    /\ \A a \in Arrivals : /\ DOMAIN a = 1 .. NumReqs
                           /\ \A r \in DOMAIN a : /\ a[r].ids \in Seq(Nat) \ {<<>>}
                                                  /\ a[r].out \in Nat \ {0}
    /\ Sampled \subseteq Nat
    /\ NumSwa >= MaxRunning * (2 * Window + Gap + 3)

VARIABLES
    tree,       \* what an operation takes and returns: nodes, by end prefix;
                \* kv, the page of every cached prefix; free, the free pages of
                \* the full pool; live, the pages that have a swa slot
    reqs,       \* per request, its Req object
    inflight,   \* batches launched and not drained, oldest first
    alloc,      \* the allocation being made: its request, or 0
    aborts,     \* aborts so far
    raised,     \* an allocation failed: the scheduler is gone
    crossed     \* history: a commit met a tombstone that another reader keeps

vars == <<tree, reqs, inflight, alloc, aborts, raised, crossed>>

Reqs == 1 .. NumReqs
Root == <<>>
Low(a, b) == IF a < b THEN a ELSE b
High(a, b) == IF a > b THEN a ELSE b
UpTo(s, n) == SubSeq(s, 1, n)


-----------------------------------------------------------------------------
(* The tree *)

Path(c, n) == {p \in DOMAIN c.nodes : IsPrefix(p, n)}
Below(c, n) == {p \in DOMAIN c.nodes : p # n /\ IsPrefix(n, p)}
is_leaf(c, n) == Below(c, n) = {}
Start(c, n) == Max({0} \cup {Len(p) : p \in Path(c, n) \ {n}})
Cells(c, n) == {UpTo(n, i) : i \in Start(c, n) + 1 .. Len(n)}
Pages(c, n) == {c.kv[p] : p \in Cells(c, n)}
Tokens(c, S) == Cardinality(UNION {Cells(c, n) : n \in S})

full_evictable(c) == {n \in DOMAIN c.nodes : c.nodes[n].ref = 0}
swa_evictable(c) ==
    {n \in DOMAIN c.nodes : ~c.nodes[n].tomb /\ c.nodes[n].sref = 0}
available_size(c) == Cardinality(c.free) + Tokens(c, full_evictable(c))
swa_free(c) == NumSwa - Cardinality(c.live)
swa_available_size(c) == swa_free(c) + Tokens(c, swa_evictable(c))

\* The node a cached prefix lies in.
Owner(c, p) == CHOOSE n \in Below(c, p) : \A m \in Below(c, p) : IsPrefix(n, m)

\* The new prefix node copies the locks and takes the window boundary.
split_at(c, p) ==
    IF p = Root \/ p \in DOMAIN c.nodes THEN c
    ELSE LET m == Owner(c, p)
         IN [c EXCEPT !.nodes = [n \in DOMAIN c.nodes \cup {p} |->
                CASE n = p -> c.nodes[m]
                  [] n = m -> [c.nodes[m] EXCEPT !.uuid = 0]
                  [] OTHER -> c.nodes[n]]]

MatchLen(c, ids) ==
    Max({0} \cup {i \in 1 .. Len(ids) : UpTo(ids, i) \in DOMAIN c.kv})

\* A matched node is reusable when a window of live tokens leads up to it
\* from the last tombstone, or no tombstone is above it.
Usable(c, n) ==
    \A t \in Path(c, n) : c.nodes[t].tomb => Len(n) - Len(t) >= Window

\* match_prefix splits where the match ends inside a node.
Walked(c, ids) == split_at(c, UpTo(ids, MatchLen(c, ids)))
match_prefix(c, ids) ==
    Max({0} \cup {Len(n) : n \in {m \in Path(c, ids) : Usable(c, m)}})

SwaLocked(c, n) ==
    LET Above(p) == {q \in Path(c, n) : ~c.nodes[q].tomb /\ Len(q) > Len(p)}
    IN {p \in Path(c, n) :
          ~c.nodes[p].tomb /\ Tokens(c, Above(p)) < Window}

\* Numbers stand for the uuids: the lowest one that no node and no handle has.
FreshUuid(c) ==
    Min({u \in 1 .. Cardinality(DOMAIN c.nodes) + NumReqs + 1 :
           /\ \A n \in DOMAIN c.nodes : c.nodes[n].uuid # u
           /\ \A r \in Reqs : reqs[r].uuid # u})

\* The node where a window lock of the nodes L first covers the window, if it
\* does.
Boundary(c, L) ==
    IF Tokens(c, L) < Window THEN Root
    ELSE CHOOSE p \in L : \A q \in L : IsPrefix(p, q)

Locked(c, n, L, b) ==
    LET u == IF b = Root THEN 0
             ELSE IF c.nodes[b].uuid # 0 THEN c.nodes[b].uuid ELSE FreshUuid(c)
    IN [c |-> [c EXCEPT !.nodes = [p \in DOMAIN c.nodes |->
                IF p \notin Path(c, n) THEN c.nodes[p]
                ELSE [c.nodes[p] EXCEPT
                        !.ref = @ + 1,
                        !.sref = IF p \in L THEN @ + 1 ELSE @,
                        !.uuid = IF p = b THEN u ELSE @]]],
        uuid |-> u]

inc_lock(c, n) == LET L == SwaLocked(c, n) IN Locked(c, n, L, Boundary(c, L))

\* The window lock is released up to the boundary, inclusive.
dec_lock(c, n, uuid) ==
    LET Held(p) == ~c.nodes[p].tomb /\ c.nodes[p].sref > 0
        Past(p) == \E q \in Path(c, n) :
                     /\ Len(q) > Len(p) /\ Held(q)
                     /\ uuid # 0 /\ c.nodes[q].uuid = uuid
    IN [c EXCEPT !.nodes = [p \in DOMAIN c.nodes |->
            IF p \notin Path(c, n) THEN c.nodes[p]
            ELSE [c.nodes[p] EXCEPT
                    !.ref = @ - 1,
                    !.sref = IF Held(p) /\ ~Past(p) THEN @ - 1 ELSE @]]]

_free_swa(c, pages) == [c EXCEPT !.live = @ \ pages]
_free(c, pages) == [c EXCEPT !.free = @ \cup pages]
_free_both(c, pages) == _free(_free_swa(c, pages), pages)

-----------------------------------------------------------------------------
(* insert: reconcile the request's pages with the tree's *)

\* A mutant: the nodes inside the reused prefix are reconciled too.
FreshAll(c, ids, after) == Path(c, ids)

\* The matched nodes that reach past the prefix the request reused.
Fresh(c, ids, after) == {n \in Path(c, ids) : Len(n) > after}

\* A mutant: a tombstone is revived under a reader's full lock.
RevivableLocked(c, n, evicted) == c.nodes[n].tomb /\ evicted < Len(n)

\* Tombstones the request brings back to life: no reader holds the old pages
\* and the request still has the window KV of the node's end.
Revivable(c, n, evicted) ==
    c.nodes[n].tomb /\ c.nodes[n].ref = 0 /\ evicted < Len(n)

\* Where the tombstone of a new suffix ends: a leaf always stays live.
TombEnd(k, last, evicted) ==
    k + Low(High(0, Low(evicted, last) - k), High(0, last - k - 1))

NewNode(tomb) == [ref |-> 0, sref |-> 0, tomb |-> tomb, uuid |-> 0]

\* The tree c holds the first k tokens of ids; F are the nodes to reconcile
\* and R those of them that are revived with the request's pages.
Reconciled(c, k, ids, row, evicted, F, R) ==
    LET last == Len(ids)
        From(n) == High(evicted, Start(c, n))
        Adopted == UNION {From(n) + 1 .. Len(n) : n \in R}
        Spanned == UNION {Start(c, n) + 1 .. Len(n) : n \in F}
        \* the head of the node revived in part stays a tombstone of its own
        head == IF \E n \in R : Start(c, n) < evicted THEN UpTo(ids, evicted) ELSE Root
        e == TombEnd(k, last, evicted)
        suffix == IF last = k THEN {}
                  ELSE {UpTo(ids, last)} \cup (IF e > k THEN {UpTo(ids, e)} ELSE {})
    IN [c |-> [split_at(c, head) EXCEPT
                 !.nodes = [n \in DOMAIN @ \cup suffix |->
                    CASE n \in suffix -> NewNode(Len(n) < last)
                      [] n \in R -> [@[n] EXCEPT !.tomb = FALSE]
                      [] OTHER -> @[n]],
                 !.kv = [p \in DOMAIN @ \cup {UpTo(ids, i) : i \in k + 1 .. last} |->
                    IF IsPrefix(p, ids) /\ Len(p) \in Adopted \cup (k + 1 .. last)
                    THEN row[Len(p)] ELSE @[p]]],
        freed |-> {c.kv[UpTo(ids, i)] : i \in Adopted}
                  \cup {row[i] : i \in Spanned \ Adopted}]

insert(c0, ids, row, evicted, after) ==
    LET c == Walked(c0, ids)
        F == Fresh(c, ids, after)
    IN Reconciled(c, MatchLen(c0, ids), ids, row, evicted, F,
                  {n \in F : Revivable(c, n, evicted)})

-----------------------------------------------------------------------------
(* CacheManager._cache_req_swa *)

KeepFrom(n) == High(n - Window - Gap, 0)

\* insert, release of the old handle, return of the reclaimed pages.
Released(i, q) ==
    _free_both(dec_lock(i.c, UpTo(q.ids, q.hlen), q.uuid), i.freed)
Inserted(c, q, cached) ==
    Released(insert(c, UpTo(q.ids, cached), q.row, q.evicted, q.hlen), q)

\* Past the handle, and less than a window before the end of what is
\* committed, the tokens lie in a tombstone that a reader full-locks: insert
\* does not revive it, and the re-match may stop before it.
Crosses(c, q) ==
    \E i \in High(q.hlen, q.cached - Window) + 1 .. q.cached, n \in DOMAIN c.nodes :
       /\ IsPrefix(UpTo(q.ids, i), n) /\ i > Start(c, n)
       /\ c.nodes[n].tomb /\ c.nodes[n].ref > 0

\* The commit of a prompt: the row is pointed at the tree's pages as far as
\* they match again, and the match is locked.
Rematched(c, q, ids) ==
    LET m == match_prefix(c, ids)
        k == inc_lock(c, UpTo(ids, m))
    IN [c |-> k.c,
        q |-> [q EXCEPT !.hlen = m, !.uuid = k.uuid,
                        !.row = [i \in DOMAIN @ |->
                                   IF i <= m THEN c.kv[UpTo(ids, i)] ELSE @[i]]]]

Committed(c, q) ==
    LET ids == UpTo(q.ids, q.cached)
    IN Rematched(Walked(Walked(Inserted(c, q, q.cached),
                               UpTo(ids, KeepFrom(q.cached))), ids), q, ids)

Trimmable(c, ids) == {n \in Path(c, ids) : ~c.nodes[n].tomb /\ c.nodes[n].sref = 0
                                           /\ ~is_leaf(c, n)}
Trimmed(c, T) ==
    _free_swa([c EXCEPT !.nodes = [n \in DOMAIN @ |->
                  IF n \in T THEN [@[n] EXCEPT !.tomb = TRUE] ELSE @[n]]],
              UNION {Pages(c, n) : n \in T})

trim_head_swa(c0, ids) ==
    IF ids = <<>> THEN c0
    ELSE LET c == Walked(c0, ids) IN Trimmed(c, Trimmable(c, ids))

\* The end of a request: nothing past the host's tokens is inserted, the
\* rest of the row is returned, and all but the last window of the prompt
\* gives up its swa slots.
Finished(c, q) ==
    LET cached == Low(q.cached, Len(q.ids))
        prompt == UpTo(q.ids, Low(q.prompt, cached))
        rest == {q.row[i] : i \in cached + 1 .. Len(q.row)}
    IN Walked(trim_head_swa(_free_both(Inserted(c, q, cached), rest),
                            UpTo(prompt, KeepFrom(Len(prompt)))),
              prompt)

-----------------------------------------------------------------------------
(* The scheduler: admission, allocation, launch, drain *)

Idle == [r |-> 0, n |-> 0, kind |-> "none"]
Flying(r) == \E i \in DOMAIN inflight : inflight[i].r = r
Alive(r) == reqs[r].st \in {"chunk", "decode"}
remain_len(r) == reqs[r].prompt + reqs[r].out - reqs[r].cached - 1
Decoding == {r \in Reqs : reqs[r].st = "decode" /\ ~reqs[r].aborted
                          /\ remain_len(r) > 0}
inflight_tokens == MapThenSumSet(remain_len, Decoding)

\* The next batch is launched before the last one is drained, never earlier.
MayLaunch == ~raised /\ alloc = Idle /\ Len(inflight) < 2

\* The chunked prompt goes first, then the requests in order of arrival.
Chunked == {r \in Reqs : reqs[r].st = "chunk" /\ ~reqs[r].aborted}
Pending == {r \in Reqs : reqs[r].st = "pending"}

\* A mutant: the frontier reaches into the window.
FrontierClose(q) == q.cached - Window + 1

\* The request's own slots that no later position of it reads, from the end
\* of the reused prefix on.
Frontier(q) == q.cached - Window - 1
Kept(q) == High(q.evicted, q.hlen)
Passed(q) == {q.row[i] : i \in Kept(q) + 1 .. Frontier(q)}
Advanced(q) == [q EXCEPT !.evicted = IF Frontier(q) > Kept(q) THEN Frontier(q) ELSE @]

Chunk(q, budget) == Low(TokenBudget, Low(q.prompt - q.cached, budget))
Extend(r, q, c, n) ==
    LET kind == IF n < q.prompt - q.cached THEN "chunk" ELSE "prefill"
    IN /\ tree' = c
       /\ reqs' = [reqs EXCEPT ![r] =
                     [q EXCEPT !.st = IF kind = "chunk" THEN "chunk" ELSE "decode"]]
       /\ alloc' = [r |-> r, n |-> n, kind |-> kind]
       /\ UNCHANGED <<inflight, aborts, raised, crossed>>

\* The request over the m tokens of ids that matched.
Admitted(q, c, ids, m, u) ==
    [q EXCEPT !.cached = m, !.hlen = m, !.uuid = u,
              !.row = [i \in 1 .. m |-> c.kv[UpTo(ids, i)]]]

\* PrefillAdder on a new request: the match is locked, then both pools are
\* asked, and the first chunk is cut to what the swa pool can back.
Admit(r) ==
    /\ MayLaunch /\ Chunked = {} /\ r \in Pending /\ r = Min(Pending)
    /\ Cardinality({s \in Reqs : Alive(s)}) < MaxRunning
    /\ LET ids == UpTo(reqs[r].ids, reqs[r].prompt - 1)
       IN \E c \in {Walked(tree, ids)} :
          LET m == match_prefix(c, ids)
              extend == reqs[r].prompt - m
              needed == extend + reqs[r].out + inflight_tokens
          IN \E k \in {inc_lock(c, UpTo(ids, m))} :
             LET q == Admitted(reqs[r], c, ids, m, k.uuid)
             IN /\ needed <= available_size(c) /\ needed <= available_size(k.c)
                /\ Low(extend, Window) + 1 <= swa_available_size(k.c)
                /\ Extend(r, q, k.c, Chunk(q, swa_available_size(k.c)))

\* The next chunk of a prompt; the slots its own frees return are credited.
\* A chunk the swa cap cuts to nothing fails loudly.
Continue(r) ==
    /\ MayLaunch /\ r \in Chunked
    /\ LET q == reqs[r]
           n == Chunk(q, swa_available_size(tree) + High(0, Frontier(q) - Kept(q)))
       IN IF n = 0 THEN raised' = TRUE /\ UNCHANGED <<tree, reqs, inflight, alloc, aborts, crossed>>
          ELSE Extend(r, Advanced(q), _free_swa(tree, Passed(q)), n)

\* The first decode step frees nothing: the prefill may still be running.
Decode(r) ==
    /\ MayLaunch /\ r \in Decoding
    /\ LET q == reqs[r]
       IN IF q.stepped
          THEN /\ tree' = _free_swa(tree, Passed(q))
               /\ reqs' = [reqs EXCEPT ![r] = Advanced(q)]
          ELSE /\ reqs' = [reqs EXCEPT ![r].stepped = TRUE]
               /\ UNCHANGED tree
    /\ alloc' = [r |-> r, n |-> 1, kind |-> "decode"]
    /\ UNCHANGED <<inflight, aborts, raised, crossed>>

\* A mutant: the tombstones an eviction lays bare stay in the tree.
CascadeNone(c, n) == {}

\* Unlinking a leaf takes the unlocked tombstones it leaves bare with it.
Cascade(c, n) ==
    {p \in Path(c, n) \ {n} :
       \A q \in Path(c, n) \ {n} : IsPrefix(p, q) =>
          c.nodes[q].tomb /\ c.nodes[q].ref = 0 /\ Below(c, q) \subseteq Path(c, n)}

Unlinked(c, n) ==
    LET S == Cascade(c, n) \cup {n}
        gone == {p \in DOMAIN c.kv : \E m \in S : IsPrefix(p, m) /\ Len(p) > Start(c, m)}
        pages == {c.kv[p] : p \in gone}
    IN [_free(_free_swa(c, IF c.nodes[n].tomb THEN {} ELSE Pages(c, n)), pages) EXCEPT
          !.nodes = [m \in DOMAIN @ \ S |-> @[m]],
          !.kv = [p \in DOMAIN @ \ gone |-> @[p]]]

Leaves(c) == {n \in full_evictable(c) : is_leaf(c, n)}

\* _allocate evicts unlocked leaves for full pages.
ShortOfPages == alloc # Idle /\ Cardinality(tree.free) < alloc.n
evict_full(n) ==
    /\ ~raised /\ ShortOfPages /\ n \in Leaves(tree)
    /\ tree' = Unlinked(tree, n)
    /\ UNCHANGED <<reqs, inflight, alloc, aborts, raised, crossed>>

\* ensure_swa_slots takes any node whose window nobody holds: a free leaf
\* goes, every other node is left as a tombstone.
Tombstoned(c, n) ==
    _free_swa([c EXCEPT !.nodes[n].tomb = TRUE], Pages(c, n))
ShortOfSwa == alloc # Idle /\ ~ShortOfPages /\ swa_free(tree) < alloc.n
evict_swa(n) ==
    /\ ~raised /\ ShortOfSwa /\ n \in swa_evictable(tree)
    /\ tree' = IF n \in Leaves(tree) THEN Unlinked(tree, n) ELSE Tombstoned(tree, n)
    /\ UNCHANGED <<reqs, inflight, alloc, aborts, raised, crossed>>

\* "Eviction did not free enough space", or "SWA pool exhausted".
AllocateFails ==
    /\ ~raised
    /\ \/ ShortOfPages /\ Leaves(tree) = {}
       \/ ShortOfSwa /\ swa_evictable(tree) = {}
    /\ raised' = TRUE
    /\ UNCHANGED <<tree, reqs, inflight, alloc, aborts, crossed>>

\* The pages are written into the row and the forward is launched.
Launch ==
    /\ ~raised /\ alloc # Idle /\ ~ShortOfPages /\ ~ShortOfSwa
    /\ LET nth(i) == CHOOSE p \in tree.free :
                       Cardinality({f \in tree.free : f < p}) = i - 1
           taken == {nth(i) : i \in 1 .. alloc.n}
       IN /\ tree' = [tree EXCEPT !.free = @ \ taken, !.live = @ \cup taken]
          /\ reqs' = [reqs EXCEPT
                        ![alloc.r].row = @ \o [i \in 1 .. alloc.n |-> nth(i)],
                        ![alloc.r].cached = @ + alloc.n]
    /\ inflight' = Append(inflight, [r |-> alloc.r, kind |-> alloc.kind])
    /\ alloc' = Idle
    /\ UNCHANGED <<aborts, raised, crossed>>

-----------------------------------------------------------------------------
(* _process_last_data and aborts *)

Gone == [st |-> "done", ids |-> <<>>, prompt |-> 0, out |-> 0, cached |-> 0, row |-> <<>>,
         hlen |-> 0, uuid |-> 0, evicted |-> 0, stepped |-> FALSE,
         aborted |-> FALSE]

Drains(r, kind) ==
    /\ ~raised /\ alloc = Idle /\ inflight # <<>>
    /\ Head(inflight) = [r |-> r, kind |-> kind]
    /\ inflight' = Tail(inflight)
    /\ UNCHANGED <<alloc, aborts, raised>>

Free(r, q) == tree' = Finished(tree, q) /\ reqs' = [reqs EXCEPT ![r] = Gone]

\* A chunk is not cached: one that was aborted is freed, by its last Req.
DrainChunk(r) ==
    /\ Drains(r, "chunk") /\ UNCHANGED crossed
    /\ IF reqs[r].aborted /\ \A i \in 2 .. Len(inflight) : inflight[i].r # r
       THEN Free(r, reqs[r])
       ELSE UNCHANGED <<tree, reqs>>

\* An aborted request is freed when its forward has drained; a step launched
\* for a request that has ended since is dropped.
DrainDropped(r) ==
    /\ \E kind \in {"prefill", "decode"} : Drains(r, kind)
    /\ UNCHANGED crossed
    /\ \/ reqs[r].st = "done" /\ UNCHANGED <<tree, reqs>>
       \/ reqs[r].st # "done" /\ reqs[r].aborted /\ Free(r, reqs[r])

\* A sampled token: the request ends, or its prompt is committed, or it
\* goes on.
DrainToken(r, t, stops) ==
    /\ ~reqs[r].aborted /\ reqs[r].st = "decode"
    /\ \E kind \in {"prefill", "decode"} :
         /\ Drains(r, kind)
         /\ LET q == [reqs[r] EXCEPT !.ids = Append(@, t)]
                ends == stops \/ Len(q.ids) >= q.prompt + q.out
            IN \/ ends /\ Free(r, q) /\ UNCHANGED crossed
               \/ /\ ~ends /\ kind = "prefill"
                  /\ crossed' = (crossed \/ Crosses(tree, q))
                  /\ \E k \in {Committed(tree, q)} :
                       tree' = k.c /\ reqs' = [reqs EXCEPT ![r] = k.q]
               \/ /\ ~ends /\ kind = "decode"
                  /\ reqs' = [reqs EXCEPT ![r] = q] /\ UNCHANGED <<tree, crossed>>

\* An abort frees a request at once unless a forward of it is in flight.
Abort(r) ==
    /\ ~raised /\ alloc = Idle /\ aborts < MaxAborts
    /\ reqs[r].st # "done" /\ ~reqs[r].aborted
    /\ aborts' = aborts + 1
    /\ IF reqs[r].st = "pending"
       THEN reqs' = [reqs EXCEPT ![r] = Gone] /\ UNCHANGED tree
       ELSE IF Flying(r)
       THEN reqs' = [reqs EXCEPT ![r].aborted = TRUE] /\ UNCHANGED tree
       ELSE Free(r, reqs[r])
    /\ UNCHANGED <<inflight, alloc, raised, crossed>>

Init ==
    /\ tree = [nodes |-> <<>>, kv |-> <<>>, free |-> 1 .. NumPages, live |-> {}]
    /\ \E a \in Arrivals :
         reqs = [r \in Reqs |-> [Gone EXCEPT !.st = "pending", !.ids = a[r].ids,
                                             !.prompt = Len(a[r].ids), !.out = a[r].out]]
    /\ inflight = <<>> /\ alloc = Idle /\ aborts = 0 /\ raised = FALSE
    /\ crossed = FALSE

Next ==
    \/ \E r \in Reqs : Admit(r) \/ Continue(r) \/ Decode(r) \/ Abort(r)
    \/ \E n \in DOMAIN tree.nodes : evict_full(n) \/ evict_swa(n)
    \/ AllocateFails \/ Launch
    \/ \E r \in Reqs : DrainChunk(r) \/ DrainDropped(r)
    \/ \E r \in Reqs, t \in Sampled, stops \in BOOLEAN : DrainToken(r, t, stops)

Spec == Init /\ [][Next]_vars

-----------------------------------------------------------------------------
(* Properties *)

Own(r) == {reqs[r].row[i] : i \in reqs[r].hlen + 1 .. Len(reqs[r].row)}
TreePages == {tree.kv[p] : p \in DOMAIN tree.kv}
Nodes == DOMAIN tree.nodes

\* Types: the shapes of the state, and a kv map closed under prefixes whose
\* every prefix lies in a node.
TypeOK ==
    /\ tree.free \subseteq 1 .. NumPages /\ tree.live \subseteq 1 .. NumPages
    /\ DOMAIN tree.kv = UNION {{UpTo(n, i) : i \in 1 .. Len(n)} : n \in Nodes}
    /\ \A n \in Nodes : tree.nodes[n].ref \in Nat /\ tree.nodes[n].sref \in Nat
    /\ \A r \in Reqs : /\ reqs[r].hlen \in 0 .. reqs[r].cached
                       /\ Len(reqs[r].row) = reqs[r].cached
    /\ swa_free(tree) \in Nat /\ aborts \in 0 .. MaxAborts
    /\ Len(inflight) <= 2

\* No page is lost and none has two owners: the free list, the tree and the
\* own part of every row share the full pool between them, and no page sits
\* in two places.  It is what check_integrity can test of an idle cache only.
PagesConserved ==
    /\ TypeOK
    /\ tree.free \cup TreePages \cup UNION {Own(r) : r \in Reqs} = 1 .. NumPages
    /\ tree.free \cap TreePages = {} /\ IsInjective(tree.kv)
    /\ \A r \in Reqs :
         /\ Own(r) \cap (tree.free \cup TreePages) = {}
         /\ \A s \in Reqs \ {r} : Own(r) \cap Own(s) = {}
         /\ \A i, j \in reqs[r].hlen + 1 .. Len(reqs[r].row) :
              reqs[r].row[i] = reqs[r].row[j] => i = j

\* The reused part of a running request's row names the pages of the nodes
\* its handle locks: what the row reads cannot be handed to another request.
RowsBacked ==
    \A r \in Reqs : Alive(r) =>
       \A i \in 1 .. reqs[r].hlen :
          LET p == UpTo(reqs[r].ids, i)
          IN p \in DOMAIN tree.kv /\ tree.kv[p] = reqs[r].row[i]

\* The window a running request reads next has its swa slots: neither the
\* request's own frees, nor an eviction, nor the trim of another request that
\* ends, nor a commit takes one from it.
WindowLive ==
    \A r \in Reqs : Alive(r) =>
       \A i \in High(1, reqs[r].cached - Window + 1) .. reqs[r].cached :
          reqs[r].row[i] \in tree.live

\* The tree's belief about the swa pool is true: a node is a tombstone
\* exactly when its pages have no swa slot, and no free page keeps one.
TombstonesTrue ==
    /\ \A n \in Nodes : IF tree.nodes[n].tomb
                        THEN Pages(tree, n) \cap tree.live = {}
                        ELSE Pages(tree, n) \subseteq tree.live
    /\ tree.free \cap tree.live = {}

\* A node's full lock counts the handles at and below it; its window lock is
\* held for every handle whose trailing window it holds part of, never on a
\* tombstone, and is gone when the handles are.
LocksExact ==
    LET At(r) == UpTo(reqs[r].ids, reqs[r].hlen)
        Readers(n) == {r \in Reqs : Alive(r) /\ IsPrefix(n, At(r))}
        Windows(n) == {r \in Readers(n) : Len(n) > reqs[r].hlen - Window}
    IN \A n \in Nodes :
         /\ tree.nodes[n].ref = Cardinality(Readers(n))
         /\ tree.nodes[n].sref <= tree.nodes[n].ref
         /\ tree.nodes[n].sref >= Cardinality(Windows(n))
         /\ tree.nodes[n].tomb => tree.nodes[n].sref = 0

\* A leaf always carries live window KV, so an evicted node never leaves full
\* KV behind that nothing can resume from.
LeavesLive == \A n \in Nodes : is_leaf(tree, n) => ~tree.nodes[n].tomb

\* What makes the tree sound for every later match, lock and eviction.
TreeSound == TombstonesTrue /\ LocksExact /\ LeavesLive

\* The size of the swa pool "keeps a full batch always fitting".  Refuted: a
\* chunk may take every slot that is left, before the next decode step.
NeverExhausted == ~raised
=============================================================================
