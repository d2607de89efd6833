--------------------------- MODULE OverlapScheduler ---------------------------
(***************************************************************************)
(* The engine's scheduler process: one thread that runs overlap_loop for   *)
(* ever, with the managers it owns (PrefillManager, DecodeManager,         *)
(* TableManager, CacheManager) and the radix prefix cache.                 *)
(*                                                                         *)
(* An iteration of the loop receives messages, admits requests and         *)
(* launches batch N+1, and only then drains the results of batch N.  The   *)
(* host therefore runs one batch behind the device: a request may have     *)
(* been launched once more before the host learns that it ended, and an    *)
(* abort may name a request whose forward is still running.  KV pages are  *)
(* handed between requests, the prefix cache and the free list under       *)
(* exactly those conditions.                                               *)
(*                                                                         *)
(* What is kept: every page, its contents, the free list, the page-table   *)
(* rows, the prefix cache with its reference counts, the admission         *)
(* reservations, and the order of replies.  What is abstracted: a token is *)
(* a number, and the KV of a position is the token prefix it was computed  *)
(* from; the radix tree is the set of page-aligned prefixes it holds (the  *)
(* grouping of pages into nodes, and the LRU order, are a choice of        *)
(* eviction).  Device work is applied in launch order, which is what the   *)
(* stream waits of overlap_loop establish.                                 *)
(* The plain radix cache is modelled, with one token per decode step.      *)
(***************************************************************************)
EXTENDS Integers, Sequences, FiniteSets, SequencesExt

CONSTANTS
    Uids,           \* request ids the frontends use, a set of numbers
    Abortable,      \* bound: those whose client may abort
    Pages,          \* the KV pages of the pool
    PageSize,       \* tokens per page
    MaxRunning,     \* rows of the page table (max_running_req)
    PrefillBudget,  \* tokens a prefill batch may extend by
    Prompts,        \* token sequences a request may carry
    MaxTokens,      \* values of the request's max_tokens
    Sampled,        \* tokens the sampler may produce
    Eos,            \* the end-of-sequence token
    Latency         \* whether the latency scheduling policy is on

ASSUME SchedulerConstants ==
    /\ Uids \subseteq Nat /\ IsFiniteSet(Uids) /\ IsFiniteSet(Pages)
    /\ Abortable \subseteq Uids
    /\ PageSize \in Nat \ {0} /\ MaxRunning \in Nat \ {0}
    /\ PrefillBudget \in Nat \ {0}
    /\ Prompts \subseteq Seq(Nat) \ {<<>>} /\ MaxTokens \subseteq Nat \ {0}
    /\ Sampled \subseteq Nat /\ Latency \in BOOLEAN

VARIABLES
    pc,         \* where the loop is: recv, admit, launch, drain, or crashed
    job,        \* per uid, the accepted UserMsg: prompt length, output length
    text,       \* per uid, the token row: the prompt, then sampled tokens
    pending,    \* PrefillManager.pending_list
    adder,      \* PrefillAdder and the loop over pending_list
    running,    \* DecodeManager.running_reqs
    req,        \* per uid, its newest Req object
    row,        \* per uid, its page-table row in pages
    slots,      \* TableManager: number of free rows
    free,       \* CacheManager.free_slots, in order
    tree,       \* the prefix cache: page-aligned prefix -> page
    ref,        \* its reference counts, prefix -> number
    kv,         \* contents of the pool: page -> offset -> token prefix
    last,       \* the launched batch whose results are not drained
    ongoing,    \* the batch launched in this iteration
    drainer,    \* the loop over last in _process_last_data
    finished,   \* finished_reqs
    tombs,      \* _abort_tombstones
    aborts,     \* uids whose AbortBackendMsg has been received
    acks,       \* _pending_abort_acks
    sent        \* per uid, the number of replies and the kind of the last one

managers == <<pending, running, slots>>
cache    == <<free, tree, ref>>
inbox    == <<job, tombs, aborts>>
vars == <<pc, job, text, pending, adder, running, req, row, slots, free, tree,
          ref, kv, last, ongoing, drainer, finished, tombs, aborts, acks, sent>>

-----------------------------------------------------------------------------
(* Lengths and prefixes.                                                   *)

Least(a, b) == IF a < b THEN a ELSE b
Most(a, b)  == IF a > b THEN a ELSE b
div_ceil(n) == (n + PageSize - 1) \div PageSize
align_down(n) == (n \div PageSize) * PageSize

MaxSeqLen == Cardinality(Pages) * PageSize

FirstTokens(u, n) == SubSeq(text[u], 1, n)

\* The page-aligned prefixes of s: the path from the root to its handle.
PathOf(s) == {SubSeq(s, 1, k * PageSize) : k \in 1 .. (Len(s) \div PageSize)}

NoJob   == [plen |-> 0, out |-> 0, state |-> "none"]
NoReq   == [cached |-> 0, dev |-> 0, alloc |-> 0, host |-> 0, handle |-> 0,
            chunked |-> FALSE, aborted |-> FALSE, held |-> FALSE]
NoBatch == [phase |-> "none", reqs |-> <<>>, chunks |-> {}]
NoAdder == [index |-> 0, budget |-> 0, reserved |-> 0, reqs |-> <<>>,
            chunks |-> {}]
NoDrain == [todo |-> <<>>, lazy |-> <<>>, done |-> {}]

\* The elements of q that are in S, in their order.
Keep(q, S) ==
    LET kept[i \in 0 .. Len(q)] ==
            IF i = 0 THEN <<>>
            ELSE IF q[i] \in S THEN Append(kept[i - 1], q[i]) ELSE kept[i - 1]
    IN  kept[Len(q)]

\* The requests of S by ascending uid: the k-th has k - 1 before it.
InOrder(S) ==
    [k \in 1 .. Cardinality(S) |->
        CHOOSE u \in S : Cardinality({v \in S : v < u}) = k - 1]

max_device_len(u) == job[u].plen + job[u].out
remain_len(u)     == max_device_len(u) - req[u].dev

Live == {u \in Uids : req[u].held}

-----------------------------------------------------------------------------
(* The prefix cache.  A lock raises the count of every prefix on the path  *)
(* of its handle; what no lock covers is evictable.                        *)

\* _tree_walk: the length of the longest prefix of s the tree holds.
MatchLen(s) ==
    LET hits == {Len(p) : p \in PathOf(s) \cap DOMAIN tree}
    IN  IF hits = {} THEN 0 ELSE CHOOSE n \in hits : \A m \in hits : m <= n

Locked(counts, s) ==
    [p \in DOMAIN counts |-> counts[p] + (IF p \in PathOf(s) THEN 1 ELSE 0)]
Unlocked(counts, s) ==
    [p \in DOMAIN counts |-> counts[p] - (IF p \in PathOf(s) THEN 1 ELSE 0)]

Evictable(counts) == {p \in DOMAIN counts : counts[p] = 0}

available_size(counts) ==
    PageSize * (Len(free) + Cardinality(Evictable(counts)))

\* evict frees leaves first, so a prefix leaves after all its extensions.
\* Which unlocked leaves go first (LRU), and how far the last node
\* overshoots the request, is left open.
Evictions(n) ==
    {E \in SUBSET Evictable(ref) :
        /\ Cardinality(E) >= n
        /\ \A p \in E : \A q \in DOMAIN tree : IsPrefix(p, q) => q \in E}

-----------------------------------------------------------------------------
(* cache_req: insert what the request computed into the tree, give back    *)
(* the pages the tree already has, and either release the request's tail   *)
(* (finished) or lock the longer prefix and re-point the row (not).        *)

InsertIds(u, r)  == FirstTokens(u, align_down(Least(r.host, r.cached)))

InsertTree(u, r) ==
    LET new == PathOf(InsertIds(u, r)) \ DOMAIN tree
    IN  [p \in DOMAIN tree \cup new |->
            IF p \in new THEN row[u][Len(p) \div PageSize] ELSE tree[p]]

InsertRefs(u, r) ==
    LET new == PathOf(InsertIds(u, r)) \ DOMAIN ref
    IN  [p \in DOMAIN ref \cup new |-> IF p \in new THEN 0 ELSE ref[p]]

\* A dedup that gives back the whole row, the shared prefix included.
DuplicatesShared(u, r) ==
    SubSeq(row[u], 1, MatchLen(InsertIds(u, r)) \div PageSize)

\* The request's own pages for [old handle, prefix already cached).
Duplicates(u, r) ==
    SubSeq(row[u], (r.handle \div PageSize) + 1,
                   MatchLen(InsertIds(u, r)) \div PageSize)

\* _padded_tail: whole pages from the insert boundary to the last one owned.
PaddedTail(u, r) ==
    SubSeq(row[u], (Len(InsertIds(u, r)) \div PageSize) + 1,
                   div_ceil(Most(r.cached, r.alloc)))

\* A commit that frees its duplicates but keeps pointing at them.
CommitRowKept(u, r) == row[u]

\* The row re-pointed at the tree's pages for the span just deduplicated.
CommitRow(u, r) ==
    LET matched == MatchLen(InsertIds(u, r)) \div PageSize
    IN  [k \in 1 .. Len(row[u]) |->
            IF k > r.handle \div PageSize /\ k <= matched
            THEN tree[FirstTokens(u, k * PageSize)] ELSE row[u][k]]

\* A commit that leaves the lock of the old handle behind.
CommitRefsKept(u, r) == Locked(InsertRefs(u, r), InsertIds(u, r))

\* The locks after the commit: the old handle's released, the new one's taken.
CommitRefs(u, r) ==
    Locked(Unlocked(InsertRefs(u, r), FirstTokens(u, r.handle)),
           InsertIds(u, r))

\* cache_req(finished=False), once the last chunk of a prompt is drained.
CommitPrefix(u, r) ==
    /\ tree' = InsertTree(u, r)
    /\ ref' = CommitRefs(u, r)
    /\ row' = [row EXCEPT ![u] = CommitRow(u, r)]
    /\ req' = [req EXCEPT ![u] = [r EXCEPT !.handle = Len(InsertIds(u, r))]]
    /\ UNCHANGED slots

Clamped(r) == [r EXCEPT !.cached = Least(r.cached, r.host)]

\* A free that forgets the padding of the last, partly used page.
ReleasedPagesUnpadded(u, r) ==
    IF r.held
    THEN Duplicates(u, Clamped(r))
         \o SubSeq(row[u], (Len(InsertIds(u, Clamped(r))) \div PageSize) + 1,
                           r.cached \div PageSize)
    ELSE <<>>

\* Pages _free_req_resources returns: cache_req(finished=True).
ReleasedPages(u, r) ==
    IF r.held THEN Duplicates(u, Clamped(r)) \o PaddedTail(u, Clamped(r))
    ELSE <<>>

\* _free_req_resources, the rest of it; a request already freed is left alone.
FreeResources(u, r) ==
    IF r.held
    THEN /\ tree' = InsertTree(u, Clamped(r))
         /\ ref' = Unlocked(InsertRefs(u, Clamped(r)), FirstTokens(u, r.handle))
         /\ slots' = slots + 1
         /\ req' = [req EXCEPT ![u] = [Clamped(r) EXCEPT !.held = FALSE]]
         /\ row' = [row EXCEPT ![u] = <<>>]
    ELSE /\ req' = [req EXCEPT ![u] = r]
         /\ UNCHANGED <<tree, ref, slots, row>>

-----------------------------------------------------------------------------
(* Messages.                                                               *)

Say(u, kind) == [sent EXCEPT ![u] = [n |-> @.n + 1, kind |-> kind]]

\* UserMsg whose abort was received first: dropped.
UserDropped(u) ==
    /\ pc = "recv" /\ job[u].state = "none" /\ u \in tombs
    /\ tombs' = tombs \ {u}
    /\ job' = [job EXCEPT ![u].state = "dropped"]
    /\ UNCHANGED <<pc, text, pending, adder, running, req, row, slots, free,
                   tree, ref, kv, last, ongoing, drainer, finished, aborts,
                   acks, sent>>

UserTooLong(u, p) ==
    /\ pc = "recv" /\ job[u].state = "none" /\ u \notin tombs
    /\ Len(p) >= MaxSeqLen
    /\ job' = [job EXCEPT ![u].state = "refused"]
    /\ sent' = Say(u, "error")
    /\ UNCHANGED <<pc, text, pending, adder, running, req, row, slots, free,
                   tree, ref, kv, last, ongoing, drainer, finished, tombs,
                   aborts, acks>>

UserAccepted(u, p, m) ==
    /\ pc = "recv" /\ job[u].state = "none" /\ u \notin tombs
    /\ Len(p) < MaxSeqLen
    /\ job' = [job EXCEPT ![u] = [plen |-> Len(p), state |-> "accepted",
                                  out |-> Least(m, MaxSeqLen - Len(p))]]
    /\ text' = [text EXCEPT ![u] = p]
    /\ pending' = Append(pending, u)
    /\ UNCHANGED <<pc, adder, running, req, row, slots, free, tree, ref, kv,
                   last, ongoing, drainer, finished, tombs, aborts, acks, sent>>

Queued(u) == \E i \in 1 .. Len(pending) : pending[i] = u

InFlight(u) == \E i \in 1 .. Len(last.reqs) : last.reqs[i] = u

\* The request an abort finds: a started prompt, or a decoding request.
AbortFinds(u) == req[u].held /\ (Queued(u) \/ u \in running)

Abort(u) ==
    /\ pc = "recv" /\ u \in Abortable \ aborts
    /\ aborts' = aborts \cup {u}
    /\ tombs' = tombs \cup {u}
    /\ acks' = acks \cup {u}
    /\ pending' = Keep(pending, Uids \ {u})
    /\ running' = running \ {u}
    /\ IF AbortFinds(u) /\ ~InFlight(u)
       THEN /\ free' = free \o ReleasedPages(u, req[u])
            /\ FreeResources(u, req[u])
       ELSE /\ req' = [req EXCEPT ![u].aborted = @ \/ AbortFinds(u)]
            /\ UNCHANGED <<free, tree, ref, slots, row>>
    /\ UNCHANGED <<pc, job, text, adder, kv, last, ongoing, drainer, finished,
                   sent>>

Idle == last.reqs = <<>> /\ pending = <<>> /\ running = {}

-----------------------------------------------------------------------------
(* _schedule_next_batch, first half: admission.                            *)


\* DecodeManager.inflight_tokens
inflight_tokens ==
    MapThenSumSet(remain_len, running)
        + (PageSize - 1) * Cardinality(running)

\* The policy may serve decoders first, or shorten the prefill; without it
\* prefill goes first, with the whole budget.
Budgets ==
    IF Latency /\ running # {}
    THEN {b \in 1 .. PrefillBudget : b = PrefillBudget \/ b % PageSize = 0}
    ELSE {PrefillBudget}

SchedulePrefill(b) ==
    /\ pc = "recv" /\ (~Idle \/ acks # {})
    /\ b \in Budgets
    /\ pc' = "admit"
    /\ adder' = [NoAdder EXCEPT !.index = 1, !.budget = b,
                                !.reserved = inflight_tokens]
    /\ UNCHANGED <<managers, cache, inbox, text, req, row, kv, last, ongoing,
                   drainer, finished, acks, sent>>

ScheduleDecode ==
    /\ pc = "recv" /\ Latency /\ pending # <<>> /\ running # {}
    /\ pc' = "launch"
    /\ UNCHANGED <<managers, cache, inbox, text, adder, req, row, kv, last,
                   ongoing, drainer, finished, acks, sent>>

Admitting(u) ==
    /\ pc = "admit" /\ adder.index <= Len(pending)
    /\ u = pending[adder.index]
    /\ adder.budget > 0

\* _add_one_req: the new Req object and the adder's account of it.
AddOneReq(u, start, handle, owned) ==
    LET chunk == Least(adder.budget, job[u].plen - start)
        part  == start + chunk < job[u].plen
    IN  /\ req' = [req EXCEPT ![u] =
                     [cached |-> start, dev |-> start + chunk,
                      alloc |-> Most(start, owned), host |-> start + chunk,
                      handle |-> handle, chunked |-> part, aborted |-> FALSE,
                      held |-> TRUE]]
        /\ adder' = [adder EXCEPT
             !.index = @ + 1, !.budget = @ - chunk,
             !.reserved = @ + (job[u].plen - start + job[u].out),
             !.reqs = Append(@, u),
             !.chunks = IF part THEN @ \cup {u} ELSE @]

\* A prompt whose earlier chunk is computed continues in its own row.
AdmitContinuation(u) ==
    /\ Admitting(u) /\ req[u].held
    /\ AddOneReq(u, req[u].cached, req[u].handle, req[u].alloc)
    /\ UNCHANGED <<pc, managers, cache, inbox, text, row, kv, last, ongoing,
                   drainer, finished, acks, sent>>

\* match_req never matches the last prompt token.
Match(u) == MatchLen(FirstTokens(u, job[u].plen - 1))

\* The reservations of requests admitted earlier forgotten.
NeededSizeAlone(u) == job[u].plen - Match(u) + job[u].out

\* _try_allocate_one: what an admission asks for, and what is left of the
\* pool once the matched prefix is locked.
NeededSize(u) == job[u].plen - Match(u) + job[u].out + adder.reserved

LockedFor(u) == Locked(ref, FirstTokens(u, Match(u)))

Fits(u) ==
    /\ slots > 0
    /\ NeededSize(u) <= available_size(ref)
    /\ NeededSize(u) <= available_size(LockedFor(u))

AdmitFresh(u) ==
    /\ Admitting(u) /\ ~req[u].held
    /\ Fits(u)
    /\ slots' = slots - 1
    /\ ref' = LockedFor(u)
    /\ row' = [row EXCEPT ![u] = [k \in 1 .. (Match(u) \div PageSize) |->
                                    tree[FirstTokens(u, k * PageSize)]]]
    /\ AddOneReq(u, Match(u), Match(u), 0)
    /\ UNCHANGED <<pc, pending, running, free, tree, inbox, text, kv, last,
                   ongoing, drainer, finished, acks, sent>>

\* The first request that cannot be added ends the pass; unfinished prompts
\* stay at the front of the queue.
AdmitDone ==
    /\ pc = "admit"
    /\ ~ /\ adder.index <= Len(pending) /\ adder.budget > 0
         /\ req[pending[adder.index]].held \/ Fits(pending[adder.index])
    /\ pc' = "launch"
    /\ pending' = Keep(SubSeq(pending, 1, adder.index - 1), adder.chunks)
                  \o SubSeq(pending, adder.index, Len(pending))
    /\ UNCHANGED <<adder, running, slots, cache, inbox, text, req, row, kv,
                   last, ongoing, drainer, finished, acks, sent>>

-----------------------------------------------------------------------------
(* _schedule_next_batch, second half: allocate_paged, then _forward.       *)

Batch ==
    IF adder.reqs # <<>>
    THEN [phase |-> "prefill", reqs |-> adder.reqs, chunks |-> adder.chunks]
    ELSE [phase |-> "decode", chunks |-> {},
          reqs |-> InOrder(running)]

InBatch == {Batch.reqs[i] : i \in 1 .. Len(Batch.reqs)}

NewPages(u) ==
    Most(div_ceil(req[u].dev) - div_ceil(Most(req[u].cached, req[u].alloc)), 0)

\* The pages before the i-th request's in what _allocate returns.
PagesBefore(i) ==
    LET before[j \in 0 .. Len(Batch.reqs)] ==
            IF j = 0 THEN 0 ELSE before[j - 1] + NewPages(Batch.reqs[j])
    IN  before[i - 1]

needed_pages == PagesBefore(Len(Batch.reqs) + 1)

\* Rows after _write_page_table, from the pages taken off the free list.
GrownRows(taken) ==
    [u \in Uids |->
        IF u \in InBatch
        THEN LET i == CHOOSE j \in 1 .. Len(Batch.reqs) : Batch.reqs[j] = u
             IN  row[u] \o SubSeq(taken, PagesBefore(i) + 1,
                                         PagesBefore(i) + NewPages(u))
        ELSE row[u]]

\* Each request's forward fills positions [cached, dev) of its row.
Written(rows) ==
    [p \in Pages |-> [o \in 0 .. PageSize - 1 |->
        LET writer == {u \in InBatch : \E k \in 1 .. Len(rows[u]) :
                         /\ rows[u][k] = p
                         /\ (k - 1) * PageSize + o \in
                                req[u].cached .. req[u].dev - 1}
            at(u) == CHOOSE n \in req[u].cached + 1 .. req[u].dev :
                        /\ rows[u][div_ceil(n)] = p
                        /\ (n - 1) % PageSize = o
        IN  IF writer = {} THEN kv[p][o]
            ELSE LET u == CHOOSE v \in writer : TRUE
                 IN  FirstTokens(u, at(u))]]

\* complete_one
Completed(u) ==
    [req[u] EXCEPT !.cached = req[u].dev, !.dev = req[u].dev + 1,
                   !.alloc = Most(req[u].alloc, req[u].dev)]

Evict(E) ==
    /\ tree' = [p \in DOMAIN tree \ E |-> tree[p]]
    /\ ref'  = [p \in DOMAIN ref \ E |-> ref[p]]

\* _forward samples one token for every request but an unfinished prompt.
Samplers == InBatch \ Batch.chunks

Launch(E, tokens) ==
    LET pool  == free \o [i \in 1 .. Cardinality(E) |->
                            tree[SetToSeq(E)[i]]]
        taken == SubSeq(pool, 1, needed_pages)
        rows  == GrownRows(taken)
    IN  /\ pc = "launch" /\ Batch.reqs # <<>>
        /\ IF needed_pages > Len(free)
           THEN E \in Evictions(needed_pages - Len(free)) ELSE E = {}
        /\ Evict(E)
        /\ free' = SubSeq(pool, needed_pages + 1, Len(pool))
        /\ row' = rows
        /\ kv' = Written(rows)
        /\ req' = [u \in Uids |-> IF u \in InBatch THEN Completed(u) ELSE req[u]]
        /\ text' = [u \in Uids |-> IF u \in Samplers
                                   THEN Append(text[u], tokens[u]) ELSE text[u]]
        /\ running' = {u \in running \cup Samplers :
                         req'[u].dev < max_device_len(u)}
        /\ ongoing' = Batch
        /\ adder' = NoAdder
        /\ pc' = "drain"
        /\ drainer' = [NoDrain EXCEPT !.todo = last.reqs]
        /\ UNCHANGED <<pending, slots, inbox, last, finished, acks, sent>>

\* No batch this time: only the drain is left.
LaunchNothing ==
    /\ pc = "launch" /\ Batch.reqs = <<>>
    /\ pc' = "drain"
    /\ adder' = NoAdder
    /\ drainer' = [NoDrain EXCEPT !.todo = last.reqs]
    /\ UNCHANGED <<managers, cache, inbox, text, req, row, kv, last, ongoing,
                   finished, acks, sent>>

\* evict and _allocate assert that the pool can supply the batch; a failed
\* assertion ends the scheduler process.
LaunchAsserts ==
    /\ pc = "launch" /\ Batch.reqs # <<>>
    /\ needed_pages > Len(free) + Cardinality(Evictable(ref))
    /\ pc' = "crashed"
    /\ UNCHANGED <<managers, cache, inbox, text, adder, req, row, kv, last,
                   ongoing, drainer, finished, acks, sent>>

-----------------------------------------------------------------------------
(* _process_last_data: the results of the previous batch, request by       *)
(* request.  Freed pages are held back until the whole batch is drained.   *)

Draining(u) == pc = "drain" /\ drainer.todo # <<>> /\ u = Head(drainer.todo)

\* Go on with the next request, having given back some pages, and having
\* seen some requests end.
Drained(pages, ended) ==
    drainer' = [todo |-> Tail(drainer.todo), lazy |-> drainer.lazy \o pages,
                done |-> drainer.done \cup ended]

\* A chunk of a prompt is not committed; an aborted one is freed here.
DrainChunk(u) ==
    /\ Draining(u) /\ u \in last.chunks
    /\ IF req[u].aborted
       THEN Drained(ReleasedPages(u, req[u]), {}) /\ FreeResources(u, req[u])
       ELSE Drained(<<>>, {}) /\ UNCHANGED <<tree, ref, slots, row, req>>
    /\ UNCHANGED <<pc, pending, running, free, inbox, text, adder, kv, last,
                   ongoing, finished, acks, sent>>

DrainAborted(u) ==
    /\ Draining(u) /\ u \notin last.chunks /\ req[u].aborted
    /\ running' = running \ {u}
    /\ Drained(ReleasedPages(u, req[u]), {u})
    /\ FreeResources(u, req[u])
    /\ UNCHANGED <<pc, pending, free, inbox, text, adder, kv, last, ongoing,
                   finished, acks, sent>>

\* The request ended in the previous batch; this is its surplus step.
DrainSurplus(u) ==
    /\ Draining(u) /\ u \notin last.chunks /\ ~req[u].aborted
    /\ u \in finished
    /\ Drained(<<>>, {})
    /\ UNCHANGED <<pc, managers, cache, inbox, text, adder, req, row, kv, last,
                   ongoing, finished, acks, sent>>

Appended(u) == [req[u] EXCEPT !.host = @ + 1]

\* The length limit tested one token late.
EndsLate(u) == \/ req[u].host + 1 > max_device_len(u)
               \/ text[u][req[u].host + 1] = Eos

\* The token the host is about to append ends the request: length, or EOS.
Ends(u) == \/ req[u].host + 1 >= max_device_len(u)
           \/ text[u][req[u].host + 1] = Eos

\* The surplus step of an ended request taken for a fresh result.
EmitsSurplus(u) == Draining(u) /\ u \notin last.chunks /\ ~req[u].aborted

Emits(u) == Draining(u) /\ u \notin last.chunks /\ ~req[u].aborted
                        /\ u \notin finished

\* The token ends the request: reply, leave the decoder, free everything.
DrainFinal(u) ==
    /\ Emits(u) /\ Ends(u)
    /\ sent' = Say(u, "finished")
    /\ running' = running \ {u}
    /\ Drained(ReleasedPages(u, Appended(u)), {u})
    /\ FreeResources(u, Appended(u))
    /\ UNCHANGED <<pc, pending, free, inbox, text, adder, kv, last, ongoing,
                   finished, acks>>

\* A further token; after the prompt's batch the prefix is committed.
DrainToken(u) ==
    /\ Emits(u) /\ ~Ends(u)
    /\ sent' = Say(u, "token")
    /\ IF last.phase = "prefill" /\ req[u].held
       THEN /\ CommitPrefix(u, Appended(u))
            /\ Drained(Duplicates(u, Appended(u)), {})
       ELSE /\ req' = [req EXCEPT ![u] = Appended(u)]
            /\ Drained(<<>>, {})
            /\ UNCHANGED <<tree, ref, row, slots>>
    /\ UNCHANGED <<pc, pending, running, free, inbox, text, adder, kv, last,
                   ongoing, finished, acks>>

\* Aborts of requests that already ended left without an answer.
FlushAcksUnended == [u \in Uids |-> IF u \in acks /\ sent[u].kind # "finished"
                                    THEN [n |-> sent[u].n + 1, kind |-> "aborted"]
                                    ELSE sent[u]]

\* _flush_abort_acks answers every abort of this iteration.
FlushAcks == [u \in Uids |-> IF u \in acks
                             THEN [n |-> sent[u].n + 1, kind |-> "aborted"]
                             ELSE sent[u]]

DrainEnd ==
    /\ pc = "drain" /\ drainer.todo = <<>>
    /\ free' = free \o drainer.lazy
    /\ finished' = IF last.reqs = <<>> THEN finished ELSE drainer.done
    /\ sent' = FlushAcks
    /\ acks' = {}
    /\ last' = ongoing
    /\ ongoing' = NoBatch
    /\ drainer' = NoDrain
    /\ pc' = "recv"
    /\ UNCHANGED <<managers, tree, ref, inbox, text, adder, req, row, kv>>

-----------------------------------------------------------------------------
Init ==
    /\ pc = "recv"
    /\ job = [u \in Uids |-> NoJob]
    /\ text = [u \in Uids |-> <<>>]
    /\ pending = <<>> /\ adder = NoAdder /\ running = {}
    /\ req = [u \in Uids |-> NoReq]
    /\ row = [u \in Uids |-> <<>>]
    /\ slots = MaxRunning
    /\ free = SetToSeq(Pages)
    /\ tree = <<>> /\ ref = <<>>
    /\ kv = [p \in Pages |-> [o \in 0 .. PageSize - 1 |-> <<>>]]
    /\ last = NoBatch /\ ongoing = NoBatch /\ drainer = NoDrain
    /\ finished = {} /\ tombs = {} /\ aborts = {} /\ acks = {}
    /\ sent = [u \in Uids |-> [n |-> 0, kind |-> "none"]]

Receive == \E u \in Uids :
    \/ UserDropped(u) \/ Abort(u)
    \/ \E p \in Prompts : UserTooLong(u, p)
    \/ \E p \in Prompts, m \in MaxTokens : UserAccepted(u, p, m)

Admit == \/ \E b \in 1 .. PrefillBudget : SchedulePrefill(b)
         \/ ScheduleDecode \/ AdmitDone
         \/ \E u \in Uids : AdmitContinuation(u) \/ AdmitFresh(u)

Dispatch == \/ LaunchNothing \/ LaunchAsserts
            \/ \E E \in SUBSET DOMAIN tree, tokens \in [Samplers -> Sampled] :
                   Launch(E, tokens)

Drain == \/ DrainEnd
         \/ \E u \in Uids : \/ DrainChunk(u) \/ DrainAborted(u)
                            \/ DrainSurplus(u) \/ DrainFinal(u) \/ DrainToken(u)

Next == Receive \/ Admit \/ Dispatch \/ Drain

Spec == Init /\ [][Next]_vars

\* The loop never stops, and every launched forward completes.
FairSpec == Spec /\ WF_vars(Admit \/ Dispatch \/ Drain)

-----------------------------------------------------------------------------
(* Properties.                                                             *)

Kinds == {"none", "token", "finished", "error", "aborted"}

Requests == [cached : Nat, dev : Nat, alloc : Nat, host : Nat, handle : Nat,
             chunked : BOOLEAN, aborted : BOOLEAN, held : BOOLEAN]

\* Every variable stays in its range: lengths are naturals, a batch names
\* known requests, and free rows, counts and reservations never go negative.
TypeOK ==
    /\ pc \in {"recv", "admit", "launch", "drain", "crashed"}
    /\ job \in [Uids -> [plen : Nat, out : Nat,
                         state : {"none", "dropped", "refused", "accepted"}]]
    /\ text \in [Uids -> Seq(Nat)]
    /\ pending \in Seq(Uids)
    /\ adder \in [index : Nat, budget : Nat, reserved : Nat, reqs : Seq(Uids),
                  chunks : SUBSET Uids]
    /\ running \subseteq Uids
    /\ req \in [Uids -> Requests]
    /\ row \in [Uids -> Seq(Pages)]
    /\ slots \in Nat
    /\ free \in Seq(Pages)
    /\ DOMAIN tree = DOMAIN ref
    /\ \A p \in DOMAIN tree : tree[p] \in Pages /\ ref[p] \in Nat
    /\ last.reqs \in Seq(Uids) /\ ongoing.reqs \in Seq(Uids)
    /\ drainer \in [todo : Seq(Uids), lazy : Seq(Pages), done : SUBSET Uids]
    /\ finished \subseteq Uids /\ tombs \subseteq Uids
    /\ aborts \subseteq Uids /\ acks \subseteq Uids
    /\ sent \in [Uids -> [n : Nat, kind : Kinds]]

\* Places where page p is accounted for: the free list, the frees held back
\* by the drain, the prefix cache, the part of a row its request owns.
Homes(p) ==
    {<<"free", i>> : i \in {j \in 1 .. Len(free) : free[j] = p}}
    \cup {<<"lazy", i>> : i \in {j \in 1 .. Len(drainer.lazy) :
                                    drainer.lazy[j] = p}}
    \cup {<<"tree", q>> : q \in {t \in DOMAIN tree : tree[t] = p}}
    \cup UNION {{<<"row", <<u, k>>>> :
                   k \in {j \in 1 .. Len(row[u]) :
                            j > req[u].handle \div PageSize /\ row[u][j] = p}}
                : u \in Live}

\* At every moment each KV page is in exactly one place (free, waiting to be
\* freed, in the prefix cache, or owned by one request), and each page-table
\* row is free or held by one request.  A page in two places is a double
\* free that will be handed to two requests; in none, a leak.  The code
\* checks the counts alone, and only when idle (check_integrity).
ResourcesAccounted ==
    /\ TypeOK
    /\ \A p \in Pages : Cardinality(Homes(p)) = 1
    /\ slots + Cardinality(Live) = MaxRunning

\* Position n (from 1) of a row.
KvAt(r, n) == kv[r[div_ceil(n)]][(n - 1) % PageSize]

\* Attention reads its own history: whatever a request's row points at for
\* the positions it has computed is the KV of that request's own tokens, and
\* what the prefix cache holds for a prefix is the KV of that prefix.  Early
\* frees, a missed re-point after deduplication, or an eviction under a
\* reader would let another request overwrite the page.
RowsHoldOwnTokens ==
    /\ \A u \in Live : \A n \in 1 .. req[u].cached :
         KvAt(row[u], n) = FirstTokens(u, n)
    /\ \A p \in DOMAIN tree : \A o \in 0 .. PageSize - 1 :
         kv[tree[p]][o] = SubSeq(p, 1, Len(p) - PageSize + o + 1)

\* A prefix's reference count is the number of requests whose handle covers
\* it, and every prefix a handle covers is still in the tree.  Lock and
\* unlock are far apart (admission, commit, finish, abort), and the handle
\* changes in between.
LocksMatchHandles ==
    /\ \A p \in DOMAIN ref :
         ref[p] = Cardinality({u \in Live :
                                 p \in PathOf(FirstTokens(u, req[u].handle))})
    /\ \A u \in Live : PathOf(FirstTokens(u, req[u].handle)) \subseteq DOMAIN tree

\* The reservations made at admission are enough: no later batch, whatever
\* the interleaving of chunks, decodes, commits and evictions, asks
\* allocate_paged for pages the pool cannot supply (the assertions in
\* _allocate and evict).
NeverExhausted == pc # "crashed"

\* After a terminal reply a uid is silent: no token follows "finished" or an
\* error, and nothing at all follows the acknowledgement of an abort, though
\* a forward for it may still have been running.
TerminalReply ==
    [][\A u \in Uids :
         /\ sent[u].kind = "aborted" => sent'[u] = sent[u]
         /\ sent[u].kind \in {"finished", "error"} =>
                sent'[u] = sent[u] \/ sent'[u].kind = "aborted"]_sent

\* Every accepted request is eventually finished or acknowledged as aborted:
\* the head of the queue is never refused for ever.  A failed assertion ends
\* the process, and the frontends are told by its supervisor.
EveryRequestEnds ==
    \A u \in Uids : job[u].state = "accepted"
                        ~> sent[u].kind \in {"finished", "aborted"} \/ pc = "crashed"

\* Every abort is eventually acknowledged, whatever the request's state.
EveryAbortAcked ==
    \A u \in Uids : u \in aborts ~> sent[u].kind = "aborted" \/ pc = "crashed"

=============================================================================
