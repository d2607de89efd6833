# SparkLab: a TLA+ model of the daemon, the frontend, the scheduler and its caches

SparkLab serves open-weight language models on one GB10 machine. This
directory holds TLA+ models of the parts of it where order, failure and
concurrency decide whether it is correct, the TLC configurations that check
them, and TLAPS proofs. Line numbers refer to the repository at the commit the
models were written against; `PROJECT.json` maps every definition to its lines.

## The system

Three kinds of process matter here.

* The **daemon** (`python/sparklab/daemon`) is a small, always-running control
  plane. It owns at most one `sparklab serve` process, spawns, stops, switches
  and re-adopts it, keeps the final token accounting of each, streams its log,
  and supervises `sparklab checkpoint` conversions.
* The **serve frontend** (`python/sparklab/serving`) speaks the OpenAI and
  Anthropic protocols, supervises the backend workers and seals the accounting
  when asked to prepare for a stop.
* The **backend** (`python/sparklab/runtime`) is one scheduler process per
  device with tokenizer workers beside it. Its single thread admits requests,
  launches batches on the device and shares KV pages between requests through
  a prefix cache, which can be retained on NVMe (`runtime/checkpoint`).

### Components, their state and what makes them correct

| Component | State | Operations | Hard part | Correct when |
|---|---|---|---|---|
| Serve manager (`serve_manager.py`) | `_child`, `_starting`, `_stopping`, stop latch, shutdown flag, receipts known durable, last totals | start, stop, switch, shutdown, detach, readopt, `_reap`, auto-restart, `observe_accounting` | spawning, signalling, waiting and disk I/O happen outside the lock; one monitor thread per child; the daemon may die at any point | one engine at a time; no signal before a durable receipt; one receipt per engine; a reaped engine is gone everywhere; every call returns |
| Accounting outbox (`accounting.py`) | receipt files | persist, pending, acknowledge | idempotent by receipt id, failing disk | a receipt once written stays until acknowledged |
| Pidfile (`pidfile.py`) | `serve.json`, the instance lock | save, clear, load, acquire | written and cleared by different threads | names the live engine the daemon owns |
| Checkpoint jobs (`checkpoint.py`) | `_job`, `_child`, reaped events | start, cancel, monitor | GPU exclusivity with the serve and with a dying predecessor; two jobs per request on a one-worker pool | one conversion at a time; cancel ends it; the worker is not kept |
| Log ring and stream (`logring.py`, `app.py`) | ring, subscribers, per-client queue and drop counters | append, since, subscribe, the SSE generator | several threads append, pushes happen outside the lock, slow and reconnecting clients | every record once and in order, or announced as lost |
| Scheduler loop (`scheduler.py`) | last batch, finished set, tombstones, pending acks | `overlap_loop`, messages, abort, drain | the host runs one batch behind the device | a terminal reply is last; everything freed once |
| Prefill and decode managers (`prefill.py`, `decode.py`, `policy.py`, `table.py`) | queue, running set, rows, reservations | admission, chunks, batch choice | admission promises pages that later batches take | no allocation ever finds the pool empty; no request waits for ever |
| Cache manager, radix cache (`cache.py`, `radix_cache.py`) | free list, tree, reference counts, page table | match, lock, allocate, evict, commit, release | handles change between lock and unlock; deduplication re-points rows | each page in one place, holding its owner's tokens |
| Sliding-window cache (`swa_radix_cache.py`, `hybrid_swa_pool.py`) | tree with tombstones, two lock counts per node, the full-to-window mapping | match, lock, commit, release of the window, two evictions | two pools with different lifetimes behind one tree | every page a reader's window needs is live; each page in one place |
| Prefix service (`service.py`, `async_store.py`, `exact.py`) | pending restores, waiters, tickets, two queues, events, in-memory endpoints | publish, restore, detach, poll, close; the worker's job loop | an I/O thread, GPU fences that come late, timeouts, cancels, errors | no buffer is reused under a transfer; every image in one place; close ends |
| Prefix files (`store.py`, `quota.py`) | record files, temporary files, `.quota.json`, root and namespace locks, index, pins | open with recovery, write, evict, pin, close | several processes, crashes between two file operations, power loss | a record is whole or absent; the root stays within its limits |
| Frontend (`api_server.py`) | gate, `ack_map`, `event_map`, counters, rebuild futures | requests, listener, consumers, aborts, rebuilds, shutdown | event loop and supervisor thread write the same fields; tasks interleave at awaits | every caller gets an end; a sealed gate stays shut |
| Supervisor, stop accounting (`supervisor.py`, `serving/accounting.py`) | readiness, sealed totals | watch, terminate, prepare-stop | drains that race aborts, deaths and SIGTERM | sealed totals are final; a crash is reported, a stop is not |
| MoE offload, acquisition, planner, conversion | expert slots, download manifests | load, evict, resume | bounded slots, resumable files | resident experts are the requested ones |
| Kernels, models, layers, protocol adapters, CLI | none that others rely on | | numerics and text | outside this method |

They interact as follows. A client call to the daemon becomes a job on the
lifecycle pool (one worker), which calls the serve manager or the checkpoint
manager. Monitor threads call `_reap` and may start an auto-restart thread.
Tailers, monitors and lifecycle calls append to the log ring, whose
subscribers hand records to the event loop. A stop asks the engine over HTTP
to seal its accounting, which closes admission, drains or aborts requests and
waits for the scheduler's acknowledgements. The scheduler receives requests
and aborts from two kinds of worker, in no fixed order between them.

## Modules

| Module | Models | Run as |
|---|---|---|
| `ServeManager` | serve manager, outbox, pidfile, boot and exit of the daemon | `MCServeManager` |
| `ServeManagerProofs` | the proofs about it | `tlapm` |
| `OverlapScheduler` | scheduler loop, managers, cache manager, prefix cache | `MCOverlapScheduler` |
| `OverlapSchedulerProofs` | proofs: replies, locks of the prefix cache, KV pages, page-table rows and what they hold | `tlapm` |
| `SwaRadix` | the sliding-window cache and the scheduler's use of it | `MCSwaRadix` |
| `SwaRadixProofs` | proofs: its tree, its locks, the rows that read it, its pages and window slots | `tlapm` |
| `PrefixRetention` | prefix service, asynchronous store, endpoint cache | `MCPrefixRetention` |
| `PrefixRetentionProofs` | proofs: tickets, buffers, slots and pins of the prefix service | `tlapm` |
| `PrefixMap` | abstract: a map of records that may forget but not lie | `PrefixStore` |
| `PrefixStore` | record files, quota, recovery; implements `PrefixMap` | `MCPrefixStore` |
| `PrefixStoreProofs` | proofs: the store and its refinement of `PrefixMap` | `tlapm` |
| `Frontend` | API process, stop accounting, supervisor, tokenizer worker | `MCFrontend` |
| `FrontendProofs` | proofs: the books, the gate, the replies and the supervisor | `tlapm` |
| `LogStream` | log ring and one client's SSE stream | itself |
| `LogStreamProofs` | the proofs about it | `tlapm` |
| `CheckpointManager` | conversion jobs and the routes that feed them | itself |
| `CheckpointManagerProofs` | the proofs about it | `tlapm` |

The modules meet where one component's promise is another's assumption. The
serve manager treats prepare-stop as a choice of answers; `Frontend` shows what
stands behind the answer "sealed". `Frontend` lets the scheduler speak in any
order it may; `OverlapScheduler` shows that its last word on a request is final.
`PrefixRetention` treats the files as an index; `PrefixStore` has the files, and
closes only a store without pins, which is what `NamespaceHeld` and
`PinnedStaysIndexed` of `PrefixRetention` establish.

Where several small statements are read together they are one property whose
conjuncts are named: `Consistent` in `ServeManager`, `Frontend` and
`PrefixRetention` (types first), `RootSound` in `PrefixStore`, `TreeSound` in
`SwaRadix`; `ResourcesAccounted` and `NoSilentLoss` include their types too.

### ServeManager

A *generation* is one spawned engine; its identity (pid and start time) is not reused,
which the checks of `osproc.py` establish. At most one *transaction* (start,
auto-restart, stop, switch, shutdown) holds `_lifecycle`; `kind`, `pc`, `gen`, `cfg`,
`force`, `rcpt` are its local variables, and every stretch between two lock
operations, calls to the outside, or waits is an action. The wait in `_start` (`:290`)
is for a spawn in flight and cannot be reached: whoever spawns holds `_lifecycle`, and
so does whoever would wait. `guard` is `_accounting_guard`. Each generation has a
reaper whose program counter is `rpc`; `restarts` are the auto-restart threads;
`probe` is a statistics poll between its HTTP answer and `observe_accounting`. `proc`,
`pidfile` and `outbox` outlive the daemon: `DaemonDies` clears the rest, `DaemonBoots`
re-adopts. Saving the pidfile may fail, and so may removing it: `clear()` swallows the
error and the file stays (`ClearRecord`; `uncleared` remembers which generations it
named then, and `Consistent` excuses those). `voided` records, for observation only,
that a stop came after the crash a restart answers. The answer of the engine's
prepare-stop is a choice (sealed, unavailable, failed). HTTP, uptimes and the OOM
adjustment are left out.

### OverlapScheduler

One iteration of `overlap_loop` is a cycle of `pc`: receive messages, admit
(one action per request of `pending_list`), launch, drain the previous batch
(one action per request), flush the acknowledgements. Device work is applied at
launch, in launch order: the stream waits at `scheduler.py:294-317` establish
that. What a forward computes is kept as *which token prefix* each offset of
each page holds, so that reading a page another request has overwritten is
visible. The free list is the exact queue. The radix tree is the set of
page-aligned prefixes it holds, with a reference count each; the grouping into
nodes and the LRU order become a choice of any extension-closed set of
unreferenced prefixes to evict, which includes what the code picks. A failed
allocation assertion is the state `crashed`. The latency policy may pick any
budget and either phase, which includes what it picks. Stop strings end a
request exactly as the end token does.

Modelled is the plain radix mode with one token per decode step. Speculative
decoding, exact mode, images and the hybrid cache are not modelled; the
sliding-window cache is `SwaRadix`, prefix restores are `PrefixRetention`, cache
rebuild and `PromptAdmittedMsg` are, as messages, in `Frontend`.

### SwaRadix

`tree` holds what an operation of the cache takes and returns: the nodes, the
page of every cached prefix, the free pages of the full pool and the pages that
have a window slot. A node is named by the token prefix it ends at, which is
what survives a split (the object stays the suffix). The other variables are
the requests, the two batches that may be in flight and the allocation being
made. Requests are admitted in chunks, decode past the window, release what
left it, commit, finish or are aborted one batch late, as the loop does it.
`crossed` is a history variable: some commit has gone past a tombstone that another
reader full-locks, less than a window before its own end (`Crosses`), so that `insert`
did not revive the tombstone and the re-match may have stopped before it.

Abstracted: pages hold one token; any evictable node may be the victim, of which
the LRU picks one; the four size counters are the sums they stand for; a batch
holds one request, to which the latency policy may cut it; the window is
released every forward instead of every few; `Gap` stands for the 16 tokens the
code keeps behind the window, and 1 suffices to reach both sides of it. The
tool-call anchor and the image spans are left out. `SwaConstants` assumes the
floor on the window pool that `_swa_pool_floor` computes. There is no liveness
here: it is a property of the loop, checked in `OverlapScheduler`.

`ApartArrivals` lets prompts part from a shared head by at least a window.
`CloseArrivals` does not, and refutes `WindowLive`: see the findings.

### PrefixRetention

`at` is the program counter of the scheduler's thread inside the service, and `worker`
of the I/O thread; a call is cut where the other thread can be seen to have moved,
between the two halves of `_submit` and of `poll`. `flags` are the `threading.Event`s.
A GPU copy ends in an action of its own (`GpuDone`), later than the I/O that waits for
it. An image is a recurrent-state slot with the private pages that are allocated and
returned with it; `ImagesConserved` says each is free, in one endpoint, or with one
restore, and `BuffersOwned` that nobody reuses one while a transfer is running on it.
Whether a restore pays off (the cost estimate) and when a wait has timed out are free
choices. The endpoint cache keeps its recency order; a page shortage of a running
request evicts from it too (`_allocate`). `readers` of an endpoint are its write
leases. Which endpoints a running request reads besides, and which have their own copy
still under way, is a free choice of each call (`busy`, `raw`), so the model may evict
and match whatever the code may. The bound on the bytes of their metadata and the
slots of running requests are left out. I/O ends well or with one of the fault kinds:
the store does not open, an error that is a miss, one of an unexpected class, one that
ends the thread, a record left without its file; what follows a ticket that was
cancelled in the queue can fail as well (`WorkerSkipFails`). A poll that raises is
followed by `close`, as the scheduler does it.

### PrefixStore and PrefixMap

A process opens a store for its namespace, recovers it, pins, writes and closes;
every file operation is an action, and before each of them the process may die
and the machine may stop. What was not synced is then as it is or as it was. The code
syncs a directory after the rename of a record (`store.py:270`) and the root when it
commits limits, and never after an unlink (`quota.py:238`, `store.py:187`,
`store.py:282-283`). So `was` keeps, for every key, all that has lain under it since its
directory was last synced, and `adrift` the directories made or removed since the root
was; `Outage` undoes any part of both. An evicted record may be back beside the one it
made room for, a record may be gone again, its temporary file back. Contents that were
not synced are torn. `lapsed` says that this has happened since limits were last
committed: the root may then be over its limits until a store is opened, which is when
the code enforces them. Locks die with their process. Limits belong to a process, so a
record may be larger than what a later process accepts; it does not validate then, and
recovery unlinks it (`Readable`). `Foreign` are files of somebody else under a record's
name. Recency is left out: any record that may be evicted may be the oldest.

Coarser than a file system are these. Entries are undone one by one, so a rename may be
half undone, which a disk with atomic renames does not do. One torn temporary file
stands for all that come back in a namespace, since whoever meets them unlinks them
unread. A lock file lasts as long as its directory. A directory removed and made again
is not given back as it was before.

`ImplementsMap` is the refinement: the valid record files, the pins and the
committed limits, read through the mapping, behave as `PrefixMap` allows, which
forgets only what is not pinned, adds only within the limits, and after a power loss
brings back only what was forgotten and not settled by a sync (`lost`). `NeverTorn`
is what the map cannot say: an indexed record has a whole file.

### Frontend

One event loop and one supervisor thread share `maintenance_state` (`gate`) and
`fatal_error` (`fatal`). Tasks of the loop interleave at their awaits. `lp` marks the
two places where a task tests one shared field and then writes the other, so that the
thread can run in between. The loop may likewise run inside the thread's callback,
between the test of `_on_ready` and its write (`ReadyTest`, `ReadySet`; a budget
without `preempts` is a behaviour in which it does not); `reopened` remembers that the
write opened a gate that had been closed meanwhile. A send may raise: nobody undoes
`new_user` then (`RequestUnsent`), and the request stays in flight until a
prepare-stop aborts it; an abort that is not sent ends that prepare-stop with an error
and leaves the other aborts running (`AbortUnsent`). Two abort tasks for one uid are
one. The tokenizer is the shared one (`num_tokenizer = 0`): what comes from clients
and from the scheduler meets in one drain, and the worker re-sends it grouped by kind.
The scheduler is present only as far as it speaks: admits, samples, ends,
acknowledges, rebuilds, dies. `budget` bounds the outside events; `crashed`,
`reopened`, `work` and `got` are history variables, of worker deaths, of that write,
of tokens admitted and sampled, and of what each client received. A response is
`Stranded` when its consumer waits for an event that its abort has taken away; this
happens only once the process is stopping or a stop is being prepared, and the
liveness properties name it.

### LogStream

A record is its sequence number. `Store` is the critical section of `append`, `FanOut`
its calls to the subscribers, by any number of threads, `Put` the callback on the
event loop, `Snapshot` to `Deliver` the handler and its generator, with a client that
may leave at any yield and come back with its last id. `Abandon` is a client that left
before the response entered the generator (the behaviour of Starlette's
`StreamingResponse`, external). `mixed` is a history variable: the records whose
appends overlapped, that is, which were numbered while another one for the same
subscriber had been numbered and not pushed, and that other one (`Unsent`). Two
threads may push those in either order, and the properties of the stream except them.

### CheckpointManager

The lifecycle pool is a queue and one worker; `/checkpoint/start` submits
`stop` ("clear") and, when that has returned, `convert`. A conversion may ignore
SIGTERM. The serve is reduced to whether it runs. The code also provides for a
cancel between the reservation and the spawn; one worker never meets that
window, and it is left out.

## Runs

| Run | Instance | Shows |
|---|---|---|
| `serve_safety` | 2 generations, 1 configuration, 1 daemon death, 1 failed pidfile write, 1 failed removal of it, symmetry on generations | all safety properties of the serve manager |
| `serve_liveness` | 1 generation, 2 configurations (one of an engine without prepare-stop), 1 daemon death, 1 failed removal of the pidfile, 1 poll | every call returns, a dead engine is forgotten |
| `serve_orphan` | 2 generations | `OwnedIsRecorded` fails |
| `sched_core` | 3 requests, 2 abortable, 6 pages of 1 token, 2 rows, budget 2 | pages, contents, reservations and replies |
| `sched_paged` | 2 requests, 2 pages of 4 tokens, latency policy | pages and locks with partly filled pages and over-commitment; every request ends, every abort is acknowledged |
| `swa_tree` | 3 requests in 8 arrival orders, window 2, gap 1, 24 pages, 16 window slots, 1 abort | both pools conserved, rows backed, windows live, tree sound |
| `swa_dangling` | the same with prompts that part less than a window after a shared head | `WindowLive` fails |
| `prefix_retention` | 2 records, 2 requests, 2 slots, 2 tickets at once, 1 record on disk, 1 fault, 2 tickets issued | buffers, images, pins and waiters through cancels, timeouts and errors; waiters go on, close ends |
| `prefix_store` | 2 processes, 2 namespaces, 2 sizes of record, 2 sets of limits (one too small for the larger record), 3 opens, 2 writes, 1 fault, 1 pin, a foreign file or none | files within limits, no torn record, the map implemented, calls end |
| `frontend_stop` | 5 budgets, 2 uids, 1 rebuild, 2 messages per drain | sealed totals final and gate shut (but for a preempted `_on_ready`), stop is not a crash; books close, callers answered, stop ends |
| `log_stream` | 2 appending threads, ring 2, queue 2, 5 records, 2 connections | completeness, order, exact gaps, eventual report |
| `ckpt_jobs` | 2 ids, 2 conversions, 1 queued request | one conversion, cancel works, worker returns |

**Why the bounds are enough.** In the serve manager every race is between the slot's
current engine and its successor, so two generations reach all of them; the theorems
below cover any number. A second configuration only adds the conflict and the switch
to another engine, which the liveness run takes. In the scheduler, sharing needs two
requests, and a third is needed for a waiting request to meet pages that another one
has promised; two rows and a budget of two make the queue wait and prompts split. Six
pages are fewer than three requests may need, so eviction happens; page size 1 makes
reservation and allocation agree, page size 4 makes the boundaries of pages matter. In
the window cache a prompt of five tokens is more than two windows, so a request both
keeps and gives back pages of a shared path; a prompt of sixteen needs two chunks and,
with the pool's 24 pages, evicts; a third request meets what the first two left. With
two tickets a write is under way while a restore begins or waits, and what one leaves
in the queues meets the other; a submission is refused because the worker has stopped,
not because the table is full. Two endpoints and two slots fill the memory cache, one
disk record makes each write evict, and one fault is enough because after the first
error of the unexpected kinds the service is closed or disabled. In the store two
processes race for the root and two namespaces make one evict the other's records; the
one fault is a power loss, a crash or a failing operation at any step, and the opens
that follow meet what it left (with a second fault the safety properties hold too, on
713,084 states, too many for the run with its liveness). The budgets of
`frontend_stop` pair the events whose orders matter (two requests and a stop, a death
and a stop, a death and a rebuild, a leaving client or a send that raises and a
retried stop, a rebuild and a stop); all of them at once adds states and no pair. Five
records through a ring and a queue of two overflow both and leave a live tail, also
when two threads append them. Two conversions suffice for a late monitor to meet a
successor.

**Deadlock.** All systems but the serve manager may stop: an idle scheduler
blocks for a message, nobody is obliged to append or to ask, a closed service, a
terminated frontend and a store without callers rest, and bounds run out. Their
configurations say so. The serve manager's runs check deadlock.

**Fairness.** Threads of a live process are scheduled: weak fairness on the
lifecycle transaction, each reaper, the loop, the event loop, the worker and the
monitors. Strong fairness on `ReapAccount`, because the accounting guard is a
plain lock that lifecycle calls take and release between requests. A signalled
SIGKILL works. No client, engine, conversion or fault is fair: an engine may
run for ever and a conversion may ignore SIGTERM. In the scheduler the
admission, launch and drain steps together are fair, since one thread takes
them in turn and every launched forward completes. In the frontend the
loop, the supervisor, the two workers and the sockets progress; clients,
signals and deaths are never forced. In the prefix service the actor, the worker and the end
of a GPU copy are weakly fair each; the scheduler polls in every iteration. In
the store a process that is inside a call goes on, unless it crashes.

## Proofs

`ServeManagerProofs` proves, for all sets of generations and configurations and all
bounds, under `ServeAssumption` (None is neither a generation nor a configuration, the
bounds are naturals): `ServeTypes`, `ServeSignals`, `ServeReaped`, `ServeConsistent`
(the two together), `ServeSingle`, `ServeAdoptable`, `ServeLatch`, `ServeSealed`.
`ServeSingle` also uses that a set without two different members has at most one
(`FiniteSetTheorems`).

None of the properties is inductive. That a signalled engine has a receipt
needs that a stop past the outbox holds one; that a reaped engine is gone needs
the order in which its reaper forgets, clears and wakes, and that nobody
re-installs it; that there is one engine needs that a live engine is in the
slot or just spawned by the one transaction. The invariant is `TypeOK` and
`Ownership`, in named parts: `DownIsEmpty`, `TxnOwnsSlot`, `ReaperOwns`,
`RecordsAreBorn`, `StopHasReceipt`, `ShutdownIsFinal`, `LiveIsOwned`,
`GuardSeparates`. `TypeStep` and `OwnershipStep` show that every action keeps
it, one step per action and under it one per part the action can disturb;
`PersistCases`, `EnqueueAdds` and `CrashAdds` say what writing a receipt does to
the outbox.

`CheckpointManagerProofs` proves `CheckpointTypes` and `CheckpointSingle` (never
two conversions) for any ids, conversions and queue, under
`CheckpointAssumption` (None is not an id and not a conversion; the set of
conversions is finite). `OneConversion` alone is not inductive, because
`start` looks at one child only: `SlotOwned` adds that a running conversion is
that child and is not reaped, that a reaped one is dead, that the slot is empty
between the reservation and the spawn, and that a running job outside of that
window has a process. The types need the last part too: it is why `cancel`
finds a process to terminate.

### OverlapSchedulerProofs

For any requests, pool, page size, prompts and policy, under `SchedulerConstants`
(request ids are numbers in a finite set, the pool is finite, sizes are positive,
tokens are numbers, no prompt is empty).

`RepliesTerminate` is `TerminalReply`: after a terminal reply a uid is silent.
The host runs one batch behind the device, so a result may arrive for a request
that has been answered; that nothing is said about it again needs an account of
where every request is. `ReplyInv` keeps it in named parts: `Phases` (what each
phase of an iteration leaves for the next), `Distinct` (nobody is twice in a
queue or a batch, and the drain goes through the batch), `Unqueued` (a request
launched for more than a chunk has left the queue), `Asked` (only accepted
requests are worked on), `AbortsHold` (an aborted uid is in no queue and no
decoder; once it is acknowledged no result of it is awaited; if its message is
still to come, its tombstone is there) and `Answered` (an answered request whose
surplus result is in flight is in `finished`, or in the set that becomes
`finished` when the drain ends).

`LocksAreExact` is `LocksMatchHandles`: a prefix's count is the number of handles
that cover it, and nothing a handle covers is evicted. `LocksInv` adds `Lengths`
(a handle ends within the text, what is computed within what is known, a chunk
before the end of its prompt), `TreeClosed` (with a prefix the cache holds all
shorter ones: insertion keeps it, and eviction because what leaves takes its
extensions along) and `RefsCount`. Admission (`LocksAdmit`), the exchange of
locks at a commit (`Committed`), the release at finish or abort (`Released`) and
eviction (`LocksLaunch`) are the four ways it could break. It stands on
`ReplyInv`: a chunk is recognised by who is still queued.

### OverlapSchedulerProofs: the pages

`ResourcesAreAccounted` is `ResourcesAccounted`, the accounting the code checks
only by counts and only when idle: every page is free, waiting to be freed, in
the cache or in the part of a row its request owns, and in one of these only.
The argument is local: `Single` says of one page that it is in one place, and
each step is described by the places it moves.

* `HandOver` is the release and the commit seen from a page. A request's row is
  cut at its handle, at what the cache has (`CachedPages`), at what it inserts
  (`InsertPages`) and at its end; `Spans` orders the cuts, and the spans go to a
  list, to the cache, and to the list again. `PoolReleased` and `PoolCommitted`
  instantiate it.
* `DealtOnce` is `allocate_paged`: what evict gives back is put behind the free
  list, and the batch's requests take consecutive slices of it. `Slices` says
  that the prefix sums of a batch cut the pool into slices that neither overlap
  nor leave anything between them.
* `PagesDrainEnd` puts the frees held back behind the free list.

`PagesInv` is inductive together with `ReplyInv` and `LocksInv`: `Holding` (who
decodes or is being admitted holds a row; who is marked aborted has been, so a
marked request is not decoded any more), `Rows` (a row is as long as what was
allocated, and the handle lies within both what was computed and what the host
has seen, without which a release would cut the row in the wrong order), `Pool`,
`RowsCount` and `Ledgers`. That `reserved` stays a number of tokens needs that a
decoder has one to generate, and what the fold over the decoders sums to
(`InflightIsDue`).

### OverlapSchedulerProofs: the contents

`RowsReadOwnTokens` is `RowsHoldOwnTokens`: attention reads its own history, whatever
was freed, deduplicated, evicted or aborted in between. Contents are said of places
too: `OwnFilled` of the pages a request owns, up to what it has computed; `TreeFilled`
of the pages of the cache; `Shared` says that the rest of a row, up to the handle, is
the cache's pages for the same tokens. With the first three invariants these are
inductive.

* `FilledKept` is every step that computes nothing: pages keep their contents,
  and one that enters the cache does so under the tokens computed in it
  (`InsertedComputed`: a commit inserts no more than was computed).
* `ContentsLaunch` is the launch. The forward of a request writes at positions it
  has not computed, so past its handle (`BeyondHandle`), so on pages it owns,
  and by `Single` such a page is nobody else's: neither the cache nor another row
  is written. What the request itself reads is unwritten, or written by it in
  that place (`WrittenAt`).
* `ContentsCommitted` is the commit: up to the new handle a row points at the
  cache, be it the old shared part, the pages re-pointed after deduplication or
  its own pages just inserted. A commit that kept its duplicates
  (`CommitRowKept`, a mutant of the runs) breaks `Shared`.

### SwaRadixProofs

For any requests, prompts, sampled tokens, pools, window, gap and budget, under
`SwaConstants`: `SwaTypes` (`TypeOK`), `SwaRowsBacked` (`RowsBacked`), and two of the
three parts of `TreeSound`, `SwaLocksExact` and `SwaLeavesLive`. They hold for the
arrivals of the finding `swa_dangling` too. The pages and the window slots follow in a
second part.

The tree is held together by locks, and the locks by who released what. A node may
be split, revived, tombstoned or trimmed between the lock of a handle and its
release, and the window lock is released not along the nodes it was taken on but
up to a boundary that carries the handle's uuid. The inductive invariant `SwaInv`
says why the two agree:

* `Tree`, of a tree and of handles: `Shape` (the cached prefixes are closed under
  prefixes, a node stands at the end of each branch and wherever two part, and no
  two nodes have the same uuid) and `Locks` (a node has as many full locks as
  `Readers`, handles at or below it, and as many window locks as `Holders`; a handle
  is `Anchored`: its path is live from the end to the boundary, and the boundary, if
  the handle has one, is on the path and covers the window; a leaf is live).
* `RowsBacked`, and no more live pages than window slots.
* `ReqInv`, per request: its row is as long as what it has computed, the handle lies
  within that and within the host's tokens, and a decoding request is ahead of the
  host's tokens by exactly the forwards that will bring one (`Bringing`). Without it
  a commit could reach into a part of the row no result has come back for.
* `LoopInv`: what is being allocated is for a request in the state that asks for it.

A lemma per operation of the cache says what it does to a tree and what it leaves
to the other handles (`SameRead`): split, lock, release, insertion (`Grown`), trim,
unlinking with its cascade, tombstoning, commit and end of a request. A split needs
that both halves inherit the locks, and that the prefix takes the boundary; a lock,
that the fresh uuid is nobody's; the release, that above the boundary another
handle's lock is left alone; unlinking, that no handle ends at or below a free leaf.
The steps of the scheduler follow (`AdmitStep` to `DrainTokenStep`).

The second part proves `SwaPagesConserved`, `SwaWindowLive` and `SwaTreeSound`:
`crossed \/ P` is an invariant, where P is `PagesConserved`, `WindowLive` or
`TreeSound` (whose remaining part says that a node is a tombstone exactly when its
pages have no window slots), for the same constants, with no hypothesis. So every
behaviour keeps the pages right at least up to the first commit that crosses a
tombstone another reader full-locks.

* `crossed` cannot be dropped. The finding `swa_dangling` is the code taking such a step and
  going wrong: the re-match stops before the tombstone, and the rest of the row names pages
  that were freed or that the tree took over. Nothing else the code does can lead
  there, which is what the theorems say.
* `crossed` is a fact about the tree before the commit, not about what the commit
  finds. That a commit which crosses nothing finds again all it inserted, and so keeps
  no stale page in its row, is proved (`CommitRejoins`): past the handle `insert`
  revives every tombstone no reader full-locks (`InsertedLives`), the handle's own
  path is live up to its boundary, and a match whose last window is live goes to the
  end (`MatchesAll`).
* It is false throughout `swa_tree`, with three requests that share, part, split,
  decode, are aborted and evict one another, and with the arrivals of `swa_dangling`
  TLC finds `PagesConserved`, `WindowLive` and `TreeSound` wherever it is false.
* Only the commit of a prompt sets it. Aborts, finishes and dropped drains insert too
  and go on with nothing; they are covered as they are.

Its inductive invariant, beside `SwaInv`, is `PageInv`:

* `Sound`, of a tree and of the pages the requests own: free pages, cached pages and
  owned pages share the pool, no two prefixes have the same page, a free page has no
  window slot, and a cached page has one exactly when its node is no tombstone.
* `Apart`: no two requests own a page.
* `Fits`, per request: its own pages are named once each, have slots exactly past
  the frontier of its trims, and the frontier stays out of the window.

`SoundWith`, `SoundTo` and `SoundBut` say what an operation of the cache does to
`Sound` when pages change hands: allocation takes them, an insertion moves them to the
tree and leaves the duplicates to be freed (`GrownSound`, `InsertSound`; a revived
tombstone takes the request's pages and gives up its own), a tombstone gives back
slots (`BuriedSound`), an unlinked leaf gives back pages (`UnlinkedSound`). `PageChange`
turns that into `PageInv` after a step; `PageLaunch` and `PageToken` are the two steps
where it takes work. In `WindowFollows` what a handle locks above its boundary is not a
tombstone, so it has its slots, and the own part is past the frontier.

### PrefixStoreProofs

For any processes, namespaces, keys, sizes and limits, under `StoreConstants`. Of
sizes it assumes that no record is empty. A record may be larger than the limits of a
later process, which then unlinks it. The disk may undo whatever was not synced.
`StoreInv` says who holds which lock (`LocksHeld`), hence that a namespace is one
process's from `OpenLock` on; so that the index, the pins, the record on its way out
and the temporary file of a write agree with the files (`IndexPinned`, `VictimsOut`,
`WritesOwned`, `FilesWhole`); that limits change only where no store serves under
others (`LimitsFixed`); that nothing a power loss can bring back is torn; that after
one no store serves until an open has enforced and committed limits (`lapsed`); and
that the room a write has made is still there when it renames, because the root lock
is held in between (`RoomLeft`). From it follow `RootIsSound`, `RecordsAreWhole` and
the refinement `StoreImplementsMap`: a rename is `Add`, an unlink `Forget` or (for
what is no record) a stutter, pins are pins, a crash is `Leave`, a sync `Settle`, a
power loss `Outage`, the commit of an open `Relimit`, and every other step stutters.
What the theorems do not say: that a power loss leaves the root within its limits. It
does not; the next open brings it back.

### PrefixRetentionProofs

For any records, requests, slots, limits and kinds of fault, under
`RetentionConstants` (the sets are finite, records are not empty, the limits are
positive, a slot is not 0, which stands for no slot): `BuffersAreOwned`,
`ImagesAreConserved` and `RetentionConsistent`.

None of the three is inductive: a buffer is safe because its ticket is held, a
ticket is held because the table or the restore that names it has not been
cleared, and that is cleared only for a ticket the worker and the GPU have let
go of. `RetentionInv` has the whole chain, in named parts.

* `Submitting`: what `_submit` carries between its two halves, while the worker
  may move; a read has its slot already, a write its lease.
* `Tabled`: a held ticket is the one that `writes` names for its key, or the one
  restore; and the other way round. Hence one write per key and one restore.
* `Leases`: an endpoint has a reader exactly while a write of it is out, and
  then is in memory. Eviction passes over readers, so the lease is never lost.
* `Images`: the slots of the restore and of a submission are in no other hands,
  and with the free ones and those of the endpoints they are all there are.
* `Serving`: the program counter of the worker agrees with its events; what is
  queued is held, unfinished and queued once; a ticket with copies in flight is
  held.
* `Pinned`, `WaitersListed`, `Limits` and the types.

Each action changes a few of these, and each part has a lemma with a step per action
(`TabledStep`, `LeasesStep`, `ImagesStep`, `ServingStep`, and so on). The cache's own
operations are proved once, for any cache: `EvictOneGives` and the lemmas after it say
that what gives way has no reader, keeps the other entries, and hands its slot back.
That the pins of a record are its read tickets, as `PinnedStaysIndexed` counts them,
follows from `Tabled`: there is at most one.

### LogStreamProofs

`StreamIsComplete` and `GapsAreExact` hold for any ring, queue, number of records,
reconnections and appending threads: the tailer of the running engine, and whoever
appends an event line (`serve_manager.py:906`, `checkpoint.py:172`). Pushes are made
outside of the ring's lock, so two threads whose appends overlap may push in the other
order, and what is overtaken may be dropped as old; the section on comments below has
the trace. The theorems except the records whose appends overlapped (`mixed`): those
alone may be missing unannounced, and only a gap that names one of them may be
miscounted. What is received stays in order and comes once, theirs included. With one
thread, or threads that do not overlap, `mixed` is empty. The proof needs what order
the line has when threads overlap: `Before(d, x)` says that whatever is not `mixed`,
up to d, is before x, and `PushesKnown` that a record not pushed yet is the newest or
`mixed`. The invariant says that from the boundary between history and live delivery
on, each record appended alone has been dropped, is in the queue, or waits on the
loop, in order and without a hole.

### FrontendProofs

`FrontendConsistent` and `SealedTotalsFinal` hold for any finite set of uids, any
rebuilds, any number of messages per drain of the tokenizer and any budgets, under
`FrontendConstants` and no other hypothesis. Everything runs in between everything
else: the loop between the test of `_on_ready` and its write, the supervisor between
those of `_resolve_rebuild`, `dispatch_rebuild` and prepare-stop, batches of the
tokenizer that mix both senders, aborts before their requests, sends that raise,
refusals, deaths of either worker. When the write of `_on_ready` does open a gate that
was closed since its test (`reopened`), the gate may admit requests behind sealed
books, as the section on comments below says; what the theorems say of the gate and of
final totals excepts those behaviours, and only those. `reopened` is set by one write
of one thread and stays (`ReopenedOnce`).

`SealedIsFinal` compares two counters at the moment no request is in flight, and
says nothing of why that moment is the last: a token may still be on a wire, in a
batch, or be sampled later. The invariant `FrontInv`, checked by TLC on the
instance of `frontend_stop` before it was proved, says where everything is.

* `Flow`: a request is on its way to the scheduler at most once, and meanwhile no
  work was done for it; one the scheduler works on, and one with a counted message
  on a wire (`CountedInFlight`), is in flight in the statistics.
* `Order`: on the wire to the frontend, and on the one before it, nothing that
  counts comes behind the message that ends its request. This is what the order
  of `_send_generation_replies` and the late acknowledgement of aborts are for;
  with errors first it fails.
* `Books`: what was admitted and sampled is what the statistics counted plus what
  the two wires carry. `Delivery` and `Ends` say the same of one response:
  delivered, in its box, on a wire.
* `GateInv`: at most one rebuild is `Outstanding`, in the loop, on a wire or with
  the scheduler; while it is, the gate is not open, and where prepare-stop has
  closed the gate none is, unless a fatal error keeps its answer from opening it.
* `Sealed`, `Supervision` and the types.

When the books are sealed nothing is in flight, so by `CountedInFlight` nothing
that counts is on a wire, and by `Books` the totals are all the work there was;
from then on the gate admits nobody and the scheduler has nobody to work for.
The proof has a lemma per part (`FlowStep`, `OrderStep`, `BooksStep`, `DeliveryStep`,
`GateStep`, `SealedStep`, `SupervisionStep`). They rest on lemmas about sequences
that are cut, joined and sorted by kind: what is in them, how much of a class
they count (`CountJoined`, `MovedCount`) and whether they are in order
(`OrderlyJoined`); `TokenizerDrain` says with them what one drain does to the
three wires and to the scheduler.

### What the provers asked of the models

Nothing was assumed for a proof that the code does not establish, but some definitions
changed their form, not their meaning, since the provers expand neither `SelectSeq`,
`SortSeq` nor a fold: `Keep`, `InOrder` and `needed_pages` (the last of the prefix
sums `PagesBefore`) in `OverlapScheduler`, `Since` in `LogStream`; in `PrefixStore`
the bytes of a root became a sum over a named set of files (`Stored`, `Bytes`); in
`Frontend` the messages of a kind are picked by a recursive function (`Picked`), and
what a message does to the scheduler has a definition of its own; in `SwaRadix` the
tokens of a set of nodes are the prefixes that lie in them, and the request an
admission makes has a definition of its own; in `PrefixRetention` an eviction removes
the idle entry at the least position, and several evictions are a recursive function.
What a recursive function computes is proved where an invariant needs it, by the least
position at which the claim would fail (`KeptExists` and `KeepKeeps` for `Keep`,
`PickedExists` and `PickedFacts` for `Picked`; the sums of sizes, of tokens and of
pages and the number of evictions likewise), since the induction theorems of the
library cannot be used. `RetentionConstants` names one thing the model had left
unsaid: that 0 is not a slot.

Only model-checked: the reservations of the scheduler (`NeverExhausted`, which does
not hold for every page size), and all liveness (fairness and ENABLED are outside what
the prover handles). That prompts which part by at least a window after a shared head
never make a commit cross a kept tombstone (`~crossed`) is checked by `swa_tree` for
its arrivals; `swa_dangling` refutes it for others.

## Where the code and its comments differ

Two runs end in a violation and are recorded as findings in `PROJECT.json`.

* `serve_orphan`: the monitor of an old engine clears `serve.json` after a new
  start has written it, so a daemon restart would not adopt the live engine.
* `swa_dangling`: a commit does not revive a tombstone that another reader still
  full-locks, and gives back the committing request's own pages for that span
  (`swa_radix_cache.py:177`). The re-match that follows stops before the tombstone
  when less than a window of live tokens comes after it, although
  `cache.py:565-566` counts on every re-matched slot being live; the row then
  keeps pages that have been freed. Two equal prompts and a third that parts
  from them less than a window after the head suffice.

More statements stand in the modules beside the properties, or are checked
properties whose assumption on a constant can be dropped; TLC refutes each with
the constants given.

* `StopOutlivesRestart` (`ServeManager`, 2 generations, 2 configurations,
  auto-restart). "An auto-restart: honor a stop the user requested during/after
  the crash" (`serve_manager.py:274`): a later explicit start clears the latch,
  fails to spawn, and the countermanded restart then spawns its engine.
* `CrashTotalsOwn` (`ServeManager`, 2 generations, 1 poll). "Remember the latest
  validated totals for the current child" (`serve_manager.py:423`): a poll
  answered by one engine is filed under the one that replaced it.
* `NoLeak` (`LogStream`). "the subscriber is always removed in ``finally`` (no
  leak)" (`app.py:400`): not if the generator was never entered.
* `VerdictIsOwn` (`CheckpointManager`, 3 conversions, 2 queued requests).
  "block admission until it is fully reaped" (`checkpoint.py:76`): the event is
  set before the verdict is written, so a restart of the same id receives the
  verdict on its predecessor.
* `ConvertsAlone` (`CheckpointManager`, 2 ids, 3 conversions, 2 queued
  requests). "GPU exclusivity" of a conversion (`checkpoint.py:1-3`): the route
  clears the device in one job and converts in another (`app.py:303`), and a
  serve may start between the two.
* `DeadChildForgotten` with `MaxSaveFails = 1`. "the per-child monitor thread
  blocks in ``child.wait()`` and calls ``_reap`` once" (`serve_manager.py:13-14`):
  when the pidfile cannot be written, the start fails after the engine was
  installed and before its monitor exists (`:321`), so nobody notices its exit.
* `NeverExhausted` (`OverlapScheduler`) with the pages of `sched_paged`. Admission
  promises what the cache says is available (`prefill.py:56`) in tokens, while
  allocation hands out whole pages (`cache.py:695`): the assertion can fail and
  end the process.
* `NeverExhausted` (`SwaRadix`, the instance of `swa_tree`). "The floor keeps a full
  batch always fitting" (`hybrid_swa_pool.py:402-403`): a prefill chunk may take
  every remaining window slot, and the next decode step finds none.
* `NoSilentLoss` (`LogStream`) without its exception for `mixed`. "no gap and
  no duplicate across the replay→live boundary" (`app.py:393-394`): pushes made
  outside the lock overtake each other, and the stream drops what looks old
  (`app.py:457`).
* `NeverReopened` (`Frontend`) with the budget `OneStop`. "never reopen that gate
  after the daemon has received a final accounting snapshot"
  (`api_server.py:1097-1099`): the supervisor thread tests the gate and then writes it
  (`:1100-1101`); if the loop closes the gate and seals the accounting in between, the
  gate reopens. Two adjacent statements of one thread would have to be split by a
  complete prepare-stop. `frontend_stop` lets that happen, and its properties except
  the behaviours in which it did (`reopened`).
* `StopDrains` (`Frontend`). "active HTTP drains before lifespan explicitly stops
  them" (`api_server.py:1153-1154`): an abort by prepare-stop removes the request
  from the maps (`:448-456`) under a consumer that waits for its event
  (`:396-416`). That response never ends, and a graceful stop waits for it; the
  daemon's SIGKILL ends it.
* `NeverReleasedTwice` (`PrefixRetention`). "ticket released twice" is an assertion:
  when the worker completes a ticket and stops between the drain of the done
  queue and the test of the stop flag, the poll reports the ticket twice
  (`async_store.py:186`). The scheduler then raises; the liveness properties
  name that state (`at = "broken"`).
* `InactiveReclaimable` (`PrefixStore`). "Inactive namespaces can be reclaimed"
  (`quota.py:5`): a crash between the creation of a namespace's directory and its
  `.lock` leaves a directory that `_lease` (`quota.py:66-72`) takes for active
  for ever, so no process can bring other limits.

Read, and not stated as a property: `_resolve_rebuild` reads `fatal_error` and
then writes the gate; a `dispatch_rebuild` that races the supervisor's
`on_failure` may leave the gate at "rebuilding" (the liveness properties excuse
it by `fatal`); a client that leaves before its response generator has started
leaves its entries in the maps.

## Not modelled, and why

The bulk of the repository is numerical (kernels, attention, layers, model
definitions, weight loading, CUDA graphs), text (protocol adapters, tool-call
parsers, the CLI, the shell, the planner's reports) or measurement
(benchmarks). It has no state that other parts rely on, or its state is what a
numerical result is, and neither is a matter for these models: they cover a
small share of the lines, the ones that order and failure act on. Proxy, metrics,
tailer and client of the daemon forward or format.

In the modelled parts, left out are: the hybrid cache with its recurrent-state
snapshots, exact mode, speculative decoding and the non-overlap loop; images
and the tool-call anchor of the window cache; dedicated tokenizer workers and
several devices; record encoding and checksums (a record is whole, torn or
rejected); statistics. The MoE expert slots and resumable acquisition are
candidates for later modules; FTW conversion is sequential.

Two daemons at once are excluded by the instance lock, which is assumed; the
daemon releases it while a lifecycle job may still run (`server.py:230`), a
hazard the list records. A `Last-Event-ID` of an earlier daemon life, the cap on
abort tombstones and a conversion that outlives the daemon are recorded there
too.

## Plan

Done: the owner of the engine and its proofs, conversion jobs and their proof,
the log stream, page accounting, the sliding-window cache, prefix persistence
from the ticket to the file with its abstract specification, and the frontend
with stop accounting; proofs of the replies, locks, pages and
contents of the scheduler, of the store with its refinement, of the prefix
service, of the log stream, of the gate and the books of the frontend, and of the
tree, the locks, the pages and the window slots of the sliding-window cache. Next,
in this order:

1. `RadixTree`: nodes, splits and timestamps of `radix_cache.py`, shown to
   implement the prefix set that `OverlapScheduler` uses.
2. The hybrid cache and exact mode in the scheduler; the MoE expert slots; resumable
   acquisition.
