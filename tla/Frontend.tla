------------------------------- MODULE Frontend -------------------------------
(***************************************************************************)
(* The API process of a serve: FrontendManager on the event loop, the      *)
(* stop-accounting barrier, cache-rebuild control, the supervisor thread   *)
(* that watches the workers, and the two workers it talks to: the          *)
(* tokenizer process, which drains its socket in batches and re-sends the  *)
(* messages grouped by kind, and the scheduler, here only as far as it     *)
(* speaks (OverlapScheduler has the rest).                                 *)
(*                                                                         *)
(* Two threads share maintenance_state and fatal_error: the event loop and *)
(* the supervisor.  Loop tasks interleave at their awaits; a task that     *)
(* reads a shared field and writes one after it can be preempted by the    *)
(* supervisor in between, which is what `lp' records.                      *)
(*                                                                         *)
(* Channels are FIFO per sender.  The tokenizer is the shared one          *)
(* (num_tokenizer = 0), so client messages and scheduler results meet in   *)
(* one drain in any order.                                                 *)
(***************************************************************************)
EXTENDS Integers, Sequences, FiniteSets, SequencesExt

CONSTANTS
    Uids,         \* the uids the counter hands out, 0 .. n
    Rebuilds,     \* ids of cache rebuilds
    LocalBs,      \* messages the tokenizer takes per drain (local_bs)
    Budgets       \* bound: how much of each outside event a behaviour has

ASSUME FrontendConstants ==
    /\ Uids \subseteq Nat /\ IsFiniteSet(Uids)
    /\ LocalBs \in Nat \ {0}
    /\ IsFiniteSet(Rebuilds)
    /\ Budgets \subseteq [users : Nat, tokens : Nat \ {0}, leaves : Nat,
                           prepares : Nat, rebuilds : Nat, stops : Nat, faults : Nat,
                           preempts : BOOLEAN,
                           rejects : SUBSET Uids, deaths : SUBSET {"tokenizer", "scheduler"}]

VARIABLES
    gate,      \* maintenance_state
    fatal,     \* fatal_error is set
    lp,        \* where the event loop is inside an atomic stretch
    sup,       \* program counter of the supervisor thread
    failing,   \* fail_all and _resolve_all are queued on the loop
    genfailed, \* _generations_failed
    http,      \* per uid: the HTTP task that consumes its replies
    mapped,    \* uids in ack_map and event_map
    box,       \* ack_map: replies not yet taken
    event,     \* uids whose asyncio.Event is set
    stats,     \* StatsTracker: inflight, aborting and the two totals
    sleeping,  \* abort_user tasks of disconnected clients, before their body
    prep,      \* prepare_stop_accounting: step and uids to abort
    sealed,    \* _sealed_accounting
    rebuild,   \* per rebuild: the HTTP task that awaits its future
    f2t, s2t, t2f,   \* sockets: frontend, scheduler to tokenizer; to frontend
    sched,     \* the scheduler: per uid its stage, tombstones, acks, rebuild
    alive,     \* workers still running
    term,      \* uvicorn has been told to stop
    down,      \* _SHUTTING_DOWN
    budget,    \* bound: what is left of the behaviour's budget
    crashed,   \* history: a worker died by itself
    reopened,  \* history: _on_ready opened a gate closed since it tested it
    work,      \* history: prompts admitted and tokens sampled
    got        \* history: per uid, tokens sampled, delivered, and the end

taskvars == <<http, mapped, box, event>>
stopvars == <<prep, sealed>>
wires    == <<f2t, s2t, t2f>>
back     == <<sched, alive, crashed, reopened, work>>
vars == <<gate, fatal, lp, sup, failing, genfailed, taskvars, stats, sleeping,
          stopvars, rebuild, wires, back, term, down, budget, got>>

Workers == {"tokenizer", "scheduler"}
NotSealed == [prompt |-> -1, completion |-> -1]
Free == [at |-> "free", msg |-> [kind |-> "none", id |-> 0]]
Msg(kind, id) == [kind |-> kind, id |-> id]

\* Kinds of reply that end a request: a last token, or an error.
Terminal(m) == m.kind \in {"final", "error"}

-----------------------------------------------------------------------------
(* The event loop.  A task runs until it awaits; LoopFree says that none   *)
(* is in the middle of such a stretch.  A behaviour without preempts is one *)
(* in which _on_ready happens to run as a whole.                           *)

Preempting == sup = "ready" => budget.preempts

LoopFree == lp = Free /\ down # "terminated" /\ Preempting

At(point) == lp.at = point /\ Preempting

\* new_user and the rest of the request's handler up to send_one.
new_user(u) ==
    /\ LoopFree /\ ~term
    /\ gate = "serving" /\ ~fatal
    /\ http[u] = "none" /\ \A v \in Uids : v < u => http[v] # "none"
    /\ u < budget.users
    /\ mapped' = mapped \cup {u}
    /\ http' = [http EXCEPT ![u] = "open"]
    /\ stats' = [stats EXCEPT !.inflight = @ \cup {u},
                              !.aborting = @ \ {u}]
    /\ lp' = [at |-> "send", msg |-> Msg("request", u)]
    /\ UNCHANGED <<gate, fatal, sup, failing, genfailed, box, event, sleeping,
                   stopvars, rebuild, wires, back, term, down, budget, got>>

\* send_one, after whatever its caller did in the same stretch: a message for
\* a dead backend is not sent, and everyone who waits is told instead.
send_one ==
    /\ At("send")
    /\ IF fatal THEN failing' = TRUE /\ UNCHANGED f2t
                ELSE f2t' = Append(f2t, lp.msg) /\ UNCHANGED failing
    /\ lp' = Free
    /\ UNCHANGED <<gate, fatal, sup, genfailed, taskvars, stats, sleeping,
                   stopvars, rebuild, s2t, t2f, back, term, down, budget, got>>

\* The send of a request raises: no handler of the caller undoes new_user.
RequestUnsent(u) ==
    /\ LoopFree /\ ~term /\ budget.faults > 0
    /\ gate = "serving" /\ ~fatal
    /\ http[u] = "none" /\ \A v \in Uids : v < u => http[v] # "none"
    /\ u < budget.users
    /\ mapped' = mapped \cup {u}
    /\ http' = [http EXCEPT ![u] = "unsent"]
    /\ stats' = [stats EXCEPT !.inflight = @ \cup {u},
                              !.aborting = @ \ {u}]
    /\ UNCHANGED <<gate, fatal, lp, sup, failing, genfailed, box, event, sleeping,
                   stopvars, rebuild, wires, back, term, down, got>>
    /\ budget' = [budget EXCEPT !.faults = @ - 1]

-----------------------------------------------------------------------------
(* listen: every reply is observed by the statistics, then handed to its   *)
(* request if somebody still waits for it.                                 *)

\* StatsTracker.observe.
observe(s, m) ==
    [s EXCEPT !.inflight = IF Terminal(m) THEN @ \ {m.id} ELSE @,
              !.aborting = IF Terminal(m) THEN @ \ {m.id} ELSE @,
              !.prompt = @ + (IF m.kind = "admitted" THEN 1 ELSE 0),
              !.completion = @ + (IF m.kind \in {"token", "final"} THEN 1 ELSE 0)]

Boxed(replies, m) == Append(replies, m.kind)

listen ==
    /\ LoopFree /\ t2f # <<>> /\ Head(t2f).kind \notin {"rebuilt", "rebuild_failed"}
    /\ LET m == Head(t2f)
           delivers == ~genfailed /\ m.id \in mapped
       IN  /\ stats' = observe(stats, m)
           /\ box'   = IF delivers THEN [box EXCEPT ![m.id] = Boxed(@, m)]
                                   ELSE box
           /\ event' = IF delivers THEN event \cup {m.id} ELSE event
    /\ t2f' = Tail(t2f)
    /\ UNCHANGED <<gate, fatal, lp, sup, failing, genfailed, http, mapped,
                   sleeping, stopvars, rebuild, f2t, s2t, back, term, down, budget, got>>

\* _resolve_rebuild: wakes the waiter and tests fatal_error; the gate is
\* written in the next step, the supervisor may run in between.
ResolveRebuild ==
    /\ LoopFree /\ t2f # <<>> /\ Head(t2f).kind \in {"rebuilt", "rebuild_failed"}
    /\ LET m == Head(t2f)
           outcome == IF fatal \/ m.kind = "rebuild_failed" THEN "failed"
                                                            ELSE "serving"
       IN  /\ rebuild' = [rebuild EXCEPT ![m.id] =
                            IF @ = "waiting" THEN "answered" ELSE @]
           /\ lp' = [at |-> "resolve", msg |-> Msg(outcome, m.id)]
    /\ t2f' = Tail(t2f)
    /\ UNCHANGED <<gate, fatal, sup, failing, genfailed, taskvars, stats,
                   sleeping, stopvars, f2t, s2t, back, term, down, budget, got>>

ResolveGate ==
    /\ At("resolve")
    /\ gate' = lp.msg.kind
    /\ lp' = Free
    /\ UNCHANGED <<fatal, sup, failing, genfailed, taskvars, stats, sleeping,
                   stopvars, rebuild, wires, back, term, down, budget, got>>

\* Only the rebuilds are failed.
FailRebuildsOnly ==
    /\ LoopFree /\ failing
    /\ failing' = FALSE /\ genfailed' = TRUE
    /\ rebuild' = [i \in Rebuilds |-> IF rebuild[i] = "waiting" THEN "answered"
                                                                ELSE rebuild[i]]
    /\ UNCHANGED <<gate, fatal, lp, sup, taskvars, stats, sleeping,
                   stopvars, wires, back, term, down, budget, got>>

\* The callbacks fail_pending_rebuilds and fail_pending_generations queue.
FailPending ==
    /\ LoopFree /\ failing
    /\ failing' = FALSE /\ genfailed' = TRUE
    /\ rebuild' = [i \in Rebuilds |-> IF rebuild[i] = "waiting" THEN "answered"
                                                                ELSE rebuild[i]]
    /\ LET told == {u \in mapped : \A k \in DOMAIN box[u] :
                                     box[u][k] \notin {"final", "error"}}
       IN  /\ box' = [u \in Uids |-> IF u \in told THEN Append(box[u], "error")
                                                   ELSE box[u]]
           /\ event' = event \cup told
    /\ UNCHANGED <<gate, fatal, lp, sup, http, mapped, stats, sleeping,
                   stopvars, wires, back, term, down, budget, got>>

-----------------------------------------------------------------------------
(* wait_for_ack, the generator behind every response.                      *)

\* Its first line looks its event up; a request aborted before that fails.
ConsumerStart(u) ==
    /\ LoopFree /\ http[u] = "open"
    /\ http' = [http EXCEPT ![u] = IF u \in mapped THEN "waiting" ELSE "broken"]
    /\ UNCHANGED <<gate, fatal, lp, sup, failing, genfailed, mapped, box, event,
                   stats, sleeping, stopvars, rebuild, wires, back, term, down, budget, got>>

\* The event is set: take what the box holds, and end after a terminal reply,
\* when the generator's finally clause forgets the request.  Without a box
\* (an abort deleted it) the lookup fails.
ConsumerTake(u) ==
    /\ LoopFree /\ http[u] = "waiting" /\ u \in event
    /\ LET taken == box[u]
           ends  == taken # <<>> /\ Last(taken) \in {"final", "error"}
           count == Cardinality({k \in DOMAIN taken : taken[k] \in {"token", "final"}})
       IN  IF u \notin mapped
           THEN /\ http' = [http EXCEPT ![u] = "broken"]
                /\ UNCHANGED <<mapped, box, got>>
           ELSE /\ http' = [http EXCEPT ![u] = IF ends THEN "ended" ELSE @]
                /\ mapped' = IF ends THEN mapped \ {u} ELSE mapped
                /\ box' = [box EXCEPT ![u] = <<>>]
                /\ got' = [got EXCEPT ![u].delivered = @ + count,
                                      ![u].last = IF ends THEN Last(taken) ELSE @]
    /\ event' = event \ {u}
    /\ UNCHANGED <<gate, fatal, lp, sup, failing, genfailed, stats, sleeping,
                   stopvars, rebuild, wires, back, term, down, budget>>

\* The client goes away: stream_with_cancellation leaves an abort_user task
\* behind, and the cancelled generator forgets the request.  A generator that
\* was never started has no handler that could do either.
Disconnect(u) ==
    /\ LoopFree /\ budget.leaves > 0 /\ http[u] \in {"open", "waiting"}
    /\ http' = [http EXCEPT ![u] = "left"]
    /\ IF http[u] = "waiting"
       THEN mapped' = mapped \ {u} /\ sleeping' = sleeping \cup {u}
       ELSE UNCHANGED <<mapped, sleeping>>
    /\ UNCHANGED <<gate, fatal, lp, sup, failing, genfailed, box, event, stats,
                   stopvars, rebuild, wires, back, term, down, got>>
    /\ budget' = [budget EXCEPT !.leaves = @ - 1]

\* StatsTracker.on_abort: it stays in flight until its terminal reply.
on_abort(s, u) ==
    [s EXCEPT !.aborting = IF u \in s.inflight THEN @ \cup {u} ELSE @]

\* abort_user after its sleep, up to send_one, as a task of its own or under
\* the gather of prepare-stop.
abort_user(u) ==
    /\ LoopFree
    /\ \/ u \in sleeping /\ sleeping' = sleeping \ {u} /\ UNCHANGED prep
       \/ u \in prep.todo /\ prep' = [prep EXCEPT !.todo = @ \ {u}]
          /\ UNCHANGED sleeping
    /\ mapped' = mapped \ {u}
    /\ stats' = on_abort(stats, u)
    /\ lp' = [at |-> "send", msg |-> Msg("abort", u)]
    /\ UNCHANGED <<gate, fatal, sup, failing, genfailed, http, box, event,
                   sealed, rebuild, wires, back, term, down, budget, got>>

\* The send of an abort raises: a task of its own is gone, and under the
\* gather prepare-stop refuses at once and leaves the other aborts behind.
AbortUnsent(u) ==
    /\ LoopFree /\ ~fatal /\ budget.faults > 0
    /\ \/ u \in sleeping /\ sleeping' = sleeping \ {u} /\ UNCHANGED prep
       \/ u \in prep.todo /\ prep' = [prep EXCEPT !.at = "idle", !.todo = {}]
          /\ sleeping' = sleeping \cup (prep.todo \ {u})
    /\ mapped' = mapped \ {u}
    /\ stats' = on_abort(stats, u)
    /\ UNCHANGED <<gate, fatal, lp, sup, failing, genfailed, http, box, event,
                   sealed, rebuild, wires, back, term, down, got>>
    /\ budget' = [budget EXCEPT !.faults = @ - 1]

-----------------------------------------------------------------------------
(* prepare_stop_accounting, one call at a time under its lock.             *)

\* The test of the gate; a sealed process answers from the cache.
PrepareCall ==
    /\ LoopFree /\ ~term /\ prep.at = "idle" /\ budget.prepares > 0
    /\ sealed = NotSealed
    /\ prep' = [prep EXCEPT !.at = IF gate = "rebuilding" THEN "idle" ELSE "drain"]
    /\ lp' = IF gate = "rebuilding" THEN Free
             ELSE [at |-> "stop", msg |-> Msg("none", 0)]
    /\ UNCHANGED <<gate, fatal, sup, failing, genfailed, taskvars, stats, sleeping,
                   sealed, rebuild, wires, back, term, down, got>>
    /\ budget' = [budget EXCEPT !.prepares = @ - 1]

\* A barrier that leaves the gate as it is while it drains.
PrepareCloseOpen ==
    /\ At("stop")
    /\ lp' = Free
    /\ UNCHANGED <<gate, fatal, sup, failing, genfailed, taskvars, stats, sleeping,
                   stopvars, rebuild, wires, back, term, down, budget, got>>

PrepareClose ==
    /\ At("stop")
    /\ gate' = "stopping"
    /\ lp' = Free
    /\ UNCHANGED <<fatal, sup, failing, genfailed, taskvars, stats, sleeping,
                   stopvars, rebuild, wires, back, term, down, budget, got>>

Awaiting == prep.at = "drain" \/ (prep.at = "abort" /\ prep.todo = {})

\* _wait_for_idle returned True, in either wait: seal the totals.
PrepareSeal ==
    /\ LoopFree /\ Awaiting /\ stats.inflight = {}
    /\ sealed' = [prompt |-> stats.prompt, completion |-> stats.completion]
    /\ prep' = [prep EXCEPT !.at = "idle"]
    /\ UNCHANGED <<gate, fatal, lp, sup, failing, genfailed, taskvars, stats,
                   sleeping, rebuild, wires, back, term, down, budget, got>>

\* It timed out the first time: abort whatever is in flight.
PrepareAbort ==
    /\ LoopFree /\ prep.at = "drain" /\ stats.inflight # {}
    /\ prep' = [prep EXCEPT !.at = "abort", !.todo = stats.inflight]
    /\ UNCHANGED <<gate, fatal, lp, sup, failing, genfailed, taskvars, stats,
                   sleeping, sealed, rebuild, wires, back, term, down, budget, got>>

\* It timed out the second time: refuse, with the gate still closed.
PrepareRefuse ==
    /\ LoopFree /\ prep.at = "abort" /\ prep.todo = {} /\ stats.inflight # {}
    /\ prep' = [prep EXCEPT !.at = "idle"]
    /\ UNCHANGED <<gate, fatal, lp, sup, failing, genfailed, taskvars, stats,
                   sleeping, sealed, rebuild, wires, back, term, down, budget, got>>

-----------------------------------------------------------------------------
(* POST /v1/cache/rebuild and dispatch_rebuild.                            *)

RebuildCall(i) ==
    /\ LoopFree /\ ~term /\ budget.rebuilds > 0 /\ rebuild[i] = "none" /\ gate = "serving"
    /\ lp' = [at |-> "rebuild", msg |-> Msg("rebuild", i)]
    /\ UNCHANGED <<gate, fatal, sup, failing, genfailed, taskvars, stats, sleeping,
                   stopvars, rebuild, wires, back, term, down, got>>
    /\ budget' = [budget EXCEPT !.rebuilds = @ - 1]

dispatch_rebuild ==
    /\ At("rebuild")
    /\ gate' = "rebuilding"
    /\ rebuild' = [rebuild EXCEPT ![lp.msg.id] = "waiting"]
    /\ lp' = [at |-> "send", msg |-> lp.msg]
    /\ UNCHANGED <<fatal, sup, failing, genfailed, taskvars, stats, sleeping,
                   stopvars, wires, back, term, down, budget, got>>

\* The enqueue raised: the scheduler never saw it, the gate is rolled back.
RebuildSendFails ==
    /\ At("send") /\ lp.msg.kind = "rebuild" /\ ~fatal
    /\ gate' = "serving"
    /\ rebuild' = [rebuild EXCEPT ![lp.msg.id] = "answered"]
    /\ lp' = Free
    /\ UNCHANGED <<fatal, sup, failing, genfailed, taskvars, stats, sleeping,
                   stopvars, wires, back, term, down, budget, got>>

\* The caller's wait timed out; the gate stays closed.
RebuildTimeout(i) ==
    /\ LoopFree /\ rebuild[i] = "waiting"
    /\ rebuild' = [rebuild EXCEPT ![i] = "timeout"]
    /\ UNCHANGED <<gate, fatal, lp, sup, failing, genfailed, taskvars, stats,
                   sleeping, stopvars, wires, back, term, down, budget, got>>

-----------------------------------------------------------------------------
(* The supervisor thread.                                                  *)

Dead == alive # Workers

\* drain_ready has its acks, whose senders may be dead by now; _on_ready tests
\* the gate ...
ReadyTest ==
    /\ sup = "loading" /\ down = "no"
    /\ sup' = IF gate = "loading" THEN "ready" ELSE "watch"
    /\ UNCHANGED <<gate, fatal, lp, failing, genfailed, taskvars, stats, sleeping,
                   stopvars, rebuild, wires, back, term, down, budget, got>>

\* ... and writes it; the loop may have run in between.
ReadySet ==
    /\ sup = "ready"
    /\ gate' = "serving" /\ sup' = "watch"
    /\ reopened' = (gate # "loading")
    /\ UNCHANGED <<fatal, lp, failing, genfailed, taskvars, stats, sleeping,
                   stopvars, rebuild, wires, sched, alive, crashed, work, term,
                   down, budget, got>>

\* A worker is found dead, during the load or after it.
FindDead ==
    /\ sup \in {"loading", "watch"} /\ Dead
    /\ sup' = "found"
    /\ UNCHANGED <<gate, fatal, lp, failing, genfailed, taskvars, stats, sleeping,
                   stopvars, rebuild, wires, back, term, down, budget, got>>

\* The flag is tested again after the death was seen.
StayQuiet ==
    /\ sup \in {"loading", "watch", "found"} /\ down # "no"
    /\ sup' = "done"
    /\ UNCHANGED <<gate, fatal, lp, failing, genfailed, taskvars, stats, sleeping,
                   stopvars, rebuild, wires, back, term, down, budget, got>>

\* _on_failure: fatal_error first, then the gate and the callbacks.
OnFailure ==
    /\ sup = "found" /\ down = "no"
    /\ fatal' = TRUE /\ sup' = "failing"
    /\ UNCHANGED <<gate, lp, failing, genfailed, taskvars, stats, sleeping,
                   stopvars, rebuild, wires, back, term, down, budget, got>>

OnFailureLatch ==
    /\ sup = "failing"
    /\ gate' = "failed" /\ failing' = TRUE /\ sup' = "done"
    /\ UNCHANGED <<fatal, lp, genfailed, taskvars, stats, sleeping,
                   stopvars, rebuild, wires, back, term, down, budget, got>>

-----------------------------------------------------------------------------
(* uvicorn is told to stop by the daemon, or by the timer that             *)
(* _exit_after_backend_death starts; it serves no new request, waits for   *)
(* the open ones, and then the lifespan hook runs shutdown.                *)

Stopping ==
    /\ ~term
    /\ term' = TRUE
    /\ UNCHANGED <<gate, fatal, lp, sup, failing, genfailed, taskvars, stats,
                   sleeping, stopvars, rebuild, wires, back, down, got>>

Sigterm ==
    /\ budget.stops > 0 /\ budget' = [budget EXCEPT !.stops = @ - 1]
    /\ Stopping

\* The timer, which an orderly stop has not overtaken.
ExitAfterDeath ==
    /\ fatal /\ sup = "done" /\ down = "no"
    /\ Stopping /\ UNCHANGED budget

HttpOpen == \/ \E u \in Uids : http[u] \in {"open", "waiting"}
            \/ \E i \in Rebuilds : rebuild[i] = "waiting"
            \/ prep.at # "idle"

\* A shutdown that first waits for the scheduler to settle every request.
ShutdownWhenSettled ==
    /\ LoopFree /\ term /\ ~HttpOpen /\ down = "no" /\ stats.inflight = {}
    /\ down' = "flagged" /\ gate' = "stopping"
    /\ UNCHANGED <<fatal, lp, sup, failing, genfailed, taskvars, stats, sleeping,
                   stopvars, rebuild, wires, back, term, budget, got>>

\* shutdown: the flag first, ...
ShutdownFlag ==
    /\ LoopFree /\ term /\ ~HttpOpen /\ down = "no"
    /\ down' = "flagged" /\ gate' = "stopping"
    /\ UNCHANGED <<fatal, lp, sup, failing, genfailed, taskvars, stats, sleeping,
                   stopvars, rebuild, wires, back, term, budget, got>>

\* ... then the workers.
ShutdownWorkers ==
    /\ down = "flagged"
    /\ down' = "terminated" /\ alive' = {}
    /\ UNCHANGED <<gate, fatal, lp, sup, failing, genfailed, taskvars, stats, sleeping,
                   stopvars, rebuild, wires, sched, crashed, reopened, work, term, budget, got>>

\* A worker dies by itself.
WorkerDies(w) ==
    /\ w \in alive \cap budget.deaths
    /\ alive' = alive \ {w} /\ crashed' = TRUE
    /\ UNCHANGED <<gate, fatal, lp, sup, failing, genfailed, taskvars, stats,
                   sleeping, stopvars, rebuild, wires, sched, reopened, work, term, down,
                   got>>
    /\ budget' = [budget EXCEPT !.deaths = {}]

-----------------------------------------------------------------------------
(* The scheduler as the frontend sees it: what _process_one_msg does with  *)
(* the messages it gets, as a function of its state.                       *)

Busy(s) == \E u \in Uids : s.stage[u] \in {"queued", "running"}

\* A request whose abort came first is dropped; one that does not fit the
\* pool (long) is answered with an error; the others are queued.
Received(s, us, long) ==
    [s EXCEPT !.tombs = @ \ us,
              !.stage = [u \in Uids |-> IF u \notin us THEN s.stage[u]
                                        ELSE IF u \in s.tombs \cup long THEN "gone"
                                                                        ELSE "queued"]]

Aborted(s, us) ==
    [s EXCEPT !.tombs = @ \cup us, !.acks = @ \cup us,
              !.stage = [u \in Uids |-> IF u \in us /\ s.stage[u] # "none"
                                        THEN "gone" ELSE s.stage[u]]]

\* A rebuild is refused while there is work, else left for the loop's end.
Rebuilding(s, resets) ==
    IF Busy(s) \/ resets = <<>> THEN s ELSE [s EXCEPT !.rebuild = {Last(resets).id}]

\* What one drain of the tokenizer does to the scheduler, in the order sent.
_process_one_msg(s, resets, us, long, aborts) ==
    Aborted(Received(Rebuilding(s, resets), us, long), aborts)

-----------------------------------------------------------------------------
(* The tokenizer: one drain takes up to local_bs messages of both senders  *)
(* and re-sends them by kind.  The scheduler reads them in the order sent; *)
(* what it still has in its socket is as good as not drained yet.          *)

\* The messages of q that are in S, in their order.
Picked(q, S) ==
    LET kept[n \in 0 .. Len(q)] ==
            IF n = 0 THEN <<>>
            ELSE IF q[n] \in S THEN Append(kept[n - 1], q[n]) ELSE kept[n - 1]
    IN  kept[Len(q)]

OfKind(q, kinds) == Picked(q, {m \in Range(q) : m.kind \in kinds})

\* The ids of the messages of a kind.
Named(q, kind) == {u \in Uids : Msg(kind, u) \in Range(q)}

\* An error for each request of us.
Refusals(q, us) ==
    LET asked == Picked(q, {Msg("request", u) : u \in us})
    IN  [k \in DOMAIN asked |-> Msg("error", asked[k].id)]

\* A rebuild that finds work is answered at once.
Refused(q, s) ==
    LET resets == OfKind(q, {"rebuild"})
    IN  IF Busy(s) THEN [k \in DOMAIN resets |-> Msg("rebuilt", resets[k].id)] ELSE <<>>

\* A request that does not fit is dropped without a word.
ReplySilently(q, long, s) == Refused(q, s)

\* The replies the scheduler sends at once.
ReplyNow(q, long, s) == Refused(q, s) \o Refusals(q, long \ s.tombs)

\* Terminal errors overtake the tokens drained with them.
SendErrorsFirst(q) ==
    OfKind(q, {"admitted"}) \o OfKind(q, {"error"}) \o OfKind(q, {"token", "final"})

_send_generation_replies(q) ==
    OfKind(q, {"admitted"}) \o OfKind(q, {"token", "final"}) \o OfKind(q, {"error"})

\* bad: the requests whose prompt cannot be rendered or is empty.
tokenize_worker ==
    /\ "tokenizer" \in alive
    /\ \E n \in 0 .. Len(f2t), k \in 0 .. Len(s2t) :
         /\ n + k \in 1 .. LocalBs
         /\ LET client == SubSeq(f2t, 1, n)
                result == SubSeq(s2t, 1, k)
                rest   == SubSeq(s2t, k + 1, Len(s2t))
                asked  == Named(client, "request")
            IN  \E bad \in SUBSET (asked \cap budget.rejects) :
                \E long \in SUBSET ((asked \cap budget.rejects) \ bad) :
                  /\ IF "scheduler" \in alive
                     THEN /\ sched' = _process_one_msg(sched, OfKind(client, {"rebuild"}),
                                          asked \ bad, long, Named(client, "abort"))
                          /\ s2t' = rest \o ReplyNow(client, long, sched)
                     ELSE sched' = sched /\ s2t' = rest
                  /\ t2f' = t2f \o OfKind(result, {"rebuilt", "rebuild_failed"})
                                \o _send_generation_replies(result)
                                \o Refusals(client, bad)
         /\ f2t' = SubSeq(f2t, n + 1, Len(f2t))
    /\ UNCHANGED <<gate, fatal, lp, sup, failing, genfailed, taskvars, stats, sleeping,
                   stopvars, rebuild, alive, crashed, reopened, work, term, down, budget, got>>

-----------------------------------------------------------------------------
(* The rest of the scheduler's loop.                                       *)

SchedVars == <<gate, fatal, lp, sup, failing, genfailed, taskvars, stats, sleeping,
               stopvars, rebuild, f2t, t2f, alive, crashed, reopened, term, down, budget>>

\* _execute_pending_rebuild ends in ok or rejected, or destroys the cache.
ExecuteRebuild(i) ==
    /\ "scheduler" \in alive /\ i \in sched.rebuild
    /\ \E kind \in {"rebuilt", "rebuild_failed"} : s2t' = Append(s2t, Msg(kind, i))
    /\ sched' = [sched EXCEPT !.rebuild = {}]
    /\ UNCHANGED <<SchedVars, work, got>>

AdmitPrompt(u) ==
    /\ "scheduler" \in alive /\ sched.stage[u] = "queued"
    /\ sched' = [sched EXCEPT !.stage[u] = "running"]
    /\ s2t' = Append(s2t, Msg("admitted", u))
    /\ work' = [work EXCEPT !.prompt = @ + 1]
    /\ UNCHANGED <<SchedVars, got>>

SampleToken(u) ==
    /\ "scheduler" \in alive /\ sched.stage[u] = "running"
    /\ \E kind \in IF got[u].sampled + 1 = budget.tokens THEN {"final"}
                                                     ELSE {"token", "final"} :
         /\ s2t' = Append(s2t, Msg(kind, u))
         /\ sched' = [sched EXCEPT !.stage[u] = IF kind = "final" THEN "gone" ELSE @]
    /\ work' = [work EXCEPT !.completion = @ + 1]
    /\ got' = [got EXCEPT ![u].sampled = @ + 1]
    /\ UNCHANGED SchedVars

\* _flush_abort_acks: after the results of the batch, one ack for each, by uid.
FlushAcks ==
    /\ "scheduler" \in alive /\ sched.acks # {}
    /\ \E order \in [1 .. Cardinality(sched.acks) -> sched.acks] :
         /\ \A j, k \in DOMAIN order : j < k => order[j] < order[k]
         /\ s2t' = s2t \o [k \in DOMAIN order |-> Msg("error", order[k])]
    /\ sched' = [sched EXCEPT !.acks = {}]
    /\ UNCHANGED <<SchedVars, work, got>>

-----------------------------------------------------------------------------
Init ==
    /\ gate = "loading" /\ fatal = FALSE /\ lp = Free /\ sup = "loading"
    /\ failing = FALSE /\ genfailed = FALSE
    /\ http = [u \in Uids |-> "none"] /\ mapped = {} /\ event = {}
    /\ box = [u \in Uids |-> <<>>]
    /\ stats = [inflight |-> {}, aborting |-> {}, prompt |-> 0, completion |-> 0]
    /\ sleeping = {}
    /\ prep = [at |-> "idle", todo |-> {}] /\ sealed = NotSealed
    /\ rebuild = [i \in Rebuilds |-> "none"]
    /\ f2t = <<>> /\ s2t = <<>> /\ t2f = <<>>
    /\ sched = [stage |-> [u \in Uids |-> "none"], tombs |-> {}, acks |-> {},
                rebuild |-> {}]
    /\ alive = Workers /\ term = FALSE /\ down = "no"
    /\ crashed = FALSE /\ reopened = FALSE
    /\ work = [prompt |-> 0, completion |-> 0] /\ budget \in Budgets
    /\ got = [u \in Uids |-> [sampled |-> 0, delivered |-> 0, last |-> "none"]]

Requests == \E u \in Uids : \/ new_user(u) \/ ConsumerStart(u) \/ ConsumerTake(u)
                            \/ Disconnect(u) \/ abort_user(u)
                            \/ RequestUnsent(u) \/ AbortUnsent(u)
Listener == listen \/ ResolveRebuild \/ ResolveGate \/ FailPending \/ send_one
Prepare  == \/ PrepareCall \/ PrepareClose \/ PrepareSeal \/ PrepareAbort
            \/ PrepareRefuse
Rebuild  == \/ dispatch_rebuild \/ RebuildSendFails
            \/ \E i \in Rebuilds : RebuildCall(i) \/ RebuildTimeout(i)
Supervise == \/ ReadyTest \/ ReadySet \/ FindDead \/ StayQuiet \/ OnFailure
             \/ OnFailureLatch
Stop == Sigterm \/ ExitAfterDeath \/ ShutdownFlag \/ ShutdownWorkers
Schedule == \/ FlushAcks
            \/ \E i \in Rebuilds : ExecuteRebuild(i)
            \/ \E u \in Uids : AdmitPrompt(u) \/ SampleToken(u)

Next == \/ Requests \/ Listener \/ Prepare \/ Rebuild \/ Supervise \/ Stop
        \/ tokenize_worker \/ Schedule
        \/ \E w \in Workers : WorkerDies(w)

Spec == Init /\ [][Next]_vars

\* What the process does without being asked again: the tasks of the loop, the
\* bounded waits of prepare-stop, the supervisor, the timer and the workers.
Progress ==
    \/ send_one \/ ResolveGate \/ dispatch_rebuild \/ PrepareClose
    \/ listen \/ ResolveRebuild \/ FailPending
    \/ Supervise \/ ExitAfterDeath \/ ShutdownFlag \/ ShutdownWorkers
    \/ PrepareSeal \/ PrepareAbort \/ PrepareRefuse
    \/ \E u \in Uids : ConsumerStart(u) \/ ConsumerTake(u) \/ abort_user(u)
    \/ Schedule \/ tokenize_worker

\* Such a step is taken while there is one.  Clients, signals, deaths and the
\* timeout of a rebuild's caller are not forced.
FairSpec == Spec /\ WF_vars(Progress)

-----------------------------------------------------------------------------
Replies == {"admitted", "token", "final", "error"}
Control == {"rebuilt", "rebuild_failed"}

TypeOK ==
    /\ gate \in {"loading", "serving", "rebuilding", "stopping", "failed"}
    /\ {fatal, failing, genfailed, term, crashed, reopened} \subseteq BOOLEAN
    /\ lp.at \in {"free", "send", "resolve", "stop", "rebuild"}
    /\ sup \in {"loading", "ready", "watch", "found", "failing", "done"}
    /\ http \in [Uids -> {"none", "open", "waiting", "ended", "broken", "left", "unsent"}]
    /\ mapped \subseteq Uids /\ event \subseteq Uids /\ sleeping \subseteq Uids
    /\ \A u \in Uids : Range(box[u]) \subseteq Replies
    /\ stats.inflight \subseteq Uids /\ stats.aborting \subseteq stats.inflight
    /\ stats.prompt \in Nat /\ stats.completion \in Nat
    /\ prep.at \in {"idle", "drain", "abort"} /\ prep.todo \subseteq Uids
    /\ rebuild \in [Rebuilds -> {"none", "waiting", "answered", "timeout"}]
    /\ \A m \in Range(f2t) : m.kind \in {"request", "abort", "rebuild"}
    /\ \A m \in Range(s2t) \cup Range(t2f) : m.kind \in Replies \cup Control
    /\ alive \subseteq Workers /\ down \in {"no", "flagged", "terminated"}

\* The snapshot prepare_stop_accounting seals is the last word: it equals
\* everything the scheduler ever admitted and sampled, with no token still on
\* a wire, in a batch of the tokenizer or sampled later, unless _on_ready was
\* preempted by the very call that closed the gate.
SealedIsFinal ==
    sealed # NotSealed /\ ~reopened =>
        /\ sealed.prompt = work.prompt
        /\ sealed.completion = work.completion

\* _on_ready: "never reopen that gate after the daemon has received a final
\* accounting snapshot".
NeverReopened == sealed # NotSealed => gate # "serving"

\* Once the totals are sealed no request can be admitted: the gate that
\* prepare-stop closed is not opened again, by whatever else writes it, but
\* for an _on_ready that had tested it before.
GateStaysSealed == ~reopened => NeverReopened

\* The supervisor reports a fatal error only for a worker that died by
\* itself, never for one that an orderly stop has terminated.
StopIsNotCrash == fatal => crashed

\* A response that ends with the last token carries every token the scheduler
\* sampled for it.
StreamComplete ==
    \A u \in Uids : got[u].last = "final" => got[u].delivered = got[u].sampled

\* What the threads of the server and the processes behind it hold agrees:
\* the types, the gate with the sealed books, the supervisor's verdict with
\* the cause, a complete response with what was sampled.
Consistent == TypeOK /\ GateStaysSealed /\ StopIsNotCrash /\ StreamComplete

\* A generator that waits on an event nobody can set any more.
Stranded(u) == http[u] = "waiting" /\ u \notin mapped /\ u \notin event

\* What prepare-stop waits for does come: the requests in flight all leave the
\* books, through a last token, an error or the acknowledgement of an abort
\* that came before or after their admission, unless a worker is gone.  A
\* request that could not be sent stays until prepare-stop aborts it.
Unsent == {u \in Uids : http[u] = "unsent"}
BooksClose == (stats.inflight # {}) ~> (stats.inflight \subseteq Unsent \/ Dead)

\* A rebuild, timed out or not, does not keep a live engine closed for ever.
GateReopens == (gate = "rebuilding") ~> (gate # "rebuilding" \/ fatal)

\* Everyone who holds an HTTP call open is answered: a generation, a rebuild
\* without the help of its timeout, a prepare-stop, also when the backend dies
\* at that moment; and the gate a rebuild has closed for later calls opens
\* again.  The one exception is a request that prepare-stop aborted under its
\* client.
AllAnswered ==
    /\ HttpOpen ~> (~HttpOpen \/ \E u \in Uids : Stranded(u))
    /\ GateReopens

\* A stop that is asked for, or a fatal error, ends with the workers gone, if
\* no response is stranded.
StopEnds == (term \/ fatal) ~> (down = "terminated" \/ \E u \in Uids : Stranded(u))

\* run_api_server: active HTTP drains before lifespan stops the workers.
StopDrains == term ~> (down = "terminated")

=============================================================================
