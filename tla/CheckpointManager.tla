-------------------------- MODULE CheckpointManager --------------------------
(***************************************************************************)
(* Supervised `sparklab checkpoint` conversions beside the serve.          *)
(*                                                                         *)
(* The daemon's lifecycle routes run on a pool with ONE worker thread, in  *)
(* the order their jobs are submitted.  POST /checkpoint/start submits two *)
(* jobs, manager.stop and then checkpoints.start, and returns to the event *)
(* loop between them.  Each conversion has a monitor thread of its own.    *)
(*                                                                         *)
(* Because cancel() runs on that same worker it never meets a start() that *)
(* is between reserving the slot and spawning; the code's provision for    *)
(* that window is not modelled.  The serve is reduced to whether its       *)
(* process is there: ServeManager models it in full.                       *)
(***************************************************************************)
EXTENDS Naturals, Sequences, FiniteSets

CONSTANTS
    Ids,       \* job ids clients use
    Convs,     \* conversion processes that may be spawned
    None,      \* Python's None
    MaxQueue   \* bound: requests waiting for the worker

ASSUME CheckpointAssumption ==
    /\ None \notin Ids /\ None \notin Convs /\ IsFiniteSet(Convs)
    /\ MaxQueue \in Nat

VARIABLES
    serve,    \* a serve process is alive
    queue,    \* jobs submitted to lifecycle_pool
    cleared,  \* /checkpoint/start handlers whose stop has returned, by id
    worker,   \* the job the worker thread runs, and how far it is
    job,      \* _job
    child,    \* _child
    proc,     \* conversion processes: unborn, alive, killed or dead
    owner,    \* the id a conversion was spawned for
    mon,      \* the monitor thread of a conversion
    reaped    \* conversions whose reaped event is set

vars == <<serve, queue, cleared, worker, job, child, proc, owner, mon, reaped>>
routes == <<serve, queue, cleared>>
convs  == <<proc, owner, mon, reaped>>

Ops  == {"start", "stop", "clear", "convert", "cancel"}
Idle == [op |-> "none", id |-> None, step |-> "none"]
NoJob == [id |-> None, state |-> "none", conv |-> None]
Task(op, id) == [op |-> op, id |-> id]
Tasks == [op : {"start", "stop"}, id : {None}]
         \cup [op : {"clear", "convert", "cancel"}, id : Ids]
Running(c) == proc[c] \in {"alive", "killed"}

Init ==
    /\ serve \in BOOLEAN
    /\ queue = <<>> /\ cleared = {} /\ worker = Idle
    /\ job = NoJob /\ child = None
    /\ proc = [c \in Convs |-> "unborn"] /\ owner = [c \in Convs |-> None]
    /\ mon = [c \in Convs |-> "none"] /\ reaped = {}

Submit(task) == queue' = Append(queue, task)

\* A route submits its (first) job; a conversion first clears the GPU.
Request(op, id) ==
    /\ Len(queue) < MaxQueue
    /\ Submit(Task(op, id))
    /\ UNCHANGED <<serve, cleared, worker, job, child, convs>>

Dispatch ==
    /\ worker = Idle /\ queue # <<>>
    /\ worker' = [op |-> Head(queue).op, id |-> Head(queue).id, step |-> "run"]
    /\ queue' = Tail(queue)
    /\ UNCHANGED <<serve, cleared, job, child, convs>>

Runs(op) == worker.op = op /\ worker.step = "run"

\* manager.start and manager.stop, as far as the GPU is concerned.
EngineStart ==
    /\ Runs("start")
    /\ serve' \in {serve, TRUE}
    /\ worker' = Idle
    /\ UNCHANGED <<queue, cleared, job, child, convs>>

EngineStop ==
    /\ Runs("stop") \/ Runs("clear")
    /\ \/ /\ serve' = FALSE
          /\ cleared' = IF worker.op = "clear" THEN cleared \cup {worker.id}
                        ELSE cleared
       \/ serve /\ UNCHANGED <<serve, cleared>>
    /\ worker' = Idle
    /\ UNCHANGED <<queue, job, child, convs>>

ServeExits ==
    /\ serve /\ serve' = FALSE
    /\ UNCHANGED <<queue, cleared, worker, job, child, convs>>

\* The handler of /checkpoint/start goes on after its await.
Resume(id) ==
    /\ id \in cleared
    /\ cleared' = cleared \ {id}
    /\ Submit(Task("convert", id))
    /\ UNCHANGED <<serve, worker, job, child, convs>>

-----------------------------------------------------------------------------
(* CheckpointManager.start                                                 *)

Reserve ==
    /\ job' = [id |-> worker.id, state |-> "running", conv |-> None]
    /\ child' = None
    /\ worker' = [worker EXCEPT !.step = "spawn"]

\* A child that is still terminating not looked for.
StartHasty ==
    /\ Runs("convert")
    /\ \/ job.state = "running" /\ worker' = Idle /\ UNCHANGED <<job, child>>
       \/ job.state # "running" /\ Reserve
    /\ UNCHANGED <<routes, convs>>

\* A running job answers (its own id) or conflicts (another's), and so does
\* a child that is not reaped; otherwise the slot is reserved.
Start ==
    /\ Runs("convert")
    /\ \/ /\ job.state = "running" \/ (child # None /\ child \notin reaped)
          /\ worker' = Idle
          /\ UNCHANGED <<job, child>>
       \/ /\ job.state # "running" /\ (child = None \/ child \in reaped)
          /\ Reserve
    /\ UNCHANGED <<routes, convs>>

Spawn(c) ==
    /\ worker.op = "convert" /\ worker.step = "spawn" /\ proc[c] = "unborn"
    /\ proc' = [proc EXCEPT ![c] = "alive"]
    /\ owner' = [owner EXCEPT ![c] = worker.id]
    /\ child' = c
    /\ job' = [job EXCEPT !.conv = c]
    /\ mon' = [mon EXCEPT ![c] = "wait"]
    /\ worker' = Idle
    /\ UNCHANGED <<routes, reaped>>

SpawnFails ==
    /\ worker.op = "convert" /\ worker.step = "spawn"
    /\ job' = NoJob
    /\ worker' = Idle
    /\ UNCHANGED <<routes, child, convs>>

-----------------------------------------------------------------------------
(* CheckpointManager.cancel and _terminate                                 *)

Cancel ==
    /\ Runs("cancel")
    /\ \/ /\ job.id # worker.id \/ job.state # "running"
          /\ worker' = Idle
          /\ UNCHANGED job
       \/ /\ job.id = worker.id /\ job.state = "running"
          /\ job' = [job EXCEPT !.state = "cancelled"]
          /\ worker' = [worker EXCEPT !.step = "grace"]
    /\ UNCHANGED <<routes, child, convs>>

\* The grace period ends and nothing more is done.
CancelWaitGivesUp ==
    /\ worker.op = "cancel" /\ worker.step = "grace"
    /\ worker' = Idle
    /\ UNCHANGED <<routes, job, child, convs>>

\* No bound on the wait for the conversion to leave.
CancelWaitForever ==
    /\ worker.op = "cancel" /\ worker.step = "grace" /\ child \in reaped
    /\ worker' = Idle
    /\ UNCHANGED <<routes, job, child, convs>>

\* SIGTERM has been sent.  Reaped within the grace period, or SIGKILL, whose
\* effect cancel() does not wait for.
CancelWait ==
    /\ worker.op = "cancel" /\ worker.step = "grace"
    /\ proc' = IF child \notin reaped /\ proc[child] = "alive"
               THEN [proc EXCEPT ![child] = "killed"] ELSE proc
    /\ worker' = Idle
    /\ UNCHANGED <<routes, job, child, owner, mon, reaped>>

-----------------------------------------------------------------------------
(* The conversion and its monitor                                          *)

ConvExits(c) ==
    /\ Running(c)
    /\ proc' = [proc EXCEPT ![c] = "dead"]
    /\ UNCHANGED <<routes, worker, job, child, owner, mon, reaped>>

\* child.wait() returned: the event is set first, ...
MonitorReap(c) ==
    /\ mon[c] = "wait" /\ proc[c] = "dead"
    /\ reaped' = reaped \cup {c}
    /\ mon' = [mon EXCEPT ![c] = "mark"]
    /\ UNCHANGED <<routes, worker, job, child, proc, owner>>

\* ... and the verdict is written for whatever job now has that id.
MonitorMark(c) ==
    /\ mon[c] = "mark"
    /\ \/ /\ job.id = owner[c] /\ job.state # "cancelled"
          /\ \E verdict \in {"done", "failed"} :
                job' = [job EXCEPT !.state = verdict]
       \/ /\ job.id # owner[c] \/ job.state = "cancelled"
          /\ UNCHANGED job
    /\ mon' = [mon EXCEPT ![c] = "done"]
    /\ UNCHANGED <<routes, worker, child, proc, owner, reaped>>

-----------------------------------------------------------------------------
Worker ==
    \/ Dispatch \/ EngineStart \/ EngineStop
    \/ Start \/ SpawnFails \/ (\E c \in Convs : Spawn(c))
    \/ Cancel \/ CancelWait

Monitor(c) == MonitorReap(c) \/ MonitorMark(c)

Next ==
    \/ Worker
    \/ \E op \in {"start", "stop"} : Request(op, None)
    \/ \E op \in {"clear", "cancel"}, id \in Ids : Request(op, id)
    \/ \E id \in Ids : Resume(id)
    \/ \E c \in Convs : Monitor(c) \/ ConvExits(c)
    \/ ServeExits

Spec == Init /\ [][Next]_vars

\* The worker and the monitors keep running and SIGKILL works; a conversion
\* may ignore SIGTERM and need never end by itself.
FairSpec ==
    /\ Spec
    /\ WF_vars(Worker)
    /\ \A c \in Convs :
         WF_vars(Monitor(c)) /\ WF_vars(proc[c] = "killed" /\ ConvExits(c))

-----------------------------------------------------------------------------
(* Properties                                                              *)

\* Every variable stays in its range; in particular the worker terminates a
\* conversion that exists.
TypeOK ==
    /\ serve \in BOOLEAN
    /\ queue \in Seq(Tasks)
    /\ cleared \subseteq Ids
    /\ worker \in [op : Ops \cup {"none"}, id : Ids \cup {None},
                   step : {"none", "run", "spawn", "grace"}]
    /\ job \in [id : Ids \cup {None}, conv : Convs \cup {None},
                state : {"none", "running", "done", "failed", "cancelled"}]
    /\ child \in Convs \cup {None}
    /\ worker.step = "grace" => child \in Convs
    /\ proc \in [Convs -> {"unborn", "alive", "killed", "dead"}]
    /\ owner \in [Convs -> Ids \cup {None}]
    /\ mon \in [Convs -> {"none", "wait", "mark", "done"}]
    /\ reaped \subseteq Convs

\* start(): "no two GPU conversions at once", through failed spawns, cancels
\* that do not wait for the SIGKILL to work, and late monitors.
OneConversion == Cardinality({c \in Convs : Running(c)}) <= 1

\* A cancelled conversion is eventually gone, even if it ignores SIGTERM.
CancelKills ==
    \A c \in Convs : (job.conv = c /\ job.state = "cancelled") ~> ~Running(c)

\* The one worker that every lifecycle route shares always becomes free.
WorkerReturns == worker # Idle ~> worker = Idle

\* checkpoint.py: "GPU exclusivity (a convert needs the GPU, so the caller
\* stops the serve first) is enforced at the route layer".  When a slot is
\* reserved for a conversion no serve is running.
ConvertsAlone == worker.step = "spawn" => ~serve

\* start(): "block admission until it is fully reaped".  The verdict on a
\* job is about its own process, not left over from an earlier conversion.
VerdictIsOwn ==
    job.state \in {"done", "failed"} => job.conv # None /\ ~Running(job.conv)

-----------------------------------------------------------------------------
(* What OneConversion rests on: a conversion that runs is the child in the *)
(* slot and not reaped, a reaped one is dead, the slot is empty from the   *)
(* reservation to the spawn, a running job outside of that window has a    *)
(* process, and the stop that clears the GPU knows for whom.               *)
SlotOwned ==
    /\ \A c \in Convs : Running(c) => child = c /\ c \notin reaped
    /\ \A c \in reaped : proc[c] = "dead"
    /\ worker.step = "spawn" => child = None
    /\ job.state = "running" /\ worker.step # "spawn" => child \in Convs
    /\ worker.op = "clear" => worker.id \in Ids
=============================================================================
