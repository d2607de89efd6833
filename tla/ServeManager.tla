---------------------------- MODULE ServeManager ----------------------------
(***************************************************************************)
(* The daemon's serve lifecycle: one lifecycle transaction at a time       *)
(* (start, stop, shutdown, switch, auto-restart), one reaper thread per    *)
(* child, the accounting guard they share, the pidfile and the outbox that *)
(* outlive the daemon, and the daemon's own death and re-adoption.         *)
(*                                                                         *)
(* A generation is one spawned `sparklab serve` process.  Its identity     *)
(* (pid and start time) is never reused, which is what the start-time and  *)
(* argv checks of osproc.py establish.                                     *)
(***************************************************************************)
EXTENDS Naturals, FiniteSets

CONSTANTS
  Gens,           \* generations that may be spawned
  Configs,        \* (model, port, args) triples a client may ask for
  None,           \* Python's None
  AutoRestart,    \* --auto-restart
  LegacyConfigs,  \* configurations whose engine predates prepare-stop
  MaxCrashes,     \* bound: deaths of the daemon with the engine left alone
  MaxSaveFails,   \* bound: failed writes of the pidfile
  MaxClearFails,  \* bound: records that a failed removal leaves in place
  MaxProbes       \* bound: completed /engine/stats polls

ASSUME ServeAssumption ==
  /\ None \notin Gens
  /\ None \notin Configs
  /\ AutoRestart \in BOOLEAN
  /\ LegacyConfigs \subseteq Configs
  /\ MaxCrashes \in Nat
  /\ MaxSaveFails \in Nat
  /\ MaxClearFails \in Nat
  /\ MaxProbes \in Nat

VARIABLES
  \* the daemon's memory, guarded by _cond
  up,                 \* the daemon process exists
  child,              \* _child: the generation owned, or None
  lastCfg,            \* _model, _port, _args: kept when the child is gone
  stopping,           \* _stopping
  starting,           \* _starting
  stopRequested,      \* _stop_requested
  shutdownRequested,  \* _shutdown_requested
  durable,            \* _durable_accounting
  lastAcc,            \* _last_accounting: whose totals are kept for a generation
  reaped,             \* generations whose reaped event is set
  \* the transaction holding _lifecycle
  kind, pc, gen, cfg, force, rcpt, voided,
  guard,              \* that transaction holds _accounting_guard
  \* the reaper threads, the auto-restart threads and the stats poll
  rpc, rwas, restarts, probe,
  \* what outlives the daemon
  proc,               \* engine processes: unborn, alive or dead
  config,             \* the configuration a generation was spawned with
  pidfile,            \* the generation recorded in serve.json
  outbox,             \* receipts ever written to the outbox
  \* observation only
  signalled, crashes, saveFails, probes,
  uncleared           \* generations whose record could not be removed

memory == <<up, child, lastCfg, stopping, starting, stopRequested,
            shutdownRequested, durable, lastAcc, reaped>>
txn    == <<kind, pc, gen, cfg, force, rcpt, voided, guard>>
threads == <<rpc, rwas, restarts, probe>>
disk   == <<proc, config, pidfile, outbox>>
counts == <<crashes, saveFails, probes, uncleared>>
vars   == <<memory, txn, threads, disk, signalled, counts>>

-----------------------------------------------------------------------------
Kinds == {"none", "start", "auto", "stop", "shutdown", "switch"}
TxnSteps == {"idle", "spawn", "install", "persist", "watch", "guard",
             "prepare", "enqueue", "term", "grace", "killwait", "switch"}
ReapSteps == {"none", "watch", "account", "forget", "clear", "wake",
              "decide", "done"}

(* A receipt: how its id was derived, for which generation, and whose      *)
(* token totals it carries (None for null totals).                         *)
ReceiptKinds == {"instance", "snapshot", "legacy", "crash"}
Receipts == [kind : ReceiptKinds, gen : Gens, about : Gens \cup {None}]
Receipt(k, g, a) == [kind |-> k, gen |-> g, about |-> a]

(* AccountingOutbox.persist is idempotent by receiptId: a document already *)
(* in the outbox wins.  What a client acknowledges stays in this history.  *)
Persist(box, r) ==
  IF \E q \in box : q.kind = r.kind /\ q.gen = r.gen THEN box ELSE box \cup {r}

Restarts == [cfg : Configs, voided : BOOLEAN]
NoProbe == [at |-> "none", doc |-> None, target |-> None]
Probes == [at : {"none", "fetched", "bound"}, doc : Gens \cup {None},
           target : Gens \cup {None}]

MemoryTypes ==
  /\ up \in BOOLEAN
  /\ child \in Gens \cup {None}
  /\ lastCfg \in Configs \cup {None}
  /\ stopping \in BOOLEAN
  /\ starting \in BOOLEAN
  /\ stopRequested \in BOOLEAN
  /\ shutdownRequested \in BOOLEAN
  /\ durable \subseteq Gens
  /\ lastAcc \in [Gens -> Gens \cup {None}]
  /\ reaped \subseteq Gens
TxnTypes ==
  /\ kind \in Kinds
  /\ pc \in TxnSteps
  /\ gen \in Gens \cup {None}
  /\ cfg \in Configs \cup {None}
  /\ force \in BOOLEAN
  /\ rcpt \in ReceiptKinds \cup {"none"}
  /\ voided \in BOOLEAN
  /\ guard \in BOOLEAN
ThreadTypes ==
  /\ rpc \in [Gens -> ReapSteps]
  /\ rwas \in [Gens -> BOOLEAN]
  /\ restarts \subseteq Restarts
  /\ probe \in Probes
DiskTypes ==
  /\ proc \in [Gens -> {"unborn", "alive", "dead"}]
  /\ config \in [Gens -> Configs \cup {None}]
  /\ pidfile \in Gens \cup {None}
  /\ outbox \subseteq Receipts
  /\ signalled \subseteq Gens
  /\ crashes \in 0..MaxCrashes
  /\ saveFails \in 0..MaxSaveFails
  /\ probes \in Nat
  /\ uncleared \subseteq Gens

TypeOK == MemoryTypes /\ TxnTypes /\ ThreadTypes /\ DiskTypes

-----------------------------------------------------------------------------
Init ==
  /\ up = TRUE /\ child = None /\ lastCfg = None
  /\ stopping = FALSE /\ starting = FALSE
  /\ stopRequested = FALSE /\ shutdownRequested = FALSE
  /\ durable = {} /\ lastAcc = [g \in Gens |-> None] /\ reaped = {}
  /\ kind = "none" /\ pc = "idle" /\ gen = None /\ cfg = None
  /\ force = FALSE /\ rcpt = "none" /\ voided = FALSE /\ guard = FALSE
  /\ rpc = [g \in Gens |-> "none"] /\ rwas = [g \in Gens |-> FALSE]
  /\ restarts = {} /\ probe = NoProbe
  /\ proc = [g \in Gens |-> "unborn"] /\ config = [g \in Gens |-> None]
  /\ pidfile = None /\ outbox = {}
  /\ signalled = {} /\ crashes = 0 /\ saveFails = 0 /\ probes = 0
  /\ uncleared = {}

(* _lifecycle is released: the transaction is over. *)
EndTxn ==
  /\ kind' = "none" /\ pc' = "idle" /\ gen' = None /\ cfg' = None
  /\ force' = FALSE /\ rcpt' = "none" /\ voided' = FALSE /\ guard' = FALSE

Goto(step) == pc' = step /\ UNCHANGED <<kind, gen, cfg, force, rcpt, voided, guard>>

-----------------------------------------------------------------------------
(* start()                                                                 *)

(* Mutant: the owned child is not looked at. *)
ReserveSpawnBlind(k, c, v) ==
  /\ ~starting
  /\ starting' = TRUE
  /\ kind' = k /\ pc' = "spawn" /\ cfg' = c /\ voided' = v
  /\ UNCHANGED <<gen, force, rcpt, guard>>

(* The critical section of _start past its latch checks: an owned child    *)
(* that is not stopping answers idempotently or conflicts, otherwise the   *)
(* caller reserves the spawn.                                              *)
ReserveSpawn(k, c, v) ==
  /\ ~starting
  /\ \/ /\ child # None /\ ~stopping
        /\ EndTxn
        /\ UNCHANGED starting
     \/ /\ child = None \/ stopping
        /\ starting' = TRUE
        /\ kind' = k /\ pc' = "spawn" /\ cfg' = c /\ voided' = v
        /\ UNCHANGED <<gen, force, rcpt, guard>>

(* An explicit start overrides the stop intent for the configuration asked *)
(* for: a pending restart of it is wanted again.                           *)
Wanted(c) ==
  {[cfg |-> t.cfg, voided |-> t.voided /\ t.cfg # c] : t \in restarts}

StartEnter(c) ==
  /\ up /\ pc = "idle" /\ ~shutdownRequested
  /\ stopRequested' = FALSE
  /\ ReserveSpawn("start", c, FALSE)
  /\ restarts' = Wanted(c)
  /\ UNCHANGED <<up, child, lastCfg, stopping, shutdownRequested, durable,
                 lastAcc, reaped, rpc, rwas, probe, disk, signalled, counts>>

(* Mutant: the restart thread does not re-read the stop latch. *)
AutoEnterUnlatched(t) ==
  /\ up /\ pc = "idle" /\ t \in restarts
  /\ restarts' = restarts \ {t}
  /\ IF shutdownRequested
     THEN UNCHANGED <<starting, txn>>
     ELSE ReserveSpawn("auto", t.cfg, t.voided)
  /\ UNCHANGED <<up, child, lastCfg, stopping, stopRequested,
                 shutdownRequested, durable, lastAcc, reaped, rpc, rwas,
                 probe, disk, signalled, counts>>

(* The thread made by _restart_async calls start(_auto=True). *)
AutoEnter(t) ==
  /\ up /\ pc = "idle" /\ t \in restarts
  /\ restarts' = restarts \ {t}
  /\ IF shutdownRequested \/ stopRequested
     THEN UNCHANGED <<starting, txn>>
     ELSE ReserveSpawn("auto", t.cfg, t.voided)
  /\ UNCHANGED <<up, child, lastCfg, stopping, stopRequested,
                 shutdownRequested, durable, lastAcc, reaped, rpc, rwas,
                 probe, disk, signalled, counts>>

(* switch() goes on to _start after its _stop succeeded. *)
SwitchStart ==
  /\ up /\ pc = "switch"
  /\ stopRequested' = FALSE
  /\ ReserveSpawn("switch", cfg, FALSE)
  /\ restarts' = Wanted(cfg)
  /\ UNCHANGED <<up, child, lastCfg, stopping, shutdownRequested, durable,
                 lastAcc, reaped, rpc, rwas, probe, disk, signalled, counts>>

Spawn(g) ==
  /\ pc = "spawn" /\ proc[g] = "unborn"
  /\ proc' = [proc EXCEPT ![g] = "alive"]
  /\ config' = [config EXCEPT ![g] = cfg]
  /\ gen' = g /\ pc' = "install"
  /\ UNCHANGED <<memory, kind, cfg, force, rcpt, voided, guard, threads,
                 pidfile, outbox, signalled, counts>>

SpawnFails ==
  /\ pc = "spawn"
  /\ starting' = FALSE
  /\ EndTxn
  /\ UNCHANGED <<up, child, lastCfg, stopping, stopRequested,
                 shutdownRequested, durable, lastAcc, reaped, threads, disk,
                 signalled, counts>>

Install ==
  /\ pc = "install"
  /\ child' = gen /\ lastCfg' = cfg
  /\ stopping' = FALSE /\ starting' = FALSE
  /\ Goto("persist")
  /\ UNCHANGED <<up, stopRequested, shutdownRequested, durable, lastAcc,
                 reaped, threads, disk, signalled, counts>>

SavePidfile ==
  /\ pc = "persist"
  /\ pidfile' = gen
  /\ Goto("watch")
  /\ UNCHANGED <<memory, threads, proc, config, outbox, signalled,
                 counts>>

(* store.save raises (disk full, state dir gone): start() raises before    *)
(* the monitor thread is created.                                          *)
SavePidfileFails ==
  /\ pc = "persist" /\ saveFails < MaxSaveFails
  /\ saveFails' = saveFails + 1
  /\ EndTxn
  /\ UNCHANGED <<memory, threads, disk, signalled, crashes, probes, uncleared>>

(* Mutant: the monitor thread is not started. *)
BeginWatchNot ==
  /\ pc = "watch"
  /\ EndTxn
  /\ UNCHANGED <<memory, threads, disk, signalled, counts>>

BeginWatch ==
  /\ pc = "watch"
  /\ rpc' = [rpc EXCEPT ![gen] = "watch"]
  /\ EndTxn
  /\ UNCHANGED <<memory, rwas, restarts, probe, disk, signalled, counts>>

-----------------------------------------------------------------------------
(* stop(), shutdown(), and the first half of switch()                      *)

(* What follows a _stop that returned (ok) or raised. *)
StopReturns(ok) ==
  /\ IF ok /\ kind = "switch"
     THEN /\ pc' = "switch" /\ gen' = None /\ rcpt' = "none" /\ guard' = FALSE
          /\ UNCHANGED <<kind, cfg, force, voided>>
     ELSE EndTxn
  /\ shutdownRequested' = (shutdownRequested /\ (ok \/ kind # "shutdown"))

(* No signal has been sent or the child outlived SIGKILL: it stays visible *)
(* and retryable, and the stop latch stays set.                            *)
StopRaises ==
  /\ stopping' = (stopping /\ child # gen)
  /\ StopReturns(FALSE)

(* A stop countermands every restart that is still pending. *)
Countermanded == {[cfg |-> t.cfg, voided |-> TRUE] : t \in restarts}

StopEnter(k, c, f) ==
  /\ up /\ pc = "idle" /\ ~starting
  /\ stopRequested' = TRUE
  /\ restarts' = Countermanded
  /\ shutdownRequested' = (shutdownRequested \/ k = "shutdown")
  /\ \/ /\ child = None /\ k # "switch"
        /\ UNCHANGED <<stopping, txn>>
     \/ /\ child = None /\ k = "switch"
        /\ kind' = k /\ cfg' = c /\ force' = f /\ pc' = "switch"
        /\ UNCHANGED <<stopping, gen, rcpt, voided, guard>>
     \/ /\ child # None
        /\ stopping' = TRUE
        /\ kind' = k /\ cfg' = c /\ force' = f /\ gen' = child
        /\ pc' = "guard"
        /\ UNCHANGED <<rcpt, voided, guard>>
  /\ UNCHANGED <<up, child, lastCfg, starting, durable, lastAcc, reaped, rpc,
                 rwas, probe, disk, signalled, counts>>

Stop(f) == StopEnter("stop", None, f)
Shutdown(f) == StopEnter("shutdown", None, f)
(* After a successful shutdown a switch stops nothing, sets a latch that is *)
(* already set and is refused by _start: nothing changes.                  *)
Switch(c, f) == ~shutdownRequested /\ StopEnter("switch", c, f)

TakeGuard ==
  /\ pc = "guard" /\ ~guard
  /\ guard' = TRUE /\ pc' = "prepare"
  /\ UNCHANGED <<memory, kind, gen, cfg, force, rcpt, voided, threads, disk,
                 signalled, counts>>

(* The receipts the prepare-stop call can lead to: a sealed one from a     *)
(* live engine, a stats snapshot from an engine without the endpoint or    *)
(* under force, a degraded one only under force.                           *)
Obtainable ==
  (IF proc[gen] = "alive" /\ config[gen] \notin LegacyConfigs
     THEN {"instance"} ELSE {})
  \cup (IF proc[gen] = "alive" /\ (force \/ config[gen] \in LegacyConfigs)
          THEN {"snapshot"} ELSE {})
  \cup (IF force THEN {"legacy"} ELSE {})

PrepareStop(r) ==
  /\ pc = "prepare" /\ r \in Obtainable
  /\ rcpt' = r /\ pc' = "enqueue"
  /\ UNCHANGED <<memory, kind, gen, cfg, force, voided, guard, threads, disk,
                 signalled, counts>>

PrepareStopFails ==
  /\ pc = "prepare" /\ ~force
  /\ StopRaises
  /\ UNCHANGED <<up, child, lastCfg, starting, stopRequested, durable,
                 lastAcc, reaped, threads, disk, signalled, counts>>

EnqueueReceipt ==
  /\ pc = "enqueue"
  /\ outbox' = Persist(outbox, Receipt(rcpt, gen, IF rcpt = "legacy" THEN None ELSE gen))
  /\ durable' = durable \cup {gen}
  /\ lastAcc' = [lastAcc EXCEPT ![gen] = None]
  /\ guard' = FALSE /\ pc' = "term"
  /\ UNCHANGED <<up, child, lastCfg, stopping, starting, stopRequested,
                 shutdownRequested, reaped, kind, gen, cfg, force, rcpt,
                 voided, threads, proc, config, pidfile, signalled,
                 counts>>

(* Mutant: an outbox error is swallowed and the stop goes on. *)
EnqueueFailsOn ==
  /\ pc = "enqueue"
  /\ guard' = FALSE /\ pc' = "term"
  /\ UNCHANGED <<memory, kind, gen, cfg, force, rcpt, voided, threads, disk,
                 signalled, counts>>

EnqueueFails ==
  /\ pc = "enqueue"
  /\ StopRaises
  /\ UNCHANGED <<up, child, lastCfg, starting, stopRequested, durable,
                 lastAcc, reaped, threads, disk, signalled, counts>>

Terminate ==
  /\ pc = "term"
  /\ IF gen \in reaped
     THEN StopReturns(TRUE) /\ UNCHANGED signalled
     ELSE /\ signalled' = signalled \cup {gen}
          /\ Goto("grace") /\ UNCHANGED shutdownRequested
  /\ UNCHANGED <<up, child, lastCfg, stopping, starting, stopRequested,
                 durable, lastAcc, reaped, threads, disk, counts>>

(* child.reaped.wait() returned True, before or after the SIGKILL. *)
ReapedInTime ==
  /\ pc \in {"grace", "killwait"} /\ gen \in reaped
  /\ StopReturns(TRUE)
  /\ UNCHANGED <<up, child, lastCfg, stopping, starting, stopRequested,
                 durable, lastAcc, reaped, threads, disk, signalled, counts>>

GraceExpires ==
  /\ pc = "grace" /\ gen \notin reaped
  /\ Goto("killwait")
  /\ UNCHANGED <<memory, threads, disk, signalled, counts>>

(* Mutant: a child that outlives SIGKILL is dropped. *)
KillWaitDrops ==
  /\ pc = "killwait" /\ gen \notin reaped
  /\ child' = None
  /\ StopRaises
  /\ UNCHANGED <<up, lastCfg, starting, stopRequested, durable,
                 lastAcc, reaped, threads, disk, signalled, counts>>

(* Mutant: the wait after SIGKILL has no timeout. *)
KillWaitForever == FALSE /\ UNCHANGED vars

KillWaitExpires ==
  /\ pc = "killwait" /\ gen \notin reaped
  /\ StopRaises
  /\ UNCHANGED <<up, child, lastCfg, starting, stopRequested, durable,
                 lastAcc, reaped, threads, disk, signalled, counts>>

-----------------------------------------------------------------------------
(* The reaper of generation g: _monitor and _reap                          *)

ReapObserve(g) ==
  /\ rpc[g] = "watch" /\ proc[g] = "dead"
  /\ rwas' = [rwas EXCEPT ![g] = stopping \/ stopRequested]
  /\ rpc' = [rpc EXCEPT ![g] = IF child = g THEN "account" ELSE "forget"]
  /\ UNCHANGED <<memory, txn, restarts, probe, disk, signalled, counts>>

(* Mutant: a receipt that is already durable is not looked for. *)
ReapAccountAgain(g) ==
  /\ rpc[g] = "account" /\ ~guard
  /\ outbox' = Persist(outbox, Receipt("crash", g, lastAcc[g]))
  /\ durable' = durable \cup {g}
  /\ lastAcc' = [lastAcc EXCEPT ![g] = None]
  /\ rpc' = [rpc EXCEPT ![g] = "forget"]
  /\ UNCHANGED <<up, child, lastCfg, stopping, starting, stopRequested,
                 shutdownRequested, reaped, txn, rwas, restarts, probe, proc,
                 config, pidfile, signalled, counts>>

(* _persist_crash_accounting, under the guard. *)
ReapAccount(g) ==
  /\ rpc[g] = "account" /\ ~guard
  /\ IF g \in durable
     THEN UNCHANGED <<outbox, durable, lastAcc>>
     ELSE /\ outbox' = Persist(outbox, Receipt("crash", g, lastAcc[g]))
          /\ durable' = durable \cup {g}
          /\ lastAcc' = [lastAcc EXCEPT ![g] = None]
  /\ rpc' = [rpc EXCEPT ![g] = "forget"]
  /\ UNCHANGED <<up, child, lastCfg, stopping, starting, stopRequested,
                 shutdownRequested, reaped, txn, rwas, restarts, probe, proc,
                 config, pidfile, signalled, counts>>

ReapAccountFails(g) ==
  /\ rpc[g] = "account" /\ ~guard /\ g \notin durable
  /\ stopRequested' = TRUE
  /\ rpc' = [rpc EXCEPT ![g] = "forget"]
  /\ UNCHANGED <<up, child, lastCfg, stopping, starting, shutdownRequested,
                 durable, lastAcc, reaped, txn, rwas, restarts, probe, disk,
                 signalled, counts>>

(* store.clear() removes serve.json, whatever generation it names.  An     *)
(* OSError of the removal is swallowed and the file stays.                 *)
ClearRecord ==
  \/ pidfile' = None /\ UNCHANGED uncleared
  \/ /\ pidfile # None
     /\ uncleared' = uncleared \cup {pidfile}
     /\ Cardinality(uncleared') <= MaxClearFails
     /\ UNCHANGED pidfile

(* Mutant: stop() is woken before the pidfile is cleared. *)
ReapForgetWakes(g) ==
  /\ rpc[g] = "forget" /\ child = g
  /\ child' = None /\ stopping' = FALSE
  /\ reaped' = reaped \cup {g}
  /\ rpc' = [rpc EXCEPT ![g] = "clear"]
  /\ UNCHANGED <<up, lastCfg, starting, stopRequested, shutdownRequested,
                 durable, lastAcc, txn, rwas, restarts, probe, disk,
                 signalled, counts>>

ReapForget(g) ==
  /\ rpc[g] = "forget"
  /\ IF child = g
     THEN /\ child' = None /\ stopping' = FALSE
          /\ rpc' = [rpc EXCEPT ![g] = "clear"]
          /\ UNCHANGED reaped
     ELSE /\ rpc' = [rpc EXCEPT ![g] = "done"]
          /\ reaped' = reaped \cup {g}
          /\ UNCHANGED <<child, stopping>>
  /\ UNCHANGED <<up, lastCfg, starting, stopRequested, shutdownRequested,
                 durable, lastAcc, txn, rwas, restarts, probe, disk,
                 signalled, counts>>

ReapClear(g) ==
  /\ rpc[g] = "clear"
  /\ ClearRecord
  /\ rpc' = [rpc EXCEPT ![g] = "wake"]
  /\ UNCHANGED <<memory, txn, rwas, restarts, probe, proc, config, outbox,
                 signalled, crashes, saveFails, probes>>

ReapWake(g) ==
  /\ rpc[g] = "wake"
  /\ reaped' = reaped \cup {g}
  /\ rpc' = [rpc EXCEPT ![g] = "decide"]
  /\ UNCHANGED <<up, child, lastCfg, stopping, starting, stopRequested,
                 shutdownRequested, durable, lastAcc, txn, rwas, restarts,
                 probe, disk, signalled, counts>>

(* Restart a genuine crash with whatever configuration is current now. *)
ReapDecide(g) ==
  /\ rpc[g] = "decide"
  /\ restarts' = IF AutoRestart /\ ~rwas[g] /\ ~stopRequested
                 THEN restarts \cup {[cfg |-> lastCfg, voided |-> FALSE]}
                 ELSE restarts
  /\ rpc' = [rpc EXCEPT ![g] = "done"]
  /\ rwas' = [rwas EXCEPT ![g] = FALSE]
  /\ UNCHANGED <<memory, txn, probe, disk, signalled, counts>>

-----------------------------------------------------------------------------
(* GET /engine/stats: status(), the proxied probe, observe_accounting      *)

ProbeFetch ==
  /\ up /\ probe.at = "none" /\ probes < MaxProbes
  /\ child # None /\ ~stopping /\ proc[child] = "alive"
  /\ probe' = [at |-> "fetched", doc |-> child, target |-> None]
  /\ UNCHANGED <<memory, txn, rpc, rwas, restarts, disk, signalled, counts>>

ProbeBind ==
  /\ probe.at = "fetched"
  /\ IF child = None
     THEN probe' = NoProbe /\ probes' = probes + 1
     ELSE /\ probe' = [at |-> "bound", doc |-> probe.doc, target |-> child]
          /\ UNCHANGED probes
  /\ UNCHANGED <<memory, txn, rpc, rwas, restarts, disk, signalled, crashes,
                 saveFails, uncleared>>

ProbeStore ==
  /\ probe.at = "bound" /\ ~guard
  /\ lastAcc' = [lastAcc EXCEPT ![probe.target] = probe.doc]
  /\ probe' = NoProbe /\ probes' = probes + 1
  /\ UNCHANGED <<up, child, lastCfg, stopping, starting, stopRequested,
                 shutdownRequested, durable, reaped, txn, rpc, rwas, restarts,
                 disk, signalled, crashes, saveFails, uncleared>>

-----------------------------------------------------------------------------
(* The engine and the daemon as processes                                  *)

EngineExits(g) ==
  /\ proc[g] = "alive"
  /\ proc' = [proc EXCEPT ![g] = "dead"]
  /\ UNCHANGED <<memory, txn, threads, config, pidfile, outbox,
                 signalled, counts>>

DaemonGone ==
  /\ up' = FALSE /\ child' = None /\ lastCfg' = None
  /\ stopping' = FALSE /\ starting' = FALSE
  /\ stopRequested' = FALSE /\ shutdownRequested' = FALSE
  /\ durable' = {} /\ lastAcc' = [g \in Gens |-> None] /\ reaped' = {}
  /\ EndTxn
  /\ rpc' = [g \in Gens |-> "none"] /\ rwas' = [g \in Gens |-> FALSE]
  /\ restarts' = {} /\ probe' = NoProbe
  /\ UNCHANGED <<disk, signalled, saveFails, probes, uncleared>>

(* SIGKILL, OOM, power: or SIGTERM, whose hook detaches from the engine. *)
DaemonDies ==
  /\ up /\ crashes < MaxCrashes
  /\ crashes' = crashes + 1
  /\ DaemonGone

(* POST /shutdown answered: uvicorn leaves its loop. *)
DaemonExits ==
  /\ up /\ shutdownRequested /\ pc = "idle"
  /\ UNCHANGED crashes
  /\ DaemonGone

(* main(): the flock is free, readopt() runs before requests are served. *)
DaemonBoots ==
  /\ ~up
  /\ up' = TRUE
  /\ IF pidfile # None /\ proc[pidfile] = "alive"
     THEN /\ child' = pidfile /\ lastCfg' = config[pidfile]
          /\ rpc' = [rpc EXCEPT ![pidfile] = "watch"]
          /\ UNCHANGED <<pidfile, uncleared>>
     ELSE /\ ClearRecord
          /\ UNCHANGED <<child, lastCfg, rpc>>
  /\ UNCHANGED <<stopping, starting, stopRequested, shutdownRequested, durable,
                 lastAcc, reaped, txn, rwas, restarts, probe, proc, config,
                 outbox, signalled, crashes, saveFails, probes>>

-----------------------------------------------------------------------------
Transaction ==
  \/ \E g \in Gens : Spawn(g)
  \/ SpawnFails \/ Install \/ SavePidfile \/ SavePidfileFails \/ BeginWatch
  \/ SwitchStart \/ TakeGuard
  \/ \E r \in ReceiptKinds : PrepareStop(r)
  \/ PrepareStopFails \/ EnqueueReceipt \/ EnqueueFails
  \/ Terminate \/ ReapedInTime \/ GraceExpires \/ KillWaitExpires

Reaper(g) ==
  \/ ReapObserve(g) \/ ReapAccount(g) \/ ReapAccountFails(g) \/ ReapForget(g)
  \/ ReapClear(g) \/ ReapWake(g) \/ ReapDecide(g)

Request ==
  \/ \E c \in Configs : StartEnter(c)
  \/ \E f \in BOOLEAN : Stop(f) \/ Shutdown(f)
  \/ \E f \in BOOLEAN, c \in Configs : Switch(c, f)

Poll == ProbeFetch \/ ProbeBind \/ ProbeStore

Next ==
  \/ Transaction
  \/ Request
  \/ \E t \in restarts : AutoEnter(t)
  \/ \E g \in Gens : Reaper(g) \/ EngineExits(g)
  \/ Poll
  \/ DaemonDies \/ DaemonExits \/ DaemonBoots

Spec == Init /\ [][Next]_vars

(* Every thread of a live daemon is eventually scheduled.  A reaper that   *)
(* waits for the accounting guard gets it between two client requests,     *)
(* hence strong fairness there.  No client, engine or fault is fair.       *)
FairSpec ==
  /\ Spec
  /\ WF_vars(Transaction)
  /\ \A g \in Gens : WF_vars(Reaper(g)) /\ SF_vars(ReapAccount(g))
  /\ WF_vars(DaemonBoots)

-----------------------------------------------------------------------------
(* Properties                                                              *)

Alive == {g \in Gens : proc[g] = "alive"}

(* accounting.py: "A stop is allowed to signal the engine only after its   *)
(* receipt has reached this outbox".  Whatever fails or dies in between,   *)
(* a signalled engine has a receipt that reached the outbox.               *)
SignalAfterReceipt == \A g \in signalled : \E r \in outbox : r.gen = g

(* _reap clears the pidfile before it wakes stop(): once the reaped event  *)
(* of an engine is set the process is gone, the manager has forgotten it   *)
(* and a racing re-adoption cannot find it, unless removing its record is  *)
(* what failed.                                                            *)
ReapedIsGone ==
  \A g \in reaped :
    proc[g] = "dead" /\ child # g /\ (pidfile = g => g \in uncleared)

(* The manager's memory, its files and the processes agree: every variable *)
(* has its type and what _reap has reaped is gone from all of them.        *)
Consistent == TypeOK /\ ReapedIsGone

(* Until a daemon dies with its engine left alone, start, switch and       *)
(* auto-restart together never have two engines on the machine.            *)
SingleEngine == crashes = 0 => Cardinality(Alive) <= 1

(* A start with _auto never spawns once the stop latch is set, although    *)
(* reapers set it outside the lifecycle lock.                              *)
AutoHonoursLatch ==
  kind = "auto" /\ pc \in {"spawn", "install"} => ~stopRequested

(* What a daemon that boots now would adopt is the engine this daemon owns *)
(* (readopt never takes over somebody else's live process).                *)
AdoptableIsOwned ==
  up /\ pidfile # None /\ proc[pidfile] = "alive" => child = pidfile

(* _accounting_guard: a sealed receipt and a crash receipt are never both  *)
(* written for one generation while the same daemon lives.                 *)
SealedOrCrashed ==
  crashes = 0 =>
    ~ \E q, r \in outbox :
        q.gen = r.gen /\ q.kind = "instance" /\ r.kind = "crash"

(* Every lifecycle call returns: its waits are bounded and nobody waits    *)
(* for a thread that waits for it.                                         *)
TransactionEnds == pc # "idle" ~> pc = "idle"

(* The per-child monitor eventually notices an exit, so a dead engine does *)
(* not stay the owned child.                                               *)
DeadChildForgotten ==
  \A g \in Gens : (child = g /\ proc[g] = "dead") ~> child # g

(* README: "a daemon blip never orphans a live engine".  Between requests  *)
(* an owned live engine would have to be the one the pidfile records.      *)
OwnedIsRecorded ==
  up /\ pc = "idle" /\ saveFails = 0 /\ child \in Alive => pidfile = child

(* _start: "An auto-restart: honor a stop the user requested during/after  *)
(* the crash."                                                             *)
StopOutlivesRestart == kind = "auto" /\ pc = "install" => ~voided

(* observe_accounting: "Remember the latest validated totals for the       *)
(* current child."  A crash receipt would carry its own engine's totals.   *)
CrashTotalsOwn ==
  \A r \in outbox : r.kind = "crash" => r.about \in {r.gen, None}

-----------------------------------------------------------------------------
(* The invariant the safety properties rest on, in named parts.            *)

StopSteps == {"guard", "prepare", "enqueue", "term", "grace", "killwait"}
Gone == {"clear", "wake", "decide", "done"}

(* Nothing of a dead daemon is left: no child, no transaction, no reaper. *)
DownIsEmpty ==
  ~up => /\ child = None /\ pc = "idle" /\ reaped = {} /\ ~shutdownRequested
         /\ \A g \in Gens : rpc[g] = "none"

(* The transaction and the slot: a spawn is only under way in an empty     *)
(* slot, a stop only concerns the generation in it.                        *)
TxnOwnsSlot ==
  /\ pc \in {"spawn", "install"} => child = None
  /\ pc \in {"persist", "watch"} => child = gen
  /\ pc \in {"install", "persist", "watch"} =>
        gen \in Gens /\ rpc[gen] = "none" /\ proc[gen] # "unborn"
  /\ pc \in StopSteps =>
        gen \in Gens /\ child \in {gen, None} /\ proc[gen] # "unborn"
  /\ pc = "switch" => child = None
  /\ pc \in {"spawn", "install", "persist", "watch", "switch"} => cfg \in Configs
  /\ pc \in StopSteps /\ kind = "switch" => cfg \in Configs
  /\ stopping => pc \in StopSteps /\ child = gen
  /\ guard <=> pc \in {"prepare", "enqueue"}
  /\ pc = "enqueue" => rcpt \in ReceiptKinds \ {"crash"}

(* One reaper, and it is the owner's until it forgets its generation. *)
ReaperOwns(g) ==
  /\ rpc[g] \in {"watch", "account", "forget"} => child = g
  /\ rpc[g] \in Gone => child # g
  /\ rpc[g] \in {"wake", "decide", "done"} /\ pidfile = g => g \in uncleared
  /\ rpc[g] \in {"account", "forget"} \cup Gone => proc[g] = "dead"
  /\ rpc[g] # "none" => proc[g] # "unborn"
  /\ g \in reaped => rpc[g] \in {"decide", "done"}

(* What is on disk: the pidfile names a generation that was spawned, and   *)
(* an owned child was spawned too.                                         *)
RecordsAreBorn ==
  /\ pidfile # None => proc[pidfile] # "unborn"
  /\ child # None => proc[child] # "unborn" /\ lastCfg \in Configs
  /\ \A g \in Gens : rpc[g] # "none" => lastCfg \in Configs
  /\ \A g \in Gens : proc[g] # "unborn" => config[g] \in Configs

(* Past the outbox a stop holds a durable receipt. *)
StopHasReceipt ==
  pc \in {"term", "grace", "killwait"} => \E r \in outbox : r.gen = gen

(* A successful shutdown leaves no engine and lets no transaction in. *)
ShutdownIsFinal ==
  shutdownRequested =>
    IF pc = "idle" THEN child = None ELSE kind = "shutdown" /\ pc \in StopSteps

(* With no daemon lost, a live engine is in the slot or about to be. *)
LiveIsOwned ==
  crashes = 0 =>
    \A g \in Alive : child = g \/ (pc = "install" /\ gen = g)

HasReceipt(k, g) == \E r \in outbox : r.kind = k /\ r.gen = g

(* The guard separates a sealed receipt from a crash receipt. *)
GuardSeparates ==
  crashes = 0 =>
    \A g \in Gens :
      /\ HasReceipt("crash", g) => proc[g] = "dead"
      /\ HasReceipt("instance", g) /\ rpc[g] \in {"watch", "account"} => g \in durable
      /\ HasReceipt("instance", g) => proc[g] # "unborn"
      /\ HasReceipt("instance", g) => ~ HasReceipt("crash", g)
      /\ pc = "enqueue" /\ rcpt = "instance" /\ gen = g => ~ HasReceipt("crash", g)
      /\ pc \in {"install", "persist", "watch"} /\ gen = g => ~ HasReceipt("instance", g)

Ownership ==
  /\ DownIsEmpty
  /\ TxnOwnsSlot
  /\ \A g \in Gens : ReaperOwns(g)
  /\ RecordsAreBorn
  /\ StopHasReceipt
  /\ ShutdownIsFinal
  /\ LiveIsOwned
  /\ GuardSeparates
  /\ SignalAfterReceipt
  /\ AdoptableIsOwned
  /\ AutoHonoursLatch
=============================================================================
