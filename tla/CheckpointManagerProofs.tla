---------------------- MODULE CheckpointManagerProofs ----------------------
(***************************************************************************)
(* Proofs about CheckpointManager, for any sets of job ids and conversions *)
(* and any length of the worker's queue.                                   *)
(***************************************************************************)
EXTENDS CheckpointManager, FiniteSetTheorems, TLAPS

(* Every step of the routes, the worker, the monitors and the processes    *)
(* keeps the variables in their types, given that a running job outside of *)
(* its spawn has a process.                                                *)
LEMMA TypeStep == TypeOK /\ SlotOwned /\ [Next]_vars => TypeOK'
<1> SUFFICES ASSUME TypeOK, SlotOwned, [Next]_vars PROVE TypeOK'
  OBVIOUS
<1> USE DEF TypeOK, routes, convs, Ops
<1>1. ASSUME NEW op, NEW id, Task(op, id) \in Tasks, Request(op, id)
      PROVE  TypeOK'
  BY <1>1 DEF Request, Submit
<1>2. CASE Dispatch
  <2>1. Head(queue) \in Tasks /\ Tail(queue) \in Seq(Tasks)
    BY <1>2 DEF Dispatch
  <2>2. Head(queue).op \in Ops /\ Head(queue).id \in Ids \cup {None}
    BY <2>1 DEF Tasks
  <2>3. QED
    BY <1>2, <2>1, <2>2 DEF Dispatch
<1>3. CASE EngineStart
  BY <1>3 DEF EngineStart, Idle
<1>4. CASE EngineStop
  <2>1. cleared' \subseteq Ids
    BY <1>4 DEF EngineStop, Runs, SlotOwned
  <2>2. QED
    BY <1>4, <2>1 DEF EngineStop, Idle
<1>5. CASE Start
  BY <1>5 DEF Start, Reserve, Idle
<1>6. CASE SpawnFails
  BY <1>6 DEF SpawnFails, Idle, NoJob
<1>7. ASSUME NEW c \in Convs, Spawn(c)
      PROVE  TypeOK'
  BY <1>7 DEF Spawn, Idle
<1>8. CASE Cancel
  BY <1>8 DEF Cancel, Runs, Idle, SlotOwned
<1>9. CASE CancelWait
  BY <1>9 DEF CancelWait, Idle
<1>10. ASSUME NEW id \in Ids, Resume(id)
       PROVE  TypeOK'
  <2>1. Task("convert", id) \in Tasks
    BY <1>10 DEF Task, Tasks
  <2>2. QED
    BY <1>10, <2>1 DEF Resume, Submit
<1>11. ASSUME NEW c \in Convs, ConvExits(c)
       PROVE  TypeOK'
  BY <1>11 DEF ConvExits
<1>12. ASSUME NEW c \in Convs, MonitorReap(c)
       PROVE  TypeOK'
  BY <1>12 DEF MonitorReap
<1>13. ASSUME NEW c \in Convs, MonitorMark(c)
       PROVE  TypeOK'
  BY <1>13 DEF MonitorMark
<1>14. CASE ServeExits
  BY <1>14 DEF ServeExits
<1>15. CASE UNCHANGED vars
  BY <1>15 DEF vars
<1>16. \A op \in {"start", "stop"} : Task(op, None) \in Tasks
  BY DEF Task, Tasks
<1>17. \A op \in {"clear", "cancel"}, id \in Ids : Task(op, id) \in Tasks
  BY DEF Task, Tasks
<1> HIDE DEF TypeOK, routes, convs, Ops
<1>18. QED
  BY <1>1, <1>2, <1>3, <1>4, <1>5, <1>6, <1>7, <1>8, <1>9, <1>10, <1>11,
     <1>12, <1>13, <1>14, <1>15, <1>16, <1>17 DEF Next, Worker, Monitor

(* Every step keeps the conversions tied to the slot of the manager.       *)
LEMMA SlotStep == TypeOK /\ SlotOwned /\ [Next]_vars => SlotOwned'
<1> SUFFICES ASSUME TypeOK, SlotOwned, [Next]_vars PROVE SlotOwned'
  OBVIOUS
<1> USE DEF TypeOK, SlotOwned, Running, routes, convs
<1>1. ASSUME NEW op, NEW id, Request(op, id)
      PROVE  SlotOwned'
  BY <1>1 DEF Request
<1>2. CASE Dispatch
  <2>1. Head(queue) \in Tasks
    BY <1>2 DEF Dispatch
  <2>2. Head(queue).op = "clear" => Head(queue).id \in Ids
    BY <2>1 DEF Tasks
  <2>3. QED
    BY <1>2, <2>2 DEF Dispatch, Idle
<1>3. CASE EngineStart
  BY <1>3 DEF EngineStart, Runs, Idle
<1>4. CASE EngineStop
  BY <1>4 DEF EngineStop, Runs, Idle
<1>5. CASE Start
  BY <1>5 DEF Start, Reserve, Runs, Idle
<1>6. CASE SpawnFails
  BY <1>6 DEF SpawnFails, Idle, NoJob
<1>7. ASSUME NEW c \in Convs, Spawn(c)
      PROVE  SlotOwned'
  <2>1. child = None /\ child' = c /\ reaped' = reaped
    BY <1>7 DEF Spawn
  <2>2. \A d \in Convs : ~Running(d)
    BY <2>1, CheckpointAssumption
  <2>3. \A d \in Convs \ {c} : proc'[d] = proc[d]
    BY <1>7 DEF Spawn
  <2>4. c \notin reaped
    BY <1>7 DEF Spawn
  <2>5. worker'.step = "none" /\ worker'.op = "none"
    BY <1>7 DEF Spawn, Idle
  <2>6. QED
    BY <2>1, <2>2, <2>3, <2>4, <2>5
<1>8. CASE Cancel
  <2>1. CASE worker' = Idle /\ UNCHANGED job
    <3>1. worker'.step = "none" /\ worker'.op = "none" /\ job' = job
      BY <2>1 DEF Idle
    <3>2. job.state = "running" => child \in Convs
      BY <1>8 DEF Cancel, Runs
    <3>3. QED
      BY <1>8, <3>1, <3>2 DEF Cancel
  <2>2. CASE job' = [job EXCEPT !.state = "cancelled"]
             /\ worker' = [worker EXCEPT !.step = "grace"]
    <3>1. job'.state = "cancelled"
      BY <2>2
    <3>2. worker'.step = "grace" /\ worker'.op = "cancel"
      BY <1>8, <2>2 DEF Cancel, Runs
    <3>3. QED
      BY <1>8, <3>1, <3>2 DEF Cancel
  <2>3. QED
    BY <1>8, <2>1, <2>2 DEF Cancel
<1>9. CASE CancelWait
  BY <1>9 DEF CancelWait, Idle
<1>10. ASSUME NEW id \in Ids, Resume(id)
       PROVE  SlotOwned'
  BY <1>10 DEF Resume
<1>11. ASSUME NEW c \in Convs, ConvExits(c)
       PROVE  SlotOwned'
  BY <1>11 DEF ConvExits
<1>12. ASSUME NEW c \in Convs, MonitorReap(c)
       PROVE  SlotOwned'
  BY <1>12 DEF MonitorReap
<1>13. ASSUME NEW c \in Convs, MonitorMark(c)
       PROVE  SlotOwned'
  BY <1>13 DEF MonitorMark
<1>14. CASE ServeExits
  BY <1>14 DEF ServeExits
<1>15. CASE UNCHANGED vars
  BY <1>15 DEF vars
<1> HIDE DEF TypeOK, SlotOwned, Running, routes, convs
<1>16. QED
  BY <1>1, <1>2, <1>3, <1>4, <1>5, <1>6, <1>7, <1>8, <1>9, <1>10, <1>11,
     <1>12, <1>13, <1>14, <1>15 DEF Next, Worker, Monitor

(* The invariant start(), cancel() and the monitors keep together.         *)
THEOREM CheckpointInvariant == Spec => [](TypeOK /\ SlotOwned)
<1>1. Init => TypeOK /\ SlotOwned
  BY DEF Init, TypeOK, SlotOwned, Idle, NoJob, Running
<1>2. TypeOK /\ SlotOwned /\ [Next]_vars => (TypeOK /\ SlotOwned)'
  BY TypeStep, SlotStep
<1>3. QED
  BY <1>1, <1>2, PTL DEF Spec

(* The variables stay in their types; in particular cancel() terminates a  *)
(* conversion that exists.                                                 *)
THEOREM CheckpointTypes == Spec => []TypeOK
  BY CheckpointInvariant, PTL

(* start(): "no two GPU conversions at once".                              *)
THEOREM CheckpointSingle == Spec => []OneConversion
<1>1. TypeOK /\ SlotOwned => OneConversion
  <2> SUFFICES ASSUME TypeOK, SlotOwned PROVE OneConversion
    OBVIOUS
  <2> DEFINE R == {c \in Convs : Running(c)}
  <2>1. CASE R = {}
    BY <2>1, FS_EmptySet DEF OneConversion
  <2>2. CASE R # {}
    <3>1. R = {child}
      BY <2>2 DEF SlotOwned
    <3>2. Cardinality({child}) = 1
      BY FS_Singleton
    <3>3. QED
      BY <3>1, <3>2 DEF OneConversion
  <2>3. QED
    BY <2>1, <2>2
<1>2. QED
  BY <1>1, CheckpointInvariant, PTL
=============================================================================
