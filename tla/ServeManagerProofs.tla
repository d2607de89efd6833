------------------------ MODULE ServeManagerProofs ------------------------
(***************************************************************************)
(* Proofs about ServeManager, for every set of generations and             *)
(* configurations and every bound on the faults.                           *)
(***************************************************************************)
EXTENDS ServeManager, FiniteSetTheorems, TLAPS

(* Overriding or countermanding pending restarts (StartEnter, StopEnter)   *)
(* keeps them restarts.                                                    *)
LEMMA RestartSets ==
  ASSUME restarts \subseteq Restarts
  PROVE  /\ Countermanded \subseteq Restarts
         /\ \A c : Wanted(c) \subseteq Restarts
<1>1. Countermanded \subseteq Restarts
  <2>1. \A t \in restarts : [cfg |-> t.cfg, voided |-> TRUE] \in Restarts
    BY DEF Restarts
  <2>2. QED
    BY <2>1, Zenon DEF Countermanded
<1>2. ASSUME NEW c PROVE Wanted(c) \subseteq Restarts
  <2>1. ASSUME NEW t \in restarts, NEW b \in BOOLEAN
        PROVE  [cfg |-> t.cfg, voided |-> b] \in Restarts
    BY <2>1 DEF Restarts
  <2>2. \A t \in restarts : (t.voided /\ t.cfg # c) \in BOOLEAN
    OBVIOUS
  <2>3. QED
    BY <2>1, <2>2, Zenon DEF Wanted
<1>3. QED
  BY <1>1, <1>2

(* After AccountingOutbox.persist the outbox holds the receipts it held    *)
(* and one with the id asked for.                                          *)
LEMMA PersistCases ==
  ASSUME NEW box, NEW k, NEW g, NEW a
  PROVE  \/ /\ Persist(box, Receipt(k, g, a)) = box
            /\ \E q \in box : q.kind = k /\ q.gen = g
         \/ Persist(box, Receipt(k, g, a)) = box \cup {Receipt(k, g, a)}
  BY DEF Persist, Receipt

(* A stop's receipt reaches the outbox: EnqueueReceipt adds its id. *)
LEMMA EnqueueAdds ==
  ASSUME EnqueueReceipt, NEW l, NEW h
  PROVE  HasReceipt(l, h)' <=> HasReceipt(l, h) \/ (l = rcpt /\ h = gen)
<1>1. PICK a : outbox' = Persist(outbox, Receipt(rcpt, gen, a))
  BY DEF EnqueueReceipt
<1>2. CASE /\ outbox' = outbox
           /\ \E q \in outbox : q.kind = rcpt /\ q.gen = gen
  BY <1>2 DEF HasReceipt
<1>3. CASE outbox' = outbox \cup {Receipt(rcpt, gen, a)}
  <2>1. Receipt(rcpt, gen, a).kind = rcpt /\ Receipt(rcpt, gen, a).gen = gen
    BY DEF Receipt
  <2>2. QED
    BY <1>3, <2>1 DEF HasReceipt
<1>4. QED
  BY <1>1, <1>2, <1>3, PersistCases

(* A reaper adds a crash receipt for a generation without a durable one. *)
LEMMA CrashAdds ==
  ASSUME NEW g \in Gens, ReapAccount(g), NEW l, NEW h
  PROVE  HasReceipt(l, h)' <=>
           HasReceipt(l, h) \/ (g \notin durable /\ l = "crash" /\ h = g)
<1>1. CASE g \in durable
  BY <1>1 DEF ReapAccount, HasReceipt
<1>2. CASE g \notin durable
  <2>1. outbox' = Persist(outbox, Receipt("crash", g, lastAcc[g]))
    BY <1>2 DEF ReapAccount
  <2>2. CASE /\ outbox' = outbox
             /\ \E q \in outbox : q.kind = "crash" /\ q.gen = g
    BY <1>2, <2>2 DEF HasReceipt
  <2>3. CASE outbox' = outbox \cup {Receipt("crash", g, lastAcc[g])}
    <3> DEFINE r == Receipt("crash", g, lastAcc[g])
    <3>1. r.kind = "crash" /\ r.gen = g
      BY DEF Receipt
    <3>2. QED
      BY <1>2, <2>3, <3>1 DEF HasReceipt
  <2>4. QED
    BY <2>1, <2>2, <2>3, PersistCases
<1>3. QED
  BY <1>1, <1>2

(* Every action of the manager, its reapers and its processes keeps the    *)
(* variables in their types.  Ownership supplies what the types alone do   *)
(* not: which fields of the transaction are set at which step.             *)
LEMMA TypeStep == TypeOK /\ Ownership /\ [Next]_vars => TypeOK'
<1> SUFFICES ASSUME TypeOK, Ownership, [Next]_vars PROVE TypeOK'
  OBVIOUS
<1> USE DEF TypeOK
<1>1. /\ pc \in {"install", "persist", "watch"} \cup StopSteps => gen \in Gens
      /\ pc \in {"spawn", "install", "persist", "watch", "switch"} => cfg \in Configs
      /\ pc = "enqueue" => rcpt \in ReceiptKinds \ {"crash"}
      /\ \A g \in Gens : rpc[g] # "none" => lastCfg \in Configs
  BY DEF Ownership, TxnOwnsSlot, RecordsAreBorn
<1> USE DEF StopSteps
<1>2. CASE Next
  <2>1. ASSUME NEW g \in Gens, Spawn(g)
        PROVE  TypeOK'
    BY <2>1, <1>1, ServeAssumption DEF Spawn, memory, MemoryTypes, txn,
      TxnTypes, Kinds, TxnSteps, ReceiptKinds, threads, ThreadTypes,
      ReapSteps, disk, counts, DiskTypes
  <2>2. CASE SpawnFails
    BY <2>2, <1>1, ServeAssumption DEF SpawnFails, EndTxn, memory,
      MemoryTypes, txn, TxnTypes, Kinds, TxnSteps, ReceiptKinds, threads,
      ThreadTypes, ReapSteps, disk, counts, DiskTypes
  <2>3. CASE Install
    <3>1. MemoryTypes'
      BY <2>3, <1>1, ServeAssumption DEF Install, Goto, memory, MemoryTypes,
        TxnTypes
    <3>2. TxnTypes'
      BY <2>3, <1>1, ServeAssumption DEF Install, Goto, txn, TxnTypes,
        Kinds, TxnSteps, ReceiptKinds
    <3>3. ThreadTypes'
      BY <2>3 DEF Install, threads, ThreadTypes, ReapSteps
    <3>4. DiskTypes'
      BY <2>3 DEF Install, disk, counts, DiskTypes
    <3>5. QED
      BY <3>1, <3>2, <3>3, <3>4 DEF TypeOK
  <2>4. CASE SavePidfile
    BY <2>4, <1>1, ServeAssumption DEF SavePidfile, Goto, memory,
      MemoryTypes, txn, TxnTypes, Kinds, TxnSteps, ReceiptKinds, threads,
      ThreadTypes, ReapSteps, disk, counts, DiskTypes
  <2>5. CASE SavePidfileFails
    <3>1. MemoryTypes'
      BY <2>5 DEF SavePidfileFails, memory, MemoryTypes
    <3>2. TxnTypes'
      BY <2>5, <1>1, ServeAssumption DEF SavePidfileFails, EndTxn, txn,
        TxnTypes, Kinds, TxnSteps, ReceiptKinds
    <3>3. ThreadTypes'
      BY <2>5 DEF SavePidfileFails, threads, ThreadTypes, ReapSteps
    <3>4. DiskTypes'
      BY <2>5, <1>1, ServeAssumption DEF SavePidfileFails, EndTxn, disk,
        counts, DiskTypes
    <3>5. QED
      BY <3>1, <3>2, <3>3, <3>4 DEF TypeOK
  <2>6. CASE BeginWatch
    BY <2>6, <1>1, ServeAssumption DEF BeginWatch, EndTxn, memory,
      MemoryTypes, txn, TxnTypes, Kinds, TxnSteps, ReceiptKinds, threads,
      ThreadTypes, ReapSteps, disk, counts, DiskTypes
  <2>7. CASE SwitchStart
    BY <2>7, <1>1, ServeAssumption, RestartSets, ZenonT(30) DEF SwitchStart,
      ReserveSpawn, EndTxn, memory, MemoryTypes, txn, TxnTypes, Kinds,
      TxnSteps, ReceiptKinds, threads, ThreadTypes, ReapSteps, disk, counts,
      DiskTypes
  <2>8. CASE TakeGuard
    BY <2>8, <1>1, ServeAssumption DEF TakeGuard, memory, MemoryTypes, txn,
      TxnTypes, Kinds, TxnSteps, ReceiptKinds, threads, ThreadTypes,
      ReapSteps, disk, counts, DiskTypes
  <2>9. ASSUME NEW r \in ReceiptKinds, PrepareStop(r)
        PROVE  TypeOK'
    BY <2>9, <1>1, ServeAssumption DEF PrepareStop, Obtainable, memory,
      MemoryTypes, txn, TxnTypes, Kinds, TxnSteps, ReceiptKinds, threads,
      ThreadTypes, ReapSteps, disk, counts, DiskTypes
  <2>10. CASE PrepareStopFails
    BY <2>10, <1>1, ServeAssumption DEF PrepareStopFails, StopRaises,
      StopReturns, EndTxn, memory, MemoryTypes, txn, TxnTypes, Kinds,
      TxnSteps, ReceiptKinds, threads, ThreadTypes, ReapSteps, disk, counts,
      DiskTypes
  <2>11. CASE EnqueueReceipt
    <3>1. MemoryTypes'
      BY <2>11, <1>1, ServeAssumption DEF EnqueueReceipt, Persist, Receipt,
        Receipts, memory, MemoryTypes, TxnTypes
    <3>2. TxnTypes'
      BY <2>11, <1>1, ServeAssumption DEF EnqueueReceipt, Persist, Receipt,
        Receipts, txn, TxnTypes, Kinds, TxnSteps, ReceiptKinds
    <3>3. ThreadTypes'
      BY <2>11 DEF EnqueueReceipt, threads, ThreadTypes, ReapSteps
    <3>4. DiskTypes'
      BY <2>11, <1>1, ServeAssumption DEF EnqueueReceipt, Persist, Receipt,
        Receipts, disk, counts, DiskTypes, TxnTypes, ReceiptKinds
    <3>5. QED
      BY <3>1, <3>2, <3>3, <3>4 DEF TypeOK
  <2>12. CASE EnqueueFails
    BY <2>12, <1>1, ServeAssumption DEF EnqueueFails, StopRaises,
      StopReturns, EndTxn, memory, MemoryTypes, txn, TxnTypes, Kinds,
      TxnSteps, ReceiptKinds, threads, ThreadTypes, ReapSteps, disk, counts,
      DiskTypes
  <2>13. CASE Terminate
    <3>1. MemoryTypes'
      BY <2>13, <1>1, ServeAssumption DEF Terminate, StopReturns, EndTxn,
        Goto, memory, MemoryTypes
    <3>2. TxnTypes'
      BY <2>13, <1>1, ServeAssumption DEF Terminate, StopReturns, EndTxn,
        Goto, txn, TxnTypes, Kinds, TxnSteps, ReceiptKinds
    <3>3. ThreadTypes'
      BY <2>13 DEF Terminate, threads, ThreadTypes, ReapSteps
    <3>4. DiskTypes'
      BY <2>13, <1>1, ServeAssumption DEF Terminate, StopReturns, EndTxn,
        Goto, disk, counts, DiskTypes, TxnTypes
    <3>5. QED
      BY <3>1, <3>2, <3>3, <3>4 DEF TypeOK
  <2>14. CASE ReapedInTime
    BY <2>14, <1>1, ServeAssumption, ZenonT(30) DEF ReapedInTime, StopReturns, EndTxn,
      memory, MemoryTypes, txn, TxnTypes, Kinds, TxnSteps, ReceiptKinds,
      threads, ThreadTypes, ReapSteps, disk, counts, DiskTypes
  <2>15. CASE GraceExpires
    BY <2>15, <1>1, ServeAssumption DEF GraceExpires, Goto, memory,
      MemoryTypes, txn, TxnTypes, Kinds, TxnSteps, ReceiptKinds, threads,
      ThreadTypes, ReapSteps, disk, counts, DiskTypes
  <2>16. CASE KillWaitExpires
    BY <2>16, <1>1, ServeAssumption DEF KillWaitExpires, StopRaises,
      StopReturns, EndTxn, memory, MemoryTypes, txn, TxnTypes, Kinds,
      TxnSteps, ReceiptKinds, threads, ThreadTypes, ReapSteps, disk, counts,
      DiskTypes
  <2>17. ASSUME NEW c \in Configs, StartEnter(c)
        PROVE  TypeOK'
    BY <2>17, <1>1, ServeAssumption, RestartSets DEF StartEnter,
      ReserveSpawn, EndTxn, memory, MemoryTypes, txn, TxnTypes, Kinds,
      TxnSteps, ReceiptKinds, threads, ThreadTypes, ReapSteps, disk, counts,
      DiskTypes
  <2>18. ASSUME NEW f \in BOOLEAN, Stop(f)
        PROVE  TypeOK'
    <3>1. MemoryTypes'
      BY <2>18, <1>1, ServeAssumption DEF Stop, StopEnter, memory,
        MemoryTypes
    <3>2. TxnTypes'
      BY <2>18, <1>1, ServeAssumption DEF Stop, StopEnter, txn, TxnTypes,
        Kinds, TxnSteps, ReceiptKinds, MemoryTypes
    <3>3. ThreadTypes'
      BY <2>18, <1>1, ServeAssumption, RestartSets DEF Stop, StopEnter,
        threads, ThreadTypes, ReapSteps
    <3>4. DiskTypes'
      BY <2>18, <1>1, ServeAssumption DEF Stop, StopEnter, disk, counts,
        DiskTypes
    <3>5. QED
      BY <3>1, <3>2, <3>3, <3>4 DEF TypeOK
  <2>19. ASSUME NEW f \in BOOLEAN, Shutdown(f)
        PROVE  TypeOK'
    <3>1. MemoryTypes'
      BY <2>19, <1>1, ServeAssumption DEF Shutdown, StopEnter, memory,
        MemoryTypes
    <3>2. TxnTypes'
      BY <2>19, <1>1, ServeAssumption DEF Shutdown, StopEnter, txn,
        TxnTypes, Kinds, TxnSteps, ReceiptKinds, MemoryTypes
    <3>3. ThreadTypes'
      BY <2>19, <1>1, ServeAssumption, RestartSets DEF Shutdown, StopEnter,
        threads, ThreadTypes, ReapSteps
    <3>4. DiskTypes'
      BY <2>19, <1>1, ServeAssumption DEF Shutdown, StopEnter, disk, counts,
        DiskTypes
    <3>5. QED
      BY <3>1, <3>2, <3>3, <3>4 DEF TypeOK
  <2>20. ASSUME NEW f \in BOOLEAN, NEW c \in Configs, Switch(c, f)
        PROVE  TypeOK'
    <3>1. MemoryTypes'
      BY <2>20, <1>1, ServeAssumption DEF Switch, StopEnter, memory,
        MemoryTypes
    <3>2. TxnTypes'
      BY <2>20, <1>1, ServeAssumption DEF Switch, StopEnter, txn, TxnTypes,
        Kinds, TxnSteps, ReceiptKinds, MemoryTypes
    <3>3. ThreadTypes'
      BY <2>20, <1>1, ServeAssumption, RestartSets DEF Switch, StopEnter,
        threads, ThreadTypes, ReapSteps
    <3>4. DiskTypes'
      BY <2>20, <1>1, ServeAssumption DEF Switch, StopEnter, disk, counts,
        DiskTypes
    <3>5. QED
      BY <3>1, <3>2, <3>3, <3>4 DEF TypeOK
  <2>21. ASSUME NEW t \in restarts, AutoEnter(t)
        PROVE  TypeOK'
    <3>1. MemoryTypes'
      BY <2>21, <1>1, ServeAssumption DEF AutoEnter, ReserveSpawn, EndTxn,
        memory, MemoryTypes
    <3>2. TxnTypes'
      BY <2>21, <1>1, ServeAssumption DEF AutoEnter, ReserveSpawn, EndTxn,
        txn, TxnTypes, Kinds, TxnSteps, ReceiptKinds, ThreadTypes, Restarts
    <3>3. ThreadTypes'
      BY <2>21, <1>1, ServeAssumption DEF AutoEnter, ReserveSpawn, EndTxn,
        threads, ThreadTypes, ReapSteps
    <3>4. DiskTypes'
      BY <2>21 DEF AutoEnter, disk, counts, DiskTypes
    <3>5. QED
      BY <3>1, <3>2, <3>3, <3>4 DEF TypeOK
  <2>22. ASSUME NEW g \in Gens, ReapObserve(g)
        PROVE  TypeOK'
    BY <2>22, <1>1, ServeAssumption DEF ReapObserve, memory, MemoryTypes,
      txn, TxnTypes, Kinds, TxnSteps, ReceiptKinds, threads, ThreadTypes,
      ReapSteps, disk, counts, DiskTypes
  <2>23. ASSUME NEW g \in Gens, ReapAccount(g)
        PROVE  TypeOK'
    BY <2>23, <1>1, ServeAssumption DEF ReapAccount, Persist, Receipt,
      Receipts, memory, MemoryTypes, txn, TxnTypes, Kinds, TxnSteps,
      ReceiptKinds, threads, ThreadTypes, ReapSteps, disk, counts, DiskTypes
  <2>24. ASSUME NEW g \in Gens, ReapAccountFails(g)
        PROVE  TypeOK'
    BY <2>24, <1>1, ServeAssumption DEF ReapAccountFails, memory,
      MemoryTypes, txn, TxnTypes, Kinds, TxnSteps, ReceiptKinds, threads,
      ThreadTypes, ReapSteps, disk, counts, DiskTypes
  <2>25. ASSUME NEW g \in Gens, ReapForget(g)
        PROVE  TypeOK'
    <3>1. MemoryTypes'
      BY <2>25, <1>1, ServeAssumption DEF ReapForget, memory, MemoryTypes
    <3>2. TxnTypes'
      BY <2>25 DEF ReapForget, txn, TxnTypes, Kinds, TxnSteps, ReceiptKinds
    <3>3. ThreadTypes'
      BY <2>25, <1>1, ServeAssumption DEF ReapForget, threads, ThreadTypes,
        ReapSteps
    <3>4. DiskTypes'
      BY <2>25 DEF ReapForget, disk, counts, DiskTypes
    <3>5. QED
      BY <3>1, <3>2, <3>3, <3>4 DEF TypeOK
  <2>26. ASSUME NEW g \in Gens, ReapClear(g)
        PROVE  TypeOK'
    BY <2>26, <1>1, ServeAssumption DEF ReapClear, ClearRecord, memory, MemoryTypes, txn,
      TxnTypes, Kinds, TxnSteps, ReceiptKinds, threads, ThreadTypes,
      ReapSteps, disk, counts, DiskTypes
  <2>27. ASSUME NEW g \in Gens, ReapWake(g)
        PROVE  TypeOK'
    BY <2>27, <1>1, ServeAssumption DEF ReapWake, memory, MemoryTypes, txn,
      TxnTypes, Kinds, TxnSteps, ReceiptKinds, threads, ThreadTypes,
      ReapSteps, disk, counts, DiskTypes
  <2>28. ASSUME NEW g \in Gens, ReapDecide(g)
        PROVE  TypeOK'
    <3>1. MemoryTypes'
      BY <2>28 DEF ReapDecide, memory, MemoryTypes
    <3>2. TxnTypes'
      BY <2>28 DEF ReapDecide, txn, TxnTypes, Kinds, TxnSteps, ReceiptKinds
    <3>3. ThreadTypes'
      <4>1. lastCfg \in Configs
        BY <2>28, <1>1 DEF ReapDecide
      <4>2. [cfg |-> lastCfg, voided |-> FALSE] \in Restarts
        BY <4>1 DEF Restarts
      <4>3. restarts' \subseteq Restarts
        BY <2>28, <4>2 DEF ReapDecide, ThreadTypes
      <4>4. QED
        BY <2>28, <4>3 DEF ReapDecide, ThreadTypes, ReapSteps
    <3>4. DiskTypes'
      BY <2>28 DEF ReapDecide, disk, counts, DiskTypes
    <3>5. QED
      BY <3>1, <3>2, <3>3, <3>4 DEF TypeOK
  <2>29. ASSUME NEW g \in Gens, EngineExits(g)
        PROVE  TypeOK'
    BY <2>29, <1>1, ServeAssumption DEF EngineExits, memory, MemoryTypes,
      txn, TxnTypes, Kinds, TxnSteps, ReceiptKinds, threads, ThreadTypes,
      ReapSteps, disk, counts, DiskTypes
  <2>30. CASE ProbeFetch
    BY <2>30, <1>1, ServeAssumption DEF ProbeFetch, NoProbe, memory,
      MemoryTypes, txn, TxnTypes, Kinds, TxnSteps, ReceiptKinds, threads,
      ThreadTypes, ReapSteps, disk, counts, DiskTypes, Probes
  <2>31. CASE ProbeBind
    BY <2>31, <1>1, ServeAssumption DEF ProbeBind, NoProbe, memory,
      MemoryTypes, txn, TxnTypes, Kinds, TxnSteps, ReceiptKinds, threads,
      ThreadTypes, ReapSteps, disk, counts, DiskTypes, Probes
  <2>32. CASE ProbeStore
    <3>1. MemoryTypes'
      BY <2>32, <1>1, ServeAssumption DEF ProbeStore, NoProbe, memory,
        MemoryTypes, ThreadTypes, Probes
    <3>2. TxnTypes'
      BY <2>32 DEF ProbeStore, txn, TxnTypes, Kinds, TxnSteps, ReceiptKinds
    <3>3. ThreadTypes'
      BY <2>32, <1>1, ServeAssumption DEF ProbeStore, NoProbe, threads,
        ThreadTypes, ReapSteps, Probes
    <3>4. DiskTypes'
      BY <2>32, <1>1, ServeAssumption DEF ProbeStore, NoProbe, disk, counts,
        DiskTypes
    <3>5. QED
      BY <3>1, <3>2, <3>3, <3>4 DEF TypeOK
  <2>33. CASE DaemonDies
    <3>1. MemoryTypes'
      BY <2>33, <1>1, ServeAssumption DEF DaemonDies, DaemonGone, EndTxn,
        NoProbe, memory, MemoryTypes
    <3>2. TxnTypes'
      BY <2>33, <1>1, ServeAssumption DEF DaemonDies, DaemonGone, EndTxn,
        NoProbe, txn, TxnTypes, Kinds, TxnSteps, ReceiptKinds
    <3>3. ThreadTypes'
      BY <2>33, <1>1, ServeAssumption DEF DaemonDies, DaemonGone, EndTxn,
        NoProbe, threads, ThreadTypes, ReapSteps, Probes
    <3>4. DiskTypes'
      BY <2>33, <1>1, ServeAssumption DEF DaemonDies, DaemonGone, EndTxn,
        NoProbe, disk, counts, DiskTypes
    <3>5. QED
      BY <3>1, <3>2, <3>3, <3>4 DEF TypeOK
  <2>34. CASE DaemonExits
    <3>1. MemoryTypes'
      BY <2>34, <1>1, ServeAssumption DEF DaemonExits, DaemonGone, EndTxn,
        NoProbe, memory, MemoryTypes
    <3>2. TxnTypes'
      BY <2>34, <1>1, ServeAssumption DEF DaemonExits, DaemonGone, EndTxn,
        NoProbe, txn, TxnTypes, Kinds, TxnSteps, ReceiptKinds
    <3>3. ThreadTypes'
      BY <2>34, <1>1, ServeAssumption DEF DaemonExits, DaemonGone, EndTxn,
        NoProbe, threads, ThreadTypes, ReapSteps, Probes
    <3>4. DiskTypes'
      BY <2>34, <1>1, ServeAssumption DEF DaemonExits, DaemonGone, EndTxn,
        NoProbe, disk, counts, DiskTypes
    <3>5. QED
      BY <3>1, <3>2, <3>3, <3>4 DEF TypeOK
  <2>35. CASE DaemonBoots
    BY <2>35, <1>1, ServeAssumption DEF DaemonBoots, ClearRecord, memory, MemoryTypes,
      txn, TxnTypes, Kinds, TxnSteps, ReceiptKinds, threads, ThreadTypes,
      ReapSteps, disk, counts, DiskTypes
  <2>36. QED
    BY <1>2, <2>1, <2>2, <2>3, <2>4, <2>5, <2>6, <2>7, <2>8, <2>9, <2>10,
      <2>11, <2>12, <2>13, <2>14, <2>15, <2>16, <2>17, <2>18, <2>19, <2>20,
      <2>21, <2>22, <2>23, <2>24, <2>25, <2>26, <2>27, <2>28, <2>29, <2>30,
      <2>31, <2>32, <2>33, <2>34, <2>35 DEF Next, Transaction, Request,
      Reaper, Poll
<1>3. CASE UNCHANGED vars
  BY <1>3 DEF vars, memory, txn, threads, disk, counts, MemoryTypes, TxnTypes,
              ThreadTypes, DiskTypes
<1>4. QED
  BY <1>2, <1>3

(* Every action keeps the ownership invariant.  The slot argument: a       *)
(* reaper owns its generation until it forgets it, a spawn starts only in  *)
(* an empty slot, so at no time do two generations compete for it.         *)
LEMMA OwnershipStep == TypeOK /\ Ownership /\ [Next]_vars => Ownership'
<1> SUFFICES ASSUME TypeOK, Ownership, [Next]_vars PROVE Ownership'
  OBVIOUS
<1> USE DEF Ownership, TypeOK, MemoryTypes, TxnTypes, ThreadTypes, DiskTypes
<1>2. CASE Next
  <2>1. ASSUME NEW g \in Gens, Spawn(g)
        PROVE  Ownership'
    BY <2>1, ServeAssumption DEF Spawn, memory, txn, threads, disk, counts,
      DownIsEmpty, TxnOwnsSlot, StopSteps, ReaperOwns, Gone, ReceiptKinds,
      RecordsAreBorn, StopHasReceipt, ShutdownIsFinal, LiveIsOwned, Alive,
      GuardSeparates, HasReceipt, SignalAfterReceipt, AdoptableIsOwned,
      AutoHonoursLatch
  <2>2. CASE SpawnFails
    BY <2>2, ServeAssumption DEF SpawnFails, EndTxn, memory, txn, threads,
      disk, counts, DownIsEmpty, TxnOwnsSlot, StopSteps, ReaperOwns, Gone,
      ReceiptKinds, RecordsAreBorn, StopHasReceipt, ShutdownIsFinal,
      LiveIsOwned, Alive, GuardSeparates, HasReceipt, SignalAfterReceipt,
      AdoptableIsOwned, AutoHonoursLatch
  <2>3. CASE Install
    BY <2>3, ServeAssumption DEF Install, Goto, memory, txn, threads, disk,
      counts, DownIsEmpty, TxnOwnsSlot, StopSteps, ReaperOwns, Gone,
      ReceiptKinds, RecordsAreBorn, StopHasReceipt, ShutdownIsFinal,
      LiveIsOwned, Alive, GuardSeparates, HasReceipt, SignalAfterReceipt,
      AdoptableIsOwned, AutoHonoursLatch
  <2>4. CASE SavePidfile
    BY <2>4, ServeAssumption DEF SavePidfile, Goto, memory, txn, threads,
      disk, counts, DownIsEmpty, TxnOwnsSlot, StopSteps, ReaperOwns, Gone,
      ReceiptKinds, RecordsAreBorn, StopHasReceipt, ShutdownIsFinal,
      LiveIsOwned, Alive, GuardSeparates, HasReceipt, SignalAfterReceipt,
      AdoptableIsOwned, AutoHonoursLatch
  <2>5. CASE SavePidfileFails
    BY <2>5, ServeAssumption DEF SavePidfileFails, EndTxn, memory, txn,
      threads, disk, counts, DownIsEmpty, TxnOwnsSlot, StopSteps,
      ReaperOwns, Gone, ReceiptKinds, RecordsAreBorn, StopHasReceipt,
      ShutdownIsFinal, LiveIsOwned, Alive, GuardSeparates, HasReceipt,
      SignalAfterReceipt, AdoptableIsOwned, AutoHonoursLatch
  <2>6. CASE BeginWatch
    BY <2>6, ServeAssumption DEF BeginWatch, EndTxn, memory, txn, threads,
      disk, counts, DownIsEmpty, TxnOwnsSlot, StopSteps, ReaperOwns, Gone,
      ReceiptKinds, RecordsAreBorn, StopHasReceipt, ShutdownIsFinal,
      LiveIsOwned, Alive, GuardSeparates, HasReceipt, SignalAfterReceipt,
      AdoptableIsOwned, AutoHonoursLatch
  <2>7. CASE SwitchStart
    BY <2>7, ServeAssumption DEF SwitchStart, ReserveSpawn, EndTxn, Wanted,
      memory, txn, threads, disk, counts, DownIsEmpty, TxnOwnsSlot,
      StopSteps, ReaperOwns, Gone, ReceiptKinds, RecordsAreBorn,
      StopHasReceipt, ShutdownIsFinal, LiveIsOwned, Alive, GuardSeparates,
      HasReceipt, SignalAfterReceipt, AdoptableIsOwned, AutoHonoursLatch
  <2>8. CASE TakeGuard
    BY <2>8, ServeAssumption DEF TakeGuard, memory, txn, threads, disk,
      counts, DownIsEmpty, TxnOwnsSlot, StopSteps, ReaperOwns, Gone,
      ReceiptKinds, RecordsAreBorn, StopHasReceipt, ShutdownIsFinal,
      LiveIsOwned, Alive, GuardSeparates, HasReceipt, SignalAfterReceipt,
      AdoptableIsOwned, AutoHonoursLatch
  <2>9. ASSUME NEW r \in ReceiptKinds, PrepareStop(r)
        PROVE  Ownership'
    BY <2>9, ServeAssumption DEF PrepareStop, Obtainable, memory, txn,
      threads, disk, counts, DownIsEmpty, TxnOwnsSlot, StopSteps,
      ReaperOwns, Gone, ReceiptKinds, RecordsAreBorn, StopHasReceipt,
      ShutdownIsFinal, LiveIsOwned, Alive, GuardSeparates, HasReceipt,
      SignalAfterReceipt, AdoptableIsOwned, AutoHonoursLatch
  <2>10. CASE PrepareStopFails
    BY <2>10, ServeAssumption DEF PrepareStopFails, StopRaises, StopReturns,
      EndTxn, memory, txn, threads, disk, counts, DownIsEmpty, TxnOwnsSlot,
      StopSteps, ReaperOwns, Gone, ReceiptKinds, RecordsAreBorn,
      StopHasReceipt, ShutdownIsFinal, LiveIsOwned, Alive, GuardSeparates,
      HasReceipt, SignalAfterReceipt, AdoptableIsOwned, AutoHonoursLatch
  <2>11. CASE EnqueueReceipt
    <3>1. DownIsEmpty'
      BY <2>11, ServeAssumption DEF EnqueueReceipt, Persist, Receipt,
        Receipts, memory, txn, threads, disk, counts, DownIsEmpty
    <3>2. TxnOwnsSlot'
      BY <2>11, ServeAssumption DEF EnqueueReceipt, Persist, Receipt,
        Receipts, memory, txn, threads, disk, counts, TxnOwnsSlot,
        DownIsEmpty, StopSteps, ReaperOwns, Gone, ReceiptKinds,
        RecordsAreBorn
    <3>3. (\A h \in Gens : ReaperOwns(h))'
      BY <2>11, ServeAssumption DEF EnqueueReceipt, Persist, Receipt,
        Receipts, memory, txn, threads, disk, counts, ReaperOwns, Gone,
        TxnOwnsSlot, DownIsEmpty, StopSteps, RecordsAreBorn
    <3>4. RecordsAreBorn'
      BY <2>11, ServeAssumption DEF EnqueueReceipt, Persist, Receipt,
        Receipts, memory, txn, threads, disk, counts, RecordsAreBorn,
        TxnOwnsSlot, ReaperOwns, DownIsEmpty, StopSteps
    <3>5. StopHasReceipt'
      <4>1. HasReceipt(rcpt, gen)'
        BY <2>11, EnqueueAdds DEF EnqueueReceipt
      <4>2. QED
        BY <2>11, <4>1 DEF EnqueueReceipt, StopHasReceipt, HasReceipt
    <3>6. ShutdownIsFinal'
      BY <2>11, ServeAssumption DEF EnqueueReceipt, Persist, Receipt,
        Receipts, memory, txn, threads, disk, counts, ShutdownIsFinal,
        DownIsEmpty, TxnOwnsSlot, StopSteps, ReaperOwns, Gone
    <3>7. LiveIsOwned'
      BY <2>11, ServeAssumption DEF EnqueueReceipt, Persist, Receipt,
        Receipts, memory, txn, threads, disk, counts, LiveIsOwned, Alive,
        TxnOwnsSlot, ReaperOwns, Gone, StopSteps, DownIsEmpty,
        RecordsAreBorn, ShutdownIsFinal
    <3>8. GuardSeparates'
      <4>1. \A h \in Gens : HasReceipt("crash", h)' <=> HasReceipt("crash", h) \/ (rcpt = "crash" /\ h = gen)
        BY <2>11, EnqueueAdds
      <4>2. \A h \in Gens : HasReceipt("instance", h)' <=> HasReceipt("instance", h) \/ (rcpt = "instance" /\ h = gen)
        BY <2>11, EnqueueAdds
      <4>3. QED
        BY <2>11, <4>1, <4>2, ServeAssumption DEF EnqueueReceipt, memory,
          txn, threads, disk, counts, GuardSeparates, LiveIsOwned, Alive,
          TxnOwnsSlot, ReaperOwns, DownIsEmpty, StopSteps, Gone,
          RecordsAreBorn, ShutdownIsFinal
    <3>9. SignalAfterReceipt'
      BY <2>11, ServeAssumption DEF EnqueueReceipt, Persist, Receipt,
        Receipts, memory, txn, threads, disk, counts, SignalAfterReceipt,
        StopHasReceipt, TxnOwnsSlot, StopSteps
    <3>10. AdoptableIsOwned'
      BY <2>11, ServeAssumption DEF EnqueueReceipt, Persist, Receipt,
        Receipts, memory, txn, threads, disk, counts, AdoptableIsOwned,
        TxnOwnsSlot, StopSteps, ReaperOwns, RecordsAreBorn, DownIsEmpty
    <3>11. AutoHonoursLatch'
      BY <2>11, ServeAssumption DEF EnqueueReceipt, Persist, Receipt,
        Receipts, memory, txn, threads, disk, counts, AutoHonoursLatch,
        TxnOwnsSlot, ReaperOwns, DownIsEmpty
    <3>12. QED
      BY <3>1, <3>2, <3>3, <3>4, <3>5, <3>6, <3>7, <3>8, <3>9, <3>10,
         <3>11 DEF Ownership
  <2>12. CASE EnqueueFails
    BY <2>12, ServeAssumption DEF EnqueueFails, StopRaises, StopReturns,
      EndTxn, memory, txn, threads, disk, counts, DownIsEmpty, TxnOwnsSlot,
      StopSteps, ReaperOwns, Gone, ReceiptKinds, RecordsAreBorn,
      StopHasReceipt, ShutdownIsFinal, LiveIsOwned, Alive, GuardSeparates,
      HasReceipt, SignalAfterReceipt, AdoptableIsOwned, AutoHonoursLatch
  <2>13. CASE Terminate
    BY <2>13, ServeAssumption DEF Terminate, StopReturns, EndTxn, Goto,
      memory, txn, threads, disk, counts, DownIsEmpty, TxnOwnsSlot,
      StopSteps, ReaperOwns, Gone, ReceiptKinds, RecordsAreBorn,
      StopHasReceipt, ShutdownIsFinal, LiveIsOwned, Alive, GuardSeparates,
      HasReceipt, SignalAfterReceipt, AdoptableIsOwned, AutoHonoursLatch
  <2>14. CASE ReapedInTime
    BY <2>14, ServeAssumption DEF ReapedInTime, StopReturns, EndTxn, memory,
      txn, threads, disk, counts, DownIsEmpty, TxnOwnsSlot, StopSteps,
      ReaperOwns, Gone, ReceiptKinds, RecordsAreBorn, StopHasReceipt,
      ShutdownIsFinal, LiveIsOwned, Alive, GuardSeparates, HasReceipt,
      SignalAfterReceipt, AdoptableIsOwned, AutoHonoursLatch
  <2>15. CASE GraceExpires
    BY <2>15, ServeAssumption DEF GraceExpires, Goto, memory, txn, threads,
      disk, counts, DownIsEmpty, TxnOwnsSlot, StopSteps, ReaperOwns, Gone,
      ReceiptKinds, RecordsAreBorn, StopHasReceipt, ShutdownIsFinal,
      LiveIsOwned, Alive, GuardSeparates, HasReceipt, SignalAfterReceipt,
      AdoptableIsOwned, AutoHonoursLatch
  <2>16. CASE KillWaitExpires
    BY <2>16, ServeAssumption DEF KillWaitExpires, StopRaises, StopReturns,
      EndTxn, memory, txn, threads, disk, counts, DownIsEmpty, TxnOwnsSlot,
      StopSteps, ReaperOwns, Gone, ReceiptKinds, RecordsAreBorn,
      StopHasReceipt, ShutdownIsFinal, LiveIsOwned, Alive, GuardSeparates,
      HasReceipt, SignalAfterReceipt, AdoptableIsOwned, AutoHonoursLatch
  <2>17. ASSUME NEW c \in Configs, StartEnter(c)
        PROVE  Ownership'
    BY <2>17, ServeAssumption DEF StartEnter, ReserveSpawn, EndTxn, Wanted,
      memory, txn, threads, disk, counts, DownIsEmpty, TxnOwnsSlot,
      StopSteps, ReaperOwns, Gone, ReceiptKinds, RecordsAreBorn,
      StopHasReceipt, ShutdownIsFinal, LiveIsOwned, Alive, GuardSeparates,
      HasReceipt, SignalAfterReceipt, AdoptableIsOwned, AutoHonoursLatch
  <2>18. ASSUME NEW f \in BOOLEAN, Stop(f)
        PROVE  Ownership'
    BY <2>18, ServeAssumption DEF Stop, StopEnter, memory, txn, threads,
      disk, counts, DownIsEmpty, TxnOwnsSlot, StopSteps, ReaperOwns, Gone,
      ReceiptKinds, RecordsAreBorn, StopHasReceipt, ShutdownIsFinal,
      LiveIsOwned, Alive, GuardSeparates, HasReceipt, SignalAfterReceipt,
      AdoptableIsOwned, AutoHonoursLatch
  <2>19. ASSUME NEW f \in BOOLEAN, Shutdown(f)
        PROVE  Ownership'
    BY <2>19, ServeAssumption DEF Shutdown, StopEnter, memory, txn, threads,
      disk, counts, DownIsEmpty, TxnOwnsSlot, StopSteps, ReaperOwns, Gone,
      ReceiptKinds, RecordsAreBorn, StopHasReceipt, ShutdownIsFinal,
      LiveIsOwned, Alive, GuardSeparates, HasReceipt, SignalAfterReceipt,
      AdoptableIsOwned, AutoHonoursLatch
  <2>20. ASSUME NEW f \in BOOLEAN, NEW c \in Configs, Switch(c, f)
        PROVE  Ownership'
    BY <2>20, ServeAssumption DEF Switch, StopEnter, memory, txn, threads,
      disk, counts, DownIsEmpty, TxnOwnsSlot, StopSteps, ReaperOwns, Gone,
      ReceiptKinds, RecordsAreBorn, StopHasReceipt, ShutdownIsFinal,
      LiveIsOwned, Alive, GuardSeparates, HasReceipt, SignalAfterReceipt,
      AdoptableIsOwned, AutoHonoursLatch
  <2>21. ASSUME NEW t \in restarts, AutoEnter(t)
        PROVE  Ownership'
    BY <2>21, ServeAssumption DEF AutoEnter, ReserveSpawn, EndTxn, memory,
      txn, threads, disk, counts, DownIsEmpty, TxnOwnsSlot, StopSteps,
      ReaperOwns, Gone, ReceiptKinds, RecordsAreBorn, StopHasReceipt,
      ShutdownIsFinal, LiveIsOwned, Alive, GuardSeparates, HasReceipt,
      SignalAfterReceipt, AdoptableIsOwned, AutoHonoursLatch, Restarts
  <2>22. ASSUME NEW g \in Gens, ReapObserve(g)
        PROVE  Ownership'
    BY <2>22, ServeAssumption DEF ReapObserve, memory, txn, threads, disk,
      counts, DownIsEmpty, TxnOwnsSlot, StopSteps, ReaperOwns, Gone,
      ReceiptKinds, RecordsAreBorn, StopHasReceipt, ShutdownIsFinal,
      LiveIsOwned, Alive, GuardSeparates, HasReceipt, SignalAfterReceipt,
      AdoptableIsOwned, AutoHonoursLatch
  <2>23. ASSUME NEW g \in Gens, ReapAccount(g)
        PROVE  Ownership'
    <3>1. DownIsEmpty'
      BY <2>23, ServeAssumption DEF ReapAccount, Persist, Receipt, Receipts,
        memory, txn, threads, disk, counts, DownIsEmpty
    <3>2. TxnOwnsSlot'
      BY <2>23, ServeAssumption DEF ReapAccount, Persist, Receipt, Receipts,
        memory, txn, threads, disk, counts, TxnOwnsSlot, DownIsEmpty,
        StopSteps, ReaperOwns, Gone, ReceiptKinds, RecordsAreBorn
    <3>3. (\A h \in Gens : ReaperOwns(h))'
      BY <2>23, ServeAssumption DEF ReapAccount, Persist, Receipt, Receipts,
        memory, txn, threads, disk, counts, ReaperOwns, Gone, TxnOwnsSlot,
        DownIsEmpty, StopSteps, RecordsAreBorn
    <3>4. RecordsAreBorn'
      BY <2>23, ServeAssumption DEF ReapAccount, Persist, Receipt, Receipts,
        memory, txn, threads, disk, counts, RecordsAreBorn, TxnOwnsSlot,
        ReaperOwns, DownIsEmpty, StopSteps
    <3>5. StopHasReceipt'
      BY <2>23, ServeAssumption DEF ReapAccount, Persist, Receipt, Receipts,
        memory, txn, threads, disk, counts, StopHasReceipt, StopSteps,
        TxnOwnsSlot
    <3>6. ShutdownIsFinal'
      BY <2>23, ServeAssumption DEF ReapAccount, Persist, Receipt, Receipts,
        memory, txn, threads, disk, counts, ShutdownIsFinal, DownIsEmpty,
        TxnOwnsSlot, StopSteps, ReaperOwns, Gone
    <3>7. LiveIsOwned'
      BY <2>23, ServeAssumption DEF ReapAccount, Persist, Receipt, Receipts,
        memory, txn, threads, disk, counts, LiveIsOwned, Alive, TxnOwnsSlot,
        ReaperOwns, Gone, StopSteps, DownIsEmpty, RecordsAreBorn,
        ShutdownIsFinal
    <3>8. GuardSeparates'
      <4>1. \A h \in Gens : HasReceipt("crash", h)' <=> HasReceipt("crash", h) \/ (g \notin durable /\ h = g)
        BY <2>23, CrashAdds
      <4>2. \A h \in Gens : HasReceipt("instance", h)' <=> HasReceipt("instance", h)
        BY <2>23, CrashAdds
      <4>3. QED
        BY <2>23, <4>1, <4>2, ServeAssumption DEF ReapAccount, memory, txn,
          threads, disk, counts, GuardSeparates, LiveIsOwned, Alive,
          TxnOwnsSlot, ReaperOwns, DownIsEmpty, StopSteps, Gone,
          RecordsAreBorn, ShutdownIsFinal
    <3>9. SignalAfterReceipt'
      BY <2>23, ServeAssumption DEF ReapAccount, Persist, Receipt, Receipts,
        memory, txn, threads, disk, counts, SignalAfterReceipt,
        StopHasReceipt, TxnOwnsSlot, StopSteps
    <3>10. AdoptableIsOwned'
      BY <2>23, ServeAssumption DEF ReapAccount, Persist, Receipt, Receipts,
        memory, txn, threads, disk, counts, AdoptableIsOwned, TxnOwnsSlot,
        StopSteps, ReaperOwns, RecordsAreBorn, DownIsEmpty
    <3>11. AutoHonoursLatch'
      BY <2>23, ServeAssumption DEF ReapAccount, Persist, Receipt, Receipts,
        memory, txn, threads, disk, counts, AutoHonoursLatch, TxnOwnsSlot,
        ReaperOwns, DownIsEmpty
    <3>12. QED
      BY <3>1, <3>2, <3>3, <3>4, <3>5, <3>6, <3>7, <3>8, <3>9, <3>10,
         <3>11 DEF Ownership
  <2>24. ASSUME NEW g \in Gens, ReapAccountFails(g)
        PROVE  Ownership'
    BY <2>24, ServeAssumption DEF ReapAccountFails, memory, txn, threads,
      disk, counts, DownIsEmpty, TxnOwnsSlot, StopSteps, ReaperOwns, Gone,
      ReceiptKinds, RecordsAreBorn, StopHasReceipt, ShutdownIsFinal,
      LiveIsOwned, Alive, GuardSeparates, HasReceipt, SignalAfterReceipt,
      AdoptableIsOwned, AutoHonoursLatch
  <2>25. ASSUME NEW g \in Gens, ReapForget(g)
        PROVE  Ownership'
    BY <2>25, ServeAssumption DEF ReapForget, memory, txn, threads, disk,
      counts, DownIsEmpty, TxnOwnsSlot, StopSteps, ReaperOwns, Gone,
      ReceiptKinds, RecordsAreBorn, StopHasReceipt, ShutdownIsFinal,
      LiveIsOwned, Alive, GuardSeparates, HasReceipt, SignalAfterReceipt,
      AdoptableIsOwned, AutoHonoursLatch
  <2>26. ASSUME NEW g \in Gens, ReapClear(g)
        PROVE  Ownership'
    BY <2>26, ServeAssumption DEF ReapClear, ClearRecord, memory, txn, threads, disk,
      counts, DownIsEmpty, TxnOwnsSlot, StopSteps, ReaperOwns, Gone,
      ReceiptKinds, RecordsAreBorn, StopHasReceipt, ShutdownIsFinal,
      LiveIsOwned, Alive, GuardSeparates, HasReceipt, SignalAfterReceipt,
      AdoptableIsOwned, AutoHonoursLatch
  <2>27. ASSUME NEW g \in Gens, ReapWake(g)
        PROVE  Ownership'
    BY <2>27, ServeAssumption DEF ReapWake, memory, txn, threads, disk,
      counts, DownIsEmpty, TxnOwnsSlot, StopSteps, ReaperOwns, Gone,
      ReceiptKinds, RecordsAreBorn, StopHasReceipt, ShutdownIsFinal,
      LiveIsOwned, Alive, GuardSeparates, HasReceipt, SignalAfterReceipt,
      AdoptableIsOwned, AutoHonoursLatch
  <2>28. ASSUME NEW g \in Gens, ReapDecide(g)
        PROVE  Ownership'
    BY <2>28, ServeAssumption DEF ReapDecide, memory, txn, threads, disk,
      counts, DownIsEmpty, TxnOwnsSlot, StopSteps, ReaperOwns, Gone,
      ReceiptKinds, RecordsAreBorn, StopHasReceipt, ShutdownIsFinal,
      LiveIsOwned, Alive, GuardSeparates, HasReceipt, SignalAfterReceipt,
      AdoptableIsOwned, AutoHonoursLatch
  <2>29. ASSUME NEW g \in Gens, EngineExits(g)
        PROVE  Ownership'
    BY <2>29, ServeAssumption DEF EngineExits, memory, txn, threads, disk,
      counts, DownIsEmpty, TxnOwnsSlot, StopSteps, ReaperOwns, Gone,
      ReceiptKinds, RecordsAreBorn, StopHasReceipt, ShutdownIsFinal,
      LiveIsOwned, Alive, GuardSeparates, HasReceipt, SignalAfterReceipt,
      AdoptableIsOwned, AutoHonoursLatch
  <2>30. CASE ProbeFetch
    BY <2>30, ServeAssumption DEF ProbeFetch, NoProbe, memory, txn, threads,
      disk, counts, DownIsEmpty, TxnOwnsSlot, StopSteps, ReaperOwns, Gone,
      ReceiptKinds, RecordsAreBorn, StopHasReceipt, ShutdownIsFinal,
      LiveIsOwned, Alive, GuardSeparates, HasReceipt, SignalAfterReceipt,
      AdoptableIsOwned, AutoHonoursLatch
  <2>31. CASE ProbeBind
    BY <2>31, ServeAssumption DEF ProbeBind, NoProbe, memory, txn, threads,
      disk, counts, DownIsEmpty, TxnOwnsSlot, StopSteps, ReaperOwns, Gone,
      ReceiptKinds, RecordsAreBorn, StopHasReceipt, ShutdownIsFinal,
      LiveIsOwned, Alive, GuardSeparates, HasReceipt, SignalAfterReceipt,
      AdoptableIsOwned, AutoHonoursLatch
  <2>32. CASE ProbeStore
    BY <2>32, ServeAssumption DEF ProbeStore, NoProbe, memory, txn, threads,
      disk, counts, DownIsEmpty, TxnOwnsSlot, StopSteps, ReaperOwns, Gone,
      ReceiptKinds, RecordsAreBorn, StopHasReceipt, ShutdownIsFinal,
      LiveIsOwned, Alive, GuardSeparates, HasReceipt, SignalAfterReceipt,
      AdoptableIsOwned, AutoHonoursLatch
  <2>33. CASE DaemonDies
    BY <2>33, ServeAssumption DEF DaemonDies, DaemonGone, EndTxn, NoProbe,
      memory, txn, threads, disk, counts, DownIsEmpty, TxnOwnsSlot,
      StopSteps, ReaperOwns, Gone, ReceiptKinds, RecordsAreBorn,
      StopHasReceipt, ShutdownIsFinal, LiveIsOwned, Alive, GuardSeparates,
      HasReceipt, SignalAfterReceipt, AdoptableIsOwned, AutoHonoursLatch
  <2>34. CASE DaemonExits
    BY <2>34, ServeAssumption DEF DaemonExits, DaemonGone, EndTxn, NoProbe,
      memory, txn, threads, disk, counts, DownIsEmpty, TxnOwnsSlot,
      StopSteps, ReaperOwns, Gone, ReceiptKinds, RecordsAreBorn,
      StopHasReceipt, ShutdownIsFinal, LiveIsOwned, Alive, GuardSeparates,
      HasReceipt, SignalAfterReceipt, AdoptableIsOwned, AutoHonoursLatch
  <2>35. CASE DaemonBoots
    BY <2>35, ServeAssumption DEF DaemonBoots, ClearRecord, memory, txn, threads, disk,
      counts, DownIsEmpty, TxnOwnsSlot, StopSteps, ReaperOwns, Gone,
      ReceiptKinds, RecordsAreBorn, StopHasReceipt, ShutdownIsFinal,
      LiveIsOwned, Alive, GuardSeparates, HasReceipt, SignalAfterReceipt,
      AdoptableIsOwned, AutoHonoursLatch
  <2>36. QED
    BY <1>2, <2>1, <2>2, <2>3, <2>4, <2>5, <2>6, <2>7, <2>8, <2>9, <2>10,
      <2>11, <2>12, <2>13, <2>14, <2>15, <2>16, <2>17, <2>18, <2>19, <2>20,
      <2>21, <2>22, <2>23, <2>24, <2>25, <2>26, <2>27, <2>28, <2>29, <2>30,
      <2>31, <2>32, <2>33, <2>34, <2>35 DEF Next, Transaction, Request,
      Reaper, Poll
<1>3. CASE UNCHANGED vars
  BY <1>3 DEF vars, memory, txn, threads, disk, counts, DownIsEmpty, TxnOwnsSlot, ReaperOwns, RecordsAreBorn,
  StopHasReceipt, ShutdownIsFinal, LiveIsOwned, Alive, GuardSeparates, HasReceipt,
  SignalAfterReceipt, AdoptableIsOwned, AutoHonoursLatch
<1>4. QED
  BY <1>2, <1>3

(* A daemon with no engine and empty disks satisfies both. *)
LEMMA InitHolds == Init => TypeOK /\ Ownership
<1> SUFFICES ASSUME Init PROVE TypeOK /\ Ownership
  OBVIOUS
<1>1. TypeOK
  <2>1. MemoryTypes
    BY DEF Init, MemoryTypes
  <2>2. TxnTypes
    BY DEF Init, TxnTypes, Kinds, TxnSteps
  <2>3. ThreadTypes
    BY DEF Init, ThreadTypes, ReapSteps, Probes, NoProbe
  <2>4. DiskTypes
    BY ServeAssumption DEF Init, DiskTypes
  <2>5. QED
    BY <2>1, <2>2, <2>3, <2>4 DEF TypeOK
<1>2. Ownership
  BY ServeAssumption DEF Init, Ownership, DownIsEmpty, TxnOwnsSlot, ReaperOwns,
     RecordsAreBorn, StopHasReceipt, ShutdownIsFinal, LiveIsOwned, Alive,
     GuardSeparates, HasReceipt, StopSteps, Gone,
     SignalAfterReceipt, AdoptableIsOwned, AutoHonoursLatch
<1>3. QED
  BY <1>1, <1>2

(* The manager's variables keep their types and the slot has one owner in  *)
(* every reachable state (serve_manager.py, "own exactly one sparklab      *)
(* serve child's lifecycle").                                              *)
THEOREM ServeInvariant == Spec => [](TypeOK /\ Ownership)
<1>1. TypeOK /\ Ownership /\ [Next]_vars => (TypeOK /\ Ownership)'
  BY TypeStep, OwnershipStep
<1>2. QED
  BY <1>1, InitHolds, PTL DEF Spec

(* Type correctness of every variable of the manager. *)
THEOREM ServeTypes == Spec => []TypeOK
  BY ServeInvariant, PTL

(* accounting.py: no engine is signalled before its receipt is durable,    *)
(* across outbox failures, failed stops and deaths of the daemon.          *)
THEOREM ServeSignals == Spec => []SignalAfterReceipt
  BY ServeInvariant, PTL DEF Ownership

(* _reap: once stop() is woken the engine is dead, forgotten and out of    *)
(* the pidfile.                                                            *)
THEOREM ServeReaped == Spec => []ReapedIsGone
<1>1. TypeOK /\ Ownership => ReapedIsGone
  BY DEF TypeOK, MemoryTypes, Ownership, ReaperOwns, Gone, ReapedIsGone
<1>2. QED
  BY <1>1, ServeInvariant, PTL

(* Memory, files and processes agree in every reachable state.             *)
THEOREM ServeConsistent == Spec => []Consistent
<1>1. TypeOK /\ ReapedIsGone => Consistent
  BY DEF Consistent
<1>2. QED
  BY <1>1, ServeTypes, ServeReaped, PTL

(* Until a daemon is lost there are never two live engines.                *)
THEOREM ServeSingle == Spec => []SingleEngine
<1>1. ASSUME TypeOK, Ownership, crashes = 0 PROVE Cardinality(Alive) <= 1
  <2>1. PICK x : Alive \subseteq {x}
    <3>1. CASE pc = "install"
      <4>1. Alive \subseteq {gen}
        BY <1>1, <3>1, ServeAssumption
           DEF Ownership, LiveIsOwned, TxnOwnsSlot, Alive
      <4>2. QED
        BY <4>1
    <3>2. CASE pc # "install"
      <4>1. Alive \subseteq {child}
        BY <1>1, <3>2 DEF Ownership, LiveIsOwned
      <4>2. QED
        BY <4>1
    <3>3. QED
      BY <3>1, <3>2
  <2>2. IsFiniteSet({x}) /\ Cardinality({x}) = 1
    BY FS_Singleton
  <2>3. Cardinality(Alive) <= Cardinality({x})
    BY <2>1, <2>2, FS_Subset
  <2>4. QED
    BY <2>2, <2>3
<1>2. TypeOK /\ Ownership => SingleEngine
  BY <1>1 DEF SingleEngine
<1>3. QED
  BY <1>2, ServeInvariant, PTL

(* readopt() can only find the engine this daemon owns.                    *)
THEOREM ServeAdoptable == Spec => []AdoptableIsOwned
  BY ServeInvariant, PTL DEF Ownership

(* A restart thread never spawns against the stop latch.                   *)
THEOREM ServeLatch == Spec => []AutoHonoursLatch
  BY ServeInvariant, PTL DEF Ownership

(* The accounting guard keeps sealed and crash receipts apart.             *)
THEOREM ServeSealed == Spec => []SealedOrCrashed
<1>1. TypeOK /\ Ownership => SealedOrCrashed
  <2>1. TypeOK => \A r \in outbox : r.gen \in Gens
    BY DEF TypeOK, DiskTypes, Receipts
  <2>2. QED
    BY <2>1 DEF Ownership, GuardSeparates, HasReceipt, SealedOrCrashed
<1>2. QED
  BY <1>1, ServeInvariant, PTL
===========================================================================
