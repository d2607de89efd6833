-------------------------- MODULE PrefixStoreProofs --------------------------
(***************************************************************************)
(* Proofs about PrefixStore, for any number of processes, namespaces and   *)
(* keys and any sizes and limits: what the stores believe of the root is   *)
(* true, no record is torn, and the files implement the map of PrefixMap.  *)
(***************************************************************************)
EXTENDS PrefixStore, FiniteSetTheorems, TLAPS

(* Where a process holds the lock of its namespace.                         *)
Writing == {"room", "quota", "refused", "temp", "fill", "sync", "rename", "dirsync", "index"}
Locked == {"recover", "enforce", "commit", "open"} \cup Writing

(* The root lock is held inside every call, the namespace's lock from       *)
(* OpenLock on, by nobody else.                                            *)
LocksHeld ==
    \A p \in Procs :
        /\ rootlock = p <=> Pc(p) \notin {"off", "open"}
        /\ Pc(p) # "off" => Ns(p) \in Namespaces /\ Lim(p) \in Limits
        /\ Pc(p) \in Locked => nslock[Ns(p)] = p
        /\ \A n \in Namespaces :
              nslock[n] = p => Ns(p) = n /\ Pc(p) \in Locked \cup {"undo"}

(* A locked directory has its lock file, and one that was made in vain is   *)
(* nobody else's.                                                          *)
DirsReady ==
    /\ \A n \in Namespaces : nslock[n] # Nobody => dir[n] = "ready"
    /\ \A p \in Procs :
          /\ proc[p].created => Pc(p) # "off" /\ nslock[Ns(p)] \in {Nobody, p}
          /\ Pc(p) \in {"newdir", "mkdir"} => proc[p].created

(* A record between its index entry and its file on the way out.           *)
VictimOut(p) ==
    proc[p].victim # NoKey =>
        /\ Pc(p) \in {"recover", "enforce", "room", "quota"}
        /\ proc[p].victim \notin entries[p] \cup {proc[p].key}
        /\ pins[p][proc[p].victim] = 0
        /\ Valid(file[Ns(p)][proc[p].victim])

VictimsOut == \A p \in Procs : VictimOut(p)

(* A write is the only one in its namespace, and meets no leftover.        *)
WriteOwned(p) ==
    /\ IF Pc(p) \in Writing THEN proc[p].key \in Keys \ entries[p] ELSE proc[p].key = NoKey
    /\ proc[p].failed => Pc(p) = "open"
    /\ Pc(p) \in Locked \ {"recover", "fill", "sync", "rename"} /\ ~proc[p].failed =>
          tmp[Ns(p)] = NoTmp
    /\ Pc(p) = "fill" => tmp[Ns(p)] = [key |-> proc[p].key, state |-> "part"]
    /\ Pc(p) = "sync" => tmp[Ns(p)] = [key |-> proc[p].key, state |-> "whole"]
    /\ Pc(p) = "rename" => tmp[Ns(p)] = [key |-> proc[p].key, state |-> "synced"]
    /\ Pc(p) \in {"dirsync", "index"} => file[Ns(p)][proc[p].key] = "synced"

WritesOwned == \A p \in Procs : WriteOwned(p)

(* What is indexed is whole and locked, what is pinned is indexed.         *)
Indexed(p) ==
    /\ \A k \in entries[p] :
          Pc(p) # "off" /\ nslock[Ns(p)] = p /\ Valid(file[Ns(p)][k])
    /\ \A k \in Keys : pins[p][k] > 0 => Serves(p) /\ k \in entries[p]

IndexPinned == \A p \in Procs : Indexed(p)

CallSound(p) == VictimOut(p) /\ WriteOwned(p) /\ Indexed(p)

(* A record gets its name when its contents are synced.                    *)
FilesWhole ==
    /\ \A n \in Namespaces : \A k \in Keys : file[n][k] \in {"none", "synced", "alien"}
    /\ \A n \in Namespaces : \A k \in Keys : was[n][k] \subseteq {"none", "synced", "alien", "temp"}
    /\ tmp \in [Namespaces -> {NoTmp} \cup [key : Keys, state : {"part", "whole", "synced"}]]

(* A process brings limits of its own only where no store serves.          *)
LimitsFixed ==
    /\ LimitsAgree
    /\ \A p \in Procs :
          /\ Pc(p) \in {"newdir", "mkdir", "lockns"} =>
                limits = Lim(p) \/ \A s \in Procs : Serves(s) => Ns(s) = Ns(p)
          /\ Pc(p) \in {"recover", "enforce", "commit"} =>
                limits = Lim(p) \/ \A s \in Procs : ~Serves(s)

(* The root has room for what is about to be added.                        *)
Fits(l, bytes, records) ==
    /\ Bytes(Stored(file, tmp)) + bytes <= l.bytes
    /\ Cardinality(Stored(file, tmp)) + records <= l.records

RoomLeft ==
    /\ limits # NoLimits /\ ~lapsed => Fits(limits, 0, 0)
    /\ \A p \in Procs :
          /\ Pc(p) = "commit" => Fits(Lim(p), 0, 0)
          /\ Pc(p) = "temp" => Fits(Lim(p), Size[proc[p].key], 1)

(* TypeOK in four parts, without its clause about temporary files.         *)
DiskTypes ==
    /\ dir \in [Namespaces -> {"none", "bare", "ready"}]
    /\ file \in [Namespaces -> [Keys -> FileStates]]
    /\ limits \in Limits \cup {NoLimits}

PastTypes ==
    /\ was \in [Namespaces -> [Keys -> SUBSET (FileStates \cup {"temp"})]]
    /\ adrift \subseteq Namespaces /\ lapsed \in BOOLEAN

CallTypes == proc \in [Procs -> ProcRecord]

IndexTypes ==
    /\ rootlock \in Procs \cup {Nobody}
    /\ nslock \in [Namespaces -> Procs \cup {Nobody}]
    /\ entries \in [Procs -> SUBSET Keys]
    /\ pins \in [Procs -> [Keys -> Nat]]

StoreInv == /\ TypeOK /\ LocksHeld /\ DirsReady /\ VictimsOut /\ WritesOwned
            /\ IndexPinned /\ FilesWhole /\ LimitsFixed /\ RoomLeft
-----------------------------------------------------------------------------
(* The ways a call's record changes.                                       *)
LEMMA CallUpdates ==
  ASSUME CallTypes, NEW p \in Procs
  PROVE  /\ GiveUp(p) \in Pcs
         /\ \A c \in Pcs : [proc EXCEPT ![p].pc = c] \in [Procs -> ProcRecord]
         /\ \A k \in Keys \cup {NoKey} : [proc EXCEPT ![p].victim = k] \in [Procs -> ProcRecord]
         /\ \A c \in Pcs : [proc EXCEPT ![p].victim = NoKey, ![p].pc = c] \in [Procs -> ProcRecord]
         /\ \A c \in Pcs, k \in Keys \cup {NoKey} :
               [proc EXCEPT ![p].pc = c, ![p].key = k] \in [Procs -> ProcRecord]
         /\ \A b \in BOOLEAN : [proc EXCEPT ![p].pc = "open", ![p].key = NoKey, ![p].failed = b]
                                  \in [Procs -> ProcRecord]
<1>1. proc \in [Procs -> ProcRecord]
  BY DEF CallTypes
<1> USE DEF ProcRecord
<1>2. \A c \in Pcs : [proc EXCEPT ![p].pc = c] \in [Procs -> ProcRecord]
  BY <1>1
<1>3. \A k \in Keys \cup {NoKey} : [proc EXCEPT ![p].victim = k] \in [Procs -> ProcRecord]
  BY <1>1
<1>4. ASSUME NEW c \in Pcs
      PROVE  [proc EXCEPT ![p].victim = NoKey, ![p].pc = c] \in [Procs -> ProcRecord]
  <2> DEFINE r == [proc[p] EXCEPT !.victim = NoKey, !.pc = c]
  <2>1. r \in ProcRecord
    BY <1>1
  <2>2. [proc EXCEPT ![p].victim = NoKey, ![p].pc = c] = [proc EXCEPT ![p] = r]
    BY <1>1
  <2> HIDE DEF r, ProcRecord
  <2>3. QED
    BY <1>1, <2>1, <2>2
<1>5. ASSUME NEW c \in Pcs, NEW k \in Keys \cup {NoKey}
      PROVE  [proc EXCEPT ![p].pc = c, ![p].key = k] \in [Procs -> ProcRecord]
  <2> DEFINE r == [proc[p] EXCEPT !.pc = c, !.key = k]
  <2>1. r \in ProcRecord
    BY <1>1
  <2>2. [proc EXCEPT ![p].pc = c, ![p].key = k] = [proc EXCEPT ![p] = r]
    BY <1>1
  <2> HIDE DEF r, ProcRecord
  <2>3. QED
    BY <1>1, <2>1, <2>2
<1>6. ASSUME NEW b \in BOOLEAN
      PROVE  [proc EXCEPT ![p].pc = "open", ![p].key = NoKey, ![p].failed = b]
                \in [Procs -> ProcRecord]
  <2> DEFINE r == [proc[p] EXCEPT !.pc = "open", !.key = NoKey, !.failed = b]
  <2>1. r \in ProcRecord
    BY <1>1, ZenonT(30) DEF Pcs
  <2>2. [proc EXCEPT ![p].pc = "open", ![p].key = NoKey, ![p].failed = b]
           = [proc EXCEPT ![p] = r]
    BY <1>1
  <2> HIDE DEF r, ProcRecord
  <2>3. QED
    BY <1>1, <2>1, <2>2
<1>7. GiveUp(p) \in Pcs
  BY DEF GiveUp, Pcs
<1>8. QED
  BY <1>2, <1>3, <1>4, <1>5, <1>6, <1>7

-----------------------------------------------------------------------------
(* A step inside a call that does not touch the locks.                     *)
LEMMA LocksKept ==
  ASSUME TypeOK, LocksHeld, UNCHANGED locks, NEW p \in Procs,
         Pc(p) \in {"newdir", "recover", "enforce", "room", "quota", "temp", "fill", "sync"},
         \/ proc' = proc
         \/ \E k \in Keys : proc' = [proc EXCEPT ![p].victim = k]
         \/ \E c \in {"mkdir", "commit", "quota", "temp", "fill", "sync", "rename", GiveUp(p)} :
               /\ proc' = [proc EXCEPT ![p].pc = c]
               /\ c = "mkdir" <=> Pc(p) = "newdir" /\ c # GiveUp(p)
  PROVE  LocksHeld'
<1> USE DEF LocksHeld, locks, Pc, Ns, Lim, Locked, Writing, TypeOK, ProcRecord
<1>1. CASE proc' = proc
  BY <1>1
<1>2. CASE \E k \in Keys : proc' = [proc EXCEPT ![p].victim = k]
  BY <1>2
<1>3. ASSUME NEW c \in {"mkdir", "commit", "quota", "temp", "fill", "sync", "rename", GiveUp(p)},
             proc' = [proc EXCEPT ![p].pc = c],
             c = "mkdir" <=> Pc(p) = "newdir" /\ c # GiveUp(p)
      PROVE  LocksHeld'
  <2>1. /\ c \notin {"off", "open"} /\ (c \in Locked => Pc(p) \in Locked)
        /\ (Pc(p) \in Locked => c \in Locked \cup {"undo"})
    BY <1>3 DEF GiveUp
  <2>2. proc'[p].pc = c /\ proc'[p].ns = proc[p].ns /\ proc'[p].lim = proc[p].lim
    BY <1>3
  <2>3. \A s \in Procs \ {p} : proc'[s] = proc[s]
    BY <1>3
  <2>4. QED
    BY <2>1, <2>2, <2>3
<1>4. QED
  BY <1>1, <1>2, <1>3

(* The locks are where the program counters say.                           *)
LEMMA LocksStep == StoreInv /\ [Next]_vars => LocksHeld'
<1> SUFFICES ASSUME StoreInv, [Next]_vars PROVE LocksHeld'
  OBVIOUS
<1> USE StoreConstants DEF disk, locks, At, Goto, Pc, Ns, Lim, Locked, Writing, GiveUp, Off,
           MakeRoom, EvictOwn, TypeOK, ProcRecord
<1>0. TypeOK /\ LocksHeld
  BY DEF StoreInv
<1>1. ASSUME NEW p \in Procs, EvictUnlink(p) PROVE LocksHeld'
  BY <1>0, <1>1 DEF EvictUnlink, LocksHeld
<1>2. ASSUME NEW p \in Procs, EvictFails(p) PROVE LocksHeld'
  BY <1>0, <1>2 DEF EvictFails, LocksHeld
<1>3. ASSUME NEW p \in Procs, OpenNewDir(p) PROVE LocksHeld'
  <2>1. enforce(p, "newdir", "mkdir", 0, 0, 1)
    BY <1>3 DEF OpenNewDir
  <2>2. /\ UNCHANGED locks /\ Pc(p) = "newdir"
        /\ \/ proc' = proc \/ \E k \in Keys : proc' = [proc EXCEPT ![p].victim = k]
           \/ \E c \in {"mkdir", GiveUp(p)} : proc' = [proc EXCEPT ![p].pc = c]
    BY <1>0, <2>1 DEF enforce, Evictable
  <2>3. QED
    BY <1>0, <2>2, LocksKept
<1>4. ASSUME NEW p \in Procs, OpenMkdir(p) PROVE LocksHeld'
  BY <1>0, <1>4 DEF OpenMkdir, LocksHeld
<1>5. ASSUME NEW p \in Procs, OpenLock(p) PROVE LocksHeld'
  <2>1. /\ rootlock' = rootlock /\ proc[p].pc = "lockns" /\ proc[p].ns \in Namespaces
        /\ \A s \in Procs \ {p} : proc'[s] = proc[s]
        /\ proc'[p].ns = proc[p].ns /\ proc'[p].lim = proc[p].lim
    BY <1>0, <1>5 DEF OpenLock, LocksHeld
  <2>2. ASSUME NEW n \in Namespaces, nslock[n] = p PROVE FALSE
    <3>1. proc[p].pc \in Locked \cup {"undo"}
      BY <1>0, <2>2 DEF LocksHeld
    <3>2. QED
      BY <2>1, <3>1
  <2>3. CASE nslock[Ns(p)] = Nobody
    <3>1. proc'[p].pc = "recover" /\ nslock' = [nslock EXCEPT ![proc[p].ns] = p]
      BY <1>0, <1>5, <2>3 DEF OpenLock
    <3>2. \A s \in Procs \ {p} : proc[s].pc \in Locked => proc[s].ns # proc[p].ns
      BY <1>0, <2>3 DEF LocksHeld
    <3>3. QED
      BY <1>0, <2>1, <2>2, <3>1, <3>2 DEF LocksHeld
  <2>4. CASE nslock[Ns(p)] # Nobody
    <3>1. proc'[p].pc = "undo" /\ nslock' = nslock
      BY <1>0, <1>5, <2>4 DEF OpenLock
    <3>2. QED
      BY <1>0, <2>1, <2>2, <3>1 DEF LocksHeld
  <2>5. QED
    BY <2>3, <2>4
<1>6. ASSUME NEW p \in Procs, RecoverTemp(p) PROVE LocksHeld'
  BY <1>0, <1>6 DEF RecoverTemp, LocksHeld
<1>7. ASSUME NEW p \in Procs, RecoverRecord(p) PROVE LocksHeld'
  <2>1. /\ UNCHANGED locks /\ Pc(p) = "recover"
        /\ \/ proc' = proc \/ \E k \in Keys : proc' = [proc EXCEPT ![p].victim = k]
           \/ \E c \in {GiveUp(p)} : proc' = [proc EXCEPT ![p].pc = c]
    BY <1>0, <1>7 DEF RecoverRecord, Evictable
  <2>2. QED
    BY <1>0, <2>1, LocksKept
<1>8. ASSUME NEW p \in Procs, RecoverEnds(p) PROVE LocksHeld'
  BY <1>0, <1>8 DEF RecoverEnds, LocksHeld
<1>9. ASSUME NEW p \in Procs, OpenEnforce(p) PROVE LocksHeld'
  <2>1. enforce(p, "enforce", "commit", 0, 0, 0)
    BY <1>9 DEF OpenEnforce
  <2>2. /\ UNCHANGED locks /\ Pc(p) = "enforce"
        /\ \/ proc' = proc \/ \E k \in Keys : proc' = [proc EXCEPT ![p].victim = k]
           \/ \E c \in {"commit", GiveUp(p)} : proc' = [proc EXCEPT ![p].pc = c]
    BY <1>0, <2>1 DEF enforce, Evictable
  <2>3. QED
    BY <1>0, <2>2, LocksKept
<1>10. ASSUME NEW p \in Procs, OpenCommit(p) PROVE LocksHeld'
  BY <1>0, <1>10 DEF OpenCommit, LocksHeld
<1>11. ASSUME NEW p \in Procs, OpenUndo(p) PROVE LocksHeld'
  <2>1. /\ rootlock' = Nobody /\ proc'[p].pc = "off" /\ rootlock = p
        /\ \A s \in Procs \ {p} : proc'[s] = proc[s]
    BY <1>0, <1>11 DEF OpenUndo, LocksHeld
  <2>2. /\ \A n \in Namespaces : nslock'[n] # p
        /\ \A n \in Namespaces, s \in Procs \ {p} : nslock'[n] = s <=> nslock[n] = s
    BY <1>0, <1>11 DEF OpenUndo, LocksHeld
  <2>3. \A s \in Procs \ {p} : proc[s].pc \in {"off", "open"}
    BY <1>0, <2>1 DEF LocksHeld
  <2>4. QED
    BY <1>0, <2>1, <2>2, <2>3 DEF LocksHeld
<1>12. ASSUME NEW p \in Procs, WriteRoom(p) PROVE LocksHeld'
  <2>1. /\ UNCHANGED locks /\ Pc(p) = "room"
        /\ \/ proc' = proc \/ \E k \in Keys : proc' = [proc EXCEPT ![p].victim = k]
           \/ \E c \in {"quota", GiveUp(p)} : proc' = [proc EXCEPT ![p].pc = c]
    BY <1>0, <1>12 DEF WriteRoom, Evictable
  <2>2. QED
    BY <1>0, <2>1, LocksKept
<1>13. ASSUME NEW p \in Procs, WriteQuota(p) PROVE LocksHeld'
  <2>1. enforce(p, "quota", "temp", Size[proc[p].key], 1, 0)
    BY <1>13 DEF WriteQuota
  <2>2. /\ UNCHANGED locks /\ Pc(p) = "quota"
        /\ \/ proc' = proc \/ \E k \in Keys : proc' = [proc EXCEPT ![p].victim = k]
           \/ \E c \in {"temp", GiveUp(p)} : proc' = [proc EXCEPT ![p].pc = c]
    BY <1>0, <2>1 DEF enforce, Evictable
  <2>3. QED
    BY <1>0, <2>2, LocksKept
<1>14. ASSUME NEW p \in Procs, WriteRefused(p) PROVE LocksHeld'
  BY <1>0, <1>14 DEF WriteRefused, LocksHeld
<1>15. ASSUME NEW p \in Procs, WriteTemp(p) PROVE LocksHeld'
  <2>1. /\ UNCHANGED locks /\ Pc(p) \in {"temp", "fill", "sync"}
        /\ \E c \in {"fill", "sync", "rename"} : proc' = [proc EXCEPT ![p].pc = c]
    BY <1>15 DEF WriteTemp
  <2>2. QED
    BY <1>0, <2>1, LocksKept
<1>16. ASSUME NEW p \in Procs, WriteRename(p) PROVE LocksHeld'
  BY <1>0, <1>16 DEF WriteRename, LocksHeld
<1>17. ASSUME NEW p \in Procs, WriteSync(p) PROVE LocksHeld'
  BY <1>0, <1>17 DEF WriteSync, LocksHeld
<1>18. ASSUME NEW p \in Procs, WriteIndex(p) PROVE LocksHeld'
  BY <1>0, <1>18 DEF WriteIndex, LocksHeld
<1>19. ASSUME NEW p \in Procs, WriteFails(p) PROVE LocksHeld'
  BY <1>0, <1>19 DEF WriteFails, LocksHeld
<1>20. ASSUME NEW p \in Procs, close(p) PROVE LocksHeld'
  BY <1>0, <1>20 DEF close, LocksHeld
<1>21. ASSUME NEW p \in Procs, Crash(p) PROVE LocksHeld'
  BY <1>0, <1>21 DEF Crash, LocksHeld
<1>22. ASSUME NEW p \in Procs, NEW n \in Namespaces, NEW l \in Limits, OpenBegin(p, n, l) PROVE LocksHeld'
  BY <1>0, <1>22 DEF OpenBegin, LocksHeld
<1>23. ASSUME NEW p \in Procs, NEW k \in Keys, WriteBegin(p, k) PROVE LocksHeld'
  BY <1>0, <1>23 DEF WriteBegin, LocksHeld
<1>24. ASSUME NEW p \in Procs, NEW k \in Keys, pin(p, k) PROVE LocksHeld'
  BY <1>0, <1>24 DEF pin, LocksHeld
<1>25. ASSUME NEW p \in Procs, NEW k \in Keys, unpin(p, k) PROVE LocksHeld'
  BY <1>0, <1>25 DEF unpin, LocksHeld
<1>26. CASE Outage
  BY <1>0, <1>26 DEF Outage, LocksHeld
<1>27. CASE UNCHANGED vars
  BY <1>0, <1>27 DEF vars, LocksHeld
<1>28. QED
  BY <1>1, <1>2, <1>3, <1>4, <1>5, <1>6, <1>7, <1>8, <1>9, <1>10, <1>11, <1>12, <1>13,
     <1>14, <1>15, <1>16, <1>17, <1>18, <1>19, <1>20, <1>21, <1>22, <1>23, <1>24, <1>25, <1>26, <1>27 DEF Next, Inside
(* Every call's record keeps its type. *)
LEMMA CallTypesStep == StoreInv /\ [Next]_vars => CallTypes'
<1> SUFFICES ASSUME StoreInv, [Next]_vars PROVE CallTypes'
  OBVIOUS
<1> USE DEF disk
<1>0. TypeOK /\ CallTypes /\ LocksHeld
  BY DEF StoreInv, TypeOK, CallTypes
<1>p. {"mkdir", "recover", "undo", "enforce", "commit", "open", "quota", "temp", "refused", "fill", "sync", "rename",
       "dirsync", "index", "lockns", "room"} \subseteq Pcs
  BY DEF Pcs
<1>a. \A p \in Procs :
         /\ GiveUp(p) \in Pcs
         /\ \A c \in Pcs : [proc EXCEPT ![p].pc = c] \in [Procs -> ProcRecord]
  BY <1>0, CallUpdates
<1>b. \A p \in Procs : \A k \in Keys \cup {NoKey} : [proc EXCEPT ![p].victim = k] \in [Procs -> ProcRecord]
  BY <1>0, CallUpdates
<1>c. \A p \in Procs : \A c \in Pcs, k \in Keys \cup {NoKey} :
         [proc EXCEPT ![p].pc = c, ![p].key = k] \in [Procs -> ProcRecord]
  BY <1>0, CallUpdates
<1>1. ASSUME NEW p \in Procs, EvictUnlink(p) PROVE CallTypes'
  BY <1>1, <1>p, <1>b DEF EvictUnlink, Goto, CallTypes
<1>2. ASSUME NEW p \in Procs, EvictFails(p) PROVE CallTypes'
  <2>1. GiveUp(p) \in Pcs
    BY <1>0, CallUpdates
  <2>2. proc' = [proc EXCEPT ![p].victim = NoKey, ![p].pc = GiveUp(p)]
    BY <1>2 DEF EvictFails
  <2>3. QED
    BY <1>0, <2>1, <2>2, CallUpdates DEF CallTypes
<1>3. ASSUME NEW p \in Procs, OpenNewDir(p) PROVE CallTypes'
  <2>1. enforce(p, "newdir", "mkdir", 0, 0, 1)
    BY <1>3 DEF OpenNewDir
  <2>2. \/ proc' = proc \/ \E k \in Keys : proc' = [proc EXCEPT ![p].victim = k]
        \/ \E c \in {"mkdir", GiveUp(p)} : proc' = [proc EXCEPT ![p].pc = c]
    BY <1>0, <2>1 DEF enforce, Evictable, EvictOwn, Goto, TypeOK
  <2>3. QED
    BY <1>0, <1>a, <1>b, <1>p, <2>2 DEF CallTypes
<1>4. ASSUME NEW p \in Procs, OpenMkdir(p) PROVE CallTypes'
  BY <1>4, <1>p, <1>a DEF OpenMkdir, Goto, CallTypes
<1>5. ASSUME NEW p \in Procs, OpenLock(p) PROVE CallTypes'
  <2>1. \E c \in {"recover", "undo"} : proc' = [proc EXCEPT ![p].pc = c]
    BY <1>5 DEF OpenLock, Goto
  <2>2. QED
    BY <1>a, <1>p, <2>1 DEF CallTypes
<1>6. ASSUME NEW p \in Procs, RecoverTemp(p) PROVE CallTypes'
  BY <1>0, <1>6 DEF RecoverTemp, CallTypes
<1>7. ASSUME NEW p \in Procs, RecoverRecord(p) PROVE CallTypes'
  <2>1. \/ proc' = proc \/ \E k \in Keys : proc' = [proc EXCEPT ![p].victim = k]
        \/ \E c \in {GiveUp(p)} : proc' = [proc EXCEPT ![p].pc = c]
    BY <1>0, <1>7 DEF RecoverRecord, MakeRoom, Evictable, EvictOwn, Goto, TypeOK
  <2>2. QED
    BY <1>0, <1>a, <1>b, <1>p, <2>1 DEF CallTypes
<1>8. ASSUME NEW p \in Procs, RecoverEnds(p) PROVE CallTypes'
  BY <1>8, <1>p, <1>a DEF RecoverEnds, Goto, CallTypes
<1>9. ASSUME NEW p \in Procs, OpenEnforce(p) PROVE CallTypes'
  <2>1. enforce(p, "enforce", "commit", 0, 0, 0)
    BY <1>9 DEF OpenEnforce
  <2>2. \/ proc' = proc \/ \E k \in Keys : proc' = [proc EXCEPT ![p].victim = k]
        \/ \E c \in {"commit", GiveUp(p)} : proc' = [proc EXCEPT ![p].pc = c]
    BY <1>0, <2>1 DEF enforce, Evictable, EvictOwn, Goto, TypeOK
  <2>3. QED
    BY <1>0, <1>a, <1>b, <1>p, <2>2 DEF CallTypes
<1>10. ASSUME NEW p \in Procs, OpenCommit(p) PROVE CallTypes'
  BY <1>10, <1>p, <1>a DEF OpenCommit, Goto, CallTypes
<1>11. ASSUME NEW p \in Procs, OpenUndo(p) PROVE CallTypes'
  BY <1>0, <1>11 DEF OpenUndo, Off, ProcRecord, Pcs, CallTypes
<1>12. ASSUME NEW p \in Procs, WriteRoom(p) PROVE CallTypes'
  <2>1. \/ proc' = proc \/ \E k \in Keys : proc' = [proc EXCEPT ![p].victim = k]
        \/ \E c \in {"quota", GiveUp(p)} : proc' = [proc EXCEPT ![p].pc = c]
    BY <1>0, <1>12 DEF WriteRoom, MakeRoom, Evictable, EvictOwn, Goto, TypeOK
  <2>2. QED
    BY <1>0, <1>a, <1>b, <1>p, <2>1 DEF CallTypes
<1>13. ASSUME NEW p \in Procs, WriteQuota(p) PROVE CallTypes'
  <2>1. enforce(p, "quota", "temp", Size[proc[p].key], 1, 0)
    BY <1>13 DEF WriteQuota
  <2>2. \/ proc' = proc \/ \E k \in Keys : proc' = [proc EXCEPT ![p].victim = k]
        \/ \E c \in {"temp", GiveUp(p)} : proc' = [proc EXCEPT ![p].pc = c]
    BY <1>0, <2>1 DEF enforce, Evictable, EvictOwn, Goto, TypeOK
  <2>3. QED
    BY <1>0, <1>a, <1>b, <1>p, <2>2 DEF CallTypes
<1>14. ASSUME NEW p \in Procs, WriteRefused(p) PROVE CallTypes'
  BY <1>14, <1>p, <1>c DEF WriteRefused, Goto, CallTypes
<1>15. ASSUME NEW p \in Procs, WriteTemp(p) PROVE CallTypes'
  <2>1. \E c \in {"fill", "sync", "rename"} : proc' = [proc EXCEPT ![p].pc = c]
    BY <1>15 DEF WriteTemp, Goto
  <2>2. QED
    BY <1>a, <1>p, <2>1 DEF CallTypes
<1>16. ASSUME NEW p \in Procs, WriteRename(p) PROVE CallTypes'
  BY <1>16, <1>p, <1>a DEF WriteRename, Goto, CallTypes
<1>17. ASSUME NEW p \in Procs, WriteSync(p) PROVE CallTypes'
  BY <1>17, <1>p, <1>a DEF WriteSync, Goto, CallTypes
<1>18. ASSUME NEW p \in Procs, WriteIndex(p) PROVE CallTypes'
  BY <1>18, <1>p, <1>c DEF WriteIndex, Goto, CallTypes
<1>19. ASSUME NEW p \in Procs, WriteFails(p) PROVE CallTypes'
  <2>1. PICK b \in BOOLEAN :
           proc' = [proc EXCEPT ![p].pc = "open", ![p].key = NoKey, ![p].failed = ~b]
    BY <1>19 DEF WriteFails
  <2>2. [proc EXCEPT ![p].pc = "open", ![p].key = NoKey, ![p].failed = ~b] \in [Procs -> ProcRecord]
    BY <1>0, CallUpdates
  <2>3. QED
    BY <2>1, <2>2 DEF CallTypes
<1>20. ASSUME NEW p \in Procs, close(p) PROVE CallTypes'
  BY <1>0, <1>20 DEF close, Off, ProcRecord, Pcs, CallTypes
<1>21. ASSUME NEW p \in Procs, Crash(p) PROVE CallTypes'
  BY <1>0, <1>21 DEF Crash, Off, ProcRecord, Pcs, CallTypes
<1>22. ASSUME NEW p \in Procs, NEW n \in Namespaces, NEW l \in Limits, OpenBegin(p, n, l) PROVE CallTypes'
  BY <1>0, <1>22 DEF OpenBegin, Off, ProcRecord, Pcs, CallTypes
<1>23. ASSUME NEW p \in Procs, NEW k \in Keys, WriteBegin(p, k) PROVE CallTypes'
  BY <1>23, <1>c, <1>p DEF WriteBegin, CallTypes
<1>24. ASSUME NEW p \in Procs, NEW k \in Keys, pin(p, k) PROVE CallTypes'
  BY <1>0, <1>24 DEF pin, CallTypes
<1>25. ASSUME NEW p \in Procs, NEW k \in Keys, unpin(p, k) PROVE CallTypes'
  BY <1>0, <1>25 DEF unpin, CallTypes
<1>26. CASE Outage
  BY <1>26 DEF Outage, Off, ProcRecord, Pcs, CallTypes
<1>27. CASE UNCHANGED vars
  BY <1>0, <1>27 DEF vars, CallTypes
<1>28. QED
  BY <1>1, <1>2, <1>3, <1>4, <1>5, <1>6, <1>7, <1>8, <1>9, <1>10, <1>11, <1>12, <1>13,
     <1>14, <1>15, <1>16, <1>17, <1>18, <1>19, <1>20, <1>21, <1>22, <1>23, <1>24, <1>25, <1>26, <1>27 DEF Next, Inside
(* A machine stop leaves a file as it was, as it is, or torn, or takes it.    *)
LEMMA LeftFiles ==
  ASSUME file \in [Namespaces -> [Keys -> FileStates]], NEW V, NEW B \in SUBSET Past
  PROVE  /\ LeftFile(V, B) \in [Namespaces -> [Keys -> FileStates]]
         /\ \A n \in Namespaces : \A k \in Keys :
               \/ LeftFile(V, B)[n][k] = "none"
               \/ \E st \in (was[n][k] \cap FileStates) \cup {file[n][k]} :
                     LeftFile(V, B)[n][k] = Torn(st)
<1>1. ASSUME NEW n \in Namespaces, NEW k \in Keys
      PROVE  /\ LeftFile(V, B)[n][k] \in FileStates
             /\ \/ LeftFile(V, B)[n][k] = "none"
                \/ \E st \in (was[n][k] \cap FileStates) \cup {file[n][k]} :
                      LeftFile(V, B)[n][k] = Torn(st)
  <2>1. LeftFile(V, B)[n][k] = IF LeftDir(V)[n] # "ready" THEN "none"
                               ELSE IF Back(B, n, k) = {} THEN Torn(file[n][k])
                               ELSE Torn(CHOOSE st \in Back(B, n, k) : TRUE)
    BY DEF LeftFile
  <2>2. \A st \in FileStates : Torn(st) \in FileStates
    BY DEF Torn, FileStates
  <2>3. file[n][k] \in FileStates /\ "none" \in FileStates
    BY DEF FileStates
  <2>4. Back(B, n, k) \subseteq was[n][k] \cap FileStates
    <3>1. ASSUME NEW st \in FileStates, <<n, k, st>> \in B PROVE st \in was[n][k]
      <4>1. <<n, k, st>> \in Past /\ st # "temp"
        BY <3>1 DEF FileStates
      <4>2. QED
        BY <4>1 DEF Past
    <3>2. QED
      BY <3>1 DEF Back
  <2>5. CASE LeftDir(V)[n] # "ready"
    BY <2>1, <2>3, <2>5
  <2>6. CASE LeftDir(V)[n] = "ready" /\ Back(B, n, k) = {}
    BY <2>1, <2>2, <2>3, <2>6
  <2>7. CASE LeftDir(V)[n] = "ready" /\ Back(B, n, k) # {}
    <3>1. (CHOOSE st \in Back(B, n, k) : TRUE) \in Back(B, n, k)
      BY <2>7
    <3>2. QED
      BY <2>1, <2>2, <2>4, <2>7, <3>1
  <2>8. QED
    BY <2>5, <2>6, <2>7
<1>2. LeftFile(V, B) = [n \in Namespaces |-> [k \in Keys |-> LeftFile(V, B)[n][k]]]
  BY DEF LeftFile
<1>3. QED
  BY <1>1, <1>2

(* Files and limits keep their types. *)
LEMMA DiskTypesStep == StoreInv /\ [Next]_vars => DiskTypes'
<1> SUFFICES ASSUME StoreInv, [Next]_vars PROVE DiskTypes'
  OBVIOUS
<1> USE DEF disk, locks
<1>0. TypeOK /\ DiskTypes /\ LocksHeld /\ VictimsOut /\ WritesOwned
  BY DEF StoreInv, TypeOK, DiskTypes
<1>a. ASSUME NEW p \in Procs, Pc(p) # "off"
      PROVE  Ns(p) \in Namespaces /\ Lim(p) \in Limits
  BY <1>0, <1>a DEF LocksHeld
<1>b. ASSUME NEW n \in Namespaces, NEW k \in Keys, NEW s \in FileStates
      PROVE  [file EXCEPT ![n][k] = s] \in [Namespaces -> [Keys -> FileStates]]
  BY <1>0 DEF DiskTypes
<1>c. ASSUME NEW p \in Procs
      PROVE  /\ ScannedDir(p) \in [Namespaces -> {"none", "bare", "ready"}]
             /\ Victims(p) \subseteq Namespaces \X Keys
             /\ proc[p].victim \in Keys \cup {NoKey} /\ proc[p].key \in Keys \cup {NoKey}
  BY <1>0 DEF DiskTypes, ScannedDir, Victims, Inactive, TypeOK, ProcRecord
<1>d. {"none", "synced"} \subseteq FileStates
  BY DEF FileStates
<1>1. ASSUME NEW p \in Procs, EvictUnlink(p) PROVE DiskTypes'
  <2>1. Pc(p) # "off" /\ proc[p].victim \in Keys
    BY <1>0, <1>1, <1>c DEF EvictUnlink, VictimsOut, VictimOut
  <2>2. file' \in [Namespaces -> [Keys -> FileStates]]
    BY <1>1, <1>a, <1>b, <1>d, <2>1 DEF EvictUnlink
  <2>3. QED
    BY <1>0, <1>1, <2>2 DEF EvictUnlink, DiskTypes
<1>2. ASSUME NEW p \in Procs, EvictFails(p) PROVE DiskTypes'
  BY <1>0, <1>2 DEF EvictFails, DiskTypes
<1>3. ASSUME NEW p \in Procs, OpenNewDir(p) PROVE DiskTypes'
  <2>1. /\ dir' = ScannedDir(p) /\ UNCHANGED limits
        /\ \/ UNCHANGED file
           \/ \E v \in Victims(p) : file' = [file EXCEPT ![v[1]][v[2]] = "none"]
    BY <1>3 DEF OpenNewDir, enforce
  <2>2. file' \in [Namespaces -> [Keys -> FileStates]]
    <3>1. ASSUME NEW v \in Victims(p), file' = [file EXCEPT ![v[1]][v[2]] = "none"]
          PROVE  file' \in [Namespaces -> [Keys -> FileStates]]
      <4>1. v[1] \in Namespaces /\ v[2] \in Keys /\ "none" \in FileStates
        BY <1>c, <1>d
      <4>2. QED
        BY <1>b, <3>1, <4>1
    <3>2. QED
      BY <1>0, <2>1, <3>1 DEF DiskTypes
  <2>3. QED
    BY <1>0, <1>c, <2>1, <2>2 DEF DiskTypes
<1>4. ASSUME NEW p \in Procs, OpenMkdir(p) PROVE DiskTypes'
  BY <1>0, <1>4 DEF OpenMkdir, DiskTypes
<1>5. ASSUME NEW p \in Procs, OpenLock(p) PROVE DiskTypes'
  BY <1>0, <1>5 DEF OpenLock, DiskTypes
<1>6. ASSUME NEW p \in Procs, RecoverTemp(p) PROVE DiskTypes'
  BY <1>0, <1>6 DEF RecoverTemp, DiskTypes
<1>7. ASSUME NEW p \in Procs, RecoverRecord(p) PROVE DiskTypes'
  <2>1. Ns(p) \in Namespaces /\ Finals(Ns(p)) \subseteq Keys
    BY <1>7, <1>a DEF RecoverRecord, At, Pc, Finals
  <2>2. /\ UNCHANGED <<dir, limits>>
        /\ \/ UNCHANGED file
           \/ \E k \in Keys : file' = [file EXCEPT ![Ns(p)][k] = "none"]
    BY <1>7, <2>1 DEF RecoverRecord
  <2>3. file' \in [Namespaces -> [Keys -> FileStates]]
    <3>1. ASSUME NEW k \in Keys, file' = [file EXCEPT ![Ns(p)][k] = "none"]
          PROVE  file' \in [Namespaces -> [Keys -> FileStates]]
      BY <1>b, <1>d, <2>1, <3>1
    <3>2. QED
      BY <1>0, <2>2, <3>1 DEF DiskTypes
  <2>4. QED
    BY <1>0, <2>2, <2>3 DEF DiskTypes
<1>8. ASSUME NEW p \in Procs, RecoverEnds(p) PROVE DiskTypes'
  BY <1>0, <1>8 DEF RecoverEnds, DiskTypes
<1>9. ASSUME NEW p \in Procs, OpenEnforce(p) PROVE DiskTypes'
  <2>1. /\ dir' = ScannedDir(p) /\ UNCHANGED limits
        /\ \/ UNCHANGED file
           \/ \E v \in Victims(p) : file' = [file EXCEPT ![v[1]][v[2]] = "none"]
    BY <1>9 DEF OpenEnforce, enforce
  <2>2. file' \in [Namespaces -> [Keys -> FileStates]]
    <3>1. ASSUME NEW v \in Victims(p), file' = [file EXCEPT ![v[1]][v[2]] = "none"]
          PROVE  file' \in [Namespaces -> [Keys -> FileStates]]
      <4>1. v[1] \in Namespaces /\ v[2] \in Keys /\ "none" \in FileStates
        BY <1>c, <1>d
      <4>2. QED
        BY <1>b, <3>1, <4>1
    <3>2. QED
      BY <1>0, <2>1, <3>1 DEF DiskTypes
  <2>3. QED
    BY <1>0, <1>c, <2>1, <2>2 DEF DiskTypes
<1>10. ASSUME NEW p \in Procs, OpenCommit(p) PROVE DiskTypes'
  BY <1>0, <1>10, <1>a DEF OpenCommit, At, Pc, DiskTypes
<1>11. ASSUME NEW p \in Procs, OpenUndo(p) PROVE DiskTypes'
  BY <1>0, <1>11 DEF OpenUndo, DiskTypes
<1>12. ASSUME NEW p \in Procs, WriteRoom(p) PROVE DiskTypes'
  BY <1>0, <1>12 DEF WriteRoom, DiskTypes
<1>13. ASSUME NEW p \in Procs, WriteQuota(p) PROVE DiskTypes'
  <2>1. /\ dir' = ScannedDir(p) /\ UNCHANGED limits
        /\ \/ UNCHANGED file
           \/ \E v \in Victims(p) : file' = [file EXCEPT ![v[1]][v[2]] = "none"]
    BY <1>13 DEF WriteQuota, enforce
  <2>2. file' \in [Namespaces -> [Keys -> FileStates]]
    <3>1. ASSUME NEW v \in Victims(p), file' = [file EXCEPT ![v[1]][v[2]] = "none"]
          PROVE  file' \in [Namespaces -> [Keys -> FileStates]]
      <4>1. v[1] \in Namespaces /\ v[2] \in Keys /\ "none" \in FileStates
        BY <1>c, <1>d
      <4>2. QED
        BY <1>b, <3>1, <4>1
    <3>2. QED
      BY <1>0, <2>1, <3>1 DEF DiskTypes
  <2>3. QED
    BY <1>0, <1>c, <2>1, <2>2 DEF DiskTypes
<1>14. ASSUME NEW p \in Procs, WriteRefused(p) PROVE DiskTypes'
  BY <1>0, <1>14 DEF WriteRefused, DiskTypes
<1>15. ASSUME NEW p \in Procs, WriteTemp(p) PROVE DiskTypes'
  BY <1>0, <1>15 DEF WriteTemp, DiskTypes
<1>16. ASSUME NEW p \in Procs, WriteRename(p) PROVE DiskTypes'
  <2>1. Ns(p) \in Namespaces /\ proc[p].key \in Keys /\ tmp[Ns(p)].state = "synced"
    <3>1. Pc(p) = "rename" /\ Pc(p) # "off" /\ Pc(p) \in Writing
      BY <1>16 DEF WriteRename, At, Pc, Writing
    <3>2. /\ proc[p].key \in Keys \ entries[p]
          /\ tmp[Ns(p)] = [key |-> proc[p].key, state |-> "synced"]
      BY <1>0, <3>1 DEF WritesOwned, WriteOwned
    <3>3. QED
      BY <1>a, <3>1, <3>2
  <2>2. file' \in [Namespaces -> [Keys -> FileStates]]
    BY <1>16, <1>b, <1>d, <2>1 DEF WriteRename
  <2>3. QED
    BY <1>0, <1>16, <2>2 DEF WriteRename, DiskTypes
<1>17. ASSUME NEW p \in Procs, WriteSync(p) PROVE DiskTypes'
  BY <1>0, <1>17 DEF WriteSync, DiskTypes
<1>18. ASSUME NEW p \in Procs, WriteIndex(p) PROVE DiskTypes'
  BY <1>0, <1>18 DEF WriteIndex, DiskTypes
<1>19. ASSUME NEW p \in Procs, WriteFails(p) PROVE DiskTypes'
  <2>1. Ns(p) \in Namespaces /\ proc[p].key \in Keys
    BY <1>0, <1>19, <1>a DEF WriteFails, WritesOwned, WriteOwned, Writing
  <2>2. /\ UNCHANGED <<dir, limits>>
        /\ \/ UNCHANGED file
           \/ file' = [file EXCEPT ![Ns(p)][proc[p].key] = "none"]
    BY <1>19 DEF WriteFails
  <2>3. file' \in [Namespaces -> [Keys -> FileStates]]
    <3>1. "none" \in FileStates
      BY <1>d
    <3>2. [file EXCEPT ![Ns(p)][proc[p].key] = "none"] \in [Namespaces -> [Keys -> FileStates]]
      BY <1>b, <2>1, <3>1
    <3>3. QED
      BY <1>0, <2>2, <3>2 DEF DiskTypes
  <2>4. QED
    BY <1>0, <2>2, <2>3 DEF DiskTypes
<1>20. ASSUME NEW p \in Procs, close(p) PROVE DiskTypes'
  BY <1>0, <1>20 DEF close, DiskTypes
<1>21. ASSUME NEW p \in Procs, Crash(p) PROVE DiskTypes'
  BY <1>0, <1>21 DEF Crash, DiskTypes
<1>22. ASSUME NEW p \in Procs, NEW n \in Namespaces, NEW l \in Limits, OpenBegin(p, n, l) PROVE DiskTypes'
  BY <1>0, <1>22 DEF OpenBegin, DiskTypes
<1>23. ASSUME NEW p \in Procs, NEW k \in Keys, WriteBegin(p, k) PROVE DiskTypes'
  BY <1>0, <1>23 DEF WriteBegin, DiskTypes
<1>24. ASSUME NEW p \in Procs, NEW k \in Keys, pin(p, k) PROVE DiskTypes'
  BY <1>0, <1>24 DEF pin, DiskTypes
<1>25. ASSUME NEW p \in Procs, NEW k \in Keys, unpin(p, k) PROVE DiskTypes'
  BY <1>0, <1>25 DEF unpin, DiskTypes
<1>26. CASE Outage
  <2>1. PICK V \in SUBSET adrift, B \in SUBSET Past : dir' = LeftDir(V) /\ file' = LeftFile(V, B)
    BY <1>26 DEF Outage
  <2>2. dir' \in [Namespaces -> {"none", "bare", "ready"}]
    BY <1>0, <2>1 DEF DiskTypes, LeftDir
  <2>3. file' \in [Namespaces -> [Keys -> FileStates]]
    BY <1>0, <2>1, LeftFiles DEF DiskTypes
  <2>4. QED
    BY <1>0, <1>26, <2>2, <2>3 DEF Outage, DiskTypes
<1>27. CASE UNCHANGED vars
  BY <1>0, <1>27 DEF vars, DiskTypes
<1>28. QED
  BY <1>1, <1>2, <1>3, <1>4, <1>5, <1>6, <1>7, <1>8, <1>9, <1>10, <1>11, <1>12, <1>13,
     <1>14, <1>15, <1>16, <1>17, <1>18, <1>19, <1>20, <1>21, <1>22, <1>23, <1>24, <1>25, <1>26, <1>27 DEF Next, Inside

(* Locks, indexes and pins keep their types. *)
LEMMA IndexTypesStep == StoreInv /\ [Next]_vars => IndexTypes'
<1> SUFFICES ASSUME StoreInv, [Next]_vars PROVE IndexTypes'
  OBVIOUS
<1> USE DEF disk, locks
<1>0. TypeOK /\ IndexTypes /\ LocksHeld
  BY DEF StoreInv, TypeOK, IndexTypes
<1>a. ASSUME NEW p \in Procs, NEW K \in SUBSET Keys
      PROVE  [entries EXCEPT ![p] = K] \in [Procs -> SUBSET Keys]
  BY <1>0 DEF IndexTypes
<1>b. ASSUME NEW p \in Procs
      PROVE  entries[p] \in SUBSET Keys /\ proc[p].victim \in Keys \cup {NoKey}
             /\ proc[p].key \in Keys \cup {NoKey}
  BY <1>0 DEF TypeOK, ProcRecord
<1>e. ASSUME NEW p \in Procs, EvictOwn(p)
      PROVE  entries' \in [Procs -> SUBSET Keys]
  <2>1. PICK k \in Evictable(p) : entries' = [entries EXCEPT ![p] = @ \ {k}]
    BY <1>e DEF EvictOwn
  <2>2. entries[p] \ {k} \in SUBSET Keys
    BY <1>b
  <2>3. [entries EXCEPT ![p] = entries[p] \ {k}] \in [Procs -> SUBSET Keys]
    BY <1>a, <2>2
  <2>4. QED
    BY <2>1, <2>3
<1>1. ASSUME NEW p \in Procs, EvictUnlink(p) PROVE IndexTypes'
  BY <1>0, <1>1 DEF EvictUnlink, IndexTypes
<1>2. ASSUME NEW p \in Procs, EvictFails(p) PROVE IndexTypes'
  <2>1. entries' \in [Procs -> SUBSET Keys]
    BY <1>0, <1>2, <1>a, <1>b DEF EvictFails, IndexTypes
  <2>2. QED
    BY <1>0, <1>2, <2>1 DEF EvictFails, IndexTypes
<1>3. ASSUME NEW p \in Procs, OpenNewDir(p) PROVE IndexTypes'
  <2>1. UNCHANGED <<locks, pins>> /\ (entries' = entries \/ EvictOwn(p))
    BY <1>3 DEF OpenNewDir, enforce
  <2>2. entries' \in [Procs -> SUBSET Keys]
    BY <1>0, <1>e, <2>1 DEF IndexTypes
  <2>3. QED
    BY <1>0, <2>1, <2>2 DEF IndexTypes
<1>4. ASSUME NEW p \in Procs, OpenMkdir(p) PROVE IndexTypes'
  BY <1>0, <1>4 DEF OpenMkdir, IndexTypes
<1>5. ASSUME NEW p \in Procs, OpenLock(p) PROVE IndexTypes'
  <2>1. nslock' = nslock \/ nslock' = [nslock EXCEPT ![Ns(p)] = p]
    BY <1>5 DEF OpenLock
  <2>2. QED
    BY <1>0, <1>5, <2>1 DEF OpenLock, IndexTypes
<1>6. ASSUME NEW p \in Procs, RecoverTemp(p) PROVE IndexTypes'
  BY <1>0, <1>6 DEF RecoverTemp, IndexTypes
<1>7. ASSUME NEW p \in Procs, RecoverRecord(p) PROVE IndexTypes'
  <2>1. /\ UNCHANGED <<locks, pins>>
        /\ entries' = entries \/ EvictOwn(p)
           \/ \E k \in Keys : entries' = [entries EXCEPT ![p] = @ \cup {k}]
    BY <1>7 DEF RecoverRecord, MakeRoom, Finals
  <2>2. ASSUME NEW k \in Keys, entries' = [entries EXCEPT ![p] = @ \cup {k}]
        PROVE  entries' \in [Procs -> SUBSET Keys]
    <3>1. entries[p] \cup {k} \in SUBSET Keys
      BY <1>b
    <3>2. QED
      BY <1>a, <2>2, <3>1
  <2>3. entries' \in [Procs -> SUBSET Keys]
    BY <1>0, <1>e, <2>1, <2>2 DEF IndexTypes
  <2>4. QED
    BY <1>0, <2>1, <2>3 DEF IndexTypes
<1>8. ASSUME NEW p \in Procs, RecoverEnds(p) PROVE IndexTypes'
  BY <1>0, <1>8 DEF RecoverEnds, IndexTypes
<1>9. ASSUME NEW p \in Procs, OpenEnforce(p) PROVE IndexTypes'
  <2>1. UNCHANGED <<locks, pins>> /\ (entries' = entries \/ EvictOwn(p))
    BY <1>9 DEF OpenEnforce, enforce
  <2>2. entries' \in [Procs -> SUBSET Keys]
    BY <1>0, <1>e, <2>1 DEF IndexTypes
  <2>3. QED
    BY <1>0, <2>1, <2>2 DEF IndexTypes
<1>10. ASSUME NEW p \in Procs, OpenCommit(p) PROVE IndexTypes'
  BY <1>0, <1>10 DEF OpenCommit, IndexTypes
<1>11. ASSUME NEW p \in Procs, OpenUndo(p) PROVE IndexTypes'
  BY <1>0, <1>11 DEF OpenUndo, IndexTypes
<1>12. ASSUME NEW p \in Procs, WriteRoom(p) PROVE IndexTypes'
  <2>1. UNCHANGED <<locks, pins>> /\ (entries' = entries \/ EvictOwn(p))
    BY <1>12 DEF WriteRoom, MakeRoom
  <2>2. entries' \in [Procs -> SUBSET Keys]
    BY <1>0, <1>e, <2>1 DEF IndexTypes
  <2>3. QED
    BY <1>0, <2>1, <2>2 DEF IndexTypes
<1>13. ASSUME NEW p \in Procs, WriteQuota(p) PROVE IndexTypes'
  <2>1. UNCHANGED <<locks, pins>> /\ (entries' = entries \/ EvictOwn(p))
    BY <1>13 DEF WriteQuota, enforce
  <2>2. entries' \in [Procs -> SUBSET Keys]
    BY <1>0, <1>e, <2>1 DEF IndexTypes
  <2>3. QED
    BY <1>0, <2>1, <2>2 DEF IndexTypes
<1>14. ASSUME NEW p \in Procs, WriteRefused(p) PROVE IndexTypes'
  BY <1>0, <1>14 DEF WriteRefused, IndexTypes
<1>15. ASSUME NEW p \in Procs, WriteTemp(p) PROVE IndexTypes'
  BY <1>0, <1>15 DEF WriteTemp, IndexTypes
<1>16. ASSUME NEW p \in Procs, WriteRename(p) PROVE IndexTypes'
  BY <1>0, <1>16 DEF WriteRename, IndexTypes
<1>17. ASSUME NEW p \in Procs, WriteSync(p) PROVE IndexTypes'
  BY <1>0, <1>17 DEF WriteSync, IndexTypes
<1>18. ASSUME NEW p \in Procs, WriteIndex(p) PROVE IndexTypes'
  <2>1. proc[p].key \in Keys
    BY <1>18 DEF StoreInv, WritesOwned, WriteOwned, WriteIndex, Writing, At, Pc
  <2>2. entries' \in [Procs -> SUBSET Keys]
    BY <1>18, <1>a, <1>b, <2>1 DEF WriteIndex
  <2>3. QED
    BY <1>0, <1>18, <2>2 DEF WriteIndex, IndexTypes
<1>19. ASSUME NEW p \in Procs, WriteFails(p) PROVE IndexTypes'
  BY <1>0, <1>19 DEF WriteFails, IndexTypes
<1>20. ASSUME NEW p \in Procs, close(p) PROVE IndexTypes'
  BY <1>0, <1>20 DEF close, IndexTypes
<1>21. ASSUME NEW p \in Procs, Crash(p) PROVE IndexTypes'
  BY <1>0, <1>21 DEF Crash, IndexTypes
<1>22. ASSUME NEW p \in Procs, NEW n \in Namespaces, NEW l \in Limits, OpenBegin(p, n, l) PROVE IndexTypes'
  BY <1>0, <1>22 DEF OpenBegin, IndexTypes
<1>23. ASSUME NEW p \in Procs, NEW k \in Keys, WriteBegin(p, k) PROVE IndexTypes'
  BY <1>0, <1>23 DEF WriteBegin, IndexTypes
<1>24. ASSUME NEW p \in Procs, NEW k \in Keys, pin(p, k) PROVE IndexTypes'
  BY <1>0, <1>24 DEF pin, IndexTypes
<1>25. ASSUME NEW p \in Procs, NEW k \in Keys, unpin(p, k) PROVE IndexTypes'
  BY <1>0, <1>25 DEF unpin, IndexTypes
<1>26. CASE Outage
  BY <1>0, <1>26 DEF Outage, IndexTypes
<1>27. CASE UNCHANGED vars
  BY <1>0, <1>27 DEF vars, IndexTypes
<1>28. QED
  BY <1>1, <1>2, <1>3, <1>4, <1>5, <1>6, <1>7, <1>8, <1>9, <1>10, <1>11, <1>12, <1>13,
     <1>14, <1>15, <1>16, <1>17, <1>18, <1>19, <1>20, <1>21, <1>22, <1>23, <1>24, <1>25, <1>26, <1>27 DEF Next, Inside
-----------------------------------------------------------------------------
(* One process and the others.                                             *)
Step(p) ==
    \/ Inside(p) \/ close(p) \/ Crash(p)
    \/ \E n \in Namespaces, l \in Limits : OpenBegin(p, n, l)
    \/ \E k \in Keys : WriteBegin(p, k) \/ pin(p, k) \/ unpin(p, k)

(* What a turn of enforce does to the files: inactive namespaces only.      *)
LEMMA EnforceFiles ==
  ASSUME NEW p \in Procs, NEW from, NEW to, NEW bytes, NEW records, NEW namespaces,
         enforce(p, from, to, bytes, records, namespaces), TypeOK,
         NEW n \in Namespaces, nslock[n] # Nobody \/ n = Ns(p)
  PROVE  tmp'[n] = tmp[n] /\ file'[n] = file[n] /\ dir'[n] = dir[n]
<1>1. n \notin Inactive(p)
  BY DEF Inactive, Leased
<1>2. tmp'[n] = tmp[n] /\ dir'[n] = dir[n]
  BY <1>1 DEF enforce, ScannedTmp, ScannedDir
<1>3. CASE file' = file
  BY <1>2, <1>3
<1>4. ASSUME NEW v \in Victims(p), file' = [file EXCEPT ![v[1]][v[2]] = "none"]
      PROVE  file'[n] = file[n]
  <2>1. v[1] # n
    BY <1>1 DEF Victims
  <2>2. QED
    BY <1>4, <2>1 DEF TypeOK
<1>5. QED
  BY <1>2, <1>3, <1>4 DEF enforce

(* The same of everything else.                                            *)
LEMMA EnforceOthers ==
  ASSUME NEW p \in Procs, NEW from, NEW to, NEW bytes, NEW records, NEW namespaces,
         enforce(p, from, to, bytes, records, namespaces), TypeOK
  PROVE  /\ UNCHANGED <<limits, locks, pins, used>>
         /\ \A s \in Procs \ {p} : proc'[s] = proc[s] /\ entries'[s] = entries[s]
<1>1. UNCHANGED <<limits, locks, pins, used>>
  BY DEF enforce
<1>2. \/ UNCHANGED <<proc, entries>> \/ EvictOwn(p)
      \/ (\E c : Goto(p, c)) /\ UNCHANGED entries
  BY DEF enforce
<1>3. QED
  BY <1>1, <1>2 DEF EvictOwn, Goto, TypeOK
(* What another process may not touch: its call, and, with the lock, its files. *)
Has(s) == Ns(s) \in Namespaces /\ nslock[Ns(s)] = s

OtherKept(s) ==
    /\ proc'[s] = proc[s] /\ entries'[s] = entries[s] /\ pins'[s] = pins[s]
    /\ Has(s) =>
          nslock'[Ns(s)] = s /\ file'[Ns(s)] = file[Ns(s)] /\ tmp'[Ns(s)] = tmp[Ns(s)]

(* Nobody moves what belongs to the store of another process. *)
LEMMA OthersKept ==
  ASSUME StoreInv, NEW p \in Procs, Step(p), NEW s \in Procs \ {p}
  PROVE  OtherKept(s)
<1> USE DEF OtherKept, disk, locks, EvictOwn, MakeRoom, Goto
<1>0. TypeOK /\ LocksHeld /\ VictimsOut /\ FilesWhole /\ p # s
  BY DEF StoreInv
<1>a. Has(s) => nslock[Ns(s)] # Nobody /\ nslock[Ns(s)] # p
  BY StoreConstants DEF Has
<1>b. Pc(p) \in Locked /\ Has(s) => Ns(s) # Ns(p)
  BY <1>0, <1>a DEF LocksHeld
<1>c. Has(s) => Ns(s) \in Namespaces /\ nslock[Ns(s)] = s
  BY DEF Has
<1>1. CASE EvictUnlink(p)
  <2>1. Pc(p) \in Locked
    BY <1>0, <1>1 DEF EvictUnlink, VictimsOut, VictimOut, At, Pc, Locked, Writing
  <2>2. QED
    BY <1>0, <1>a, <1>b, <1>c, <1>1, <2>1 DEF EvictUnlink, TypeOK
<1>2. CASE EvictFails(p)
  BY <1>0, <1>a, <1>b, <1>c, <1>2 DEF EvictFails, TypeOK, At, Pc, Locked, Writing
<1>3. CASE OpenNewDir(p)
  <2>1. enforce(p, "newdir", "mkdir", 0, 0, 1)
    BY <1>3 DEF OpenNewDir
  <2>2. QED
    BY <1>0, <1>a, <1>c, <2>1, EnforceFiles, EnforceOthers
<1>4. CASE OpenMkdir(p)
  BY <1>0, <1>a, <1>b, <1>c, <1>4 DEF OpenMkdir, TypeOK, At, Pc, Locked, Writing
<1>5. CASE OpenLock(p)
  BY <1>0, <1>a, <1>b, <1>c, <1>5 DEF OpenLock, TypeOK, At, Pc, Locked, Writing
<1>6. CASE RecoverTemp(p)
  BY <1>0, <1>a, <1>b, <1>c, <1>6 DEF RecoverTemp, TypeOK, At, Pc, Locked, Writing
<1>7. CASE RecoverRecord(p)
  BY <1>0, <1>a, <1>b, <1>c, <1>7 DEF RecoverRecord, TypeOK, At, Pc, Locked, Writing
<1>8. CASE RecoverEnds(p)
  BY <1>0, <1>a, <1>b, <1>c, <1>8 DEF RecoverEnds, TypeOK, At, Pc, Locked, Writing
<1>9. CASE OpenEnforce(p)
  <2>1. enforce(p, "enforce", "commit", 0, 0, 0)
    BY <1>9 DEF OpenEnforce
  <2>2. QED
    BY <1>0, <1>a, <1>c, <2>1, EnforceFiles, EnforceOthers
<1>10. CASE OpenCommit(p)
  BY <1>0, <1>a, <1>b, <1>c, <1>10 DEF OpenCommit, TypeOK, At, Pc, Locked, Writing
<1>11. CASE OpenUndo(p)
  BY <1>0, <1>a, <1>b, <1>c, <1>11 DEF OpenUndo, TypeOK, At, Pc, Locked, Writing
<1>12. CASE WriteRoom(p)
  BY <1>0, <1>a, <1>b, <1>c, <1>12 DEF WriteRoom, TypeOK, At, Pc, Locked, Writing
<1>13. CASE WriteQuota(p)
  <2>1. enforce(p, "quota", "temp", Size[proc[p].key], 1, 0)
    BY <1>13 DEF WriteQuota
  <2>2. QED
    BY <1>0, <1>a, <1>c, <2>1, EnforceFiles, EnforceOthers
<1>14. CASE WriteRefused(p)
  BY <1>0, <1>a, <1>b, <1>c, <1>14 DEF WriteRefused, TypeOK, At, Pc, Locked, Writing
<1>15. CASE WriteTemp(p)
  <2>1. Pc(p) \in Locked
    BY <1>0, <1>15 DEF WriteTemp, VictimsOut, VictimOut, At, Pc, Locked, Writing
  <2>2. UNCHANGED <<file, locks, entries, pins>> /\ \A q \in Procs \ {p} : proc'[q] = proc[q]
    BY <1>0, <1>15 DEF WriteTemp, TypeOK
  <2>3. \E t : tmp' = [tmp EXCEPT ![Ns(p)] = t]
    BY <1>15 DEF WriteTemp, SetTmp
  <2>4. QED
    BY <1>0, <1>b, <1>c, <2>1, <2>2, <2>3
<1>16. CASE WriteRename(p)
  BY <1>0, <1>a, <1>b, <1>c, <1>16 DEF WriteRename, TypeOK, At, Pc, Locked, Writing
<1>17. CASE WriteSync(p)
  BY <1>0, <1>a, <1>b, <1>c, <1>17 DEF WriteSync, TypeOK, At, Pc, Locked, Writing
<1>18. CASE WriteIndex(p)
  BY <1>0, <1>a, <1>b, <1>c, <1>18 DEF WriteIndex, TypeOK, At, Pc, Locked, Writing
<1>19. CASE WriteFails(p)
  <2>1. Pc(p) \in Locked
    BY <1>0, <1>19 DEF WriteFails, VictimsOut, VictimOut, At, Pc, Locked, Writing
  <2>2. UNCHANGED <<nslock, entries, pins>> /\ \A q \in Procs \ {p} : proc'[q] = proc[q]
    BY <1>0, <1>19 DEF WriteFails, TypeOK
  <2>3. \/ UNCHANGED <<tmp, file>>
        \/ /\ tmp' = [tmp EXCEPT ![Ns(p)] = NoTmp]
           /\ file' = file \/ file' = [file EXCEPT ![Ns(p)][proc[p].key] = "none"]
    BY <1>19 DEF WriteFails
  <2>4. Has(s) => tmp'[Ns(s)] = tmp[Ns(s)] /\ file'[Ns(s)] = file[Ns(s)]
    <3>1. SUFFICES ASSUME Ns(s) \in Namespaces, Ns(s) # Ns(p)
                   PROVE  tmp'[Ns(s)] = tmp[Ns(s)] /\ file'[Ns(s)] = file[Ns(s)]
      BY <1>b, <1>c, <2>1
    <3>2. tmp'[Ns(s)] = tmp[Ns(s)]
      BY <1>0, <2>3, <3>1 DEF FilesWhole
    <3>3. file'[Ns(s)] = file[Ns(s)]
      BY <1>0, <2>3, <3>1 DEF TypeOK
    <3>4. QED
      BY <3>2, <3>3
  <2>5. QED
    BY <1>0, <1>c, <2>2, <2>4
<1>20. CASE close(p)
  BY <1>0, <1>a, <1>b, <1>c, <1>20 DEF close, TypeOK, At, Pc, Locked, Writing
<1>21. CASE Crash(p)
  BY <1>0, <1>a, <1>b, <1>c, <1>21 DEF Crash, TypeOK, At, Pc, Locked, Writing
<1>22. ASSUME NEW n \in Namespaces, NEW l \in Limits, OpenBegin(p, n, l)
      PROVE  OtherKept(s)
  BY <1>0, <1>a, <1>b, <1>c, <1>22 DEF OpenBegin, TypeOK, At, Pc, Locked, Writing
<1>23. ASSUME NEW k \in Keys, WriteBegin(p, k)
      PROVE  OtherKept(s)
  BY <1>0, <1>a, <1>b, <1>c, <1>23 DEF WriteBegin, TypeOK, At, Pc, Locked, Writing
<1>24. ASSUME NEW k \in Keys, pin(p, k)
      PROVE  OtherKept(s)
  BY <1>0, <1>a, <1>b, <1>c, <1>24 DEF pin, TypeOK, At, Pc, Locked, Writing
<1>25. ASSUME NEW k \in Keys, unpin(p, k)
      PROVE  OtherKept(s)
  BY <1>0, <1>a, <1>b, <1>c, <1>25 DEF unpin, TypeOK, At, Pc, Locked, Writing
<1>26. QED
  BY <1>1, <1>2, <1>3, <1>4, <1>5, <1>6, <1>7, <1>8, <1>9, <1>10, <1>11, <1>12, <1>13,
     <1>14, <1>15, <1>16, <1>17, <1>18, <1>19, <1>20, <1>21, <1>22, <1>23, <1>24, <1>25 DEF Step, Inside
(* The parts of a call's record that the invariants read.                   *)
Becomes(p, c, n, k, v, f) ==
    /\ proc'[p].pc = c /\ proc'[p].ns = n /\ proc'[p].key = k
    /\ proc'[p].victim = v /\ proc'[p].failed = f

(* A turn of enforce or of making room keeps the call of its process sound. *)
LEMMA TurnOwn ==
  ASSUME StoreInv, NEW p \in Procs, UNCHANGED <<nslock, pins>>,
         Pc(p) \in {"newdir", "recover", "enforce", "room", "quota"}, proc[p].victim = NoKey,
         tmp'[Ns(p)] = tmp[Ns(p)], file'[Ns(p)] = file[Ns(p)],
         \/ UNCHANGED <<proc, entries>>
         \/ EvictOwn(p)
         \/ \E c \in {"mkdir", "commit", "quota", "temp", GiveUp(p)} :
               /\ Goto(p, c) /\ UNCHANGED entries
               /\ c = "mkdir" => Pc(p) = "newdir"
               /\ c = "commit" => Pc(p) = "enforce"
               /\ c \in {"quota", "temp"} => Pc(p) \in {"room", "quota"}
  PROVE  CallSound(p)'
<1> USE DEF At, Pc, Ns, disk, locks, CallSound
<1>0. /\ TypeOK /\ VictimOut(p) /\ WriteOwned(p) /\ Indexed(p) /\ FilesWhole
      /\ Pc(p) # "off" => Ns(p) \in Namespaces
      /\ Pc(p) \in {"off", "newdir", "mkdir", "lockns"} => entries[p] = {}
  BY StoreConstants DEF StoreInv, VictimsOut, WritesOwned, IndexPinned, LocksHeld, Indexed, Locked, Writing
<1>a. /\ proc[p] \in ProcRecord /\ NoKey \notin Keys /\ entries[p] \subseteq Keys
      /\ proc \in [Procs -> ProcRecord]
  BY <1>0, StoreConstants DEF TypeOK
<1>b. proc[p].victim \in Keys \cup {NoKey} /\ proc[p].key \in Keys \cup {NoKey}
  BY <1>a DEF ProcRecord
<1>1. CASE UNCHANGED <<proc, entries>>
  BY <1>0, <1>1 DEF VictimOut, WriteOwned, Indexed, Serves
<1>2. CASE EvictOwn(p)
  <2>1. PICK k \in entries[p] : /\ pins[p][k] = 0
                                /\ entries' = [entries EXCEPT ![p] = @ \ {k}]
                                /\ proc' = [proc EXCEPT ![p].victim = k]
    BY <1>2 DEF EvictOwn, Evictable
  <2>2. entries'[p] = entries[p] \ {k} /\ Becomes(p, Pc(p), Ns(p), proc[p].key, k, proc[p].failed)
    BY <1>0, <1>a, <2>1 DEF Becomes, ProcRecord, TypeOK
  <2>3. Pc(p) # "newdir" /\ k # proc[p].key /\ Valid(file[Ns(p)][k]) /\ k \in Keys
    BY <1>0, <1>a, <2>1, StoreConstants DEF Indexed, WriteOwned, Writing
  <2>4. VictimOut(p)'
    BY <2>1, <2>2, <2>3 DEF VictimOut, Becomes
  <2>5. WriteOwned(p)'
    BY <1>0, <2>2 DEF WriteOwned, Becomes
  <2>6. Indexed(p)'
    BY <1>0, <1>a, <2>1, <2>2, <2>3 DEF Indexed, Becomes, Serves
  <2>7. QED
    BY <2>4, <2>5, <2>6
<1>3. ASSUME NEW c \in {"mkdir", "commit", "quota", "temp", GiveUp(p)}, Goto(p, c), UNCHANGED entries,
             c = "mkdir" => Pc(p) = "newdir", c = "commit" => Pc(p) = "enforce",
             c \in {"quota", "temp"} => Pc(p) \in {"room", "quota"}
      PROVE  CallSound(p)'
  <2>1. Becomes(p, c, Ns(p), proc[p].key, NoKey, proc[p].failed)
    BY <1>a, <1>3 DEF Becomes, ProcRecord, Goto
  <2>2. c \in Writing <=> Pc(p) \in {"room", "quota"}
    BY <1>3 DEF Writing, GiveUp
  <2>3. c \notin {"fill", "sync", "rename", "recover", "dirsync", "index", "off"}
    BY <1>3 DEF GiveUp
  <2>4. c \in Locked => Pc(p) \in Locked \ {"recover"}
    BY <1>3 DEF Locked, Writing, GiveUp
  <2>5. ~proc[p].failed
    BY <1>0 DEF WriteOwned
  <2>6. WriteOwned(p)'
    BY <1>0, <1>3, <2>1, <2>2, <2>3, <2>4, <2>5 DEF WriteOwned, Becomes, Writing
  <2>7. VictimOut(p)' 
    BY <2>1 DEF VictimOut, Becomes
  <2>8. pins[p] \in [Keys -> Nat] /\ \A k \in Keys : pins[p][k] > 0 => Serves(p)'
    BY <1>0, <2>1, <2>2 DEF Indexed, Becomes, Serves, Writing, TypeOK
  <2>9. Indexed(p)'
    BY <1>0, <1>3, <2>1, <2>3, <2>8 DEF Indexed, Becomes
  <2>10. QED
    BY <2>6, <2>7, <2>9
<1>4. QED
  BY <1>1, <1>2, <1>3
(* A process leaves its own call, index and pins sound. *)
LEMMA OwnSound ==
  ASSUME StoreInv, NEW p \in Procs, Step(p)
  PROVE  CallSound(p)'
<1> USE DEF At, Pc, Ns, disk, locks, CallSound
<1>0. /\ TypeOK /\ VictimOut(p) /\ WriteOwned(p) /\ Indexed(p) /\ FilesWhole
      /\ Pc(p) # "off" => Ns(p) \in Namespaces
      /\ Pc(p) \in {"off", "newdir", "mkdir", "lockns"} => entries[p] = {}
  BY StoreConstants DEF StoreInv, VictimsOut, WritesOwned, IndexPinned, LocksHeld, Indexed, Locked, Writing
<1>a. /\ proc[p] \in ProcRecord /\ NoKey \notin Keys /\ entries[p] \subseteq Keys
      /\ proc \in [Procs -> ProcRecord]
  BY <1>0, StoreConstants DEF TypeOK
<1>b. proc[p].victim \in Keys \cup {NoKey} /\ proc[p].key \in Keys \cup {NoKey}
  BY <1>a DEF ProcRecord
<1>1. CASE EvictUnlink(p)
  <2>0. /\ proc[p].victim \in Keys \ entries[p] /\ proc[p].victim # proc[p].key /\ Ns(p) \in Namespaces
        /\ pins[p][proc[p].victim] = 0 /\ Valid(file[Ns(p)][proc[p].victim]) /\ proc[p].failed = FALSE
        /\ Pc(p) \in {"recover", "enforce", "room", "quota"}
    BY <1>0, <1>a, <1>b, <1>1 DEF EvictUnlink, VictimOut, WriteOwned, ProcRecord
  <2>1. /\ Becomes(p, Pc(p), Ns(p), proc[p].key, NoKey, FALSE) /\ UNCHANGED <<tmp, nslock, entries, pins>>
    BY <1>a, <1>1, <2>0 DEF EvictUnlink, Becomes, ProcRecord
  <2>2. \A k \in Keys : k # proc[p].victim => file'[Ns(p)][k] = file[Ns(p)][k]
    BY <1>0, <1>1, <2>0 DEF EvictUnlink, TypeOK
  <2>3. VictimOut(p)' /\ WriteOwned(p)'
    BY <1>0, <2>0, <2>1 DEF VictimOut, WriteOwned, Becomes, Writing, Locked
  <2>4. Indexed(p)'
    BY <1>0, <1>a, <2>0, <2>1, <2>2 DEF Indexed, Becomes, Serves
  <2>5. QED
    BY <2>3, <2>4
<1>2. CASE EvictFails(p)
  <2>0. /\ proc[p].victim \in Keys \ entries[p] /\ proc[p].victim # proc[p].key /\ Ns(p) \in Namespaces
        /\ pins[p][proc[p].victim] = 0 /\ Valid(file[Ns(p)][proc[p].victim]) /\ proc[p].failed = FALSE
        /\ Pc(p) \in {"recover", "enforce", "room", "quota"}
    BY <1>0, <1>a, <1>b, <1>2 DEF EvictFails, VictimOut, WriteOwned, ProcRecord
  <2>1. /\ Becomes(p, GiveUp(p), Ns(p), proc[p].key, NoKey, FALSE) /\ UNCHANGED <<tmp, file, nslock, pins>>
        /\ entries'[p] = entries[p] \cup {proc[p].victim}
    BY <1>0, <1>a, <1>2, <2>0 DEF EvictFails, Becomes, ProcRecord, TypeOK
  <2>2. VictimOut(p)'
    BY <2>1 DEF VictimOut, Becomes
  <2>3. WriteOwned(p)'
    BY <1>0, <2>0, <2>1 DEF WriteOwned, Becomes, Writing, Locked, GiveUp
  <2>4. nslock[Ns(p)] = p
    BY <2>0 DEF StoreInv, LocksHeld, Locked, Writing
  <2>5. Indexed(p)'
    BY <1>0, <2>0, <2>1, <2>4 DEF Indexed, Becomes, Serves, GiveUp
  <2>6. QED
    BY <2>2, <2>3, <2>5
<1>3. CASE OpenNewDir(p)
  <2>1. enforce(p, "newdir", "mkdir", 0, 0, 1)
    BY <1>3 DEF OpenNewDir
  <2>2. Ns(p) \in Namespaces
    BY <1>0, <2>1 DEF enforce
  <2>3. tmp'[Ns(p)] = tmp[Ns(p)] /\ file'[Ns(p)] = file[Ns(p)] /\ UNCHANGED <<nslock, pins>>
    BY <1>0, <2>1, <2>2, EnforceFiles, EnforceOthers
  <2>4. \/ UNCHANGED <<proc, entries>> \/ EvictOwn(p)
        \/ \E c \in {"mkdir", GiveUp(p)} : Goto(p, c) /\ UNCHANGED entries
    BY <2>1 DEF enforce
  <2>5. Pc(p) = "newdir" /\ proc[p].victim = NoKey
    BY <2>1 DEF enforce
  <2>6. GiveUp(p) \in {"undo", "refused"}
    BY DEF GiveUp
  <2>7. QED
    BY <2>3, <2>4, <2>5, <2>6, TurnOwn
<1>4. CASE OpenMkdir(p)
  <2>1. /\ Becomes(p, "lockns", Ns(p), proc[p].key, proc[p].victim, proc[p].failed)
        /\ entries'[p] = entries[p]
        /\ pins'[p] = pins[p]
        /\ tmp'[Ns(p)] = tmp[Ns(p)]
        /\ file'[Ns(p)] = file[Ns(p)]
    BY <1>0, <1>a, <1>4 DEF OpenMkdir, Becomes, ProcRecord, TypeOK, FilesWhole, Goto
  <2>2. VictimOut(p)'
    BY <1>0, <1>a, <1>4, <2>1 DEF VictimOut, Becomes, OpenMkdir
  <2>3. WriteOwned(p)'
    BY <1>0, <1>a, <1>4, <2>1 DEF WriteOwned, Becomes, Writing, Locked, OpenMkdir
  <2>4. Indexed(p)'
    BY <1>0, <1>a, <1>4, <2>1 DEF Indexed, Becomes, Serves, OpenMkdir
  <2>5. QED
    BY <2>2, <2>3, <2>4
<1>5. CASE OpenLock(p)
  <2>1. PICK c \in {"recover", "undo"} : Becomes(p, c, Ns(p), proc[p].key, NoKey, proc[p].failed)
    BY <1>a, <1>5 DEF OpenLock, Becomes, ProcRecord, Goto
  <2>2. UNCHANGED <<entries, pins>> /\ entries[p] = {}
    BY <1>0, <1>5 DEF OpenLock
  <2>3. QED
    BY <1>0, <1>5, <2>1, <2>2 DEF OpenLock, VictimOut, WriteOwned, Indexed, Becomes, Serves, Writing, Locked
<1>6. CASE RecoverTemp(p)
  <2>1. tmp'[Ns(p)] = NoTmp /\ UNCHANGED <<proc, entries, pins, nslock, file>> /\ Pc(p) = "recover"
    BY <1>0, <1>6 DEF RecoverTemp, FilesWhole
  <2>2. QED
    BY <1>0, <2>1 DEF VictimOut, WriteOwned, Indexed, Serves, Writing
<1>7. CASE RecoverRecord(p)
  <2>1. UNCHANGED <<tmp, nslock, pins>> /\ Pc(p) = "recover" /\ proc[p].victim = NoKey /\ Ns(p) \in Namespaces
    BY <1>0, <1>7 DEF RecoverRecord
  <2>2. PICK k \in Keys \ entries[p] :
           \/ file' = [file EXCEPT ![Ns(p)][k] = "none"] /\ UNCHANGED <<proc, entries>>
           \/ /\ Valid(file[Ns(p)][k]) /\ UNCHANGED <<proc, file>>
              /\ entries' = [entries EXCEPT ![p] = @ \cup {k}]
           \/ MakeRoom(p) /\ UNCHANGED file
    BY <1>7 DEF RecoverRecord, Readable, Finals
  <2>3. CASE file' = [file EXCEPT ![Ns(p)][k] = "none"] /\ UNCHANGED <<proc, entries>>
    <3>1. \A j \in Keys \ {k} : file'[Ns(p)][j] = file[Ns(p)][j]
      BY <1>0, <2>1, <2>3 DEF TypeOK
    <3>2. QED
      BY <1>0, <1>a, <2>1, <2>2, <2>3, <3>1 DEF VictimOut, WriteOwned, Indexed, Serves, Writing
  <2>4. CASE /\ Valid(file[Ns(p)][k]) /\ UNCHANGED <<proc, file>>
             /\ entries' = [entries EXCEPT ![p] = @ \cup {k}]
    <3>1. entries'[p] = entries[p] \cup {k}
      BY <1>0, <2>4 DEF TypeOK
    <3>2. nslock[Ns(p)] = p
      BY <2>1 DEF StoreInv, LocksHeld, Locked
    <3>3. QED
      BY <1>0, <2>1, <2>4, <3>1, <3>2 DEF VictimOut, WriteOwned, Indexed, Serves, Writing
  <2>5. CASE MakeRoom(p) /\ UNCHANGED file
    <3>1. GiveUp(p) = "undo"
      BY <2>1 DEF GiveUp
    <3>2. EvictOwn(p) \/ \E c \in {GiveUp(p)} : Goto(p, c) /\ UNCHANGED entries
      BY <2>5 DEF MakeRoom
    <3>3. QED
      BY <2>1, <2>5, <3>1, <3>2, TurnOwn
  <2>6. QED
    BY <2>2, <2>3, <2>4, <2>5
<1>8. CASE RecoverEnds(p)
  <2>1. /\ Becomes(p, "enforce", Ns(p), proc[p].key, proc[p].victim, proc[p].failed)
        /\ entries'[p] = entries[p]
        /\ pins'[p] = pins[p]
        /\ tmp'[Ns(p)] = tmp[Ns(p)]
        /\ file'[Ns(p)] = file[Ns(p)]
    BY <1>0, <1>a, <1>8 DEF RecoverEnds, Becomes, ProcRecord, TypeOK, FilesWhole, Goto
  <2>2. VictimOut(p)'
    BY <1>0, <1>a, <1>8, <2>1 DEF VictimOut, Becomes, RecoverEnds
  <2>3. WriteOwned(p)'
    BY <1>0, <1>a, <1>8, <2>1 DEF WriteOwned, Becomes, Writing, Locked, RecoverEnds
  <2>4. Indexed(p)'
    BY <1>0, <1>a, <1>8, <2>1 DEF Indexed, Becomes, Serves, RecoverEnds
  <2>5. QED
    BY <2>2, <2>3, <2>4
<1>9. CASE OpenEnforce(p)
  <2>1. enforce(p, "enforce", "commit", 0, 0, 0)
    BY <1>9 DEF OpenEnforce
  <2>2. Ns(p) \in Namespaces
    BY <1>0, <2>1 DEF enforce
  <2>3. tmp'[Ns(p)] = tmp[Ns(p)] /\ file'[Ns(p)] = file[Ns(p)] /\ UNCHANGED <<nslock, pins>>
    BY <1>0, <2>1, <2>2, EnforceFiles, EnforceOthers
  <2>4. \/ UNCHANGED <<proc, entries>> \/ EvictOwn(p)
        \/ \E c \in {"commit", GiveUp(p)} : Goto(p, c) /\ UNCHANGED entries
    BY <2>1 DEF enforce
  <2>5. Pc(p) = "enforce" /\ proc[p].victim = NoKey
    BY <2>1 DEF enforce
  <2>6. GiveUp(p) \in {"undo", "refused"}
    BY DEF GiveUp
  <2>7. QED
    BY <2>3, <2>4, <2>5, <2>6, TurnOwn
<1>10. CASE OpenCommit(p)
  <2>1. /\ Becomes(p, "open", Ns(p), proc[p].key, proc[p].victim, proc[p].failed)
        /\ entries'[p] = entries[p]
        /\ pins'[p] = pins[p]
        /\ tmp'[Ns(p)] = tmp[Ns(p)]
        /\ file'[Ns(p)] = file[Ns(p)]
    BY <1>0, <1>a, <1>10 DEF OpenCommit, Becomes, ProcRecord, TypeOK, FilesWhole, Goto
  <2>2. VictimOut(p)'
    BY <1>0, <1>a, <1>10, <2>1 DEF VictimOut, Becomes, OpenCommit
  <2>3. WriteOwned(p)'
    BY <1>0, <1>a, <1>10, <2>1 DEF WriteOwned, Becomes, Writing, Locked, OpenCommit
  <2>4. Indexed(p)'
    BY <1>0, <1>a, <1>10, <2>1 DEF Indexed, Becomes, Serves, OpenCommit
  <2>5. QED
    BY <2>2, <2>3, <2>4
<1>11. CASE OpenUndo(p)
  <2>1. /\ Becomes(p, "off", "none", NoKey, NoKey, FALSE)
        /\ entries'[p] = {}
        /\ pins'[p] = pins[p]
    BY <1>0, <1>a, <1>11 DEF OpenUndo, Becomes, ProcRecord, TypeOK, FilesWhole, Off
  <2>2. VictimOut(p)'
    BY <1>0, <1>a, <1>11, <2>1 DEF VictimOut, Becomes, OpenUndo
  <2>3. WriteOwned(p)'
    BY <1>0, <1>a, <1>11, <2>1 DEF WriteOwned, Becomes, Writing, Locked, OpenUndo
  <2>4. Indexed(p)'
    BY <1>0, <1>a, <1>11, <2>1 DEF Indexed, Becomes, Serves, OpenUndo
  <2>5. QED
    BY <2>2, <2>3, <2>4
<1>12. CASE WriteRoom(p)
  <2>1. UNCHANGED <<tmp, file, nslock, pins>> /\ Pc(p) = "room" /\ proc[p].victim = NoKey
    BY <1>12 DEF WriteRoom
  <2>2. EvictOwn(p) \/ \E c \in {"quota", GiveUp(p)} : Goto(p, c) /\ UNCHANGED entries
    BY <1>12 DEF WriteRoom, MakeRoom
  <2>3. GiveUp(p) = "refused"
    BY <2>1 DEF GiveUp
  <2>4. QED
    BY <2>1, <2>2, <2>3, TurnOwn
<1>13. CASE WriteQuota(p)
  <2>1. enforce(p, "quota", "temp", Size[proc[p].key], 1, 0)
    BY <1>13 DEF WriteQuota
  <2>2. Ns(p) \in Namespaces
    BY <1>0, <2>1 DEF enforce
  <2>3. tmp'[Ns(p)] = tmp[Ns(p)] /\ file'[Ns(p)] = file[Ns(p)] /\ UNCHANGED <<nslock, pins>>
    BY <1>0, <2>1, <2>2, EnforceFiles, EnforceOthers
  <2>4. \/ UNCHANGED <<proc, entries>> \/ EvictOwn(p)
        \/ \E c \in {"temp", GiveUp(p)} : Goto(p, c) /\ UNCHANGED entries
    BY <2>1 DEF enforce
  <2>5. Pc(p) = "quota" /\ proc[p].victim = NoKey
    BY <2>1 DEF enforce
  <2>6. GiveUp(p) \in {"undo", "refused"}
    BY DEF GiveUp
  <2>7. QED
    BY <2>3, <2>4, <2>5, <2>6, TurnOwn
<1>14. CASE WriteRefused(p)
  <2>1. /\ Becomes(p, "open", Ns(p), NoKey, proc[p].victim, proc[p].failed)
        /\ entries'[p] = entries[p]
        /\ pins'[p] = pins[p]
        /\ tmp'[Ns(p)] = tmp[Ns(p)]
        /\ file'[Ns(p)] = file[Ns(p)]
    BY <1>0, <1>a, <1>14 DEF WriteRefused, Becomes, ProcRecord, TypeOK, FilesWhole
  <2>2. VictimOut(p)'
    BY <1>0, <1>a, <1>14, <2>1 DEF VictimOut, Becomes, WriteRefused
  <2>3. WriteOwned(p)'
    BY <1>0, <1>a, <1>14, <2>1 DEF WriteOwned, Becomes, Writing, Locked, WriteRefused
  <2>4. Indexed(p)'
    BY <1>0, <1>a, <1>14, <2>1 DEF Indexed, Becomes, Serves, WriteRefused
  <2>5. QED
    BY <2>2, <2>3, <2>4
<1>15. CASE WriteTemp(p)
  <2>1. /\ UNCHANGED <<file, nslock, entries, pins>> /\ proc[p].victim = NoKey /\ Ns(p) \in Namespaces
        /\ proc[p].key \in Keys \ entries[p] /\ ~proc[p].failed
    BY <1>0, <1>15 DEF WriteTemp, WriteOwned, Writing
  <2>2. PICK c \in {"fill", "sync", "rename"}, st \in {"part", "whole", "synced"} :
           /\ <<c, st>> \in {<<"fill", "part">>, <<"sync", "whole">>, <<"rename", "synced">>}
           /\ Goto(p, c) /\ SetTmp(p, st)
    BY <1>15 DEF WriteTemp
  <2>3. /\ Becomes(p, c, Ns(p), proc[p].key, NoKey, FALSE)
        /\ tmp'[Ns(p)] = [key |-> proc[p].key, state |-> st]
    BY <1>0, <1>a, <2>1, <2>2 DEF Becomes, Goto, SetTmp, ProcRecord, FilesWhole
  <2>4. Serves(p) /\ Pc(p) # "off"
    BY <1>15 DEF WriteTemp, Serves
  <2>5. QED
    BY <1>0, <2>1, <2>2, <2>3, <2>4 DEF VictimOut, WriteOwned, Indexed, Becomes, Serves, Writing, Locked
<1>16. CASE WriteRename(p)
  <2>0. /\ tmp[Ns(p)].state = "synced" /\ proc[p].key \in Keys \ entries[p] /\ Ns(p) \in Namespaces
        /\ ~proc[p].failed /\ proc[p].victim = NoKey /\ Serves(p)
    BY <1>0, <1>16 DEF WriteRename, WriteOwned, Writing, Serves
  <2>1. /\ Becomes(p, "dirsync", Ns(p), proc[p].key, NoKey, FALSE) /\ UNCHANGED <<nslock, entries, pins>>
        /\ tmp'[Ns(p)] = NoTmp
    BY <1>0, <1>a, <1>16, <2>0 DEF WriteRename, Becomes, ProcRecord, Goto, FilesWhole
  <2>2. \A k \in Keys : file'[Ns(p)][k] = IF k = proc[p].key THEN "synced" ELSE file[Ns(p)][k]
    BY <1>0, <1>16, <2>0 DEF WriteRename, TypeOK
  <2>3. VictimOut(p)' /\ WriteOwned(p)'
    BY <2>0, <2>1, <2>2 DEF VictimOut, WriteOwned, Becomes, Writing, Locked
  <2>4. Indexed(p)'
    BY <1>0, <1>a, <2>0, <2>1, <2>2 DEF Indexed, Becomes, Serves
  <2>5. QED
    BY <2>3, <2>4
<1>17. CASE WriteSync(p)
  <2>1. /\ Becomes(p, "index", Ns(p), proc[p].key, proc[p].victim, proc[p].failed)
        /\ entries'[p] = entries[p]
        /\ pins'[p] = pins[p]
        /\ tmp'[Ns(p)] = tmp[Ns(p)]
        /\ file'[Ns(p)] = file[Ns(p)]
    BY <1>0, <1>a, <1>17 DEF WriteSync, Becomes, ProcRecord, TypeOK, FilesWhole, Goto
  <2>2. VictimOut(p)'
    BY <1>0, <1>a, <1>17, <2>1 DEF VictimOut, Becomes, WriteSync
  <2>3. WriteOwned(p)'
    BY <1>0, <1>a, <1>17, <2>1 DEF WriteOwned, Becomes, Writing, Locked, WriteSync
  <2>4. Indexed(p)'
    BY <1>0, <1>a, <1>17, <2>1 DEF Indexed, Becomes, Serves, WriteSync
  <2>5. QED
    BY <2>2, <2>3, <2>4
<1>18. CASE WriteIndex(p)
  <2>0. nslock[Ns(p)] = p /\ Valid(file[Ns(p)][proc[p].key]) /\ Pc(p) # "off" /\ Serves(p)
    BY <1>0, <1>18 DEF WriteIndex, StoreInv, LocksHeld, Locked, Writing, WriteOwned, Valid, Serves
  <2>1. /\ Becomes(p, "open", Ns(p), NoKey, proc[p].victim, proc[p].failed)
        /\ entries'[p] = entries[p] \cup {proc[p].key}
        /\ pins'[p] = pins[p]
        /\ tmp'[Ns(p)] = tmp[Ns(p)]
        /\ file'[Ns(p)] = file[Ns(p)]
    BY <1>0, <1>a, <1>18 DEF WriteIndex, Becomes, ProcRecord, TypeOK, FilesWhole
  <2>2. VictimOut(p)'
    BY <1>0, <1>a, <1>18, <2>0, <2>1 DEF VictimOut, Becomes, WriteIndex
  <2>3. WriteOwned(p)'
    BY <1>0, <1>a, <1>18, <2>0, <2>1 DEF WriteOwned, Becomes, Writing, Locked, WriteIndex
  <2>4. Indexed(p)'
    BY <1>0, <1>a, <1>18, <2>0, <2>1 DEF Indexed, Becomes, Serves, WriteIndex
  <2>5. QED
    BY <2>2, <2>3, <2>4
<1>19. CASE WriteFails(p)
  <2>0. /\ Pc(p) \in Writing /\ Ns(p) \in Namespaces /\ proc[p].victim = NoKey
        /\ proc[p].key \in Keys \ entries[p] /\ Serves(p)
    BY <1>0, <1>19 DEF WriteFails, WriteOwned, VictimOut, Writing, Serves
  <2>1. PICK cleaned \in BOOLEAN :
           /\ cleaned => tmp' = [tmp EXCEPT ![Ns(p)] = NoTmp]
           /\ proc' = [proc EXCEPT ![p].pc = "open", ![p].key = NoKey, ![p].failed = ~cleaned]
    BY <1>19 DEF WriteFails
  <2>2. /\ Becomes(p, "open", Ns(p), NoKey, NoKey, ~cleaned) /\ UNCHANGED <<nslock, entries, pins>>
        /\ cleaned => tmp'[Ns(p)] = NoTmp
    BY <1>0, <1>a, <1>19, <2>0, <2>1 DEF WriteFails, Becomes, ProcRecord, FilesWhole
  <2>3. \A k \in entries[p] : file'[Ns(p)][k] = file[Ns(p)][k]
    <3>1. file' = file \/ file' = [file EXCEPT ![Ns(p)][proc[p].key] = "none"]
      BY <1>19 DEF WriteFails
    <3>2. QED
      BY <1>0, <1>a, <2>0, <3>1 DEF TypeOK
  <2>4. VictimOut(p)' /\ WriteOwned(p)'
    BY <2>2 DEF VictimOut, WriteOwned, Becomes, Writing, Locked
  <2>5. Indexed(p)'
    BY <1>0, <2>2, <2>3 DEF Indexed, Becomes, Serves
  <2>6. QED
    BY <2>4, <2>5
<1>20. CASE close(p)
  <2>1. /\ Becomes(p, "off", "none", NoKey, NoKey, FALSE)
        /\ entries'[p] = {}
        /\ pins'[p] = pins[p]
    BY <1>0, <1>a, <1>20 DEF close, Becomes, ProcRecord, TypeOK, FilesWhole, Off
  <2>2. VictimOut(p)'
    BY <1>0, <1>a, <1>20, <2>1 DEF VictimOut, Becomes, close
  <2>3. WriteOwned(p)'
    BY <1>0, <1>a, <1>20, <2>1 DEF WriteOwned, Becomes, Writing, Locked, close
  <2>4. Indexed(p)'
    BY <1>0, <1>a, <1>20, <2>1 DEF Indexed, Becomes, Serves, close
  <2>5. QED
    BY <2>2, <2>3, <2>4
<1>21. CASE Crash(p)
  <2>1. /\ Becomes(p, "off", "none", NoKey, NoKey, FALSE)
        /\ entries'[p] = {}
        /\ pins'[p] = [k \in Keys |-> 0]
    BY <1>0, <1>a, <1>21 DEF Crash, Becomes, ProcRecord, TypeOK, FilesWhole, Off
  <2>2. VictimOut(p)'
    BY <1>0, <1>a, <1>21, <2>1 DEF VictimOut, Becomes, Crash
  <2>3. WriteOwned(p)'
    BY <1>0, <1>a, <1>21, <2>1 DEF WriteOwned, Becomes, Writing, Locked, Crash
  <2>4. Indexed(p)'
    BY <1>0, <1>a, <1>21, <2>1 DEF Indexed, Becomes, Serves, Crash
  <2>5. QED
    BY <2>2, <2>3, <2>4
<1>22. ASSUME NEW n \in Namespaces, NEW l \in Limits, OpenBegin(p, n, l)
      PROVE  CallSound(p)'
  <2>1. /\ \E c \in {"newdir", "lockns"} : Becomes(p, c, n, NoKey, NoKey, FALSE)
        /\ UNCHANGED <<entries, pins>> /\ Pc(p) = "off" /\ entries[p] = {}
    BY <1>0, <1>a, <1>22 DEF OpenBegin, Becomes, Off, ProcRecord
  <2>2. QED
    BY <1>0, <2>1 DEF VictimOut, WriteOwned, Indexed, Becomes, Writing, Locked, Serves
<1>23. ASSUME NEW k \in Keys, WriteBegin(p, k)
      PROVE  CallSound(p)'
  <2>1. /\ Becomes(p, "room", Ns(p), k, proc[p].victim, proc[p].failed)
        /\ entries'[p] = entries[p]
        /\ pins'[p] = pins[p]
        /\ tmp'[Ns(p)] = tmp[Ns(p)]
        /\ file'[Ns(p)] = file[Ns(p)]
    BY <1>0, <1>a, <1>23 DEF WriteBegin, Becomes, ProcRecord, TypeOK, FilesWhole
  <2>2. VictimOut(p)'
    BY <1>0, <1>a, <1>23, <2>1 DEF VictimOut, Becomes, WriteBegin
  <2>3. WriteOwned(p)'
    BY <1>0, <1>a, <1>23, <2>1 DEF WriteOwned, Becomes, Writing, Locked, WriteBegin
  <2>4. Indexed(p)'
    BY <1>0, <1>a, <1>23, <2>1 DEF Indexed, Becomes, Serves, WriteBegin
  <2>5. QED
    BY <2>2, <2>3, <2>4
<1>24. ASSUME NEW k \in Keys, pin(p, k)
      PROVE  CallSound(p)'
  <2>1. \A j \in Keys : pins'[p][j] > 0 => pins[p][j] > 0 \/ j = k
    BY <1>0, <1>24 DEF pin, TypeOK
  <2>2. \A j \in Keys \ {k} : pins'[p][j] = pins[p][j]
    BY <1>0, <1>24 DEF pin, TypeOK
  <2>3. QED
    BY <1>0, <1>24, <2>1, <2>2 DEF pin, VictimOut, WriteOwned, Indexed, Writing, Locked, Serves
<1>25. ASSUME NEW k \in Keys, unpin(p, k)
      PROVE  CallSound(p)'
  <2>1. \A j \in Keys : pins'[p][j] > 0 => pins[p][j] > 0
    BY <1>0, <1>25 DEF unpin, TypeOK
  <2>2. \A j \in Keys : pins[p][j] = 0 => pins'[p][j] = 0
    BY <1>0, <1>25 DEF unpin, TypeOK
  <2>3. QED
    BY <1>0, <1>b, <1>25, <2>1, <2>2 DEF unpin, VictimOut, WriteOwned, Indexed, Writing, Locked, Serves
<1>26. QED
  BY <1>1, <1>2, <1>3, <1>4, <1>5, <1>6, <1>7, <1>8, <1>9, <1>10, <1>11, <1>12, <1>13,
     <1>14, <1>15, <1>16, <1>17, <1>18, <1>19, <1>20, <1>21, <1>22, <1>23, <1>24, <1>25 DEF Step, Inside
(* Every step is one process's, a stop of the machine or no step at all.    *)
LEMMA NextCases ==
  ASSUME [Next]_vars
  PROVE  (\E p \in Procs : Step(p)) \/ Outage \/ UNCHANGED vars
BY DEF Next, Step

(* Calls, indexes and pins stay sound.                                      *)
LEMMA CallsSoundStep == StoreInv /\ [Next]_vars => VictimsOut' /\ WritesOwned' /\ IndexPinned'
<1> SUFFICES ASSUME StoreInv, [Next]_vars PROVE \A s \in Procs : CallSound(s)'
  BY DEF CallSound, VictimsOut, WritesOwned, IndexPinned
<1>1. ASSUME NEW p \in Procs, Step(p), NEW s \in Procs PROVE CallSound(s)'
  <2>1. CASE s = p
    BY <1>1, <2>1, OwnSound
  <2>2. CASE s # p
    <3>1. OtherKept(s)
      BY <1>1, <2>2, OthersKept
    <3>2. CallSound(s) /\ (Pc(s) \in Locked => Has(s)) /\ (Pc(s) # "off" => Ns(s) \in Namespaces)
      BY Zenon DEF StoreInv, CallSound, VictimsOut, WritesOwned, IndexPinned, LocksHeld, Has, Locked, Writing
    <3>3. VictimOut(s)'
      BY <3>1, <3>2 DEF OtherKept, CallSound, VictimOut, Locked, Writing, Pc, Ns
    <3>4. WriteOwned(s)'
      BY <3>1, <3>2 DEF OtherKept, CallSound, WriteOwned, Locked, Writing, Pc, Ns
    <3>5. Indexed(s)'
      BY <3>1, <3>2 DEF OtherKept, CallSound, Indexed, Has, Serves, Pc, Ns
    <3>6. QED
      BY <3>3, <3>4, <3>5 DEF CallSound
  <2>3. QED
    BY <2>1, <2>2
<1>2. ASSUME Outage, NEW s \in Procs PROVE CallSound(s)'
  BY <1>2 DEF Outage, Off, CallSound, VictimOut, WriteOwned, Indexed, Serves, Writing, Locked, Pc, Ns
<1>3. ASSUME UNCHANGED vars, NEW s \in Procs PROVE CallSound(s)'
  <2>1. CallSound(s)
    BY DEF StoreInv, CallSound, VictimsOut, WritesOwned, IndexPinned
  <2>2. QED
    BY <1>3, <2>1 DEF vars, disk, locks, CallSound, VictimOut, WriteOwned, Indexed, Serves, Pc, Ns
<1>4. QED
  BY <1>1, <1>2, <1>3, NextCases

-----------------------------------------------------------------------------
(* Files.                                                                  *)
FileGone(n, k) ==
    file' = [file EXCEPT ![n][k] = "none"]

FilesMove(p) ==
    \/ UNCHANGED file
    \/ \E n \in Namespaces, k \in Keys : FileGone(n, k)
    \/ WriteRename(p)

(* One record goes or gets its name at a time. *)
LEMMA FileMoves ==
  ASSUME StoreInv, NEW p \in Procs, Step(p)
  PROVE  FilesMove(p)
<1> USE DEF At, Pc, disk, locks, FilesMove, FileGone
<1>0. /\ TypeOK /\ FilesWhole
      /\ Pc(p) # "off" => Ns(p) \in Namespaces
      /\ proc[p].victim # NoKey => proc[p].victim \in Keys /\ Pc(p) # "off"
      /\ Pc(p) \in Writing => proc[p].key \in Keys
  BY ZenonT(30) DEF StoreInv, LocksHeld, TypeOK, ProcRecord, VictimsOut, VictimOut, WritesOwned, WriteOwned
<1> USE DEF Writing, Finals
<1>1. CASE EvictUnlink(p)
  BY <1>0, <1>1 DEF EvictUnlink
<1>2. CASE EvictFails(p)
  BY <1>0, <1>2 DEF EvictFails
<1>3. CASE OpenNewDir(p)
  <2>1. UNCHANGED file \/ \E v \in Victims(p) : FileGone(v[1], v[2])
    <3>1. enforce(p, "newdir", "mkdir", 0, 0, 1)
      BY <1>3 DEF OpenNewDir
    <3>2. \A v \in Victims(p) : v = <<v[1], v[2]>>
      BY DEF Victims
    <3>3. QED
      BY <3>1, <3>2 DEF enforce, FileGone
  <2>2. QED
    BY <2>1 DEF Victims, Inactive
<1>4. CASE OpenMkdir(p)
  BY <1>0, <1>4 DEF OpenMkdir
<1>5. CASE OpenLock(p)
  BY <1>0, <1>5 DEF OpenLock
<1>6. CASE RecoverTemp(p)
  BY <1>0, <1>6 DEF RecoverTemp
<1>7. CASE RecoverRecord(p)
  BY <1>0, <1>7 DEF RecoverRecord
<1>8. CASE RecoverEnds(p)
  BY <1>0, <1>8 DEF RecoverEnds
<1>9. CASE OpenEnforce(p)
  <2>1. UNCHANGED file \/ \E v \in Victims(p) : FileGone(v[1], v[2])
    <3>1. enforce(p, "enforce", "commit", 0, 0, 0)
      BY <1>9 DEF OpenEnforce
    <3>2. \A v \in Victims(p) : v = <<v[1], v[2]>>
      BY DEF Victims
    <3>3. QED
      BY <3>1, <3>2 DEF enforce, FileGone
  <2>2. QED
    BY <2>1 DEF Victims, Inactive
<1>10. CASE OpenCommit(p)
  BY <1>0, <1>10 DEF OpenCommit
<1>11. CASE OpenUndo(p)
  BY <1>0, <1>11 DEF OpenUndo
<1>12. CASE WriteRoom(p)
  BY <1>0, <1>12 DEF WriteRoom
<1>13. CASE WriteQuota(p)
  <2>1. UNCHANGED file \/ \E v \in Victims(p) : FileGone(v[1], v[2])
    <3>1. enforce(p, "quota", "temp", Size[proc[p].key], 1, 0)
      BY <1>13 DEF WriteQuota
    <3>2. \A v \in Victims(p) : v = <<v[1], v[2]>>
      BY DEF Victims
    <3>3. QED
      BY <3>1, <3>2 DEF enforce, FileGone
  <2>2. QED
    BY <2>1 DEF Victims, Inactive
<1>14. CASE WriteRefused(p)
  BY <1>0, <1>14 DEF WriteRefused
<1>15. CASE WriteTemp(p)
  BY <1>0, <1>15 DEF WriteTemp
<1>16. CASE WriteRename(p)
  BY <1>16
<1>17. CASE WriteSync(p)
  BY <1>0, <1>17 DEF WriteSync
<1>18. CASE WriteIndex(p)
  BY <1>0, <1>18 DEF WriteIndex
<1>19. CASE WriteFails(p)
  BY <1>0, <1>19 DEF WriteFails
<1>20. CASE close(p)
  BY <1>0, <1>20 DEF close
<1>21. CASE Crash(p)
  BY <1>0, <1>21 DEF Crash
<1>22. ASSUME NEW n \in Namespaces, NEW l \in Limits, OpenBegin(p, n, l)
      PROVE  FilesMove(p)
  BY <1>0, <1>22 DEF OpenBegin
<1>23. ASSUME NEW k \in Keys, WriteBegin(p, k)
      PROVE  FilesMove(p)
  BY <1>0, <1>23 DEF WriteBegin
<1>24. ASSUME NEW k \in Keys, pin(p, k)
      PROVE  FilesMove(p)
  BY <1>0, <1>24 DEF pin
<1>25. ASSUME NEW k \in Keys, unpin(p, k)
      PROVE  FilesMove(p)
  BY <1>0, <1>25 DEF unpin
<1>26. QED
  BY <1>1, <1>2, <1>3, <1>4, <1>5, <1>6, <1>7, <1>8, <1>9, <1>10, <1>11, <1>12, <1>13,
     <1>14, <1>15, <1>16, <1>17, <1>18, <1>19, <1>20, <1>21, <1>22, <1>23, <1>24, <1>25 DEF Step, Inside
(* The third part of FilesWhole.                                           *)
TmpTypes == tmp \in [Namespaces -> {NoTmp} \cup [key : Keys, state : {"part", "whole", "synced"}]]

(* A temporary file has the name of a key and a state. *)
LEMMA TmpMoves ==
  ASSUME StoreInv, NEW p \in Procs, Step(p)
  PROVE  TmpTypes'
<1> USE DEF disk, locks, TmpTypes
<1>0. /\ tmp \in [Namespaces -> {NoTmp} \cup [key : Keys, state : {"part", "whole", "synced"}]]
      /\ Pc(p) # "off" => Ns(p) \in Namespaces
      /\ Pc(p) \in Writing => proc[p].key \in Keys
  BY DEF StoreInv, LocksHeld, FilesWhole, WritesOwned, WriteOwned
<1> USE DEF At, Pc, Writing, SetTmp
<1>1. CASE EvictUnlink(p)
  BY <1>0, <1>1 DEF EvictUnlink
<1>2. CASE EvictFails(p)
  BY <1>0, <1>2 DEF EvictFails
<1>3. CASE OpenNewDir(p)
  <2>1. enforce(p, "newdir", "mkdir", 0, 0, 1)
    BY <1>3 DEF OpenNewDir
  <2>2. tmp' = ScannedTmp(p)
    BY <2>1 DEF enforce
  <2>3. QED
    BY <1>0, <2>2 DEF ScannedTmp
<1>4. CASE OpenMkdir(p)
  BY <1>0, <1>4 DEF OpenMkdir
<1>5. CASE OpenLock(p)
  BY <1>0, <1>5 DEF OpenLock
<1>6. CASE RecoverTemp(p)
  BY <1>0, <1>6 DEF RecoverTemp
<1>7. CASE RecoverRecord(p)
  BY <1>0, <1>7 DEF RecoverRecord
<1>8. CASE RecoverEnds(p)
  BY <1>0, <1>8 DEF RecoverEnds
<1>9. CASE OpenEnforce(p)
  <2>1. enforce(p, "enforce", "commit", 0, 0, 0)
    BY <1>9 DEF OpenEnforce
  <2>2. tmp' = ScannedTmp(p)
    BY <2>1 DEF enforce
  <2>3. QED
    BY <1>0, <2>2 DEF ScannedTmp
<1>10. CASE OpenCommit(p)
  BY <1>0, <1>10 DEF OpenCommit
<1>11. CASE OpenUndo(p)
  BY <1>0, <1>11 DEF OpenUndo
<1>12. CASE WriteRoom(p)
  BY <1>0, <1>12 DEF WriteRoom
<1>13. CASE WriteQuota(p)
  <2>1. enforce(p, "quota", "temp", Size[proc[p].key], 1, 0)
    BY <1>13 DEF WriteQuota
  <2>2. tmp' = ScannedTmp(p)
    BY <2>1 DEF enforce
  <2>3. QED
    BY <1>0, <2>2 DEF ScannedTmp
<1>14. CASE WriteRefused(p)
  BY <1>0, <1>14 DEF WriteRefused
<1>15. CASE WriteTemp(p)
  BY <1>0, <1>15 DEF WriteTemp
<1>16. CASE WriteRename(p)
  BY <1>0, <1>16 DEF WriteRename
<1>17. CASE WriteSync(p)
  BY <1>0, <1>17 DEF WriteSync
<1>18. CASE WriteIndex(p)
  BY <1>0, <1>18 DEF WriteIndex
<1>19. CASE WriteFails(p)
  BY <1>0, <1>19 DEF WriteFails
<1>20. CASE close(p)
  BY <1>0, <1>20 DEF close
<1>21. CASE Crash(p)
  BY <1>0, <1>21 DEF Crash
<1>22. ASSUME NEW n \in Namespaces, NEW l \in Limits, OpenBegin(p, n, l)
      PROVE  TmpTypes'
  BY <1>0, <1>22 DEF OpenBegin
<1>23. ASSUME NEW k \in Keys, WriteBegin(p, k)
      PROVE  TmpTypes'
  BY <1>0, <1>23 DEF WriteBegin
<1>24. ASSUME NEW k \in Keys, pin(p, k)
      PROVE  TmpTypes'
  BY <1>0, <1>24 DEF pin
<1>25. ASSUME NEW k \in Keys, unpin(p, k)
      PROVE  TmpTypes'
  BY <1>0, <1>25 DEF unpin
<1>26. QED
  BY <1>1, <1>2, <1>3, <1>4, <1>5, <1>6, <1>7, <1>8, <1>9, <1>10, <1>11, <1>12, <1>13,
     <1>14, <1>15, <1>16, <1>17, <1>18, <1>19, <1>20, <1>21, <1>22, <1>23, <1>24, <1>25 DEF Step, Inside

(* What a directory may come back to grows by what is changed in it, or is   *)
(* settled.                                                                *)
WasMove == \A n \in Namespaces : \A k \in Keys : was'[n][k] \subseteq was[n][k] \cup {file[n][k], "temp"}

PastMove == PastTypes' /\ WasMove

Settled(p) == OpenMkdir(p) \/ OpenCommit(p) \/ WriteSync(p)

(* Every step keeps the past, adds to it, or settles it. *)
LEMMA PastCases ==
  ASSUME NEW p \in Procs, Step(p)
  PROVE  /\ Unsynced \/ UNCHANGED <<was, adrift, file>> \/ Settled(p)
         /\ UNCHANGED lapsed \/ OpenCommit(p)
<1> DEFINE Goal == /\ Unsynced \/ UNCHANGED <<was, adrift, file>> \/ Settled(p)
                   /\ UNCHANGED lapsed \/ OpenCommit(p)
<1> USE DEF disk
<1>1. CASE EvictUnlink(p)
  BY <1>1 DEF EvictUnlink
<1>2. CASE EvictFails(p)
  BY <1>2 DEF EvictFails
<1>3. CASE OpenNewDir(p)
  BY <1>3 DEF OpenNewDir, enforce
<1>4. CASE OpenMkdir(p)
  BY <1>4 DEF OpenMkdir, Settled
<1>5. CASE OpenLock(p)
  BY <1>5 DEF OpenLock
<1>6. CASE RecoverTemp(p)
  BY <1>6 DEF RecoverTemp
<1>7. CASE RecoverRecord(p)
  BY <1>7 DEF RecoverRecord
<1>8. CASE RecoverEnds(p)
  BY <1>8 DEF RecoverEnds
<1>9. CASE OpenEnforce(p)
  BY <1>9 DEF OpenEnforce, enforce
<1>10. CASE OpenCommit(p)
  BY <1>10 DEF OpenCommit, Settled
<1>11. CASE OpenUndo(p)
  BY <1>11 DEF OpenUndo
<1>12. CASE WriteRoom(p)
  BY <1>12 DEF WriteRoom
<1>13. CASE WriteQuota(p)
  BY <1>13 DEF WriteQuota, enforce
<1>14. CASE WriteRefused(p)
  BY <1>14 DEF WriteRefused
<1>15. CASE WriteTemp(p)
  BY <1>15 DEF WriteTemp
<1>16. CASE WriteRename(p)
  BY <1>16 DEF WriteRename
<1>17. CASE WriteSync(p)
  BY <1>17 DEF WriteSync, Settled
<1>18. CASE WriteIndex(p)
  BY <1>18 DEF WriteIndex
<1>19. CASE WriteFails(p)
  BY <1>19 DEF WriteFails
<1>20. CASE close(p)
  BY <1>20 DEF close
<1>21. CASE Crash(p)
  BY <1>21 DEF Crash
<1>22. ASSUME NEW n \in Namespaces, NEW l \in Limits, OpenBegin(p, n, l)
      PROVE  Goal
  BY <1>22 DEF OpenBegin
<1>23. ASSUME NEW k \in Keys, WriteBegin(p, k)
      PROVE  Goal
  BY <1>23 DEF WriteBegin
<1>24. ASSUME NEW k \in Keys, pin(p, k)
      PROVE  Goal
  BY <1>24 DEF pin
<1>25. ASSUME NEW k \in Keys, unpin(p, k)
      PROVE  Goal
  BY <1>25 DEF unpin
<1>26. QED
  BY <1>1, <1>2, <1>3, <1>4, <1>5, <1>6, <1>7, <1>8, <1>9, <1>10, <1>11, <1>12, <1>13,
     <1>14, <1>15, <1>16, <1>17, <1>18, <1>19, <1>20, <1>21, <1>22, <1>23, <1>24, <1>25 DEF Step, Inside

(* The past keeps its type. *)
LEMMA PastMoves ==
  ASSUME StoreInv, NEW p \in Procs, Step(p)
  PROVE  PastMove
<1>0. /\ was \in [Namespaces -> [Keys -> SUBSET (FileStates \cup {"temp"})]]
      /\ adrift \subseteq Namespaces /\ lapsed \in BOOLEAN
      /\ file \in [Namespaces -> [Keys -> FileStates]]
      /\ Pc(p) # "off" => Ns(p) \in Namespaces
  BY DEF StoreInv, TypeOK, LocksHeld
<1>1. lapsed' \in BOOLEAN
  BY <1>0, PastCases DEF OpenCommit
<1>2. CASE Unsynced
  <2>1. \A n \in Namespaces, k \in Keys :
           /\ was'[n][k] \subseteq was[n][k] \cup {file[n][k], "temp"}
           /\ was'[n][k] \subseteq FileStates \cup {"temp"}
    BY <1>0, <1>2 DEF Unsynced
  <2>2. was' \in [Namespaces -> [Keys -> SUBSET (FileStates \cup {"temp"})]]
    <3>1. was' = [n \in Namespaces |-> [k \in Keys |-> was'[n][k]]]
      BY <1>2 DEF Unsynced
    <3>2. QED
      BY <2>1, <3>1
  <2>3. adrift' \subseteq Namespaces
    BY <1>0, <1>2 DEF Unsynced
  <2>4. QED
    BY <1>1, <2>1, <2>2, <2>3 DEF PastMove, PastTypes, WasMove
<1>3. CASE UNCHANGED <<was, adrift>>
  BY <1>0, <1>1, <1>3 DEF PastMove, PastTypes, WasMove
<1>4. CASE OpenMkdir(p) \/ WriteSync(p)
  <2>1. /\ Ns(p) \in Namespaces /\ was' = [was EXCEPT ![Ns(p)] = [k \in Keys |-> {}]]
        /\ adrift' \subseteq adrift \cup {Ns(p)}
    BY <1>0, <1>4 DEF OpenMkdir, WriteSync, At, Pc
  <2>2. \A n \in Namespaces : was'[n] = IF n = Ns(p) THEN [k \in Keys |-> {}] ELSE was[n]
    BY <1>0, <2>1
  <2>3. QED
    BY <1>0, <1>1, <2>1, <2>2 DEF PastMove, PastTypes, WasMove
<1>5. CASE OpenCommit(p)
  <2>1. CASE limits = Lim(p)
    BY <1>0, <1>1, <1>5, <2>1 DEF OpenCommit, PastMove, PastTypes, WasMove
  <2>2. CASE limits # Lim(p)
    <3>1. /\ adrift' = {}
          /\ was' = [n \in Namespaces |-> [k \in Keys |-> IF dir[n] = "none" THEN {} ELSE was[n][k]]]
      BY <1>5, <2>2 DEF OpenCommit
    <3>2. QED
      BY <1>0, <1>1, <3>1 DEF PastMove, PastTypes, WasMove
  <2>3. QED
    BY <2>1, <2>2
<1>6. QED
  BY <1>2, <1>3, <1>4, <1>5, PastCases DEF Settled

(* The past keeps its type over every step. *)
LEMMA PastTypesStep == StoreInv /\ [Next]_vars => PastTypes'
<1> SUFFICES ASSUME StoreInv, [Next]_vars PROVE PastTypes'
  OBVIOUS
<1>1. ASSUME NEW p \in Procs, Step(p) PROVE PastTypes'
  BY <1>1, PastMoves DEF PastMove
<1>2. CASE Outage
  BY <1>2 DEF Outage, PastTypes
<1>3. CASE UNCHANGED vars
  BY <1>3 DEF StoreInv, TypeOK, PastTypes, vars, disk
<1>4. QED
  BY <1>1, <1>2, <1>3, NextCases

(* No record is torn, none has been, so none comes back torn.               *)
LEMMA FilesWholeStep == StoreInv /\ [Next]_vars => FilesWhole'
<1> SUFFICES ASSUME StoreInv, [Next]_vars PROVE FilesWhole'
  OBVIOUS
<1>0. FilesWhole /\ file \in [Namespaces -> [Keys -> FileStates]]
  BY DEF StoreInv, TypeOK
<1>1. ASSUME NEW p \in Procs, Step(p) PROVE FilesWhole'
  <2>1. TmpTypes' /\ \A n \in Namespaces : \A k \in Keys :
                         was'[n][k] \subseteq {"none", "synced", "alien", "temp"}
    <3>1. TmpTypes' /\ WasMove
      BY <1>1, TmpMoves, PastMoves DEF PastMove
    <3>2. QED
      BY <1>0, <3>1 DEF FilesWhole, WasMove
  <2>2. CASE UNCHANGED file
    BY <1>0, <2>1, <2>2 DEF FilesWhole, TmpTypes
  <2>3. ASSUME NEW n \in Namespaces, NEW k \in Keys, FileGone(n, k) PROVE FilesWhole'
    <3>1. \A m \in Namespaces, j \in Keys :
             file'[m][j] = IF <<m, j>> = <<n, k>> THEN "none" ELSE file[m][j]
      BY <1>0, <2>3 DEF FileGone
    <3>2. QED
      BY <1>0, <2>1, <3>1 DEF FilesWhole, TmpTypes
  <2>4. CASE WriteRename(p)
    <3>1. /\ Ns(p) \in Namespaces /\ proc[p].key \in Keys
          /\ tmp[Ns(p)].state = "synced"
      <4>1. Pc(p) = "rename"
        BY <2>4 DEF WriteRename, At, Pc
      <4>2. WriteOwned(p) /\ Ns(p) \in Namespaces
        BY <4>1 DEF StoreInv, LocksHeld, WritesOwned
      <4>3. QED
        BY <4>1, <4>2 DEF WriteOwned, Writing
    <3>2. file' = [file EXCEPT ![Ns(p)][proc[p].key] = "synced"]
      BY <2>4, <3>1 DEF WriteRename
    <3>3. \A m \in Namespaces, j \in Keys :
             file'[m][j] = IF <<m, j>> = <<Ns(p), proc[p].key>> THEN "synced" ELSE file[m][j]
      BY <1>0, <3>1, <3>2
    <3>4. QED
      BY <1>0, <2>1, <3>1, <3>2, <3>3 DEF FilesWhole, TmpTypes
  <2>5. QED
    BY <1>1, <2>2, <2>3, <2>4, FileMoves DEF FilesMove
<1>2. CASE Outage
  <2>1. PICK V \in SUBSET adrift, B \in SUBSET Past : file' = LeftFile(V, B) /\ tmp' = LeftTmp(V, B)
    BY <1>2 DEF Outage
  <2>2. ASSUME NEW n \in Namespaces, NEW k \in Keys PROVE file'[n][k] \in {"none", "synced", "alien"}
    <3>1. CASE file'[n][k] = "none"
      BY <3>1
    <3>2. ASSUME NEW st \in (was[n][k] \cap FileStates) \cup {file[n][k]}, file'[n][k] = Torn(st)
          PROVE  file'[n][k] \in {"none", "synced", "alien"}
      BY <1>0, <3>2 DEF FilesWhole, Torn, FileStates
    <3>3. QED
      BY <1>0, <2>1, <3>1, <3>2, LeftFiles
  <2>3. ASSUME NEW n \in Namespaces
        PROVE  tmp'[n] \in {NoTmp} \cup [key : Keys, state : {"part", "whole", "synced"}]
    <3>1. CASE LeftDir(V)[n] = "ready" /\ Temps(B, n) # {}
      <4>1. (CHOOSE k \in Temps(B, n) : TRUE) \in Keys
        <5>1. (CHOOSE k \in Temps(B, n) : TRUE) \in Temps(B, n)
          BY <3>1
        <5>2. QED
          BY <5>1 DEF Temps
      <4>2. tmp'[n] = [key |-> CHOOSE k \in Temps(B, n) : TRUE, state |-> "part"]
        BY <2>1, <3>1, Zenon DEF LeftTmp
      <4>3. QED
        BY <4>1, <4>2
    <3>2. CASE ~(LeftDir(V)[n] = "ready" /\ Temps(B, n) # {})
      BY <2>1, <3>2, Zenon DEF LeftTmp
    <3>3. QED
      BY <3>1, <3>2
  <2>4. tmp' \in [Namespaces -> {NoTmp} \cup [key : Keys, state : {"part", "whole", "synced"}]]
    BY <2>1, <2>3 DEF LeftTmp
  <2>5. QED
    BY <1>2, <2>2, <2>4 DEF Outage, FilesWhole
<1>3. CASE UNCHANGED vars
  BY <1>0, <1>3 DEF vars, disk, FilesWhole
<1>4. QED
  BY <1>1, <1>2, <1>3, NextCases
-----------------------------------------------------------------------------
(* Directories and limits.                                                *)

(* A directory with a locked namespace has its lock file. *)
LEMMA DirMoves ==
  ASSUME StoreInv, NEW p \in Procs, Step(p)
  PROVE  \A m \in Namespaces : nslock'[m] # Nobody => dir'[m] = "ready"
<1> USE DEF At, Pc, disk, locks
<1>0. /\ TypeOK /\ DirsReady /\ LocksHeld
      /\ Pc(p) # "off" => Ns(p) \in Namespaces
      /\ Pc(p) \in {"newdir", "mkdir", "lockns"} => \A n \in Namespaces : nslock[n] # p
  BY DEF StoreInv, LocksHeld, Locked, Writing
<1> USE DEF DirsReady, TypeOK
<1>1. CASE EvictUnlink(p)
  BY <1>0, <1>1 DEF EvictUnlink
<1>2. CASE EvictFails(p)
  BY <1>0, <1>2 DEF EvictFails
<1>3. CASE OpenNewDir(p)
  <2>1. enforce(p, "newdir", "mkdir", 0, 0, 1)
    BY <1>3 DEF OpenNewDir
  <2>2. UNCHANGED nslock /\ \A n \in Namespaces : nslock[n] # Nobody => dir'[n] = dir[n]
    BY <1>0, <2>1, EnforceFiles, EnforceOthers
  <2>3. QED
    BY <1>0, <2>2
<1>4. CASE OpenMkdir(p)
  BY <1>0, <1>4 DEF OpenMkdir
<1>5. CASE OpenLock(p)
  BY <1>0, <1>5 DEF OpenLock
<1>6. CASE RecoverTemp(p)
  BY <1>0, <1>6 DEF RecoverTemp
<1>7. CASE RecoverRecord(p)
  BY <1>0, <1>7 DEF RecoverRecord
<1>8. CASE RecoverEnds(p)
  BY <1>0, <1>8 DEF RecoverEnds
<1>9. CASE OpenEnforce(p)
  <2>1. enforce(p, "enforce", "commit", 0, 0, 0)
    BY <1>9 DEF OpenEnforce
  <2>2. UNCHANGED nslock /\ \A n \in Namespaces : nslock[n] # Nobody => dir'[n] = dir[n]
    BY <1>0, <2>1, EnforceFiles, EnforceOthers
  <2>3. QED
    BY <1>0, <2>2
<1>10. CASE OpenCommit(p)
  BY <1>0, <1>10 DEF OpenCommit
<1>11. CASE OpenUndo(p)
  BY <1>0, <1>11 DEF OpenUndo
<1>12. CASE WriteRoom(p)
  BY <1>0, <1>12 DEF WriteRoom
<1>13. CASE WriteQuota(p)
  <2>1. enforce(p, "quota", "temp", Size[proc[p].key], 1, 0)
    BY <1>13 DEF WriteQuota
  <2>2. UNCHANGED nslock /\ \A n \in Namespaces : nslock[n] # Nobody => dir'[n] = dir[n]
    BY <1>0, <2>1, EnforceFiles, EnforceOthers
  <2>3. QED
    BY <1>0, <2>2
<1>14. CASE WriteRefused(p)
  BY <1>0, <1>14 DEF WriteRefused
<1>15. CASE WriteTemp(p)
  BY <1>0, <1>15 DEF WriteTemp
<1>16. CASE WriteRename(p)
  BY <1>0, <1>16 DEF WriteRename
<1>17. CASE WriteSync(p)
  BY <1>0, <1>17 DEF WriteSync
<1>18. CASE WriteIndex(p)
  BY <1>0, <1>18 DEF WriteIndex
<1>19. CASE WriteFails(p)
  BY <1>0, <1>19 DEF WriteFails
<1>20. CASE close(p)
  BY <1>0, <1>20 DEF close
<1>21. CASE Crash(p)
  BY <1>0, <1>21 DEF Crash
<1>22. ASSUME NEW n \in Namespaces, NEW l \in Limits, OpenBegin(p, n, l)
      PROVE  \A m \in Namespaces : nslock'[m] # Nobody => dir'[m] = "ready"
  BY <1>0, <1>22 DEF OpenBegin
<1>23. ASSUME NEW k \in Keys, WriteBegin(p, k)
      PROVE  \A m \in Namespaces : nslock'[m] # Nobody => dir'[m] = "ready"
  BY <1>0, <1>23 DEF WriteBegin
<1>24. ASSUME NEW k \in Keys, pin(p, k)
      PROVE  \A m \in Namespaces : nslock'[m] # Nobody => dir'[m] = "ready"
  BY <1>0, <1>24 DEF pin
<1>25. ASSUME NEW k \in Keys, unpin(p, k)
      PROVE  \A m \in Namespaces : nslock'[m] # Nobody => dir'[m] = "ready"
  BY <1>0, <1>25 DEF unpin
<1>26. QED
  BY <1>1, <1>2, <1>3, <1>4, <1>5, <1>6, <1>7, <1>8, <1>9, <1>10, <1>11, <1>12, <1>13,
     <1>14, <1>15, <1>16, <1>17, <1>18, <1>19, <1>20, <1>21, <1>22, <1>23, <1>24, <1>25 DEF Step, Inside

(* A namespace's lock is taken only when it is free, under the root lock. *)
LEMMA LockMoves ==
  ASSUME StoreInv, NEW p \in Procs, Step(p)
  PROVE  OpenLock(p) \/ \A m \in Namespaces : nslock'[m] \in {nslock[m], Nobody}
<1> USE DEF disk, locks
<1>0. TypeOK /\ (Pc(p) # "off" => Ns(p) \in Namespaces)
  BY DEF StoreInv, LocksHeld
<1> USE DEF TypeOK
<1>1. CASE EvictUnlink(p)
  BY <1>0, <1>1 DEF EvictUnlink
<1>2. CASE EvictFails(p)
  BY <1>0, <1>2 DEF EvictFails
<1>3. CASE OpenNewDir(p)
  <2>1. enforce(p, "newdir", "mkdir", 0, 0, 1)
    BY <1>3 DEF OpenNewDir
  <2>2. UNCHANGED nslock
    BY <2>1, EnforceOthers, <1>0
  <2>3. QED
    BY <2>2
<1>4. CASE OpenMkdir(p)
  BY <1>0, <1>4 DEF OpenMkdir
<1>5. CASE OpenLock(p)
  BY <1>0, <1>5 DEF OpenLock
<1>6. CASE RecoverTemp(p)
  BY <1>0, <1>6 DEF RecoverTemp
<1>7. CASE RecoverRecord(p)
  BY <1>0, <1>7 DEF RecoverRecord
<1>8. CASE RecoverEnds(p)
  BY <1>0, <1>8 DEF RecoverEnds
<1>9. CASE OpenEnforce(p)
  <2>1. enforce(p, "enforce", "commit", 0, 0, 0)
    BY <1>9 DEF OpenEnforce
  <2>2. UNCHANGED nslock
    BY <2>1, EnforceOthers, <1>0
  <2>3. QED
    BY <2>2
<1>10. CASE OpenCommit(p)
  BY <1>0, <1>10 DEF OpenCommit
<1>11. CASE OpenUndo(p)
  BY <1>0, <1>11 DEF OpenUndo
<1>12. CASE WriteRoom(p)
  BY <1>0, <1>12 DEF WriteRoom
<1>13. CASE WriteQuota(p)
  <2>1. enforce(p, "quota", "temp", Size[proc[p].key], 1, 0)
    BY <1>13 DEF WriteQuota
  <2>2. UNCHANGED nslock
    BY <2>1, EnforceOthers, <1>0
  <2>3. QED
    BY <2>2
<1>14. CASE WriteRefused(p)
  BY <1>0, <1>14 DEF WriteRefused
<1>15. CASE WriteTemp(p)
  BY <1>0, <1>15 DEF WriteTemp
<1>16. CASE WriteRename(p)
  BY <1>0, <1>16 DEF WriteRename
<1>17. CASE WriteSync(p)
  BY <1>0, <1>17 DEF WriteSync
<1>18. CASE WriteIndex(p)
  BY <1>0, <1>18 DEF WriteIndex
<1>19. CASE WriteFails(p)
  BY <1>0, <1>19 DEF WriteFails
<1>20. CASE close(p)
  BY <1>0, <1>20 DEF close
<1>21. CASE Crash(p)
  BY <1>0, <1>21 DEF Crash
<1>22. ASSUME NEW n \in Namespaces, NEW l \in Limits, OpenBegin(p, n, l)
      PROVE  OpenLock(p) \/ \A m \in Namespaces : nslock'[m] \in {nslock[m], Nobody}
  BY <1>0, <1>22 DEF OpenBegin
<1>23. ASSUME NEW k \in Keys, WriteBegin(p, k)
      PROVE  OpenLock(p) \/ \A m \in Namespaces : nslock'[m] \in {nslock[m], Nobody}
  BY <1>0, <1>23 DEF WriteBegin
<1>24. ASSUME NEW k \in Keys, pin(p, k)
      PROVE  OpenLock(p) \/ \A m \in Namespaces : nslock'[m] \in {nslock[m], Nobody}
  BY <1>0, <1>24 DEF pin
<1>25. ASSUME NEW k \in Keys, unpin(p, k)
      PROVE  OpenLock(p) \/ \A m \in Namespaces : nslock'[m] \in {nslock[m], Nobody}
  BY <1>0, <1>25 DEF unpin
<1>26. QED
  BY <1>1, <1>2, <1>3, <1>4, <1>5, <1>6, <1>7, <1>8, <1>9, <1>10, <1>11, <1>12, <1>13,
     <1>14, <1>15, <1>16, <1>17, <1>18, <1>19, <1>20, <1>21, <1>22, <1>23, <1>24, <1>25 DEF Step, Inside

(* What a directory made in vain is to the process that made it.           *)
Created(p) ==
    /\ proc[p].created => Pc(p) # "off" /\ nslock[Ns(p)] \in {Nobody, p}
    /\ Pc(p) \in {"newdir", "mkdir"} => proc[p].created

(* A process knows whether it made its directory. *)
LEMMA CreatedOwn ==
  ASSUME StoreInv, NEW p \in Procs, Step(p)
  PROVE  Created(p)'
<1> USE DEF At, Pc, Ns, disk, locks, Created
<1>0. /\ proc \in [Procs -> ProcRecord] /\ Created(p) /\ nslock \in [Namespaces -> Procs \cup {Nobody}]
      /\ Pc(p) # "off" => Ns(p) \in Namespaces
      /\ Pc(p) \in Locked => nslock[Ns(p)] = p
      /\ \A n \in Namespaces : dir[n] = "none" => nslock[n] = Nobody
      /\ "off" \notin {"newdir", "mkdir"}
  BY DEF StoreInv, DirsReady, TypeOK, LocksHeld
<1> USE DEF ProcRecord, Locked, Writing, Goto
<1>1. CASE EvictUnlink(p)
  BY <1>0, <1>1 DEF EvictUnlink
<1>2. CASE EvictFails(p)
  BY <1>0, <1>2 DEF EvictFails
<1>3. CASE OpenNewDir(p)
  <2>1. enforce(p, "newdir", "mkdir", 0, 0, 1)
    BY <1>3 DEF OpenNewDir
  <2>2. /\ UNCHANGED nslock /\ Pc(p) = "newdir"
        /\ UNCHANGED proc \/ EvictOwn(p) \/ Goto(p, "mkdir") \/ Goto(p, GiveUp(p))
    BY <2>1 DEF enforce
  <2>3. GiveUp(p) = "undo"
    BY <2>2 DEF GiveUp
  <2>4. QED
    BY <1>0, <2>2, <2>3 DEF EvictOwn, Goto
<1>4. CASE OpenMkdir(p)
  BY <1>0, <1>4 DEF OpenMkdir
<1>5. CASE OpenLock(p)
  BY <1>0, <1>5 DEF OpenLock
<1>6. CASE RecoverTemp(p)
  BY <1>0, <1>6 DEF RecoverTemp
<1>7. CASE RecoverRecord(p)
  <2>1. /\ UNCHANGED nslock /\ Pc(p) = "recover"
        /\ UNCHANGED proc \/ EvictOwn(p) \/ Goto(p, "undo")
    BY <1>7 DEF RecoverRecord, MakeRoom, GiveUp
  <2>2. QED
    BY <1>0, <2>1 DEF EvictOwn, Goto
<1>8. CASE RecoverEnds(p)
  BY <1>0, <1>8 DEF RecoverEnds
<1>9. CASE OpenEnforce(p)
  <2>1. enforce(p, "enforce", "commit", 0, 0, 0)
    BY <1>9 DEF OpenEnforce
  <2>2. /\ UNCHANGED nslock /\ Pc(p) = "enforce"
        /\ UNCHANGED proc \/ EvictOwn(p) \/ Goto(p, "commit") \/ Goto(p, GiveUp(p))
    BY <2>1 DEF enforce
  <2>3. GiveUp(p) = "undo"
    BY <2>2 DEF GiveUp
  <2>4. QED
    BY <1>0, <2>2, <2>3 DEF EvictOwn, Goto
<1>10. CASE OpenCommit(p)
  BY <1>0, <1>10 DEF OpenCommit
<1>11. CASE OpenUndo(p)
  <2>1. proc'[p] = Off
    BY <1>0, <1>11 DEF OpenUndo
  <2>2. QED
    BY <2>1 DEF Off
<1>12. CASE WriteRoom(p)
  <2>1. /\ UNCHANGED nslock /\ Pc(p) = "room"
        /\ EvictOwn(p) \/ Goto(p, "refused") \/ Goto(p, "quota")
    BY <1>12 DEF WriteRoom, MakeRoom, GiveUp
  <2>2. QED
    BY <1>0, <2>1 DEF EvictOwn, Goto
<1>13. CASE WriteQuota(p)
  <2>1. enforce(p, "quota", "temp", Size[proc[p].key], 1, 0)
    BY <1>13 DEF WriteQuota
  <2>2. /\ UNCHANGED nslock /\ Pc(p) = "quota"
        /\ UNCHANGED proc \/ EvictOwn(p) \/ Goto(p, "temp") \/ Goto(p, GiveUp(p))
    BY <2>1 DEF enforce
  <2>3. GiveUp(p) = "refused"
    BY <2>2 DEF GiveUp
  <2>4. QED
    BY <1>0, <2>2, <2>3 DEF EvictOwn, Goto
<1>14. CASE WriteRefused(p)
  BY <1>0, <1>14 DEF WriteRefused
<1>15. CASE WriteTemp(p)
  BY <1>0, <1>15 DEF WriteTemp
<1>16. CASE WriteRename(p)
  BY <1>0, <1>16 DEF WriteRename
<1>17. CASE WriteSync(p)
  BY <1>0, <1>17 DEF WriteSync
<1>18. CASE WriteIndex(p)
  BY <1>0, <1>18 DEF WriteIndex
<1>19. CASE WriteFails(p)
  BY <1>0, <1>19 DEF WriteFails
<1>20. CASE close(p)
  <2>1. proc'[p] = Off
    BY <1>0, <1>20 DEF close
  <2>2. QED
    BY <2>1 DEF Off
<1>21. CASE Crash(p)
  <2>1. proc'[p] = Off
    BY <1>0, <1>21 DEF Crash
  <2>2. QED
    BY <2>1 DEF Off
<1>22. ASSUME NEW n \in Namespaces, NEW l \in Limits, OpenBegin(p, n, l)
      PROVE  Created(p)'
  <2>1. /\ proc'[p].created = (dir[n] = "none") /\ proc'[p].ns = n
        /\ proc'[p].pc = IF dir[n] = "none" THEN "newdir" ELSE "lockns"
    BY <1>0, <1>22 DEF OpenBegin, Off
  <2>2. UNCHANGED nslock
    BY <1>22 DEF OpenBegin
  <2>3. CASE dir[n] = "none"
    BY <1>0, <2>1, <2>2, <2>3
  <2>4. CASE dir[n] # "none"
    BY <2>1, <2>4
  <2>5. QED
    BY <2>3, <2>4
<1>23. ASSUME NEW k \in Keys, WriteBegin(p, k)
      PROVE  Created(p)'
  BY <1>0, <1>23 DEF WriteBegin
<1>24. ASSUME NEW k \in Keys, pin(p, k)
      PROVE  Created(p)'
  BY <1>0, <1>24 DEF pin
<1>25. ASSUME NEW k \in Keys, unpin(p, k)
      PROVE  Created(p)'
  BY <1>0, <1>25 DEF unpin
<1>26. QED
  BY <1>1, <1>2, <1>3, <1>4, <1>5, <1>6, <1>7, <1>8, <1>9, <1>10, <1>11, <1>12, <1>13,
     <1>14, <1>15, <1>16, <1>17, <1>18, <1>19, <1>20, <1>21, <1>22, <1>23, <1>24, <1>25 DEF Step, Inside

(* A directory whose lock is held is ready, and one that is being made     *)
(* belongs to its maker or to nobody.                                      *)
LEMMA DirsReadyStep == StoreInv /\ [Next]_vars => DirsReady'
<1> SUFFICES ASSUME StoreInv, [Next]_vars PROVE DirsReady'
  OBVIOUS
<1>0. DirsReady /\ LocksHeld /\ \A s \in Procs : Created(s)
  BY DEF StoreInv, DirsReady, Created
<1>1. ASSUME NEW p \in Procs, Step(p) PROVE DirsReady'
  <2>1. \A m \in Namespaces : nslock'[m] # Nobody => dir'[m] = "ready"
    BY <1>1, DirMoves
  <2>2. ASSUME NEW s \in Procs PROVE Created(s)'
    <3>1. CASE s = p
      BY <1>1, <3>1, CreatedOwn
    <3>2. CASE s # p
      <4>1. proc'[s] = proc[s]
        BY <1>1, <3>2, OthersKept DEF OtherKept
      <4>2. SUFFICES ASSUME proc[s].created PROVE nslock'[Ns(s)] \in {Nobody, s}
        BY <1>0, <4>1 DEF Created, Pc, Ns
      <4>3. nslock[Ns(s)] \in {Nobody, s} /\ Ns(s) \in Namespaces /\ Pc(s) # "off"
        BY <1>0, <4>2 DEF Created, LocksHeld
      <4>4. ASSUME OpenLock(p) PROVE nslock'[Ns(s)] = nslock[Ns(s)]
        <5>0. nslock \in [Namespaces -> Procs \cup {Nobody}]
          BY DEF StoreInv, TypeOK
        <5>1. rootlock = p
          BY <1>0, <4>4 DEF OpenLock, At, LocksHeld, Pc
        <5>2. Pc(s) = "open"
          BY <1>0, <3>2, <4>3, <5>1 DEF LocksHeld
        <5>3. nslock[Ns(s)] = s /\ s # Nobody
          BY <1>0, <5>2, StoreConstants DEF LocksHeld, Locked
        <5>4. QED
          BY <4>3, <4>4, <5>3, <5>0 DEF OpenLock
      <4>5. QED
        BY <1>1, <4>3, <4>4, LockMoves
    <3>3. QED
      BY <3>1, <3>2
  <2>3. QED
    BY <2>1, <2>2 DEF DirsReady, Created
<1>2. CASE Outage
  BY <1>2 DEF Outage, DirsReady, Off, Pc
<1>3. CASE UNCHANGED vars
  BY <1>0, <1>3 DEF vars, disk, locks, DirsReady, Pc, Ns
<1>4. QED
  BY <1>1, <1>2, <1>3, NextCases
(* How a call goes on, as far as limits are concerned.                      *)
PcMove(p) ==
    /\ "off" \in {Pc(p), Pc(p)'} \/ (Lim(p)' = Lim(p) /\ Ns(p)' = Ns(p))
    /\ Serves(p)' => Serves(p) \/ OpenCommit(p)
    /\ (limits' = limits /\ lapsed' = lapsed) \/ OpenCommit(p)
    /\ Pc(p)' \in {"newdir", "mkdir", "lockns"} =>
          Pc(p) \in {"newdir", "mkdir"} \/ \E n \in Namespaces, l \in Limits : OpenBegin(p, n, l)
    /\ Pc(p)' \in {"recover", "enforce", "commit"} => Pc(p) \in {"recover", "enforce"} \/ OpenLock(p)

(* A call goes on under the limits it came with. *)
LEMMA PcMoves ==
  ASSUME StoreInv, NEW p \in Procs, Step(p)
  PROVE  PcMove(p)
<1> USE DEF At, Pc, Ns, Lim, Serves, disk, locks
<1>0. proc \in [Procs -> ProcRecord] /\ VictimOut(p) /\ WriteOwned(p)
  BY DEF StoreInv, TypeOK, VictimsOut, WritesOwned
<1> USE DEF ProcRecord, Goto
<1>1. CASE EvictUnlink(p)
  BY <1>0, <1>1 DEF EvictUnlink, VictimOut, PcMove
<1>2. CASE EvictFails(p)
  BY <1>0, <1>2 DEF EvictFails, VictimOut, GiveUp, PcMove
<1>3. CASE OpenNewDir(p)
  <2>1. enforce(p, "newdir", "mkdir", 0, 0, 1)
    BY <1>3 DEF OpenNewDir
  <2>2. /\ UNCHANGED <<limits, lapsed>> /\ Pc(p) = "newdir"
        /\ UNCHANGED proc \/ EvictOwn(p) \/ Goto(p, "mkdir") \/ Goto(p, GiveUp(p))
    BY <2>1 DEF enforce
  <2>3. GiveUp(p) = "undo"
    BY <2>2 DEF GiveUp
  <2>4. QED
    BY <1>0, <2>2, <2>3 DEF EvictOwn, Goto, PcMove
<1>4. CASE OpenMkdir(p)
  BY <1>0, <1>4 DEF OpenMkdir, PcMove
<1>5. CASE OpenLock(p)
  BY <1>0, <1>5 DEF OpenLock, PcMove
<1>6. CASE RecoverTemp(p)
  BY <1>0, <1>6 DEF RecoverTemp, PcMove
<1>7. CASE RecoverRecord(p)
  <2>1. /\ UNCHANGED <<limits, lapsed>> /\ Pc(p) = "recover"
        /\ UNCHANGED proc \/ EvictOwn(p) \/ Goto(p, "undo")
    BY <1>7 DEF RecoverRecord, MakeRoom, GiveUp
  <2>2. QED
    BY <1>0, <2>1 DEF EvictOwn, Goto, PcMove
<1>8. CASE RecoverEnds(p)
  BY <1>0, <1>8 DEF RecoverEnds, PcMove
<1>9. CASE OpenEnforce(p)
  <2>1. enforce(p, "enforce", "commit", 0, 0, 0)
    BY <1>9 DEF OpenEnforce
  <2>2. /\ UNCHANGED <<limits, lapsed>> /\ Pc(p) = "enforce"
        /\ UNCHANGED proc \/ EvictOwn(p) \/ Goto(p, "commit") \/ Goto(p, GiveUp(p))
    BY <2>1 DEF enforce
  <2>3. GiveUp(p) = "undo"
    BY <2>2 DEF GiveUp
  <2>4. QED
    BY <1>0, <2>2, <2>3 DEF EvictOwn, Goto, PcMove
<1>10. CASE OpenCommit(p)
  BY <1>0, <1>10 DEF OpenCommit, PcMove
<1>11. CASE OpenUndo(p)
  <2>1. proc'[p].pc = "off" /\ UNCHANGED <<limits, lapsed>>
    BY <1>0, <1>11 DEF OpenUndo, Off
  <2>2. QED
    BY <2>1 DEF PcMove
<1>12. CASE WriteRoom(p)
  <2>1. /\ UNCHANGED <<limits, lapsed>> /\ Pc(p) = "room"
        /\ EvictOwn(p) \/ Goto(p, "refused") \/ Goto(p, "quota")
    BY <1>12 DEF WriteRoom, MakeRoom, GiveUp
  <2>2. QED
    BY <1>0, <2>1 DEF EvictOwn, Goto, PcMove
<1>13. CASE WriteQuota(p)
  <2>1. enforce(p, "quota", "temp", Size[proc[p].key], 1, 0)
    BY <1>13 DEF WriteQuota
  <2>2. /\ UNCHANGED <<limits, lapsed>> /\ Pc(p) = "quota"
        /\ UNCHANGED proc \/ EvictOwn(p) \/ Goto(p, "temp") \/ Goto(p, GiveUp(p))
    BY <2>1 DEF enforce
  <2>3. GiveUp(p) = "refused"
    BY <2>2 DEF GiveUp
  <2>4. QED
    BY <1>0, <2>2, <2>3 DEF EvictOwn, Goto, PcMove
<1>14. CASE WriteRefused(p)
  BY <1>0, <1>14 DEF WriteRefused, PcMove
<1>15. CASE WriteTemp(p)
  BY <1>0, <1>15 DEF WriteTemp, PcMove
<1>16. CASE WriteRename(p)
  BY <1>0, <1>16 DEF WriteRename, PcMove
<1>17. CASE WriteSync(p)
  BY <1>0, <1>17 DEF WriteSync, PcMove
<1>18. CASE WriteIndex(p)
  BY <1>0, <1>18 DEF WriteIndex, PcMove
<1>19. CASE WriteFails(p)
  BY <1>0, <1>19 DEF WriteFails, PcMove
<1>20. CASE close(p)
  <2>1. proc'[p].pc = "off" /\ UNCHANGED <<limits, lapsed>>
    BY <1>0, <1>20 DEF close, Off
  <2>2. QED
    BY <2>1 DEF PcMove
<1>21. CASE Crash(p)
  <2>1. proc'[p].pc = "off" /\ UNCHANGED <<limits, lapsed>>
    BY <1>0, <1>21 DEF Crash, Off
  <2>2. QED
    BY <2>1 DEF PcMove
<1>22. ASSUME NEW n \in Namespaces, NEW l \in Limits, OpenBegin(p, n, l)
      PROVE  PcMove(p)
  <2>1. Pc(p) = "off" /\ Pc(p)' \in {"newdir", "lockns"} /\ UNCHANGED <<limits, lapsed>>
    BY <1>0, <1>22 DEF OpenBegin, Off
  <2>2. QED
    BY <1>22, <2>1 DEF PcMove
<1>23. ASSUME NEW k \in Keys, WriteBegin(p, k)
      PROVE  PcMove(p)
  BY <1>0, <1>23 DEF WriteBegin, PcMove
<1>24. ASSUME NEW k \in Keys, pin(p, k)
      PROVE  PcMove(p)
  BY <1>0, <1>24 DEF pin, PcMove
<1>25. ASSUME NEW k \in Keys, unpin(p, k)
      PROVE  PcMove(p)
  BY <1>0, <1>25 DEF unpin, PcMove
<1>26. QED
  BY <1>1, <1>2, <1>3, <1>4, <1>5, <1>6, <1>7, <1>8, <1>9, <1>10, <1>11, <1>12, <1>13,
     <1>14, <1>15, <1>16, <1>17, <1>18, <1>19, <1>20, <1>21, <1>22, <1>23, <1>24, <1>25 DEF Step, Inside

(* Limits change where no store serves under others.                        *)
LEMMA LimitsFixedStep == StoreInv /\ [Next]_vars => LimitsFixed'
<1> SUFFICES ASSUME StoreInv, [Next]_vars PROVE LimitsFixed'
  OBVIOUS
<1>0. LimitsFixed /\ LocksHeld /\ DirsReady
  BY DEF StoreInv
<1>1. ASSUME NEW p \in Procs, Step(p) PROVE LimitsFixed'
  <2>1. PcMove(p) /\ \A s \in Procs \ {p} : proc'[s] = proc[s]
    BY <1>1, PcMoves, OthersKept DEF OtherKept
  <2>2. CASE OpenCommit(p)
    <3>1. /\ rootlock = p /\ Pc(p) = "commit" /\ limits' = Lim(p) /\ Pc(p)' = "open"
          /\ Lim(p)' = Lim(p) /\ ~lapsed'
      BY <1>0, <2>2 DEF LocksHeld, OpenCommit, At, Pc, Goto, StoreInv, TypeOK, ProcRecord, Lim
    <3>2. \A s \in Procs \ {p} : Pc(s) \in {"off", "open"}
      BY <1>0, <3>1 DEF LocksHeld
    <3>3. \A s \in Procs \ {p} : Serves(s) => limits = Lim(p) /\ limits = Lim(s)
      BY <1>0, <3>1 DEF LimitsFixed, LimitsAgree
    <3>4. QED
      BY <2>1, <3>1, <3>2, <3>3 DEF LimitsFixed, LimitsAgree, Serves, Pc, Lim
  <2>3. CASE ~OpenCommit(p)
    <3>1. limits' = limits /\ lapsed' = lapsed /\ \A s \in Procs : Serves(s)' => Serves(s) /\ Ns(s)' = Ns(s) /\ Lim(s)' = Lim(s)
      BY <2>1, <2>3 DEF PcMove, Serves, Pc, Ns, Lim
    <3>2. LimitsAgree'
      BY <1>0, <3>1 DEF LimitsFixed, LimitsAgree
    <3>3. ASSUME NEW s \in Procs, Pc(s)' \in {"newdir", "mkdir", "lockns"}
          PROVE  limits = Lim(s)' \/ \A q \in Procs : Serves(q) => Ns(q) = Ns(s)'
      <4>1. CASE Pc(s) \in {"newdir", "mkdir", "lockns"} /\ Lim(s)' = Lim(s) /\ Ns(s)' = Ns(s)
        BY <1>0, <4>1 DEF LimitsFixed
      <4>2. ASSUME NEW n \in Namespaces, NEW l \in Limits, OpenBegin(s, n, l)
            PROVE  limits = Lim(s)' \/ \A q \in Procs : Serves(q) => Ns(q) = Ns(s)'
        <5>1. Lim(s)' = l /\ Ns(s)' = n
          BY <4>2 DEF OpenBegin, StoreInv, TypeOK, ProcRecord, Off, Lim, Ns
        <5>2. ASSUME NEW q \in Procs, Serves(q) PROVE nslock[Ns(q)] = q /\ Ns(q) \in Namespaces /\ q # Nobody
          BY <1>0, <5>2, StoreConstants DEF LocksHeld, Serves, Locked, Writing
        <5>3. ASSUME NEW q \in Procs, Serves(q) PROVE dir[Ns(q)] = "ready" /\ ~Leased(Ns(q))
          BY <1>0, <5>2, <5>3 DEF DirsReady, Leased
        <5>4. QED
          BY <4>2, <5>1, <5>2, <5>3 DEF OpenBegin, check_limits
      <4>3. s = p \/ (Pc(s) \in {"newdir", "mkdir", "lockns"} /\ Lim(s)' = Lim(s) /\ Ns(s)' = Ns(s))
        BY <2>1, <3>3 DEF Pc, Lim, Ns
      <4>4. QED
        BY <2>1, <3>3, <4>1, <4>2, <4>3 DEF PcMove
    <3>4. ASSUME NEW s \in Procs, Pc(s)' \in {"recover", "enforce", "commit"}
          PROVE  limits = Lim(s)' \/ \A q \in Procs : ~Serves(q)
      <4>1. CASE Pc(s) \in {"recover", "enforce", "commit"} /\ Lim(s)' = Lim(s)
        BY <1>0, <4>1 DEF LimitsFixed
      <4>2. CASE OpenLock(s)
        <5>1. /\ Pc(s) = "lockns" /\ (Pc(s)' = "undo" \/ nslock[Ns(s)] = Nobody)
              /\ Lim(s)' = Lim(s)
          BY <4>2 DEF OpenLock, StoreInv, TypeOK, ProcRecord, Goto, Lim, Pc, At
        <5>2. ASSUME NEW q \in Procs, Serves(q) PROVE nslock[Ns(q)] # Nobody
          BY <1>0, <5>2, StoreConstants DEF LocksHeld, Serves, Locked, Writing
        <5>3. QED
          BY <1>0, <3>4, <5>1, <5>2 DEF LimitsFixed
      <4>3. s = p \/ (Pc(s) \in {"recover", "enforce", "commit"} /\ Lim(s)' = Lim(s))
        BY <2>1, <3>4 DEF Pc, Lim
      <4>4. QED
        BY <2>1, <3>4, <4>1, <4>2, <4>3 DEF PcMove
    <3>5. QED
      BY <3>1, <3>2, <3>3, <3>4 DEF LimitsFixed
  <2>4. QED
    BY <2>2, <2>3
<1>2. CASE Outage
  BY <1>2 DEF Outage, LimitsFixed, LimitsAgree, Off, Serves, Pc
<1>3. CASE UNCHANGED vars
  BY <1>0, <1>3 DEF vars, disk, locks, LimitsFixed, LimitsAgree, Serves, Pc, Ns, Lim
<1>4. QED
  BY <1>1, <1>2, <1>3, NextCases
-----------------------------------------------------------------------------
(* Sums of sizes.  Every byte of a set of files is a thing of its own.      *)
Pile(S) == {x \in S \X Nat : x[2] \in 1 .. Size[x[1][2]]}

(* What a function that sums the sizes over the subsets of S satisfies.     *)
IsSum(g, S) ==
  g = [s \in SUBSET S |->
         IF s = {} THEN 0
         ELSE Size[(CHOOSE x \in s : TRUE)[2]] + g[s \ {CHOOSE x \in s : TRUE}]]

(* The fold that the module of the community defines is such a sum.         *)
LEMMA BytesIsSum == ASSUME NEW S PROVE  Bytes(S) = (CHOOSE g : IsSum(g, S))[S]
BY Zenon DEF Bytes, MapThenSumSet, MapThenFoldSet, IsSum

(* The bytes of one file.                                                  *)
LEMMA PileOne ==
  ASSUME NEW x, Size[x[2]] \in Nat
  PROVE  IsFiniteSet(Pile({x})) /\ Cardinality(Pile({x})) = Size[x[2]]
<1> DEFINE n == Size[x[2]]
           f == [i \in 1 .. n |-> <<x, i>>]
<1>1. IsFiniteSet(1 .. n) /\ Cardinality(1 .. n) = n
  <2>1. n \in Nat
    OBVIOUS
  <2> HIDE DEF n
  <2>2. IsFiniteSet(1 .. n) /\ Cardinality(1 .. n) = IF 1 > n THEN 0 ELSE n - 1 + 1
    BY <2>1, FS_Interval
  <2>3. QED
    BY <2>1, <2>2
<1>2. f \in Bijection(1 .. n, Pile({x}))
  <2>1. \A i \in 1 .. n : f[i] \in Pile({x})
    BY DEF Pile
  <2>2. \A i, j \in 1 .. n : f[i] = f[j] => i = j
    OBVIOUS
  <2>3. \A y \in Pile({x}) : y[2] \in 1 .. n /\ f[y[2]] = y
    BY DEF Pile
  <2>4. f \in [1 .. n -> Pile({x})]
    BY <2>1
  <2>5. QED
    BY <2>2, <2>3, <2>4, Zenon DEF Bijection, Injection, Surjection, IsInjective
<1>3. QED
  BY <1>1, <1>2, FS_Bijection DEF ExistsBijection

(* Finitely many files have finitely many bytes.                           *)
LEMMA PileFinite ==
  ASSUME NEW S, IsFiniteSet(S), \A x \in S : Size[x[2]] \in Nat
  PROVE  IsFiniteSet(Pile(S))
<1> DEFINE f == [x \in S |-> Pile({x})]
           T == {Pile({x}) : x \in S}
<1>1. f \in Surjection(S, T)
  BY DEF Surjection
<1>2. IsFiniteSet(T)
  BY <1>1, FS_Surjection
<1>3. \A t \in T : IsFiniteSet(t)
  BY PileOne
<1>4. IsFiniteSet(UNION T)
  BY <1>2, <1>3, FS_UNION
<1>5. Pile(S) \subseteq UNION T
  BY DEF Pile
<1>6. QED
  BY <1>4, <1>5, FS_Subset

(* One file's bytes less.                                                  *)
LEMMA PileRemove ==
  ASSUME NEW S, IsFiniteSet(S), \A x \in S : Size[x[2]] \in Nat, NEW x \in S
  PROVE  Cardinality(Pile(S)) = Size[x[2]] + Cardinality(Pile(S \ {x}))
<1>1. IsFiniteSet(S \ {x}) /\ IsFiniteSet(Pile(S \ {x})) /\ IsFiniteSet(Pile({x}))
  <2>1. IsFiniteSet(S \ {x})
    BY FS_RemoveElement
  <2>2. QED
    BY <2>1, PileFinite, PileOne
<1>2. Pile(S) = Pile({x}) \cup Pile(S \ {x}) /\ Pile({x}) \cap Pile(S \ {x}) = {}
  BY DEF Pile
<1>3. Cardinality(Pile({x})) = Size[x[2]] /\ Cardinality(Pile(S \ {x})) \in Nat
  BY <1>1, PileOne, FS_CardinalityType
<1>4. Cardinality(Pile(S)) = Cardinality(Pile({x})) + Cardinality(Pile(S \ {x})) - Cardinality({})
  BY <1>1, <1>2, FS_Union, ZenonT(30)
<1>5. QED
  BY <1>3, <1>4, FS_EmptySet

(* The sum of the sizes counts the bytes.                                  *)
LEMMA SumIsPile ==
  ASSUME NEW S, IsFiniteSet(S), \A x \in S : Size[x[2]] \in Nat
  PROVE  Bytes(S) = Cardinality(Pile(S))
<1> DEFINE pick(s) == CHOOSE x \in s : TRUE
           g == [s \in SUBSET S |-> Cardinality(Pile(s))]
           h == CHOOSE f : IsSum(f, S)
<1>1. ASSUME NEW s \in SUBSET S, s # {}
      PROVE  pick(s) \in s /\ Cardinality(Pile(s)) = Size[pick(s)[2]] + Cardinality(Pile(s \ {pick(s)}))
  <2>1. pick(s) \in s
    BY <1>1
  <2>2. IsFiniteSet(s)
    BY FS_Subset
  <2>3. QED
    BY <2>1, <2>2, PileRemove
<1>2. IsSum(g, S)
  <2>1. Cardinality(Pile({})) = 0
    <3>1. Pile({}) = {}
      BY DEF Pile
    <3>2. QED
      BY <3>1, FS_EmptySet
  <2>2. ASSUME NEW s \in SUBSET S
        PROVE  g[s] = IF s = {} THEN 0 ELSE Size[pick(s)[2]] + g[s \ {pick(s)}]
    <3>1. CASE s = {}
      BY <2>1, <3>1
    <3>2. CASE s # {}
      <4>1. s \ {pick(s)} \in SUBSET S
        OBVIOUS
      <4>2. QED
        BY <1>1, <3>2, <4>1
    <3>3. QED
      BY <3>1, <3>2
  <2>3. g = [s \in SUBSET S |-> IF s = {} THEN 0 ELSE Size[pick(s)[2]] + g[s \ {pick(s)}]]
    BY <2>2
  <2>4. QED
    BY <2>3, Zenon DEF IsSum
<1>3. IsSum(h, S)
  BY <1>2, Zenon
<1> HIDE DEF h
<1>4. \A s \in SUBSET S : h[s] = IF s = {} THEN 0 ELSE Size[pick(s)[2]] + h[s \ {pick(s)}]
  BY <1>3 DEF IsSum
<1>5. \A s \in SUBSET S : g[s] = IF s = {} THEN 0 ELSE Size[pick(s)[2]] + g[s \ {pick(s)}]
  BY <1>2 DEF IsSum
<1> DEFINE T == {s \in SUBSET S : h[s] # g[s]}
<1> HIDE DEF g
<1>6. T = {}
  <2>1. SUFFICES ASSUME T # {} PROVE FALSE
    OBVIOUS
  <2>2. IsWellFoundedOn(StrictSubsetOrdering(S), FiniteSubsetsOf(S))
    BY FS_StrictSubsetOrderingWellFounded
  <2>3. T \subseteq FiniteSubsetsOf(S)
    BY FS_Subset DEF FiniteSubsetsOf
  <2>4. PICK s \in T : \A t \in T : ~(<<t, s>> \in StrictSubsetOrdering(S))
    BY <2>1, <2>2, <2>3, WFMin
  <2>5. s # {}
    BY <1>4, <1>5
  <2>6. pick(s) \in s
    BY <2>5
  <2> HIDE DEF pick
  <2>7. s \ {pick(s)} \notin T
    <3>1. <<s \ {pick(s)}, s>> \in StrictSubsetOrdering(S)
      BY <2>6 DEF StrictSubsetOrdering
    <3>2. QED
      BY <2>4, <3>1
  <2>8. h[s \ {pick(s)}] = g[s \ {pick(s)}]
    BY <2>7
  <2>9. QED
    BY <1>4, <1>5, <2>5, <2>8
<1>7. h[S] = g[S]
  BY <1>6
<1>8. QED
  BY <1>7, BytesIsSum DEF h, g

(* Files that go one by one into others of their size take no more room.    *)
LEMMA FitsInto ==
  ASSUME NEW S, NEW T, IsFiniteSet(T), \A x \in T : Size[x[2]] \in Nat,
         NEW f \in Injection(S, T), \A x \in S : Size[f[x][2]] = Size[x[2]]
  PROVE  /\ Bytes(S) \in Nat /\ Bytes(T) \in Nat /\ Bytes(S) <= Bytes(T)
         /\ Cardinality(S) \in Nat /\ Cardinality(T) \in Nat
         /\ Cardinality(S) <= Cardinality(T)
<1>1. IsFiniteSet(S) /\ Cardinality(S) <= Cardinality(T)
  BY FS_Injection
<1>2. f \in [S -> T] /\ \A x, y \in S : f[x] = f[y] => x = y
  BY DEF Injection, IsInjective
<1>3. \A x \in S : Size[x[2]] \in Nat
  BY <1>2
<1>4. Bytes(S) = Cardinality(Pile(S)) /\ Bytes(T) = Cardinality(Pile(T)) /\ IsFiniteSet(Pile(T))
  BY <1>1, <1>3, SumIsPile, PileFinite
<1> DEFINE g == [x \in Pile(S) |-> <<f[x[1]], x[2]>>]
<1>5. g \in Injection(Pile(S), Pile(T))
  <2>1. \A x \in Pile(S) : /\ x = <<x[1], x[2]>> /\ x[1] \in S /\ x[2] \in Nat
                           /\ x[2] \in 1 .. Size[x[1][2]]
    BY DEF Pile
  <2>2. ASSUME NEW x \in Pile(S) PROVE g[x] \in Pile(T)
    <3>1. f[x[1]] \in T /\ Size[f[x[1]][2]] = Size[x[1][2]]
      BY <1>2, <2>1
    <3>2. QED
      BY <2>1, <3>1 DEF Pile
  <2>3. ASSUME NEW x \in Pile(S), NEW y \in Pile(S), g[x] = g[y] PROVE x = y
    <3>1. f[x[1]] = f[y[1]] /\ x[2] = y[2]
      BY <2>3
    <3>2. QED
      BY <1>2, <2>1, <3>1
  <2>4. g \in [Pile(S) -> Pile(T)]
    BY <2>2
  <2> HIDE DEF g
  <2>5. QED
    BY <2>3, <2>4, Zenon DEF Injection, IsInjective
<1>6. Cardinality(Pile(S)) <= Cardinality(Pile(T)) /\ IsFiniteSet(Pile(S))
  BY <1>4, <1>5, FS_Injection
<1>7. QED
  BY <1>1, <1>4, <1>6, FS_CardinalityType

(* A part takes no more room than the whole.                               *)
LEMMA PartFits ==
  ASSUME NEW T, IsFiniteSet(T), \A x \in T : Size[x[2]] \in Nat, NEW S \in SUBSET T
  PROVE  /\ Bytes(S) \in Nat /\ Bytes(T) \in Nat /\ Bytes(S) <= Bytes(T)
         /\ Cardinality(S) \in Nat /\ Cardinality(T) \in Nat
         /\ Cardinality(S) <= Cardinality(T)
<1> DEFINE f == [x \in S |-> x]
<1>1. f \in Injection(S, T) /\ \A x \in S : Size[f[x][2]] = Size[x[2]]
  BY DEF Injection, IsInjective
<1> HIDE DEF f
<1>2. QED
  BY <1>1, FitsInto

(* One more file takes its size.                                           *)
LEMMA OneMoreFits ==
  ASSUME NEW T, IsFiniteSet(T), \A x \in T : Size[x[2]] \in Nat,
         NEW x, Size[x[2]] \in Nat, NEW S \in SUBSET (T \cup {x})
  PROVE  /\ Bytes(S) \in Nat /\ Bytes(T) \in Nat /\ Bytes(S) <= Bytes(T) + Size[x[2]]
         /\ Cardinality(S) \in Nat /\ Cardinality(T) \in Nat
         /\ Cardinality(S) <= Cardinality(T) + 1
<1>0. IsFiniteSet(T \cup {x}) /\ \A y \in T \cup {x} : Size[y[2]] \in Nat
  BY FS_AddElement
<1>1. /\ Bytes(S) \in Nat /\ Bytes(S) <= Bytes(T \cup {x}) /\ Bytes(T \cup {x}) \in Nat
      /\ Cardinality(S) \in Nat /\ Cardinality(S) <= Cardinality(T \cup {x})
      /\ Cardinality(T \cup {x}) \in Nat
  BY <1>0, PartFits
<1>2. Bytes(T) \in Nat /\ Cardinality(T) \in Nat
  BY PartFits
<1>3. Bytes(T \cup {x}) <= Bytes(T) + Size[x[2]] /\ Cardinality(T \cup {x}) <= Cardinality(T) + 1
  <2>1. CASE x \in T
    <3>1. T \cup {x} = T
      BY <2>1
    <3>2. QED
      BY <1>2, <3>1
  <2>2. CASE x \notin T
    <3>1. (T \cup {x}) \ {x} = T
      BY <2>2
    <3>2. Cardinality(Pile(T \cup {x})) = Size[x[2]] + Cardinality(Pile(T))
      BY <1>0, <3>1, PileRemove
    <3>3. Bytes(T \cup {x}) = Cardinality(Pile(T \cup {x})) /\ Bytes(T) = Cardinality(Pile(T))
      BY <1>0, SumIsPile
    <3>4. Cardinality(T \cup {x}) = Cardinality(T) + 1
      BY <2>2, FS_AddElement
    <3>5. QED
      BY <1>2, <3>2, <3>3, <3>4
  <2>3. QED
    BY <2>1, <2>2
<1>4. QED
  BY <1>1, <1>2, <1>3

(* What lies in the root is finite and has sizes.                          *)
LEMMA StoredSizes ==
  ASSUME NEW fs, NEW ts
  PROVE  /\ IsFiniteSet(Stored(fs, ts)) /\ \A x \in Stored(fs, ts) : Size[x[2]] \in Nat
         /\ Bytes(Stored(fs, ts)) \in Nat /\ Cardinality(Stored(fs, ts)) \in Nat
<1> DEFINE S == Namespaces \X Keys \X {"record", "temp"}
           T == (Namespaces \X Keys) \X {"record", "temp"}
<1>1. IsFiniteSet(S)
  <2>1. IsFiniteSet({"record", "temp"})
    <3>1. IsFiniteSet({"record"} \cup {"temp"})
      BY FS_Singleton, FS_AddElement
    <3>2. {"record"} \cup {"temp"} = {"record", "temp"}
      OBVIOUS
    <3>3. QED
      BY <3>1, <3>2
  <2>2. IsFiniteSet(T)
    BY <2>1, StoreConstants, FS_Product
  <2> DEFINE h == [x \in T |-> <<x[1][1], x[1][2], x[2]>>]
  <2>3. h \in Surjection(T, S)
    <3>1. \A x \in T : h[x] \in S
      OBVIOUS
    <3>2. ASSUME NEW y \in S PROVE \E x \in T : h[x] = y
      <4>1. <<<<y[1], y[2]>>, y[3]>> \in T /\ h[<<<<y[1], y[2]>>, y[3]>>] = y
        OBVIOUS
      <4>2. QED
        BY <4>1
    <3>3. QED
      BY <3>1, <3>2 DEF Surjection
  <2>4. QED
    BY <2>2, <2>3, FS_Surjection
<1>2. Stored(fs, ts) \subseteq S /\ IsFiniteSet(Stored(fs, ts))
  BY <1>1, FS_Subset DEF Stored
<1>3. \A x \in Stored(fs, ts) : Size[x[2]] \in Nat
  BY <1>2, StoreConstants
<1>4. QED
  BY <1>2, <1>3, PartFits
-----------------------------------------------------------------------------
(* Room.                                                                   *)
TmpMove(p) == WriteTemp(p) \/ \A m \in Namespaces : tmp'[m] \in {tmp[m], NoTmp}

(* Temporary files go, except where one is written. *)
LEMMA TmpKept ==
  ASSUME StoreInv, NEW p \in Procs, Step(p)
  PROVE  TmpMove(p)
<1> USE DEF disk, locks, TmpMove
<1>0. tmp \in [Namespaces -> {NoTmp} \cup [key : Keys, state : {"part", "whole", "synced"}]]
  BY DEF StoreInv, FilesWhole
<1>1. CASE EvictUnlink(p)
  BY <1>0, <1>1 DEF EvictUnlink
<1>2. CASE EvictFails(p)
  BY <1>0, <1>2 DEF EvictFails
<1>3. CASE OpenNewDir(p)
  <2>1. enforce(p, "newdir", "mkdir", 0, 0, 1)
    BY <1>3 DEF OpenNewDir
  <2>2. tmp' = ScannedTmp(p)
    BY <2>1 DEF enforce
  <2>3. QED
    BY <1>0, <2>2 DEF ScannedTmp
<1>4. CASE OpenMkdir(p)
  BY <1>0, <1>4 DEF OpenMkdir
<1>5. CASE OpenLock(p)
  BY <1>0, <1>5 DEF OpenLock
<1>6. CASE RecoverTemp(p)
  BY <1>0, <1>6 DEF RecoverTemp
<1>7. CASE RecoverRecord(p)
  BY <1>0, <1>7 DEF RecoverRecord
<1>8. CASE RecoverEnds(p)
  BY <1>0, <1>8 DEF RecoverEnds
<1>9. CASE OpenEnforce(p)
  <2>1. enforce(p, "enforce", "commit", 0, 0, 0)
    BY <1>9 DEF OpenEnforce
  <2>2. tmp' = ScannedTmp(p)
    BY <2>1 DEF enforce
  <2>3. QED
    BY <1>0, <2>2 DEF ScannedTmp
<1>10. CASE OpenCommit(p)
  BY <1>0, <1>10 DEF OpenCommit
<1>11. CASE OpenUndo(p)
  BY <1>0, <1>11 DEF OpenUndo
<1>12. CASE WriteRoom(p)
  BY <1>0, <1>12 DEF WriteRoom
<1>13. CASE WriteQuota(p)
  <2>1. enforce(p, "quota", "temp", Size[proc[p].key], 1, 0)
    BY <1>13 DEF WriteQuota
  <2>2. tmp' = ScannedTmp(p)
    BY <2>1 DEF enforce
  <2>3. QED
    BY <1>0, <2>2 DEF ScannedTmp
<1>14. CASE WriteRefused(p)
  BY <1>0, <1>14 DEF WriteRefused
<1>15. CASE WriteTemp(p)
  BY <1>15
<1>16. CASE WriteRename(p)
  BY <1>0, <1>16 DEF WriteRename
<1>17. CASE WriteSync(p)
  BY <1>0, <1>17 DEF WriteSync
<1>18. CASE WriteIndex(p)
  BY <1>0, <1>18 DEF WriteIndex
<1>19. CASE WriteFails(p)
  BY <1>0, <1>19 DEF WriteFails
<1>20. CASE close(p)
  BY <1>0, <1>20 DEF close
<1>21. CASE Crash(p)
  BY <1>0, <1>21 DEF Crash
<1>22. ASSUME NEW n \in Namespaces, NEW l \in Limits, OpenBegin(p, n, l)
      PROVE  TmpMove(p)
  BY <1>0, <1>22 DEF OpenBegin
<1>23. ASSUME NEW k \in Keys, WriteBegin(p, k)
      PROVE  TmpMove(p)
  BY <1>0, <1>23 DEF WriteBegin
<1>24. ASSUME NEW k \in Keys, pin(p, k)
      PROVE  TmpMove(p)
  BY <1>0, <1>24 DEF pin
<1>25. ASSUME NEW k \in Keys, unpin(p, k)
      PROVE  TmpMove(p)
  BY <1>0, <1>25 DEF unpin
<1>26. QED
  BY <1>1, <1>2, <1>3, <1>4, <1>5, <1>6, <1>7, <1>8, <1>9, <1>10, <1>11, <1>12, <1>13,
     <1>14, <1>15, <1>16, <1>17, <1>18, <1>19, <1>20, <1>21, <1>22, <1>23, <1>24, <1>25 DEF Step, Inside

(* A step that only takes away, by names.                                   *)
LEMMA StoredShrinks ==
  ASSUME \A n \in Namespaces : tmp'[n] \in {tmp[n], NoTmp},
         \A n \in Namespaces, k \in Keys : file'[n][k] \in {file[n][k], "none"}
  PROVE  Stored(file, tmp)' \subseteq Stored(file, tmp)
<1>1. ASSUME NEW t \in Stored(file, tmp)' PROVE t \in Stored(file, tmp)
  <2>1. t[1] \in Namespaces /\ t[2] \in Keys /\ t \in Namespaces \X Keys \X {"record", "temp"}
    BY DEF Stored
  <2>2. /\ tmp'[t[1]] \in {tmp[t[1]], NoTmp}
        /\ file'[t[1]][t[2]] \in {file[t[1]][t[2]], "none"}
    BY <2>1
  <2>3. QED
    BY <2>1, <2>2 DEF Stored
<1>2. QED
  BY <1>1

(* What a process adds: a temporary file, renamed at the end.               *)
StoredMove(p) ==
    \/ Stored(file, tmp)' \subseteq Stored(file, tmp)
    \/ /\ Pc(p) = "temp" /\ Pc(p)' = "fill"
       /\ Stored(file, tmp)' \subseteq Stored(file, tmp) \cup {<<Ns(p), proc[p].key, "temp">>}
    \/ /\ Pc(p) = "rename" /\ Pc(p)' = "dirsync"
       /\ <<Ns(p), proc[p].key, "temp">> \in Stored(file, tmp)
       /\ Stored(file, tmp)' \subseteq (Stored(file, tmp) \ {<<Ns(p), proc[p].key, "temp">>})
                                         \cup {<<Ns(p), proc[p].key, "record">>}

(* So it is for every step of a process.                                    *)
LEMMA StoredMoves ==
  ASSUME StoreInv, NEW p \in Procs, Step(p)
  PROVE  StoredMove(p)
<1>0. /\ tmp \in [Namespaces -> {NoTmp} \cup [key : Keys, state : {"part", "whole", "synced"}]]
      /\ file \in [Namespaces -> [Keys -> FileStates]] /\ proc \in [Procs -> ProcRecord]
      /\ WriteOwned(p) /\ (Pc(p) # "off" => Ns(p) \in Namespaces)
  BY DEF StoreInv, FilesWhole, TypeOK, LocksHeld, WritesOwned
<1>1. CASE WriteTemp(p)
  <2>1. /\ Ns(p) \in Namespaces /\ proc[p].key \in Keys /\ file' = file
        /\ Pc(p) \in {"temp", "fill", "sync"}
        /\ Pc(p) # "temp" => tmp[Ns(p)] # NoTmp /\ tmp[Ns(p)].key = proc[p].key
        /\ Pc(p) = "temp" => Pc(p)' = "fill"
    BY <1>0, <1>1, StoreConstants DEF WriteTemp, At, Pc, Goto, WriteOwned, Writing, ProcRecord, NoTmp
  <2>2. PICK st \in {"part", "whole", "synced"} :
           tmp' = [tmp EXCEPT ![Ns(p)] = [key |-> proc[p].key, state |-> st]]
    BY <1>1 DEF WriteTemp, SetTmp
  <2>3. /\ \A m \in Namespaces \ {Ns(p)} : tmp'[m] = tmp[m]
        /\ tmp'[Ns(p)].key = proc[p].key
    BY <1>0, <2>1, <2>2
  <2>4. ASSUME NEW t \in Stored(file, tmp)'
        PROVE  t \in Stored(file, tmp) \/ t = <<Ns(p), proc[p].key, "temp">>
    <3>1. t \in Namespaces \X Keys \X {"record", "temp"}
      BY DEF Stored
    <3>2. CASE t[3] = "record" \/ t[1] # Ns(p)
      BY <2>1, <2>3, <3>1, <3>2 DEF Stored
    <3>3. CASE t[3] # "record" /\ t[1] = Ns(p)
      <4>1. t[3] = "temp" /\ t[2] = proc[p].key
        BY <2>3, <3>1, <3>3 DEF Stored
      <4>2. QED
        BY <3>1, <3>3, <4>1
    <3>4. QED
      BY <3>2, <3>3
  <2>5. CASE Pc(p) = "temp"
    BY <2>1, <2>4, <2>5 DEF StoredMove
  <2>6. CASE Pc(p) # "temp"
    <3>1. <<Ns(p), proc[p].key, "temp">> \in Stored(file, tmp)
      BY <2>1, <2>6 DEF Stored
    <3>2. QED
      BY <2>4, <3>1 DEF StoredMove
  <2>7. QED
    BY <2>5, <2>6
<1>2. CASE WriteRename(p)
  <2>1. /\ Ns(p) \in Namespaces /\ proc[p].key \in Keys /\ Pc(p) = "rename"
        /\ tmp[Ns(p)] # NoTmp /\ tmp[Ns(p)].key = proc[p].key
    BY <1>0, <1>2, StoreConstants DEF WriteRename, At, Pc, WriteOwned, Writing, NoTmp
  <2>2. /\ \A m \in Namespaces \ {Ns(p)} : tmp'[m] = tmp[m] /\ file'[m] = file[m]
        /\ tmp'[Ns(p)] = NoTmp
        /\ \A k \in Keys \ {proc[p].key} : file'[Ns(p)][k] = file[Ns(p)][k]
        /\ Pc(p)' = "dirsync"
    BY <1>0, <1>2, <2>1 DEF WriteRename, Goto, Pc, ProcRecord
  <2>3. <<Ns(p), proc[p].key, "temp">> \in Stored(file, tmp)
    BY <2>1 DEF Stored
  <2>4. ASSUME NEW t \in Stored(file, tmp)'
        PROVE  \/ t \in Stored(file, tmp) /\ t # <<Ns(p), proc[p].key, "temp">>
               \/ t = <<Ns(p), proc[p].key, "record">>
    <3>1. t \in Namespaces \X Keys \X {"record", "temp"}
      BY DEF Stored
    <3>2. CASE t[1] # Ns(p)
      BY <2>2, <3>1, <3>2 DEF Stored
    <3>3. CASE t[1] = Ns(p)
      <4>1. t[3] = "record"
        BY <2>2, <3>3 DEF Stored
      <4>2. QED
        BY <2>2, <3>1, <3>3, <4>1 DEF Stored
    <3>4. QED
      BY <3>2, <3>3
  <2>5. QED
    BY <2>1, <2>2, <2>3, <2>4 DEF StoredMove
<1>3. CASE ~WriteTemp(p) /\ ~WriteRename(p)
  <2>1. \A n \in Namespaces : tmp'[n] \in {tmp[n], NoTmp}
    BY <1>3, TmpKept DEF TmpMove
  <2>2. \A n \in Namespaces, k \in Keys : file'[n][k] \in {file[n][k], "none"}
    <3>1. CASE file' = file
      BY <3>1
    <3>2. ASSUME NEW m \in Namespaces, NEW j \in Keys, FileGone(m, j)
          PROVE  \A n \in Namespaces, k \in Keys : file'[n][k] \in {file[n][k], "none"}
      BY <1>0, <3>2 DEF FileGone
    <3>3. QED
      BY <1>3, <3>1, <3>2, FileMoves DEF FilesMove
  <2>3. QED
    BY <2>1, <2>2, StoredShrinks DEF StoredMove
<1>4. QED
  BY <1>1, <1>2, <1>3
(* Room stays room, and a temporary file takes what was kept for it.        *)
LEMMA FitsMoves ==
  ASSUME StoreInv, NEW p \in Procs, Step(p), NEW l \in Limits
  PROVE  /\ Pc(p) # "temp" => \A b, r \in Nat : Fits(l, b, r) => Fits(l, b, r)'
         /\ Pc(p) = "temp" /\ Fits(l, Size[proc[p].key], 1) => Fits(l, 0, 0)'
<1> DEFINE S == Stored(file, tmp)
           T == Stored(file, tmp)'
<1>0. l.bytes \in Nat /\ l.records \in Nat
  BY StoreConstants
<1>1. /\ IsFiniteSet(S) /\ \A x \in S : Size[x[2]] \in Nat
      /\ Bytes(S) \in Nat /\ Cardinality(S) \in Nat
  BY StoredSizes
<1>2. IsFiniteSet(T) /\ Bytes(T) \in Nat /\ Cardinality(T) \in Nat
  BY StoredSizes
<1> HIDE DEF S, T
<1>3. Fits(l, 0, 0)' <=> Bytes(T) <= l.bytes /\ Cardinality(T) <= l.records
  BY <1>0, <1>2 DEF Fits, T
<1>4. \A b, r \in Nat : Fits(l, b, r)' <=> Bytes(T) + b <= l.bytes /\ Cardinality(T) + r <= l.records
  BY DEF Fits, T
<1>5. \A b, r : Fits(l, b, r) <=> Bytes(S) + b <= l.bytes /\ Cardinality(S) + r <= l.records
  BY DEF Fits, S
<1>6. ASSUME Bytes(T) <= Bytes(S), Cardinality(T) <= Cardinality(S)
      PROVE  \A b, r \in Nat : Fits(l, b, r) => Fits(l, b, r)'
  BY <1>0, <1>1, <1>2, <1>4, <1>5, <1>6
<1>7. CASE T \subseteq S
  <2>1. Bytes(T) <= Bytes(S) /\ Cardinality(T) <= Cardinality(S)
    BY <1>1, <1>7, PartFits
  <2>2. ASSUME Pc(p) = "temp", Fits(l, Size[proc[p].key], 1) PROVE Fits(l, 0, 0)'
    <3>1. proc[p].key \in Keys
      BY <2>2 DEF StoreInv, WritesOwned, WriteOwned, Writing
    <3>2. Size[proc[p].key] \in Nat
      BY <3>1, StoreConstants
    <3>3. QED
      BY <1>0, <1>1, <1>2, <1>3, <1>5, <2>1, <2>2, <3>2
  <2>3. QED
    BY <1>6, <2>1, <2>2
<1>8. CASE Pc(p) = "temp" /\ T \subseteq S \cup {<<Ns(p), proc[p].key, "temp">>}
  <2>1. proc[p].key \in Keys
    BY <1>8 DEF StoreInv, WritesOwned, WriteOwned, Writing
  <2>2. Size[proc[p].key] \in Nat
    BY <2>1, StoreConstants
  <2>3. Bytes(T) <= Bytes(S) + Size[proc[p].key] /\ Cardinality(T) <= Cardinality(S) + 1
    <3> DEFINE x == <<Ns(p), proc[p].key, "temp">>
    <3>1. x[2] = proc[p].key
      OBVIOUS
    <3> HIDE DEF x
    <3>2. T \in SUBSET (S \cup {x})
      BY <1>8 DEF x
    <3>3. QED
      BY <1>1, <2>2, <3>1, <3>2, OneMoreFits
  <2>4. QED
    BY <1>0, <1>1, <1>2, <1>3, <1>5, <1>8, <2>2, <2>3
<1>9. CASE /\ Pc(p) = "rename" /\ <<Ns(p), proc[p].key, "temp">> \in S
           /\ T \subseteq (S \ {<<Ns(p), proc[p].key, "temp">>}) \cup {<<Ns(p), proc[p].key, "record">>}
  <2> DEFINE x == <<Ns(p), proc[p].key, "temp">>
             y == <<Ns(p), proc[p].key, "record">>
             f == [t \in T |-> IF t = y THEN x ELSE t]
  <2>1. x[2] = y[2] /\ x \in S /\ \A t \in T : t # y => t \in S /\ t # x
    BY <1>9
  <2> HIDE DEF x, y
  <2>2. f \in [T -> S] /\ (\A t, u \in T : f[t] = f[u] => t = u) /\ \A t \in T : Size[f[t][2]] = Size[t[2]]
    BY <2>1
  <2> HIDE DEF f
  <2>3. f \in Injection(T, S)
    BY <2>2, Zenon DEF Injection, IsInjective
  <2>4. Bytes(T) <= Bytes(S) /\ Cardinality(T) <= Cardinality(S)
    BY <1>1, <2>2, <2>3, FitsInto
  <2>5. QED
    BY <1>6, <1>9, <2>4
<1>10. QED
  BY <1>7, <1>8, <1>9, StoredMoves DEF StoredMove, S, T

(* What a process has checked the root to have room for.                    *)
RoomKept(p) ==
    /\ Pc(p) = "commit" => Fits(Lim(p), 0, 0)
    /\ Pc(p) = "temp" => Fits(Lim(p), Size[proc[p].key], 1)

(* A process goes on only with the room it needs. *)
LEMMA RoomKeptOwn ==
  ASSUME StoreInv, NEW p \in Procs, Step(p)
  PROVE  RoomKept(p)'
<1> USE DEF At, Pc, Lim, disk, locks
<1>0. proc \in [Procs -> ProcRecord] /\ VictimOut(p) /\ RoomKept(p)
  BY DEF StoreInv, TypeOK, VictimsOut, RoomLeft, RoomKept
<1> USE DEF ProcRecord
<1>1. CASE EvictUnlink(p)
  <2>1. Pc(p)' \in {"recover", "enforce", "room", "quota", "undo", "refused"}
    BY <1>0, <1>1 DEF EvictUnlink, VictimOut, GiveUp
  <2>2. QED
    BY <2>1 DEF RoomKept
<1>2. CASE EvictFails(p)
  <2>1. Pc(p)' \in {"recover", "enforce", "room", "quota", "undo", "refused"}
    BY <1>0, <1>2 DEF EvictFails, VictimOut, GiveUp
  <2>2. QED
    BY <2>1 DEF RoomKept
<1>3. CASE OpenNewDir(p)
  <2>1. enforce(p, "newdir", "mkdir", 0, 0, 1)
    BY <1>3 DEF OpenNewDir
  <2>2. /\ Pc(p) = "newdir" /\ GiveUp(p) \in {"undo", "refused"}
        /\ UNCHANGED proc \/ EvictOwn(p) \/ Goto(p, GiveUp(p))
           \/ (/\ Goto(p, "mkdir") /\ file' = file
               /\ Holds(UsageOf(dir', file, tmp'), Lim(p), 0, 0, 1))
    BY <2>1 DEF enforce, GiveUp
  <2>3. QED
    BY <1>0, <2>2 DEF EvictOwn, Goto, RoomKept
<1>4. CASE OpenMkdir(p)
  BY <1>0, <1>4 DEF OpenMkdir, Goto, Fits, RoomKept
<1>5. CASE OpenLock(p)
  BY <1>0, <1>5 DEF OpenLock, Goto, Fits, RoomKept
<1>6. CASE RecoverTemp(p)
  BY <1>0, <1>6 DEF RecoverTemp, Goto, Fits, RoomKept
<1>7. CASE RecoverRecord(p)
  <2>1. /\ Pc(p) = "recover" /\ (UNCHANGED proc \/ EvictOwn(p) \/ Goto(p, "undo"))
    BY <1>7 DEF RecoverRecord, MakeRoom, GiveUp
  <2>2. QED
    BY <1>0, <2>1 DEF EvictOwn, Goto, RoomKept
<1>8. CASE RecoverEnds(p)
  BY <1>0, <1>8 DEF RecoverEnds, Goto, Fits, RoomKept
<1>9. CASE OpenEnforce(p)
  <2>1. enforce(p, "enforce", "commit", 0, 0, 0)
    BY <1>9 DEF OpenEnforce
  <2>2. /\ Pc(p) = "enforce" /\ GiveUp(p) \in {"undo", "refused"}
        /\ UNCHANGED proc \/ EvictOwn(p) \/ Goto(p, GiveUp(p))
           \/ (/\ Goto(p, "commit") /\ file' = file
               /\ Holds(UsageOf(dir', file, tmp'), Lim(p), 0, 0, 0))
    BY <2>1 DEF enforce, GiveUp
  <2>3. CASE UNCHANGED proc \/ EvictOwn(p) \/ Goto(p, GiveUp(p))
    BY <1>0, <2>2, <2>3 DEF EvictOwn, Goto, RoomKept
  <2>4. CASE /\ Goto(p, "commit") /\ file' = file
             /\ Holds(UsageOf(dir', file, tmp'), Lim(p), 0, 0, 0)
    <3>1. Pc(p)' = "commit" /\ Lim(p)' = Lim(p) /\ proc'[p].key = proc[p].key
      BY <1>0, <2>4 DEF Goto
    <3>2. UsageOf(dir', file, tmp').bytes = Bytes(Stored(file, tmp))' /\ UsageOf(dir', file, tmp').records = Cardinality(Stored(file, tmp))'
      BY <2>4 DEF UsageOf
    <3>3. QED
      BY <2>4, <3>1, <3>2 DEF Holds, Fits, RoomKept
  <2>5. QED
    BY <2>2, <2>3, <2>4
<1>10. CASE OpenCommit(p)
  BY <1>0, <1>10 DEF OpenCommit, Goto, Fits, RoomKept
<1>11. CASE OpenUndo(p)
  <2>1. proc'[p].pc = "off"
    BY <1>0, <1>11 DEF OpenUndo, Off
  <2>2. QED
    BY <2>1 DEF RoomKept
<1>12. CASE WriteRoom(p)
  <2>1. /\ Pc(p) = "room"
        /\ EvictOwn(p) \/ Goto(p, "refused") \/ Goto(p, "quota")
    BY <1>12 DEF WriteRoom, MakeRoom, GiveUp
  <2>2. QED
    BY <1>0, <2>1 DEF EvictOwn, Goto, RoomKept
<1>13. CASE WriteQuota(p)
  <2>1. enforce(p, "quota", "temp", Size[proc[p].key], 1, 0)
    BY <1>13 DEF WriteQuota
  <2>2. /\ Pc(p) = "quota" /\ GiveUp(p) \in {"undo", "refused"}
        /\ UNCHANGED proc \/ EvictOwn(p) \/ Goto(p, GiveUp(p))
           \/ (/\ Goto(p, "temp") /\ file' = file
               /\ Holds(UsageOf(dir', file, tmp'), Lim(p), Size[proc[p].key], 1, 0))
    BY <2>1 DEF enforce, GiveUp
  <2>3. CASE UNCHANGED proc \/ EvictOwn(p) \/ Goto(p, GiveUp(p))
    BY <1>0, <2>2, <2>3 DEF EvictOwn, Goto, RoomKept
  <2>4. CASE /\ Goto(p, "temp") /\ file' = file
             /\ Holds(UsageOf(dir', file, tmp'), Lim(p), Size[proc[p].key], 1, 0)
    <3>1. Pc(p)' = "temp" /\ Lim(p)' = Lim(p) /\ proc'[p].key = proc[p].key
      BY <1>0, <2>4 DEF Goto
    <3>2. UsageOf(dir', file, tmp').bytes = Bytes(Stored(file, tmp))' /\ UsageOf(dir', file, tmp').records = Cardinality(Stored(file, tmp))'
      BY <2>4 DEF UsageOf
    <3>3. QED
      BY <2>4, <3>1, <3>2 DEF Holds, Fits, RoomKept
  <2>5. QED
    BY <2>2, <2>3, <2>4
<1>14. CASE WriteRefused(p)
  BY <1>0, <1>14 DEF WriteRefused, Goto, Fits, RoomKept
<1>15. CASE WriteTemp(p)
  <2>1. Pc(p)' \in {"fill", "sync", "rename"}
    BY <1>0, <1>15 DEF WriteTemp, Goto
  <2>2. QED
    BY <2>1 DEF RoomKept
<1>16. CASE WriteRename(p)
  BY <1>0, <1>16 DEF WriteRename, Goto, Fits, RoomKept
<1>17. CASE WriteSync(p)
  BY <1>0, <1>17 DEF WriteSync, Goto, Fits, RoomKept
<1>18. CASE WriteIndex(p)
  BY <1>0, <1>18 DEF WriteIndex, Goto, Fits, RoomKept
<1>19. CASE WriteFails(p)
  BY <1>0, <1>19 DEF WriteFails, Goto, Fits, RoomKept
<1>20. CASE close(p)
  <2>1. proc'[p].pc = "off"
    BY <1>0, <1>20 DEF close, Off
  <2>2. QED
    BY <2>1 DEF RoomKept
<1>21. CASE Crash(p)
  <2>1. proc'[p].pc = "off"
    BY <1>0, <1>21 DEF Crash, Off
  <2>2. QED
    BY <2>1 DEF RoomKept
<1>22. ASSUME NEW n \in Namespaces, NEW l \in Limits, OpenBegin(p, n, l)
      PROVE  RoomKept(p)'
  <2>1. Pc(p)' \in {"newdir", "lockns"}
    BY <1>0, <1>22 DEF OpenBegin, Off
  <2>2. QED
    BY <2>1 DEF RoomKept
<1>23. ASSUME NEW k \in Keys, WriteBegin(p, k)
      PROVE  RoomKept(p)'
  BY <1>0, <1>23 DEF WriteBegin, Goto, Fits, RoomKept
<1>24. ASSUME NEW k \in Keys, pin(p, k)
      PROVE  RoomKept(p)'
  BY <1>0, <1>24 DEF pin, Goto, Fits, RoomKept
<1>25. ASSUME NEW k \in Keys, unpin(p, k)
      PROVE  RoomKept(p)'
  BY <1>0, <1>25 DEF unpin, Goto, Fits, RoomKept
<1>26. QED
  BY <1>1, <1>2, <1>3, <1>4, <1>5, <1>6, <1>7, <1>8, <1>9, <1>10, <1>11, <1>12, <1>13,
     <1>14, <1>15, <1>16, <1>17, <1>18, <1>19, <1>20, <1>21, <1>22, <1>23, <1>24, <1>25 DEF Step, Inside

(* What lies in the root is within the limits.                              *)
LEMMA RoomLeftStep == StoreInv /\ [Next]_vars => RoomLeft'
<1> SUFFICES ASSUME StoreInv, [Next]_vars PROVE RoomLeft'
  OBVIOUS
<1>0. /\ RoomLeft /\ \A s \in Procs : RoomKept(s)
      /\ limits \in Limits \cup {NoLimits} /\ LocksHeld /\ LimitsAgree
  BY DEF StoreInv, RoomLeft, RoomKept, TypeOK, LimitsFixed
<1>1. ASSUME NEW p \in Procs, Step(p) PROVE RoomLeft'
  <2>1. ASSUME NEW s \in Procs PROVE RoomKept(s)'
    <3>1. CASE s = p
      BY <1>1, <3>1, RoomKeptOwn
    <3>2. CASE s # p /\ Pc(s) \in {"commit", "temp"}
      <4>1. proc'[s] = proc[s]
        BY <1>1, <3>2, OthersKept DEF OtherKept
      <4>2. Pc(p) \in {"off", "open"} /\ Lim(s) \in Limits
        BY <1>0, <3>2 DEF LocksHeld
      <4>3. \A b, r \in Nat : Fits(Lim(s), b, r) => Fits(Lim(s), b, r)'
        <5>1. Lim(s)' = Lim(s) /\ Pc(p) # "temp"
          BY <4>1, <4>2 DEF Lim
        <5>2. \A l \in Limits : \A b, r \in Nat : Fits(l, b, r) => Fits(l, b, r)'
          BY <1>1, <5>1, FitsMoves
        <5>3. QED
          BY <4>2, <5>1, <5>2 DEF Fits
      <4>4. Pc(s) = "temp" => Size[proc[s].key] \in Nat
        <5>1. Pc(s) = "temp" => proc[s].key \in Keys
          BY DEF StoreInv, WritesOwned, WriteOwned, Writing
        <5>2. QED
          BY <5>1, StoreConstants
      <4>5. QED
        BY <1>0, <4>1, <4>3, <4>4 DEF RoomKept, Pc, Fits
    <3>3. CASE s # p /\ Pc(s) \notin {"commit", "temp"}
      <4>1. proc'[s] = proc[s]
        BY <1>1, <3>3, OthersKept DEF OtherKept
      <4>2. QED
        BY <3>3, <4>1 DEF RoomKept, Pc
    <3>4. QED
      BY <3>1, <3>2, <3>3
  <2>2. limits' # NoLimits /\ ~lapsed' => Fits(limits, 0, 0)'
    <3>1. CASE OpenCommit(p)
      <4>1. /\ limits' = Lim(p) /\ Fits(Lim(p), 0, 0) /\ UNCHANGED <<file, tmp>>
        BY <1>0, <3>1 DEF OpenCommit, At, Pc, RoomKept
      <4>2. QED
        BY <4>1 DEF Fits
    <3>2. CASE limits' = limits /\ limits # NoLimits /\ ~lapsed
      <4>1. limits \in Limits /\ Fits(limits, 0, 0)
        BY <1>0, <3>2 DEF RoomLeft
      <4>2. Pc(p) = "temp" => limits = Lim(p)
        BY <1>0 DEF LimitsAgree, Serves
      <4>3. Pc(p) = "temp" => Fits(limits, Size[proc[p].key], 1)
        BY <1>0, <4>2 DEF RoomKept
      <4>4. \A l \in Limits : /\ Pc(p) # "temp" => \A b, r \in Nat : Fits(l, b, r) => Fits(l, b, r)'
                              /\ Pc(p) = "temp" /\ Fits(l, Size[proc[p].key], 1) => Fits(l, 0, 0)'
        BY <1>1, FitsMoves
      <4>5. \A l \in Limits : Fits(l, 0, 0) /\ (Pc(p) = "temp" => Fits(l, Size[proc[p].key], 1)) =>
                                 Fits(l, 0, 0)'
        BY <4>4
      <4>6. QED
        BY <3>2, <4>1, <4>3, <4>5 DEF Fits
    <3>3. QED
      BY <1>1, <3>1, <3>2, PcMoves DEF PcMove
  <2>3. QED
    BY <2>1, <2>2 DEF RoomLeft, RoomKept
<1>2. CASE Outage
  <2>1. lapsed' /\ \A s \in Procs : Pc(s)' = "off"
    BY <1>2 DEF Outage, Off, Pc
  <2>2. QED
    BY <2>1 DEF RoomLeft
<1>3. CASE UNCHANGED vars
  BY <1>0, <1>3 DEF vars, disk, locks, RoomLeft, Fits, Pc, Lim
<1>4. QED
  BY <1>1, <1>2, <1>3, NextCases
-----------------------------------------------------------------------------
(* The invariant holds in the beginning, where a root may have somebody     *)
(* else's file in it.                                                      *)
LEMMA StoreInit == Init => StoreInv
<1> SUFFICES ASSUME Init PROVE StoreInv
  OBVIOUS
<1>1. PICK A \in SUBSET Foreign :
         /\ dir = [n \in Namespaces |-> IF \E k \in Keys : <<n, k>> \in A THEN "ready" ELSE "none"]
         /\ file = [n \in Namespaces |-> [k \in Keys |->
                      IF <<n, k>> \in A THEN "alien" ELSE "none"]]
  BY DEF Init
<1>2. /\ tmp = [n \in Namespaces |-> NoTmp] /\ limits = NoLimits /\ lapsed = FALSE
      /\ was = [n \in Namespaces |-> [k \in Keys |-> {}]] /\ adrift = {}
      /\ rootlock = Nobody /\ nslock = [n \in Namespaces |-> Nobody]
      /\ proc = [p \in Procs |-> Off] /\ entries = [p \in Procs |-> {}]
      /\ pins = [p \in Procs |-> [k \in Keys |-> 0]]
  BY DEF Init
<1>3. proc \in [Procs -> ProcRecord] /\ \A p \in Procs : proc[p] = Off
  BY <1>2 DEF Off, ProcRecord, Pcs
<1>4. TypeOK
  <2>1. \A p \in Procs : Pc(p) # "temp"
    BY <1>3 DEF Pc, Off
  <2>2. file \in [Namespaces -> [Keys -> FileStates]] /\ dir \in [Namespaces -> {"none", "bare", "ready"}]
    BY <1>1 DEF FileStates
  <2>3. \A n \in Namespaces : tmp[n].key \in Keys \cup {NoKey}
    BY <1>2 DEF NoTmp
  <2>4. QED
    BY <1>2, <1>3, <2>1, <2>2, <2>3 DEF TypeOK
<1>5. LocksHeld
  BY <1>2, <1>3, StoreConstants DEF LocksHeld, Off, Pc, Ns, Locked, Writing
<1>6. DirsReady
  BY <1>2, <1>3 DEF DirsReady, Off, Pc, Ns
<1>7. VictimsOut /\ WritesOwned /\ IndexPinned
  BY <1>2, <1>3 DEF VictimsOut, VictimOut, WritesOwned, WriteOwned, IndexPinned, Indexed, Off, Pc, Ns,
                    Locked, Writing
<1>8. FilesWhole
  BY <1>1, <1>2 DEF FilesWhole
<1>9. LimitsFixed
  BY <1>3 DEF LimitsFixed, LimitsAgree, Serves, Off, Pc
<1>10. RoomLeft
  BY <1>2, <1>3 DEF RoomLeft, Off, Pc
<1>11. QED
  BY <1>4, <1>5, <1>6, <1>7, <1>8, <1>9, <1>10 DEF StoreInv

(* The invariant is kept by every step.                                     *)
LEMMA StoreStep == StoreInv /\ [Next]_vars => StoreInv'
<1> SUFFICES ASSUME StoreInv, [Next]_vars PROVE StoreInv'
  OBVIOUS
<1>1. /\ DiskTypes' /\ CallTypes' /\ IndexTypes' /\ FilesWhole'
      /\ VictimsOut' /\ WritesOwned' /\ IndexPinned'
  BY DiskTypesStep, CallTypesStep, IndexTypesStep, FilesWholeStep, CallsSoundStep
<1>2. LocksHeld' /\ DirsReady' /\ LimitsFixed' /\ RoomLeft'
  BY LocksStep, DirsReadyStep, LimitsFixedStep, RoomLeftStep
<1>3. \A n \in Namespaces : tmp'[n].key \in Keys \cup {NoKey}
  BY <1>1 DEF FilesWhole, NoTmp
<1>4. \A p \in Procs : Pc(p)' = "temp" => tmp'[Ns(p)'] = NoTmp
  BY <1>1 DEF WritesOwned, WriteOwned, Locked, Writing
<1>5. TypeOK'
  BY <1>1, <1>3, <1>4, PastTypesStep DEF DiskTypes, PastTypes, CallTypes, IndexTypes, TypeOK, Pc, Ns
<1>6. QED
  BY <1>1, <1>2, <1>5 DEF StoreInv

(* The invariant holds always, whichever unsynced unlinks and renames a     *)
(* machine stop undoes, and whoever wrote larger records under other limits. *)
THEOREM StoreInvariant == Spec => []StoreInv
BY StoreInit, StoreStep, PTL DEF Spec

(* NeverTorn: contents are synced before they get their name, so no stop of *)
(* the machine, between whichever operations, leaves a torn record.        *)
THEOREM RecordsAreWhole == Spec => []NeverTorn
<1>1. StoreInv => NeverTorn
  BY DEF StoreInv, FilesWhole, NeverTorn
<1>2. QED
  BY <1>1, StoreInvariant, PTL

(* RootSound: what stores believe of the root is true (types, indexes,      *)
(* usage and limits), for any number of processes, crashes and outages;     *)
(* that the root is within its limits, from the first open after an outage  *)
(* that ended well.                                                        *)
THEOREM RootIsSound == Spec => []RootSound
<1>1. StoreInv => RootSound
  <2> SUFFICES ASSUME StoreInv PROVE RootSound
    OBVIOUS
  <2>1. IndexOnDisk
    BY DEF StoreInv, IndexPinned, Indexed, IndexOnDisk
  <2>2. ASSUME limits # NoLimits, ~lapsed
        PROVE  LET u == UsageOf(dir, file, tmp)
               IN  u.bytes <= limits.bytes /\ u.records <= limits.records
    <3>1. Fits(limits, 0, 0)
      BY <2>2 DEF StoreInv, RoomLeft
    <3>2. Bytes(Stored(file, tmp)) \in Nat /\ Cardinality(Stored(file, tmp)) \in Nat
      BY StoredSizes
    <3>3. QED
      BY <3>1, <3>2 DEF Fits, UsageOf
  <2>3. QED
    BY <2>1, <2>2 DEF StoreInv, LimitsFixed, RootSound, RootWithinLimits
<1>2. QED
  BY <1>1, StoreInvariant, PTL
-----------------------------------------------------------------------------
(* PrefixMap, implemented.                                                 *)
Kept(fs) == [n \in Namespaces |-> {k \in Keys : Valid(fs[n][k])}]

Lost == [n \in Namespaces |-> {k \in Keys : \E s \in was[n][k] : Valid(s)}]

Pinned == [n \in Namespaces |-> {k \in Keys : \E p \in Procs : Ns(p) = n /\ pins[p][k] > 0}]

(* The sums of the map are the sums of the store.                           *)
LEMMA MapSums ==
  ASSUME NEW Q
  PROVE  Map!Bytes(Q) = Bytes(Q) /\ Map!Cardinality(Q) = Cardinality(Q)
<1>1. Map!Bytes(Q) = Bytes(Q)
  BY Zenon DEF Map!Bytes, Bytes, Map!MapThenSumSet, MapThenSumSet, Map!MapThenFoldSet, MapThenFoldSet
<1>2. Map!Cardinality(Q) = Cardinality(Q)
  BY Zenon DEF Map!Cardinality, Cardinality
<1>3. QED
  BY <1>1, <1>2

(* The records of the map take no more room than what lies in the root.     *)
LEMMA RecordsFit ==
  ASSUME NEW fs, NEW ts
  PROVE  /\ Map!Bytes(Map!Records(Kept(fs))) \in Nat
         /\ Map!Bytes(Map!Records(Kept(fs))) <= Bytes(Stored(fs, ts))
         /\ Cardinality(Map!Records(Kept(fs))) \in Nat
         /\ Cardinality(Map!Records(Kept(fs))) <= Cardinality(Stored(fs, ts))
<1> DEFINE R == Map!Records(Kept(fs))
           S == Stored(fs, ts)
           f == [r \in R |-> <<r[1], r[2], "record">>]
<1>1. Map!Bytes(R) = Bytes(R)
  BY MapSums
<1>2. ASSUME NEW r \in R
      PROVE  /\ r = <<r[1], r[2]>> /\ r[1] \in Namespaces /\ r[2] \in Keys
             /\ f[r] \in S /\ f[r][1] = r[1] /\ f[r][2] = r[2]
  <2>1. r \in Namespaces \X Keys /\ r[2] \in Kept(fs)[r[1]]
    BY DEF Map!Records
  <2>2. fs[r[1]][r[2]] # "none"
    BY <2>1 DEF Kept, Valid
  <2>3. QED
    BY <2>1, <2>2 DEF Stored
<1>3. f \in [R -> S] /\ \A r, s \in R : f[r] = f[s] => r = s
  BY <1>2
<1>4. \A r \in R : Size[f[r][2]] = Size[r[2]]
  BY <1>2
<1>5. IsFiniteSet(S) /\ \A x \in S : Size[x[2]] \in Nat
  BY StoredSizes
<1> HIDE DEF f, R, S
<1>6. f \in Injection(R, S)
  BY <1>3, Zenon DEF Injection, IsInjective
<1>7. Bytes(R) \in Nat /\ Bytes(R) <= Bytes(S) /\ Cardinality(R) \in Nat /\ Cardinality(R) <= Cardinality(S)
  BY <1>4, <1>5, <1>6, FitsInto
<1>8. QED
  BY <1>1, <1>7 DEF R, S

(* What fits the limits is within them.                                    *)
LEMMA FitsWithin ==
  ASSUME NEW fs, NEW ts, NEW l \in Limits,
         Bytes(Stored(fs, ts)) <= l.bytes, Cardinality(Stored(fs, ts)) <= l.records
  PROVE  Map!Within(Map!Records(Kept(fs)), l)
<1>1. l # NoLimits /\ l.bytes \in Nat /\ l.records \in Nat
  BY StoreConstants
<1>2. Bytes(Stored(fs, ts)) \in Nat /\ Cardinality(Stored(fs, ts)) \in Nat
  BY StoredSizes
<1>3. QED
  BY <1>1, <1>2, RecordsFit, MapSums DEF Map!Within

(* The pins of a step that is not about pins, and whose they are.           *)
LEMMA PinsKept ==
  ASSUME StoreInv, StoreInv', NEW p \in Procs, Step(p), UNCHANGED pins
  PROVE  /\ Pinned' = Pinned
         /\ \A n \in Namespaces : \A k \in Pinned[n] : Valid(file'[n][k])
<1>1. ASSUME NEW s \in Procs, NEW k \in Keys, pins[s][k] > 0
      PROVE  Ns(s)' = Ns(s) /\ Valid(file'[Ns(s)][k])
  <2>1. Serves(s) /\ Serves(s)' /\ k \in entries'[s]
    BY <1>1 DEF StoreInv, IndexPinned, Indexed
  <2>2. Pc(s) # "off" /\ Pc(s)' # "off"
    BY <2>1 DEF Serves
  <2>3. Ns(s)' = Ns(s)
    <3>1. CASE s = p
      BY <2>2, <3>1, PcMoves DEF PcMove
    <3>2. CASE s # p
      BY <3>2, OthersKept DEF OtherKept, Ns
    <3>3. QED
      BY <3>1, <3>2
  <2>4. Valid(file'[Ns(s)'][k])
    BY <2>1 DEF StoreInv, IndexPinned, Indexed, Valid
  <2>5. QED
    BY <2>3, <2>4
<1>2. Pinned' = Pinned
  BY <1>1 DEF Pinned
<1>3. QED
  BY <1>1, <1>2 DEF Pinned

(* Only the process that has a namespace pins records of it.                *)
LEMMA PinsOwned ==
  ASSUME StoreInv, NEW s \in Procs, NEW k \in Keys, pins[s][k] > 0
  PROVE  nslock[Ns(s)] = s /\ k \in entries[s] /\ Valid(file[Ns(s)][k]) /\ Ns(s) \in Namespaces
BY DEF StoreInv, IndexPinned, Indexed, LocksHeld

(* Pins come and go with pin, unpin and the death of a process.             *)
LEMMA PinMoves ==
  ASSUME NEW p \in Procs, Step(p)
  PROVE  \/ UNCHANGED pins
         \/ \E k \in Keys : pin(p, k) \/ unpin(p, k)
         \/ Crash(p)
BY DEF Step, Inside, EvictUnlink, EvictFails, OpenNewDir, OpenMkdir, OpenLock, RecoverTemp,
       RecoverRecord, RecoverEnds, OpenEnforce, OpenCommit, OpenUndo, WriteRoom, WriteQuota,
       WriteRefused, WriteTemp, WriteRename, WriteSync, WriteIndex, WriteFails, close, OpenBegin,
       WriteBegin, enforce
(* The initial files are those of an empty map.                             *)
LEMMA MapInits == Init => Map!MapInit
<1> SUFFICES ASSUME Init PROVE Map!MapInit
  OBVIOUS
<1>1. PICK A \in SUBSET Foreign :
         file = [n \in Namespaces |-> [k \in Keys |-> IF <<n, k>> \in A THEN "alien" ELSE "none"]]
  BY DEF Init
<1>2. \A n \in Namespaces : {k \in Keys : Valid(file[n][k])} = {}
  BY <1>1 DEF Valid
<1>3. \A n \in Namespaces : {k \in Keys : \E p \in Procs : Ns(p) = n /\ pins[p][k] > 0} = {}
  BY DEF Init
<1>4. limits = NoLimits /\ \A n \in Namespaces : {k \in Keys : \E s \in was[n][k] : Valid(s)} = {}
  BY DEF Init
<1>5. QED
  BY <1>2, <1>3, <1>4 DEF Map!MapInit

(* What is unlinked, and nothing else, joins what may come back.             *)
LEMMA LostGrows ==
  ASSUME StoreInv, Unsynced \/ UNCHANGED was
  PROVE  \A n \in Namespaces : \A k \in Keys :
            \/ k \in Lost'[n] <=> k \in Lost[n]
            \/ Valid(file[n][k]) /\ file'[n][k] # file[n][k] /\ k \in Lost'[n]
<1> SUFFICES ASSUME NEW n \in Namespaces, NEW k \in Keys
             PROVE  \/ k \in Lost'[n] <=> k \in Lost[n]
                    \/ Valid(file[n][k]) /\ file'[n][k] # file[n][k] /\ k \in Lost'[n]
  OBVIOUS
<1>1. /\ k \in Lost'[n] <=> \E s \in was'[n][k] : Valid(s)
      /\ k \in Lost[n] <=> \E s \in was[n][k] : Valid(s)
  BY DEF Lost
<1>2. CASE UNCHANGED was
  BY <1>1, <1>2
<1>3. CASE Unsynced
  <2>1. was'[n][k] = was[n][k] \cup (IF file'[n][k] # file[n][k] THEN {file[n][k]} ELSE {})
                               \cup (IF tmp[n].key = k /\ tmp'[n] = NoTmp THEN {"temp"} ELSE {})
    BY <1>3 DEF Unsynced
  <2>2. ~Valid("temp")
    BY DEF Valid
  <2>3. QED
    BY <1>1, <2>1, <2>2
<1>4. QED
  BY <1>2, <1>3

(* The other steps settle it.                                              *)
LEMMA LostSettles ==
  ASSUME StoreInv, NEW p \in Procs, Step(p), Settled(p)
  PROVE  /\ \A n \in Namespaces : Lost'[n] \in {Lost[n], {}}
         /\ UNCHANGED file
<1>0. /\ was \in [Namespaces -> [Keys -> SUBSET (FileStates \cup {"temp"})]]
      /\ Pc(p) # "off" => Ns(p) \in Namespaces
  BY DEF StoreInv, TypeOK, LocksHeld
<1>1. ASSUME NEW n \in Namespaces
      PROVE  (\A k \in Keys : was'[n][k] = was[n][k]) \/ (\A k \in Keys : was'[n][k] = {})
  <2>1. CASE OpenMkdir(p) \/ WriteSync(p)
    <3>1. Ns(p) \in Namespaces /\ was' = [was EXCEPT ![Ns(p)] = [k \in Keys |-> {}]]
      BY <1>0, <2>1 DEF OpenMkdir, WriteSync, At, Pc
    <3>2. was'[n] = IF n = Ns(p) THEN [k \in Keys |-> {}] ELSE was[n]
      BY <1>0, <3>1
    <3>3. QED
      BY <3>2
  <2>2. CASE OpenCommit(p)
    BY <2>2 DEF OpenCommit
  <2>3. QED
    BY <2>1, <2>2 DEF Settled
<1>2. \A n \in Namespaces : Lost'[n] \in {Lost[n], {}}
  BY <1>1 DEF Lost
<1>3. QED
  BY <1>2 DEF Settled, OpenMkdir, OpenCommit, WriteSync

(* A step that moves no pin.                                                *)
LEMMA FilesImplement ==
  ASSUME StoreInv, StoreInv', NEW p \in Procs, Step(p), UNCHANGED pins
  PROVE  Map!MapNext \/ UNCHANGED Map!mapvars
<1>0. /\ file \in [Namespaces -> [Keys -> FileStates]]
      /\ Pinned' = Pinned /\ \A n \in Namespaces : \A k \in Pinned[n] : Valid(file'[n][k])
      /\ Pinned \in [Namespaces -> SUBSET Keys] /\ Kept(file) \in [Namespaces -> SUBSET Keys]
  BY PinsKept DEF StoreInv, TypeOK, Pinned, Kept
<1>s. ASSUME Unsynced \/ UNCHANGED was,
             \A n \in Namespaces, k \in Keys : Valid(file[n][k]) => file'[n][k] = file[n][k]
      PROVE  Lost' = Lost
  <2>1. \A n \in Namespaces : \A k \in Keys : k \in Lost'[n] <=> k \in Lost[n]
    BY <1>s, LostGrows
  <2>2. \A n \in Namespaces : Lost'[n] = Lost[n]
    BY <2>1 DEF Lost
  <2>3. QED
    BY <2>2 DEF Lost
<1>1. CASE OpenCommit(p)
  <2>1. limits' = Lim(p) /\ UNCHANGED file /\ Fits(Lim(p), 0, 0) /\ Lim(p) \in Limits
    BY <1>1 DEF OpenCommit, StoreInv, LocksHeld, RoomLeft, At, Pc
  <2>2. Bytes(Stored(file, tmp)) <= Lim(p).bytes /\ Cardinality(Stored(file, tmp)) <= Lim(p).records
    <3>1. Bytes(Stored(file, tmp)) \in Nat /\ Cardinality(Stored(file, tmp)) \in Nat
      BY StoredSizes
    <3>2. QED
      BY <2>1, <3>1 DEF Fits
  <2>3. Map!Within(Map!Records(Kept(file)), Lim(p))
    BY <2>1, <2>2, FitsWithin
  <2>4. limits' \in Limits /\ Map!Within(Map!Records(Kept(file)), limits')
    BY <2>1, <2>3
  <2>5. \A n \in Namespaces : Lost'[n] \in {Lost[n], {}}
    BY <1>1, LostSettles DEF Settled
  <2>6. Map!Relimit
    BY <1>0, <2>1, <2>4, <2>5 DEF Map!Relimit, Kept, Pinned, Lost
  <2>7. QED
    BY <2>6 DEF Map!MapNext
<1>2. CASE /\ limits' = limits
           /\ Unsynced \/ UNCHANGED was
           /\ \A n \in Namespaces, k \in Keys : Valid(file'[n][k]) <=> Valid(file[n][k])
           /\ \A n \in Namespaces, k \in Keys : Valid(file[n][k]) => file'[n][k] = file[n][k]
  <2>1. Kept(file)' = Kept(file)
    BY <1>2 DEF Kept
  <2>2. Lost' = Lost
    BY <1>2, <1>s
  <2>3. QED
    BY <1>0, <1>2, <2>1, <2>2 DEF Map!mapvars, Kept, Pinned, Lost
<1>7. CASE limits' = limits /\ Settled(p)
  <2>1. UNCHANGED file /\ \A n \in Namespaces : Lost'[n] \in {Lost[n], {}}
    BY <1>7, LostSettles
  <2>2. Kept(file)' = Kept(file)
    BY <2>1 DEF Kept
  <2>3. Map!Settle
    BY <1>0, <1>7, <2>1, <2>2 DEF Map!Settle, Kept, Pinned, Lost
  <2>4. QED
    BY <2>3 DEF Map!MapNext
<1>3. ASSUME NEW n \in Namespaces, NEW k \in Keys, FileGone(n, k), limits' = limits, Valid(file[n][k]),
             Unsynced
      PROVE  Map!Forget(n, k)
  <2>1. \A m \in Namespaces, j \in Keys :
           file'[m][j] = IF <<m, j>> = <<n, k>> THEN "none" ELSE file[m][j]
    BY <1>0, <1>3 DEF FileGone
  <2>2. k \in Kept(file)[n] \ Pinned[n]
    BY <1>0, <1>3, <2>1 DEF Kept, Valid
  <2>3. Kept(file)' = [Kept(file) EXCEPT ![n] = @ \ {k}]
    <3>1. \A m \in Namespaces, j \in Keys :
             Valid(file'[m][j]) <=> Valid(file[m][j]) /\ <<m, j>> # <<n, k>>
      BY <2>1 DEF Valid
    <3>2. \A m \in Namespaces :
             {j \in Keys : Valid(file'[m][j])} =
               IF m = n THEN {j \in Keys : Valid(file[m][j])} \ {k}
                       ELSE {j \in Keys : Valid(file[m][j])}
      BY <2>1, <3>1
    <3>3. QED
      BY <3>2 DEF Kept
  <2>4. Lost' = [Lost EXCEPT ![n] = @ \cup {k}]
    <3>1. \A m \in Namespaces, j \in Keys : j \in Lost'[m] <=> j \in Lost[m] \/ <<m, j>> = <<n, k>>
      <4>1. ~Valid("none")
        BY DEF Valid
      <4>2. file[n][k] \in was'[n][k]
        BY <1>3, <2>1, <4>1 DEF Unsynced
      <4>3. k \in Lost'[n]
        BY <1>3, <4>2 DEF Lost
      <4>4. QED
        BY <1>3, <2>1, <4>3, LostGrows
    <3>2. \A m \in Namespaces : Lost'[m] = IF m = n THEN Lost[m] \cup {k} ELSE Lost[m]
      BY <3>1 DEF Lost
    <3>3. QED
      BY <3>2 DEF Lost
  <2>5. QED
    BY <1>0, <1>3, <2>2, <2>3, <2>4 DEF Map!Forget, Kept, Pinned, Lost
<1>4. ASSUME WriteRename(p), limits' = limits, ~Valid(file[Ns(p)][proc[p].key]), Unsynced
      PROVE  Ns(p) \in Namespaces /\ proc[p].key \in Keys /\ Map!Add(Ns(p), proc[p].key)
  <2>1. /\ Ns(p) \in Namespaces /\ proc[p].key \in Keys /\ tmp[Ns(p)].state = "synced"
        /\ limits = Lim(p) /\ Lim(p) \in Limits /\ ~lapsed
    <3>1. Pc(p) = "rename"
      BY <1>4 DEF WriteRename, At, Pc
    <3>2. /\ WriteOwned(p) /\ Ns(p) \in Namespaces /\ Lim(p) \in Limits
          /\ Serves(p) => limits = Lim(p) /\ ~lapsed
      BY <3>1 DEF StoreInv, LocksHeld, WritesOwned, LimitsFixed, LimitsAgree
    <3>3. QED
      BY <3>1, <3>2 DEF WriteOwned, Writing, Serves
  <2>2. file' = [file EXCEPT ![Ns(p)][proc[p].key] = "synced"]
    BY <1>4, <2>1 DEF WriteRename
  <2>3. \A m \in Namespaces, j \in Keys :
           file'[m][j] = IF <<m, j>> = <<Ns(p), proc[p].key>> THEN "synced" ELSE file[m][j]
    BY <1>0, <2>1, <2>2
  <2>4. proc[p].key \notin Kept(file)[Ns(p)]
    BY <1>4, <2>1 DEF Kept
  <2>5. Kept(file)' = [Kept(file) EXCEPT ![Ns(p)] = @ \cup {proc[p].key}]
    <3>1. \A m \in Namespaces, j \in Keys :
             Valid(file'[m][j]) <=> Valid(file[m][j]) \/ <<m, j>> = <<Ns(p), proc[p].key>>
      BY <2>1, <2>3 DEF Valid
    <3>2. \A m \in Namespaces :
             {j \in Keys : Valid(file'[m][j])} =
               IF m = Ns(p) THEN {j \in Keys : Valid(file[m][j])} \cup {proc[p].key}
                       ELSE {j \in Keys : Valid(file[m][j])}
      BY <2>1, <2>3, <3>1
    <3>3. QED
      BY <3>2 DEF Kept
  <2>6. Map!Within(Map!Records(Kept(file')), limits)
    <3>1. limits \in Limits /\ Fits(limits, 0, 0)'
      BY <1>4, <2>1, StoreConstants DEF StoreInv, RoomLeft, WriteRename
    <3>2. Bytes(Stored(file', tmp')) \in Nat /\ Cardinality(Stored(file', tmp')) \in Nat
      BY StoredSizes
    <3>3. /\ Bytes(Stored(file', tmp')) <= limits.bytes
          /\ Cardinality(Stored(file', tmp')) <= limits.records
      BY <1>4, <3>1, <3>2 DEF Fits
    <3>4. QED
      BY <3>1, <3>3, FitsWithin
  <2>7. Lost' = Lost
    BY <1>4, <1>s, <2>3
  <2>8. QED
    BY <1>0, <1>4, <2>1, <2>4, <2>5, <2>6, <2>7 DEF Map!Add, Kept, Pinned, Lost
<1>5. CASE limits' = limits /\ Unsynced
  <2>1. CASE UNCHANGED file
    BY <1>2, <1>5, <2>1
  <2>2. ASSUME NEW n \in Namespaces, NEW k \in Keys, FileGone(n, k)
        PROVE  Map!MapNext \/ UNCHANGED Map!mapvars
    <3>1. CASE Valid(file[n][k])
      BY <1>3, <1>5, <2>2, <3>1 DEF Map!MapNext
    <3>2. CASE ~Valid(file[n][k])
      <4>1. \A m \in Namespaces, j \in Keys :
               file'[m][j] = IF <<m, j>> = <<n, k>> THEN "none" ELSE file[m][j]
        BY <1>0, <2>2 DEF FileGone
      <4>2. \A m \in Namespaces, j \in Keys :
               /\ Valid(file'[m][j]) <=> Valid(file[m][j])
               /\ Valid(file[m][j]) => file'[m][j] = file[m][j]
        BY <3>2, <4>1 DEF Valid
      <4>3. QED
        BY <1>2, <1>5, <4>2
    <3>3. QED
      BY <3>1, <3>2
  <2>3. CASE WriteRename(p)
    <3>1. CASE ~Valid(file[Ns(p)][proc[p].key])
      BY <1>4, <1>5, <2>3, <3>1 DEF Map!MapNext
    <3>2. CASE Valid(file[Ns(p)][proc[p].key])
      <4>1. file' = [file EXCEPT ![Ns(p)][proc[p].key] = tmp[Ns(p)].state]
        BY <2>3 DEF WriteRename
      <4>2. /\ tmp[Ns(p)].state = "synced"
            /\ Ns(p) \in Namespaces /\ proc[p].key \in Keys
        <5>1. Pc(p) = "rename"
          BY <2>3 DEF WriteRename, At, Pc
        <5>2. WriteOwned(p) /\ Ns(p) \in Namespaces
          BY <5>1 DEF StoreInv, WritesOwned, LocksHeld
        <5>3. QED
          BY <5>1, <5>2 DEF WriteOwned, Writing
      <4>3. file[Ns(p)][proc[p].key] = "synced"
        BY <3>2, <4>2 DEF StoreInv, FilesWhole, Valid
      <4>4. UNCHANGED file
        BY <1>0, <4>1, <4>2, <4>3
      <4>5. QED
        BY <1>2, <1>5, <4>4
    <3>3. QED
      BY <3>1, <3>2
  <2>4. QED
    BY <2>1, <2>2, <2>3, FileMoves DEF FilesMove
<1>6. CASE limits' = limits /\ UNCHANGED <<was, adrift, file>>
  BY <1>2, <1>6
<1>8. QED
  BY <1>1, <1>5, <1>6, <1>7, PcMoves, PastCases DEF PcMove

(* A pin of one record.                                                    *)
LEMMA PinsImplement ==
  ASSUME StoreInv, StoreInv', NEW p \in Procs, NEW k \in Keys, pin(p, k) \/ unpin(p, k)
  PROVE  Map!MapNext \/ UNCHANGED Map!mapvars
<1>0. /\ pins \in [Procs -> [Keys -> Nat]] /\ UNCHANGED <<proc, file, was, limits>>
      /\ Pinned \in [Namespaces -> SUBSET Keys]
  BY DEF StoreInv, TypeOK, Pinned, pin, unpin, disk
<1>1. Ns(p) \in Namespaces /\ nslock[Ns(p)] = p /\ k \in entries[p] /\ Valid(file[Ns(p)][k])
  <2>1. k \in entries[p] /\ Serves(p)
    BY <1>0 DEF pin, unpin, StoreInv, IndexPinned, Indexed
  <2>2. QED
    BY <2>1 DEF StoreInv, IndexPinned, Indexed, LocksHeld, Serves
<1>2. \A s \in Procs \ {p} : \A j \in Keys : pins'[s][j] = pins[s][j] /\ (pins[s][j] > 0 => Ns(s) # Ns(p))
  <2>1. \A s \in Procs \ {p} : pins'[s] = pins[s]
    BY <1>0 DEF pin, unpin
  <2>2. QED
    BY <1>1, <2>1, PinsOwned
<1>3. \A j \in Keys \ {k} : pins'[p][j] = pins[p][j]
  BY <1>0 DEF pin, unpin
<1>4. \A s \in Procs : Ns(s)' = Ns(s)
  BY <1>0 DEF Ns
<1>5. \A n \in Namespaces, j \in Keys : <<n, j>> # <<Ns(p), k>> => (j \in Pinned'[n] <=> j \in Pinned[n])
  BY <1>2, <1>3, <1>4 DEF Pinned
<1>6. k \in Pinned'[Ns(p)] <=> pins'[p][k] > 0
  BY <1>1, <1>2, <1>4 DEF Pinned
<1>7. Pinned' \in [Namespaces -> SUBSET Keys]
  BY DEF Pinned
<1>8. CASE pins'[p][k] > 0
  <2>1. Pinned' = [Pinned EXCEPT ![Ns(p)] = @ \cup {k}]
    <3>1. \A n \in Namespaces : Pinned'[n] = IF n = Ns(p) THEN Pinned[n] \cup {k} ELSE Pinned[n]
      BY <1>0, <1>1, <1>5, <1>6, <1>7, <1>8
    <3>2. QED
      BY <1>0, <1>1, <1>7, <3>1
  <2>2. PICK n \in Namespaces : n = Ns(p)
    BY <1>1
  <2>3. Map!Pin(n, k)
    BY <1>0, <1>1, <2>1, <2>2 DEF Map!Pin, Pinned
  <2>4. QED
    BY <2>3 DEF Map!MapNext
<1>9. CASE ~(pins'[p][k] > 0)
  <2>1. Pinned' = [Pinned EXCEPT ![Ns(p)] = @ \ {k}]
    <3>1. \A n \in Namespaces : Pinned'[n] = IF n = Ns(p) THEN Pinned[n] \ {k} ELSE Pinned[n]
      BY <1>0, <1>1, <1>5, <1>6, <1>7, <1>9
    <3>2. QED
      BY <1>0, <1>1, <1>7, <3>1
  <2>2. PICK n \in Namespaces : n = Ns(p)
    BY <1>1
  <2>3. Map!Unpin(n, k)
    BY <1>0, <1>1, <2>1, <2>2 DEF Map!Unpin, Pinned
  <2>4. QED
    BY <2>3 DEF Map!MapNext
<1>10. QED
  BY <1>8, <1>9

(* The death of a process.                                                 *)
LEMMA CrashImplements ==
  ASSUME StoreInv, StoreInv', NEW p \in Procs, Crash(p)
  PROVE  Map!MapNext \/ UNCHANGED Map!mapvars
<1>0. /\ pins \in [Procs -> [Keys -> Nat]] /\ UNCHANGED <<file, was, limits>>
      /\ Pinned \in [Namespaces -> SUBSET Keys] /\ Ns(p) \in Namespaces
      /\ \A j \in Keys : pins'[p][j] = 0
  BY DEF StoreInv, TypeOK, LocksHeld, Pinned, Crash, disk
<1>1. \A s \in Procs \ {p} : Ns(s)' = Ns(s) /\ pins'[s] = pins[s]
  BY DEF Crash, Ns, StoreInv, TypeOK
<1>2. Pinned' \in [Namespaces -> SUBSET Keys]
  BY DEF Pinned
<1>3. CASE \A j \in Keys : pins[p][j] = 0
  <2>1. Pinned' = Pinned
    BY <1>0, <1>1, <1>3 DEF Pinned
  <2>2. QED
    BY <1>0, <2>1 DEF Map!mapvars, Pinned
<1>4. ASSUME NEW k \in Keys, pins[p][k] # 0
      PROVE  Map!MapNext
  <2>1. nslock[Ns(p)] = p
    BY <1>0, <1>4, PinsOwned
  <2>2. \A s \in Procs \ {p} : \A j \in Keys : pins[s][j] > 0 => Ns(s) # Ns(p)
    BY <2>1, PinsOwned
  <2>3. \A n \in Namespaces : Pinned'[n] = IF n = Ns(p) THEN {} ELSE Pinned[n]
    BY <1>0, <1>1, <2>2 DEF Pinned
  <2>4. Pinned' = [Pinned EXCEPT ![Ns(p)] = {}]
    BY <1>0, <1>2, <2>3
  <2>5. PICK n \in Namespaces : n = Ns(p)
    BY <1>0
  <2>6. Map!Leave(n)
    BY <1>0, <2>4, <2>5 DEF Map!Leave, Pinned
  <2>7. QED
    BY <2>6 DEF Map!MapNext
<1>5. QED
  BY <1>0, <1>3, <1>4

(* The machine stops.                                                      *)
LEMMA OutageImplements ==
  ASSUME StoreInv, Outage
  PROVE  Map!Outage
<1>1. PICK V \in SUBSET adrift, B \in SUBSET Past : file' = LeftFile(V, B)
  BY DEF Outage
<1>2. file \in [Namespaces -> [Keys -> FileStates]]
  BY DEF StoreInv, TypeOK
<1>3. ASSUME NEW n \in Namespaces, NEW k \in Keys, Valid(file'[n][k])
      PROVE  Valid(file[n][k]) \/ \E s \in was[n][k] : Valid(s)
  <2>1. PICK st \in (was[n][k] \cap FileStates) \cup {file[n][k]} : file'[n][k] = Torn(st)
    BY <1>1, <1>2, <1>3, LeftFiles DEF Valid
  <2>2. Valid(st)
    BY <1>3, <2>1 DEF Torn, Valid
  <2>3. QED
    BY <2>1, <2>2
<1>4. \A n \in Namespaces : {k \in Keys : \E p \in Procs : Ns(p)' = n /\ pins'[p][k] > 0} = {}
  BY DEF Outage
<1>5. \A n \in Namespaces : {k \in Keys : \E s \in was'[n][k] : Valid(s)} = {}
  BY DEF Outage
<1>6. QED
  BY <1>3, <1>4, <1>5 DEF Map!Outage, Outage

(* ImplementsMap: whatever the files and processes do is an operation of    *)
(* the map or nothing at all: a record goes only unpinned, is added only    *)
(* where there is room, comes back only if the machine stops before it was  *)
(* settled that it is gone, and no process's death takes a pinned one.      *)
THEOREM StoreImplementsMap == Spec => ImplementsMap
<1>1. Init => Map!MapInit
  BY MapInits
<1>2. StoreInv /\ StoreInv' /\ [Next]_vars => [Map!MapNext]_(Map!mapvars)
  <2> SUFFICES ASSUME StoreInv, StoreInv', [Next]_vars PROVE Map!MapNext \/ UNCHANGED Map!mapvars
    OBVIOUS
  <2>1. ASSUME NEW p \in Procs, Step(p) PROVE Map!MapNext \/ UNCHANGED Map!mapvars
    BY <2>1, FilesImplement, PinsImplement, CrashImplements, PinMoves
  <2>2. CASE Outage
    BY <2>2, OutageImplements DEF Map!MapNext
  <2>3. CASE UNCHANGED vars
    BY <2>3 DEF vars, disk, Map!mapvars, Ns
  <2>4. QED
    BY <2>1, <2>2, <2>3, NextCases
<1>3. QED
  BY <1>1, <1>2, StoreInvariant, PTL DEF Spec, ImplementsMap, Map!MapSpec
=============================================================================
