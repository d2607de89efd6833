----------------------------- MODULE PrefixStore -----------------------------
(***************************************************************************)
(* The files behind the prefix index: PrefixStore (one process, one        *)
(* namespace directory) and RootQuota (the limits all namespaces of a root *)
(* share).  Several processes use one root.  Two kinds of file lock order  *)
(* them: the root lock, taken without waiting by whoever opens a store or  *)
(* writes a record, and a namespace's lock, held as long as its store is   *)
(* open.  A process may crash between any two file operations, and the     *)
(* machine may stop: every directory entry that was not synced, made or    *)
(* unlinked, is then as it is or as it was.                                *)
(*                                                                         *)
(* Recency is left out: where the code takes the oldest record that may be *)
(* evicted, the model takes any of them.                                   *)
(***************************************************************************)
EXTENDS Integers, Sequences, FiniteSets, FiniteSetsExt

CONSTANTS
    Procs,       \* processes, each with one store at a time
    Namespaces,  \* compatibility fingerprints
    Keys,
    Size,        \* bytes of a record
    Limits,      \* the limits a process may be configured with
    NoLimits,
    Foreign,     \* files of somebody else under the names of records
    MaxOpens,    \* bound: stores opened
    MaxWrites,   \* bound: writes begun
    MaxFaults,   \* bound: failed file operations and crashes
    MaxPins      \* bound: pins a process holds on one record

Nobody == "nobody"
NoKey == 0

ASSUME StoreConstants ==
    /\ Nobody \notin Procs /\ "none" \notin Namespaces /\ NoKey \notin Keys
    /\ IsFiniteSet(Namespaces) /\ IsFiniteSet(Keys)
    /\ Size \in [Keys -> Nat \ {0}]
    /\ Limits \subseteq [bytes : Nat \ {0}, records : Nat \ {0}]
    /\ NoLimits \notin Limits
    /\ Foreign \subseteq Namespaces \X Keys
    /\ {MaxOpens, MaxWrites, MaxFaults, MaxPins} \subseteq Nat

VARIABLES
    dir,       \* per namespace: none, bare (no .lock file yet) or ready
    file,      \* per namespace and key: the state of the record's file
    tmp,       \* per namespace: the temporary file of a write
    was,       \* per namespace and key: what lay under the key since the
               \* directory was last synced, and may lie there again
    adrift,    \* namespaces whose own entry in the root has not been synced
    limits,    \* .quota.json
    lapsed,    \* history: the machine has stopped since limits were committed
    rootlock, nslock,  \* the file locks
    proc,      \* per process: program counter, namespace, key, victim ...
    entries,   \* per process: keys of its index
    pins,      \* per process: read pins
    used       \* bound: opens, writes and faults so far

disk == <<dir, file, tmp, was, adrift, limits, lapsed>>
locks == <<rootlock, nslock>>
vars == <<disk, locks, proc, entries, pins, used>>

NoTmp == [key |-> NoKey, state |-> "none"]
Off == [pc |-> "off", ns |-> "none", lim |-> NoLimits, key |-> NoKey, victim |-> NoKey,
        created |-> FALSE, failed |-> FALSE]

Ns(p) == proc[p].ns
Pc(p) == proc[p].pc
Lim(p) == proc[p].lim
At(p, pc) == proc[p].pc = pc /\ proc[p].victim = NoKey
Goto(p, pc) == proc' = [proc EXCEPT ![p].pc = pc]

\* A file is absent, torn, whole but not synced, synced, or (left by somebody
\* else under a record's name) one that does not validate.
FileStates == {"none", "part", "whole", "synced", "alien"}
Valid(s) == s \in {"whole", "synced"}

Finals(n) == {k \in Keys : file[n][k] # "none"}
IndexBytes(p) == MapThenSumSet(LAMBDA k : Size[k], entries[p])

Use(what) == used' = [used EXCEPT ![what] = @ + 1]
Fault == used.faults < MaxFaults /\ Use("faults")

\* Every step that makes, renames or unlinks a file, or removes a directory,
\* leaves what was there to a machine stop: only a rename is ever synced.
Unsynced ==
    /\ was' = [n \in Namespaces |-> [k \in Keys |->
                 was[n][k] \cup (IF file'[n][k] # file[n][k] THEN {file[n][k]} ELSE {})
                           \cup (IF tmp[n].key = k /\ tmp'[n] = NoTmp THEN {"temp"} ELSE {})]]
    /\ adrift' = adrift \cup {n \in Namespaces : dir'[n] = "none" /\ dir[n] # "none"}

-----------------------------------------------------------------------------
(* RootQuota.  A scan sees every namespace; those it can lock are inactive *)
(* and may be cleaned and evicted from.                                    *)

\* _lease: a directory without its lock file counts as active.
Leased(n) == dir[n] = "ready" /\ nslock[n] = Nobody

Inactive(p) == {n \in Namespaces \ {Ns(p)} : Leased(n)}

\* remove_empty, of an inactive namespace that holds nothing but its lock.
Empty(n) == Finals(n) = {} /\ tmp[n] = NoTmp

\* _scan: empty inactive namespaces go, and the temporary files of the others.
ScannedDir(p) == [n \in Namespaces |->
                    IF n \in Inactive(p) /\ Empty(n) THEN "none" ELSE dir[n]]
ScannedTmp(p) == [n \in Namespaces |-> IF n \in Inactive(p) THEN NoTmp ELSE tmp[n]]

\* What the scan finds, afterwards: records and temporary files alike.
Stored(fs, ts) ==
    {t \in Namespaces \X Keys \X {"record", "temp"} :
        \/ t[3] = "record" /\ fs[t[1]][t[2]] # "none"
        \/ t[3] = "temp" /\ ts[t[1]] # NoTmp /\ ts[t[1]].key = t[2]}

Bytes(F) == MapThenSumSet(LAMBDA t : Size[t[2]], F)

UsageOf(ds, fs, ts) ==
    [bytes |-> Bytes(Stored(fs, ts)), records |-> Cardinality(Stored(fs, ts)),
     namespaces |-> Cardinality({n \in Namespaces : ds[n] # "none"})]

Holds(u, l, bytes, records, namespaces) ==
    /\ u.bytes + bytes <= l.bytes
    /\ u.records + records <= l.records
    /\ u.namespaces + namespaces <= l.records + 1

\* Victims that are taken from whoever has them.
VictimsOfAll(p) ==
    {v \in (Namespaces \ {Ns(p)}) \X Keys : file[v[1]][v[2]] # "none"}

\* The record that is evicted from another namespace, if there is one.
Victims(p) == {v \in Inactive(p) \X Keys : file[v[1]][v[2]] # "none"}

\* Any index entry.
EvictablePinned(p) == entries[p]

\* An index entry that nobody has pinned: _evict_one takes it out of the index
\* first and unlinks its file afterwards.
Evictable(p) == {k \in entries[p] : pins[p][k] = 0}

EvictOwn(p) ==
    \E k \in Evictable(p) :
        /\ entries' = [entries EXCEPT ![p] = @ \ {k}]
        /\ proc' = [proc EXCEPT ![p].victim = k]

\* What a store does that cannot have the room it needs: a write is refused
\* before it touched a file, an opening is undone.
GiveUp(p) == IF Pc(p) \in {"room", "quota"} THEN "refused" ELSE "undo"

\* One turn of enforce, on behalf of a store that is about to add something.
enforce(p, from, to, bytes, records, namespaces) ==
    /\ At(p, from)
    /\ dir' = ScannedDir(p) /\ tmp' = ScannedTmp(p)
    /\ LET u == UsageOf(dir', file, tmp')
       IN  \/ /\ Holds(u, Lim(p), bytes, records, namespaces)
              /\ Goto(p, to)
              /\ UNCHANGED <<file, entries>>
           \/ /\ ~Holds(u, Lim(p), bytes, records, namespaces)
              /\ \E v \in Victims(p) : file' = [file EXCEPT ![v[1]][v[2]] = "none"]
              /\ UNCHANGED <<proc, entries>>
           \/ /\ ~Holds(u, Lim(p), bytes, records, namespaces)
              /\ Victims(p) = {}
              /\ \/ EvictOwn(p)
                 \/ Evictable(p) = {} /\ Goto(p, GiveUp(p)) /\ UNCHANGED entries
              /\ UNCHANGED file
    /\ Unsynced
    /\ UNCHANGED <<limits, lapsed, locks, pins, used>>

\* _evict_one after the index: the file is unlinked, or that fails and the
\* entry comes back.
EvictUnlink(p) ==
    /\ proc[p].victim # NoKey
    /\ file' = [file EXCEPT ![Ns(p)][proc[p].victim] = "none"]
    /\ proc' = [proc EXCEPT ![p].victim = NoKey]
    /\ UNCHANGED <<dir, tmp, limits, lapsed, locks, entries, pins, used>>
    /\ Unsynced

EvictFails(p) ==
    /\ proc[p].victim # NoKey /\ Fault
    /\ entries' = [entries EXCEPT ![p] = @ \cup {proc[p].victim}]
    /\ proc' = [proc EXCEPT ![p].victim = NoKey, ![p].pc = GiveUp(p)]
    /\ UNCHANGED <<disk, locks, pins>>

\* check_limits: other limits are accepted only while every other namespace
\* is inactive.
check_limits(n, l) ==
    \/ limits = l
    \/ \A m \in Namespaces \ {n} : dir[m] # "none" => Leased(m)

-----------------------------------------------------------------------------
(* Opening a store, all of it under the root lock.                         *)

OpenBegin(p, n, l) ==
    /\ Pc(p) = "off" /\ used.opens < MaxOpens /\ Use("opens")
    /\ rootlock = Nobody /\ check_limits(n, l)
    /\ rootlock' = p
    /\ proc' = [proc EXCEPT ![p] = [Off EXCEPT !.pc = IF dir[n] = "none" THEN "newdir" ELSE "lockns",
                                               !.ns = n, !.lim = l, !.created = (dir[n] = "none")]]
    /\ UNCHANGED <<disk, nslock, entries, pins>>

\* A new directory is accounted for before it is made.
OpenNewDir(p) == enforce(p, "newdir", "mkdir", 0, 0, 1)

OpenMkdir(p) ==
    /\ At(p, "mkdir")
    /\ dir' = [dir EXCEPT ![Ns(p)] = "bare"]
    /\ adrift' = adrift \cup {Ns(p)}
    /\ was' = [was EXCEPT ![Ns(p)] = [k \in Keys |-> {}]]
    /\ Goto(p, "lockns")
    /\ UNCHANGED <<file, tmp, limits, lapsed, locks, entries, pins, used>>

\* The namespace's lock file is created if need be, and locked.
OpenLock(p) ==
    /\ At(p, "lockns")
    /\ dir' = [dir EXCEPT ![Ns(p)] = "ready"]
    /\ IF nslock[Ns(p)] = Nobody
       THEN nslock' = [nslock EXCEPT ![Ns(p)] = p] /\ Goto(p, "recover")
       ELSE UNCHANGED nslock /\ Goto(p, "undo")
    /\ UNCHANGED <<file, tmp, was, adrift, limits, lapsed, rootlock, entries, pins, used>>

\* _make_room: the index leaves room for one more record of this size.
HasRoom(p, size) == /\ IndexBytes(p) + size <= Lim(p).bytes
                    /\ Cardinality(entries[p]) < Lim(p).records

MakeRoom(p) == \/ EvictOwn(p)
               \/ Evictable(p) = {} /\ Goto(p, GiveUp(p)) /\ UNCHANGED entries

\* _recover, one file at a time: temporary files and records that do not
\* validate are unlinked, the others indexed.
RecoverTemp(p) ==
    /\ At(p, "recover") /\ tmp[Ns(p)] # NoTmp
    /\ tmp' = [tmp EXCEPT ![Ns(p)] = NoTmp]
    /\ UNCHANGED <<dir, file, limits, lapsed, locks, proc, entries, pins, used>>
    /\ Unsynced

\* A record larger than this process's bound does not validate, whoever wrote
\* it.  The bound is the quota (and at most 4 GiB, as are all keys).
Readable(p, k) == Valid(file[Ns(p)][k]) /\ Size[k] <= Lim(p).bytes

RecoverRecord(p) ==
    /\ At(p, "recover")
    /\ \E k \in Finals(Ns(p)) \ entries[p] :
          \/ /\ ~Readable(p, k)
             /\ file' = [file EXCEPT ![Ns(p)][k] = "none"]
             /\ UNCHANGED <<proc, entries>>
          \/ /\ Readable(p, k)
             /\ IF HasRoom(p, Size[k])
                THEN entries' = [entries EXCEPT ![p] = @ \cup {k}] /\ UNCHANGED proc
                ELSE MakeRoom(p)
             /\ UNCHANGED file
    /\ UNCHANGED <<dir, tmp, limits, lapsed, locks, pins, used>>
    /\ Unsynced

RecoverEnds(p) ==
    /\ At(p, "recover") /\ tmp[Ns(p)] = NoTmp /\ Finals(Ns(p)) \subseteq entries[p]
    /\ Goto(p, "enforce")
    /\ UNCHANGED <<disk, locks, entries, pins, used>>

OpenEnforce(p) == enforce(p, "enforce", "commit", 0, 0, 0)

\* commit_limits replaces .quota.json if it states other limits, and syncs the
\* root, which settles the directories in it; the root lock is given back.
OpenCommit(p) ==
    /\ At(p, "commit")
    /\ limits' = Lim(p) /\ lapsed' = FALSE
    /\ IF limits = Lim(p)
       THEN UNCHANGED <<was, adrift>>
       ELSE /\ adrift' = {}
            /\ was' = [n \in Namespaces |-> [k \in Keys |->
                         IF dir[n] = "none" THEN {} ELSE was[n][k]]]
    /\ rootlock' = Nobody
    /\ Goto(p, "open")
    /\ UNCHANGED <<dir, file, tmp, nslock, entries, pins, used>>

\* The namespace lock goes back, a directory made in vain is removed if it is
\* empty, and the constructor raises.
OpenUndo(p) ==
    /\ At(p, "undo")
    /\ nslock' = IF nslock[Ns(p)] = p THEN [nslock EXCEPT ![Ns(p)] = Nobody] ELSE nslock
    /\ dir' = IF proc[p].created /\ dir[Ns(p)] = "ready" /\ Empty(Ns(p))
              THEN [dir EXCEPT ![Ns(p)] = "none"] ELSE dir
    /\ rootlock' = Nobody
    /\ proc' = [proc EXCEPT ![p] = Off]
    /\ entries' = [entries EXCEPT ![p] = {}]
    /\ UNCHANGED <<file, tmp, limits, lapsed, pins, used>>
    /\ Unsynced

-----------------------------------------------------------------------------
(* Writing a record.                                                       *)

\* write: without waiting for the root lock, and only under the limits this
\* store was opened with.  A record that is indexed is not written again.
WriteBegin(p, k) ==
    /\ At(p, "open") /\ used.writes < MaxWrites /\ Use("writes")
    /\ rootlock = Nobody /\ limits = Lim(p)
    /\ ~proc[p].failed /\ k \notin entries[p]
    /\ rootlock' = p
    /\ proc' = [proc EXCEPT ![p].pc = "room", ![p].key = k]
    /\ UNCHANGED <<disk, nslock, entries, pins>>

WriteRoom(p) ==
    /\ At(p, "room")
    /\ LET size == Size[proc[p].key]
       IN  \/ size > Lim(p).bytes /\ Goto(p, GiveUp(p)) /\ UNCHANGED entries
           \/ size <= Lim(p).bytes /\ HasRoom(p, size) /\ Goto(p, "quota") /\ UNCHANGED entries
           \/ size <= Lim(p).bytes /\ ~HasRoom(p, size) /\ MakeRoom(p)
    /\ UNCHANGED <<disk, locks, pins, used>>

WriteQuota(p) == enforce(p, "quota", "temp", Size[proc[p].key], 1, 0)

\* A refused write that keeps the root lock.
WriteRefusedLocked(p) ==
    /\ At(p, "refused")
    /\ proc' = [proc EXCEPT ![p].pc = "open", ![p].key = NoKey]
    /\ UNCHANGED <<disk, locks, entries, pins, used>>

\* StoreFull, or a failed eviction: nothing has been written.
WriteRefused(p) ==
    /\ At(p, "refused")
    /\ rootlock' = Nobody
    /\ proc' = [proc EXCEPT ![p].pc = "open", ![p].key = NoKey]
    /\ UNCHANGED <<disk, nslock, entries, pins, used>>

SetTmp(p, s) == tmp' = [tmp EXCEPT ![Ns(p)] = [key |-> proc[p].key, state |-> s]]

\* A temporary file that is renamed without having been synced.
WriteTempUnsynced(p) ==
    /\ \/ At(p, "temp") /\ SetTmp(p, "part")  /\ Goto(p, "fill")
       \/ At(p, "fill") /\ SetTmp(p, "whole") /\ Goto(p, "rename")
    /\ UNCHANGED <<dir, file, was, adrift, limits, lapsed, locks, entries, pins, used>>

\* The temporary file is created, filled and synced.
WriteTemp(p) ==
    /\ \/ At(p, "temp") /\ SetTmp(p, "part")  /\ Goto(p, "fill")
       \/ At(p, "fill") /\ SetTmp(p, "whole") /\ Goto(p, "sync")
       \/ At(p, "sync") /\ SetTmp(p, "synced") /\ Goto(p, "rename")
    /\ UNCHANGED <<dir, file, was, adrift, limits, lapsed, locks, entries, pins, used>>

WriteRename(p) ==
    /\ At(p, "rename")
    /\ file' = [file EXCEPT ![Ns(p)][proc[p].key] = tmp[Ns(p)].state]
    /\ tmp' = [tmp EXCEPT ![Ns(p)] = NoTmp]
    /\ Goto(p, "dirsync")
    /\ UNCHANGED <<dir, limits, lapsed, locks, entries, pins, used>>
    /\ Unsynced

\* The directory is synced, which settles all that was done in it, and the
\* record indexed.
WriteSync(p) ==
    /\ At(p, "dirsync")
    /\ was' = [was EXCEPT ![Ns(p)] = [k \in Keys |-> {}]]
    /\ Goto(p, "index")
    /\ UNCHANGED <<dir, file, tmp, adrift, limits, lapsed, locks, entries, pins, used>>

WriteIndex(p) ==
    /\ At(p, "index")
    /\ entries' = [entries EXCEPT ![p] = @ \cup {proc[p].key}]
    /\ rootlock' = Nobody
    /\ proc' = [proc EXCEPT ![p].pc = "open", ![p].key = NoKey]
    /\ UNCHANGED <<disk, nslock, pins, used>>

\* A file operation fails: what was written is unlinked again, or, when that
\* fails too, left where it is and the store refuses everything more.
WriteFails(p) ==
    /\ Pc(p) \in {"fill", "sync", "rename", "dirsync"} /\ Fault
    /\ \E cleaned \in BOOLEAN :
          /\ IF cleaned
             THEN /\ tmp' = [tmp EXCEPT ![Ns(p)] = NoTmp]
                  /\ file' = IF Pc(p) = "dirsync"
                             THEN [file EXCEPT ![Ns(p)][proc[p].key] = "none"] ELSE file
             ELSE UNCHANGED <<tmp, file>>
          /\ proc' = [proc EXCEPT ![p].pc = "open", ![p].key = NoKey,
                                  ![p].failed = ~cleaned]
    /\ rootlock' = Nobody
    /\ UNCHANGED <<dir, limits, lapsed, nslock, entries, pins>>
    /\ Unsynced

-----------------------------------------------------------------------------
(* Pins, taken and dropped by the actor while the worker is anywhere in a  *)
(* write; close; crashes.                                                  *)

Serves(p) == Pc(p) \in {"open", "room", "quota", "refused", "temp", "fill", "sync",
                        "rename", "dirsync", "index"}

pin(p, k) ==
    /\ Serves(p) /\ ~proc[p].failed /\ k \in entries[p] /\ pins[p][k] < MaxPins
    /\ pins' = [pins EXCEPT ![p][k] = @ + 1]
    /\ UNCHANGED <<disk, locks, proc, entries, used>>

unpin(p, k) ==
    /\ Serves(p) /\ pins[p][k] > 0
    /\ pins' = [pins EXCEPT ![p][k] = @ - 1]
    /\ UNCHANGED <<disk, locks, proc, entries, used>>

\* close, which the I/O worker calls once no ticket is out, so without pins
\* (PrefixRetention: NamespaceHeld and PinnedStaysIndexed).
close(p) ==
    /\ At(p, "open") /\ \A k \in Keys : pins[p][k] = 0
    /\ nslock' = [nslock EXCEPT ![Ns(p)] = Nobody]
    /\ proc' = [proc EXCEPT ![p] = Off]
    /\ entries' = [entries EXCEPT ![p] = {}]
    /\ UNCHANGED <<disk, rootlock, pins, used>>

\* The process dies: the kernel releases its locks, the files stay.
Crash(p) ==
    /\ Pc(p) # "off" /\ Fault
    /\ rootlock' = IF rootlock = p THEN Nobody ELSE rootlock
    /\ nslock' = [n \in Namespaces |-> IF nslock[n] = p THEN Nobody ELSE nslock[n]]
    /\ proc' = [proc EXCEPT ![p] = Off]
    /\ entries' = [entries EXCEPT ![p] = {}]
    /\ pins' = [pins EXCEPT ![p] = [k \in Keys |-> 0]]
    /\ UNCHANGED disk

\* What a machine stop makes of the disk.  V are the directories whose entry
\* in the root is undone: made in vain, or back again.  B is what else comes
\* back, or stays though it might not: <<namespace, key, what lay there>>.
\* Contents that were not synced are torn.
Torn(st) == IF st = "whole" THEN "part" ELSE st

Past == {b \in Namespaces \X Keys \X (FileStates \cup {"temp"}) :
            \/ b[3] \in was[b[1]][b[2]]
            \/ b[3] = "temp" /\ tmp[b[1]].key = b[2]}

LeftDir(V) == [n \in Namespaces |-> IF n \notin V THEN dir[n]
                                    ELSE IF dir[n] = "none" THEN "ready" ELSE "none"]

Back(B, n, k) == {st \in FileStates : <<n, k, st>> \in B}
LeftFile(V, B) == [n \in Namespaces |-> [k \in Keys |->
                     IF LeftDir(V)[n] # "ready" THEN "none"
                     ELSE IF Back(B, n, k) = {} THEN Torn(file[n][k])
                     ELSE Torn(CHOOSE st \in Back(B, n, k) : TRUE)]]

\* One temporary file stands for all that come back in a namespace: whoever
\* meets them there unlinks them all.
Temps(B, n) == {k \in Keys : <<n, k, "temp">> \in B}
LeftTmp(V, B) == [n \in Namespaces |->
                    IF LeftDir(V)[n] # "ready" \/ Temps(B, n) = {} THEN NoTmp
                    ELSE [key |-> CHOOSE k \in Temps(B, n) : TRUE, state |-> "part"]]

\* The machine stops.
Outage ==
    /\ Fault
    /\ \E V \in SUBSET adrift, B \in SUBSET Past :
          dir' = LeftDir(V) /\ file' = LeftFile(V, B) /\ tmp' = LeftTmp(V, B)
    /\ was' = [n \in Namespaces |-> [k \in Keys |-> {}]]
    /\ adrift' = {} /\ lapsed' = TRUE
    /\ rootlock' = Nobody
    /\ nslock' = [n \in Namespaces |-> Nobody]
    /\ proc' = [p \in Procs |-> Off]
    /\ entries' = [p \in Procs |-> {}]
    /\ pins' = [p \in Procs |-> [k \in Keys |-> 0]]
    /\ UNCHANGED limits

-----------------------------------------------------------------------------
\* A root may hold files of somebody else.
Init ==
    /\ \E A \in SUBSET Foreign :
          /\ dir = [n \in Namespaces |-> IF \E k \in Keys : <<n, k>> \in A
                                        THEN "ready" ELSE "none"]
          /\ file = [n \in Namespaces |-> [k \in Keys |->
                       IF <<n, k>> \in A THEN "alien" ELSE "none"]]
    /\ tmp = [n \in Namespaces |-> NoTmp] /\ limits = NoLimits /\ lapsed = FALSE
    /\ was = [n \in Namespaces |-> [k \in Keys |-> {}]] /\ adrift = {}
    /\ rootlock = Nobody /\ nslock = [n \in Namespaces |-> Nobody]
    /\ proc = [p \in Procs |-> Off]
    /\ entries = [p \in Procs |-> {}]
    /\ pins = [p \in Procs |-> [k \in Keys |-> 0]]
    /\ used = [opens |-> 0, writes |-> 0, faults |-> 0]

\* The steps a process inside a call takes by itself.
Inside(p) ==
    \/ EvictUnlink(p) \/ EvictFails(p)
    \/ OpenNewDir(p) \/ OpenMkdir(p) \/ OpenLock(p) \/ RecoverTemp(p)
    \/ RecoverRecord(p) \/ RecoverEnds(p) \/ OpenEnforce(p) \/ OpenCommit(p)
    \/ OpenUndo(p)
    \/ WriteRoom(p) \/ WriteQuota(p) \/ WriteRefused(p) \/ WriteTemp(p)
    \/ WriteRename(p) \/ WriteSync(p) \/ WriteIndex(p) \/ WriteFails(p)

Next ==
    \/ \E p \in Procs :
          \/ Inside(p) \/ close(p) \/ Crash(p)
          \/ \E n \in Namespaces, l \in Limits : OpenBegin(p, n, l)
          \/ \E k \in Keys : WriteBegin(p, k) \/ pin(p, k) \/ unpin(p, k)
    \/ Outage

Spec == Init /\ [][Next]_vars

\* A process that is inside a call goes on with it, or dies.
FairSpec == Spec /\ \A p \in Procs : WF_vars(Inside(p))

-----------------------------------------------------------------------------
(* Properties.                                                             *)

Pcs == {"off", "newdir", "mkdir", "lockns", "recover", "enforce", "commit", "undo",
        "open", "room", "quota", "refused", "temp", "fill", "sync", "rename",
        "dirsync", "index"}

ProcRecord ==
    [pc : Pcs, ns : Namespaces \cup {"none"}, lim : Limits \cup {NoLimits},
     key : Keys \cup {NoKey},
     victim : Keys \cup {NoKey}, created : BOOLEAN, failed : BOOLEAN]

\* Types, and that a write never meets the temporary file of another one.
TypeOK ==
    /\ dir \in [Namespaces -> {"none", "bare", "ready"}]
    /\ file \in [Namespaces -> [Keys -> FileStates]]
    /\ \A n \in Namespaces : tmp[n].key \in Keys \cup {NoKey}
    /\ was \in [Namespaces -> [Keys -> SUBSET (FileStates \cup {"temp"})]]
    /\ adrift \subseteq Namespaces /\ lapsed \in BOOLEAN
    /\ limits \in Limits \cup {NoLimits}
    /\ rootlock \in Procs \cup {Nobody}
    /\ nslock \in [Namespaces -> Procs \cup {Nobody}]
    /\ proc \in [Procs -> ProcRecord]
    /\ entries \in [Procs -> SUBSET Keys]
    /\ pins \in [Procs -> [Keys -> Nat]]
    /\ \A p \in Procs : Pc(p) = "temp" => tmp[Ns(p)] = NoTmp

\* An index names only records that are complete on disk, in a namespace the
\* process has locked: no other process, and no crash of one, takes a record
\* away under it.
IndexOnDisk ==
    \A p \in Procs : \A k \in entries[p] :
        nslock[Ns(p)] = p /\ Valid(file[Ns(p)][k])

\* No record is torn, whenever the machine stops: its contents are synced
\* before it gets its name.
NeverTorn == \A n \in Namespaces, k \in Keys : file[n][k] # "part"

\* What lies in the root, temporary files and leftovers of crashes and failed
\* writes included, is within the limits it has been given.  A machine stop may
\* take it over them, by bringing back what was evicted beside what it was
\* evicted for, until a store is opened again.
RootWithinLimits ==
    limits # NoLimits /\ ~lapsed =>
        LET u == UsageOf(dir, file, tmp)
        IN  u.bytes <= limits.bytes /\ u.records <= limits.records

\* No store serves under limits other than the ones of the root, or in a root
\* that has not been brought within them since the machine stopped.
LimitsAgree == \A p \in Procs : Serves(p) => limits = Lim(p) /\ ~lapsed

\* What the stores believe of the root is true after every crash, lost write
\* and failed open: indexes and files, limits and usage, stores and root.
RootSound == TypeOK /\ IndexOnDisk /\ RootWithinLimits /\ LimitsAgree

\* The promise of PrefixMap.
Map == INSTANCE PrefixMap WITH
    kept   <- [n \in Namespaces |-> {k \in Keys : Valid(file[n][k])}],
    pinned <- [n \in Namespaces |->
                 {k \in Keys : \E p \in Procs : Ns(p) = n /\ pins[p][k] > 0}],
    lost   <- [n \in Namespaces |->
                 {k \in Keys : \E s \in was[n][k] : Valid(s)}],
    limit  <- limits

ImplementsMap == Map!MapSpec

\* Whoever has the root lock gives it back.
CallsEnd == \A p \in Procs : rootlock = p ~> rootlock # p

\* "Inactive namespaces can be reclaimed" (the header of quota.py): with no
\* store open, a process may bring new limits.  A directory that a crash left
\* without its lock file refutes it.
InactiveReclaimable ==
    (\A p \in Procs : Pc(p) = "off") =>
        \A n \in Namespaces, l \in Limits : check_limits(n, l)
=============================================================================
