------------------------------ MODULE PrefixMap ------------------------------
(***************************************************************************)
(* What a directory of prefix records promises, files and processes left   *)
(* out: per namespace a set of records that may be forgotten at any time   *)
(* but not while somebody has pinned it.  A record is added, and limits are *)
(* changed, only where all records are within the limits.  What has been   *)
(* forgotten may come back when the machine stops, until it is settled.    *)
(* PrefixStore implements it.                                              *)
(***************************************************************************)
EXTENDS Integers, FiniteSets, FiniteSetsExt

CONSTANTS
    Namespaces,
    Keys,
    Size,       \* bytes of a record
    Limits,     \* the limits a process may come with: bytes and records
    NoLimits    \* no process has committed limits yet

VARIABLES kept, pinned, limit, lost

mapvars == <<kept, pinned, limit, lost>>

Records(K) == {r \in Namespaces \X Keys : r[2] \in K[r[1]]}
Bytes(R) == MapThenSumSet(LAMBDA r : Size[r[2]], R)

Within(R, l) == /\ l # NoLimits
                /\ Bytes(R) <= l.bytes
                /\ Cardinality(R) <= l.records

MapInit == /\ kept = [n \in Namespaces |-> {}]
           /\ pinned = [n \in Namespaces |-> {}]
           /\ limit = NoLimits
           /\ lost = [n \in Namespaces |-> {}]

\* A record is added where the limits leave room for it.
Add(n, k) == /\ k \notin kept[n]
             /\ kept' = [kept EXCEPT ![n] = @ \cup {k}]
             /\ Within(Records(kept'), limit)
             /\ UNCHANGED <<pinned, limit, lost>>

\* A record that nobody has pinned is forgotten.
Forget(n, k) == /\ k \in kept[n] \ pinned[n]
                /\ kept' = [kept EXCEPT ![n] = @ \ {k}]
                /\ lost' = [lost EXCEPT ![n] = @ \cup {k}]
                /\ UNCHANGED <<pinned, limit>>

\* What has been forgotten in some namespaces is so for good.
Settle == /\ \A n \in Namespaces : lost'[n] \in {lost[n], {}}
          /\ UNCHANGED <<kept, pinned, limit>>

Pin(n, k) == /\ k \in kept[n]
             /\ pinned' = [pinned EXCEPT ![n] = @ \cup {k}]
             /\ UNCHANGED <<kept, limit, lost>>

Unpin(n, k) == /\ pinned' = [pinned EXCEPT ![n] = @ \ {k}]
               /\ UNCHANGED <<kept, limit, lost>>

\* The pins of a namespace end with the process that held them.
Leave(n) == /\ pinned' = [pinned EXCEPT ![n] = {}]
            /\ UNCHANGED <<kept, limit, lost>>

\* The machine stops: every pin ends, records may be lost, and those that were
\* forgotten and not settled may be back.  Nothing else is.
Outage == /\ pinned' = [n \in Namespaces |-> {}]
          /\ \A n \in Namespaces : kept'[n] \subseteq kept[n] \cup lost[n]
          /\ lost' = [n \in Namespaces |-> {}]
          /\ UNCHANGED limit

\* Limits are committed once what is kept is within them.
Relimit == /\ limit' \in Limits
           /\ Within(Records(kept), limit')
           /\ \A n \in Namespaces : lost'[n] \in {lost[n], {}}
           /\ UNCHANGED <<kept, pinned>>

MapNext == \/ \E n \in Namespaces, k \in Keys :
                 Add(n, k) \/ Forget(n, k) \/ Pin(n, k) \/ Unpin(n, k)
           \/ \E n \in Namespaces : Leave(n)
           \/ Settle \/ Outage \/ Relimit

MapSpec == MapInit /\ [][MapNext]_mapvars
=============================================================================
