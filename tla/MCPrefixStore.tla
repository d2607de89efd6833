---------------------------- MODULE MCPrefixStore ----------------------------
(* Bounds of the store's run: two processes, two namespaces, a small and a  *)
(* large record, and two sets of limits that a process may come with.       *)
EXTENDS PrefixStore, TLC

MCSize == (1 :> 1) @@ (2 :> 2)
MCLimits == {[bytes |-> 2, records |-> 2], [bytes |-> 1, records |-> 1]}
MCForeign == {<<"m", 2>>}
=============================================================================
