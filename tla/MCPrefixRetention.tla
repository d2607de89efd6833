-------------------------- MODULE MCPrefixRetention --------------------------
(* Bounds of the retention runs: two records of one and two tokens, two     *)
(* requests of which one is too short for the second record.                *)
EXTENDS PrefixRetention, TLC

MCInputLen == (1 :> 3) @@ (2 :> 2)
=============================================================================
