--------------------------- MODULE MCServeManager ---------------------------
(* Small instances of ServeManager for TLC. *)
EXTENDS ServeManager, TLC

Symmetry == Permutations(Gens)
=============================================================================
