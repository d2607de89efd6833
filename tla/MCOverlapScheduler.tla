------------------------- MODULE MCOverlapScheduler -------------------------
(* Small instances of the scheduler for TLC.                               *)
EXTENDS OverlapScheduler

\* Prompts over two tokens: some share a prefix, some do not fill a page,
\* some are longer than the prefill budget, so that they are computed in
\* chunks, and the last is too long for the pool.
SharedPrompts == {<<1, 1>>, <<1, 1, 2>>}
PagedPrompts  == {<<1>>, <<1, 1, 1, 1, 2>>, <<2, 2, 2, 2, 2, 2, 2, 2>>}
=============================================================================
