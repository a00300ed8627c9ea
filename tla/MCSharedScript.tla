--------------------------- MODULE MCSharedScript ---------------------------
(***************************************************************************)
(* SharedScript with compilations that use one or two levels.              *)
(***************************************************************************)
EXTENDS SharedScript, TLC

MCUsedLevels == { <<{1}, {1}>>, <<{0, 1}, {1}>> }

MCCompilations == Permutations(Compilation)
=============================================================================
