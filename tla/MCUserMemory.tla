---------------------------- MODULE MCUserMemory ----------------------------
(***************************************************************************)
(* Two processes of two pages that share one cache line or have one each,  *)
(* and too few frames for all of them.                                     *)
(***************************************************************************)
EXTENDS UserMemory, TLC

CONSTANTS p1, p2, f1, f2, f3

MCProcs == {p1, p2}
MCFrames == {f1, f2, f3}
MCSymmetry == Permutations(MCFrames)
MCVal == {0, 1}

MCAll == Assumptions
MCShared == Assumptions \ {"copied_first"}
=============================================================================
