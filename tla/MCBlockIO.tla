----------------------------- MODULE MCBlockIO -----------------------------
(***************************************************************************)
(* Two processes, two buffers, two blocks of the root and one of the       *)
(* disk.                                                                   *)
(***************************************************************************)
EXTENDS BlockIO

CONSTANTS p1, p2, b1, b2

MCProcs == {p1, p2}
MCBufs == {b1, b2}
MCRoot == {0, 1}
MCSd == {0}
MCVal == {0, 1}
MCDoor == {"sd"}
MCAll == Assumptions
=============================================================================
