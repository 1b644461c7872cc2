------------------------------ MODULE MCFdSets ------------------------------
(***************************************************************************)
(* Three processes with two or three descriptors, two of them standard.    *)
(***************************************************************************)
EXTENDS FdSets, TLC

CONSTANTS p1, p2, p3

MCTriple == {p1, p2, p3}
MCDisk == {"disk"}
MCFile == {"file"}

MCAll == Assumptions
=============================================================================
