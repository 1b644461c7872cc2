----------------------------- MODULE MCSession ------------------------------
(***************************************************************************)
(* A program of up to three processes, each with a few calls; the parents  *)
(* followed are just enough for a grandchild.                              *)
(***************************************************************************)
EXTENDS Session, TLC

CONSTANTS p1, p2, p3

MCSlots == {p1, p2, p3}
MCAll == Assumptions
=============================================================================
