---------------------------- MODULE MCInterrupts ----------------------------
(***************************************************************************)
(* Two software interrupts and a counter of three or four bits, which      *)
(* wraps every few ticks.                                                  *)
(***************************************************************************)
EXTENDS Interrupts

MCTwo == {1, 2}
=============================================================================
