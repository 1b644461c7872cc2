----------------------------- MODULE MCCpu88100 -----------------------------
(***************************************************************************)
(* A loop with a conditional delayed branch whose slot is a memory access  *)
(* on the next text page, a system call and a division.                    *)
(***************************************************************************)
EXTENDS Cpu88100, TLC

CONSTANTS t1, t2, d1, d2

MCPages == {t1, t2, d1, d2}

I(op, delayed, target, page) ==
  [op |-> op, delayed |-> delayed, target |-> target, page |-> page]

MCCode == 0 :> I("mem",  FALSE, 0, d1)
       @@ 1 :> I("bcnd", TRUE,  4, d1)
       @@ 2 :> I("mem",  FALSE, 0, d2)
       @@ 3 :> I("br",   FALSE, 0, d1)
       @@ 4 :> I("trap", FALSE, 0, d1)
       @@ 5 :> I("div",  FALSE, 0, d1)
       @@ 6 :> I("br",   FALSE, 0, d1)

MCTextPage == [p \in 0 .. 6 |-> IF p < 2 THEN t1 ELSE t2]

(* What the instruction in the delay slot needs: its text page, its data.  *)
MCSlotPages == {t2, d2}
MCNoPages == {}
=============================================================================
