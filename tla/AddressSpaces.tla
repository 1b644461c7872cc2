---------------------------- MODULE AddressSpaces ----------------------------
(***************************************************************************)
(* What processes may expect of their memory: each has pages of its own, a *)
(* child starts with a copy of its parent's, and only the running process  *)
(* changes or reads what it owns.  Page tables, sharing, paging and the    *)
(* translation caches do not exist.                                        *)
(***************************************************************************)
EXTENDS Naturals

CONSTANTS Procs, Pages, Val, First

VARIABLES
  val,      \* val[p][v]: what process p has at page v
  alive,    \* processes that exist
  cur,      \* the running one
  reg       \* the last value read

avars == <<val, alive, cur, reg>>

AInit ==
  /\ \E x \in Val : val = [p \in Procs |-> [v \in Pages |-> x]] /\ reg = x
  /\ alive = {First}
  /\ cur = First

(* The running process, or a system call on its behalf, writes x to some   *)
(* of its pages.                                                           *)
Write ==
  /\ \E S \in SUBSET Pages, x \in Val :
       val' = [val EXCEPT ![cur] = [v \in Pages |-> IF v \in S THEN x ELSE @[v]]]
  /\ UNCHANGED <<alive, cur, reg>>

Read ==
  /\ \E v \in Pages : reg' = val[cur][v]
  /\ UNCHANGED <<val, alive, cur>>

Fork ==
  /\ \E c \in Procs \ alive :
       /\ alive' = alive \cup {c}
       /\ val' = [val EXCEPT ![c] = val[cur]]
  /\ UNCHANGED <<cur, reg>>

Switch ==
  /\ \E p \in alive : cur' = p
  /\ UNCHANGED <<val, alive, reg>>

ANext == Write \/ Read \/ Fork \/ Switch

ASpec == AInit /\ [][ANext]_avars
=============================================================================
