----------------------------- MODULE SharedDisk -----------------------------
(***************************************************************************)
(* What processes may expect of their file systems: each block holds what  *)
(* a process that was using it wrote to it last, and a read returns that.  *)
(* Buffers, drivers, transfers and images do not exist.                    *)
(***************************************************************************)
CONSTANTS Procs, Blocks, Val

VARIABLES
  contents,   \* contents[k]: what block k holds
  using,      \* using[p]: the blocks process p reads and writes
  reg         \* the last value read

svars == <<contents, using, reg>>

SInit ==
  /\ \E x \in Val : contents = [k \in Blocks |-> x] /\ reg = x
  /\ using = [p \in Procs |-> {}]

Begin(p) ==
  /\ using[p] = {}
  /\ \E S \in SUBSET Blocks : using' = [using EXCEPT ![p] = S]
  /\ UNCHANGED <<contents, reg>>

Write(p) ==
  /\ \E k \in using[p], x \in Val : contents' = [contents EXCEPT ![k] = x]
  /\ UNCHANGED <<using, reg>>

Read(p) ==
  /\ \E k \in using[p] : reg' = contents[k]
  /\ UNCHANGED <<contents, using>>

End(p) == using' = [using EXCEPT ![p] = {}] /\ UNCHANGED <<contents, reg>>

SNext == \E p \in Procs : Begin(p) \/ Write(p) \/ Read(p) \/ End(p)

SSpec == SInit /\ [][SNext]_svars
=============================================================================
