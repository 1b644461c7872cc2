------------------------------ MODULE Program -------------------------------
(***************************************************************************)
(* What a run of the emulator promises about the one program it was asked  *)
(* to run under the kernel (--uprog, --shell): it is started at most once, *)
(* its processes come and go, and the run is over when the last of them    *)
(* has gone -- not while one is still running, runnable or asleep, unless  *)
(* the run was stopped or nothing could ever move again.                   *)
(***************************************************************************)
CONSTANT Pids             \* the processes the program may consist of

VARIABLES state,          \* of the run
          live            \* the program's processes that have not exited

vars == <<state, live>>

Init == state = "boot" /\ live = {}

Start(p) ==
  /\ state = "boot"
  /\ state' = "running" /\ live' = {p}

Refuse ==
  /\ state = "boot"
  /\ state' = "refused" /\ UNCHANGED live

Fork(p) ==
  /\ state = "running" /\ live # {} /\ p \notin live
  /\ live' = live \cup {p} /\ UNCHANGED state

Exit(p) ==
  /\ state = "running" /\ p \in live
  /\ live' = live \ {p} /\ UNCHANGED state

Finish ==
  /\ state = "running" /\ live = {}
  /\ state' = "exited" /\ UNCHANGED live

(* Some process is left and none of them can ever run again.               *)
GiveUp ==
  /\ state = "running" /\ live # {}
  /\ state' = "deadlock" /\ UNCHANGED live

(* The instruction limit, a panic.                                         *)
Abort ==
  /\ state \in {"boot", "running"}
  /\ state' = "aborted" /\ UNCHANGED live

Next ==
  \/ \E p \in Pids : Start(p) \/ Fork(p) \/ Exit(p)
  \/ Refuse \/ Finish \/ GiveUp \/ Abort

Spec == Init /\ [][Next]_vars
=============================================================================
