------------------------------ MODULE Session -------------------------------
(***************************************************************************)
(* A run of one program under the kernel: run_sys (emu/sysmode.c) boots    *)
(* the kernel up to the swapper's idle loop, proc_experiment (emu/cpu.c)   *)
(* makes a process there with the kernel's own functions and switches to   *)
(* it by hand, and from then on the kernel schedules.  proc0, abandoned in *)
(* the middle of its loop, is resumed at a sentinel address; whenever the  *)
(* run loop sees it there the processor has nothing to do, and the run     *)
(* loop decides whether the program is over, or stuck, or proc0 must yield *)
(* again.                                                                  *)
(*                                                                         *)
(* The emulator's part is the Launch actions, IdleYield, IdleEnd, Stop and *)
(* Halt.  The kernel is not part of the repository: the K... actions are its          *)
(* scheduler and process calls as the comments in cpu.c and sysmode.c      *)
(* describe them, with the panics those comments quote.                    *)
(***************************************************************************)
EXTENDS Integers, FiniteSets

CONSTANTS
  Slots,       \* entries of the process table for the program's processes
  Hops,        \* parents the idle decision follows (32)
  Spins,       \* yields without progress that make a deadlock (2)
  MaxForks,    \* bound: processes made after the first
  MaxBursts,   \* bound: calls one process makes before it must exit
  Assumed      \* what is taken for granted of the program and the kernel

Assumptions == {"parents_wait",   \* no process exits before its children
                "spins_in_swtch"} \* while a sleeper waits for the clock, it
                                  \* takes the scheduler 2000 instructions
                                  \* to come back to proc0

ASSUME SessionAssumption ==
  /\ Slots \cap {"proc0", "idle", "init", "none"} = {}
  /\ Hops \in Nat /\ Spins \in Nat \ {0}
  /\ MaxForks \in Nat /\ MaxBursts \in Nat
  /\ Assumed \subseteq Assumptions

VARIABLES
  phase,        \* "boot", "running", "panicked" or "ended"
  verdict,      \* how it ended
  run_init,     \* the option --init
  usable,       \* the cluster table has a cluster that may fork
  stat,         \* p_stat
  parent,       \* the process at +0x18
  queued,       \* processes with the back-pointer to a run queue (+0x80)
  rlink,        \* processes whose p_rlink is not 0
  forkable,     \* processes in a cluster that may fork
  wait,         \* what a sleeper waits for
  worst,        \* proc0 has the worst priority
  cur,          \* the kernel's curproc
  procexp_proc,
  idle_spins,
  recent,       \* fewer than 2000 instructions since the last yield
  forks, bursts \* left, of the bounds

table == <<stat, parent, forkable, wait>>
runq == <<queued, rlink>>
hook == <<idle_spins, worst>>
bounds == <<forks, bursts>>
options == <<run_init, usable>>
vars == <<phase, verdict, options, table, runq, hook, cur, procexp_proc,
          recent, bounds>>

Proc == Slots \cup {"proc0", "idle", "init"}
User == Slots \cup {"init"}
Verdicts == {"none", "refused", "exited", "deadlock", "halted", "limit"}

TypeOK ==
  /\ phase \in {"boot", "running", "panicked", "ended"}
  /\ verdict \in Verdicts
  /\ run_init \in BOOLEAN /\ usable \in BOOLEAN
  /\ stat \in [Proc -> {"free", "run", "sleep", "zombie"}]
  /\ parent \in [Proc -> Proc \cup {"none"}]
  /\ queued \subseteq Proc /\ rlink \subseteq Proc
  /\ forkable \subseteq Proc
  /\ wait \in [Slots -> {"none", "child", "tick", "event"}]
  /\ worst \in BOOLEAN /\ recent \in BOOLEAN
  /\ cur \in Proc /\ procexp_proc \in Slots \cup {"none"}
  /\ idle_spins \in 0 .. Spins
  /\ forks \in 0 .. MaxForks /\ bursts \in [Slots -> 0 .. MaxBursts]

(* The swapper's idle loop.  init has been runnable since the boot, and    *)
(* proc0 is not on a queue while it runs.                                  *)
Init ==
  /\ phase = "boot" /\ verdict = "none"
  /\ run_init \in BOOLEAN /\ usable \in BOOLEAN
  /\ stat = [q \in Proc |-> IF q \in Slots THEN "free" ELSE "run"]
  /\ parent = [q \in Proc |-> IF q = "init" THEN "proc0" ELSE "none"]
  /\ queued = {"idle", "init"} /\ rlink = queued
  /\ forkable = {} /\ wait = [q \in Slots |-> "none"]
  /\ worst = FALSE /\ cur = "proc0" /\ procexp_proc = "none"
  /\ idle_spins = 0 /\ recent = FALSE
  /\ forks = MaxForks /\ bursts = [q \in Slots |-> MaxBursts]

(***************************************************************************)
(* The run queue, through the kernel's rem_runq and setrq                  *)
(***************************************************************************)

(* rem_runq leaves the links of what it removes dangling; runq_remove      *)
(* clears them.                                                            *)
RunqRemove_mut(S, links) == links

RunqRemove(S, links) == links \ S

(* setrq wants a runnable process that is not queued.                      *)
RunqAdd_mut(p, Q) == Q

RunqAdd(p, Q) == IF stat[p] = "run" THEN Q \cup {p} ELSE Q

(***************************************************************************)
(* The kernel's scheduler                                                  *)
(***************************************************************************)

Waiting == \E q \in Slots : stat[q] = "sleep" /\ wait[q] = "tick"

(* What swtch may pick from Q: proc0 at the swapper's own priority, else a *)
(* user process, else proc0 or the processor's idle process.               *)
Choices(Q, low) ==
  IF "proc0" \in Q /\ ~low THEN {"proc0"}
  ELSE IF Q \cap User # {} THEN Q \cap User ELSE Q

(* The processor goes to p; `was`: recent when the switch began.           *)
Resumes(p, was, ticking) ==
  /\ cur' = p
  /\ recent' \in IF p = "proc0" /\ ticking /\ "spins_in_swtch" \in Assumed
                  THEN {FALSE} ELSE {was, FALSE}

(* Switch to one of the queued processes, with proc0 at a low priority or  *)
(* not and with a sleeper waiting for the clock (ticking) or not.  Finding *)
(* none is a panic ("Should have found the idle process", cpu.c:725).      *)
Swtch(Q, links, was, low, ticking) ==
  IF Q = {}
    THEN /\ phase' = "panicked"
         /\ queued' = Q /\ rlink' = links /\ UNCHANGED <<cur, recent>>
    ELSE \E q \in Choices(Q, low) :
           /\ Resumes(q, was, ticking)
           /\ queued' = Q \ {q} /\ rlink' = links \ {q}
           /\ UNCHANGED phase

(***************************************************************************)
(* The emulator: launching the program                                     *)
(***************************************************************************)

Free == {q \in Slots : stat[q] = "free"}

(* proc_experiment returned 0 (or never got a process).                    *)
Refused ==
  /\ phase' = "ended" /\ verdict' = "refused"
  /\ UNCHANGED <<options, hook, cur, recent, bounds>>

(* newproc failed or did not return.                                       *)
LaunchNoProcess ==
  /\ phase = "boot"
  /\ Refused
  /\ UNCHANGED <<table, runq, procexp_proc>>

(* newproc made p, runnable and queued, in cluster 0; its own cluster is   *)
(* then the first usable one, if the table has one.                        *)
NewProc(p) ==
  /\ stat' = [stat EXCEPT ![p] = "run"]
  /\ parent' = [parent EXCEPT ![p] = "proc0"]
  /\ forkable' = IF usable THEN forkable \cup {p} ELSE forkable
  /\ procexp_proc' = p
  /\ UNCHANGED wait

(* Its address space could not be made: no pmap, no memory for the stub or *)
(* the stack, a page of the image missing, or no room for the trampoline.  *)
(* The process stays behind, runnable.                                     *)
LaunchNoSpace(p) ==
  /\ phase = "boot" /\ p \in Free
  /\ NewProc(p)
  /\ queued' = queued \cup {p} /\ rlink' = rlink \cup {p}
  /\ Refused

(* The processes taken off the run queue: p itself, and everything         *)
(* runnable but proc0 and the idle process unless --init.                  *)
Cleared_mut(p) == {p} \cup (IF run_init THEN {} ELSE queued \ {"proc0"})

Cleared(p) == {p} \cup (IF run_init THEN {} ELSE queued \ {"proc0", "idle"})

(* Stack, stub and trampoline are in place, proc0's saved context resumes  *)
(* at the sentinel; p leaves the queue, the others too, proc0 enters it,   *)
(* and load_context(p).                                                    *)
Launch(p) ==
  /\ phase = "boot" /\ p \in Free
  /\ NewProc(p)
  /\ queued' = RunqAdd("proc0", queued \ Cleared(p))
  /\ rlink' = RunqRemove(Cleared(p), rlink \cup {p})
              \cup (queued' \ queued)
  /\ cur' = p
  /\ phase' = "running"
  /\ UNCHANGED <<verdict, options, hook, recent, bounds>>

(***************************************************************************)
(* The emulator: proc0 at the sentinel                                     *)
(***************************************************************************)

AtSentinel == phase = "running" /\ cur = "proc0"

(* q descends from the program's first process, within Hops parents.       *)
Descends(q) ==
  LET up[n \in 0 .. Hops] ==
        IF n = 0 THEN {q}
        ELSE up[n - 1] \cup
             {parent[a] : a \in up[n - 1] \ {procexp_proc, "none"}}
  IN procexp_proc \in up[Hops]

Alive_mut == \E q \in Slots : stat[q] = "run" /\ Descends(q)

Alive == \E q \in Proc : stat[q] \notin {"free", "zombie"} /\ Descends(q)

Spun_mut == idle_spins + 1

Spun == IF recent THEN idle_spins + 1 ELSE 0

(* swtch_pri(-1) with proc0 queued at the worst priority.                  *)
IdleYield ==
  /\ AtSentinel /\ Alive /\ Spun < Spins
  /\ idle_spins' = Spun
  /\ worst' = TRUE
  /\ LET Q == RunqAdd("proc0", queued)
     IN Swtch(Q, rlink \cup (Q \ queued), TRUE, TRUE, Waiting)
  /\ UNCHANGED <<verdict, options, table, procexp_proc, bounds>>

IdleEnd ==
  /\ AtSentinel
  /\ \/ ~Alive /\ verdict' = "exited" /\ UNCHANGED <<idle_spins, recent>>
     \/ /\ Alive /\ Spun >= Spins
        /\ verdict' = "deadlock" /\ idle_spins' = Spun /\ recent' = TRUE
  /\ phase' = "ended"
  /\ UNCHANGED <<options, table, runq, worst, cur, procexp_proc, bounds>>

(* The instruction limit, a jump out of the kernel, an instruction that is *)
(* not implemented.                                                        *)
Stop ==
  /\ phase = "running" /\ phase' = "ended" /\ verdict' = "limit"
  /\ UNCHANGED <<options, table, runq, hook, cur, procexp_proc, recent, bounds>>

(* The halt catcher, on the spin in which the kernel's panic ends.         *)
Halt ==
  /\ phase = "panicked" /\ phase' = "ended" /\ verdict' = "halted"
  /\ UNCHANGED <<options, table, runq, hook, cur, procexp_proc, recent, bounds>>

(***************************************************************************)
(* The kernel and the program's processes                                  *)
(***************************************************************************)

(* q runs and makes a call.                                                *)
Runs(q) ==
  /\ phase = "running" /\ cur = q /\ q \in Slots
  /\ UNCHANGED <<verdict, options, hook, procexp_proc>>

Call(q) ==
  /\ Runs(q) /\ bursts[q] > 0
  /\ bursts' = [bursts EXCEPT ![q] = @ - 1]

(* A fork out of the system cluster panics.                                *)
KFork(q, c) ==
  /\ Runs(q) /\ c \in Free /\ forks > 0
  /\ forks' = forks - 1 /\ UNCHANGED recent
  /\ IF q \in forkable
       THEN /\ stat' = [stat EXCEPT ![c] = "run"]
            /\ parent' = [parent EXCEPT ![c] = q]
            /\ forkable' = forkable \cup {c}
            /\ queued' = queued \cup {c} /\ rlink' = rlink \cup {c}
            /\ bursts' = [bursts EXCEPT ![c] = MaxBursts]
            /\ UNCHANGED <<phase, wait, cur>>
       ELSE /\ phase' = "panicked"
            /\ UNCHANGED <<table, runq, cur, bursts>>

Children(q) == {c \in Slots : parent[c] = q /\ stat[c] # "free"}
Zombies(q) == {c \in Children(q) : stat[c] = "zombie"}

(* sleep_and_unlock panics on a process still linked to a queue.           *)
KSleep(q, w) ==
  /\ IF w = "child"
       THEN Runs(q) /\ Children(q) # {} /\ Zombies(q) = {} /\ UNCHANGED bursts
       ELSE Call(q)
  /\ IF q \in rlink
       THEN phase' = "panicked" /\ UNCHANGED <<table, runq, cur, recent>>
       ELSE /\ stat' = [stat EXCEPT ![q] = "sleep"]
            /\ wait' = [wait EXCEPT ![q] = w]
            /\ Swtch(queued, rlink, recent, worst, Waiting \/ w = "tick")
            /\ UNCHANGED <<parent, forkable>>
  /\ UNCHANGED forks

(* wait4 finds a child that has exited.                                    *)
KReap(q) ==
  /\ Runs(q)
  /\ \E c \in Zombies(q) :
       /\ stat' = [stat EXCEPT ![c] = "free"]
       /\ parent' = [parent EXCEPT ![c] = "none"]
  /\ UNCHANGED <<phase, forkable, wait, runq, cur, recent, bounds>>

(* The sleepers in S wake up runnable.                                     *)
Woken(S, st) == [p \in Proc |-> IF p \in S THEN "run" ELSE st[p]]

(* The children left go to init; a parent that waits wakes up.             *)
KExit(q) ==
  /\ Runs(q)
  /\ "parents_wait" \in Assumed => Children(q) = Zombies(q)
  /\ LET up == {p \in Slots : p = parent[q] /\ wait[p] = "child"
                              /\ stat[p] = "sleep"}
         Q == queued \cup up
     IN /\ stat' = Woken(up, [stat EXCEPT ![q] = "zombie"])
        /\ wait' = [p \in Slots |-> IF p \in up THEN "none" ELSE wait[p]]
        /\ Swtch(Q, rlink \cup up, recent, worst, Waiting)
  /\ parent' = [p \in Proc |-> IF p \in Children(q) THEN "init"
                               ELSE parent[p]]
  /\ UNCHANGED <<forkable, bounds>>

(* q lets another process, asleep for it, go on (a pipe).                  *)
KWakeup(q, r) ==
  /\ Call(q) /\ r \in Slots
  /\ stat[r] = "sleep" /\ wait[r] = "event"
  /\ stat' = Woken({r}, stat) /\ wait' = [wait EXCEPT ![r] = "none"]
  /\ queued' = queued \cup {r} /\ rlink' = rlink \cup {r}
  /\ UNCHANGED <<phase, parent, forkable, cur, recent, forks>>

(* The clock takes the processor from a user process.                      *)
KPreempt ==
  /\ phase = "running" /\ cur \in User
  /\ cur \in Slots => bursts[cur] > 0
  /\ queued \cap User # {}
  /\ bursts' = [p \in Slots |-> IF p = cur THEN bursts[p] - 1
                                           ELSE bursts[p]]
  /\ Swtch(queued \cup {cur}, rlink \cup {cur}, FALSE, worst, Waiting)
  /\ UNCHANGED <<verdict, options, table, hook, procexp_proc, forks>>

(* A tick ends a timed sleep.  One taken with proc0 current came in the    *)
(* switch to it: at the sentinel itself no instruction runs.               *)
KTick(r) ==
  /\ phase = "running" /\ r \in Slots
  /\ stat[r] = "sleep" /\ wait[r] = "tick"
  /\ stat' = Woken({r}, stat) /\ wait' = [wait EXCEPT ![r] = "none"]
  /\ queued' = queued \cup {r} /\ rlink' = rlink \cup {r}
  /\ recent' = FALSE
  /\ UNCHANGED <<phase, verdict, options, parent, forkable, hook, cur,
                 procexp_proc, bounds>>

(* The idle process gives way to anything queued.                          *)
KIdle ==
  /\ phase = "running" /\ cur = "idle"
  /\ \E q \in Choices(queued, worst) :
       /\ Resumes(q, recent, Waiting)
       /\ queued' = (queued \ {q}) \cup {"idle"}
       /\ rlink' = (rlink \ {q}) \cup {"idle"}
  /\ UNCHANGED <<phase, verdict, options, table, hook, procexp_proc, bounds>>

Ended == phase = "ended" /\ UNCHANGED vars

Kernel(q) ==
  \/ \E c \in Slots : KFork(q, c) \/ KWakeup(q, c)
  \/ \E w \in {"child", "tick", "event"} : KSleep(q, w)
  \/ KReap(q) \/ KExit(q)

Next ==
  \/ LaunchNoProcess
  \/ \E p \in Slots : LaunchNoSpace(p) \/ Launch(p)
  \/ IdleYield \/ IdleEnd \/ Stop \/ Halt
  \/ \E q \in Slots : Kernel(q) \/ KTick(q)
  \/ KPreempt \/ KIdle
  \/ Ended

Spec == Init /\ [][Next]_vars

(* The machine runs; a process that has the processor gets on with its     *)
(* calls and exits in the end (MaxBursts); the clock ticks; the idle       *)
(* process gives way; after a panic the kernel reaches its last spin.      *)
Fairness ==
  /\ WF_vars(IdleYield \/ IdleEnd)
  /\ WF_vars(\E q \in Slots : Kernel(q))
  /\ WF_vars(KIdle) /\ WF_vars(Halt)
  /\ \A q \in Slots : WF_vars(KTick(q))

FairSpec == Spec /\ Fairness

(***************************************************************************)
(* Properties                                                              *)
(***************************************************************************)

(* Launching by hand leaves the run queue as the kernel's own dispatch     *)
(* would: no process ever runs into "sleep_and_unlock" with its link still *)
(* set (cpu.c:288-293), the queue never loses the idle process the kernel  *)
(* insists on (cpu.c:724-727), and where the machine has a cluster that    *)
(* may fork the program is in it (cpu.c:421-428).                          *)
NoPanic == usable => phase # "panicked"

(* A process is on the run queue exactly when it is runnable and does not  *)
(* have the processor; the processes the launch took off are the only      *)
(* exception, and none of them is the program's (cpu.c:716-722).           *)
QueueIsRunnable ==
  phase = "running" =>
    \A q \in Proc \ {"init"} :
      (q \in queued) <=> (stat[q] = "run" /\ q # cur)

(* "Bail out if two yields in a row achieve nothing -- that is a real      *)
(* deadlock" (sysmode.c:185): when the run is given up, no process of the  *)
(* program is runnable and no tick would make one so.                      *)
NoneCanMove ==
  \A q \in Slots : stat[q] # "run" /\ (stat[q] = "sleep" => wait[q] # "tick")

Stuck == NoneCanMove /\ \E q \in Slots : stat[q] = "sleep"

DeadlockIsReal == verdict = "deadlock" => Stuck

(* The run ends when the program has: proc0 is queued when it is abandoned *)
(* and at every yield, or the scheduler would spin "instead of resuming    *)
(* proc0 at the parked idle sentinel, so the run never ends"               *)
(* (cpu.c:313-319), and yielding lets the processes that can move do so.   *)
(* With --init another program may keep the processor for ever.            *)
Ends == (phase = "running" /\ ~run_init) ~> (phase = "ended" \/ Stuck)

(* Seen from outside: the program is started at most once, and the run is  *)
(* declared finished only when every process of the program has exited, a  *)
(* sleeping one included (sysmode.c:183-185).                              *)
program == INSTANCE Program WITH
  Pids <- Slots,
  live <- {q \in Slots : procexp_proc # "none" /\ verdict # "refused"
                         /\ stat[q] \in {"run", "sleep"}},
  state <- CASE verdict = "none" -> IF phase = "boot" THEN "boot" ELSE "running"
             [] verdict \in {"halted", "limit"} -> "aborted"
             [] OTHER -> verdict

Runs_Program == program!Spec
=============================================================================
