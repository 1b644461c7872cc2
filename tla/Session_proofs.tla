--------------------------- MODULE Session_proofs ---------------------------
(***************************************************************************)
(* For any number of processes and calls: the run queue the launch makes   *)
(* by hand is the one the kernel's scheduler would have, so that no        *)
(* process of the program runs into one of its panics; a run is given up   *)
(* only when no process of the program can move; and a run, seen from      *)
(* outside, is the life of the program, from its start to its last exit.   *)
(***************************************************************************)
EXTENDS Session, FiniteSetTheorems, WellFoundedInduction, TLAPS

(* While the program runs: the links are those of the queue, the queue     *)
(* holds what is runnable and does not run, and the kernel's own           *)
(* processes are always runnable.                                          *)
Scheduled ==
  /\ stat["proc0"] = "run" /\ stat["idle"] = "run" /\ stat["init"] = "run"
  /\ phase = "boot" =>
       /\ cur = "proc0" /\ queued = {"idle", "init"} /\ rlink = queued
       /\ \A q \in Slots : stat[q] = "free"
       /\ ~recent /\ ~worst
  /\ phase = "running" =>
       /\ rlink = queued /\ stat[cur] = "run" /\ cur \notin queued
       /\ \A q \in Proc \ {"init"} :
            (q \in queued) <=> (stat[q] = "run" /\ q # cur)

(* Where a cluster may fork, every process of the program is in it, so     *)
(* that none panics.                                                       *)
MayFork ==
  usable =>
    /\ phase # "panicked"
    /\ phase \in {"boot", "running"} =>
         \A q \in Slots : stat[q] # "free" => q \in forkable

(* Two yields in a row with nothing in between: nothing was queued and     *)
(* nothing waits for the clock.                                            *)
Yielded ==
  phase = "running" /\ "spins_in_swtch" \in Assumed =>
    /\ recent => worst
    /\ cur = "proc0" /\ recent => queued \cap User = {} /\ ~Waiting

Inv ==
  /\ TypeOK /\ Scheduled
  /\ phase \in {"boot", "running"} => idle_spins < Spins /\ verdict = "none"

GaveUp ==
  "spins_in_swtch" \in Assumed /\ verdict = "deadlock" =>
    phase = "ended" /\ NoneCanMove

All == Inv /\ MayFork /\ Yielded /\ GaveUp

LEMMA Distinct ==
  /\ "proc0" \notin Slots /\ "idle" \notin Slots /\ "init" \notin Slots
  /\ "none" \notin Slots
  BY SessionAssumption

LEMMA InitInv == Init => All
<1> SUFFICES ASSUME Init PROVE All
  OBVIOUS
<1>1. TypeOK
  <2>1. stat \in [Proc -> {"free", "run", "sleep", "zombie"}]
    BY DEF Init
  <2>2. parent \in [Proc -> Proc \cup {"none"}]
    BY DEF Init, Proc
  <2>3. wait \in [Slots -> {"none", "child", "tick", "event"}]
    BY DEF Init
  <2>4. MaxForks \in Nat /\ MaxBursts \in Nat /\ Spins \in Nat
    BY SessionAssumption
  <2>5. /\ forks \in 0 .. MaxForks /\ bursts \in [Slots -> 0 .. MaxBursts]
        /\ idle_spins \in 0 .. Spins
    BY <2>4 DEF Init
  <2>6. /\ queued \subseteq Proc /\ rlink \subseteq Proc /\ cur \in Proc
        /\ forkable \subseteq Proc
    BY DEF Init, Proc
  <2> QED
    BY <2>1, <2>2, <2>3, <2>5, <2>6 DEF Init, TypeOK, Verdicts
<1>2. Scheduled
  BY Distinct DEF Init, Scheduled, Proc
<1>3. MayFork
  BY DEF Init, MayFork, Proc
<1>4. Yielded /\ GaveUp
  BY DEF Init, Yielded, GaveUp
<1>5. Inv
  BY <1>1, <1>2, SessionAssumption DEF Init, Inv
<1> QED
  BY <1>3, <1>4, <1>5 DEF All

(* A switch among the processes that can run, one of them at least.        *)
LEMMA SwtchKeeps ==
  ASSUME phase = "running",
         NEW Q \in SUBSET Proc, Q # {},
         NEW was \in BOOLEAN, NEW low \in BOOLEAN, NEW ticking \in BOOLEAN,
         Swtch(Q, Q, was, low, ticking),
         \A q \in Q : stat'[q] = "run",
         \A q \in Proc \ {"init"} : stat'[q] = "run" => q \in Q,
         stat'["proc0"] = "run" /\ stat'["idle"] = "run" /\ stat'["init"] = "run"
  PROVE  /\ Scheduled' /\ phase' = "running"
         /\ queued' \subseteq Proc /\ rlink' \subseteq Proc
         /\ cur' \in Proc /\ recent' \in BOOLEAN
         /\ queued' \subseteq Q
         /\ recent' => was
         /\ cur' = "proc0" /\ low => Q \cap User = {}
         /\ cur' = "proc0" /\ ticking /\ "spins_in_swtch" \in Assumed => ~recent'
<1>1. PICK x \in Choices(Q, low) :
        /\ Resumes(x, was, ticking)
        /\ queued' = Q \ {x} /\ rlink' = Q \ {x}
        /\ UNCHANGED phase
  BY DEF Swtch
<1>2. x \in Q /\ cur' = x
  BY <1>1 DEF Choices, Resumes
<1>3. Scheduled'
  BY <1>1, <1>2 DEF Scheduled
<1>4. /\ recent' \in BOOLEAN
      /\ recent' => was
      /\ cur' = "proc0" /\ ticking /\ "spins_in_swtch" \in Assumed => ~recent'
  BY <1>1, <1>2 DEF Resumes
<1>5. x = "proc0" /\ low => Q \cap User = {}
  BY <1>1, Distinct DEF Choices, User
<1>6. cur' = "proc0" /\ low => Q \cap User = {}
  BY <1>2, <1>5
<1>7. /\ phase' = "running" /\ queued' \subseteq Q /\ rlink' \subseteq Q /\ cur' \in Q
  BY <1>1, <1>2
<1>8. queued' \subseteq Proc /\ rlink' \subseteq Proc /\ cur' \in Proc
  BY <1>7
<1> QED
  BY <1>3, <1>4, <1>6, <1>7, <1>8, Zenon

(* The launch: with p off the queue, and proc0 on it, the queue is right   *)
(* whether or not the others are taken off.                                *)
LEMMA LaunchInv ==
  ASSUME All, NEW p \in Slots, Launch(p)
  PROVE  All'
<1>1. /\ phase = "boot" /\ p \in Free /\ NewProc(p)
      /\ queued = {"idle", "init"} /\ rlink = queued /\ cur = "proc0"
      /\ ~recent /\ idle_spins < Spins /\ verdict = "none"
      /\ \A q \in Slots : stat[q] = "free"
  BY DEF Launch, All, Inv, Scheduled
<1>2. /\ p # "proc0" /\ p # "idle" /\ p # "init" /\ p \in Proc
      /\ stat["proc0"] = "run"
  BY Distinct DEF Proc, All, Inv, Scheduled
<1>3. /\ stat' = [stat EXCEPT ![p] = "run"]
      /\ stat \in [Proc -> {"free", "run", "sleep", "zombie"}]
  BY <1>1 DEF NewProc, All, Inv, TypeOK
<1>4. queued' = (queued \ Cleared(p)) \cup {"proc0"}
  BY <1>2 DEF Launch, RunqAdd
<1>5. rlink' = queued'
  BY <1>1, <1>2, <1>4 DEF Launch, RunqRemove, Cleared
<1>6. /\ "idle" \in queued' /\ "proc0" \in queued'
      /\ queued' \subseteq {"idle", "init", "proc0"}
  BY <1>1, <1>2, <1>4 DEF Cleared
<1>7. phase' = "running" /\ cur' = p
  BY DEF Launch
<1>8. Scheduled'
  <2>1. stat'[p] = "run" /\ \A q \in Proc \ {p} : stat'[q] = stat[q]
    BY <1>2, <1>3
  <2>2. stat'["proc0"] = "run" /\ stat'["idle"] = "run" /\ stat'["init"] = "run"
    BY <1>2, <2>1 DEF All, Inv, Scheduled, Proc
  <2>3. \A q \in Proc \ {"init"} : (q \in queued') <=> (stat'[q] = "run" /\ q # cur')
    BY <1>1, <1>2, <1>6, <1>7, <2>1, <2>2 DEF Proc
  <2> QED
    BY <1>2, <1>5, <1>6, <1>7, <2>1, <2>2, <2>3 DEF Scheduled
<1>9. TypeOK'
  <2>1. stat' \in [Proc -> {"free", "run", "sleep", "zombie"}]
    BY <1>3
  <2>2. parent' \in [Proc -> Proc \cup {"none"}]
    BY <1>1, <1>2 DEF NewProc, All, Inv, TypeOK, Proc
  <2>3. queued' \subseteq Proc /\ rlink' \subseteq Proc /\ cur' \in Proc
    BY <1>2, <1>5, <1>6, <1>7 DEF Proc
  <2>4. forkable' \subseteq Proc /\ procexp_proc' \in Slots \cup {"none"}
    BY <1>1, <1>2 DEF NewProc, All, Inv, TypeOK
  <2>5. UNCHANGED <<verdict, options, hook, recent, bounds, wait>>
    BY <1>1 DEF Launch, NewProc
  <2> QED
    BY <1>7, <2>1, <2>2, <2>3, <2>4, <2>5 DEF All, Inv, TypeOK, options, hook, bounds
<1>10. MayFork'
  BY <1>1, <1>3 DEF All, MayFork, NewProc, Launch, options, Proc
<1>11. Yielded' /\ GaveUp' /\ (idle_spins' < Spins /\ verdict' = "none")
  BY <1>1, <1>2, <1>7 DEF All, Yielded, GaveUp, Launch, hook
<1> QED
  BY <1>8, <1>9, <1>10, <1>11 DEF All, Inv

(* A launch that fails leaves the machine where it was, and ends the run.  *)
LEMMA RefusedInv ==
  ASSUME All,
         LaunchNoProcess \/ \E p \in Slots : LaunchNoSpace(p)
  PROVE  All'
<1>1. phase' = "ended" /\ verdict' = "refused"
  BY DEF LaunchNoProcess, LaunchNoSpace, Refused
<1>2. CASE LaunchNoProcess
  BY <1>1, <1>2 DEF LaunchNoProcess, Refused, All, Inv, TypeOK, Scheduled, MayFork,
     Yielded, GaveUp, table, runq, options, hook, bounds, Verdicts
<1>3. ASSUME NEW p \in Slots, LaunchNoSpace(p) PROVE All'
  <2>1. p \in Proc /\ p # "proc0" /\ p # "idle" /\ p # "init"
    BY Distinct DEF Proc
  <2>2. stat' = [stat EXCEPT ![p] = "run"] /\ parent' = [parent EXCEPT ![p] = "proc0"]
    BY <1>3 DEF LaunchNoSpace, NewProc
  <2>3. stat' \in [Proc -> {"free", "run", "sleep", "zombie"}]
    BY <2>2 DEF All, Inv, TypeOK
  <2>4. parent' \in [Proc -> Proc \cup {"none"}]
    BY <2>2 DEF All, Inv, TypeOK, Proc
  <2>5. TypeOK'
    BY <1>1, <1>3, <2>1, <2>3, <2>4 DEF LaunchNoSpace, NewProc, Refused, All, Inv, TypeOK,
       options, hook, bounds, Verdicts
  <2>6. Scheduled'
    BY <1>1, <2>1, <2>2 DEF All, Inv, TypeOK, Scheduled, Proc
  <2> QED
    BY <1>1, <2>5, <2>6 DEF All, Inv, MayFork, Yielded, GaveUp
<1> QED
  BY <1>2, <1>3

(* What a process of the program finds when it runs.                       *)
LEMMA Running ==
  ASSUME Inv, NEW q \in Slots, phase = "running", cur = q
  PROVE  /\ q \in Proc /\ q # "proc0" /\ q # "idle" /\ q # "init"
         /\ stat[q] = "run" /\ q \notin queued /\ rlink = queued
         /\ "idle" \in queued /\ queued \subseteq Proc
         /\ \A r \in queued : stat[r] = "run"
         /\ verdict = "none"
  BY Distinct DEF Inv, Scheduled, TypeOK, Proc

LEMMA BurstType ==
  ASSUME TypeOK, NEW q \in Slots, Call(q)
  PROVE  bursts' \in [Slots -> 0 .. MaxBursts]
<1>1. bursts[q] \in 0 .. MaxBursts /\ MaxBursts \in Nat
  BY SessionAssumption DEF TypeOK
<1>2. bursts[q] - 1 \in 0 .. MaxBursts
  BY <1>1 DEF Call
<1> QED
  BY <1>2 DEF Call, TypeOK

LEMMA ForkKeeps ==
  ASSUME All, NEW q \in Slots, NEW c \in Slots, KFork(q, c)
  PROVE  All'
<1> USE DEF All
<1>1. /\ phase = "running" /\ cur = q /\ c \in Free /\ c \in Proc
      /\ UNCHANGED <<verdict, options, hook, procexp_proc, recent>>
  BY DEF KFork, Runs, Proc
<1>2. forks' \in 0 .. MaxForks
  BY SessionAssumption DEF KFork, Inv, TypeOK
<1>3. CASE q \in forkable
  <2>1. /\ stat' = [stat EXCEPT ![c] = "run"] /\ parent' = [parent EXCEPT ![c] = q]
        /\ forkable' = forkable \cup {c}
        /\ queued' = queued \cup {c} /\ rlink' = rlink \cup {c}
        /\ bursts' = [bursts EXCEPT ![c] = MaxBursts]
        /\ UNCHANGED <<phase, wait, cur>>
    BY <1>3 DEF KFork
  <2>2. stat[c] = "free" /\ stat[q] = "run" /\ c # q /\ q \in Proc
    BY <1>1, Running DEF Free
  <2>3. /\ stat' \in [Proc -> {"free", "run", "sleep", "zombie"}]
        /\ stat'[c] = "run" /\ \A r \in Proc \ {c} : stat'[r] = stat[r]
    BY <1>1, <2>1 DEF Inv, TypeOK
  <2>4. parent' \in [Proc -> Proc \cup {"none"}]
    BY <2>1, <2>2 DEF Inv, TypeOK
  <2>5. bursts' \in [Slots -> 0 .. MaxBursts]
    BY <2>1, SessionAssumption DEF Inv, TypeOK
  <2>6. TypeOK'
    BY <1>1, <1>2, <2>1, <2>3, <2>4, <2>5 DEF Inv, TypeOK, options, hook
  <2>7. Scheduled'
    BY <1>1, <2>1, <2>2, <2>3, Distinct DEF Inv, Scheduled, Proc
  <2>8. MayFork'
    BY <1>1, <2>1, <2>3 DEF MayFork, options, Proc
  <2>9. Yielded' /\ GaveUp' /\ idle_spins' < Spins /\ verdict' = "none"
    BY <1>1, <2>1, Distinct DEF Inv, Yielded, GaveUp, hook
  <2> QED
    BY <2>6, <2>7, <2>8, <2>9 DEF Inv
<1>4. CASE q \notin forkable
  <2>1. phase' = "panicked" /\ UNCHANGED <<table, runq, cur, bursts>>
    BY <1>4 DEF KFork
  <2>2. ~usable
    BY <1>1, <1>4, Running DEF MayFork
  <2>3. TypeOK' /\ Scheduled'
    BY <1>1, <1>2, <2>1 DEF Inv, TypeOK, Scheduled, options, hook, table, runq
  <2>4. MayFork' /\ Yielded' /\ GaveUp'
    BY <1>1, <2>1, <2>2 DEF Inv, MayFork, Yielded, GaveUp, options
  <2> QED
    BY <2>1, <2>3, <2>4 DEF Inv
<1> QED
  BY <1>3, <1>4

LEMMA SleepKeeps ==
  ASSUME All, NEW q \in Slots, NEW w \in {"child", "tick", "event"}, KSleep(q, w)
  PROVE  All'
<1> USE DEF All
<1> DEFINE ticking == Waiting \/ w = "tick"
<1>1. /\ phase = "running" /\ cur = q
      /\ UNCHANGED <<verdict, options, hook, procexp_proc, forks>>
  BY DEF KSleep, Call, Runs
<1>2. /\ q \in Proc /\ q # "proc0" /\ q # "idle" /\ q # "init"
      /\ stat[q] = "run" /\ q \notin queued /\ rlink = queued
      /\ "idle" \in queued /\ queued \subseteq Proc
      /\ \A r \in queued : stat[r] = "run"
      /\ verdict = "none"
  BY <1>1, Running
<1>3. /\ stat' = [stat EXCEPT ![q] = "sleep"] /\ wait' = [wait EXCEPT ![q] = w]
      /\ Swtch(queued, queued, recent, worst, ticking)
      /\ UNCHANGED <<parent, forkable>>
  BY <1>2 DEF KSleep
<1>4. /\ stat' \in [Proc -> {"free", "run", "sleep", "zombie"}]
      /\ stat'[q] = "sleep" /\ \A r \in Proc \ {q} : stat'[r] = stat[r]
  BY <1>2, <1>3 DEF Inv, TypeOK
<1>5. /\ \A r \in queued : stat'[r] = "run"
      /\ \A r \in Proc \ {"init"} : stat'[r] = "run" => r \in queued
      /\ stat'["proc0"] = "run" /\ stat'["idle"] = "run" /\ stat'["init"] = "run"
  BY <1>1, <1>2, <1>4 DEF Inv, Scheduled, Proc
<1>6. recent \in BOOLEAN /\ worst \in BOOLEAN /\ ticking \in BOOLEAN
  BY DEF Inv, TypeOK
<1> HIDE DEF ticking
<1>7. /\ Scheduled' /\ phase' = "running"
      /\ queued' \subseteq Proc /\ rlink' \subseteq Proc
      /\ cur' \in Proc /\ recent' \in BOOLEAN
      /\ queued' \subseteq queued
      /\ recent' => recent
      /\ cur' = "proc0" /\ worst => queued \cap User = {}
      /\ cur' = "proc0" /\ ticking /\ "spins_in_swtch" \in Assumed => ~recent'
  BY <1>1, <1>2, <1>3, <1>5, <1>6, SwtchKeeps
<1>8. bursts' \in [Slots -> 0 .. MaxBursts]
  BY BurstType DEF KSleep, Inv, TypeOK
<1>9. TypeOK'
  <2>1. wait' \in [Slots -> {"none", "child", "tick", "event"}]
    BY <1>3 DEF Inv, TypeOK
  <2> QED
    BY <1>1, <1>3, <1>4, <1>7, <1>8, <2>1 DEF Inv, TypeOK, options, hook
<1>10. MayFork'
  BY <1>1, <1>2, <1>3, <1>4, <1>7 DEF MayFork, options, Proc
<1>11. Yielded'
  <2> SUFFICES ASSUME "spins_in_swtch" \in Assumed, recent'
               PROVE  worst' /\ (cur' = "proc0" => queued' \cap User = {} /\ ~Waiting')
    BY DEF Yielded
  <2>1. worst /\ worst'
    BY <1>1, <1>7 DEF Yielded, hook
  <2>2. cur' = "proc0" => queued' \cap User = {}
    BY <1>7, <2>1
  <2>3. Waiting' => ticking
    <3> SUFFICES ASSUME NEW r \in Slots, stat'[r] = "sleep", wait'[r] = "tick"
                 PROVE  ticking
      BY DEF Waiting
    <3>1. CASE r = q
      BY <1>3, <3>1 DEF ticking, Inv, TypeOK
    <3>2. CASE r # q
      BY <1>3, <1>4, <3>2 DEF ticking, Waiting, Inv, TypeOK, Proc
    <3> QED
      BY <3>1, <3>2
  <2> QED
    BY <1>7, <2>1, <2>2, <2>3
<1>12. GaveUp' /\ idle_spins' < Spins /\ verdict' = "none"
  BY <1>1, <1>2 DEF Inv, GaveUp, hook
<1> QED
  BY <1>7, <1>9, <1>10, <1>11, <1>12 DEF Inv

(* Calls that leave the processor with its process.                        *)
LEMMA ReapKeeps ==
  ASSUME All, NEW q \in Slots, KReap(q)
  PROVE  All'
<1> USE DEF All
<1>1. PICK c \in Zombies(q) : /\ stat' = [stat EXCEPT ![c] = "free"]
                             /\ parent' = [parent EXCEPT ![c] = "none"]
  BY DEF KReap
<1>2. /\ phase = "running" /\ cur = q
      /\ UNCHANGED <<phase, verdict, options, hook, procexp_proc, forkable, wait,
                     runq, cur, recent, bounds>>
  BY DEF KReap, Runs
<1>3. c \in Slots /\ c \in Proc /\ stat[c] = "zombie"
  BY DEF Zombies, Children, Proc
<1>4. stat[q] = "run" /\ q \in Proc /\ q # "proc0" /\ verdict = "none"
  BY <1>2, Running
<1>5. /\ stat' \in [Proc -> {"free", "run", "sleep", "zombie"}]
      /\ stat'[c] = "free" /\ \A r \in Proc \ {c} : stat'[r] = stat[r]
  BY <1>1, <1>3 DEF Inv, TypeOK
<1>6. TypeOK'
  <2>1. parent' \in [Proc -> Proc \cup {"none"}]
    BY <1>1 DEF Inv, TypeOK
  <2> QED
    BY <1>2, <1>5, <2>1 DEF Inv, TypeOK, options, hook, runq, bounds
<1>7. Scheduled'
  BY <1>2, <1>3, <1>4, <1>5, Distinct DEF Inv, Scheduled, runq, Proc
<1>8. MayFork' /\ Yielded' /\ GaveUp'
  BY <1>2, <1>3, <1>4, <1>5 DEF MayFork, Yielded, GaveUp, options, hook, Proc
<1> QED
  BY <1>2, <1>4, <1>6, <1>7, <1>8 DEF Inv, hook

(* A sleeper r is made runnable and queued.                                *)
Queues(r) ==
  /\ stat[r] = "sleep" /\ stat' = Woken({r}, stat)
  /\ wait' = [wait EXCEPT ![r] = "none"]
  /\ queued' = queued \cup {r} /\ rlink' = rlink \cup {r}
  /\ UNCHANGED <<phase, verdict, options, parent, forkable, hook, cur, procexp_proc,
                 forks>>

LEMMA WakeKeeps ==
  ASSUME All, NEW r \in Slots, phase = "running", Queues(r),
         recent' \in BOOLEAN, recent' => recent, cur = "proc0" => ~recent',
         bursts' \in [Slots -> 0 .. MaxBursts]
  PROVE  All'
<1> USE DEF All
<1>1. /\ r \in Proc /\ r # "proc0" /\ r # "idle" /\ r # "init" /\ r # cur
      /\ verdict = "none"
  BY Distinct DEF Inv, Scheduled, Queues, Proc
<1>2. /\ stat' \in [Proc -> {"free", "run", "sleep", "zombie"}]
      /\ stat'[r] = "run" /\ \A p \in Proc \ {r} : stat'[p] = stat[p]
  BY <1>1 DEF Inv, TypeOK, Queues, Woken
<1>3. TypeOK'
  <2>1. wait' \in [Slots -> {"none", "child", "tick", "event"}]
    BY DEF Inv, TypeOK, Queues
  <2> QED
    BY <1>1, <1>2, <2>1 DEF Inv, TypeOK, Queues, options, hook
<1>4. Scheduled'
  <2>1. /\ queued' = queued \cup {r} /\ rlink' = queued' /\ cur' = cur
        /\ phase' = "running" /\ stat[cur] = "run" /\ cur \notin queued /\ cur \in Proc
    BY DEF Inv, Scheduled, TypeOK, Queues
  <2>2. stat'["proc0"] = "run" /\ stat'["idle"] = "run" /\ stat'["init"] = "run"
    BY <1>1, <1>2 DEF Inv, Scheduled, Proc
  <2>3. \A q \in Proc \ {"init"} : (q \in queued') <=> (stat'[q] = "run" /\ q # cur')
    BY <1>1, <1>2, <2>1 DEF Inv, Scheduled
  <2> QED
    BY <1>1, <1>2, <2>1, <2>2, <2>3 DEF Scheduled
<1>5. MayFork'
  BY <1>1, <1>2 DEF MayFork, Queues, options, Proc
<1>6. Yielded'
  <2>1. cur' = cur /\ phase' = phase /\ worst' = worst /\ (recent' => recent)
    BY DEF Queues, hook
  <2> QED
    BY <2>1 DEF Yielded
<1>7. GaveUp'
  BY <1>1 DEF GaveUp, Queues
<1> QED
  BY <1>1, <1>3, <1>4, <1>5, <1>6, <1>7 DEF Inv, Queues, hook

LEMMA WakeupKeeps ==
  ASSUME All, NEW q \in Slots, NEW r \in Slots, KWakeup(q, r)
  PROVE  All'
<1>1. /\ phase = "running" /\ cur = q /\ q # "proc0"
      /\ recent' = recent /\ recent \in BOOLEAN
  BY Distinct DEF KWakeup, Call, Runs, All, Inv, TypeOK
<1>2. Queues(r)
  BY DEF KWakeup, Call, Runs, Queues
<1>3. bursts' \in [Slots -> 0 .. MaxBursts]
  BY BurstType DEF KWakeup, All, Inv
<1> QED
  BY <1>1, <1>2, <1>3, WakeKeeps

LEMMA TickKeeps ==
  ASSUME All, NEW r \in Slots, KTick(r)
  PROVE  All'
<1>1. phase = "running" /\ recent' = FALSE /\ Queues(r)
  BY DEF KTick, Queues, bounds
<1>2. bursts' \in [Slots -> 0 .. MaxBursts]
  BY DEF KTick, bounds, All, Inv, TypeOK
<1> QED
  BY <1>1, <1>2, WakeKeeps

(* The exiting process wakes its parent; neither is queued already.        *)
LEMMA ExitKeeps ==
  ASSUME All, NEW q \in Slots, KExit(q)
  PROVE  All'
<1> USE DEF All
<1> DEFINE up == {p \in Slots : p = parent[q] /\ wait[p] = "child" /\ stat[p] = "sleep"}
           Q == queued \cup up
<1>1. /\ phase = "running" /\ cur = q
      /\ UNCHANGED <<verdict, options, hook, procexp_proc, forkable, bounds>>
  BY DEF KExit, Runs
<1>2. /\ q \in Proc /\ q # "proc0" /\ q # "idle" /\ q # "init"
      /\ stat[q] = "run" /\ q \notin queued /\ rlink = queued
      /\ "idle" \in queued /\ queued \subseteq Proc
      /\ \A r \in queued : stat[r] = "run"
      /\ verdict = "none"
  BY <1>1, Running
<1>3. /\ stat' = Woken(up, [stat EXCEPT ![q] = "zombie"])
      /\ wait' = [p \in Slots |-> IF p \in up THEN "none" ELSE wait[p]]
      /\ Swtch(Q, Q, recent, worst, Waiting)
  BY <1>2 DEF KExit
<1>4. up \subseteq Slots /\ q \notin up /\ \A p \in up : p \in Proc /\ stat[p] = "sleep"
  BY <1>2 DEF Proc
<1> HIDE DEF up
<1>5. /\ stat' \in [Proc -> {"free", "run", "sleep", "zombie"}]
      /\ stat'[q] = "zombie"
      /\ \A p \in up : stat'[p] = "run"
      /\ \A r \in Proc : r \notin up /\ r # q => stat'[r] = stat[r]
  BY <1>2, <1>3, <1>4 DEF Inv, TypeOK, Woken
<1>6. Q \in SUBSET Proc /\ Q # {}
  BY <1>2, <1>4
<1>7. /\ \A r \in Q : stat'[r] = "run"
      /\ \A r \in Proc \ {"init"} : stat'[r] = "run" => r \in Q
  BY <1>1, <1>2, <1>4, <1>5 DEF Inv, Scheduled
<1>8. stat'["proc0"] = "run" /\ stat'["idle"] = "run" /\ stat'["init"] = "run"
  <2>1. \A r \in {"proc0", "idle", "init"} : r \in Proc /\ r \notin up /\ r # q
    BY <1>2, <1>4, Distinct DEF Proc
  <2>2. stat["proc0"] = "run" /\ stat["idle"] = "run" /\ stat["init"] = "run"
    BY DEF Inv, Scheduled
  <2> QED
    BY <1>5, <2>1, <2>2
<1>9. recent \in BOOLEAN /\ worst \in BOOLEAN /\ Waiting \in BOOLEAN
  BY DEF Inv, TypeOK, Waiting
<1> HIDE DEF Q
<1>10. /\ Scheduled' /\ phase' = "running"
       /\ queued' \subseteq Proc /\ rlink' \subseteq Proc
       /\ cur' \in Proc /\ recent' \in BOOLEAN
       /\ queued' \subseteq Q
       /\ recent' => recent
       /\ cur' = "proc0" /\ worst => Q \cap User = {}
       /\ cur' = "proc0" /\ Waiting /\ "spins_in_swtch" \in Assumed => ~recent'
  BY <1>1, <1>3, <1>6, <1>7, <1>8, <1>9, SwtchKeeps
<1>11. TypeOK'
  <2>1. parent' \in [Proc -> Proc \cup {"none"}]
    BY DEF KExit, Inv, TypeOK, Proc
  <2>2. wait' \in [Slots -> {"none", "child", "tick", "event"}]
    BY <1>3 DEF Inv, TypeOK
  <2> QED
    BY <1>1, <1>5, <1>10, <2>1, <2>2 DEF Inv, TypeOK, options, hook, bounds
<1>12. MayFork'
  BY <1>1, <1>2, <1>4, <1>5, <1>10 DEF MayFork, options, Proc
<1>13. Yielded'
  <2> SUFFICES ASSUME "spins_in_swtch" \in Assumed, recent'
               PROVE  worst' /\ (cur' = "proc0" => queued' \cap User = {} /\ ~Waiting')
    BY DEF Yielded
  <2>1. worst /\ worst'
    BY <1>1, <1>10 DEF Yielded, hook
  <2>2. cur' = "proc0" => queued' \cap User = {}
    BY <1>10, <2>1
  <2>3. Waiting' => Waiting
    <3> SUFFICES ASSUME NEW r \in Slots, stat'[r] = "sleep", wait'[r] = "tick"
                 PROVE  stat[r] = "sleep" /\ wait[r] = "tick"
      BY DEF Waiting
    <3>1. r \notin up /\ r # q /\ r \in Proc
      BY <1>5 DEF Proc
    <3> QED
      BY <1>3, <1>5, <3>1
  <2> QED
    BY <1>10, <2>1, <2>2, <2>3
<1>14. GaveUp' /\ idle_spins' < Spins /\ verdict' = "none"
  BY <1>1, <1>2 DEF Inv, GaveUp, hook
<1> QED
  BY <1>10, <1>11, <1>12, <1>13, <1>14 DEF Inv

(* The clock takes the processor from a user process, which is queued.     *)
LEMMA PreemptKeeps ==
  ASSUME All, KPreempt
  PROVE  All'
<1> USE DEF All
<1> DEFINE Q == queued \cup {cur}
<1>1. /\ phase = "running" /\ cur \in User /\ queued \cap User # {}
      /\ UNCHANGED <<verdict, options, table, hook, procexp_proc, forks>>
  BY DEF KPreempt
<1>2. /\ rlink = queued /\ queued \subseteq Proc /\ cur \in Proc
      /\ stat[cur] = "run" /\ verdict = "none"
      /\ \A r \in Q : stat[r] = "run"
      /\ \A r \in Proc \ {"init"} : stat[r] = "run" => r \in Q
      /\ stat["proc0"] = "run" /\ stat["idle"] = "run" /\ stat["init"] = "run"
  BY <1>1 DEF Inv, Scheduled, TypeOK
<1>3. Swtch(Q, Q, FALSE, worst, Waiting)
  BY <1>2 DEF KPreempt
<1>4. Q \in SUBSET Proc /\ Q # {} /\ stat' = stat /\ worst \in BOOLEAN /\ Waiting \in BOOLEAN
  BY <1>1, <1>2 DEF table, Inv, TypeOK, Waiting
<1>5. /\ \A r \in Q : stat'[r] = "run"
      /\ \A r \in Proc \ {"init"} : stat'[r] = "run" => r \in Q
      /\ stat'["proc0"] = "run" /\ stat'["idle"] = "run" /\ stat'["init"] = "run"
  BY <1>2, <1>4
<1> HIDE DEF Q
<1>6. /\ Scheduled' /\ phase' = "running"
      /\ queued' \subseteq Proc /\ rlink' \subseteq Proc
      /\ cur' \in Proc /\ recent' \in BOOLEAN
      /\ ~recent'
  <2>1. FALSE \in BOOLEAN
    OBVIOUS
  <2> QED
    BY <1>1, <1>3, <1>4, <1>5, <2>1, SwtchKeeps
<1>7. bursts' \in [Slots -> 0 .. MaxBursts]
  <2> SUFFICES ASSUME NEW p \in Slots
               PROVE  (IF p = cur THEN bursts[p] - 1 ELSE bursts[p]) \in 0 .. MaxBursts
    BY DEF KPreempt
  <2>1. bursts[p] \in 0 .. MaxBursts /\ MaxBursts \in Nat
    BY SessionAssumption DEF Inv, TypeOK
  <2> QED
    BY <2>1 DEF KPreempt
<1>8. TypeOK'
  BY <1>1, <1>6, <1>7 DEF Inv, TypeOK, options, hook, table
<1>9. MayFork' /\ Yielded' /\ GaveUp'
  BY <1>1, <1>2, <1>6 DEF MayFork, Yielded, GaveUp, options, hook, table
<1> QED
  BY <1>1, <1>2, <1>6, <1>8, <1>9 DEF Inv, hook

(* The idle process takes the place in the queue of what it gives way to.  *)
LEMMA IdleKeeps ==
  ASSUME All, KIdle
  PROVE  All'
<1> USE DEF All
<1>1. PICK x \in Choices(queued, worst) :
        /\ Resumes(x, recent, Waiting)
        /\ queued' = (queued \ {x}) \cup {"idle"}
        /\ rlink' = (rlink \ {x}) \cup {"idle"}
  BY DEF KIdle
<1>2. /\ phase = "running" /\ cur = "idle"
      /\ UNCHANGED <<phase, verdict, options, table, hook, procexp_proc, bounds>>
  BY DEF KIdle
<1>3. /\ x \in queued /\ cur' = x /\ rlink = queued /\ x \in Proc
      /\ stat[x] = "run" /\ stat["idle"] = "run" /\ "idle" \notin queued
      /\ queued \subseteq Proc /\ verdict = "none" /\ "idle" \in Proc
  BY <1>1, <1>2 DEF Choices, Resumes, Inv, Scheduled, TypeOK, Proc
<1>4. /\ recent' \in BOOLEAN
      /\ recent' => recent
      /\ cur' = "proc0" /\ Waiting /\ "spins_in_swtch" \in Assumed => ~recent'
  BY <1>1, <1>3 DEF Resumes, Inv, TypeOK
<1>5. x = "proc0" /\ worst => queued \cap User = {}
  BY <1>1, Distinct DEF Choices, User
<1>6. TypeOK'
  BY <1>1, <1>2, <1>3, <1>4 DEF Inv, TypeOK, options, table, hook, bounds
<1>7. Scheduled'
  BY <1>1, <1>2, <1>3 DEF Inv, Scheduled, table
<1>8. MayFork' /\ GaveUp'
  BY <1>2, <1>3 DEF MayFork, GaveUp, options, table
<1>9. Yielded'
  <2> SUFFICES ASSUME "spins_in_swtch" \in Assumed, recent'
               PROVE  worst' /\ (cur' = "proc0" => queued' \cap User = {} /\ ~Waiting')
    BY DEF Yielded
  <2>1. worst /\ worst' /\ (Waiting' <=> Waiting)
    BY <1>2, <1>4 DEF Yielded, hook, table, Waiting
  <2>2. "idle" \notin User
    BY Distinct DEF User
  <2>3. cur' = "proc0" => queued' \cap User = {}
    BY <1>1, <1>3, <1>5, <2>1, <2>2
  <2> QED
    BY <1>4, <2>1, <2>3
<1> QED
  BY <1>2, <1>3, <1>6, <1>7, <1>8, <1>9 DEF Inv, hook

(* proc0 at the sentinel: it goes back to the queue and yields.            *)
LEMMA SpunType ==
  ASSUME Inv
  PROVE  Spun \in Nat /\ (Spun >= Spins => recent)
BY SessionAssumption DEF Inv, TypeOK, Spun

LEMMA YieldKeeps ==
  ASSUME All, IdleYield
  PROVE  All'
<1> USE DEF All
<1> DEFINE Q == queued \cup {"proc0"}
<1>1. /\ phase = "running" /\ cur = "proc0" /\ Spun < Spins
      /\ idle_spins' = Spun /\ worst' = TRUE
      /\ UNCHANGED <<verdict, options, table, procexp_proc, bounds>>
  BY DEF IdleYield, AtSentinel
<1>2. /\ stat["proc0"] = "run" /\ stat["idle"] = "run" /\ stat["init"] = "run"
      /\ rlink = queued /\ queued \subseteq Proc /\ verdict = "none"
      /\ \A r \in Proc \ {"init"} : r \in queued <=> (stat[r] = "run" /\ r # "proc0")
  BY <1>1 DEF Inv, Scheduled, TypeOK
<1>3. "proc0" \in Proc /\ RunqAdd("proc0", queued) = Q /\ stat' = stat
  BY <1>1, <1>2 DEF RunqAdd, table, Proc
<1>4. Swtch(Q, Q, TRUE, TRUE, Waiting)
  <2>1. rlink \cup (Q \ queued) = Q
    BY <1>2
  <2> QED
    BY <1>3, <2>1 DEF IdleYield
<1>5. /\ \A r \in Q : stat'[r] = "run"
      /\ \A r \in Proc \ {"init"} : stat'[r] = "run" => r \in Q
      /\ stat'["proc0"] = "run" /\ stat'["idle"] = "run" /\ stat'["init"] = "run"
  BY <1>2, <1>3
<1>6. Q \in SUBSET Proc /\ Q # {} /\ TRUE \in BOOLEAN /\ Waiting \in BOOLEAN
  BY <1>2, <1>3 DEF Waiting
<1> HIDE DEF Q
<1>7. /\ Scheduled' /\ phase' = "running"
      /\ queued' \subseteq Proc /\ rlink' \subseteq Proc
      /\ cur' \in Proc /\ recent' \in BOOLEAN
      /\ queued' \subseteq Q
      /\ cur' = "proc0" => Q \cap User = {}
      /\ cur' = "proc0" /\ Waiting /\ "spins_in_swtch" \in Assumed => ~recent'
  BY <1>1, <1>4, <1>5, <1>6, SwtchKeeps
<1>8. idle_spins' \in 0 .. Spins /\ idle_spins' < Spins
  BY <1>1, SpunType, SessionAssumption
<1>9. TypeOK'
  BY <1>1, <1>7, <1>8 DEF Inv, TypeOK, options, table, bounds
<1>10. MayFork' /\ GaveUp'
  BY <1>1, <1>2, <1>7 DEF MayFork, GaveUp, options, table
<1>11. Yielded'
  <2>1. Waiting' <=> Waiting
    BY <1>1 DEF Waiting, table
  <2>2. cur' = "proc0" => queued' \cap User = {}
    BY <1>7
  <2> QED
    BY <1>1, <1>7, <2>1, <2>2 DEF Yielded
<1> QED
  BY <1>1, <1>2, <1>7, <1>8, <1>9, <1>10, <1>11 DEF Inv

(* The run is over.                                                        *)
LEMMA EndKeeps ==
  ASSUME All, IdleEnd
  PROVE  All'
<1> USE DEF All
<1>1. /\ phase = "running" /\ cur = "proc0" /\ phase' = "ended"
      /\ UNCHANGED <<options, table, runq, worst, cur, procexp_proc, bounds>>
      /\ \/ verdict' = "exited" /\ UNCHANGED <<idle_spins, recent>>
         \/ /\ Spun >= Spins
            /\ verdict' = "deadlock" /\ idle_spins' = Spun /\ recent' = TRUE
  BY DEF IdleEnd, AtSentinel
<1>2. idle_spins' \in 0 .. Spins /\ recent' \in BOOLEAN
  <2>1. idle_spins \in 0 .. Spins /\ recent \in BOOLEAN /\ Spins \in Nat \ {0}
        /\ idle_spins < Spins
    BY <1>1, SessionAssumption DEF Inv, TypeOK
  <2>2. CASE UNCHANGED <<idle_spins, recent>>
    BY <2>1, <2>2
  <2>3. CASE Spun >= Spins /\ idle_spins' = Spun /\ recent' = TRUE
    BY <2>1, <2>3 DEF Spun
  <2> QED
    BY <1>1, <2>2, <2>3
<1>3. TypeOK' /\ Scheduled'
  BY <1>1, <1>2 DEF Inv, TypeOK, Scheduled, options, table, runq, bounds, Verdicts
<1>4. MayFork' /\ Yielded'
  BY <1>1 DEF MayFork, Yielded, options, table
<1>5. GaveUp'
  <2> SUFFICES ASSUME "spins_in_swtch" \in Assumed, verdict' = "deadlock"
               PROVE  NoneCanMove'
    BY <1>1 DEF GaveUp
  <2>1. recent
    BY <1>1, SpunType
  <2>2. queued \cap User = {} /\ ~Waiting
    BY <1>1, <2>1 DEF Yielded
  <2> SUFFICES ASSUME NEW q \in Slots
               PROVE  stat[q] # "run" /\ (stat[q] = "sleep" => wait[q] # "tick")
    BY <1>1 DEF NoneCanMove, table
  <2>3. stat[q] = "run" => q \in queued \cap User
    BY <1>1, Distinct DEF Inv, Scheduled, Proc, User
  <2> QED
    BY <2>2, <2>3 DEF Waiting
<1> QED
  BY <1>1, <1>3, <1>4, <1>5 DEF Inv

LEMMA StopKeeps ==
  ASSUME All, Stop \/ Halt \/ UNCHANGED vars
  PROVE  All'
<1> USE DEF All
<1>1. CASE Stop \/ Halt
  <2>1. /\ phase \in {"running", "panicked"} /\ phase' = "ended"
        /\ verdict' \in {"limit", "halted"}
        /\ UNCHANGED <<options, table, runq, hook, cur, procexp_proc, recent, bounds>>
    BY <1>1 DEF Stop, Halt
  <2>2. TypeOK' /\ Scheduled'
    BY <2>1 DEF Inv, TypeOK, Scheduled, options, table, runq, hook, bounds, Verdicts
  <2> QED
    BY <2>1, <2>2 DEF Inv, MayFork, Yielded, GaveUp, options
<1>2. CASE UNCHANGED vars
  BY <1>2 DEF vars, Inv, TypeOK, Scheduled, MayFork, Yielded, GaveUp, NoneCanMove, Waiting,
     options, table, runq, hook, bounds
<1> QED
  BY <1>1, <1>2

LEMMA AllNext ==
  ASSUME All, [Next]_vars
  PROVE  All'
<1>1. CASE LaunchNoProcess \/ \E p \in Slots : LaunchNoSpace(p)
  BY <1>1, RefusedInv
<1>2. CASE \E p \in Slots : Launch(p)
  BY <1>2, LaunchInv
<1>3. CASE IdleYield \/ IdleEnd
  BY <1>3, YieldKeeps, EndKeeps
<1>4. CASE \E q \in Slots : Kernel(q)
  BY <1>4, ForkKeeps, WakeupKeeps, SleepKeeps, ReapKeeps, ExitKeeps DEF Kernel
<1>5. CASE \E q \in Slots : KTick(q)
  BY <1>5, TickKeeps
<1>6. CASE KPreempt \/ KIdle
  BY <1>6, PreemptKeeps, IdleKeeps
<1>7. CASE Stop \/ Halt \/ UNCHANGED vars
  BY <1>7, StopKeeps
<1> QED
  BY <1>1, <1>2, <1>3, <1>4, <1>5, <1>6, <1>7 DEF Next, Ended

LEMMA Invariance == Spec => []All
  BY InitInv, AllNext, PTL DEF Spec

(* Launching by hand leaves the kernel's run queue as its own dispatch     *)
(* would (cpu.c:716-722).                                                  *)
THEOREM QueueIsRight == Spec => []QueueIsRunnable
<1>1. All => QueueIsRunnable
  BY DEF All, Inv, Scheduled, QueueIsRunnable
<1> QED
  BY <1>1, Invariance, PTL

(* No process of the program meets a queue link it should not have, an     *)
(* empty run queue, or a cluster that may not fork (cpu.c:288, 421, 724).  *)
THEOREM NeverPanics == Spec => []NoPanic
<1>1. All => NoPanic
  BY DEF All, MayFork, NoPanic
<1> QED
  BY <1>1, Invariance, PTL

(* Every number kept stays within its bounds, every process in a state     *)
(* that exists.                                                            *)
THEOREM SessionTyped == Spec => []TypeOK
<1>1. All => TypeOK
  BY DEF All, Inv
<1> QED
  BY <1>1, Invariance, PTL

(***************************************************************************)
(* The program's processes and the parents that the idle decision follows  *)
(***************************************************************************)

(* Induction: a set of numbers that is not empty has one whose predecessor *)
(* is not in it.                                                           *)
LEMMA First ==
  ASSUME NEW T \in SUBSET Nat, T # {}
  PROVE  \E n \in T : n - 1 \notin T
<1>1. \E x \in T : \A y \in T : <<y, x>> \notin OpToRel(<, Nat)
  BY NatLessThanWellFounded, WFMin
<1>2. PICK x \in T : \A y \in T : <<y, x>> \notin OpToRel(<, Nat)
  BY <1>1
<1>3. \A y \in T : x <= y
  <2> SUFFICES ASSUME NEW y \in T PROVE x <= y
    OBVIOUS
  <2>1. <<y, x>> \in Nat \X Nat
    OBVIOUS
  <2>2. ~(y < x)
    BY <1>2, <2>1 DEF OpToRel
  <2> QED
    BY <2>2
<1>4. x - 1 \notin T
  BY <1>3
<1> QED
  BY <1>4

(* S and the parents of its members, short of the root.                    *)
Above(S, par, root) == S \cup {par[a] : a \in S \ {root, "none"}}

(* f is what Descends computes, up to n parents.                           *)
Climbs(f, q, par, root, n) ==
  f = [m \in 0 .. n |-> IF m = 0 THEN {q} ELSE Above(f[m - 1], par, root)]

LEMMA ClimbExists ==
  ASSUME NEW q, NEW par, NEW root, NEW h \in Nat
  PROVE  \E f : Climbs(f, q, par, root, h)
<1> DEFINE T == {n \in Nat : ~ \E f : Climbs(f, q, par, root, n)}
<1> SUFFICES ASSUME T # {} PROVE FALSE
  OBVIOUS
<1>1. PICK n \in T : n - 1 \notin T
  BY First
<1>2. CASE n = 0
  <2>1. Climbs([m \in 0 .. 0 |-> {q}], q, par, root, 0)
    BY DEF Climbs
  <2> QED
    BY <1>2, <2>1
<1>3. CASE n # 0
  <2>1. PICK f : Climbs(f, q, par, root, n - 1)
    BY <1>1, <1>3
  <2> DEFINE g == [m \in 0 .. n |-> IF m = n THEN Above(f[n - 1], par, root) ELSE f[m]]
  <2>2. \A m \in 0 .. n - 1 :
          f[m] = IF m = 0 THEN {q} ELSE Above(f[m - 1], par, root)
    BY <2>1 DEF Climbs
  <2>3. \A m \in 0 .. n : g[m] = IF m = 0 THEN {q} ELSE Above(g[m - 1], par, root)
    <3> SUFFICES ASSUME NEW m \in 0 .. n
                 PROVE  g[m] = IF m = 0 THEN {q} ELSE Above(g[m - 1], par, root)
      OBVIOUS
    <3>1. CASE m = n
      <4>1. g[m] = Above(f[n - 1], par, root) /\ n - 1 \in 0 .. n /\ n - 1 # n
        BY <1>3, <3>1
      <4>2. g[m - 1] = f[n - 1]
        BY <3>1, <4>1
      <4> QED
        BY <1>3, <3>1, <4>1, <4>2
    <3>2. CASE m # n
      <4>1. m \in 0 .. n - 1 /\ g[m] = f[m]
        BY <3>2
      <4>2. m # 0 => m - 1 \in 0 .. n /\ m - 1 # n /\ g[m - 1] = f[m - 1]
        BY <3>2
      <4> QED
        BY <2>2, <4>1, <4>2
    <3> QED
      BY <3>1, <3>2
  <2>4. Climbs(g, q, par, root, n)
    <3> DEFINE h2 == [m \in 0 .. n |-> IF m = 0 THEN {q} ELSE Above(g[m - 1], par, root)]
    <3>1. DOMAIN g = DOMAIN h2 /\ \A m \in DOMAIN g : g[m] = h2[m]
      BY <2>3
    <3>2. g = h2
      BY <3>1
    <3> QED
      BY <3>2 DEF Climbs
  <2> QED
    BY <2>4
<1> QED
  BY <1>2, <1>3

LEMMA DescendsClimbs ==
  ASSUME NEW q
  PROVE  \E f : /\ Climbs(f, q, parent, procexp_proc, Hops)
                /\ Descends(q) <=> procexp_proc \in f[Hops]
<1> DEFINE up == CHOOSE f : f = [n \in 0 .. Hops |->
        IF n = 0 THEN {q}
        ELSE f[n - 1] \cup {parent[a] : a \in f[n - 1] \ {procexp_proc, "none"}}]
<1>1. Descends(q) <=> procexp_proc \in up[Hops]
  BY DEF Descends
<1>2. Hops \in Nat
  BY SessionAssumption
<1>3. \E f : Climbs(f, q, parent, procexp_proc, Hops)
  BY <1>2, ClimbExists
<1>4. \E f : f = [n \in 0 .. Hops |->
        IF n = 0 THEN {q}
        ELSE f[n - 1] \cup {parent[a] : a \in f[n - 1] \ {procexp_proc, "none"}}]
  BY <1>3 DEF Climbs, Above
<1>5. Climbs(up, q, parent, procexp_proc, Hops)
  BY <1>4 DEF Climbs, Above
<1> QED
  BY <1>1, <1>5

(* Whoever is not a process of the program finds only the kernel's own     *)
(* processes above.                                                        *)
KernelsOwn == {"init", "proc0", "idle", "none"}

LEMMA KernelClimbs ==
  ASSUME NEW q \in KernelsOwn, NEW par, NEW root, root \notin KernelsOwn,
         \A a \in KernelsOwn \ {"none"} : par[a] \in KernelsOwn,
         NEW h \in Nat, NEW f, Climbs(f, q, par, root, h)
  PROVE  root \notin f[h]
<1> DEFINE T == {n \in 0 .. h : ~ (f[n] \subseteq KernelsOwn)}
<1> SUFFICES ASSUME T # {} PROVE FALSE
  OBVIOUS
<1>1. T \in SUBSET Nat
  OBVIOUS
<1>2. PICK n \in T : n - 1 \notin T
  BY <1>1, First
<1>3. n \in 0 .. h /\ f[n] = IF n = 0 THEN {q} ELSE Above(f[n - 1], par, root)
  BY <1>2 DEF Climbs
<1>4. n # 0
  BY <1>2, <1>3
<1>5. n - 1 \in 0 .. h /\ f[n - 1] \subseteq KernelsOwn
  BY <1>2, <1>3, <1>4
<1>6. f[n] \subseteq KernelsOwn
  <2> HIDE DEF T
  <2>1. f[n] = Above(f[n - 1], par, root)
    BY <1>3, <1>4
  <2> QED
    BY <1>5, <2>1 DEF Above
<1> QED
  BY <1>2, <1>6

(* c leads from the root down to q, each the parent of the next and all of *)
(* them alive and different.                                               *)
Living == {"run", "sleep"}

Line(c, k, q, st, par, root) ==
  /\ c \in [0 .. k -> Slots]
  /\ c[0] = root /\ c[k] = q
  /\ \A i \in 0 .. k : st[c[i]] \in Living
  /\ \A i \in 1 .. k : par[c[i]] = c[i - 1]
  /\ \A i, j \in 0 .. k : c[i] = c[j] => i = j

Descent(q, st, par, root) ==
  \E k \in Nat : \E c \in [0 .. k -> Slots] : Line(c, k, q, st, par, root)

(* A line is no longer than there are processes.                           *)
LEMMA LineIsShort ==
  ASSUME IsFiniteSet(Slots), NEW k \in Nat, NEW c, NEW q, NEW st, NEW par, NEW root,
         Line(c, k, q, st, par, root)
  PROVE  k < Cardinality(Slots)
<1>1. c \in Injection(0 .. k, Slots)
  BY DEF Line, Injection, IsInjective
<1>2. Cardinality(0 .. k) <= Cardinality(Slots)
  BY <1>1, FS_Injection
<1>3. Cardinality(0 .. k) = k + 1
  BY FS_Interval
<1>4. Cardinality(Slots) \in Nat
  BY FS_CardinalityType
<1> QED
  BY <1>2, <1>3, <1>4

(* Climbing follows the line: from its end, n parents reach the process n  *)
(* places up, and what has been reached stays reached.                     *)
LEMMA LineClimbs ==
  ASSUME NEW k \in Nat, NEW c, NEW q, NEW st, NEW par, NEW root,
         Line(c, k, q, st, par, root), "none" \notin Slots,
         NEW h \in Nat, k <= h, NEW f, Climbs(f, q, par, root, h)
  PROVE  root \in f[h]
<1> DEFINE At(n) == IF n <= k THEN c[k - n] ELSE root
           T == {n \in 0 .. h : At(n) \notin f[n]}
<1> SUFFICES ASSUME T # {} PROVE FALSE
  <2>1. At(h) = root
    BY DEF Line
  <2> HIDE DEF At
  <2> QED
    BY <2>1
<1>1. T \in SUBSET Nat
  OBVIOUS
<1>2. PICK n \in T : n - 1 \notin T
  BY <1>1, First
<1>3. n \in 0 .. h /\ f[n] = IF n = 0 THEN {q} ELSE Above(f[n - 1], par, root)
  BY <1>2 DEF Climbs
<1>4. At(n) \notin f[n]
  BY <1>2
<1>5. n # 0
  BY <1>3, <1>4 DEF Line
<1>6. n - 1 \in 0 .. h /\ At(n - 1) \in f[n - 1]
  BY <1>2, <1>3, <1>5
<1>7. f[n] = Above(f[n - 1], par, root)
  BY <1>3, <1>5
<1>8. CASE n <= k
  <2>1. /\ k - n \in 0 .. k /\ k - (n - 1) \in 1 .. k /\ 0 \in 0 .. k
        /\ k - (n - 1) \in 0 .. k /\ (k - (n - 1)) - 1 = k - n /\ k - (n - 1) # 0
    BY <1>3, <1>5, <1>8
  <2>2. At(n) = c[k - n] /\ At(n - 1) = c[k - (n - 1)]
    BY <1>3, <1>8
  <2>3. par[c[k - (n - 1)]] = c[k - n]
    BY <2>1 DEF Line
  <2>4. c[k - (n - 1)] # root /\ c[k - (n - 1)] # "none"
    BY <2>1 DEF Line
  <2> HIDE DEF At, T
  <2> QED
    BY <1>4, <1>6, <1>7, <2>2, <2>3, <2>4 DEF Above
<1>9. CASE ~(n <= k)
  <2>1. At(n) = root /\ At(n - 1) = root
    <3>1. n - 1 <= k => n - 1 = k
      BY <1>3, <1>9
    <3> QED
      BY <1>3, <1>9, <3>1 DEF Line
  <2> HIDE DEF At, T
  <2> QED
    BY <1>4, <1>6, <1>7, <2>1 DEF Above
<1> QED
  BY <1>8, <1>9

(* The lines of those who are alive after a step in which nobody with a    *)
(* living child dies and no living process changes its parent.             *)
LEMMA LineKept ==
  ASSUME NEW q, NEW st, NEW par, NEW root, Descent(q, st, par, root),
         NEW st2, NEW par2, st2[q] \in Living,
         \A a \in Slots : st[a] \in Living /\ st2[a] \notin Living =>
           \A b \in Slots : st[b] \in Living => par[b] # a,
         \A a \in Slots : st[a] \in Living => par2[a] = par[a]
  PROVE  Descent(q, st2, par2, root)
<1>1. PICK k \in Nat : \E c \in [0 .. k -> Slots] : Line(c, k, q, st, par, root)
  BY DEF Descent
<1>2. PICK c \in [0 .. k -> Slots] : Line(c, k, q, st, par, root)
  BY <1>1
<1>3. \A i \in 0 .. k : st2[c[i]] \in Living
  <2> SUFFICES ASSUME NEW i \in 0 .. k PROVE st2[c[i]] \in Living
    OBVIOUS
  <2>1. CASE i = k
    BY <1>2, <2>1 DEF Line
  <2>2. CASE i # k
    <3>1. i + 1 \in 1 .. k /\ i + 1 \in 0 .. k /\ (i + 1) - 1 = i
      BY <2>2
    <3>2. par[c[i + 1]] = c[i] /\ st[c[i + 1]] \in Living /\ st[c[i]] \in Living
      BY <1>2, <3>1 DEF Line
    <3>3. c[i] \in Slots /\ c[i + 1] \in Slots
      BY <1>2, <3>1 DEF Line
    <3> QED
      BY <3>2, <3>3
  <2> QED
    BY <2>1, <2>2
<1>4. \A i \in 1 .. k : par2[c[i]] = c[i - 1]
  BY <1>2 DEF Line
<1>5. Line(c, k, q, st2, par2, root)
  BY <1>2, <1>3, <1>4 DEF Line
<1> QED
  BY <1>5 DEF Descent

(* A child that is new stands at the end of its parent's line.             *)
LEMMA LineGrows ==
  ASSUME NEW q, NEW st, NEW par, NEW root, Descent(q, st, par, root),
         NEW x \in Slots, st[x] \notin Living,
         NEW st2, NEW par2, st2[x] \in Living, par2[x] = q,
         \A a \in Slots \ {x} : st2[a] = st[a] /\ par2[a] = par[a]
  PROVE  Descent(x, st2, par2, root)
<1>1. PICK k \in Nat : \E c \in [0 .. k -> Slots] : Line(c, k, q, st, par, root)
  BY DEF Descent
<1>2. PICK c \in [0 .. k -> Slots] : Line(c, k, q, st, par, root)
  BY <1>1
<1> DEFINE d == [i \in 0 .. k + 1 |-> IF i = k + 1 THEN x ELSE c[i]]
<1>3. /\ d \in [0 .. k + 1 -> Slots] /\ d[k + 1] = x
      /\ \A i \in 0 .. k : d[i] = c[i] /\ d[i] # x /\ i \in 0 .. k + 1 /\ i # k + 1
      /\ \A i \in 0 .. k + 1 : i = k + 1 \/ i \in 0 .. k
      /\ 0 \in 0 .. k /\ k \in 0 .. k /\ (k + 1) - 1 = k
      /\ \A i \in 1 .. k : i - 1 \in 0 .. k /\ i \in 0 .. k
      /\ \A i \in 1 .. k + 1 : i = k + 1 \/ i \in 1 .. k
  BY <1>2 DEF Line
<1> HIDE DEF d
<1>4. d[0] = root
  BY <1>2, <1>3 DEF Line
<1>5. \A i \in 0 .. k + 1 : st2[d[i]] \in Living
  <2> SUFFICES ASSUME NEW i \in 0 .. k + 1 PROVE st2[d[i]] \in Living
    OBVIOUS
  <2>1. CASE i = k + 1
    BY <1>3, <2>1
  <2>2. CASE i \in 0 .. k
    BY <1>2, <1>3, <2>2 DEF Line
  <2> QED
    BY <1>3, <2>1, <2>2
<1>6. \A i \in 1 .. k + 1 : par2[d[i]] = d[i - 1]
  <2> SUFFICES ASSUME NEW i \in 1 .. k + 1 PROVE par2[d[i]] = d[i - 1]
    OBVIOUS
  <2>1. CASE i = k + 1
    BY <1>2, <1>3, <2>1 DEF Line
  <2>2. CASE i \in 1 .. k
    <3>1. /\ i \in 0 .. k /\ i - 1 \in 0 .. k /\ par[c[i]] = c[i - 1]
      BY <1>2, <1>3, <2>2 DEF Line
    <3>2. d[i] = c[i] /\ d[i] # x /\ d[i] \in Slots /\ d[i - 1] = c[i - 1]
      BY <1>2, <1>3, <3>1
    <3> QED
      BY <3>1, <3>2
  <2> QED
    BY <1>3, <2>1, <2>2
<1>7. \A i, j \in 0 .. k + 1 : d[i] = d[j] => i = j
  <2> SUFFICES ASSUME NEW i \in 0 .. k + 1, NEW j \in 0 .. k + 1, d[i] = d[j]
               PROVE  i = j
    OBVIOUS
  <2>1. CASE i \in 0 .. k /\ j \in 0 .. k
    BY <1>2, <1>3, <2>1 DEF Line
  <2>2. CASE i = k + 1 \/ j = k + 1
    BY <1>3, <2>2
  <2> QED
    BY <1>3, <2>1, <2>2
<1>8. k + 1 \in Nat /\ Line(d, k + 1, x, st2, par2, root)
  BY <1>3, <1>4, <1>5, <1>6, <1>7 DEF Line
<1> QED
  BY <1>3, <1>8 DEF Descent

(* The kernel's own processes descend from proc0; the program's, if no     *)
(* process exits before its children, from the program's first.            *)
Family ==
  /\ parent["init"] = "proc0" /\ parent["proc0"] = "none" /\ parent["idle"] = "none"
  /\ phase = "boot" => procexp_proc = "none"
  /\ phase = "running" => procexp_proc \in Slots
  /\ phase = "panicked" => verdict = "none"
  /\ "parents_wait" \in Assumed /\ phase = "running" =>
       \A q \in Slots : stat[q] \in Living =>
         Descent(q, stat, parent, procexp_proc)

Kin == All /\ Family

(* A step of the running machine.                                          *)
LEMMA FamilyKept ==
  ASSUME Family, phase = "running", procexp_proc' = procexp_proc,
         phase' \in {"running", "panicked"}, verdict' = "none",
         \A a \in {"init", "proc0", "idle"} : parent'[a] = parent[a],
         "parents_wait" \in Assumed /\ phase' = "running" =>
           /\ \A a \in Slots : stat[a] \in Living /\ stat'[a] \notin Living =>
                \A b \in Slots : stat[b] \in Living => parent[b] # a
           /\ \A a \in Slots : stat[a] \in Living => parent'[a] = parent[a]
           /\ \A a \in Slots : stat'[a] \in Living /\ stat[a] \notin Living =>
                /\ parent'[a] \in Slots /\ stat[parent'[a]] \in Living
                /\ \A b \in Slots \ {a} : stat'[b] = stat[b] /\ parent'[b] = parent[b]
  PROVE  Family'
<1>1. ASSUME "parents_wait" \in Assumed, phase' = "running",
             NEW q \in Slots, stat'[q] \in Living
      PROVE  Descent(q, stat', parent', procexp_proc')
  <2>1. CASE stat[q] \in Living
    <3>1. Descent(q, stat, parent, procexp_proc)
      BY <1>1, <2>1 DEF Family
    <3>2. Descent(q, stat', parent', procexp_proc)
      BY <1>1, <3>1, LineKept
    <3> QED
      BY <3>2
  <2>2. CASE stat[q] \notin Living
    <3>1. Descent(parent'[q], stat, parent, procexp_proc)
      BY <1>1, <2>2 DEF Family
    <3>2. \A b \in Slots \ {q} : stat'[b] = stat[b] /\ parent'[b] = parent[b]
      BY <1>1, <2>2
    <3>3. Descent(q, stat', parent', procexp_proc)
      BY <1>1, <2>2, <3>1, <3>2, LineGrows
    <3> QED
      BY <3>3
  <2> QED
    BY <2>1, <2>2
<1> QED
  BY <1>1 DEF Family

LEMMA KinInit == Init => Kin
<1> SUFFICES ASSUME Init PROVE Kin
  OBVIOUS
<1>1. Family
  BY Distinct DEF Init, Family, Proc
<1> QED
  BY <1>1, InitInv DEF Kin

LEMMA FamilyLaunch ==
  ASSUME Kin, NEW p \in Slots, Launch(p)
  PROVE  Family'
<1>1. /\ phase = "boot" /\ NewProc(p) /\ \A q \in Slots : stat[q] = "free"
      /\ phase' = "running"
  BY DEF Launch, Kin, All, Inv, Scheduled
<1>2. p \in Proc /\ p # "proc0" /\ p # "idle" /\ p # "init"
  BY Distinct DEF Proc
<1>3. /\ \A a \in {"init", "proc0", "idle"} : parent'[a] = parent[a]
      /\ procexp_proc' = p
      /\ stat'[p] = "run" /\ \A q \in Slots \ {p} : stat'[q] = "free"
  BY <1>1, <1>2 DEF NewProc, Kin, All, Inv, TypeOK, Proc
<1>4. Line([i \in 0 .. 0 |-> p], 0, p, stat', parent', p)
  BY <1>3 DEF Line, Living
<1>5. 0 \in Nat /\ [i \in 0 .. 0 |-> p] \in [0 .. 0 -> Slots]
  OBVIOUS
<1>6. Descent(p, stat', parent', p)
  BY <1>4, <1>5 DEF Descent
<1>7. \A q \in Slots : stat'[q] \in Living => Descent(q, stat', parent', procexp_proc')
  BY <1>3, <1>6 DEF Living
<1> QED
  BY <1>1, <1>3, <1>7 DEF Family, Kin

LEMMA FamilyRefused ==
  ASSUME Kin, LaunchNoProcess \/ \E p \in Slots : LaunchNoSpace(p)
  PROVE  Family'
<1>1. phase' = "ended"
  BY DEF LaunchNoProcess, LaunchNoSpace, Refused
<1>2. \A a \in {"init", "proc0", "idle"} : parent'[a] = parent[a]
  BY Distinct DEF LaunchNoProcess, LaunchNoSpace, NewProc, table, Kin, All, Inv, TypeOK, Proc
<1> QED
  BY <1>1, <1>2 DEF Family, Kin

(* The kernel's calls.                                                     *)
LEMMA FamilyFork ==
  ASSUME Kin, NEW q \in Slots, NEW c \in Slots, KFork(q, c)
  PROVE  Family'
<1>1. /\ phase = "running" /\ cur = q /\ stat[c] = "free" /\ stat[q] = "run"
      /\ verdict = "none" /\ UNCHANGED <<verdict, procexp_proc>>
      /\ c \in Proc /\ c \notin {"init", "proc0", "idle"}
  BY Running, Distinct DEF KFork, Runs, Free, Kin, All, Proc
<1>2. CASE q \in forkable
  <2>1. /\ phase' = "running"
        /\ stat' = [stat EXCEPT ![c] = "run"] /\ parent' = [parent EXCEPT ![c] = q]
    BY <1>1, <1>2 DEF KFork
  <2>2. /\ stat'[c] = "run" /\ parent'[c] = q
        /\ \A a \in Proc \ {c} : stat'[a] = stat[a] /\ parent'[a] = parent[a]
    BY <1>1, <2>1 DEF Kin, All, Inv, TypeOK
  <2>3. \A a \in {"init", "proc0", "idle"} : parent'[a] = parent[a]
    BY <1>1, <2>2 DEF Proc
  <2>4. \A a \in Slots \ {c} : stat'[a] = stat[a] /\ parent'[a] = parent[a]
    BY <2>2 DEF Proc
  <2> QED
    BY <1>1, <2>1, <2>2, <2>3, <2>4, FamilyKept DEF Kin, Living
<1>3. CASE q \notin forkable
  <2>1. phase' = "panicked" /\ UNCHANGED <<stat, parent>>
    BY <1>3 DEF KFork, table
  <2> QED
    BY <1>1, <2>1, FamilyKept DEF Kin
<1> QED
  BY <1>2, <1>3

LEMMA FamilySleep ==
  ASSUME Kin, NEW q \in Slots, NEW w \in {"child", "tick", "event"}, KSleep(q, w)
  PROVE  Family'
<1>1. /\ phase = "running" /\ cur = q /\ stat[q] = "run" /\ q \notin rlink
      /\ verdict = "none" /\ UNCHANGED <<verdict, procexp_proc>>
  BY Running DEF KSleep, Call, Runs, Kin, All
<1>2. /\ stat' = [stat EXCEPT ![q] = "sleep"] /\ UNCHANGED parent
      /\ phase' \in {"running", "panicked"}
  BY <1>1 DEF KSleep, Swtch
<1>3. \A a \in Slots : stat'[a] = IF a = q THEN "sleep" ELSE stat[a]
  BY <1>2 DEF Kin, All, Inv, TypeOK, Proc
<1> QED
  BY <1>1, <1>2, <1>3, FamilyKept DEF Kin, Living

LEMMA FamilyReap ==
  ASSUME Kin, NEW q \in Slots, KReap(q)
  PROVE  Family'
<1>1. /\ phase = "running" /\ cur = q /\ verdict = "none"
      /\ UNCHANGED <<phase, verdict, procexp_proc>>
  BY Running DEF KReap, Runs, Kin, All
<1>2. PICK c \in Zombies(q) : /\ stat' = [stat EXCEPT ![c] = "free"]
                             /\ parent' = [parent EXCEPT ![c] = "none"]
  BY DEF KReap
<1>3. c \in Slots /\ stat[c] = "zombie" /\ c \in Proc /\ c \notin {"init", "proc0", "idle"}
  BY Distinct DEF Zombies, Children, Proc
<1>4. /\ stat'[c] = "free"
      /\ \A a \in Proc \ {c} : stat'[a] = stat[a] /\ parent'[a] = parent[a]
  BY <1>2, <1>3 DEF Kin, All, Inv, TypeOK
<1>5. \A a \in {"init", "proc0", "idle"} : parent'[a] = parent[a]
  BY <1>3, <1>4 DEF Proc
<1>6. \A a \in Slots \ {c} : stat'[a] = stat[a] /\ parent'[a] = parent[a]
  BY <1>4 DEF Proc
<1> QED
  BY <1>1, <1>3, <1>4, <1>5, <1>6, FamilyKept DEF Kin, Living

LEMMA FamilyExit ==
  ASSUME Kin, NEW q \in Slots, KExit(q)
  PROVE  Family'
<1>1. /\ phase = "running" /\ cur = q /\ stat[q] = "run" /\ verdict = "none"
      /\ UNCHANGED <<verdict, procexp_proc>>
      /\ phase' \in {"running", "panicked"}
  BY Running DEF KExit, Runs, Swtch, Kin, All
<1>2. PICK up \in SUBSET Slots :
        /\ \A p \in up : stat[p] = "sleep"
        /\ stat' = Woken(up, [stat EXCEPT ![q] = "zombie"])
  <2> DEFINE u == {p \in Slots : p = parent[q] /\ wait[p] = "child"
                                 /\ stat[p] = "sleep"}
  <2>1. u \in SUBSET Slots /\ \A p \in u : stat[p] = "sleep"
    OBVIOUS
  <2>2. stat' = Woken(u, [stat EXCEPT ![q] = "zombie"])
    BY DEF KExit
  <2> HIDE DEF u
  <2> QED
    BY <2>1, <2>2
<1>3. \A a \in Slots : stat'[a] = IF a \in up THEN "run"
                                  ELSE IF a = q THEN "zombie" ELSE stat[a]
  BY <1>2 DEF Woken, Kin, All, Inv, TypeOK, Proc
<1>4. q \notin up
  BY <1>1, <1>2
<1>5. \A a \in Proc : parent'[a] = IF a \in Children(q) THEN "init" ELSE parent[a]
  BY DEF KExit
<1>6. \A a \in {"init", "proc0", "idle"} : parent'[a] = parent[a]
  BY <1>5, Distinct DEF Children, Proc
<1>7. "parents_wait" \in Assumed => \A b \in Children(q) : stat[b] = "zombie"
  BY DEF KExit, Zombies
<1>8. \A a \in Slots : stat'[a] \notin Living /\ stat[a] \in Living => a = q
  BY <1>3 DEF Living
<1>9. \A a \in Slots : stat'[a] \in Living => stat[a] \in Living
  BY <1>2, <1>3 DEF Living
<1>10. "parents_wait" \in Assumed =>
         \A b \in Slots : stat[b] \in Living => b \notin Children(q) /\ parent[b] # q
  BY <1>7 DEF Children, Living
<1>11. "parents_wait" \in Assumed =>
         \A b \in Slots : stat[b] \in Living => parent'[b] = parent[b]
  BY <1>5, <1>10 DEF Proc
<1> QED
  BY <1>1, <1>6, <1>8, <1>9, <1>10, <1>11, FamilyKept DEF Kin

(* Steps after which the same processes are alive, with the same parents.  *)
LEMMA FamilyStays ==
  ASSUME Kin, phase = "running", phase' \in {"running", "panicked"},
         UNCHANGED <<verdict, procexp_proc, parent>>,
         \A a \in Slots : stat'[a] \in Living <=> stat[a] \in Living
  PROVE  Family'
<1>1. verdict' = "none"
  BY DEF Kin, All, Inv
<1> QED
  BY <1>1, FamilyKept DEF Kin

LEMMA WokenLives ==
  ASSUME All, NEW r \in Slots, stat[r] = "sleep", stat' = Woken({r}, stat)
  PROVE  \A a \in Slots : stat'[a] \in Living <=> stat[a] \in Living
  BY DEF Woken, Living, Proc

LEMMA KinNext ==
  ASSUME Kin, [Next]_vars
  PROVE  Kin'
<1>1. All'
  BY AllNext DEF Kin
<1>2. Family'
  <2>1. CASE LaunchNoProcess \/ \E p \in Slots : LaunchNoSpace(p)
    BY <2>1, FamilyRefused
  <2>2. CASE \E p \in Slots : Launch(p)
    BY <2>2, FamilyLaunch
  <2>3. CASE IdleYield \/ KPreempt \/ KIdle
    <3>1. /\ phase = "running" /\ phase' \in {"running", "panicked"}
          /\ UNCHANGED <<verdict, procexp_proc, parent, stat>>
      BY <2>3 DEF IdleYield, KPreempt, KIdle, AtSentinel, Swtch, table
    <3> QED
      BY <3>1, FamilyStays
  <2>4. CASE IdleEnd \/ Stop \/ Halt
    <3>1. phase' = "ended" /\ UNCHANGED parent
      BY <2>4 DEF IdleEnd, Stop, Halt, table
    <3> QED
      BY <3>1 DEF Family, Kin
  <2>5. CASE \E q, r \in Slots : KWakeup(q, r)
    <3>1. PICK q \in Slots, r \in Slots : KWakeup(q, r)
      BY <2>5
    <3>2. /\ phase = "running" /\ phase' = phase /\ stat[r] = "sleep"
          /\ stat' = Woken({r}, stat)
          /\ UNCHANGED <<verdict, procexp_proc, parent>>
      BY <3>1 DEF KWakeup, Call, Runs
    <3>3. \A a \in Slots : stat'[a] \in Living <=> stat[a] \in Living
      BY <3>2, WokenLives DEF Kin
    <3>4. phase' \in {"running", "panicked"} /\ UNCHANGED <<verdict, procexp_proc, parent>>
      BY <3>2
    <3> QED
      BY <3>2, <3>3, <3>4, FamilyStays
  <2>6. CASE \E r \in Slots : KTick(r)
    <3>1. PICK r \in Slots : KTick(r)
      BY <2>6
    <3>2. /\ phase = "running" /\ phase' = phase /\ stat[r] = "sleep"
          /\ stat' = Woken({r}, stat)
          /\ UNCHANGED <<verdict, procexp_proc, parent>>
      BY <3>1 DEF KTick
    <3>3. \A a \in Slots : stat'[a] \in Living <=> stat[a] \in Living
      BY <3>2, WokenLives DEF Kin
    <3>4. phase' \in {"running", "panicked"} /\ UNCHANGED <<verdict, procexp_proc, parent>>
      BY <3>2
    <3> QED
      BY <3>2, <3>3, <3>4, FamilyStays
  <2>7. CASE \E q \in Slots : \/ \E c \in Slots : KFork(q, c)
                              \/ \E w \in {"child", "tick", "event"} : KSleep(q, w)
                              \/ KReap(q) \/ KExit(q)
    BY <2>7, FamilyFork, FamilySleep, FamilyReap, FamilyExit
  <2>8. CASE UNCHANGED vars
    BY <2>8 DEF vars, table, Family, Kin
  <2> QED
    BY <2>1, <2>2, <2>3, <2>4, <2>5, <2>6, <2>7, <2>8 DEF Next, Kernel, Ended
<1> QED
  BY <1>1, <1>2 DEF Kin

(* The idle decision is right: somebody who is alive and descends from the *)
(* program's first process is one of the program's; and nobody of the      *)
(* program is missed, if no more parents have to be followed than are.     *)
LEMMA AliveIsOurs ==
  ASSUME Kin, phase = "running", Alive
  PROVE  \E q \in Slots : stat[q] \in Living
<1>1. PICK q \in Proc : stat[q] \notin {"free", "zombie"} /\ Descends(q)
  BY DEF Alive
<1>2. procexp_proc \in Slots /\ Hops \in Nat
  BY SessionAssumption DEF Kin, Family
<1>3. PICK f : /\ Climbs(f, q, parent, procexp_proc, Hops)
               /\ Descends(q) <=> procexp_proc \in f[Hops]
  BY DescendsClimbs
<1>4. CASE q \in Slots
  BY <1>1, <1>4 DEF Kin, All, Inv, TypeOK, Living
<1>5. CASE q \notin Slots
  <2>1. q \in KernelsOwn
    BY <1>5 DEF Proc, KernelsOwn
  <2>2. procexp_proc \notin KernelsOwn
    BY <1>2, Distinct DEF KernelsOwn
  <2>3. \A a \in KernelsOwn \ {"none"} : parent[a] \in KernelsOwn
    BY DEF Kin, Family, KernelsOwn
  <2>4. procexp_proc \notin f[Hops]
    BY <1>2, <1>3, <2>1, <2>2, <2>3, KernelClimbs
  <2> QED
    BY <1>1, <1>3, <2>4
<1> QED
  BY <1>4, <1>5

LEMMA OursIsAlive ==
  ASSUME Kin, phase = "running", "parents_wait" \in Assumed,
         IsFiniteSet(Slots), Cardinality(Slots) <= Hops + 1,
         NEW q \in Slots, stat[q] \in Living
  PROVE  Alive
<1>1. Descent(q, stat, parent, procexp_proc)
  BY DEF Kin, Family
<1>2. PICK k \in Nat : \E c \in [0 .. k -> Slots] :
        Line(c, k, q, stat, parent, procexp_proc)
  BY <1>1 DEF Descent
<1>3. PICK c \in [0 .. k -> Slots] : Line(c, k, q, stat, parent, procexp_proc)
  BY <1>2
<1>4. k < Cardinality(Slots)
  BY <1>3, LineIsShort
<1>5. Hops \in Nat /\ k <= Hops
  BY <1>4, SessionAssumption, FS_CardinalityType
<1>6. PICK f : /\ Climbs(f, q, parent, procexp_proc, Hops)
               /\ Descends(q) <=> procexp_proc \in f[Hops]
  BY DescendsClimbs
<1>7. procexp_proc \in f[Hops]
  BY <1>3, <1>5, <1>6, Distinct, LineClimbs
<1> QED
  BY <1>6, <1>7 DEF Alive, Proc, Living

(* A run that is given up has somebody left, asleep.                       *)
Left == verdict = "deadlock" => phase = "ended" /\ \E q \in Slots : stat[q] \in Living

LEMMA LeftNext ==
  ASSUME Kin, Left, [Next]_vars
  PROVE  Left'
<1>1. CASE IdleEnd
  <2>1. /\ phase = "running" /\ phase' = "ended" /\ stat' = stat
        /\ verdict' = "deadlock" => Alive
    BY <1>1 DEF IdleEnd, AtSentinel, table
  <2>2. verdict' = "deadlock" => \E q \in Slots : stat[q] \in Living
    BY <2>1, AliveIsOurs
  <2> QED
    BY <2>1, <2>2 DEF Left
<1>2. CASE LaunchNoProcess \/ Stop \/ Halt \/ \E p \in Slots : LaunchNoSpace(p)
  BY <1>2 DEF LaunchNoProcess, Stop, Halt, LaunchNoSpace, Refused, Left
<1>3. CASE \/ IdleYield \/ KPreempt \/ KIdle
           \/ \E q \in Slots : Kernel(q) \/ KTick(q) \/ Launch(q)
  <2>1. phase \in {"boot", "running"} /\ verdict' = verdict
    BY <1>3 DEF IdleYield, AtSentinel, KPreempt, KIdle, Kernel, KTick, KFork, KWakeup,
       KSleep, KReap, KExit, Call, Runs, Launch
  <2>2. verdict = "none"
    BY <2>1 DEF Kin, All, Inv
  <2> QED
    BY <2>1, <2>2 DEF Left
<1>4. CASE UNCHANGED vars
  BY <1>4 DEF vars, table, Left
<1> QED
  BY <1>1, <1>2, <1>3, <1>4 DEF Next, Ended

(* "Bail out if two yields in a row achieve nothing -- that is a real      *)
(* deadlock" (sysmode.c:185), with as many processes, forks, yields and    *)
(* parents followed as there may be: a run that is given up has a process  *)
(* left, and none that is runnable or waits for the clock.                 *)
THEOREM GivesUpWhenStuck ==
  ASSUME "spins_in_swtch" \in Assumed
  PROVE  Spec => []DeadlockIsReal
<1>1. Init => Kin /\ Left
  BY KinInit DEF Init, Left
<1>2. Kin /\ Left /\ [Next]_vars => Kin' /\ Left'
  BY KinNext, LeftNext
<1>3. Kin /\ Left => DeadlockIsReal
  BY DEF Kin, All, GaveUp, Left, DeadlockIsReal, Stuck, NoneCanMove, Living
<1> QED
  BY <1>1, <1>2, <1>3, PTL DEF Spec

(***************************************************************************)
(* The run as Program has it                                               *)
(***************************************************************************)
Lives == {q \in Slots : procexp_proc # "none" /\ verdict # "refused"
                        /\ stat[q] \in {"run", "sleep"}}

State ==
  CASE verdict = "none" -> IF phase = "boot" THEN "boot" ELSE "running"
    [] verdict \in {"halted", "limit"} -> "aborted"
    [] OTHER -> verdict

(* The steps Program takes, or none.                                       *)
Maps ==
  \/ State' = State /\ Lives' = Lives
  \/ State = "boot" /\ State' = "refused" /\ Lives' = Lives
  \/ \E p \in Slots : State = "boot" /\ State' = "running" /\ Lives' = {p}
  \/ \E p \in Slots : /\ State = "running" /\ Lives # {} /\ p \notin Lives
                      /\ Lives' = Lives \cup {p} /\ State' = State
  \/ \E p \in Slots : /\ State = "running" /\ p \in Lives
                      /\ Lives' = Lives \ {p} /\ State' = State
  \/ State = "running" /\ Lives = {} /\ State' = "exited" /\ Lives' = Lives
  \/ State = "running" /\ Lives # {} /\ State' = "deadlock" /\ Lives' = Lives
  \/ State \in {"boot", "running"} /\ State' = "aborted" /\ Lives' = Lives

LEMMA MapsIsNext == Maps => [program!Next]_(program!vars)
  BY DEF Maps, State, Lives, program!Next, program!vars, program!Start, program!Refuse,
     program!Fork, program!Exit, program!Finish, program!GiveUp, program!Abort

(* While the machine runs, the living are the program's processes.         *)
LEMMA RunningState ==
  ASSUME Kin, phase = "running"
  PROVE  State = "running" /\ Lives = {q \in Slots : stat[q] \in Living}
<1>1. verdict = "none" /\ procexp_proc \in Slots
  BY DEF Kin, All, Inv, Family
<1> QED
  BY <1>1, Distinct DEF State, Lives, Living

LEMMA RunningState2 ==
  ASSUME Kin, phase = "running", phase' \in {"running", "panicked"},
         UNCHANGED <<verdict, procexp_proc>>
  PROVE  State' = "running" /\ Lives' = {q \in Slots : stat'[q] \in Living}
<1>1. verdict' = "none" /\ procexp_proc' \in Slots
  BY DEF Kin, All, Inv, Family
<1> QED
  BY <1>1, Distinct DEF State, Lives, Living

(* A step that nobody joins or leaves.                                     *)
LEMMA StaysMaps ==
  ASSUME Kin, phase = "running", phase' \in {"running", "panicked"},
         UNCHANGED <<verdict, procexp_proc>>,
         \A a \in Slots : stat'[a] \in Living <=> stat[a] \in Living
  PROVE  Maps
<1>1. State' = State /\ Lives' = Lives
  BY RunningState, RunningState2
<1> QED
  BY <1>1 DEF Maps

LEMMA LaunchMaps ==
  ASSUME Kin, NEW p \in Slots, Launch(p)
  PROVE  Maps
<1>1. /\ phase = "boot" /\ phase' = "running" /\ verdict = "none" /\ verdict' = "none"
      /\ NewProc(p) /\ \A q \in Slots : stat[q] = "free"
  BY DEF Launch, Kin, All, Inv, Scheduled
<1>2. procexp_proc' = p /\ stat'[p] = "run" /\ \A q \in Slots \ {p} : stat'[q] = "free"
  BY <1>1 DEF NewProc, Kin, All, Inv, TypeOK, Proc
<1>3. State = "boot" /\ State' = "running" /\ Lives' = {p}
  BY <1>1, <1>2, Distinct DEF State, Lives
<1> QED
  BY <1>3 DEF Maps

LEMMA RefusedMaps ==
  ASSUME Kin, LaunchNoProcess \/ \E p \in Slots : LaunchNoSpace(p)
  PROVE  Maps
<1>1. phase = "boot" /\ verdict = "none" /\ verdict' = "refused" /\ procexp_proc = "none"
  BY DEF LaunchNoProcess, LaunchNoSpace, Refused, Kin, All, Inv, Family
<1>2. State = "boot" /\ State' = "refused" /\ Lives = {} /\ Lives' = {}
  BY <1>1 DEF State, Lives
<1> QED
  BY <1>2 DEF Maps

LEMMA ForkMaps ==
  ASSUME Kin, NEW q \in Slots, NEW c \in Slots, KFork(q, c)
  PROVE  Maps
<1>1. /\ phase = "running" /\ stat[c] = "free" /\ stat[q] = "run" /\ c \in Proc
      /\ UNCHANGED <<verdict, procexp_proc>>
  BY Running DEF KFork, Runs, Free, Kin, All, Proc
<1>2. CASE q \in forkable
  <2>1. phase' = "running" /\ stat' = [stat EXCEPT ![c] = "run"]
    BY <1>1, <1>2 DEF KFork
  <2>2. stat'[c] = "run" /\ \A a \in Slots \ {c} : stat'[a] = stat[a]
    BY <1>1, <2>1 DEF Kin, All, Inv, TypeOK, Proc
  <2>3. /\ State = "running" /\ Lives = {a \in Slots : stat[a] \in Living}
        /\ State' = "running" /\ Lives' = {a \in Slots : stat'[a] \in Living}
    BY <1>1, <2>1, RunningState, RunningState2
  <2>4. q \in Lives /\ c \notin Lives /\ Lives' = Lives \cup {c}
    BY <1>1, <2>2, <2>3 DEF Living
  <2> QED
    BY <2>3, <2>4 DEF Maps
<1>3. CASE q \notin forkable
  <2>1. phase' = "panicked" /\ stat' = stat
    BY <1>3 DEF KFork, table
  <2> QED
    BY <1>1, <2>1, StaysMaps
<1> QED
  BY <1>2, <1>3

LEMMA ExitMaps ==
  ASSUME Kin, NEW q \in Slots, KExit(q)
  PROVE  Maps
<1>1. /\ phase = "running" /\ stat[q] = "run"
      /\ UNCHANGED <<verdict, procexp_proc>>
      /\ phase' \in {"running", "panicked"}
  BY Running DEF KExit, Runs, Swtch, Kin, All
<1>2. PICK up \in SUBSET Slots :
        /\ \A p \in up : stat[p] = "sleep"
        /\ stat' = Woken(up, [stat EXCEPT ![q] = "zombie"])
  <2> DEFINE u == {p \in Slots : p = parent[q] /\ wait[p] = "child"
                                 /\ stat[p] = "sleep"}
  <2>1. u \in SUBSET Slots /\ \A p \in u : stat[p] = "sleep"
    OBVIOUS
  <2>2. stat' = Woken(u, [stat EXCEPT ![q] = "zombie"])
    BY DEF KExit
  <2> HIDE DEF u
  <2> QED
    BY <2>1, <2>2
<1>3. \A a \in Slots : stat'[a] = IF a \in up THEN "run"
                                  ELSE IF a = q THEN "zombie" ELSE stat[a]
  BY <1>2 DEF Woken, Kin, All, Inv, TypeOK, Proc
<1>4. \A a \in Slots : stat'[a] \in Living <=> stat[a] \in Living /\ a # q
  BY <1>1, <1>2, <1>3 DEF Living
<1>5. /\ State = "running" /\ Lives = {a \in Slots : stat[a] \in Living}
      /\ State' = "running" /\ Lives' = {a \in Slots : stat'[a] \in Living}
  BY <1>1, RunningState, RunningState2
<1>6. q \in Lives /\ Lives' = Lives \ {q}
  BY <1>1, <1>4, <1>5 DEF Living
<1> QED
  BY <1>5, <1>6 DEF Maps

(* The run is declared over.                                               *)
LEMMA EndMaps ==
  ASSUME Kin, IdleEnd, "parents_wait" \in Assumed,
         IsFiniteSet(Slots), Cardinality(Slots) <= Hops + 1
  PROVE  Maps
<1>1. /\ phase = "running" /\ stat' = stat /\ UNCHANGED procexp_proc
      /\ \/ ~Alive /\ verdict' = "exited"
         \/ Alive /\ verdict' = "deadlock"
  BY DEF IdleEnd, AtSentinel, table
<1>2. State = "running" /\ Lives = {a \in Slots : stat[a] \in Living}
  BY <1>1, RunningState
<1>3. procexp_proc \in Slots
  BY <1>1 DEF Kin, Family
<1>4. Lives' = Lives
  BY <1>1, <1>2, <1>3, Distinct DEF Lives, Living
<1>5. CASE ~Alive /\ verdict' = "exited"
  <2>1. Lives = {}
    BY <1>1, <1>2, <1>5, OursIsAlive
  <2>2. State' = "exited"
    BY <1>5 DEF State
  <2> QED
    BY <1>2, <1>4, <2>1, <2>2 DEF Maps
<1>6. CASE Alive /\ verdict' = "deadlock"
  <2>1. Lives # {}
    BY <1>1, <1>2, <1>6, AliveIsOurs
  <2>2. State' = "deadlock"
    BY <1>6 DEF State
  <2> QED
    BY <1>2, <1>4, <2>1, <2>2 DEF Maps
<1> QED
  BY <1>1, <1>5, <1>6

LEMMA StopMaps ==
  ASSUME Kin, Stop \/ Halt
  PROVE  Maps
<1>1. /\ phase \in {"running", "panicked"} /\ verdict' \in {"limit", "halted"}
      /\ UNCHANGED <<stat, procexp_proc>>
  BY DEF Stop, Halt, table
<1>2. verdict = "none"
  BY <1>1 DEF Kin, All, Inv, Family
<1>3. State = "running" /\ State' = "aborted" /\ Lives' = Lives
  BY <1>1, <1>2 DEF State, Lives
<1> QED
  BY <1>3 DEF Maps

LEMMA NextMaps ==
  ASSUME Kin, [Next]_vars, "parents_wait" \in Assumed,
         IsFiniteSet(Slots), Cardinality(Slots) <= Hops + 1
  PROVE  Maps
<1>1. CASE LaunchNoProcess \/ \E p \in Slots : LaunchNoSpace(p)
  BY <1>1, RefusedMaps
<1>2. CASE \E p \in Slots : Launch(p)
  BY <1>2, LaunchMaps
<1>3. CASE IdleYield \/ KPreempt \/ KIdle
  <2>1. /\ phase = "running" /\ phase' \in {"running", "panicked"}
        /\ UNCHANGED <<verdict, procexp_proc>> /\ stat' = stat
    BY <1>3 DEF IdleYield, KPreempt, KIdle, AtSentinel, Swtch, table
  <2> QED
    BY <2>1, StaysMaps
<1>4. CASE IdleEnd
  BY <1>4, EndMaps
<1>5. CASE Stop \/ Halt
  BY <1>5, StopMaps
<1>6. CASE \E q, r \in Slots : KWakeup(q, r) \/ KTick(r)
  <2>1. PICK q \in Slots, r \in Slots : KWakeup(q, r) \/ KTick(r)
    BY <1>6
  <2>2. /\ phase = "running" /\ phase' \in {"running", "panicked"}
        /\ UNCHANGED <<verdict, procexp_proc>>
        /\ stat[r] = "sleep" /\ stat' = Woken({r}, stat)
    BY <2>1 DEF KWakeup, Call, Runs, KTick
  <2>3. \A a \in Slots : stat'[a] \in Living <=> stat[a] \in Living
    BY <2>2, WokenLives DEF Kin
  <2> QED
    BY <2>2, <2>3, StaysMaps
<1>7. CASE \E q, c \in Slots : KFork(q, c)
  BY <1>7, ForkMaps
<1>8. CASE \E q \in Slots, w \in {"child", "tick", "event"} : KSleep(q, w)
  <2>1. PICK q \in Slots, w \in {"child", "tick", "event"} : KSleep(q, w)
    BY <1>8
  <2>2. /\ phase = "running" /\ stat[q] = "run" /\ q \notin rlink
        /\ UNCHANGED <<verdict, procexp_proc>>
    BY <2>1, Running DEF KSleep, Call, Runs, Kin, All
  <2>3. stat' = [stat EXCEPT ![q] = "sleep"] /\ phase' \in {"running", "panicked"}
    BY <2>1, <2>2 DEF KSleep, Swtch
  <2>4. \A a \in Slots : stat'[a] = IF a = q THEN "sleep" ELSE stat[a]
    BY <2>3 DEF Kin, All, Inv, TypeOK, Proc
  <2>5. \A a \in Slots : stat'[a] \in Living <=> stat[a] \in Living
    BY <2>2, <2>4 DEF Living
  <2> QED
    BY <2>2, <2>3, <2>5, StaysMaps
<1>9. CASE \E q \in Slots : KReap(q)
  <2>1. PICK q \in Slots : KReap(q)
    BY <1>9
  <2>2. PICK c \in Zombies(q) : stat' = [stat EXCEPT ![c] = "free"]
    BY <2>1 DEF KReap
  <2>3. phase = "running" /\ phase' = phase /\ UNCHANGED <<verdict, procexp_proc>>
    BY <2>1 DEF KReap, Runs
  <2>4. \A a \in Slots : stat'[a] = IF a = c THEN "free" ELSE stat[a]
    BY <2>2 DEF Kin, All, Inv, TypeOK, Proc
  <2>5. stat[c] = "zombie"
    BY <2>2 DEF Zombies
  <2>6. \A a \in Slots : stat'[a] \in Living <=> stat[a] \in Living
    BY <2>4, <2>5 DEF Living
  <2>7. phase' \in {"running", "panicked"} /\ UNCHANGED <<verdict, procexp_proc>>
    BY <2>3
  <2> QED
    BY <2>3, <2>6, <2>7, StaysMaps
<1>10. CASE \E q \in Slots : KExit(q)
  BY <1>10, ExitMaps
<1>11. CASE UNCHANGED vars
  <2>1. State' = State /\ Lives' = Lives
    BY <1>11 DEF vars, table, State, Lives
  <2> QED
    BY <2>1 DEF Maps
<1> QED
  BY <1>1, <1>2, <1>3, <1>4, <1>5, <1>6, <1>7, <1>8, <1>9, <1>10, <1>11
     DEF Next, Kernel, Ended

(* Seen from outside, a run is the program's life: it is started at most   *)
(* once, and declared finished only when its last process has exited, a    *)
(* sleeping one included (sysmode.c:183-185).  For any number of processes *)
(* of which none exits before its children, as long as the parents the     *)
(* idle decision follows are as many as a line of processes can have.      *)
THEOREM RunIsTheProgram ==
  ASSUME "parents_wait" \in Assumed,
         IsFiniteSet(Slots), Cardinality(Slots) <= Hops + 1
  PROVE  Spec => Runs_Program
<1>1. Init => Kin /\ program!Init
  <2> SUFFICES ASSUME Init PROVE Kin /\ program!Init
    OBVIOUS
  <2>1. Kin
    BY KinInit
  <2>2. State = "boot" /\ Lives = {}
    BY DEF Init, State, Lives
  <2>3. program!Init
    BY <2>2 DEF program!Init, State, Lives
  <2> QED
    BY <2>1, <2>3
<1>2. Kin /\ [Next]_vars => Kin' /\ [program!Next]_(program!vars)
  BY KinNext, NextMaps, MapsIsNext
<1> QED
  BY <1>1, <1>2, PTL DEF Spec, Runs_Program, program!Spec
=============================================================================
