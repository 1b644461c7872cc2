----------------------------- MODULE Interrupts -----------------------------
(***************************************************************************)
(* The interrupt sources of the emulated machine (emu/cpu.c, devices.c):   *)
(* a microsecond counter with a compare register, which makes the          *)
(* hardclock; software interrupts, level-triggered by a word of kernel     *)
(* memory; the two places where step() delivers them; and kcall, in which  *)
(* the emulator runs a kernel function itself with interrupts off and puts *)
(* the processor, its clock included, back afterwards.                     *)
(*                                                                         *)
(* One instruction takes a microsecond (--tickdiv=1, what --clock selects).*)
(* Times kept as absolute counts in the code (next_softint, next_clock)    *)
(* are kept as the time left.  Interrupts are taken between instructions;  *)
(* delay slots and recorded faults, which keep them out for one, are in    *)
(* Cpu88100.  The kernel is not part of the repository; the K... actions   *)
(* do what the comments in step() say it does.                             *)
(***************************************************************************)
EXTENDS Integers, FiniteSets

CONSTANTS
  Width,      \* bits of the counter and the compare register (32)
  Interval,   \* microseconds between ticks, the kernel's choice (10000)
  Period,     \* softint_period
  Bits,       \* software interrupts in use, numbered by their priority
  TopSpl,     \* the level the kernel's interrupt routine runs at (0x1b)
  MaxMasked,  \* bound: microseconds the guest keeps interrupts out
  MaxKcalls   \* bound: kernel calls the emulator makes (launching a process)

Half == 2 ^ (Width - 1)
Levels == 0 .. TopSpl

ASSUME InterruptAssumption ==
  /\ Width \in Nat \ {0} /\ Half \in Nat
  /\ Interval \in 1 .. Half - 1 /\ Period \in Nat \ {0}
  /\ TopSpl \in Nat \ {0} /\ Bits \subseteq 1 .. TopSpl - 1
  /\ MaxMasked \in Nat /\ MaxKcalls \in Nat

VARIABLES
  tick_div,                     \* 0: the tick is paced by an instruction
                                \* count, not by the compare register
  timer,                        \* timer_now()
  clock_deadline, clock_armed,  \* the compare register and its match latch
  softwait, clockwait,          \* until next_softint and next_clock
  irq_source,                   \* the controller's pending register
  mask,                         \* sources enabled in the controller
  spl, softints,                \* SPL_LEVEL, SOFTINT_PENDING
  ind,                          \* PSR.IND: interrupts disabled
  isr,                          \* the kernel's interrupt routine
  kcall,                        \* what kcall will put back
  since, masked                 \* time since the deadline was set, and since
                                \* an interrupt could be taken (capped)

clock == <<timer, softwait, clockwait, since, masked>>
compare == <<tick_div, clock_deadline, clock_armed>>
gate == <<mask, spl, ind>>
irq_vars == <<clock, compare, gate, irq_source, softints, isr, kcall>>

Sources == {"soft", "hard"}
Hardclock == TopSpl         \* its bit among the routine's work
NoIsr == [at |-> "none", spl |-> 0, work |-> {}]
Deadline == tick_div # 0

IrqTypeOK ==
  /\ tick_div \in {0, 1}
  /\ timer \in 0 .. 2 * Half - 1 /\ clock_deadline \in 0 .. 2 * Half - 1
  /\ clock_armed \in BOOLEAN
  /\ softwait \in 0 .. Period /\ clockwait \in 0 .. Interval
  /\ irq_source \subseteq Sources /\ mask \subseteq Sources
  /\ spl \in Levels /\ softints \subseteq Bits
  /\ ind \in BOOLEAN
  /\ isr.at \in {"none", "entry", "work"} /\ isr.spl \in Levels
  /\ isr.work \subseteq Bits \cup {Hardclock}
  /\ kcall.on \in BOOLEAN /\ kcall.left \in 0 .. MaxKcalls
  /\ since \in 0 .. Interval /\ masked \in 0 .. MaxMasked

Enabled(level) == IF level < TopSpl THEN Sources ELSE {}

(* Out of reset the comparator is armed at 0, and the kernel starts with   *)
(* everything masked.                                                      *)
IrqInit ==
  /\ tick_div \in {0, 1}
  /\ timer = 0
  /\ clock_deadline = 0 /\ clock_armed = TRUE
  /\ softwait = 0 /\ clockwait = 0
  /\ irq_source = {} /\ softints = {}
  /\ spl = TopSpl /\ mask = {} /\ ind = TRUE
  /\ isr = NoIsr /\ kcall = [on |-> FALSE, left |-> MaxKcalls]
  /\ since = Interval /\ masked = 0

(***************************************************************************)
(* Delivery                                                                *)
(***************************************************************************)

(* (s32)(timer_now() - clock_deadline) >= 0.  Mutated forms end in _mut:   *)
(* here the two are compared as they are, or for equality.                 *)
Due_mut == IF Deadline THEN clock_armed /\ timer >= clock_deadline
           ELSE clockwait = 0

Due == IF Deadline
         THEN clock_armed /\ (timer - clock_deadline) % (2 * Half) < Half
         ELSE clockwait = 0

Open(level) == {b \in Bits : b > level}

Boundary == ~ind /\ ~kcall.on

SoftDeliverable_mut ==
  /\ Boundary
  /\ "soft" \in mask
  /\ softints \cap Open(spl) # {}

SoftDeliverable ==
  /\ Boundary
  /\ "soft" \in mask
  /\ softints \cap Open(spl) # {}
  /\ softwait = 0

HardDeliverable == Boundary /\ "hard" \in mask /\ Due

(* deliver_exception(1), as the kernel's interrupt routine finds it.       *)
Deliver(sources) ==
  /\ irq_source' = sources
  /\ isr' = [at |-> "entry", spl |-> spl, work |-> {}]
  /\ ind' = TRUE
  /\ UNCHANGED <<timer, tick_div, clock_deadline, softints, mask, spl, kcall,
                 since, masked>>

TakeSoft_mut ==
  /\ SoftDeliverable
  /\ softwait' = Period
  /\ Deliver(irq_source)
  /\ UNCHANGED <<clock_armed, clockwait>>

TakeSoft ==
  /\ SoftDeliverable
  /\ softwait' = Period
  /\ Deliver({"soft"})
  /\ UNCHANGED <<clock_armed, clockwait>>

(* A software interrupt goes first; a hardclock reports both.              *)
TakeHard ==
  /\ ~SoftDeliverable
  /\ HardDeliverable
  /\ clockwait' = Interval
  /\ clock_armed' = FALSE
  /\ Deliver({"hard"} \cup (IF softints # {} THEN {"soft"} ELSE {}))
  /\ UNCHANGED softwait

(***************************************************************************)
(* The guest.  Its instructions come after whatever step() delivers.       *)
(***************************************************************************)
Executes == ~SoftDeliverable /\ ~HardDeliverable

Accepting == ~ind /\ ~kcall.on /\ mask # {}

Less(n) == IF n = 0 THEN 0 ELSE n - 1

(* An instruction that touches none of this.                               *)
Run ==
  /\ Executes
  /\ Accepting \/ masked < MaxMasked
  /\ timer' = (timer + 1) % (2 * Half)
  /\ softwait' = Less(softwait) /\ clockwait' = Less(clockwait)
  /\ since' = IF since < Interval THEN since + 1 ELSE since
  /\ masked' = IF Accepting THEN 0 ELSE masked + 1
  /\ UNCHANGED <<compare, gate, irq_source, softints, isr, kcall>>

InCode == isr.at = "none" /\ Executes

(* splx: the level first, then _enable brings the controller in line.      *)
KSpl(level) ==
  /\ InCode
  /\ spl # level /\ mask = Enabled(spl)
  /\ level < spl \/ masked < MaxMasked
  /\ spl' = level /\ ind' = FALSE
  /\ UNCHANGED <<clock, compare, mask, irq_source, softints, isr, kcall>>

KEnable ==
  /\ InCode
  /\ mask # Enabled(spl)
  /\ mask' = Enabled(spl)
  /\ UNCHANGED <<clock, compare, spl, ind, irq_source, softints, isr, kcall>>

(* setsoftint                                                              *)
KPost ==
  /\ InCode
  /\ \E b \in Bits \ softints : softints' = softints \cup {b}
  /\ UNCHANGED <<clock, compare, gate, irq_source, isr, kcall>>

(* The interrupt routine reads and acknowledges the pending register and   *)
(* raises spl; if bit 5 is set it takes the software interrupts above the  *)
(* level it interrupted and stores the rest back.                          *)
KIsrEntry ==
  /\ isr.at = "entry"
  /\ LET dispatch == IF "soft" \in irq_source
                       THEN softints \cap Open(isr.spl) ELSE {} IN
       /\ isr' = [isr EXCEPT !.at = "work",
                             !.work = dispatch \cup (IF "hard" \in irq_source
                                                    THEN {Hardclock} ELSE {})]
       /\ softints' = softints \ dispatch
  /\ irq_source' = {}
  /\ spl' = TopSpl /\ mask' = {} /\ ind' = FALSE
  /\ UNCHANGED <<clock, compare, kcall>>

WriteCompare_mut ==
  clock_deadline' = (timer + Interval) % (2 * Half) /\ UNCHANGED clock_armed

(* A write to the compare register re-arms it.                             *)
WriteCompare ==
  /\ clock_deadline' = (timer + Interval) % (2 * Half)
  /\ clock_armed' = TRUE

(* The hardclock sets the next deadline and may ask for softclock.         *)
KHardclock ==
  /\ isr.at = "work" /\ Hardclock \in isr.work
  /\ isr' = [isr EXCEPT !.work = @ \ {Hardclock}]
  /\ WriteCompare
  /\ since' = 0
  /\ \E more \in SUBSET Bits : softints' = softints \cup more
  /\ UNCHANGED <<tick_div, timer, softwait, clockwait, masked, gate, irq_source,
                 kcall>>

(* A software interrupt's handler, which may ask to be run again.          *)
KSoftint ==
  /\ isr.at = "work"
  /\ \E b \in isr.work \ {Hardclock} :
       /\ isr' = [isr EXCEPT !.work = @ \ {b}]
       /\ softints' \in {softints, softints \cup {b}}
  /\ UNCHANGED <<clock, compare, gate, irq_source, kcall>>

KIsrExit ==
  /\ isr.at = "work" /\ isr.work = {}
  /\ isr' = NoIsr
  /\ spl' = isr.spl /\ mask' = Enabled(isr.spl) /\ ind' = FALSE
  /\ UNCHANGED <<clock, compare, irq_source, softints, kcall>>

(* kcall, from the idle loop: the whole processor is saved, and its        *)
(* instruction count with it.  The function called does as it likes with   *)
(* memory and returns at the level it was called at.                       *)
KcallBegin ==
  /\ kcall.left > 0 /\ ~kcall.on
  /\ InCode /\ spl = 0 /\ mask = Enabled(0) /\ ~ind
  /\ kcall' = [on |-> TRUE, left |-> kcall.left - 1, timer |-> timer,
               softwait |-> softwait, clockwait |-> clockwait, since |-> since]
  /\ masked' = 0
  /\ UNCHANGED <<timer, softwait, clockwait, since, compare, gate, irq_source,
                 softints, isr>>

KcallEnd ==
  /\ kcall.on
  /\ spl = 0 /\ mask = Enabled(0)
  /\ timer' = kcall.timer /\ softwait' = kcall.softwait
  /\ clockwait' = kcall.clockwait /\ since' = kcall.since
  /\ masked' = 0 /\ ind' = FALSE
  /\ kcall' = [on |-> FALSE, left |-> kcall.left]
  /\ UNCHANGED <<compare, mask, spl, irq_source, softints, isr>>

Routine == KIsrEntry \/ KHardclock \/ KSoftint \/ KIsrExit

IrqNext ==
  \/ TakeSoft \/ TakeHard \/ Run
  \/ \E level \in Levels : KSpl(level)
  \/ KEnable \/ KPost
  \/ Routine
  \/ KcallBegin \/ KcallEnd

IrqSpec == IrqInit /\ [][IrqNext]_irq_vars

(* The run loop does not stop; interrupt routines and kernel calls end;    *)
(* the guest lets interrupts in again.                                     *)
IrqFairSpec ==
  /\ IrqSpec
  /\ WF_irq_vars(TakeSoft) /\ WF_irq_vars(TakeHard) /\ WF_irq_vars(Run)
  /\ WF_irq_vars(Routine) /\ WF_irq_vars(KEnable) /\ WF_irq_vars(KcallEnd)
  /\ WF_irq_vars(KSpl(0))

(***************************************************************************)
(* Properties                                                              *)
(***************************************************************************)

(* "One programmed deadline yields exactly one interrupt no matter how far *)
(* past it we are when the kernel finally unmasks" (cpu.c:1349): a         *)
(* deadline that has passed is due, on both sides of the counter's wrap.   *)
PastDeadlineIsDue == Deadline /\ clock_armed /\ since = Interval => Due

(* ... and one that has not passed is not: the hardclock comes no sooner   *)
(* than the kernel asked for ("an interrupt storm", globals.c:52).         *)
NotBeforeDeadline == [][Deadline /\ TakeHard => since = Interval]_irq_vars

(* Together, with every count within its width: hardclocks come on time.   *)
TicksOnTime == [](IrqTypeOK /\ PastDeadlineIsDue) /\ NotBeforeDeadline

(* The ISR sets the next deadline, so one tick that is not recognised as   *)
(* such would be the last: the clock never stops.                          *)
ClockNeverStops ==
  []<>(Hardclock \in isr.work) /\ []<>(Hardclock \notin isr.work)

(* "As soon as the kernel lowers spl the interrupt is taken again and the  *)
(* remaining bits run" (cpu.c:1284): a request that the kernel's spl, its  *)
(* interrupt mask and the rate limit let through again and again is        *)
(* dispatched.                                                             *)
GateOpen(b) == Boundary /\ "soft" \in mask /\ b \in Open(spl) /\ softwait = 0

SoftintsRun ==
  \A b \in Bits : []<>GateOpen(b) => (b \in softints ~> b \notin softints)

(* Re-asserting a pending bit must not drown "the machine in its own ISR"  *)
(* (cpu.c:1294): the interrupted code goes on.                             *)
CodeGoesOn == []<><<Run /\ isr.at = "none">>_irq_vars
=============================================================================
