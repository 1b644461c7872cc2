-------------------------- MODULE Processor_proofs --------------------------
(***************************************************************************)
(* The two halves of step() in emu/cpu.c: what an interrupt or a fault     *)
(* does to the processor (Cpu88100), and when an interrupt comes           *)
(* (Interrupts).                                                           *)
(*                                                                         *)
(* The hardclock comes on time, for counters and intervals of any size,    *)
(* any set of software interrupts, and a guest that keeps interrupts out   *)
(* for less than half of the counter's range.                              *)
(*                                                                         *)
(* Exceptions stack and unwind for every text, every page layout and every *)
(* depth of nesting, and the user's program does not notice them.          *)
(***************************************************************************)
EXTENDS Cpu88100, Interrupts, SequenceTheorems, TLAPS

(***************************************************************************)
(* Interrupts: when one comes                                              *)
(***************************************************************************)

(* The types of IrqTypeOK's variables, with the records in full.           *)
Isr == [at: {"none", "entry", "work"}, spl: Levels, work: SUBSET (Bits \cup {Hardclock})]

Typed ==
  /\ tick_div \in {0, 1}
  /\ timer \in 0 .. 2 * Half - 1 /\ clock_deadline \in 0 .. 2 * Half - 1
  /\ clock_armed \in BOOLEAN
  /\ softwait \in 0 .. Period /\ clockwait \in 0 .. Interval
  /\ irq_source \subseteq Sources /\ mask \in {{}, Sources}
  /\ spl \in Levels /\ softints \subseteq Bits
  /\ ind \in BOOLEAN
  /\ isr \in Isr
  /\ since \in 0 .. Interval /\ masked \in 0 .. MaxMasked

(* What kcall will put back is a clock, and no interrupt comes while it    *)
(* runs.                                                                   *)
Saved ==
  /\ kcall.on \in BOOLEAN /\ kcall.left \in 0 .. MaxKcalls
  /\ kcall.on => /\ isr.at = "none"
                 /\ kcall.timer \in 0 .. 2 * Half - 1
                 /\ kcall.softwait \in 0 .. Period
                 /\ kcall.clockwait \in 0 .. Interval
                 /\ kcall.since \in 0 .. Interval

(* A counter of t, s microseconds after the deadline was set, has as many  *)
(* to go as the interval says, on one side of the wrap or the other.       *)
Ahead(t, s) == t + Interval - s \in {clock_deadline, clock_deadline + 2 * Half}

(* A deadline that has passed did so no longer ago than interrupts have    *)
(* been kept out.                                                          *)
Behind ==
  \E d \in 0 .. masked : timer \in {clock_deadline + d, clock_deadline + d - 2 * Half}

Armed == Deadline /\ clock_armed

OnTime ==
  /\ Armed /\ since < Interval => Ahead(timer, since)
  /\ Armed /\ since = Interval => Behind
  /\ Armed /\ kcall.on => kcall.since < Interval /\ Ahead(kcall.timer, kcall.since)

Inv == Typed /\ Saved /\ OnTime

LEMMA InvTypes == Inv => IrqTypeOK
  BY DEF Inv, Typed, Saved, IrqTypeOK, Isr

LEMMA Sizes ==
  /\ Half \in Nat /\ Half > 1 /\ Interval \in Nat /\ Interval >= 1 /\ Interval < Half
  /\ MaxMasked \in Nat /\ Period \in Nat /\ MaxKcalls \in Nat
  BY InterruptAssumption

LEMMA ModSmall ==
  ASSUME NEW m \in Nat \ {0}, NEW a \in 0 .. m - 1
  PROVE  a % m = a
  OBVIOUS

LEMMA ModNegative ==
  ASSUME NEW m \in Nat \ {0}, NEW a \in Int, -m <= a, a < 0
  PROVE  a % m = a + m
  OBVIOUS

(* The comparison of signed differences: a deadline ahead is not due ...   *)
LEMMA AheadIsNotDue ==
  ASSUME NEW t \in 0 .. 2 * Half - 1, NEW s \in 0 .. Interval - 1,
         clock_deadline \in 0 .. 2 * Half - 1, Ahead(t, s)
  PROVE  ~((t - clock_deadline) % (2 * Half) < Half)
<1> DEFINE a == t - clock_deadline
           m == 2 * Half
<1>1. /\ m \in Nat \ {0} /\ a \in Int
      /\ a = s - Interval \/ a = m + s - Interval
  BY Sizes DEF Ahead
<1>2. s \in Int /\ 1 <= Interval - s /\ Interval - s < Half
  BY Sizes
<1>3. CASE a = s - Interval
  <2>1. -m <= a /\ a < 0
    BY <1>2, <1>3, Sizes
  <2>2. a % m = a + m
    BY <1>1, <2>1, ModNegative
  <2> QED
    BY <1>2, <1>3, <2>2, Sizes
<1>4. CASE a = m + s - Interval
  <2>1. a \in 0 .. m - 1
    BY <1>1, <1>2, <1>4, Sizes
  <2>2. a % m = a
    BY <1>1, <2>1, ModSmall
  <2> QED
    BY <1>2, <1>4, <2>2, Sizes
<1> QED
  BY <1>1, <1>3, <1>4

(* ... and one less than half the range behind is.                         *)
LEMMA BehindIsDue ==
  ASSUME MaxMasked < Half, timer \in 0 .. 2 * Half - 1,
         clock_deadline \in 0 .. 2 * Half - 1, masked \in 0 .. MaxMasked, Behind
  PROVE  (timer - clock_deadline) % (2 * Half) < Half
<1> DEFINE a == timer - clock_deadline
           m == 2 * Half
<1>1. PICK d \in 0 .. masked :
        timer \in {clock_deadline + d, clock_deadline + d - 2 * Half}
  BY DEF Behind
<1>2. d \in Nat /\ d < Half /\ m \in Nat \ {0} /\ a \in Int
  BY <1>1, Sizes
<1>3. CASE a = d
  <2>1. a % m = a
    BY <1>2, <1>3, ModSmall, Sizes
  <2> QED
    BY <1>2, <1>3, <2>1
<1>4. CASE a = d - m
  <2>1. -m <= a /\ a < 0
    BY <1>2, <1>4, Sizes
  <2>2. a % m = a + m
    BY <1>2, <2>1, ModNegative
  <2> QED
    BY <1>2, <1>4, <2>2
<1> QED
  BY <1>1, <1>2, <1>3, <1>4, Sizes

LEMMA DueWhenArmed ==
  ASSUME MaxMasked < Half, Inv, Armed
  PROVE  Due <=> since = Interval
<1>1. since < Interval \/ since = Interval
  BY Sizes DEF Inv, Typed
<1>2. CASE since < Interval
  <2>1. since \in 0 .. Interval - 1
    BY <1>2, Sizes DEF Inv, Typed
  <2> QED
    BY <1>2, <2>1, AheadIsNotDue, Sizes DEF Inv, Typed, OnTime, Due, Armed, Deadline
<1>3. CASE since = Interval
  BY <1>3, BehindIsDue DEF Inv, Typed, OnTime, Due, Armed, Deadline
<1> QED
  BY <1>1, <1>2, <1>3

LEMMA InitInv == IrqInit => Inv
<1> SUFFICES ASSUME IrqInit
             PROVE  Inv
  OBVIOUS
<1>1. NoIsr \in Isr
  BY InterruptAssumption DEF NoIsr, Isr, Levels
<1>2. TopSpl \in Levels
  BY InterruptAssumption DEF Levels
<1>3. Typed /\ Saved
  BY <1>1, <1>2, Sizes DEF IrqInit, Typed, Saved
<1>4. Behind
  BY Sizes DEF IrqInit, Behind
<1> QED
  BY <1>3, <1>4, Sizes DEF Inv, IrqInit, OnTime

(* The invariant does not look at the interrupt routine or the gate.       *)
LEMMA ClockKept ==
  ASSUME OnTime, UNCHANGED <<clock, compare, kcall>>
  PROVE  OnTime'
  BY DEF OnTime, clock, compare, Armed, Deadline, Ahead, Behind

LEMMA TakeInv ==
  ASSUME Inv, TakeSoft \/ TakeHard
  PROVE  Inv'
<1> DEFINE entry == [at |-> "entry", spl |-> spl, work |-> {}]
<1>1. /\ isr' = entry /\ irq_source' \subseteq Sources /\ ind' = TRUE
      /\ UNCHANGED <<timer, tick_div, clock_deadline, softints, mask, spl, kcall,
                     since, masked>>
      /\ ~kcall.on
  BY DEF TakeSoft, TakeHard, Deliver, SoftDeliverable, HardDeliverable, Boundary, Sources
<1>2. entry \in Isr
  BY DEF Isr, Inv, Typed
<1>3. /\ softwait' \in 0 .. Period /\ clockwait' \in 0 .. Interval
  BY Sizes DEF TakeSoft, TakeHard, Inv, Typed
<1>4. clock_armed' = clock_armed \/ clock_armed' = FALSE
  BY DEF TakeSoft, TakeHard
<1>5. Typed' /\ Saved'
  <2>1. Saved'
    BY <1>1 DEF Inv, Saved
  <2>2. ind' \in BOOLEAN /\ isr' \in Isr /\ irq_source' \subseteq Sources
    BY <1>1, <1>2
  <2>3. /\ timer' \in 0 .. 2 * Half - 1 /\ clock_deadline' \in 0 .. 2 * Half - 1
        /\ tick_div' \in {0, 1} /\ mask' \in {{}, Sources} /\ spl' \in Levels
        /\ softints' \subseteq Bits /\ since' \in 0 .. Interval /\ masked' \in 0 .. MaxMasked
    BY <1>1 DEF Inv, Typed
  <2>4. clock_armed' \in BOOLEAN
    BY <1>4 DEF Inv, Typed
  <2> QED
    BY <1>3, <2>1, <2>2, <2>3, <2>4 DEF Typed
<1>6. OnTime'
  <2>1. Armed' => Armed
    BY <1>1, <1>4 DEF Armed, Deadline
  <2> QED
    BY <1>1, <2>1 DEF Inv, OnTime, Ahead, Behind
<1> QED
  BY <1>5, <1>6 DEF Inv

(* A microsecond passes.                                                   *)
LEMMA RunInv ==
  ASSUME MaxMasked < Half, Inv, Run
  PROVE  Inv'
<1>1. /\ Executes
      /\ Accepting \/ masked < MaxMasked
      /\ timer' = (timer + 1) % (2 * Half)
      /\ softwait' = Less(softwait) /\ clockwait' = Less(clockwait)
      /\ since' = IF since < Interval THEN since + 1 ELSE since
      /\ masked' = IF Accepting THEN 0 ELSE masked + 1
      /\ UNCHANGED <<tick_div, clock_deadline, clock_armed, mask, spl, ind, irq_source,
                     softints, isr, kcall>>
  BY DEF Run, compare, gate
<1>2. timer' = IF timer = 2 * Half - 1 THEN 0 ELSE timer + 1
  <2>1. timer \in Nat /\ timer <= 2 * Half - 1 /\ 2 * Half \in Nat \ {0}
    BY Sizes DEF Inv, Typed
  <2>2. CASE timer = 2 * Half - 1
    <3>1. timer + 1 = 2 * Half /\ (2 * Half) % (2 * Half) = 0
      BY <2>1, <2>2
    <3> QED
      BY <1>1, <2>2, <3>1
  <2>3. CASE timer # 2 * Half - 1
    <3>1. timer + 1 \in 0 .. 2 * Half - 1
      BY <2>1, <2>3
    <3> QED
      BY <1>1, <2>1, <2>3, <3>1, ModSmall
  <2> QED
    BY <2>2, <2>3
<1>3. Typed'
  <2>1. timer' \in 0 .. 2 * Half - 1
    BY <1>2, Sizes DEF Inv, Typed
  <2>2. softwait' \in 0 .. Period /\ clockwait' \in 0 .. Interval
    BY <1>1, Sizes DEF Inv, Typed, Less
  <2>3. since' \in 0 .. Interval /\ masked' \in 0 .. MaxMasked
    BY <1>1, Sizes DEF Inv, Typed
  <2> QED
    BY <1>1, <2>1, <2>2, <2>3 DEF Inv, Typed
<1>4. Saved'
  BY <1>1 DEF Inv, Saved
<1>5. OnTime'
  <2> SUFFICES ASSUME Armed
               PROVE  /\ since' < Interval => Ahead(timer, since)'
                      /\ since' = Interval => Behind'
    BY <1>1 DEF Inv, OnTime, Armed, Deadline, Ahead
  <2>1. /\ timer \in 0 .. 2 * Half - 1 /\ clock_deadline \in 0 .. 2 * Half - 1
        /\ since \in 0 .. Interval /\ masked \in Nat /\ masked' \in Nat
    BY <1>3, Sizes DEF Inv, Typed
  <2>2. CASE since < Interval
    <3>1. timer + Interval - since \in {clock_deadline, clock_deadline + 2 * Half}
      BY <2>2 DEF Inv, OnTime, Ahead
    <3>2. timer' + Interval - since' \in {clock_deadline, clock_deadline + 2 * Half}
            \/ timer' + Interval - since' = clock_deadline - 2 * Half
      BY <1>1, <1>2, <2>1, <2>2, <3>1, Sizes
    <3>3. timer' \in Int /\ timer' >= 0 /\ since' \in Int /\ since' <= Interval
      BY <1>1, <1>2, <2>1, <2>2, Sizes
    <3>4. timer' + Interval - since' # clock_deadline - 2 * Half
      <4>1. timer' + Interval - since' >= 0
        <5>1. \A t \in Nat, i, j \in Int : j <= i => t + i - j >= 0
          OBVIOUS
        <5>2. timer' \in Nat /\ Interval \in Int
          BY <3>3, Sizes
        <5> QED
          BY <3>3, <5>1, <5>2
      <4>2. clock_deadline - 2 * Half < 0
        BY <2>1, Sizes
      <4> QED
        BY <2>1, <4>1, <4>2, Sizes
    <3>5. timer' + Interval - since' \in {clock_deadline, clock_deadline + 2 * Half}
      BY <3>2, <3>4
    <3>6. ASSUME since' = Interval
          PROVE  timer' = clock_deadline
      <4>1. timer' \in {clock_deadline, clock_deadline + 2 * Half}
        BY <3>3, <3>5, <3>6, Sizes
      <4>2. timer' <= 2 * Half - 1
        BY <1>2, <2>1, Sizes
      <4> QED
        BY <2>1, <3>3, <4>1, <4>2, Sizes
    <3>7. since' = Interval => Behind'
      <4> SUFFICES ASSUME since' = Interval PROVE Behind'
        OBVIOUS
      <4>1. 0 \in 0 .. masked' /\ timer' = clock_deadline' + 0
        BY <1>1, <2>1, <3>6
      <4> QED
        BY <4>1 DEF Behind
    <3> QED
      BY <1>1, <3>5, <3>7 DEF Ahead
  <2>3. CASE since = Interval
    <3>1. Due
      BY <2>3, DueWhenArmed
    <3>2. ~Accepting
      BY <1>1, <3>1 DEF Executes, HardDeliverable, Boundary, Accepting, Inv, Typed, Sources
    <3>3. since' = Interval /\ masked' = masked + 1
      BY <1>1, <2>1, <2>3, <3>2, Sizes
    <3>4. PICK d \in 0 .. masked :
            timer \in {clock_deadline + d, clock_deadline + d - 2 * Half}
      BY <2>3 DEF Inv, OnTime, Behind
    <3>5. d + 1 \in 0 .. masked' /\ d < Half
      BY <1>3, <2>1, <3>3, <3>4, Sizes DEF Typed
    <3>6. timer' \in {clock_deadline + (d + 1), clock_deadline + (d + 1) - 2 * Half}
      <4>1. d \in Int /\ timer \in Int /\ clock_deadline \in Int
        BY <2>1, <3>4
      <4>2. CASE timer # 2 * Half - 1
        BY <1>2, <3>4, <4>1, <4>2, Sizes
      <4>3. CASE timer = 2 * Half - 1 /\ timer = clock_deadline + d
        BY <1>2, <4>1, <4>3, Sizes
      <4>4. ~(timer = 2 * Half - 1 /\ timer = clock_deadline + d - 2 * Half)
        BY <2>1, <3>5, <4>1, Sizes
      <4> QED
        BY <3>4, <4>2, <4>3, <4>4
    <3>7. Behind'
      BY <1>1, <3>5, <3>6 DEF Behind
    <3> QED
      BY <2>1, <3>3, <3>7, Sizes
  <2> QED
    BY <2>1, <2>2, <2>3, Sizes
<1> QED
  BY <1>3, <1>4, <1>5 DEF Inv

LEMMA LevelTypes ==
  /\ 0 \in Levels /\ TopSpl \in Levels /\ NoIsr \in Isr
  /\ \A level \in Levels : Enabled(level) \in {{}, Sources}
  BY InterruptAssumption DEF Levels, NoIsr, Isr, Enabled

(* The guest outside its interrupt routine.                                *)
LEMMA CodeInv ==
  ASSUME Inv, (\E level \in Levels : KSpl(level)) \/ KEnable \/ KPost
  PROVE  Inv'
<1>1. UNCHANGED <<clock, compare, irq_source, isr, kcall>>
  BY DEF KSpl, KEnable, KPost
<1>2. /\ mask' \in {{}, Sources} /\ spl' \in Levels /\ softints' \subseteq Bits
      /\ ind' \in BOOLEAN
  BY LevelTypes DEF KSpl, KEnable, KPost, gate, Inv, Typed
<1>3. Typed'
  BY <1>1, <1>2 DEF clock, compare, Inv, Typed
<1>4. Saved'
  BY <1>1 DEF Inv, Saved
<1> QED
  BY <1>1, <1>3, <1>4, ClockKept DEF Inv

(* The interrupt routine; only the hardclock touches the clock.            *)
LEMMA EntryInv ==
  ASSUME Inv, KIsrEntry
  PROVE  Inv'
<1> DEFINE dispatch == IF "soft" \in irq_source THEN softints \cap Open(isr.spl) ELSE {}
           work == dispatch \cup (IF "hard" \in irq_source THEN {Hardclock} ELSE {})
<1>1. /\ isr.at = "entry" /\ isr' = [isr EXCEPT !.at = "work", !.work = work]
      /\ softints' = softints \ dispatch /\ irq_source' = {}
      /\ spl' = TopSpl /\ mask' = {} /\ ind' = FALSE
      /\ UNCHANGED <<clock, compare, kcall>>
  BY DEF KIsrEntry
<1>2. work \subseteq Bits \cup {Hardclock} /\ softints' \subseteq Bits
  BY <1>1 DEF Inv, Typed
<1> HIDE DEF dispatch, work
<1>3. isr' \in Isr
  BY <1>1, <1>2 DEF Inv, Typed, Isr
<1>4. Typed'
  BY <1>1, <1>2, <1>3, LevelTypes DEF clock, compare, Inv, Typed
<1>5. Saved'
  BY <1>1 DEF Inv, Saved
<1> QED
  BY <1>1, <1>4, <1>5, ClockKept DEF Inv

LEMMA SoftintInv ==
  ASSUME Inv, KSoftint
  PROVE  Inv'
<1>1. PICK b \in isr.work \ {Hardclock} :
        /\ isr' = [isr EXCEPT !.work = @ \ {b}]
        /\ softints' \in {softints, softints \cup {b}}
  BY DEF KSoftint
<1>2. isr.at = "work" /\ UNCHANGED <<clock, compare, gate, irq_source, kcall>>
  BY DEF KSoftint
<1>3. isr' \in Isr /\ softints' \subseteq Bits
  BY <1>1 DEF Inv, Typed, Isr
<1>4. Typed'
  BY <1>2, <1>3 DEF clock, compare, gate, Inv, Typed
<1>5. Saved'
  BY <1>2 DEF Inv, Saved
<1> QED
  BY <1>2, <1>4, <1>5, ClockKept DEF Inv

LEMMA ExitInv ==
  ASSUME Inv, KIsrExit
  PROVE  Inv'
<1>1. /\ isr' = NoIsr /\ spl' = isr.spl /\ mask' = Enabled(isr.spl) /\ ind' = FALSE
      /\ UNCHANGED <<clock, compare, irq_source, softints, kcall>>
  BY DEF KIsrExit
<1>2. isr.spl \in Levels
  BY DEF Inv, Typed, Isr
<1>3. Typed'
  BY <1>1, <1>2, LevelTypes DEF clock, compare, Inv, Typed
<1>4. Saved'
  BY <1>1 DEF Inv, Saved, NoIsr
<1> QED
  BY <1>1, <1>3, <1>4, ClockKept DEF Inv

(* The next deadline is an interval ahead of the counter.                  *)
LEMMA HardclockInv ==
  ASSUME Inv, KHardclock
  PROVE  Inv'
<1>1. /\ isr.at = "work" /\ isr' = [isr EXCEPT !.work = @ \ {Hardclock}]
      /\ clock_deadline' = (timer + Interval) % (2 * Half) /\ clock_armed' = TRUE
      /\ since' = 0 /\ softints' \subseteq Bits
      /\ UNCHANGED <<tick_div, timer, softwait, clockwait, masked, mask, spl, ind,
                     irq_source, kcall>>
  BY DEF KHardclock, WriteCompare, gate, Inv, Typed
<1>2. timer \in 0 .. 2 * Half - 1 /\ 2 * Half \in Nat \ {0}
  BY Sizes DEF Inv, Typed
<1>3. clock_deadline' = IF timer + Interval < 2 * Half THEN timer + Interval
                        ELSE timer + Interval - 2 * Half
  <2>1. CASE timer + Interval < 2 * Half
    <3>1. timer + Interval \in 0 .. 2 * Half - 1
      BY <1>2, <2>1, Sizes
    <3> QED
      BY <1>1, <1>2, <2>1, <3>1, ModSmall
  <2>2. CASE ~(timer + Interval < 2 * Half)
    <3>1. timer + Interval - 2 * Half \in 0 .. 2 * Half - 1
      BY <1>2, <2>2, Sizes
    <3>2. \A m \in Nat \ {0} : \A a \in 0 .. m - 1 : (a + m) % m = a
      OBVIOUS
    <3>3. (timer + Interval - 2 * Half + 2 * Half) % (2 * Half)
            = timer + Interval - 2 * Half
      BY <1>2, <3>1, <3>2
    <3>4. timer + Interval - 2 * Half + 2 * Half = timer + Interval
      BY <1>2, Sizes
    <3> QED
      BY <1>1, <2>2, <3>3, <3>4
  <2> QED
    BY <2>1, <2>2
<1>4. /\ clock_deadline' \in 0 .. 2 * Half - 1
      /\ timer + Interval \in {clock_deadline', clock_deadline' + 2 * Half}
  BY <1>2, <1>3, Sizes
<1>5. isr' \in Isr
  BY <1>1 DEF Inv, Typed, Isr
<1>6. Typed'
  BY <1>1, <1>4, <1>5, Sizes DEF Inv, Typed
<1>7. ~kcall.on
  BY <1>1 DEF Inv, Saved
<1>8. Saved'
  BY <1>1, <1>7 DEF Inv, Saved
<1>9. Ahead(timer, since)' /\ since' < Interval
  <2>1. timer' + Interval - since' = timer + Interval
    BY <1>1, <1>2, Sizes
  <2> QED
    BY <1>1, <1>4, <2>1, Sizes DEF Ahead
<1>10. OnTime'
  BY <1>1, <1>7, <1>9, Sizes DEF OnTime
<1> QED
  BY <1>6, <1>8, <1>10 DEF Inv

(* kcall saves a clock whose deadline, if armed, is not due yet, and puts  *)
(* it back before anything can change the deadline.                        *)
LEMMA KcallBeginInv ==
  ASSUME MaxMasked < Half, Inv, KcallBegin
  PROVE  Inv'
<1>1. /\ kcall' = [on |-> TRUE, left |-> kcall.left - 1, timer |-> timer,
                   softwait |-> softwait, clockwait |-> clockwait, since |-> since]
      /\ masked' = 0 /\ isr.at = "none" /\ Executes /\ ~kcall.on
      /\ kcall.left > 0 /\ mask = Enabled(0) /\ ~ind /\ spl = 0
      /\ UNCHANGED <<timer, softwait, clockwait, since, tick_div, clock_deadline,
                     clock_armed, mask, spl, ind, irq_source, softints, isr>>
  BY DEF KcallBegin, InCode, compare, gate
<1>2. Typed'
  BY <1>1, Sizes DEF Inv, Typed
<1>3. Saved'
  <2>1. kcall.left - 1 \in 0 .. MaxKcalls
    BY <1>1, Sizes DEF Inv, Saved
  <2> QED
    BY <1>1, <2>1 DEF Inv, Saved, Typed
<1>4. ASSUME Armed
      PROVE  since < Interval
  <2>1. "hard" \in mask => ~Due
    BY <1>1 DEF Executes, HardDeliverable, Boundary
  <2>2. "hard" \in mask
    BY <1>1, InterruptAssumption DEF Enabled, Sources
  <2> QED
    BY <1>4, <2>1, <2>2, DueWhenArmed, Sizes DEF Inv, Typed
<1>5. OnTime'
  BY <1>1, <1>4, Sizes DEF Inv, Typed, OnTime, Armed, Deadline, Ahead
<1> QED
  BY <1>2, <1>3, <1>5 DEF Inv

LEMMA KcallEndInv ==
  ASSUME Inv, KcallEnd
  PROVE  Inv'
<1>1. /\ kcall.on /\ timer' = kcall.timer /\ softwait' = kcall.softwait
      /\ clockwait' = kcall.clockwait /\ since' = kcall.since
      /\ masked' = 0 /\ ind' = FALSE /\ kcall' = [on |-> FALSE, left |-> kcall.left]
      /\ UNCHANGED <<tick_div, clock_deadline, clock_armed, mask, spl, irq_source,
                     softints, isr>>
  BY DEF KcallEnd, compare
<1>2. Typed'
  <2>1. /\ timer' \in 0 .. 2 * Half - 1 /\ since' \in 0 .. Interval
        /\ softwait' \in 0 .. Period /\ clockwait' \in 0 .. Interval
        /\ masked' \in 0 .. MaxMasked
    BY <1>1, Sizes DEF Inv, Saved
  <2>2. /\ tick_div' \in {0, 1} /\ clock_deadline' \in 0 .. 2 * Half - 1
        /\ clock_armed' \in BOOLEAN /\ ind' \in BOOLEAN /\ mask' \in {{}, Sources} /\ isr' \in Isr
        /\ irq_source' \subseteq Sources /\ spl' \in Levels /\ softints' \subseteq Bits
    BY <1>1 DEF Inv, Typed
  <2> QED
    BY <2>1, <2>2 DEF Typed
<1>3. Saved'
  BY <1>1 DEF Inv, Saved
<1>4. OnTime'
  BY <1>1, Sizes DEF Inv, Saved, OnTime, Armed, Deadline, Ahead
<1> QED
  BY <1>2, <1>3, <1>4 DEF Inv

LEMMA NextInv ==
  ASSUME MaxMasked < Half
  PROVE  Inv /\ [IrqNext]_irq_vars => Inv'
<1> SUFFICES ASSUME Inv, [IrqNext]_irq_vars
             PROVE  Inv'
  OBVIOUS
<1>1. CASE UNCHANGED irq_vars
  <2>1. Typed' /\ Saved'
    BY <1>1 DEF irq_vars, clock, compare, gate, Inv, Typed, Saved
  <2> QED
    BY <1>1, <2>1, ClockKept DEF irq_vars, Inv
<1> QED
  BY <1>1, TakeInv, RunInv, CodeInv, EntryInv, SoftintInv, ExitInv, HardclockInv,
     KcallBeginInv, KcallEndInv DEF IrqNext, Routine

(* "One programmed deadline yields exactly one interrupt no matter how far *)
(* past it we are when the kernel finally unmasks" (cpu.c:1349), and none  *)
(* before it ("an interrupt storm", globals.c:52): for a guest that keeps  *)
(* interrupts out for less than half of the counter's range, the hardclock *)
(* is due when its deadline has passed, on both sides of the counter's     *)
(* wrap and across the kernel calls the emulator makes, and not before.    *)
THEOREM HardclockOnTime ==
  ASSUME MaxMasked < Half
  PROVE  IrqSpec => TicksOnTime
<1>1. IrqSpec => []Inv
  BY InitInv, NextInv, PTL DEF IrqSpec
<1>2. Inv => IrqTypeOK /\ PastDeadlineIsDue
  BY InvTypes, DueWhenArmed DEF PastDeadlineIsDue, Armed
<1>3. Inv => (Deadline /\ TakeHard => since = Interval)
  BY DueWhenArmed DEF TakeHard, HardDeliverable, Due, Armed
<1> QED
  BY <1>1, <1>2, <1>3, PTL DEF IrqSpec, TicksOnTime, NotBeforeDeadline

(***************************************************************************)
(* Cpu88100: what an exception does                                        *)
(***************************************************************************)

USE TextAssumption, ClosedText

(* Addresses of the user's text and of the kernel never coincide.          *)
LEMMA AddressSpaces ==
  /\ UserPC \subseteq Nat /\ Address \subseteq Nat
  /\ \A v \in Vectors : 
       /\ Vector(v) \in Address /\ Vector(v) \notin UserPC
       /\ Vector(v) # KSaveRte /\ Vector(v) # KBody
       /\ Vector(v) # KReplay /\ Vector(v) # KExitRte
  /\ \A v, w \in Vectors : Vector(v) = Vector(w) => v = w
  /\ KSaveRte \notin UserPC /\ KSaveRte \in Address
  /\ KBody \notin UserPC /\ KBody \in Address
  /\ KReplay \notin UserPC /\ KReplay \in Address
  /\ KExitRte \notin UserPC /\ KExitRte \in Address
  /\ KSaveRte # KBody /\ KSaveRte # KReplay /\ KSaveRte # KExitRte
  /\ KBody # KReplay /\ KBody # KExitRte /\ KReplay # KExitRte
<1> USE DEF UserPC, Vector, Vectors, Interrupt, CodeAccess, DataAccess, Divide,
       Syscall, KSaveRte, KBody, KReplay, KExitRte
<1>1. UserPC \subseteq Nat /\ Address \subseteq Nat
  BY DEF Address
<1>2. ASSUME NEW v \in Vectors PROVE Vector(v) \in Address
  BY DEF Address
<1> QED BY <1>1, <1>2 DEF Address

(* The frame being worked on is one of the frames.                         *)
LEMMA TopIsFrame ==
  ASSUME TypeOK, frames # <<>>
  PROVE  Len(frames) \in 1 .. Len(frames) /\ Top \in Frame
BY EmptySeq DEF TypeOK, Top

LEMMA InitInvariant == Init => TypeOK /\ Stacked
<1> SUFFICES ASSUME Init PROVE TypeOK /\ Stacked
  OBVIOUS
<1>1. 0 \in UserPC
  BY DEF UserPC
<1>2. TypeOK
  <2>1. NullReg \in PipeReg /\ psr \in PSR /\ frames \in Seq(Frame)
    BY DEF Init, NullReg, PipeReg, PSR
  <2>2. cr \in Exception /\ ufault \in Fault
    BY <2>1 DEF Init, Exception, PSR, Fault
  <2>3. pc \in Address /\ has_pending \in BOOLEAN /\ pending \in UserPC
    BY <1>1 DEF Init, Address
  <2>4. resident \subseteq Pages /\ stores \in 0 .. StoreMod - 1
    BY DEF Init
  <2> QED BY <2>1, <2>2, <2>3, <2>4 DEF TypeOK
<1>3. pc \in UserPC /\ ~psr.sup /\ ~psr.ind /\ ~has_pending /\ ~ufault.pending
  BY <1>1 DEF Init
<1>4. Len(frames) = 0 /\ frames = <<>>
  BY DEF Init
<1>5. Stacked
  BY <1>3, <1>4, AddressSpaces DEF Stacked
<1> QED BY <1>2, <1>5

(***************************************************************************)
(* Exception entry                                                         *)
(***************************************************************************)
LEMMA EntryTypes ==
  ASSUME TypeOK
  PROVE  /\ pc \in Nat /\ pc + 1 \in Nat /\ pc + 2 \in Nat
         /\ \A a \in Nat, b \in BOOLEAN : [addr |-> a, v |-> b] \in PipeReg
         /\ InException \in PSR /\ psr \in PSR
BY AddressSpaces DEF TypeOK, PipeReg, PSR, InException

(* A fault or an interrupt stops the user or a handler's body, and the     *)
(* saved registers resume it there.                                        *)
LEMMA RaiseFaultInvariant ==
  ASSUME TypeOK, Stacked, RaiseFault
  PROVE  TypeOK' /\ Stacked'
<1> DEFINE v == IF ufault.code THEN CodeAccess ELSE DataAccess
<1>1. v \in Vectors /\ v \notin Traps /\ v \in {CodeAccess, DataAccess}
  BY DEF Vectors, Traps, CodeAccess, DataAccess, Divide, Syscall
<1>2. /\ ufault' = [ufault EXCEPT !.pending = FALSE]
      /\ pc' = Vector(v) /\ psr' = InException /\ has_pending' = FALSE
      /\ pending' = pending /\ frames' = frames
      /\ resident' = resident /\ stores' = stores
  BY DEF RaiseFault, DeliverFault
<1>3. cr' = [epsr |-> psr,
             sxip |-> [addr |-> pc, v |-> FALSE],
             snip |-> [addr |-> pc, v |-> TRUE],
             sfip |-> [addr |-> pc + 1, v |-> TRUE],
             dmt |-> v = DataAccess,
             dma |-> IF v = DataAccess THEN ufault.page ELSE cr.dma]
  BY DEF RaiseFault, DeliverFault
<1>4. TypeOK'
  <2>1. ufault.page \in Pages /\ cr.dma \in Pages /\ ufault' \in Fault
    BY <1>2 DEF TypeOK, Fault, Exception
  <2>2. cr' \in Exception
    BY <1>3, <2>1, EntryTypes DEF Exception
  <2> QED
    BY <1>1, <1>2, <2>1, <2>2, EntryTypes, AddressSpaces DEF TypeOK
<1>5. Stacked'
  <2>1. pc \in UserPC \cup {KBody} /\ (ufault.code => ~psr.sup)
    BY DEF RaiseFault, Stacked
  <2>2. CASE ~psr.sup
    <3>1. SavedUser(v, cr', 1) /\ frames' = <<>>
      BY <1>1, <1>2, <1>3, <2>1, <2>2 DEF Stacked, SavedUser, Traps, Divide, Syscall,
         CodeAccess, DataAccess
    <3> QED
      BY <1>1, <1>2, <3>1, AddressSpaces
      DEF Stacked, InException, TypeOK, Fault
  <2>3. CASE psr.sup
    <3>1. pc = KBody /\ frames # <<>> /\ v = DataAccess
      BY <2>1, <2>3, AddressSpaces DEF Stacked
    <3>2. SavedNested(v, cr')
      BY <1>3, <2>3, <3>1 DEF SavedNested
    <3> QED
      BY <1>1, <1>2, <3>1, <3>2, AddressSpaces
      DEF Stacked, InException, TypeOK, Fault
  <2> QED BY <2>2, <2>3 DEF TypeOK, PSR
<1> QED BY <1>4, <1>5

LEMMA TakeInterruptInvariant ==
  ASSUME TypeOK, Stacked, TakeInterrupt
  PROVE  TypeOK' /\ Stacked'
<1>1. Interrupt \in Vectors /\ Interrupt \notin Traps
  BY DEF Vectors, Traps, Interrupt, Divide, Syscall
<1>2. /\ pc' = Vector(Interrupt) /\ psr' = InException
      /\ UNCHANGED <<has_pending, pending, ufault, frames, resident, stores>>
      /\ ~has_pending /\ ~ufault.pending /\ ~psr.ind /\ pc # KReplay
  BY DEF TakeInterrupt, DeliverException
<1>3. cr' = [cr EXCEPT !.epsr = psr,
                       !.sxip = [addr |-> pc, v |-> FALSE],
                       !.snip = [addr |-> pc, v |-> TRUE],
                       !.sfip = [addr |-> pc + 1, v |-> TRUE],
                       !.dmt = FALSE]
  BY DEF TakeInterrupt, DeliverException
<1>4. TypeOK'
  <2>1. cr' \in Exception
    BY <1>3, EntryTypes DEF TypeOK, Exception
  <2> QED BY <1>1, <1>2, <2>1, EntryTypes, AddressSpaces DEF TypeOK
<1>5. Stacked'
  <2>1. /\ cr'.epsr = psr /\ ~cr'.sxip.v /\ cr'.snip.v
        /\ cr'.sxip.addr = pc /\ cr'.snip.addr = pc
    BY <1>3 DEF TypeOK, Exception
  <2>2. CASE ~psr.sup
    <3>1. SavedUser(Interrupt, cr', 1) /\ frames' = <<>>
      BY <1>1, <1>2, <2>1, <2>2 DEF Stacked, SavedUser, Traps, Divide, Syscall
    <3> QED
      BY <1>1, <1>2, <3>1, AddressSpaces DEF Stacked, InException
  <2>3. CASE psr.sup
    <3>1. pc = KBody /\ frames # <<>>
      BY <1>2, <2>3 DEF Stacked
    <3>2. SavedNested(Interrupt, cr')
      BY <2>1, <2>3, <3>1 DEF SavedNested
    <3> QED
      BY <1>1, <1>2, <3>1, <3>2, AddressSpaces DEF Stacked, InException
  <2> QED BY <2>2, <2>3 DEF TypeOK, PSR
<1> QED BY <1>4, <1>5

(***************************************************************************)
(* User instructions                                                       *)
(***************************************************************************)
LEMMA SequenceTypes ==
  ASSUME TypeOK, NEW taken \in BOOLEAN, Sequence(taken), pc \in UserPC,
         (taken /\ ~Code[pc].delayed) \/ Code[pc].op # "br" \/ Code[pc].delayed
  PROVE  pc' \in UserPC /\ has_pending' \in BOOLEAN /\ pending' \in UserPC
<1>1. Code[pc] \in Insn /\ Code[pc].target \in UserPC
  BY DEF Insn
<1>2. ~(taken /\ ~Code[pc].delayed) => pc + 1 \in UserPC
  OBVIOUS
<1> QED BY <1>1, <1>2 DEF Sequence, TypeOK

(* Executing an instruction, or recording its fault, leaves the user in    *)
(* its text.                                                               *)
LEMMA UserStepInvariant ==
  ASSUME TypeOK, Stacked, ~psr.sup, pc' \in UserPC,
         has_pending' \in BOOLEAN, pending' \in UserPC,
         UNCHANGED <<psr, cr, frames, resident>>,
         stores' \in 0 .. StoreMod - 1, ufault' \in Fault,
         ufault'.pending => 
           ufault'.page = IF ufault'.code THEN TextPage[pc'] ELSE Code[pc'].page
  PROVE  TypeOK' /\ Stacked'
<1>1. TypeOK'
  BY DEF TypeOK, Address
<1>2. ~psr'.sup /\ ~psr'.ind /\ frames' = <<>> /\ Len(frames') = 0
  BY DEF Stacked
<1>3. Stacked'
  BY <1>2, AddressSpaces DEF Stacked
<1> QED BY <1>1, <1>3

LEMMA RecordFaultUser ==
  ASSUME TypeOK, Stacked, ~psr.sup, NEW code \in BOOLEAN, NEW page \in Pages,
         RecordFault(code, page),
         page = IF code THEN TextPage[pc] ELSE Code[pc].page
  PROVE  TypeOK' /\ Stacked'
<1>1. pc \in UserPC /\ ufault' \in Fault /\ ufault'.page = page /\ ufault'.code = code
  BY DEF Stacked, RecordFault, Fault
<1> QED 
  BY <1>1, UserStepInvariant DEF RecordFault, TypeOK

LEMMA ExecuteInvariant ==
  ASSUME TypeOK, Stacked, Execute
  PROVE  TypeOK' /\ Stacked'
<1>1. pc \in UserPC /\ ~psr.sup /\ frames = <<>> /\ ~psr.ind
  BY DEF Stacked, Execute, FetchFault, ExecPlain, ExecBranch, ExecMemory, MemoryFault,
         ExecTrap, ServeSyscall, ServeSyscallFault, Fetched
<1>2. Code[pc] \in Insn /\ Code[pc].page \in Pages /\ TextPage[pc] \in Pages
  BY <1>1 DEF Insn
<1>3. CASE FetchFault
  BY <1>1, <1>2, <1>3, RecordFaultUser DEF FetchFault
<1>4. CASE MemoryFault
  BY <1>1, <1>2, <1>4, RecordFaultUser DEF MemoryFault
<1>5. CASE ServeSyscallFault
  BY <1>1, <1>2, <1>5, RecordFaultUser DEF ServeSyscallFault
<1>6. CASE ExecPlain
  <2>1. Sequence(FALSE) /\ ~ufault'.pending /\ Code[pc].op # "br"
    BY <1>6 DEF ExecPlain, Fetched
  <2>2. pc' \in UserPC /\ has_pending' \in BOOLEAN /\ pending' \in UserPC
    BY <1>1, <2>1, SequenceTypes
  <2> QED BY <1>1, <1>6, <2>1, <2>2, UserStepInvariant DEF ExecPlain, TypeOK
<1>7. CASE ExecBranch
  <2>1. Sequence(TRUE) /\ ~ufault'.pending
    BY <1>7 DEF ExecBranch, Fetched
  <2>2. pc' \in UserPC /\ has_pending' \in BOOLEAN /\ pending' \in UserPC
    BY <1>1, <1>2, <2>1, SequenceTypes DEF Insn
  <2> QED BY <1>1, <1>7, <2>1, <2>2, UserStepInvariant DEF ExecBranch, TypeOK
<1>8. CASE ExecMemory
  <2>1. Sequence(FALSE) /\ ~ufault'.pending /\ Code[pc].op # "br"
    BY <1>8 DEF ExecMemory, Fetched
  <2>2. pc' \in UserPC /\ has_pending' \in BOOLEAN /\ pending' \in UserPC
    BY <1>1, <2>1, SequenceTypes
  <2>3. stores' \in 0 .. StoreMod - 1
    BY <1>8 DEF ExecMemory, TypeOK
  <2> QED BY <1>1, <1>8, <2>1, <2>2, <2>3, UserStepInvariant DEF ExecMemory, TypeOK
<1>9. CASE ServeSyscall
  <2>1. pc' \in UserPC /\ ~ufault'.pending
    BY <1>1, <1>9 DEF ServeSyscall, Fetched
  <2> QED BY <1>1, <1>9, <2>1, UserStepInvariant DEF ServeSyscall, TypeOK
<1>10. CASE ExecTrap
  <2> DEFINE v == IF Code[pc].op = "trap" THEN Syscall ELSE Divide
  <2>1. v \in Vectors /\ v \in Traps
    BY DEF Vectors, Traps, Divide, Syscall
  <2>2. /\ pc' = Vector(v) /\ psr' = InException /\ has_pending' = FALSE
        /\ UNCHANGED <<pending, ufault, frames, resident, stores>>
        /\ ~ufault.pending /\ Code[pc].op \in {"trap", "div"}
    BY <1>10 DEF ExecTrap, DeliverTrap, Fetched
  <2>3. cr' = [cr EXCEPT !.epsr = psr,
                         !.sxip = [addr |-> pc, v |-> FALSE],
                         !.snip = [addr |-> pc + 1, v |-> TRUE],
                         !.sfip = [addr |-> pc + 2, v |-> TRUE]]
    BY <1>10 DEF ExecTrap, DeliverTrap
  <2>4. TypeOK'
    <3>1. cr' \in Exception
      BY <2>3, EntryTypes DEF TypeOK, Exception
    <3> QED BY <2>1, <2>2, <3>1, EntryTypes, AddressSpaces DEF TypeOK
  <2>5. Stacked'
    <3>1. pc + 1 \in UserPC
      BY <1>1, <2>2
    <3>2. /\ cr'.epsr = psr /\ ~cr'.sxip.v /\ cr'.snip.v
          /\ cr'.sxip.addr = pc /\ cr'.snip.addr = pc + 1
      BY <2>3 DEF TypeOK, Exception
    <3>3. SavedUser(v, cr', 1)
      BY <1>1, <2>1, <2>2, <3>1, <3>2 DEF SavedUser, Divide, Syscall
    <3> QED BY <1>1, <2>1, <2>2, <3>3, AddressSpaces DEF Stacked, InException
  <2> QED BY <2>4, <2>5
<1> QED
  BY <1>3, <1>4, <1>5, <1>6, <1>7, <1>8, <1>9, <1>10 DEF Execute

(***************************************************************************)
(* rte                                                                     *)
(***************************************************************************)
LEMMA RteInvariant ==
  ASSUME TypeOK, Stacked, Rte
  PROVE  TypeOK' /\ Stacked'
<1>1. /\ psr' = cr.epsr /\ pc' = RteTarget /\ psr.sup
      /\ UNCHANGED <<has_pending, pending, cr, ufault, frames, resident, stores>>
      /\ ~has_pending /\ ~ufault.pending
  BY AddressSpaces DEF Rte, Stacked
<1>2. cr.epsr \in PSR
  BY DEF TypeOK, Exception
<1>3. CASE pc = KSaveRte
  <2>1. pc' = KBody /\ psr'.sup /\ frames' # <<>>
    BY <1>1, <1>3 DEF Stacked, RteTarget
  <2>2. TypeOK'
    BY <1>1, <1>2, <2>1, AddressSpaces DEF TypeOK
  <2> QED BY <1>1, <2>1, <2>2, AddressSpaces DEF Stacked
<1>4. CASE pc = KExitRte /\ frames = <<>>
  <2>1. pc' \in UserPC /\ ~psr'.sup /\ ~psr'.ind /\ frames' = <<>>
    BY <1>1, <1>4 DEF Stacked, RteTarget
  <2>2. TypeOK'
    BY <1>1, <1>2, <2>1 DEF TypeOK, Address
  <2> QED BY <1>1, <2>1, <2>2, AddressSpaces DEF Stacked
<1>5. CASE pc = KExitRte /\ frames # <<>>
  <2>1. pc' = KBody /\ psr'.sup /\ frames' # <<>>
    BY <1>1, <1>5 DEF Stacked, RteTarget
  <2>2. TypeOK'
    BY <1>1, <1>2, <2>1, AddressSpaces DEF TypeOK
  <2> QED BY <1>1, <2>1, <2>2, AddressSpaces DEF Stacked
<1> QED BY <1>3, <1>4, <1>5 DEF Rte

(***************************************************************************)
(* The kernel's handlers                                                   *)
(***************************************************************************)

(* Rewriting the frame being worked on leaves the others as they were.     *)
LEMMA ReplaceTop ==
  ASSUME TypeOK, Stacked, frames # <<>>, NEW f \in Frame,
         frames' = [frames EXCEPT ![Len(frames)] = f],
         FrameSaved(f, Len(frames))
  PROVE  /\ frames' \in Seq(Frame) /\ frames' # <<>>
         /\ \A i \in 1 .. Len(frames') : FrameSaved(frames'[i], i)
<1>1. Len(frames) \in 1 .. Len(frames) /\ frames \in Seq(Frame)
  BY TopIsFrame DEF TypeOK
<1>2. /\ frames' \in Seq(Frame) /\ Len(frames') = Len(frames)
      /\ \A j \in 1 .. Len(frames) : 
           frames'[j] = IF j = Len(frames) THEN f ELSE frames[j]
  BY <1>1, ExceptSeq
<1>3. ASSUME NEW i \in 1 .. Len(frames') PROVE FrameSaved(frames'[i], i)
  BY <1>2, <1>3 DEF Stacked
<1>4. frames' # <<>>
  BY <1>1, <1>2
<1> QED BY <1>2, <1>3, <1>4

LEMMA KSaveInvariant ==
  ASSUME TypeOK, Stacked, KSave
  PROVE  TypeOK' /\ Stacked'
<1>1. PICK v \in Vectors :
        /\ pc = Vector(v)
        /\ frames' = Append(frames, [vec |-> v, regs |-> cr,
                                     replay |-> FALSE, done |-> FALSE])
  BY DEF KSave
<1>2. PICK off \in BOOLEAN :
        cr' = [cr EXCEPT !.epsr = [sup |-> TRUE, ind |-> off],
                         !.snip = [addr |-> 0, v |-> FALSE],
                         !.sfip = [addr |-> KBody, v |-> TRUE]]
  BY DEF KSave
<1>3. /\ pc' = KSaveRte /\ psr.sup /\ psr.ind
      /\ UNCHANGED <<has_pending, pending, psr, ufault, resident, stores>>
  BY <1>1, AddressSpaces DEF KSave, Stacked
<1> DEFINE f == [vec |-> v, regs |-> cr, replay |-> FALSE, done |-> FALSE]
<1>4. f \in Frame
  BY DEF TypeOK, Frame
<1>5. /\ frames' \in Seq(Frame) /\ frames' # <<>> /\ Len(frames') = Len(frames) + 1
      /\ \A i \in 1 .. Len(frames) : frames'[i] = frames[i]
      /\ frames'[Len(frames) + 1] = f /\ Len(frames) \in Nat
  BY <1>1, <1>4, AppendProperties DEF TypeOK
<1>6. cr' \in Exception /\ ~cr'.sxip.v /\ ~cr'.snip.v /\ cr'.epsr.sup
      /\ cr'.sfip = [addr |-> KBody, v |-> TRUE]
  <2>1. [sup |-> TRUE, ind |-> off] \in PSR
    BY DEF PSR
  <2>2. [addr |-> 0, v |-> FALSE] \in PipeReg /\ [addr |-> KBody, v |-> TRUE] \in PipeReg
    BY AddressSpaces DEF PipeReg
  <2>3. ~cr.sxip.v
    BY <1>1 DEF Stacked, SavedUser, SavedNested
  <2> QED BY <1>2, <2>1, <2>2, <2>3 DEF TypeOK, Exception
<1>7. TypeOK'
  BY <1>3, <1>5, <1>6, AddressSpaces DEF TypeOK
<1>8. FrameSaved(f, Len(frames) + 1)
  <2>1. f.vec = v /\ f.regs = cr
    OBVIOUS
  <2>2. CASE frames = <<>>
    BY <1>1, <2>1, <2>2 DEF Stacked, FrameSaved
  <2>3. CASE frames # <<>>
    <3>1. Len(frames) + 1 # 1
      BY <2>3, EmptySeq DEF TypeOK
    <3> QED BY <1>1, <2>1, <2>3, <3>1 DEF Stacked, FrameSaved
  <2> QED BY <2>2, <2>3
<1>9. \A i \in 1 .. Len(frames') : FrameSaved(frames'[i], i)
  BY <1>5, <1>8 DEF Stacked
<1>10. Stacked'
  BY <1>1, <1>3, <1>5, <1>6, <1>9, AddressSpaces DEF Stacked
<1> QED BY <1>7, <1>10

LEMMA KResolveInvariant ==
  ASSUME TypeOK, Stacked, KResolve
  PROVE  TypeOK' /\ Stacked'
<1> DEFINE f == [Top EXCEPT !.replay = TRUE]
<1>1. /\ pc' = KReplay /\ pc = KBody /\ psr.sup /\ ~ufault.pending
      /\ UNCHANGED <<has_pending, pending, psr, cr, ufault, stores>>
      /\ frames' = [frames EXCEPT ![Len(frames)] = f]
      /\ resident' = resident \cup {Top.regs.dma}
  BY DEF KResolve, AtBody
<1>2. frames # <<>> /\ ~has_pending
  BY <1>1 DEF Stacked
<1>3. Top \in Frame /\ Len(frames) \in 1 .. Len(frames) /\ Top = frames[Len(frames)]
  BY <1>2, TopIsFrame DEF Top
<1>4. f \in Frame /\ f.vec = Top.vec /\ f.regs = Top.regs /\ f.done = Top.done
  BY <1>3 DEF Frame
<1>5. FrameSaved(f, Len(frames))
  BY <1>3, <1>4 DEF Stacked, FrameSaved
<1>6. /\ frames' \in Seq(Frame) /\ frames' # <<>>
      /\ \A i \in 1 .. Len(frames') : FrameSaved(frames'[i], i)
  BY <1>1, <1>2, <1>4, <1>5, ReplaceTop
<1>7. resident' \subseteq Pages
  BY <1>1, <1>3 DEF TypeOK, Frame, Exception
<1>8. TypeOK'
  BY <1>1, <1>6, <1>7, AddressSpaces DEF TypeOK
<1>9. Stacked'
  BY <1>1, <1>2, <1>6, AddressSpaces DEF Stacked
<1> QED BY <1>8, <1>9

LEMMA KHandleInvariant ==
  ASSUME TypeOK, Stacked, KHandle
  PROVE  TypeOK' /\ Stacked'
<1>1. PICK ok \in BOOLEAN :
        /\ ok => Top.vec = Syscall
        /\ frames' = [frames EXCEPT ![Len(frames)] = Handled(Top, ok)]
  BY DEF KHandle
<1>2. /\ pc = KBody /\ psr.sup /\ ~Top.done /\ ~ufault.pending
      /\ UNCHANGED <<pc, has_pending, pending, psr, cr, ufault, stores>>
      /\ resident' = IF Top.vec = CodeAccess
                       THEN resident \cup {TextPage[Top.regs.sxip.addr]}
                       ELSE resident
  BY DEF KHandle, AtBody
<1>3. frames # <<>> /\ ~has_pending
  BY <1>2 DEF Stacked
<1>4. /\ Top \in Frame /\ Len(frames) \in 1 .. Len(frames)
      /\ Top = frames[Len(frames)] /\ FrameSaved(Top, Len(frames))
  BY <1>3, TopIsFrame DEF Top, Stacked
<1> DEFINE f == Handled(Top, ok)
<1>5. Top.regs \in Exception /\ Top.regs.snip \in PipeReg /\ Top.regs.snip.addr \in Nat
  BY <1>4 DEF Frame, Exception, PipeReg
<1>6. /\ f.vec = Top.vec /\ f.done = TRUE /\ f.replay = Top.replay
      /\ f.regs = [Top.regs EXCEPT !.snip =
           [Top.regs.snip EXCEPT !.addr = IF ok THEN @ + 1 ELSE @]]
      /\ f \in [vec: Vectors, regs: {f.regs}, replay: BOOLEAN, done: BOOLEAN]
  BY <1>4, <1>5 DEF Handled, Frame, Exception, PipeReg
<1>7. /\ f.regs \in Exception /\ f.regs.sxip = Top.regs.sxip
      /\ f.regs.epsr = Top.regs.epsr /\ f.regs.snip.v = Top.regs.snip.v
      /\ f.regs.snip.addr = IF ok THEN Top.regs.snip.addr + 1 ELSE Top.regs.snip.addr
  BY <1>5, <1>6 DEF Exception, PipeReg
<1>8. f \in Frame
  BY <1>6, <1>7 DEF Frame
<1>9. FrameSaved(f, Len(frames))
  <2>1. CASE Len(frames) = 1
    <3>1. SavedUser(Top.vec, Top.regs, 1)
      BY <1>2, <1>4, <2>1 DEF FrameSaved
    <3>2. CASE ok
      <4>1. f.vec = Syscall /\ Syscall \in Traps
        BY <1>1, <1>6, <3>2 DEF Traps
      <4>2. Top.regs.sxip.addr \in UserPC /\ Code[Top.regs.sxip.addr].op = "trap"
            /\ Top.regs.snip.addr = Top.regs.sxip.addr + 1
        BY <1>6, <3>1, <4>1 DEF SavedUser
      <4>3. f.regs.snip.addr = Top.regs.sxip.addr + 2 /\ f.regs.snip.addr \in UserPC
        <5>1. \A a \in UserPC : a \in Nat /\ a + 1 + 1 = a + 2
          BY AddressSpaces
        <5>2. f.regs.snip.addr = Top.regs.snip.addr + 1
          BY <1>7, <3>2
        <5>3. f.regs.snip.addr = Top.regs.sxip.addr + 2
          BY <4>2, <5>1, <5>2
        <5>4. Top.regs.sxip.addr + 2 \in UserPC
          BY <4>2
        <5> QED BY <5>3, <5>4
      <4>4. SavedUser(f.vec, f.regs, 2)
        BY <1>6, <1>7, <3>1, <4>1, <4>2, <4>3 DEF SavedUser
      <4> QED BY <1>6, <2>1, <4>1, <4>4 DEF FrameSaved
    <3>3. CASE ~ok
      <4>1. SavedUser(f.vec, f.regs, 1)
        BY <1>6, <1>7, <3>1, <3>3 DEF SavedUser
      <4> QED BY <2>1, <4>1 DEF FrameSaved
    <3> QED BY <3>2, <3>3
  <2>2. CASE Len(frames) # 1
    <3>1. SavedNested(Top.vec, Top.regs)
      BY <1>4, <2>2 DEF FrameSaved
    <3>2. ~ok
      BY <1>1, <3>1 DEF SavedNested, Syscall, Interrupt, DataAccess
    <3>3. SavedNested(f.vec, f.regs)
      BY <1>6, <1>7, <3>1, <3>2 DEF SavedNested
    <3> QED BY <2>2, <3>3 DEF FrameSaved
  <2> QED BY <2>1, <2>2
<1>10. /\ frames' \in Seq(Frame) /\ frames' # <<>>
       /\ \A i \in 1 .. Len(frames') : FrameSaved(frames'[i], i)
  BY <1>1, <1>3, <1>8, <1>9, ReplaceTop
<1>11. resident' \subseteq Pages
  <2>1. CASE Top.vec = CodeAccess
    <3>1. Top.regs.sxip.addr \in UserPC
      BY <1>4, <2>1 DEF FrameSaved, SavedUser, SavedNested, CodeAccess, Interrupt, DataAccess
    <3> QED BY <1>2, <3>1 DEF TypeOK
  <2> QED BY <1>2, <2>1 DEF TypeOK
<1>12. TypeOK'
  BY <1>2, <1>10, <1>11 DEF TypeOK
<1>13. Stacked'
  BY <1>2, <1>3, <1>10, AddressSpaces DEF Stacked
<1> QED BY <1>12, <1>13

LEMMA KExitInvariant ==
  ASSUME TypeOK, Stacked, KExit
  PROVE  TypeOK' /\ Stacked'
<1>1. /\ pc = KBody /\ pc' = KExitRte /\ psr.sup /\ psr' = InException
      /\ cr' = [Top.regs EXCEPT !.dmt = cr.dmt, !.dma = cr.dma]
      /\ frames' = SubSeq(frames, 1, Len(frames) - 1) /\ ~ufault.pending
      /\ UNCHANGED <<has_pending, pending, ufault, resident, stores>>
  BY DEF KExit, AtBody
<1>2. frames # <<>> /\ ~has_pending
  BY <1>1 DEF Stacked
<1>3. /\ Top \in Frame /\ Len(frames) \in Nat /\ Len(frames) >= 1
      /\ Top = frames[Len(frames)] /\ FrameSaved(Top, Len(frames))
  BY <1>2, TopIsFrame DEF Top, Stacked, TypeOK
<1>4. /\ cr' \in Exception /\ cr'.sxip = Top.regs.sxip
      /\ cr'.snip = Top.regs.snip /\ cr'.epsr = Top.regs.epsr
  BY <1>1, <1>3 DEF TypeOK, Frame, Exception
<1>5. /\ frames' \in Seq(Frame) /\ Len(frames') = Len(frames) - 1
      /\ \A i \in 1 .. Len(frames) - 1 : frames'[i] = frames[i]
  <2>1. \A i \in 1 .. Len(frames) - 1 : frames[i] \in Frame
    BY <1>3, ElementOfSeq DEF TypeOK
  <2> DEFINE n == Len(frames) - 1
  <2>2. n \in Nat
    BY <1>3
  <2>3. /\ SubSeq(frames, 1, n) \in Seq(Frame)
        /\ Len(SubSeq(frames, 1, n)) = IF 1 <= n THEN n - 1 + 1 ELSE 0
        /\ \A i \in 1 .. n - 1 + 1 : SubSeq(frames, 1, n)[i] = frames[1 + i - 1]
    <3> HIDE DEF n
    <3> QED BY <2>1, <2>2, SubSeqProperties DEF n
  <2>4. frames' = SubSeq(frames, 1, n)
    BY <1>1
  <2>5. /\ frames' \in Seq(Frame) /\ Len(frames') = n
        /\ \A i \in 1 .. n : frames'[i] = frames[i]
    <3> HIDE DEF n
    <3>1. n - 1 + 1 = n /\ \A i \in 1 .. n : 1 + i - 1 = i
      BY <2>2
    <3> QED BY <2>2, <2>3, <2>4, <3>1
  <2> QED BY <2>5
<1>6. frames' = <<>> <=> Len(frames) = 1
  BY <1>3, <1>5, EmptySeq
<1>7. \A i \in 1 .. Len(frames') : FrameSaved(frames'[i], i)
  BY <1>3, <1>5 DEF Stacked
<1>8. TypeOK'
  BY <1>1, <1>4, <1>5, EntryTypes, AddressSpaces DEF TypeOK
<1>9. /\ ~cr'.sxip.v /\ cr'.snip.v
      /\ frames' = <<>> => ~cr'.epsr.sup /\ ~cr'.epsr.ind /\ cr'.snip.addr \in UserPC
      /\ frames' # <<>> => cr'.epsr.sup /\ cr'.snip.addr = KBody
  BY <1>3, <1>4, <1>6 DEF FrameSaved, SavedUser, SavedNested
<1>10. Stacked'
  BY <1>1, <1>2, <1>7, <1>9, AddressSpaces DEF Stacked, InException
<1> QED BY <1>8, <1>10

LEMMA KernelInvariant ==
  ASSUME TypeOK, Stacked, Kernel
  PROVE  TypeOK' /\ Stacked'
<1>1. CASE SkipReplay
  <2>1. /\ pc = KReplay /\ pc' = KBody /\ psr.sup
        /\ UNCHANGED <<has_pending, pending, psr, cr, ufault, frames, resident, stores>>
    BY <1>1 DEF SkipReplay
  <2> QED BY <2>1, AddressSpaces DEF TypeOK, Stacked
<1>2. CASE KCopyFault
  <2>1. PICK p \in Pages : RecordFault(FALSE, p)
    BY <1>2 DEF KCopyFault
  <2>2. /\ pc = KBody /\ psr.sup
        /\ ufault' = [pending |-> TRUE, code |-> FALSE, page |-> p]
        /\ UNCHANGED <<pc, has_pending, pending, psr, cr, frames, resident, stores>>
    BY <1>2, <2>1 DEF KCopyFault, AtBody, RecordFault
  <2>3. ufault' \in Fault /\ ~ufault'.code
    BY <2>2 DEF Fault
  <2> QED BY <2>2, <2>3, AddressSpaces DEF TypeOK, Stacked
<1>3. CASE KPageOut
  BY <1>3, AddressSpaces DEF KPageOut, AtBody, TypeOK, Stacked
<1> QED
  BY <1>1, <1>2, <1>3, KSaveInvariant, KResolveInvariant, KHandleInvariant,
     KExitInvariant DEF Kernel

(* The machine is always in one of the states the exception protocol       *)
(* allows: outside the handlers' bodies interrupts are off, a delay slot   *)
(* is pending only in user mode, and every open exception has saved a      *)
(* place to resume, the outermost in the user's text.                      *)
THEOREM ExceptionsStack == Spec => [](TypeOK /\ Stacked)
<1>1. TypeOK /\ Stacked /\ [Next]_vars => TypeOK' /\ Stacked'
  <2>1. ASSUME TypeOK, Stacked, UNCHANGED vars PROVE TypeOK' /\ Stacked'
    BY <2>1 DEF vars, TypeOK, Stacked
  <2> QED
    BY <2>1, RaiseFaultInvariant, TakeInterruptInvariant, ExecuteInvariant,
       RteInvariant, KernelInvariant DEF Next
<1> QED BY <1>1, InitInvariant, PTL DEF Spec

(* The rte of saveregs always reaches the handler, and the rte that ends   *)
(* an exception always goes back to the code it stopped.                   *)
THEOREM ReturnsWhereItStopped == Spec => []ReturnPath
<1>1. TypeOK /\ Stacked => ReturnPath
  BY AddressSpaces DEF Stacked, ReturnPath, RteTarget
<1> QED BY <1>1, ExceptionsStack, PTL

(* Only the three ways into the kernel lead to a vector.                   *)
LEMMA EntersAtVector ==
  ASSUME TypeOK, Stacked, Next, NEW v \in Vectors, pc' = Vector(v)
  PROVE  RaiseFault \/ TakeInterrupt \/ ExecTrap
<1>1. Execute => ExecTrap
  <2> SUFFICES ASSUME Execute, ~ExecTrap PROVE FALSE
    OBVIOUS
  <2>1. psr' = psr /\ ~psr.sup
    BY DEF Execute, FetchFault, ExecPlain, ExecBranch, ExecMemory, MemoryFault,
       ServeSyscall, ServeSyscallFault, Fetched, RecordFault
  <2>2. Stacked'
    BY ExecuteInvariant
  <2> QED BY <2>1, <2>2, AddressSpaces DEF Stacked
<1>2. ~Rte
  <2> SUFFICES ASSUME Rte PROVE FALSE
    OBVIOUS
  <2>1. pc' \in UserPC \cup {KBody}
    BY AddressSpaces DEF Rte, Stacked, RteTarget
  <2> QED BY <2>1, AddressSpaces
<1>3. ~Kernel
  BY AddressSpaces DEF Kernel, KSave, KResolve, SkipReplay, KHandle, KCopyFault,
     KPageOut, KExit, AtBody, RecordFault
<1> QED BY <1>1, <1>2, <1>3 DEF Next

(* The data access the kernel finds outstanding on entry is the one that   *)
(* faulted, or none.                                                       *)
THEOREM AccessIsTheFaultingOne == Spec => []AccessDescribed
<1>1. Init => AccessDescribed
  <2> SUFFICES ASSUME Init PROVE AccessDescribed
    OBVIOUS
  <2>1. pc \in UserPC
    BY DEF Init, UserPC
  <2>2. Interrupt \in Vectors /\ CodeAccess \in Vectors /\ DataAccess \in Vectors
    BY DEF Vectors
  <2> QED BY <2>1, <2>2, AddressSpaces DEF AccessDescribed
<1>2. ASSUME TypeOK, Stacked, AccessDescribed, [Next]_vars PROVE AccessDescribed'
  <2>1. CASE UNCHANGED vars
    BY <1>2, <2>1 DEF vars, AccessDescribed
  <2> DEFINE es == {Interrupt, CodeAccess, DataAccess}
  <2>2. es \subseteq Vectors /\ Syscall \in Vectors /\ Divide \in Vectors
        /\ Interrupt # CodeAccess /\ Interrupt # DataAccess /\ CodeAccess # DataAccess
        /\ Syscall \notin es /\ Divide \notin es
    BY DEF Vectors, Interrupt, CodeAccess, DataAccess, Syscall, Divide
  <2>3. CASE RaiseFault
    <3> DEFINE v == IF ufault.code THEN CodeAccess ELSE DataAccess
    <3>1. pc' = Vector(v) /\ v \in Vectors
      BY <2>2, <2>3 DEF RaiseFault, DeliverFault
    <3>2. /\ cr'.epsr = psr /\ cr'.sxip.addr = pc /\ cr'.snip.addr = pc
          /\ cr'.dmt = (v = DataAccess)
          /\ v = DataAccess => cr'.dma = ufault.page
      BY <2>3 DEF RaiseFault, DeliverFault
    <3>3. ufault.code => ~psr.sup
      BY <1>2, <2>3 DEF RaiseFault, Stacked
    <3>4. ~ufault.code /\ ~psr.sup => ufault.page = Code[pc].page
      BY <1>2, <2>3 DEF RaiseFault, Stacked
    <3> QED
      BY <1>2, <2>2, <3>1, <3>2, <3>3, <3>4, AddressSpaces DEF AccessDescribed
  <2>4. CASE TakeInterrupt
    <3>1. pc' = Vector(Interrupt) /\ ~cr'.dmt
      BY <1>2, <2>4 DEF TakeInterrupt, DeliverException, TypeOK, Exception
    <3> QED BY <2>2, <3>1, AddressSpaces DEF AccessDescribed
  <2>5. CASE ExecTrap
    <3>1. pc' = Vector(Syscall) \/ pc' = Vector(Divide)
      BY <2>5 DEF ExecTrap, DeliverTrap
    <3> QED BY <2>2, <3>1, AddressSpaces DEF AccessDescribed
  <2>6. CASE Next /\ ~RaiseFault /\ ~TakeInterrupt /\ ~ExecTrap
    <3>1. \A v \in Vectors : pc' # Vector(v)
      BY <1>2, <2>6, EntersAtVector
    <3> QED BY <2>2, <3>1 DEF AccessDescribed
  <2> QED BY <1>2, <2>1, <2>3, <2>4, <2>5, <2>6
<1> QED BY <1>1, <1>2, ExceptionsStack, PTL DEF Spec

(* The types alone: addresses, modes, registers and frames are never       *)
(* anything the hardware does not have (cpu.c:825-956).                    *)
THEOREM TypesHold == Spec => []TypeOK
<1> QED BY ExceptionsStack, PTL

(***************************************************************************)
(* What the program sees of all this.  A delay slot holds an instruction   *)
(* that cannot fault: no branch or trap, and pages the kernel never takes  *)
(* away.  (A fault there loses the branch.)                                *)
(***************************************************************************)
Delays(b) == Code[b].op \in {"br", "bcnd"} /\ Code[b].delayed

SlotsWired ==
  \A b \in UserPC : Delays(b) =>
    /\ Code[b + 1].op \in {"alu", "mem"}
    /\ TextPage[b + 1] \in Wired
    /\ Code[b + 1].op = "mem" => Code[b + 1].page \in Wired

(* A pending branch means the slot of a delayed one is next.               *)
InSlot ==
  /\ Wired \subseteq resident
  /\ has_pending => /\ ~ufault.pending /\ ~psr.sup
                    /\ \E b \in UserPC : Delays(b) /\ pc = b + 1

LEMMA SlotExecutes ==
  ASSUME SlotsWired, InSlot, has_pending
  PROVE  /\ Code[pc].op \in {"alu", "mem"} /\ TextPage[pc] \in resident
         /\ Code[pc].op = "mem" => Code[pc].page \in resident
  BY DEF SlotsWired, InSlot

LEMMA InSlotExecute ==
  ASSUME SlotsWired, InSlot, TypeOK, Stacked, Execute
  PROVE  InSlot'
<1>1. pc \in UserPC /\ ~psr.sup /\ ~ufault.pending
  BY DEF Stacked, Execute, FetchFault, ExecPlain, ExecBranch, ExecMemory, MemoryFault,
         ExecTrap, ServeSyscall, ServeSyscallFault, Fetched
<1>2. resident' = resident
  BY DEF Execute, FetchFault, ExecPlain, ExecBranch, ExecMemory, MemoryFault,
         ExecTrap, ServeSyscall, ServeSyscallFault, RecordFault
<1>3. CASE FetchFault \/ MemoryFault \/ ServeSyscallFault
  <2>1. ~has_pending /\ has_pending' = has_pending
    BY <1>3, SlotExecutes DEF FetchFault, MemoryFault, ServeSyscallFault, Fetched,
       RecordFault
  <2> QED
    BY <1>2, <2>1 DEF InSlot
<1>4. CASE ExecTrap
  BY <1>2, <1>4 DEF ExecTrap, DeliverTrap, InSlot
<1>5. CASE ServeSyscall
  <2>1. ~has_pending /\ has_pending' = has_pending
    BY <1>5, SlotExecutes DEF ServeSyscall, Fetched
  <2> QED
    BY <1>2, <2>1 DEF InSlot
<1>6. CASE ExecPlain \/ ExecMemory
  <2>1. has_pending' = FALSE
    BY <1>6 DEF ExecPlain, ExecMemory, Sequence
  <2> QED
    BY <1>2, <2>1 DEF InSlot
<1>7. CASE ExecBranch
  <2>1. /\ has_pending' = (~has_pending /\ Code[pc].delayed)
        /\ UNCHANGED <<psr, ufault>> /\ Code[pc].op \in {"br", "bcnd"}
        /\ ~has_pending /\ Code[pc].delayed => pc' = pc + 1
    BY <1>7 DEF ExecBranch, Sequence, Fetched
  <2>2. has_pending' => Delays(pc) /\ pc' = pc + 1
    BY <2>1 DEF Delays
  <2> QED
    BY <1>1, <1>2, <2>1, <2>2 DEF InSlot
<1> QED
  BY <1>3, <1>4, <1>5, <1>6, <1>7 DEF Execute

LEMMA InSlotKept ==
  ASSUME SlotsWired, InSlot, TypeOK, Stacked, [Next]_vars
  PROVE  InSlot'
<1>1. CASE RaiseFault
  BY <1>1 DEF RaiseFault, DeliverFault, InSlot
<1>2. CASE TakeInterrupt
  BY <1>2 DEF TakeInterrupt, DeliverException, InSlot
<1>3. CASE Rte
  <2>1. ~has_pending /\ UNCHANGED <<has_pending, resident>>
    BY <1>3 DEF Rte, InSlot
  <2> QED
    BY <2>1 DEF InSlot
<1>4. CASE Kernel
  <2>1. ~has_pending /\ has_pending' = has_pending
    BY <1>4 DEF Kernel, KSave, KResolve, SkipReplay, KHandle, KCopyFault, KPageOut,
                KExit, AtBody, RecordFault, InSlot
  <2>2. Wired \subseteq resident'
    BY <1>4 DEF Kernel, KSave, KResolve, SkipReplay, KHandle, KCopyFault, KPageOut,
                KExit, RecordFault, InSlot
  <2> QED
    BY <2>1, <2>2 DEF InSlot
<1>5. CASE UNCHANGED vars
  BY <1>5 DEF vars, InSlot
<1> QED
  BY <1>1, <1>2, <1>3, <1>4, <1>5, InSlotExecute DEF Next

LEMMA ServingType == ServingTrap \in BOOLEAN /\ ServingTrap' \in BOOLEAN
  BY DEF ServingTrap

(* With an exception of the program open before and after, the program     *)
(* sees what the outermost frame holds.                                    *)
LEMMA StillStopped ==
  ASSUME psr.sup, psr'.sup, frames # <<>>, frames' # <<>>,
         frames'[1].vec = frames[1].vec,
         frames'[1].regs.sxip = frames[1].regs.sxip,
         frames[1].vec \notin Traps => frames'[1].regs.snip = frames[1].regs.snip,
         UNCHANGED <<has_pending, pending, stores>>
  PROVE  UNCHANGED Program!uvars
<1>1. Outer = frames[1].regs /\ Outer' = frames'[1].regs
  BY DEF Outer
<1>2. (ServingTrap <=> frames[1].vec \in Traps) /\ (ServingTrap' <=> ServingTrap)
  BY DEF ServingTrap
<1>3. UserPc' = UserPc
  BY <1>1, <1>2 DEF UserPc
<1> QED
  BY <1>2, <1>3, ServingType DEF UserNextPc, Program!uvars

(* While the program runs, its counters are the machine's.                 *)
LEMMA Running ==
  ASSUME ~psr.sup
  PROVE  UserPc = pc /\ ~ServingTrap
         /\ UserNextPc = IF has_pending THEN pending ELSE pc + 1
  BY DEF UserPc, ServingTrap, UserNextPc

(* An exception other than a trap resumes the instruction it stopped.      *)
LEMMA StopsProgram ==
  ASSUME TypeOK, Stacked, NEW v \in Vectors \ Traps, psr' = InException,
         pc' = Vector(v), cr'.snip.addr = pc, ~has_pending, has_pending' = FALSE,
         UNCHANGED <<frames, stores>>, pc \in UserPC \cup {KBody}
  PROVE  UNCHANGED Program!uvars
<1>1. psr'.sup
  BY DEF InException
<1>2. CASE ~psr.sup
  <2>1. frames = <<>> /\ frames' = <<>>
    BY <1>2 DEF Stacked
  <2>2. ~ServingTrap'
    <3>1. \A w \in Traps : w \in Vectors /\ w # v
      BY DEF Traps, Vectors
    <3>2. \A w \in Traps : pc' # Vector(w)
      BY <3>1, AddressSpaces
    <3> QED
      BY <2>1, <3>2 DEF ServingTrap
  <2>3. UserPc' = pc
    BY <1>1, <2>1, <2>2 DEF UserPc, Outer
  <2> QED
    BY <1>2, <2>2, <2>3, Running, ServingType DEF UserNextPc, Program!uvars
<1>3. CASE psr.sup
  <2>1. frames # <<>>
    BY <1>3, AddressSpaces DEF Stacked
  <2>2. UserPc' = UserPc /\ (ServingTrap' <=> ServingTrap)
    BY <1>1, <1>3, <2>1 DEF UserPc, Outer, ServingTrap
  <2> QED
    BY <2>2 DEF UserNextPc, Program!uvars
<1> QED
  BY <1>2, <1>3

LEMMA RaiseFaultHidden ==
  ASSUME InSlot, TypeOK, Stacked, RaiseFault
  PROVE  UNCHANGED Program!uvars
<1> DEFINE v == IF ufault.code THEN CodeAccess ELSE DataAccess
<1>1. v \in Vectors \ Traps
  BY DEF Vectors, Traps, CodeAccess, DataAccess, Divide, Syscall
<1>2. /\ psr' = InException /\ pc' = Vector(v) /\ cr'.snip.addr = pc
      /\ has_pending' = FALSE /\ UNCHANGED <<frames, stores>>
  BY DEF RaiseFault, DeliverFault
<1>3. ~has_pending /\ pc \in UserPC \cup {KBody}
  BY DEF RaiseFault, InSlot, Stacked
<1> HIDE DEF v
<1> QED
  BY <1>1, <1>2, <1>3, StopsProgram

LEMMA InterruptHidden ==
  ASSUME TypeOK, Stacked, TakeInterrupt
  PROVE  UNCHANGED Program!uvars
<1>1. Interrupt \in Vectors \ Traps
  BY DEF Vectors, Traps, Interrupt, Divide, Syscall
<1>2. /\ psr' = InException /\ pc' = Vector(Interrupt)
      /\ ~has_pending /\ has_pending' = FALSE /\ UNCHANGED <<frames, stores>>
  BY DEF TakeInterrupt, DeliverException, TypeOK
<1>3. cr'.snip.addr = pc
  BY DEF TakeInterrupt, DeliverException, TypeOK, Exception
<1>4. pc \in UserPC \cup {KBody}
  BY DEF TakeInterrupt, Stacked
<1> QED
  BY <1>1, <1>2, <1>3, <1>4, StopsProgram

(* Each instruction is one of the machine's.                               *)
LEMMA ExecuteMaps ==
  ASSUME SlotsWired, InSlot, TypeOK, Stacked, Execute
  PROVE  [Program!UNext]_(Program!uvars)
<1>1. pc \in UserPC /\ ~psr.sup /\ frames = <<>>
  BY DEF Stacked, Execute, FetchFault, ExecPlain, ExecBranch, ExecMemory, MemoryFault,
         ExecTrap, ServeSyscall, ServeSyscallFault, Fetched
<1>2. /\ UserPc = pc /\ ~ServingTrap
      /\ UserNextPc = IF has_pending THEN pending ELSE pc + 1
  BY <1>1, Running
<1>3. CASE FetchFault \/ MemoryFault \/ ServeSyscallFault
  <2>1. UNCHANGED <<pc, has_pending, pending, psr, cr, frames, stores>>
    BY <1>3 DEF FetchFault, MemoryFault, ServeSyscallFault, RecordFault
  <2> QED
    BY <2>1 DEF UserPc, UserNextPc, ServingTrap, Outer, Program!uvars
<1>4. ASSUME ~psr'.sup
      PROVE  /\ UserPc' = pc' /\ ~ServingTrap'
             /\ UserNextPc' = IF has_pending' THEN pending' ELSE pc' + 1
  BY <1>4 DEF UserPc, ServingTrap, UserNextPc
<1>5. CASE ExecPlain \/ ExecMemory
  <2>1. Sequence(FALSE) /\ ~psr'.sup /\ Code[pc].op \in {"alu", "div", "bcnd", "mem"}
    BY <1>1, <1>5 DEF ExecPlain, ExecMemory, Fetched
  <2>2. UserPc' = UserNextPc /\ UserNextPc' = UserNextPc + 1
    BY <1>2, <1>4, <2>1 DEF Sequence
  <2>3. Program!Advance(UserNextPc + 1)
    BY <1>2, <1>4, <2>1, <2>2, ServingType DEF Program!Advance
  <2>4. CASE ExecPlain
    <3>1. Program!Plain
      BY <1>2, <2>3, <2>4 DEF ExecPlain, Fetched, Program!Plain
    <3> QED
      BY <3>1 DEF Program!UNext
  <2>5. CASE ExecMemory
    <3>1. Program!Access
      BY <1>2, <2>3, <2>5 DEF ExecMemory, Fetched, Program!Access
    <3> QED
      BY <3>1 DEF Program!UNext
  <2> QED
    BY <1>5, <2>4, <2>5
<1>6. CASE ExecBranch
  <2>1. /\ Sequence(TRUE) /\ ~psr'.sup /\ Code[pc].op \in {"br", "bcnd"}
        /\ UNCHANGED stores
    BY <1>1, <1>6 DEF ExecBranch, Fetched
  <2>2. ~has_pending
    BY <2>1, SlotExecutes
  <2>3. CASE Code[pc].delayed
    <3>1. UserPc' = UserNextPc /\ UserNextPc' = Code[pc].target
      BY <1>2, <1>4, <2>1, <2>2, <2>3 DEF Sequence
    <3>2. Program!Advance(Code[pc].target)
      BY <1>2, <1>4, <2>1, <3>1, ServingType DEF Program!Advance
    <3>3. Program!Jump
      BY <1>2, <2>1, <2>3, <3>2 DEF Program!Jump
    <3> QED
      BY <3>3 DEF Program!UNext
  <2>4. CASE ~Code[pc].delayed
    <3>1. UserPc' = Code[pc].target /\ UserNextPc' = Code[pc].target + 1
      BY <1>4, <2>1, <2>2, <2>4 DEF Sequence
    <3>2. Program!Jump
      BY <1>2, <1>4, <2>1, <2>4, <3>1, ServingType DEF Program!Jump
    <3> QED
      BY <3>2 DEF Program!UNext
  <2> QED
    BY <2>3, <2>4
<1>7. CASE ExecTrap
  <2> DEFINE v == IF Code[pc].op = "trap" THEN Syscall ELSE Divide
  <2>1. /\ v \in Traps /\ pc' = Vector(v) /\ psr'.sup /\ has_pending' = FALSE
        /\ UNCHANGED <<frames, stores>> /\ Code[pc].op \in {"trap", "div"}
    BY <1>7 DEF ExecTrap, DeliverTrap, InException, Fetched, Traps
  <2>2. cr'.sxip.addr = pc
    BY <1>7 DEF ExecTrap, DeliverTrap, TypeOK, Exception
  <2>3. ServingTrap'
    BY <1>1, <2>1 DEF ServingTrap
  <2>4. UserPc' = pc
    BY <1>1, <2>1, <2>2, <2>3 DEF UserPc, Outer
  <2>5. ~has_pending
    BY <2>1, SlotExecutes
  <2>6. UserNextPc' = UserNextPc
    BY <1>2, <2>1, <2>4, <2>5 DEF UserNextPc
  <2>7. Program!Suspend
    BY <1>2, <2>1, <2>3, <2>4, <2>6 DEF Program!Suspend
  <2> QED
    BY <2>7 DEF Program!UNext
<1>8. CASE ServeSyscall
  <2>1. /\ Code[pc].op = "trap" /\ pc' = pc + 2 /\ ~psr'.sup
        /\ UNCHANGED <<has_pending, stores>>
    BY <1>1, <1>8 DEF ServeSyscall, Fetched
  <2>2. ~has_pending'
    BY <2>1, SlotExecutes
  <2>3. UserPc' = UserPc + 2 /\ UserNextPc' = UserPc + 2 + 1 /\ ~ServingTrap'
    BY <1>2, <1>4, <2>1, <2>2
  <2>4. Program!Resume(2)
    BY <2>1, <2>3 DEF Program!Resume
  <2>5. Program!Served
    BY <1>2, <2>1, <2>4 DEF Program!Served
  <2> QED
    BY <2>5 DEF Program!UNext
<1> QED
  BY <1>3, <1>5, <1>6, <1>7, <1>8 DEF Execute

(* The rte that ends an exception of the program resumes it where the      *)
(* restored registers say.                                                 *)
LEMMA RteHidden ==
  ASSUME InSlot, TypeOK, Stacked, Rte
  PROVE  UNCHANGED Program!uvars
<1>1. /\ psr' = cr.epsr /\ pc' = RteTarget /\ psr.sup
      /\ UNCHANGED <<has_pending, pending, cr, frames, stores>>
      /\ ~has_pending
  BY DEF Rte, Stacked
<1>2. CASE frames # <<>>
  <2>1. psr'.sup
    BY <1>1, <1>2 DEF Rte, Stacked
  <2> QED
    BY <1>1, <1>2, <2>1, StillStopped
<1>3. CASE frames = <<>>
  <2>1. pc = KExitRte /\ ~psr'.sup /\ pc' = cr.snip.addr
    BY <1>1, <1>3 DEF Rte, Stacked, RteTarget
  <2>2. ~ServingTrap
    <3>1. \A w \in Traps : pc # Vector(w)
      BY <2>1, AddressSpaces DEF Traps, Vectors
    <3> QED
      BY <1>3, <3>1 DEF ServingTrap
  <2>3. UserPc = cr.snip.addr
    BY <1>1, <1>3, <2>2 DEF UserPc, Outer
  <2>4. UserPc' = pc' /\ ~ServingTrap'
    BY <2>1 DEF UserPc, ServingTrap
  <2> QED
    BY <1>1, <2>1, <2>2, <2>3, <2>4, ServingType DEF UserNextPc, Program!uvars
<1> QED
  BY <1>2, <1>3

(* saveregs moves the stopped program from the registers to a frame.       *)
LEMMA SaveHidden ==
  ASSUME InSlot, TypeOK, Stacked, KSave
  PROVE  UNCHANGED Program!uvars
<1>1. PICK v \in Vectors :
        /\ pc = Vector(v)
        /\ frames' = Append(frames, [vec |-> v, regs |-> cr,
                                     replay |-> FALSE, done |-> FALSE])
  BY DEF KSave
<1>2. /\ psr.sup /\ psr'.sup /\ UNCHANGED <<has_pending, pending, stores>>
      /\ ~has_pending
  BY DEF KSave, InSlot
<1> DEFINE f == [vec |-> v, regs |-> cr, replay |-> FALSE, done |-> FALSE]
<1>3. f \in Frame
  BY DEF TypeOK, Frame
<1>4. /\ frames' \in Seq(Frame) /\ Len(frames') = Len(frames) + 1
      /\ \A i \in 1 .. Len(frames) : frames'[i] = frames[i]
      /\ frames'[Len(frames) + 1] = f /\ Len(frames) \in Nat
  BY <1>1, <1>3, AppendProperties DEF TypeOK
<1>5. frames' # <<>>
  BY <1>4
<1>6. CASE frames = <<>>
  <2>1. frames'[1] = f
    BY <1>4, <1>6
  <2>2. Outer = cr /\ Outer' = cr
    BY <1>5, <1>6, <2>1 DEF Outer
  <2>3. ServingTrap <=> v \in Traps
    <3>1. Traps \subseteq Vectors
      BY DEF Traps, Vectors
    <3>2. pc \in {Vector(w) : w \in Traps} <=> v \in Traps
      BY <1>1, <3>1, AddressSpaces
    <3> QED
      BY <1>2, <1>6, <3>2 DEF ServingTrap
  <2>4. ServingTrap' <=> v \in Traps
    BY <1>2, <1>5, <2>1 DEF ServingTrap
  <2>5. UserPc' = UserPc
    BY <1>2, <2>2, <2>3, <2>4 DEF UserPc
  <2> QED
    BY <1>2, <2>3, <2>4, <2>5, ServingType DEF UserNextPc, Program!uvars
<1>7. CASE frames # <<>>
  <2>1. 1 \in 1 .. Len(frames)
    BY <1>7, EmptySeq DEF TypeOK
  <2>2. frames'[1] = frames[1]
    BY <1>4, <2>1
  <2> QED
    BY <1>2, <1>5, <1>7, <2>2, StillStopped
<1> QED
  BY <1>6, <1>7

(* Working on a frame leaves the place to resume alone, except that a      *)
(* served call may have it moved on.                                       *)
LEMMA TopHidden ==
  ASSUME TypeOK, Stacked, psr.sup, psr'.sup, frames # <<>>, NEW f,
         frames' = [frames EXCEPT ![Len(frames)] = f],
         f.vec = Top.vec, f.regs.sxip = Top.regs.sxip,
         Top.vec \notin Traps => f.regs.snip = Top.regs.snip,
         UNCHANGED <<has_pending, pending, stores>>
  PROVE  UNCHANGED Program!uvars
<1>1. Len(frames) \in 1 .. Len(frames) /\ 1 \in 1 .. Len(frames)
  BY TopIsFrame
<1>2. /\ DOMAIN frames' = DOMAIN frames /\ DOMAIN frames = 1 .. Len(frames)
      /\ frames'[1] = IF Len(frames) = 1 THEN f ELSE frames[1]
  BY <1>1 DEF TypeOK
<1>3. frames' # <<>>
  BY <1>1, <1>2
<1>4. Len(frames) = 1 => Top = frames[1]
  BY DEF Top
<1>5. /\ frames'[1].vec = frames[1].vec
      /\ frames'[1].regs.sxip = frames[1].regs.sxip
      /\ frames[1].vec \notin Traps => frames'[1].regs.snip = frames[1].regs.snip
  BY <1>2, <1>4
<1> QED
  BY <1>3, <1>5, StillStopped

LEMMA ResolveHidden ==
  ASSUME TypeOK, Stacked, KResolve
  PROVE  UNCHANGED Program!uvars
<1> DEFINE f == [Top EXCEPT !.replay = TRUE]
<1>1. /\ pc = KBody /\ psr.sup /\ psr'.sup
      /\ frames' = [frames EXCEPT ![Len(frames)] = f]
      /\ UNCHANGED <<has_pending, pending, stores>>
  BY DEF KResolve, AtBody
<1>2. frames # <<>>
  BY <1>1 DEF Stacked
<1>3. f.vec = Top.vec /\ f.regs = Top.regs
  BY <1>2, TopIsFrame DEF Frame
<1> HIDE DEF f
<1> QED
  BY <1>1, <1>2, <1>3, TopHidden

LEMMA HandleHidden ==
  ASSUME TypeOK, Stacked, KHandle
  PROVE  UNCHANGED Program!uvars
<1>1. PICK ok \in BOOLEAN :
        /\ ok => Top.vec = Syscall
        /\ frames' = [frames EXCEPT ![Len(frames)] = Handled(Top, ok)]
  BY DEF KHandle
<1>2. /\ pc = KBody /\ psr.sup /\ psr'.sup
      /\ UNCHANGED <<has_pending, pending, stores>>
  BY DEF KHandle, AtBody
<1>3. frames # <<>>
  BY <1>2 DEF Stacked
<1>4. Top \in Frame /\ Top.regs \in Exception /\ Top.regs.snip \in PipeReg
  BY <1>3, TopIsFrame DEF Frame, Exception
<1>5. /\ Handled(Top, ok).vec = Top.vec
      /\ Handled(Top, ok).regs = [Top.regs EXCEPT !.snip =
           [Top.regs.snip EXCEPT !.addr = IF ok THEN @ + 1 ELSE @]]
  BY <1>4 DEF Handled, Frame
<1>6. Handled(Top, ok).regs.sxip = Top.regs.sxip
  BY <1>4, <1>5 DEF Exception
<1>7. ASSUME ~ok
      PROVE  Handled(Top, ok).regs.snip = Top.regs.snip
  <2>1. Handled(Top, ok).regs.snip =
          [Top.regs.snip EXCEPT !.addr = Top.regs.snip.addr]
    BY <1>4, <1>5, <1>7 DEF Exception
  <2> QED
    BY <1>4, <2>1 DEF PipeReg
<1>8. Syscall \in Traps
  BY DEF Traps
<1> QED
  BY <1>1, <1>2, <1>3, <1>5, <1>6, <1>7, <1>8, TopHidden

(* The exit of an outermost trap returns to the program, one instruction   *)
(* further or two; that of any other exception is invisible.               *)
LEMMA ExitMaps ==
  ASSUME InSlot, TypeOK, Stacked, KExit
  PROVE  [Program!UNext]_(Program!uvars)
<1>1. /\ pc = KBody /\ pc' = KExitRte /\ psr.sup /\ psr'.sup /\ Top.done
      /\ frames' = SubSeq(frames, 1, Len(frames) - 1)
      /\ UNCHANGED <<has_pending, pending, stores>> /\ ~has_pending
  BY DEF KExit, AtBody, InException, InSlot
<1>2. frames # <<>>
  BY <1>1 DEF Stacked
<1>3. /\ Top \in Frame /\ Len(frames) \in Nat /\ Len(frames) >= 1
      /\ Top = frames[Len(frames)] /\ FrameSaved(Top, Len(frames))
  BY <1>2, TopIsFrame DEF Top, Stacked, TypeOK
<1>4. cr'.snip = Top.regs.snip
  BY <1>3 DEF KExit, TypeOK, Frame, Exception
<1>5. CASE Len(frames) = 1
  <2>1. frames' = <<>> /\ Top = frames[1]
    BY <1>1, <1>3, <1>5
  <2>2. ServingTrap <=> Top.vec \in Traps
    BY <1>1, <1>2, <2>1 DEF ServingTrap
  <2>3. ~ServingTrap'
    <3>1. \A w \in Traps : pc' # Vector(w)
      BY <1>1, AddressSpaces DEF Traps, Vectors
    <3> QED
      BY <2>1, <3>1 DEF ServingTrap
  <2>4. UserPc' = Top.regs.snip.addr /\ UserNextPc' = Top.regs.snip.addr + 1
    BY <1>1, <1>4, <2>1, <2>3 DEF UserPc, UserNextPc, Outer
  <2>5. SavedUser(Top.vec, Top.regs, 1)
          \/ (SavedUser(Top.vec, Top.regs, 2) /\ Top.vec = Syscall)
    BY <1>3, <1>5 DEF FrameSaved
  <2>6. CASE Top.vec \notin Traps
    <3>1. UserPc = Top.regs.snip.addr /\ UserNextPc = Top.regs.snip.addr + 1
      BY <1>1, <1>2, <2>1, <2>2, <2>6 DEF UserPc, UserNextPc, Outer
    <3> QED
      BY <1>1, <2>2, <2>3, <2>4, <2>6, <3>1, ServingType DEF Program!uvars
  <2>7. CASE Top.vec \in Traps
    <3>1. UserPc = Top.regs.sxip.addr /\ ServingTrap
      BY <1>1, <1>2, <2>1, <2>2, <2>7 DEF UserPc, Outer
    <3>2. CASE SavedUser(Top.vec, Top.regs, 1)
      <4>1. Top.regs.snip.addr = UserPc + 1
        BY <2>7, <3>1, <3>2 DEF SavedUser
      <4>2. Program!Resume(1)
        BY <1>1, <2>3, <2>4, <4>1, ServingType DEF Program!Resume
      <4> QED
        BY <3>1, <4>2 DEF Program!Return, Program!UNext
    <3>3. CASE SavedUser(Top.vec, Top.regs, 2) /\ Top.vec = Syscall
      <4>1. Top.regs.snip.addr = UserPc + 2 /\ Code[UserPc].op = "trap"
        BY <2>7, <3>1, <3>3 DEF SavedUser
      <4>2. Program!Resume(2)
        BY <1>1, <2>3, <2>4, <4>1, ServingType DEF Program!Resume
      <4> QED
        BY <3>1, <4>1, <4>2 DEF Program!Return, Program!UNext
    <3> QED
      BY <2>5, <3>2, <3>3
  <2> QED
    BY <2>6, <2>7
<1>6. CASE Len(frames) # 1
  <2> DEFINE n == Len(frames) - 1
  <2>1. n \in Nat /\ n >= 1
    <3>1. ASSUME NEW m \in Nat, m >= 1, m # 1
          PROVE  m - 1 \in Nat /\ m - 1 >= 1
      BY <3>1
    <3> QED
      BY <1>3, <1>6, <3>1
  <2>2. frames' = SubSeq(frames, 1, n)
    BY <1>1
  <2>3. \A i \in 1 .. n : frames[i] \in Frame
    BY <1>3, ElementOfSeq DEF TypeOK
  <2> HIDE DEF n
  <2>4. frames'[1] = frames[1] /\ frames' # <<>>
    <3>1. Len(frames') = n /\ \A i \in 1 .. n : frames'[i] = frames[1 + i - 1]
      BY <2>1, <2>2, <2>3, SubSeqProperties
    <3> QED
      BY <2>1, <3>1
  <2> QED
    BY <1>1, <1>2, <2>4, StillStopped
<1> QED
  BY <1>5, <1>6

LEMMA KernelMaps ==
  ASSUME InSlot, TypeOK, Stacked, Kernel
  PROVE  [Program!UNext]_(Program!uvars)
<1>1. CASE SkipReplay \/ KCopyFault \/ KPageOut
  <2>1. /\ psr.sup /\ psr'.sup /\ pc \in {KReplay, KBody}
        /\ UNCHANGED <<has_pending, pending, frames, stores>>
    BY <1>1 DEF SkipReplay, KCopyFault, KPageOut, AtBody, RecordFault
  <2>2. frames # <<>>
    BY <2>1 DEF Stacked
  <2> QED
    BY <2>1, <2>2, StillStopped
<1> QED
  BY <1>1, SaveHidden, ResolveHidden, HandleHidden, ExitMaps DEF Kernel

(* "The instruction can simply be re-executed once the page is there"      *)
(* (devices.c:19), "nothing else in this step is observable" (cpu.c:1611): *)
(* interrupts, page faults, nested or not, and the kernel's handlers are   *)
(* invisible to every program whose delay slots cannot fault.              *)
THEOREM ExceptionsAreInvisible ==
  ASSUME SlotsWired
  PROVE  Spec => Transparent
<1>1. Init => InSlot /\ Program!UInit
  <2> SUFFICES ASSUME Init
               PROVE  InSlot /\ Program!UInit
    OBVIOUS
  <2>1. UserPc = 0 /\ UserNextPc = 1 /\ ~ServingTrap /\ stores = 0
    BY DEF Init, UserPc, UserNextPc, ServingTrap
  <2> QED
    BY <2>1, ServingType DEF Init, InSlot, Program!UInit
<1>2. TypeOK /\ Stacked /\ InSlot /\ [Next]_vars => InSlot'
  BY InSlotKept
<1>3. TypeOK /\ Stacked /\ InSlot /\ [Next]_vars => [Program!UNext]_(Program!uvars)
  <2> SUFFICES ASSUME TypeOK, Stacked, InSlot, [Next]_vars
               PROVE  [Program!UNext]_(Program!uvars)
    OBVIOUS
  <2>1. CASE UNCHANGED vars
    BY <2>1 DEF vars, UserPc, UserNextPc, ServingTrap, Outer, Program!uvars
  <2> QED
    BY <2>1, RaiseFaultHidden, InterruptHidden, ExecuteMaps, RteHidden, KernelMaps
       DEF Next
<1> QED
  BY <1>1, <1>2, <1>3, ExceptionsStack, PTL DEF Spec, Transparent, Program!USpec
=============================================================================
