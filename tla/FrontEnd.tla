------------------------------ MODULE FrontEnd ------------------------------
(***************************************************************************)
(* The two ways a message of the kernel leaves the machine: the diagnostic *)
(* ring, whose consumer on the real machine is the front end and here the  *)
(* load of the consumer index itself (memop, emu/devices.c); and the boot  *)
(* log, which the emulator assembles line by line from the characters it   *)
(* sees go through putchar, some to the console and some to the kernel's   *)
(* log only (emu/kmsg.c).  A character is "nl", "cr" or a letter.          *)
(***************************************************************************)
EXTENDS Integers, Sequences, SequencesExt

CONSTANTS
  RingSize,   \* bytes of the ring (128)
  KMSG_MAX,   \* characters of a line of the boot log, and one
  Letters,    \* the characters lines are made of
  MaxQueued,  \* bound: characters put into the ring
  MaxPrinted  \* bound: characters printed to each stream

ASSUME FrontEndAssumption ==
  /\ RingSize \in Nat \ {0, 1} /\ KMSG_MAX \in Nat \ {0, 1}
  /\ MaxQueued \in Nat /\ MaxPrinted \in Nat
  /\ Letters \cap {"nl", "cr"} = {}

VARIABLES
  cons, prod, ring,    \* the ring's indices and bytes
  draining,            \* a load of the consumer index is under way
  queued, drained,     \* how many characters went in; what came out
  kmsg,                \* the line being assembled from each stream
  out,                 \* the lines printed, the last one from the console,
                       \* the lines of the log left out
  booted,              \* the boot is complete
  printed              \* the characters of each stream

ringvars == <<cons, prod, ring, draining, queued, drained>>
logvars == <<kmsg, out, booted, printed>>
frontend == <<ringvars, logvars>>

Streams == {"console", "log"}

FrontEndTypeOK ==
  /\ cons \in 0 .. RingSize - 1 /\ prod \in 0 .. RingSize - 1
  /\ ring \in [0 .. RingSize - 1 -> 0 .. MaxQueued]
  /\ draining \in BOOLEAN
  /\ queued \in 0 .. MaxQueued /\ drained \in Seq(0 .. MaxQueued)
  /\ \A s \in Streams : Len(kmsg[s]) < KMSG_MAX
  /\ Len(out.last) < KMSG_MAX
  /\ booted \in BOOLEAN

FrontEndInit ==
  /\ cons = 0 /\ prod = 0 /\ ring = [i \in 0 .. RingSize - 1 |-> 0]
  /\ draining = FALSE /\ queued = 0 /\ drained = << >>
  /\ kmsg = [s \in Streams |-> << >>] /\ booted = FALSE
  /\ out = [lines |-> << >>, last |-> << >>, skipped |-> << >>]
  /\ printed = [s \in Streams |-> << >>]

(***************************************************************************)
(* The diagnostic ring                                                     *)
(***************************************************************************)

Full == cons = (prod + 1) % RingSize

(* The kernel stores the next character, unless the ring is full.          *)
KQueue ==
  /\ ~draining /\ queued < MaxQueued /\ ~Full
  /\ ring' = [ring EXCEPT ![prod] = queued + 1]
  /\ prod' = (prod + 1) % RingSize /\ queued' = queued + 1
  /\ UNCHANGED <<cons, draining, drained, logvars>>

(* It loads the consumer index: waiting for room, or for the front end to  *)
(* catch up.                                                               *)
LoadIndex ==
  /\ ~draining /\ cons # prod
  /\ draining' = TRUE
  /\ UNCHANGED <<cons, prod, ring, queued, drained, logvars>>

(* A turn of the loop in memop; the index it compares with is a byte.      *)
DrainByte ==
  /\ draining /\ cons # prod
  /\ drained' = Append(drained, ring[cons])
  /\ cons' = (cons + 1) % RingSize
  /\ UNCHANGED <<prod, ring, draining, queued, logvars>>

DrainEnd_mut ==
  /\ draining
  /\ draining' = FALSE
  /\ UNCHANGED <<cons, prod, ring, queued, drained, logvars>>

DrainEnd ==
  /\ draining /\ cons = prod
  /\ draining' = FALSE
  /\ UNCHANGED <<cons, prod, ring, queued, drained, logvars>>

RingNext == KQueue \/ LoadIndex \/ DrainByte \/ DrainEnd

(***************************************************************************)
(* The boot log                                                            *)
(***************************************************************************)

(* kmsg_line: a line of the log that the console just had is not printed   *)
(* again.                                                                  *)
Line(o, s, text) ==
  IF s = "log" /\ text = o.last
    THEN [o EXCEPT !.skipped = Append(@, text)]
    ELSE [o EXCEPT !.lines = Append(@, [stream |-> s, text |-> text]),
                   !.last = IF s = "console" THEN text ELSE @]

LineDone(o, s) == IF kmsg[s] = << >> THEN o ELSE Line(o, s, kmsg[s])

(* kmsg_putchar.  A full line goes out as it is, and the character starts  *)
(* the next one.                                                           *)
Putchar_mut(c, s) ==
  IF c = "nl" \/ Len(kmsg[s]) >= KMSG_MAX - 1
    THEN /\ out' = LineDone(out, s)
         /\ kmsg' = [kmsg EXCEPT ![s] = << >>]
    ELSE /\ kmsg' = IF c = "cr" THEN kmsg ELSE [kmsg EXCEPT ![s] = Append(@, c)]
         /\ UNCHANGED out

Putchar(c, s) ==
  IF c = "nl" \/ Len(kmsg[s]) >= KMSG_MAX - 1
    THEN /\ out' = LineDone(out, s)
         /\ kmsg' = [kmsg EXCEPT ![s] = IF c = "nl" THEN << >> ELSE <<c>>]
    ELSE /\ kmsg' = IF c = "cr" THEN kmsg ELSE [kmsg EXCEPT ![s] = Append(@, c)]
         /\ UNCHANGED out

(* The kernel prints a character.                                          *)
KPrint(c, s) ==
  /\ Len(printed[s]) < MaxPrinted
  /\ printed' = [printed EXCEPT ![s] = Append(@, c)]
  /\ Putchar(c, s)
  /\ UNCHANGED <<ringvars, booted>>

(* kmsg_flush, when the boot is complete: what has been assembled of the   *)
(* console's line and then of the log's.                                   *)
Flush ==
  /\ ~booted /\ booted' = TRUE
  /\ out' = LineDone(LineDone(out, "console"), "log")
  /\ kmsg' = [s \in Streams |-> << >>]
  /\ UNCHANGED <<ringvars, printed>>

LogNext ==
  \/ \E s \in Streams, c \in Letters \cup {"nl", "cr"} : KPrint(c, s)
  \/ Flush

(***************************************************************************)
(* Properties                                                              *)
(***************************************************************************)

RingInOrder ==
  drained \o [i \in 1 .. (prod - cons) % RingSize |->
                ring[(cons + i - 1) % RingSize]]
  = [i \in 1 .. queued |-> i]

(* The front end gets every character once and in order, across the ring's *)
(* wrap (devices.c:93-100); and "the consumer index has to keep up with    *)
(* the producer or _outputwakeup spins on `while (cons != prod)' forever"  *)
(* (devices.c:90-92).                                                      *)
RingDrains == []RingInOrder /\ ((cons # prod) ~> (cons = prod))

Texts(s) ==
  FlattenSeq([i \in DOMAIN out.lines |->
                IF out.lines[i].stream = s THEN out.lines[i].text ELSE << >>])

Visible(seq) ==
  FlattenSeq([i \in DOMAIN seq |-> IF seq[i] \in Letters THEN <<seq[i]>> ELSE << >>])

AllKept ==
  /\ Visible(Texts("console") \o kmsg["console"]) = Visible(printed["console"])
  /\ Len(Visible(Texts("log") \o FlattenSeq(out.skipped) \o kmsg["log"]))
       = Len(Visible(printed["log"]))

(* "console already had it" (kmsg.c:43): a line of the log is left out     *)
(* only when it is the last the console printed, and then never printed    *)
(* again right behind it.                                                  *)
Spoken ==
  LET lines == out.lines
  IN /\ \A t \in ToSet(out.skipped) :
          [stream |-> "console", text |-> t] \in ToSet(lines)
     /\ \A i \in 1 .. Len(lines) - 1 :
          lines[i].stream = "console" /\ lines[i + 1].stream = "log"
            => lines[i].text # lines[i + 1].text

(* Every letter printed to a stream is in its lines, in order: printed,    *)
(* skipped because the console had the line, or still being assembled, in  *)
(* a buffer it fits; a line too long for that is cut and not lost          *)
(* (kmsg.c:55-75), and a line of the log is skipped only as above.         *)
NothingLost == FrontEndTypeOK /\ AllKept /\ Spoken
=============================================================================
