---------------------------- MODULE Instructions ----------------------------
(***************************************************************************)
(* What the instructions of the MC88100 compute (step, do_cmp, cond_true,  *)
(* bitfield, emu/cpu.c; memop, emu/devices.c).  A word is the set of its   *)
(* bits that are one, so C's & | ^ ~ are set operations and only addition, *)
(* multiplication and division go through the number a word stands for.    *)
(* A program is a sequence of instructions without branches back; a branch *)
(* or a trap that is taken leaves it.  Sequencing, delay slots and faults  *)
(* are in Cpu88100.  A floating-point value is a number of quarters or a   *)
(* NaN, and has registers of its own: the packing of a double into two     *)
(* registers, and rounding to single, are left out.                        *)
(***************************************************************************)
EXTENDS Integers, Sequences, FiniteSetsExt

CONSTANTS
  W,         \* bits of a word (32)
  Programs,  \* the programs run
  Operands,  \* what registers 2 and 3 hold at first
  Floats,    \* what floating registers 2 and 3 hold at first
  NaN,       \* no number
  Now        \* the timer's counter, a word

ASSUME InstructionsAssumption == W \in Nat /\ W % 4 = 0 /\ W >= 12
ASSUME FloatsAssumption == Floats \subseteq Int \cup {NaN} /\ NaN \notin Int

(* The powers of two, and the number the n lowest bits of a set stand for. *)
Two[n \in Nat] == IF n = 0 THEN 1 ELSE 2 * Two[n - 1]
Sum[n \in Nat] ==
  [w \in SUBSET Nat |->
     IF n = 0 THEN 0 ELSE Sum[n - 1][w] + IF n - 1 \in w THEN Two[n - 1] ELSE 0]

Bits == 0 .. W - 1
Low == 0 .. (W \div 2) - 1    \* the bits of the lower half
High == Bits \ Low
B == W \div 4                 \* bits of a byte

Word == SUBSET Bits
Number == [w \in Word |-> Sum[W][w]]
Signed(w) == IF W - 1 \in w THEN Number[w] - Two[W] ELSE Number[w]
WordOf(n) == {i \in Bits : (n \div Two[i]) % 2 = 1}
Least == {W - 1}                \* the most negative number

ASSUME WordsAssumption == Operands \subseteq Word /\ Now \in Word

Shr(w, n) == {i - n : i \in {j \in w : j >= n}}
Shl(w, n) == {i + n : i \in w} \cap Bits
SignExtended(w, n) == IF n - 1 \in w THEN w \cup n .. W - 1 ELSE w

VARIABLES
  prog, at,   \* the program, and the instruction it has come to
  r, f,       \* the registers, general and floating
  mem,        \* eight bytes of memory
  status      \* "running", "taken" or "trap", "divide" by zero, or
              \* "stopped", the emulator itself having died

vars == <<prog, at, r, f, mem, status>>

TypeOK ==
  /\ at \in 1 .. Len(prog) + 1
  /\ r \in [0 .. 5 -> Word] /\ r[0] = {}
  /\ f \in [2 .. 4 -> Int \cup {NaN}]
  /\ mem \in [0 .. 7 -> SUBSET (0 .. B - 1)]
  /\ status \in {"running", "taken", "trap", "divide", "stopped"}

ReadsFloats == prog[1].op \in {"fcmp", "int", "nint", "trnc"}

Init ==
  /\ prog \in Programs /\ at = 1
  /\ \E a, b \in IF ReadsFloats THEN {{}} ELSE Operands :
       r = [n \in 0 .. 5 |-> CASE n = 2 -> a [] n = 3 -> b [] OTHER -> {}]
  /\ \E x, y \in IF ReadsFloats THEN Floats ELSE {0} :
       f = [n \in 2 .. 4 |-> CASE n = 2 -> x [] n = 3 -> y [] n = 4 -> 0]
  /\ mem = [k \in 0 .. 7 |-> {}]
  /\ status = "running"

ins == prog[at]

Runs(ops) == status = "running" /\ at <= Len(prog) /\ ins.op \in ops

Retire == at' = at + 1 /\ UNCHANGED <<prog, status>>
Leave(why) == status' = why /\ UNCHANGED <<prog, at, r, f, mem>>

Put(regs, n, w) == IF n = 0 THEN regs ELSE [regs EXCEPT ![n] = w]

(***************************************************************************)
(* The second operand: a register, its complement, or half a word for the  *)
(* lower or the upper half.  An `and` with a half leaves the other half.   *)
(***************************************************************************)
Second ==
  CASE ins.form = "reg"   -> r[ins.n]
    [] ins.form = "comp"  -> Bits \ r[ins.n]
    [] ins.form = "imm"   -> ins.h
    [] ins.form = "upper" -> Shl(ins.h, W \div 2)

Kept ==
  CASE ins.form = "imm" -> High [] ins.form = "upper" -> Low [] OTHER -> {}

LogicalResult(a, b) ==
  CASE ins.op = "and"  -> a \cap (b \cup Kept)
    [] ins.op = "mask" -> a \cap b
    [] ins.op = "or"   -> a \cup b
    [] ins.op = "xor"  -> (a \ b) \cup (b \ a)

Logical ==
  /\ Runs({"and", "mask", "or", "xor"})
  /\ r' = Put(r, ins.d, LogicalResult(r[ins.a], Second))
  /\ Retire /\ UNCHANGED <<f, mem>>

ArithmeticResult(a, b) ==
  WordOf(CASE ins.op = "add" -> a + b
           [] ins.op = "sub" -> a - b
           [] ins.op = "mul" -> a * b)

Arithmetic ==
  /\ Runs({"add", "sub", "mul"})
  /\ r' = Put(r, ins.d, ArithmeticResult(Number[r[ins.a]], Number[Second]))
  /\ Retire /\ UNCHANGED <<f, mem>>

(* Division truncates.  What C leaves undefined, the most negative number  *)
(* by -1, kills the emulator or gives the dividend back.                   *)
Quotient_mut(a, b) == a \div b
Quotient(a, b) ==
  LET abs(n) == IF n < 0 THEN -n ELSE n
  IN IF (a < 0) = (b < 0) THEN abs(a) \div abs(b) ELSE -(abs(a) \div abs(b))

Overflows == ins.op = "div" /\ r[ins.a] = Least /\ Second = Bits

Divide ==
  /\ Runs({"div", "divu"}) /\ Second # {} /\ ~Overflows
  /\ r' = Put(r, ins.d,
              WordOf(IF ins.op = "divu" THEN Number[r[ins.a]] \div Number[Second]
                                        ELSE Quotient(Signed(r[ins.a]), Signed(Second))))
  /\ Retire /\ UNCHANGED <<f, mem>>

DivideByZero ==
  Runs({"div", "divu"}) /\ Second = {} /\ Leave("divide")

DivideOverflow ==
  /\ Runs({"div", "divu"}) /\ Overflows
  /\ \/ Leave("stopped")
     \/ r' = Put(r, ins.d, Least) /\ Retire /\ UNCHANGED <<f, mem>>

(***************************************************************************)
(* Comparisons, branches and traps                                         *)
(***************************************************************************)

C_EQ == 2
C_NE == 3
C_GT == 4
C_LE == 5
C_LT == 6
C_GE == 7
C_HI == 8
C_LS == 9
C_LO == 10
C_HS == 11

do_cmp_mut(a, b) ==
  {1} \cup {IF a = b THEN C_EQ ELSE C_NE}
      \cup (IF Signed(a) > Signed(b) THEN {C_GT, C_GE} ELSE {C_LE, C_LT})
      \cup (IF Number[a] > Number[b] THEN {C_HI, C_HS} ELSE {C_LS, C_LO})
do_cmp(a, b) ==
  {1} \cup {IF a = b THEN C_EQ ELSE C_NE}
      \cup {IF Signed(a) > Signed(b) THEN C_GT ELSE C_LE}
      \cup {IF Signed(a) < Signed(b) THEN C_LT ELSE C_GE}
      \cup {IF Number[a] > Number[b] THEN C_HI ELSE C_LS}
      \cup {IF Number[a] < Number[b] THEN C_LO ELSE C_HS}

cond_true(m5, a) ==
  CASE m5 = 1  -> Signed(a) > 0
    [] m5 = 2  -> Signed(a) = 0
    [] m5 = 3  -> Signed(a) >= 0
    [] m5 = 12 -> Signed(a) < 0
    [] m5 = 13 -> Signed(a) # 0
    [] m5 = 14 -> Signed(a) <= 0
    [] OTHER   -> FALSE

Compare ==
  /\ Runs({"cmp"})
  /\ r' = Put(r, ins.d, do_cmp(r[ins.a], Second))
  /\ Retire /\ UNCHANGED <<f, mem>>

(* bb0, bb1 and bcnd, and the traps tb0, tb1 and tcnd.                     *)
Fires ==
  CASE ins.op \in {"bb0", "tb0"}   -> ins.bit \notin r[ins.a]
    [] ins.op \in {"bb1", "tb1"}   -> ins.bit \in r[ins.a]
    [] ins.op \in {"bcnd", "tcnd"} -> cond_true(ins.bit, r[ins.a])

Branch ==
  Runs({"bb0", "bb1", "bcnd"}) /\ Fires /\ Leave("taken")

Trap ==
  Runs({"tb0", "tb1", "tcnd"}) /\ Fires /\ Leave("trap")

FallThrough ==
  /\ Runs({"bb0", "bb1", "bcnd", "tb0", "tb1", "tcnd"}) /\ ~Fires
  /\ Retire /\ UNCHANGED <<r, f, mem>>

(***************************************************************************)
(* Bit fields: w bits from bit o up, where a width of zero stands for all. *)
(***************************************************************************)
bitfield_mut(a, w, o) ==
  LET m == IF w = 0 THEN Bits ELSE 0 .. w - 1
      v == Shr(a, o) \cap m
  IN CASE ins.op = "ext"  -> IF w # 0 THEN SignExtended(v, w) ELSE v
       [] ins.op = "extu" -> v
       [] ins.op = "mak"  -> Shl(a, o)
       [] ins.op = "clr"  -> a \ Shl(m, o)
       [] ins.op = "set"  -> a \cup Shl(m, o)
       [] ins.op = "rot"  -> Shr(a, o) \cup Shl(a, W - o)
bitfield(a, w, o) ==
  LET m == IF w = 0 THEN Bits ELSE 0 .. w - 1
      v == Shr(a, o) \cap m
  IN CASE ins.op = "ext"  -> IF w # 0 THEN SignExtended(v, w) ELSE v
       [] ins.op = "extu" -> v
       [] ins.op = "mak"  -> Shl(a \cap m, o)
       [] ins.op = "clr"  -> a \ Shl(m, o)
       [] ins.op = "set"  -> a \cup Shl(m, o)
       [] ins.op = "rot"  -> Shr(a, o) \cup Shl(a, W - o)

BitField ==
  /\ Runs({"ext", "extu", "mak", "clr", "set", "rot"})
  /\ r' = Put(r, ins.d, bitfield(r[ins.a], ins.w, ins.o))
  /\ Retire /\ UNCHANGED <<f, mem>>

(* The number of the highest bit that is one (ff1) or zero (ff0).          *)
Highest(bits) == WordOf(IF bits = {} THEN W ELSE Max(bits))

FindBit ==
  /\ Runs({"ff1", "ff0"})
  /\ r' = Put(r, ins.d, Highest(IF ins.op = "ff1" THEN r[ins.a] ELSE Bits \ r[ins.a]))
  /\ Retire /\ UNCHANGED <<f, mem>>

(***************************************************************************)
(* Loads and stores: bytes, big-endian, of which n make up the operand.    *)
(* The timer's counter, at address 8, answers loads of a part of it.       *)
(***************************************************************************)
TIMER_ADDR == 8

ByteOf_mut(w, n, k) == Shr(w, B * k) \cap (0 .. B - 1)
ByteOf(w, n, k) == Shr(w, B * (n - 1 - k)) \cap (0 .. B - 1)

Stored(w, n, ea) ==
  [k \in 0 .. 7 |-> IF k \in ea .. ea + n - 1 THEN ByteOf(w, n, k - ea) ELSE mem[k]]

Fetched(n, ea) == UNION {Shl(mem[ea + k], B * (n - 1 - k)) : k \in 0 .. n - 1}

PartOfTimer(n, off) ==
  CASE n = 4 -> Now
    [] n = 2 -> Shr(Now, IF off < 2 THEN 2 * B ELSE 0) \cap (0 .. 2 * B - 1)
    [] n = 1 -> Shr(Now, 3 * B - off * B) \cap (0 .. B - 1)

Loaded(n, ea) == IF ea >= TIMER_ADDR THEN PartOfTimer(n, ea - TIMER_ADDR) ELSE Fetched(n, ea)

Load ==
  /\ Runs({"ld", "ldu"})
  /\ r' = Put(r, ins.d, LET v == Loaded(ins.size, ins.ea)
                        IN IF ins.op = "ld" /\ ins.size < 4 THEN SignExtended(v, B * ins.size) ELSE v)
  /\ Retire /\ UNCHANGED <<f, mem>>

Store ==
  /\ Runs({"st"})
  /\ mem' = Stored(r[ins.d], ins.size, ins.ea)
  /\ Retire /\ UNCHANGED <<r, f>>

Exchange ==
  /\ Runs({"xmem"})
  /\ mem' = Stored(r[ins.d], ins.size, ins.ea)
  /\ r' = Put(r, ins.d, Fetched(ins.size, ins.ea))
  /\ Retire /\ UNCHANGED f

(***************************************************************************)
(* Floating point, in quarters                                             *)
(***************************************************************************)

fcmp(x, y) ==
  IF NaN \in {x, y} THEN {0}
  ELSE {1} \cup {IF x = y THEN C_EQ ELSE C_NE}
           \cup {IF x > y THEN C_GT ELSE C_LE}
           \cup {IF x < y THEN C_LT ELSE C_GE}

FloatCompare ==
  /\ Runs({"fcmp"})
  /\ r' = Put(r, ins.d, fcmp(f[ins.a], f[ins.n]))
  /\ Retire /\ UNCHANGED <<f, mem>>

Float ==
  /\ Runs({"flt"})
  /\ f' = [f EXCEPT ![ins.d] = 4 * Signed(r[ins.n])]
  /\ Retire /\ UNCHANGED <<r, mem>>

(* llrint: to the nearest, to the even one of two; the low word is kept.   *)
Nearest(q) ==
  LET n == (q + 2) \div 4 IN IF (q + 2) % 4 = 0 /\ n % 2 = 1 THEN n - 1 ELSE n

(* C leaves the conversion of a number that does not fit undefined: it is  *)
(* the most negative number, saturates, or, for a NaN, is zero.            *)
Truncated(q) ==
  IF q # NaN /\ q \in -Two[W + 1] - 3 .. Two[W + 1] - 1
  THEN {WordOf(Quotient(q, 4))}
  ELSE {Least, Bits \ Least, {}}

ToInteger ==
  /\ Runs({"int", "nint", "trnc"})
  /\ \E w \in IF ins.op = "trnc" THEN Truncated(f[ins.n])
              ELSE {IF f[ins.n] = NaN THEN {} ELSE WordOf(Nearest(f[ins.n]))} :
       r' = Put(r, ins.d, w)
  /\ Retire /\ UNCHANGED <<f, mem>>

Next ==
  \/ Logical \/ Arithmetic \/ Divide \/ DivideByZero \/ DivideOverflow
  \/ Compare \/ Branch \/ Trap \/ FallThrough \/ BitField \/ FindBit
  \/ Load \/ Store \/ Exchange \/ FloatCompare \/ Float \/ ToInteger

Spec == Init /\ [][Next]_vars
=============================================================================
