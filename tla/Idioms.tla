------------------------------- MODULE Idioms -------------------------------
(***************************************************************************)
(* What a compiler relies on: short sequences of instructions that compare *)
(* and branch, read and replace a bit field, divide, build a constant,     *)
(* pass memory from one size to another, find a bit, and convert a number. *)
(* Registers 2 and 3 hold the operands throughout.  The numbers of the     *)
(* condition bits, and the meaning of each sequence, are the machine's,    *)
(* written down here apart from the code's.                                *)
(***************************************************************************)
EXTENDS Instructions

Halves == SUBSET Low
Reg(op, d, a, n) == [op |-> op, d |-> d, a |-> a, form |-> "reg", n |-> n]
Comp(op, d, a, n) == [op |-> op, d |-> d, a |-> a, form |-> "comp", n |-> n]
Imm(op, d, a, h) == [op |-> op, d |-> d, a |-> a, form |-> "imm", h |-> h]
Upper(op, d, a, h) == [op |-> op, d |-> d, a |-> a, form |-> "upper", h |-> h]
Test(op, bit, a) == [op |-> op, bit |-> bit, a |-> a]
Part(op, d, a, w, o) == [op |-> op, d |-> d, a |-> a, w |-> w, o |-> o]
Unary(op, d, n) == [op |-> op, d |-> d, a |-> n, n |-> n]
Access(op, d, size, ea) == [op |-> op, d |-> d, size |-> size, ea |-> ea]

Relations == {"eq", "ne", "gt", "le", "lt", "ge", "hi", "ls", "lo", "hs"}
ConditionBit ==
  [eq |-> 2, ne |-> 3, gt |-> 4, le |-> 5, lt |-> 6, ge |-> 7,
   hi |-> 8, ls |-> 9, lo |-> 10, hs |-> 11]
ConditionMask == [gt |-> 1, eq |-> 2, ge |-> 3, lt |-> 12, ne |-> 13, le |-> 14]

(* A relation of two numbers, a and b as signed, ua and ub as unsigned.    *)
Holds(rel, a, b, ua, ub) ==
  CASE rel = "eq" -> a = b   [] rel = "ne" -> a # b
    [] rel = "gt" -> a > b   [] rel = "le" -> a <= b
    [] rel = "lt" -> a < b   [] rel = "ge" -> a >= b
    [] rel = "hi" -> ua > ub [] rel = "ls" -> ua <= ub
    [] rel = "lo" -> ua < ub [] rel = "hs" -> ua >= ub

CompareBranch ==
  {<<Reg("cmp", 4, 2, 3), Test(op, ConditionBit[rel], 4)>> :
     op \in {"bb0", "bb1", "tb0", "tb1"}, rel \in Relations}
CompareHalf(halves) ==
  {<<Imm("cmp", 4, 2, h), Test("bb1", ConditionBit[rel], 4)>> : h \in halves, rel \in Relations}
BranchOnZero ==
  {<<Test(op, ConditionMask[rel], 2)>> : op \in {"bcnd", "tcnd"}, rel \in DOMAIN ConditionMask}
ReadField(fields) ==
  {<<Part(op, 4, 2, x[1], x[2])>> : op \in {"ext", "extu"}, x \in fields}
ReplaceField(fields) ==
  {<<Part("clr", 4, 2, x[1], x[2]), Part("mak", 5, 3, x[1], x[2]), Reg("or", 4, 4, 5)>> : x \in fields}
Rotate ==
  {<<Part("rot", 4, 2, 0, o), Part("rot", 5, 4, 0, (W - o) % W)>> : o \in 0 .. W - 1}
DivideAndRest ==
  {<<Reg(op, 4, 2, 3), Reg("mul", 5, 4, 3), Reg("sub", 5, 2, 5)>> : op \in {"div", "divu"}}
BuildConstant(halves) ==
  {<<Upper("or", 4, 0, h), Imm("or", 4, 4, l)>> : h \in halves, l \in halves}
EditHalves(halves) ==
  {<<Upper(op, 4, 2, h), Imm(op, 5, 2, h)>> : op \in {"and", "or", "xor", "mask"}, h \in halves}
Negate ==
  {<<Comp("or", 4, 0, 2), Imm("add", 4, 4, {0}), Reg("sub", 5, 0, 2)>>}
Discard ==
  {<<Reg("or", 0, 2, 3), Reg("add", 4, 0, 0)>>}
FindHighest ==
  {<<Unary(op, 4, 2)>> : op \in {"ff1", "ff0"}}
ThroughMemory ==
  {<<Access("st", 2, 4, 0), Access("st", 2, 4, 4), Access("st", 3, s[1], s[2]),
     Access(op, 5, l[1], l[2])>> :
       op \in {"ld", "ldu"},
       s \in {x \in {1, 2, 4} \X (0 .. 7) : x[2] % x[1] = 0},
       l \in {x \in {1, 2, 4} \X (0 .. 7) : x[2] % x[1] = 0}}
ExchangeMemory ==
  {<<Access("st", 2, 4, 0), Reg("or", 5, 0, 3), Access("xmem", 5, n, 0), Access("ldu", 4, 4, 0)>> :
       n \in {1, 4}}
ReadTimer ==
  {<<Access(op, 4, l[1], TIMER_ADDR + l[2])>> :
       op \in {"ld", "ldu"}, l \in {x \in {1, 2, 4} \X (0 .. 3) : x[2] % x[1] = 0}}
FloatBranch ==
  {<<[op |-> "fcmp", d |-> 4, a |-> 2, n |-> 3], Test("bb1", bit, 4)>> : bit \in 0 .. 7}
ToFloatAndBack ==
  {<<[op |-> "flt", d |-> 4, n |-> 2], [op |-> op, d |-> 4, n |-> 4]>> : op \in {"int", "nint", "trnc"}}
RoundFloat ==
  {<<[op |-> op, d |-> 4, n |-> 2]>> : op \in {"int", "nint", "trnc"}}

Fields == (0 .. W - 1) \X (0 .. W - 1)
Families ==
  UNION {CompareBranch, CompareHalf(Halves), BranchOnZero, ReadField(Fields),
         ReplaceField(Fields), Rotate, DivideAndRest, BuildConstant(Halves),
         EditHalves(Halves), Negate, Discard, FindHighest, ThroughMemory,
         ExchangeMemory, ReadTimer, FloatBranch, ToFloatAndBack, RoundFloat}

ASSUME IdiomsAssumption == Programs \subseteq Families

Done == at > Len(prog) \/ status # "running"
Ran(programs) == prog \in programs /\ Done
Outcome(op) == IF op \in {"tb0", "tb1", "tcnd"} THEN "trap" ELSE "taken"

(***************************************************************************)
(* Properties                                                              *)
(***************************************************************************)

(* A branch, or a trap, on a bit of a comparison's result is taken just    *)
(* when the operands are in the relation the bit stands for, and bcnd and  *)
(* tcnd are when the operand is in it with zero; an operand of half a word *)
(* is a positive number (do_cmp and cond_true, cpu.c:776-804).             *)
BranchesCompare ==
  /\ Done /\ Len(prog) = 2 /\ prog[1].op = "cmp" /\ "bit" \in DOMAIN prog[2] =>
       \A rel \in Relations : prog[2].bit = ConditionBit[rel] =>
         LET b == IF prog[1].form = "imm" THEN prog[1].h ELSE r[3]
             true == Holds(rel, Signed(r[2]), Signed(b), Number[r[2]], Number[b])
         IN status = IF true <=> prog[2].op \in {"bb1", "tb1"} THEN Outcome(prog[2].op) ELSE "running"
  /\ Ran(BranchOnZero) =>
       \A rel \in DOMAIN ConditionMask : prog[1].bit = ConditionMask[rel] =>
         status = IF Holds(rel, Signed(r[2]), 0, Number[r[2]], 0)
                    THEN Outcome(prog[1].op) ELSE "running"

(* "The condition bits sit at the SAME positions as the integer cmp ...    *)
(* only bits 0 and 1 differ -- nc (not comparable, i.e. a NaN) and cp"     *)
(* (cpu.c:1494-1496): a branch after fcmp means what it means after cmp,   *)
(* and no relation holds of a NaN.                                         *)
FloatBranchesCompare ==
  Ran(FloatBranch) =>
    LET bit == prog[2].bit
        ordered == NaN \notin {f[2], f[3]}
    IN (status = "taken") <=>
         \/ bit = 0 /\ ~ordered
         \/ bit = 1 /\ ordered
         \/ ordered /\ \E rel \in Relations :
              bit = ConditionBit[rel] /\ Holds(rel, f[2], f[3], f[2], f[3])

(* A field inside the word is read as the number it holds, signed by ext   *)
(* and unsigned by extu, and the three instructions that replace a field   *)
(* change it to the low bits of the new value and leave all other bits;    *)
(* rotating back undoes a rotation (bitfield, cpu.c:806-823).              *)
FieldsHoldNumbers ==
  /\ Done /\ Len(prog) = 1 /\ prog[1].op \in {"ext", "extu"} =>
       LET w == IF prog[1].w = 0 THEN W ELSE prog[1].w
           n == (Number[r[2]] \div Two[prog[1].o]) % Two[w]
       IN w + prog[1].o <= W =>
            IF prog[1].op = "extu" THEN Number[r[4]] = n
            ELSE Signed(r[4]) = IF n >= Two[w - 1] THEN n - Two[w] ELSE n
  /\ Done /\ Len(prog) = 3 /\ prog[1].op = "clr" =>
       LET w == IF prog[1].w = 0 THEN W ELSE prog[1].w
           o == prog[1].o
           old == Number[r[2]]
       IN w + o <= W =>
            Number[r[4]] = (old % Two[o]) + (Number[r[3]] % Two[w]) * Two[o]
                           + (old \div Two[w + o]) * Two[w + o]
  /\ Ran(Rotate) => r[5] = r[2]

(* Division leaves a rest of the dividend's sign that is smaller than the  *)
(* divisor; dividing by zero, and nothing else, traps and writes nothing;  *)
(* and only the most negative number by -1 can stop the emulator           *)
(* (cpu.c:1445-1449, 1564-1568, 1629).                                     *)
QuotientAndRest ==
  Ran(DivideAndRest) =>
    /\ status = "divide" <=> r[3] = {}
    /\ status = "divide" => r[4] = {}
    /\ status = "stopped" => r[2] = Least /\ r[3] = Bits
    /\ status = "running" =>
         LET signed == prog[1].op = "div"
             val(w) == IF signed THEN Signed(w) ELSE Number[w]
             abs(n) == IF n < 0 THEN -n ELSE n
         IN /\ abs(val(r[5])) < abs(val(r[3]))
            /\ val(r[5]) = 0 \/ (val(r[5]) < 0) = (val(r[2]) < 0)
            /\ (Number[r[4]] * Number[r[3]] + Number[r[5]]) % Two[W] = Number[r[2]]

(* Two halves make a constant; an immediate logical instruction changes    *)
(* the half it names, only mask clearing the other; complement and one is  *)
(* the negative; register 0 stays zero (cpu.c:1436-1443, 1555-1563).       *)
HalvesMakeWords ==
  /\ Done /\ Len(prog) = 2 /\ prog[1].op = "or" /\ prog[1].a = 0 /\ prog[1].d = 4 =>
       Number[r[4]] = Number[prog[1].h] * Two[W \div 2] + Number[prog[2].h]
  /\ Done /\ Len(prog) = 2 /\ prog[1].op \in {"and", "or", "xor", "mask"} /\ prog[1].a = 2 /\ prog[1].d = 4 =>
       LET rest(w) == IF prog[1].op = "mask" THEN {} ELSE w
       IN /\ r[4] \cap Low = rest(r[2] \cap Low) /\ r[5] \cap High = rest(r[2] \cap High)
          /\ \A i \in Low :
               /\ i \in r[5] <=> CASE prog[1].op \in {"and", "mask"} -> i \in r[2] /\ i \in prog[1].h
                                   [] prog[1].op = "or" -> i \in r[2] \/ i \in prog[1].h
                                   [] prog[1].op = "xor" -> (i \in r[2]) # (i \in prog[1].h)
  /\ Ran(Negate) => r[4] = r[5] /\ (Number[r[4]] + Number[r[2]]) % Two[W] = 0
  /\ Ran(Discard) => r[4] = {}

(* The number ff1 and ff0 give is that of the highest bit, and the number  *)
(* of bits when there is none (cpu.c:1571-1575).                           *)
FindsHighest ==
  Ran(FindHighest) =>
    LET n == Number[r[4]]
        v == Number[IF prog[1].op = "ff1" THEN r[2] ELSE Bits \ r[2]]
    IN IF v = 0 THEN n = W ELSE Two[n] <= v /\ v < Two[n + 1]

(* Memory is big-endian whatever the size of an access, the timer's        *)
(* counter with it: a load gives the number its bytes stand for, signed or *)
(* not, and an exchange gives the old bytes and leaves the new (memop,     *)
(* devices.c:101-132).                                                     *)
MemoryIsBigEndian ==
  LET byte(w, k) == (Number[w] \div Two[B * (3 - k)]) % Two[B]
      pair(b) == b[0] * Two[B] + b[1]
      quad(b) == pair(b) * Two[2 * B] + pair([k \in 0 .. 1 |-> b[k + 2]])
      value(b, n) == CASE n = 1 -> b[0] [] n = 2 -> pair(b) [] n = 4 -> quad(b)
      loaded(bytes, i) ==
        LET n == value([k \in 0 .. i.size - 1 |-> bytes[(i.ea % 8) + k]], i.size)
        IN IF i.op = "ld" /\ n >= Two[B * i.size - 1] THEN n - Two[B * i.size] ELSE n
      as(i, w) == IF i.op = "ld" THEN Signed(w) ELSE Number[w]
  IN /\ Done /\ Len(prog) = 4 /\ prog[3].op = "st" =>
          LET s == prog[3]
              l == prog[4]
              bytes == [k \in 0 .. 7 |->
                          IF k \in s.ea .. s.ea + s.size - 1
                            THEN byte(r[3], 4 - s.size + k - s.ea)
                            ELSE byte(r[2], k % 4)]
          IN as(l, r[5]) = loaded(bytes, l)
     /\ Ran(ExchangeMemory) =>
          IF prog[3].size = 4 THEN r[5] = r[2] /\ r[4] = r[3]
          ELSE /\ Number[r[5]] = byte(r[2], 0)
               /\ \A k \in 0 .. 3 : byte(r[4], k) = IF k = 0 THEN byte(r[3], 3) ELSE byte(r[2], k)
     /\ Ran(ReadTimer) => as(prog[1], r[4]) = loaded([k \in 0 .. 3 |-> byte(Now, k)], prog[1])

(* An integer survives becoming a floating-point number and coming back;   *)
(* a number that fits is cut towards zero by trnc and rounded to the       *)
(* nearest integer, the even one of two, by int and nint                   *)
(* (cpu.c:1486-1492).                                                      *)
Rounded ==
  /\ Ran(ToFloatAndBack) => r[4] = r[2]
  /\ Ran(RoundFloat) /\ f[2] # NaN =>
       LET q == f[2]
           n == Signed(r[4])
           abs(i) == IF i < 0 THEN -i ELSE i
       IN abs(q) < Two[W + 1] - 4 =>
            IF prog[1].op = "trnc"
              THEN abs(4 * n) <= abs(q) /\ abs(q) - abs(4 * n) < 4 /\ (n = 0 \/ (n < 0) = (q < 0))
              ELSE abs(4 * n - q) < 2 \/ (abs(4 * n - q) = 2 /\ n % 2 = 0)

(* A branch taken on a comparison, of integers or of floating-point        *)
(* numbers, means the relation (cpu.c:776-804, 1494-1510).                 *)
BranchesMeanRelations == BranchesCompare /\ FloatBranchesCompare

(* Bit fields, halves and the highest bit stand for the numbers a compiler *)
(* takes them for (cpu.c:806-823, 1436-1443, 1571-1575).                   *)
BitsMeanNumbers == FieldsHoldNumbers /\ HalvesMakeWords /\ FindsHighest

(* Division and conversion give the results arithmetic has, in registers   *)
(* that hold words (cpu.c:1445-1449, 1486-1492, 1564-1568).                *)
ArithmeticAgrees == TypeOK /\ QuotientAndRest /\ Rounded
=============================================================================
