----------------------------- MODULE UserMachine -----------------------------
(***************************************************************************)
(* What a user program may expect of the emulated MC88100: a machine with  *)
(* two program counters, the instruction being executed and the one that   *)
(* follows it, in which exceptions do not exist.  A delayed branch changes *)
(* only the second counter, so the instruction after it still executes.    *)
(* A trap suspends the program and resumes it one or two instructions      *)
(* further on.  Every memory access takes effect exactly once.             *)
(***************************************************************************)
EXTENDS Naturals

CONSTANTS
  CodeLen,    \* number of instructions of the user's text
  Pages,      \* pages of the user's address space
  Code,       \* Code[p]: the instruction at address p, counted in words
  StoreMod    \* bound: memory accesses are counted modulo this

UserPC == 0 .. CodeLen - 1

Insn == [op: {"alu", "mem", "br", "bcnd", "trap", "div"},
         delayed: BOOLEAN, target: UserPC, page: Pages]

VARIABLES
  upc,        \* the instruction to execute
  unpc,       \* the instruction to execute after it
  insys,      \* the program waits for a trap to be served
  stores      \* memory accesses that took effect, modulo StoreMod

uvars == <<upc, unpc, insys, stores>>

UInit == upc = 0 /\ unpc = 1 /\ insys = FALSE /\ stores = 0

Advance(next) == upc' = unpc /\ unpc' = next /\ UNCHANGED insys

(* An instruction that falls through: arithmetic, an untaken branch.       *)
Plain == 
  /\ ~insys
  /\ Code[upc].op \in {"alu", "bcnd", "div"}
  /\ Advance(unpc + 1)
  /\ UNCHANGED stores

Access ==
  /\ ~insys
  /\ Code[upc].op = "mem"
  /\ Advance(unpc + 1)
  /\ stores' = (stores + 1) % StoreMod

Jump ==
  /\ ~insys
  /\ Code[upc].op \in {"br", "bcnd"}
  /\ IF Code[upc].delayed
       THEN Advance(Code[upc].target)
       ELSE /\ upc' = Code[upc].target
            /\ unpc' = Code[upc].target + 1
            /\ UNCHANGED insys
  /\ UNCHANGED stores

Suspend ==
  /\ ~insys
  /\ Code[upc].op \in {"trap", "div"}
  /\ insys' = TRUE
  /\ UNCHANGED <<upc, unpc, stores>>

Resume(skip) ==
  /\ upc' = upc + skip
  /\ unpc' = upc + skip + 1
  /\ insys' = FALSE
  /\ UNCHANGED stores

(* A served trap returns to the next instruction (an error, or a divide)   *)
(* or, if it is a system call that succeeded, skips it.                    *)
Return ==
  /\ insys
  /\ Resume(1) \/ (Code[upc].op = "trap" /\ Resume(2))

(* A system call served without suspending the program always succeeds.    *)
Served ==
  /\ ~insys
  /\ Code[upc].op = "trap"
  /\ Resume(2)

UNext == Plain \/ Access \/ Jump \/ Suspend \/ Return \/ Served

USpec == UInit /\ [][UNext]_uvars
=============================================================================
