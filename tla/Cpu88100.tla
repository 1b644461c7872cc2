------------------------------ MODULE Cpu88100 ------------------------------
(***************************************************************************)
(* The sequencing of the emulated MC88100 (emu/cpu.c, emu/sysmode.c): one  *)
(* user process, delay slots, and the three ways control leaves it for the *)
(* kernel: interrupts, traps and access faults, each of which saves the    *)
(* program in the exception-time registers (EPSR, SXIP, SNIP, SFIP, DMT0,  *)
(* DMA0) and is undone by rte.  Exceptions nest: the kernel re-enables     *)
(* interrupts in its handlers and faults on user memory itself.            *)
(*                                                                         *)
(* Addresses count instruction words.  The kernel is not part of the       *)
(* repository; the K... actions are what the emulator's comments and       *)
(* intercepts rely on it to do.                                            *)
(***************************************************************************)
EXTENDS Naturals, Sequences

CONSTANTS
  CodeLen,    \* number of instructions of the user's text
  Pages,      \* pages of the user's address space
  Code,       \* Code[p]: the instruction at address p
  TextPage,   \* TextPage[p]: the page that holds address p
  Wired,      \* pages the kernel never takes away
  VBR,        \* cr7, the address of the kernel's vector table
  StoreMod,   \* bound: memory accesses are counted modulo this
  MaxDepth    \* bound: exceptions nested when another one may still arrive

VARIABLES
  pc, has_pending, pending,     \* cpu.pc and the explicit delay slot
  psr,                          \* cr1: supervisor mode, interrupts disabled
  cr,                           \* the exception-time registers
  ufault,                       \* the fault translate() recorded
  frames,                       \* exception frames on the kernel's stack
  resident,                     \* pages present in the page tables
  stores                        \* memory accesses performed, modulo StoreMod

vars == <<pc, has_pending, pending, psr, cr, ufault, frames, resident, stores>>

UserPC == 0 .. CodeLen - 1
Insn == [op: {"alu", "mem", "br", "bcnd", "trap", "div"},
         delayed: BOOLEAN, target: UserPC, page: Pages]

Interrupt == 1          \* vector numbers
CodeAccess == 2
DataAccess == 3
Divide == 6
Syscall == 128
Vectors == {Interrupt, CodeAccess, DataAccess, Divide, Syscall}
Traps == {Divide, Syscall}

Vector(v) == VBR + 2 * v        \* a table entry is two instructions
KSaveRte == VBR + 512           \* the rte saveregs "calls" the handler with
KBody == VBR + 513              \* the handler proper, saveregs' continuation
KReplay == VBR + 514            \* data_access_emulation
KExitRte == VBR + 515           \* the rte that ends the exception

ASSUME TextAssumption ==
  /\ CodeLen \in Nat \ {0}
  /\ Code \in [UserPC -> Insn]
  /\ TextPage \in [UserPC -> Pages]
  /\ Wired \subseteq Pages
  /\ VBR \in Nat /\ VBR >= CodeLen
  /\ StoreMod \in Nat \ {0}
  /\ MaxDepth \in Nat \ {0}

(* The program does not run off the end of its text: it falls through to   *)
(* an instruction, and a system call has both of its return points.        *)
ASSUME ClosedText ==
  \A p \in UserPC :
    /\ (Code[p].op = "br" /\ ~Code[p].delayed) \/ p + 1 \in UserPC
    /\ Code[p].op = "trap" => p + 2 \in UserPC

(***************************************************************************)
(* Types                                                                   *)
(***************************************************************************)
Address == UserPC \cup {Vector(v) : v \in Vectors}
             \cup {KSaveRte, KBody, KReplay, KExitRte}
PSR == [sup: BOOLEAN, ind: BOOLEAN]
PipeReg == [addr: Nat, v: BOOLEAN]
Exception == [epsr: PSR, sxip: PipeReg, snip: PipeReg, sfip: PipeReg,
              dmt: BOOLEAN, dma: Pages]
Frame == [vec: Vectors, regs: Exception, replay: BOOLEAN, done: BOOLEAN]
Fault == [pending: BOOLEAN, code: BOOLEAN, page: Pages]

TypeOK ==
  /\ pc \in Address
  /\ has_pending \in BOOLEAN
  /\ pending \in UserPC
  /\ psr \in PSR
  /\ cr \in Exception
  /\ ufault \in Fault
  /\ frames \in Seq(Frame)
  /\ resident \subseteq Pages
  /\ stores \in 0 .. StoreMod - 1

NullReg == [addr |-> 0, v |-> FALSE]

(* The process has been launched and stands at its first instruction.      *)
Init ==
  /\ pc = 0
  /\ has_pending = FALSE /\ pending = 0
  /\ psr = [sup |-> FALSE, ind |-> FALSE]
  /\ \E p \in Pages :
       /\ cr = [epsr |-> [sup |-> FALSE, ind |-> FALSE], sxip |-> NullReg,
                snip |-> NullReg, sfip |-> NullReg, dmt |-> FALSE, dma |-> p]
       /\ ufault = [pending |-> FALSE, code |-> FALSE, page |-> p]
  /\ frames = <<>>
  /\ resident \in {Wired, Pages}
  /\ stores = 0

(***************************************************************************)
(* Exception entry                                                         *)
(***************************************************************************)
InException == [sup |-> TRUE, ind |-> TRUE]

(* Mutated forms of the definitions that follow them end in _mut: each is   *)
(* a slip one of the source's comments warns of, and breaks a property.    *)
DeliverException_mut(v) ==
  /\ cr' = [cr EXCEPT !.epsr = psr,
                      !.sxip = [addr |-> pc, v |-> FALSE],
                      !.snip = [addr |-> pc, v |-> TRUE],
                      !.sfip = [addr |-> pc + 1, v |-> TRUE]]
  /\ psr' = InException
  /\ pc' = Vector(v)
  /\ UNCHANGED <<has_pending, pending>>

(* deliver_exception: between instructions, so SXIP is invalid, SNIP is    *)
(* the instruction not yet executed, and no data access is outstanding.    *)
DeliverException(v) ==
  /\ cr' = [cr EXCEPT !.epsr = psr,
                      !.sxip = [addr |-> pc, v |-> FALSE],
                      !.snip = [addr |-> pc, v |-> TRUE],
                      !.sfip = [addr |-> pc + 1, v |-> TRUE],
                      !.dmt = FALSE]
  /\ psr' = InException
  /\ pc' = Vector(v)
  /\ UNCHANGED <<has_pending, pending>>

(* deliver_trap: SNIP is the instruction after the trap, and a delay slot  *)
(* the trap sat in is abandoned.                                           *)
DeliverTrap(v, tpc) ==
  /\ cr' = [cr EXCEPT !.epsr = psr,
                      !.sxip = [addr |-> tpc, v |-> FALSE],
                      !.snip = [addr |-> tpc + 1, v |-> TRUE],
                      !.sfip = [addr |-> tpc + 2, v |-> TRUE]]
  /\ psr' = InException
  /\ pc' = Vector(v)
  /\ has_pending' = FALSE
  /\ UNCHANGED pending

(* deliver_fault: SNIP is the faulting instruction itself, and DMT0/DMA0   *)
(* describe the one data access the kernel must resolve.                   *)
DeliverFault(v, page) ==
  /\ cr' = [epsr |-> psr,
            sxip |-> [addr |-> pc, v |-> FALSE],
            snip |-> [addr |-> pc, v |-> TRUE],
            sfip |-> [addr |-> pc + 1, v |-> TRUE],
            dmt |-> v = DataAccess,
            dma |-> IF v = DataAccess THEN page ELSE cr.dma]
  /\ psr' = InException
  /\ pc' = Vector(v)
  /\ has_pending' = FALSE
  /\ UNCHANGED pending

(* The top of the run loop hands a recorded fault to the kernel.           *)
RaiseFault ==
  /\ ufault.pending
  /\ ufault' = [ufault EXCEPT !.pending = FALSE]
  /\ DeliverFault(IF ufault.code THEN CodeAccess ELSE DataAccess, ufault.page)
  /\ UNCHANGED <<frames, resident, stores>>

(* A clock or software interrupt, taken by step() before it fetches: not   *)
(* in a delay slot, not while disabled, not before a recorded fault, and   *)
(* not at an address step() intercepts, which it looks at first.           *)
TakeInterrupt ==
  /\ pc # KReplay
  /\ ~has_pending
  /\ ~psr.ind
  /\ ~ufault.pending
  /\ Len(frames) < MaxDepth
  /\ DeliverException(Interrupt)
  /\ UNCHANGED <<ufault, frames, resident, stores>>

(***************************************************************************)
(* One user instruction                                                    *)
(***************************************************************************)
RecordFault(code, page) ==
  /\ ufault' = [pending |-> TRUE, code |-> code, page |-> page]
  /\ UNCHANGED <<pc, has_pending, pending, psr, cr, frames, resident, stores>>

(* The end of step(): a pending delay slot wins over everything, then a    *)
(* taken branch, then the next instruction.                                *)
Sequence(taken) ==
  LET i == Code[pc] IN
  /\ has_pending' = (~has_pending /\ taken /\ i.delayed)
  /\ pending' = IF ~has_pending /\ taken /\ i.delayed THEN i.target ELSE pending
  /\ pc' = IF has_pending THEN pending
           ELSE IF taken /\ ~i.delayed THEN i.target ELSE pc + 1

(* The next instruction of the user is reached and its page is present.    *)
Fetched(ops) ==
  /\ ~psr.sup
  /\ ~ufault.pending
  /\ TextPage[pc] \in resident
  /\ Code[pc].op \in ops

FetchFault ==
  /\ ~psr.sup
  /\ ~ufault.pending
  /\ TextPage[pc] \notin resident
  /\ RecordFault(TRUE, TextPage[pc])

ExecPlain ==
  /\ Fetched({"alu", "div", "bcnd"})
  /\ Sequence(FALSE)
  /\ UNCHANGED <<psr, cr, ufault, frames, resident, stores>>

ExecBranch ==
  /\ Fetched({"br", "bcnd"})
  /\ Sequence(TRUE)
  /\ UNCHANGED <<psr, cr, ufault, frames, resident, stores>>

ExecMemory ==
  /\ Fetched({"mem"})
  /\ Code[pc].page \in resident
  /\ stores' = (stores + 1) % StoreMod
  /\ Sequence(FALSE)
  /\ UNCHANGED <<psr, cr, ufault, frames, resident>>

(* memop bails out before it touches a register or a byte of memory.       *)
MemoryFault ==
  /\ Fetched({"mem"})
  /\ Code[pc].page \notin resident
  /\ RecordFault(FALSE, Code[pc].page)

ExecTrap ==
  /\ Fetched({"trap", "div"})
  /\ DeliverTrap(IF Code[pc].op = "trap" THEN Syscall ELSE Divide, pc)
  /\ UNCHANGED <<ufault, frames, resident, stores>>

(* A console, raw-disk or host-file call served by the emulator returns to *)
(* the success point.                                                      *)
ServeSyscall ==
  /\ Fetched({"trap"})
  /\ Code[pc].page \in resident
  /\ pc' = pc + 2
  /\ UNCHANGED <<has_pending, pending, psr, cr, ufault, frames, resident, stores>>

(* ubuf_fault: its buffer is not resident, so the call is re-executed      *)
(* after the fault.                                                        *)
ServeSyscallFault ==
  /\ Fetched({"trap"})
  /\ Code[pc].page \notin resident
  /\ RecordFault(FALSE, Code[pc].page)

(***************************************************************************)
(* rte: the PSR comes back from EPSR, and execution resumes at the first   *)
(* valid pipeline register.                                                *)
(***************************************************************************)
RteTarget_mut == IF cr.sxip.v THEN cr.sxip.addr ELSE cr.sfip.addr

RteTarget == IF cr.sxip.v THEN cr.sxip.addr
             ELSE IF cr.snip.v THEN cr.snip.addr
             ELSE cr.sfip.addr

Rte ==
  /\ psr.sup
  /\ pc \in {KSaveRte, KExitRte}
  /\ psr' = cr.epsr
  /\ pc' = RteTarget
  /\ UNCHANGED <<has_pending, pending, cr, ufault, frames, resident, stores>>

(***************************************************************************)
(* The kernel's handlers                                                   *)
(***************************************************************************)
Top == frames[Len(frames)]
AtBody == psr.sup /\ pc = KBody /\ ~ufault.pending

(* saveregs: the registers go into a frame; SNIP is nulled and SFIP points *)
(* at the handler, which the next rte is meant to reach, with interrupts   *)
(* enabled or not as the handler wants.                                    *)
KSave ==
  /\ psr.sup
  /\ \E v \in Vectors :
       /\ pc = Vector(v)
       /\ frames' = Append(frames, [vec |-> v, regs |-> cr,
                                    replay |-> FALSE, done |-> FALSE])
  /\ \E i \in BOOLEAN :
       cr' = [cr EXCEPT !.epsr = [sup |-> TRUE, ind |-> i],
                        !.snip = [addr |-> 0, v |-> FALSE],
                        !.sfip = [addr |-> KBody, v |-> TRUE]]
  /\ pc' = KSaveRte
  /\ UNCHANGED <<has_pending, pending, psr, ufault, resident, stores>>

(* exreturn: a saved data access is paged in and then replayed.            *)
KResolve ==
  /\ AtBody
  /\ Top.regs.dmt /\ ~Top.replay
  /\ resident' = resident \cup {Top.regs.dma}
  /\ frames' = [frames EXCEPT ![Len(frames)] = [Top EXCEPT !.replay = TRUE]]
  /\ pc' = KReplay
  /\ UNCHANGED <<has_pending, pending, psr, cr, ufault, stores>>

SkipReplay_mut ==
  /\ psr.sup
  /\ pc = KReplay
  /\ pc' = KBody
  /\ stores' = (stores + 1) % StoreMod
  /\ UNCHANGED <<has_pending, pending, psr, cr, ufault, frames, resident>>

SkipReplayStays_mut ==
  /\ psr.sup
  /\ pc = KReplay
  /\ UNCHANGED vars

(* data_access_emulation: step() skips it, the re-executed instruction     *)
(* performs the access.                                                    *)
SkipReplay ==
  /\ psr.sup
  /\ pc = KReplay
  /\ pc' = KBody
  /\ UNCHANGED <<has_pending, pending, psr, cr, ufault, frames, resident, stores>>

Handled(f, ok) == [f EXCEPT !.done = TRUE,
                            !.regs.snip.addr = IF ok THEN @ + 1 ELSE @]

(* trap(): a code fault pages in SXIP's page; a system call returns at     *)
(* SNIP or one instruction further; everything else just returns.          *)
KHandle ==
  /\ AtBody
  /\ ~Top.done
  /\ Top.regs.dmt => Top.replay
  /\ \E ok \in BOOLEAN :
       /\ ok => Top.vec = Syscall
       /\ frames' = [frames EXCEPT ![Len(frames)] = Handled(Top, ok)]
  /\ resident' = IF Top.vec = CodeAccess
                   THEN resident \cup {TextPage[Top.regs.sxip.addr]}
                   ELSE resident
  /\ UNCHANGED <<pc, has_pending, pending, psr, cr, ufault, stores>>

(* A system call copies to or from a user page that is not present.        *)
KCopyFault ==
  /\ AtBody
  /\ Top.vec = Syscall /\ ~Top.done
  /\ Len(frames) < MaxDepth
  /\ \E p \in Pages \ resident : RecordFault(FALSE, p)

(* The pager takes a page away.                                            *)
KPageOut ==
  /\ AtBody
  /\ \E p \in resident \ Wired : resident' = resident \ {p}
  /\ UNCHANGED <<pc, has_pending, pending, psr, cr, ufault, frames, stores>>

(* Interrupts go off, the saved registers come back, and rte follows.      *)
(* DMT0 and DMA0 are not written back.                                     *)
KExit ==
  /\ AtBody
  /\ Top.done
  /\ cr' = [Top.regs EXCEPT !.dmt = cr.dmt, !.dma = cr.dma]
  /\ frames' = SubSeq(frames, 1, Len(frames) - 1)
  /\ psr' = InException
  /\ pc' = KExitRte
  /\ UNCHANGED <<has_pending, pending, ufault, resident, stores>>

Execute == \/ FetchFault \/ ExecPlain \/ ExecBranch \/ ExecMemory
           \/ MemoryFault \/ ExecTrap \/ ServeSyscall \/ ServeSyscallFault

Kernel == \/ KSave \/ KResolve \/ SkipReplay \/ KHandle \/ KCopyFault
          \/ KPageOut \/ KExit

Next == RaiseFault \/ TakeInterrupt \/ Execute \/ Rte \/ Kernel

Spec == Init /\ [][Next]_vars

(***************************************************************************)
(* Properties                                                              *)
(***************************************************************************)

(* The registers an exception leaves behind, until the handler is done     *)
(* with them, say where the stopped code resumes: an exception from the    *)
(* user at the stopped instruction or, after a trap, beyond it; a nested   *)
(* one in the body of the handler it stopped.                              *)
SavedUser(v, r, skip) ==
  /\ ~r.sxip.v /\ r.snip.v
  /\ ~r.epsr.sup /\ ~r.epsr.ind
  /\ r.sxip.addr \in UserPC /\ r.snip.addr \in UserPC
  /\ v \notin Traps => r.snip.addr = r.sxip.addr
  /\ v \in Traps => r.snip.addr = r.sxip.addr + skip
  /\ v = Divide => Code[r.sxip.addr].op = "div"
  /\ v = Syscall => Code[r.sxip.addr].op = "trap"

SavedNested(v, r) ==
  /\ ~r.sxip.v /\ r.snip.v
  /\ r.epsr.sup
  /\ v \in {Interrupt, DataAccess}
  /\ r.snip.addr = KBody

FrameSaved(f, i) ==
  IF i = 1
    THEN \/ SavedUser(f.vec, f.regs, 1)
         \/ SavedUser(f.vec, f.regs, 2) /\ f.vec = Syscall /\ f.done
    ELSE SavedNested(f.vec, f.regs)

(* The inductive invariant: which mode each address is executed in, what   *)
(* the exception registers hold there, and how the frames are stacked.     *)
Stacked ==
  /\ ~psr.sup => pc \in UserPC /\ ~psr.ind /\ frames = <<>>
  /\ psr.sup => pc \notin UserPC /\ ~has_pending
  /\ pc \in UserPC \cup {KBody, KReplay} \/ psr.ind
  /\ pc \in {KSaveRte, KBody, KReplay} => frames # <<>>
  /\ \A v \in Vectors : pc = Vector(v) => IF frames = <<>> THEN SavedUser(v, cr, 1)
                                         ELSE SavedNested(v, cr)
  /\ \A i \in 1 .. Len(frames) : FrameSaved(frames[i], i)
  /\ pc = KSaveRte => /\ ~cr.sxip.v /\ ~cr.snip.v /\ cr.epsr.sup
                      /\ cr.sfip = [addr |-> KBody, v |-> TRUE]
  /\ pc = KExitRte => /\ ~cr.sxip.v /\ cr.snip.v
                      /\ frames = <<>> => /\ ~cr.epsr.sup /\ ~cr.epsr.ind
                                          /\ cr.snip.addr \in UserPC
                      /\ frames # <<>> => cr.epsr.sup /\ cr.snip.addr = KBody
  /\ ufault.pending => /\ pc \in UserPC \cup {KBody}
                       /\ ufault.code => ~psr.sup
                       /\ ~psr.sup => ufault.page =
                            IF ufault.code THEN TextPage[pc] ELSE Code[pc].page

(* Exception entry leaves SXIP invalid, so that the rte inside saveregs    *)
(* falls through to its continuation, and the rte that ends an exception   *)
(* goes where it came from: the outermost one to the user's text in user   *)
(* mode, a nested one to the interrupted handler in supervisor mode.       *)
ReturnPath ==
  /\ pc = KSaveRte => RteTarget = KBody /\ cr.epsr.sup
  /\ pc = KExitRte => IF frames = <<>>
                        THEN RteTarget \in UserPC /\ ~cr.epsr.sup
                        ELSE RteTarget = KBody /\ cr.epsr.sup

(* The data access the kernel finds outstanding when an exception enters:  *)
(* none for an interrupt or a code fault, and for a data fault exactly the *)
(* page the instruction it will return to is about to touch.               *)
AccessDescribed ==
  /\ pc \in {Vector(Interrupt), Vector(CodeAccess)} => ~cr.dmt
  /\ pc = Vector(DataAccess) =>
       /\ cr.dmt
       /\ ~cr.epsr.sup => cr.dma = Code[cr.snip.addr].page
  /\ pc = Vector(CodeAccess) => ~cr.epsr.sup /\ cr.snip.addr = cr.sxip.addr

(***************************************************************************)
(* The user program cannot tell that it was interrupted: the machine it    *)
(* sees, with everything the kernel does in between taken out, is          *)
(* UserMachine.  While an exception is open, its program counter is in the *)
(* registers at entry and exit and in the outermost frame in between.      *)
(***************************************************************************)
Outer == IF frames = <<>> THEN cr ELSE frames[1].regs

ServingTrap ==
  /\ psr.sup
  /\ IF frames = <<>> THEN pc \in {Vector(v) : v \in Traps}
                      ELSE frames[1].vec \in Traps

UserPc == IF ~psr.sup THEN pc
          ELSE IF ServingTrap THEN Outer.sxip.addr ELSE Outer.snip.addr

UserNextPc == IF has_pending THEN pending ELSE UserPc + 1

Program == INSTANCE UserMachine
             WITH upc <- UserPc, unpc <- UserNextPc, insys <- ServingTrap

(* "The instruction can simply be re-executed once the page is there"      *)
(* (devices.c:19) and "nothing else in this step is observable"            *)
(* (cpu.c:1611): exceptions are invisible to the program they stop.        *)
Transparent == Program!USpec

(* The run loop never stops, and a handler it keeps interrupting gets on   *)
(* in between: the clock period is thousands of instructions.              *)
Live ==
  /\ WF_vars(RaiseFault) /\ WF_vars(Execute) /\ WF_vars(Rte)
  /\ WF_vars(KSave) /\ WF_vars(SkipReplay)
  /\ \A d \in 1 .. MaxDepth :
       SF_vars(Len(frames) = d /\ (KResolve \/ KHandle \/ KExit))

FairSpec == Spec /\ Live

(* Every exception of the process is eventually over, the nested ones too. *)
EveryExceptionEnds == psr.sup ~> ~psr.sup
=============================================================================
