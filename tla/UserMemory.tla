----------------------------- MODULE UserMemory -----------------------------
(***************************************************************************)
(* User memory under the real kernel (emu/mmu.c, proc.c, devices.c): the   *)
(* kernel's page tables, shared copy-on-write after a fork; the emulator's *)
(* translation cache in front of them; instructions that translate an      *)
(* address and may fault; and system calls the emulator serves itself,     *)
(* which reach into user memory through the same translation.              *)
(*                                                                         *)
(* A page holds one value.  Data accesses only: the code side has a cache  *)
(* of its own that works alike.                                            *)
(***************************************************************************)
EXTENDS Naturals, FiniteSets

CONSTANTS
  Procs, First,     \* processes, and the one that exists at the start
  NPages,           \* pages of a user address space
  Frames,           \* physical pages
  None,             \* no frame, no tag
  Val,              \* what a page may hold
  TlbSize,          \* lines of the translation cache
  Assumed,          \* what is taken for granted of the guest's served calls
  MaxInput          \* bound: values the host's terminal sends

Pages == 0 .. NPages - 1
Slots == 0 .. TlbSize - 1
Slot(v) == v % TlbSize

Assumptions == {"copied_first",      \* a read's buffer is not shared with
                                     \* another process at the time
                "request_present"}   \* a block ioctl's request is in memory

ASSUME MemoryAssumption ==
  /\ First \in Procs /\ NPages \in Nat \ {0} /\ TlbSize \in Nat \ {0}
  /\ None \notin Frames /\ None \notin Pages
  /\ Assumed \subseteq Assumptions
  /\ IsFiniteSet(Val) /\ Val # {} /\ Val = 0 .. Cardinality(Val) - 1
  /\ MaxInput \in Nat

VARIABLES
  mem,        \* physical memory
  pte,        \* page descriptors: frame (None if invalid), write protect
  backing,    \* what a page not in memory holds
  alive, cur, \* processes, and the one whose tables the APR names
  kernel,     \* the kernel is running
  tlb,        \* the data side's cache: tag, frame and the write-protect bit
  ufault,     \* the recorded fault
  reg,        \* the last value an instruction or a served call read
  input       \* values left to read from the terminal

vars == <<mem, pte, backing, alive, cur, kernel, tlb, ufault, reg, input>>

Pte == [frame: Frames \cup {None}, wp: BOOLEAN]
TlbEnt == [tag: Pages \cup {None}, frame: Frames \cup {None}, wp: BOOLEAN]
Fault == [pending: BOOLEAN, va: Pages, write: BOOLEAN]

TypeOK ==
  /\ mem \in [Frames -> Val]
  /\ pte \in [Procs -> [Pages -> Pte]]
  /\ backing \in [Procs -> [Pages -> Val]]
  /\ alive \subseteq Procs /\ cur \in alive
  /\ kernel \in BOOLEAN
  /\ tlb \in [Slots -> TlbEnt]
  /\ \A i \in Slots : tlb[i].tag # None =>
       Slot(tlb[i].tag) = i /\ tlb[i].frame # None
  /\ ufault \in Fault
  /\ reg \in Val
  /\ input \in 0 .. MaxInput

NoEnt == [tag |-> None, frame |-> None, wp |-> FALSE]
NoPte == [frame |-> None, wp |-> FALSE]
EmptyTlb == [i \in Slots |-> NoEnt]
NoFault == [pending |-> FALSE, va |-> 0, write |-> FALSE]

Init ==
  /\ \E x \in Val :
       /\ mem = [f \in Frames |-> x]
       /\ backing = [p \in Procs |-> [v \in Pages |-> x]]
       /\ reg = x
  /\ pte = [p \in Procs |-> [v \in Pages |-> NoPte]]
  /\ alive = {First} /\ cur = First
  /\ kernel = FALSE
  /\ tlb = EmptyTlb
  /\ ufault = NoFault
  /\ input = MaxInput

(***************************************************************************)
(* translate                                                               *)
(***************************************************************************)
Walk(v) == pte[cur][v]

(* The entry translate() uses: the cached one if its tag matches, or the   *)
(* page descriptor, which it then caches.                                  *)
Entry(v) ==
  IF tlb[Slot(v)].tag = v THEN tlb[Slot(v)]
  ELSE [tag |-> v, frame |-> Walk(v).frame, wp |-> Walk(v).wp]

(* Mutated forms end in _mut: here a miss is cached too.                   *)
Fill(v) == IF Entry(v).frame = None THEN tlb
           ELSE [tlb EXCEPT ![Slot(v)] = Entry(v)]

(* A miss in both, or a store to a write-protected page.                   *)
Faults_mut(v, xlat_write) == Entry(v).frame = None

Faults(v, xlat_write) == Entry(v).frame = None \/ (xlat_write /\ Entry(v).wp)

User == ~kernel /\ ~ufault.pending

(* memop bails out of a fault before it touches a register or memory.      *)
Load(v) ==
  /\ User
  /\ tlb' = Fill(v)
  /\ IF Faults(v, FALSE)
       THEN /\ ufault' = [pending |-> TRUE, va |-> v, write |-> FALSE]
            /\ UNCHANGED reg
       ELSE /\ reg' = mem[Entry(v).frame]
            /\ UNCHANGED ufault
  /\ UNCHANGED <<mem, pte, backing, alive, cur, kernel, input>>

Store(v, x) ==
  /\ User
  /\ tlb' = Fill(v)
  /\ IF Faults(v, TRUE)
       THEN /\ ufault' = [pending |-> TRUE, va |-> v, write |-> TRUE]
            /\ UNCHANGED mem
       ELSE /\ mem' = [mem EXCEPT ![Entry(v).frame] = x]
            /\ UNCHANGED ufault
  /\ UNCHANGED <<pte, backing, alive, cur, kernel, reg, input>>

(***************************************************************************)
(* System calls the emulator serves                                        *)
(***************************************************************************)
Last(S) == {v \in S : \A w \in S : w <= v}

(* The cache after the pages first .. last have been translated in turn:   *)
(* each line keeps the last page that went through it.                     *)
Through(i, first, last) ==
  {v \in first .. last : Slot(v) = i /\ Entry(v).frame # None}

FillAll(first, last) ==
  [i \in Slots |->
     LET final == Last(Through(i, first, last))
     IN  IF final = {} THEN tlb[i] ELSE Entry(CHOOSE v \in final : TRUE)]

(* ubuf_fault touches the buffer's pages in order, as a read whatever the  *)
(* call will do with them, and stops at the first that faults.             *)
Missing(first, last) == {v \in first .. last : Faults(v, FALSE)}

ubuf_fault(first, last, forwrite) ==
  \E v \in Missing(first, last) :
    /\ \A w \in Missing(first, last) : v <= w
    /\ ufault' = [pending |-> TRUE, va |-> v, write |-> forwrite]
    /\ tlb' = FillAll(first, v)

MayRead(first, last) ==
  /\ input > 0
  /\ "copied_first" \in Assumed =>
       \A v \in first .. last : ~pte[cur][v].wp

(* read(): the buffer is touched before the input is taken, then           *)
(* uwrite_mem copies out what there was, which may fill only a part of it. *)
ServeRead_mut(first, last) ==
  /\ MayRead(first, last)
  /\ User
  /\ input' = input - 1
  /\ IF Missing(first, last) # {}
       THEN ubuf_fault(first, last, TRUE) /\ UNCHANGED mem
       ELSE /\ \E upto \in first .. last :
                 mem' = [f \in Frames |->
                           IF \E v \in first .. upto : Entry(v).frame = f
                             THEN input % Cardinality(Val) ELSE mem[f]]
            /\ tlb' = FillAll(first, last)
            /\ UNCHANGED ufault
  /\ UNCHANGED <<pte, backing, alive, cur, kernel, reg>>

ServeRead(first, last) ==
  /\ MayRead(first, last)
  /\ User
  /\ IF Missing(first, last) # {}
       THEN ubuf_fault(first, last, TRUE) /\ UNCHANGED <<mem, input>>
       ELSE /\ \E upto \in first .. last :
                 mem' = [f \in Frames |->
                           IF \E v \in first .. upto : Entry(v).frame = f
                             THEN input % Cardinality(Val) ELSE mem[f]]
            /\ tlb' = FillAll(first, last)
            /\ input' = input - 1
            /\ UNCHANGED ufault
  /\ UNCHANGED <<pte, backing, alive, cur, kernel, reg>>

(* write(): the buffer is read out.                                        *)
ServeWrite(v) ==
  /\ User
  /\ IF Missing(v, v) # {}
       THEN ubuf_fault(v, v, FALSE) /\ UNCHANGED reg
       ELSE /\ reg' = mem[Entry(v).frame]
            /\ tlb' = Fill(v)
            /\ UNCHANGED ufault
  /\ UNCHANGED <<mem, pte, backing, alive, cur, kernel, input>>

(* The raw disk's block ioctl reads its request without ubuf_fault: from a *)
(* page that is not there translate() yields address 0, and a fault.       *)
ServeIoctl(v) ==
  /\ "request_present" \in Assumed => ~Faults(v, FALSE)
  /\ User
  /\ IF Faults(v, FALSE)
       THEN /\ ufault' = [pending |-> TRUE, va |-> v, write |-> FALSE]
            /\ reg' \in Val
       ELSE /\ reg' = mem[Entry(v).frame]
            /\ UNCHANGED ufault
  /\ tlb' = Fill(v)
  /\ UNCHANGED <<mem, pte, backing, alive, cur, kernel, input>>

(* run_sys hands a recorded fault to the kernel.                           *)
RaiseFault ==
  /\ ufault.pending
  /\ kernel' = TRUE
  /\ ufault' = [ufault EXCEPT !.pending = FALSE]
  /\ UNCHANGED <<mem, pte, backing, alive, cur, tlb, reg, input>>

(***************************************************************************)
(* The kernel                                                              *)
(***************************************************************************)
Mappers(f) == {pv \in alive \X Pages : pte[pv[1]][pv[2]].frame = f}
FreeFrames == {f \in Frames : Mappers(f) = {}}

(* A write to the CMMU's command register, other than a probe, and one to  *)
(* an area pointer both empty the cache.                                   *)
tlb_flush == tlb' = EmptyTlb

KInterrupt ==
  /\ User
  /\ kernel' = TRUE
  /\ UNCHANGED <<mem, pte, backing, alive, cur, tlb, ufault, reg, input>>

KReturn ==
  /\ kernel
  /\ kernel' = FALSE
  /\ UNCHANGED <<mem, pte, backing, alive, cur, tlb, ufault, reg, input>>

(* vm_fault, for the fault just delivered: a missing page is read in, and  *)
(* a store to a protected one gets a frame nobody else maps.               *)
KVmFault ==
  LET v == ufault.va
      old == pte[cur][v]
      Set(f, protect) == pte' = [pte EXCEPT ![cur][v] = [frame |-> f, wp |-> protect]]
  IN
  /\ kernel
  /\ \/ /\ old.frame = None
        /\ \E f \in FreeFrames, protect \in BOOLEAN :
             /\ protect => ~ufault.write
             /\ Set(f, protect)
             /\ mem' = [mem EXCEPT ![f] = backing[cur][v]]
     \/ /\ old.frame # None /\ old.wp /\ ufault.write
        /\ IF Cardinality(Mappers(old.frame)) = 1
             THEN Set(old.frame, FALSE) /\ UNCHANGED mem
             ELSE \E f \in FreeFrames :
                    /\ Set(f, FALSE)
                    /\ mem' = [mem EXCEPT ![f] = mem[old.frame]]
  /\ tlb_flush
  /\ ufault' = NoFault
  /\ UNCHANGED <<backing, alive, cur, kernel, reg, input>>

KPageOut ==
  /\ kernel
  /\ \E f \in Frames \ FreeFrames :
       /\ backing' = [p \in Procs |-> [v \in Pages |->
                        IF <<p, v>> \in Mappers(f) THEN mem[f] ELSE backing[p][v]]]
       /\ pte' = [p \in Procs |-> [v \in Pages |->
                    IF <<p, v>> \in Mappers(f) THEN NoPte ELSE pte[p][v]]]
  /\ tlb_flush
  /\ UNCHANGED <<mem, alive, cur, kernel, ufault, reg, input>>

KFork ==
  LET shared == [v \in Pages |-> IF pte[cur][v].frame = None THEN NoPte
                                 ELSE [frame |-> pte[cur][v].frame, wp |-> TRUE]]
  IN
  /\ kernel
  /\ \E c \in Procs \ alive :
       /\ alive' = alive \cup {c}
       /\ pte' = [pte EXCEPT ![cur] = shared, ![c] = shared]
       /\ backing' = [backing EXCEPT ![c] = backing[cur]]
  /\ tlb_flush
  /\ UNCHANGED <<mem, cur, kernel, ufault, reg, input>>

(* pmap_activate writes the area pointers.                                 *)
Activate_mut(p) == cur' = p /\ UNCHANGED tlb

Activate(p) == cur' = p /\ tlb_flush

KSwitch ==
  /\ kernel
  /\ \E p \in alive \ {cur} : Activate(p)
  /\ UNCHANGED <<mem, pte, backing, alive, kernel, ufault, reg, input>>

Instruction == \E v \in Pages : Load(v) \/ \E x \in Val : Store(v, x)

Serve == \E v \in Pages : \/ \E last \in v .. NPages - 1 : ServeRead(v, last)
                          \/ ServeWrite(v)
                          \/ ServeIoctl(v)

Kernel == \/ KInterrupt \/ KReturn \/ KVmFault \/ KPageOut \/ KFork \/ KSwitch

Next == Instruction \/ Serve \/ RaiseFault \/ Kernel

Spec == Init /\ [][Next]_vars

(***************************************************************************)
(* Properties                                                              *)
(***************************************************************************)

(* The cache is a part of the current process's tables, write protection   *)
(* included: no entry outlives a change of process or of descriptor        *)
(* ("the two hardware events that invalidate a translation are both        *)
(* modelled", cpu.c:1593).                                                 *)
TlbCoherent ==
  \A i \in Slots : LET e == tlb[i] IN
    e.tag # None => Walk(e.tag) = [frame |-> e.frame, wp |-> e.wp]

Contents ==
  [p \in Procs |-> [v \in Pages |->
     IF pte[p][v].frame # None THEN mem[pte[p][v].frame] ELSE backing[p][v]]]

(* A line taken off the host has reached the reader's buffer: "fault       *)
(* first, and on a missing page ... the syscall re-runs once the kernel    *)
(* has paged it in, input still unread" (console.c:747).                   *)
InputReachesBuffer ==
  [][input' # input =>
       /\ ~ufault'.pending
       /\ \E v \in Pages : Contents'[cur][v] = input % Cardinality(Val)]_vars

(* Sharing, paging and the cache are invisible: "parent and child ...      *)
(* textbook COW" (mmu.c:199) means each keeps its own memory, and a served *)
(* call reads and writes what the caller has there.                        *)
Memory == INSTANCE AddressSpaces WITH val <- Contents

Private == Memory!ASpec
=============================================================================
