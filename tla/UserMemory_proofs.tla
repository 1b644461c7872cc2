------------------------- MODULE UserMemory_proofs -------------------------
(***************************************************************************)
(* For any number of processes, pages, frames and cache lines: the         *)
(* translation cache never disagrees with the page tables, and with paging *)
(* and copy-on-write sharing it is invisible to the processes.             *)
(***************************************************************************)
EXTENDS UserMemory, FiniteSetTheorems, TLAPS

(* The two parts of the state a step may disturb: everything but the cache *)
(* has its type, and t is a cache the current page tables agree with.      *)
Typed ==
  /\ mem \in [Frames -> Val]
  /\ pte \in [Procs -> [Pages -> Pte]]
  /\ backing \in [Procs -> [Pages -> Val]]
  /\ alive \subseteq Procs /\ cur \in alive
  /\ kernel \in BOOLEAN
  /\ ufault \in Fault
  /\ reg \in Val
  /\ input \in 0 .. MaxInput

Line(e, i) ==
  e.tag # None => /\ Slot(e.tag) = i /\ e.frame # None
                  /\ Walk(e.tag) = [frame |-> e.frame, wp |-> e.wp]

Cached(t) == t \in [Slots -> TlbEnt] /\ \A i \in Slots : Line(t[i], i)

Inv == Typed /\ Cached(tlb)

LEMMA InvIsBoth == Inv <=> TypeOK /\ TlbCoherent
  BY DEF Inv, Typed, Cached, Line, TypeOK, TlbCoherent

LEMMA SlotType == \A v \in Pages : Slot(v) \in Slots /\ v # None
  BY MemoryAssumption DEF Pages, Slots, Slot

(* What translate() uses is what the page tables say, cached or not.       *)
LEMMA EntryAgrees ==
  ASSUME Inv, NEW v \in Pages
  PROVE  /\ Entry(v) \in TlbEnt /\ Entry(v).tag = v
         /\ Walk(v) = [frame |-> Entry(v).frame, wp |-> Entry(v).wp]
<1>1. Slot(v) \in Slots /\ v # None
  BY SlotType
<1>2. CASE tlb[Slot(v)].tag = v
  <2>1. Line(tlb[Slot(v)], Slot(v)) /\ tlb[Slot(v)] \in TlbEnt
    BY <1>1 DEF Inv, Cached
  <2> QED
    BY <1>1, <1>2, <2>1 DEF Entry, Line
<1>3. CASE tlb[Slot(v)].tag # v
  <2>1. Walk(v) \in Pte
    BY DEF Inv, Typed, Walk
  <2> QED
    BY <1>3, <2>1 DEF Entry, Pte, TlbEnt
<1> QED
  BY <1>2, <1>3

LEMMA EntryIsLine ==
  ASSUME Inv, NEW v \in Pages, Entry(v).frame # None
  PROVE  Entry(v) \in TlbEnt /\ Line(Entry(v), Slot(v))
  BY EntryAgrees DEF Line

LEMMA FillCached ==
  ASSUME Inv, NEW v \in Pages
  PROVE  Cached(Fill(v))
<1>1. CASE Entry(v).frame = None
  BY <1>1 DEF Fill, Inv
<1>2. CASE Entry(v).frame # None
  BY <1>2, EntryIsLine, SlotType DEF Fill, Cached, Inv
<1> QED
  BY <1>1, <1>2

LEMMA FillAllCached ==
  ASSUME Inv, NEW first \in Pages, NEW last \in Pages
  PROVE  Cached(FillAll(first, last))
<1> SUFFICES ASSUME NEW i \in Slots
             PROVE  /\ FillAll(first, last)[i] \in TlbEnt
                    /\ Line(FillAll(first, last)[i], i)
  BY DEF Cached, FillAll
<1> DEFINE final == Last(Through(i, first, last))
<1>1. FillAll(first, last)[i] =
        IF final = {} THEN tlb[i] ELSE Entry(CHOOSE v \in final : TRUE)
  BY DEF FillAll
<1>2. CASE final = {}
  BY <1>1, <1>2 DEF Inv, Cached
<1>3. CASE final # {}
  <2>1. PICK v : v = (CHOOSE w \in final : TRUE)
    OBVIOUS
  <2>2. v \in final
    BY <1>3, <2>1
  <2>3. v \in Pages /\ Slot(v) = i /\ Entry(v).frame # None
    BY <2>2, MemoryAssumption DEF Last, Through, Pages
  <2>4. Entry(v) \in TlbEnt /\ Line(Entry(v), i)
    BY <2>3, EntryIsLine
  <2> QED
    BY <1>1, <1>3, <2>1, <2>4
<1> QED
  BY <1>2, <1>3

(* A frame translate() hands out is one.                                   *)
LEMMA FrameType ==
  ASSUME Inv, NEW v \in Pages, Entry(v).frame # None
  PROVE  Entry(v).frame \in Frames
  BY EntryAgrees DEF TlbEnt

LEMMA FaultType ==
  /\ NoFault \in Fault
  /\ \A v \in Pages, write \in BOOLEAN :
       [pending |-> TRUE, va |-> v, write |-> write] \in Fault
  BY MemoryAssumption DEF NoFault, Fault, Pages

LEMMA InputValue == \A n \in Nat : n % Cardinality(Val) \in Val
<1>1. Cardinality(Val) \in Nat \ {0}
  BY MemoryAssumption, FS_CardinalityType, FS_EmptySet
<1> QED
  BY <1>1, MemoryAssumption

(* The cache survives a step that leaves the page tables alone, and an     *)
(* empty one agrees with any.                                              *)
LEMMA StillCached ==
  ASSUME UNCHANGED <<pte, cur>>, Cached(tlb')
  PROVE  Cached(tlb)'
  BY DEF Cached, Line, Walk

LEMMA FlushCached ==
  ASSUME tlb_flush
  PROVE  Cached(tlb)'
<1>1. tlb' \in [Slots -> TlbEnt] /\ \A i \in Slots : tlb'[i].tag = None
  BY DEF tlb_flush, EmptyTlb, NoEnt, TlbEnt
<1> QED
  BY <1>1 DEF Cached, Line

(* ubuf_fault records a page of the buffer.                                *)
LEMMA BufferFault ==
  ASSUME Inv, NEW first \in Pages, NEW last \in Pages, NEW forwrite \in BOOLEAN,
         ubuf_fault(first, last, forwrite)
  PROVE  ufault' \in Fault /\ Cached(tlb')
<1>1. PICK v \in Missing(first, last) :
        /\ ufault' = [pending |-> TRUE, va |-> v, write |-> forwrite]
        /\ tlb' = FillAll(first, v)
  BY DEF ubuf_fault
<1>2. v \in Pages
  BY MemoryAssumption DEF Missing, Pages
<1> QED
  BY <1>1, <1>2, FillAllCached DEF Fault

(***************************************************************************)
(* Instructions and served calls                                           *)
(***************************************************************************)
LEMMA InstructionKeeps == Inv /\ Instruction => Inv'
<1> SUFFICES ASSUME Inv, NEW v \in Pages,
                    Load(v) \/ \E x \in Val : Store(v, x)
             PROVE  Inv'
  BY DEF Instruction
<1>1. CASE Load(v)
  <2>1. Cached(tlb)'
    BY <1>1, FillCached, StillCached DEF Load
  <2>2. ufault' \in Fault
    <3>1. \/ ufault' = [pending |-> TRUE, va |-> v, write |-> FALSE]
          \/ ufault' = ufault
      BY <1>1 DEF Load
    <3> QED
      BY <3>1, FaultType DEF Inv, Typed
  <2>3. reg' \in Val
    <3>1. CASE Faults(v, FALSE)
      BY <1>1, <3>1 DEF Load, Inv, Typed
    <3>2. CASE ~Faults(v, FALSE)
      BY <1>1, <3>2, FrameType DEF Load, Faults, Inv, Typed
    <3> QED
      BY <3>1, <3>2
  <2> QED
    BY <1>1, <2>1, <2>2, <2>3 DEF Load, Inv, Typed
<1>2. CASE \E x \in Val : Store(v, x)
  <2>1. PICK x \in Val : Store(v, x)
    BY <1>2
  <2>2. Cached(tlb)'
    BY <2>1, FillCached, StillCached DEF Store
  <2>3. ufault' \in Fault
    <3>1. \/ ufault' = [pending |-> TRUE, va |-> v, write |-> TRUE]
          \/ ufault' = ufault
      BY <2>1 DEF Store
    <3> QED
      BY <3>1, FaultType DEF Inv, Typed
  <2>4. mem' \in [Frames -> Val]
    BY <2>1 DEF Store, Inv, Typed
  <2> QED
    BY <2>1, <2>2, <2>3, <2>4 DEF Store, Inv, Typed
<1> QED
  BY <1>1, <1>2

LEMMA ReadKeeps ==
  ASSUME Inv, NEW first \in Pages, NEW last \in Pages, ServeRead(first, last)
  PROVE  Inv'
<1>1. input \in Nat /\ input > 0 /\ input <= MaxInput
  BY MemoryAssumption DEF ServeRead, MayRead, Inv, Typed
<1>2. CASE Missing(first, last) # {}
  <2>1. /\ ubuf_fault(first, last, TRUE)
        /\ UNCHANGED <<mem, input, pte, backing, alive, cur, kernel, reg>>
    BY <1>2 DEF ServeRead
  <2>2. ufault' \in Fault /\ Cached(tlb)'
    BY <2>1, BufferFault, StillCached
  <2> QED
    BY <2>1, <2>2 DEF Inv, Typed
<1>3. CASE Missing(first, last) = {}
  <2>1. /\ tlb' = FillAll(first, last) /\ input' = input - 1
        /\ UNCHANGED <<ufault, pte, backing, alive, cur, kernel, reg>>
    BY <1>3 DEF ServeRead
  <2>2. Cached(tlb)'
    BY <2>1, FillAllCached, StillCached
  <2>3. mem' \in [Frames -> Val]
    <3>1. input % Cardinality(Val) \in Val
      BY <1>1, InputValue
    <3>2. PICK upto \in first .. last :
            mem' = [f \in Frames |->
                      IF \E v \in first .. upto : Entry(v).frame = f
                        THEN input % Cardinality(Val) ELSE mem[f]]
      BY <1>3 DEF ServeRead
    <3> QED
      BY <3>1, <3>2 DEF Inv, Typed
  <2>4. input' \in 0 .. MaxInput
    BY <1>1, <2>1, MemoryAssumption
  <2> QED
    BY <2>1, <2>2, <2>3, <2>4 DEF Inv, Typed
<1> QED
  BY <1>2, <1>3

LEMMA WriteKeeps ==
  ASSUME Inv, NEW v \in Pages, ServeWrite(v)
  PROVE  Inv'
<1>1. CASE Missing(v, v) # {}
  <2>1. /\ ubuf_fault(v, v, FALSE)
        /\ UNCHANGED <<mem, input, pte, backing, alive, cur, kernel, reg>>
    BY <1>1 DEF ServeWrite
  <2>2. ufault' \in Fault /\ Cached(tlb)'
    BY <2>1, BufferFault, StillCached
  <2> QED
    BY <2>1, <2>2 DEF Inv, Typed
<1>2. CASE Missing(v, v) = {}
  <2>1. Entry(v).frame # None
    BY <1>2, MemoryAssumption DEF Missing, Faults, Pages
  <2>2. /\ reg' = mem[Entry(v).frame] /\ tlb' = Fill(v)
        /\ UNCHANGED <<ufault, mem, pte, backing, alive, cur, kernel, input>>
    BY <1>2 DEF ServeWrite
  <2>3. Cached(tlb)'
    BY <2>2, FillCached, StillCached
  <2>4. reg' \in Val
    BY <2>1, <2>2, FrameType DEF Inv, Typed
  <2> QED
    BY <2>2, <2>3, <2>4 DEF Inv, Typed
<1> QED
  BY <1>1, <1>2

LEMMA IoctlKeeps ==
  ASSUME Inv, NEW v \in Pages, ServeIoctl(v)
  PROVE  Inv'
<1>1. Cached(tlb)'
  BY FillCached, StillCached DEF ServeIoctl
<1>2. ufault' \in Fault
  <2>1. \/ ufault' = [pending |-> TRUE, va |-> v, write |-> FALSE]
        \/ ufault' = ufault
    BY DEF ServeIoctl
  <2> QED
    BY <2>1, FaultType DEF Inv, Typed
<1>3. reg' \in Val
  <2>1. CASE Faults(v, FALSE)
    BY <2>1 DEF ServeIoctl
  <2>2. CASE ~Faults(v, FALSE)
    BY <2>2, FrameType DEF ServeIoctl, Faults, Inv, Typed
  <2> QED
    BY <2>1, <2>2
<1> QED
  BY <1>1, <1>2, <1>3 DEF ServeIoctl, Inv, Typed

LEMMA ServeKeeps == Inv /\ Serve => Inv'
<1> SUFFICES ASSUME Inv, NEW v \in Pages,
                    \/ \E last \in v .. NPages - 1 : ServeRead(v, last)
                    \/ ServeWrite(v) \/ ServeIoctl(v)
             PROVE  Inv'
  BY DEF Serve
<1>1. \A last \in v .. NPages - 1 : last \in Pages
  BY MemoryAssumption DEF Pages
<1> QED
  BY <1>1, ReadKeeps, WriteKeeps, IoctlKeeps

(***************************************************************************)
(* The kernel                                                              *)
(***************************************************************************)
LEMMA VmFaultKeeps == Inv /\ KVmFault => Inv'
<1> SUFFICES ASSUME Inv, KVmFault
             PROVE  Inv'
  OBVIOUS
<1> DEFINE v == ufault.va
           Set(f, protect) ==
             pte' = [pte EXCEPT ![cur][v] = [frame |-> f, wp |-> protect]]
<1>1. v \in Pages /\ cur \in Procs
  BY DEF Inv, Typed, Fault
<1>2. /\ Cached(tlb)'
      /\ ufault' \in Fault
      /\ UNCHANGED <<backing, alive, cur, kernel, reg, input>>
  BY FlushCached, FaultType DEF KVmFault
<1>3. \A f \in Frames, protect \in BOOLEAN :
        Set(f, protect) => pte' \in [Procs -> [Pages -> Pte]]
  <2> SUFFICES ASSUME NEW f \in Frames, NEW protect \in BOOLEAN, Set(f, protect)
               PROVE  pte' \in [Procs -> [Pages -> Pte]]
    OBVIOUS
  <2>1. [frame |-> f, wp |-> protect] \in Pte
    BY DEF Pte
  <2> QED
    BY <2>1 DEF Inv, Typed
<1>4. pte' \in [Procs -> [Pages -> Pte]] /\ mem' \in [Frames -> Val]
  <2>1. CASE pte[cur][v].frame = None
    <3>1. PICK f \in FreeFrames, protect \in BOOLEAN :
            Set(f, protect) /\ mem' = [mem EXCEPT ![f] = backing[cur][v]]
      BY <2>1 DEF KVmFault
    <3>2. f \in Frames /\ backing[cur][v] \in Val
      BY <1>1 DEF FreeFrames, Inv, Typed
    <3> QED
      BY <1>3, <3>1, <3>2 DEF Inv, Typed
  <2>2. CASE pte[cur][v].frame # None
    <3>1. pte[cur][v].frame \in Frames
      BY <1>1, <2>2 DEF Inv, Typed, Pte
    <3>2. CASE Set(pte[cur][v].frame, FALSE) /\ UNCHANGED mem
      BY <1>3, <3>1, <3>2 DEF Inv, Typed
    <3>3. CASE \E f \in FreeFrames :
                 Set(f, FALSE) /\ mem' = [mem EXCEPT ![f] = mem[pte[cur][v].frame]]
      <4>1. PICK f \in FreeFrames :
              Set(f, FALSE) /\ mem' = [mem EXCEPT ![f] = mem[pte[cur][v].frame]]
        BY <3>3
      <4>2. f \in Frames /\ mem[pte[cur][v].frame] \in Val
        BY <3>1 DEF FreeFrames, Inv, Typed
      <4> QED
        BY <1>3, <4>1, <4>2 DEF Inv, Typed
    <3> QED
      BY <2>2, <3>2, <3>3 DEF KVmFault
  <2> QED
    BY <2>1, <2>2
<1> QED
  BY <1>2, <1>4 DEF Inv, Typed

LEMMA PageOutKeeps == Inv /\ KPageOut => Inv'
<1> SUFFICES ASSUME Inv, KPageOut
             PROVE  Inv'
  OBVIOUS
<1>1. /\ Cached(tlb)'
      /\ UNCHANGED <<mem, alive, cur, kernel, ufault, reg, input>>
  BY FlushCached DEF KPageOut
<1>2. PICK f \in Frames \ FreeFrames :
        /\ backing' = [p \in Procs |-> [v \in Pages |->
                         IF <<p, v>> \in Mappers(f) THEN mem[f] ELSE backing[p][v]]]
        /\ pte' = [p \in Procs |-> [v \in Pages |->
                     IF <<p, v>> \in Mappers(f) THEN NoPte ELSE pte[p][v]]]
  BY DEF KPageOut
<1>3. NoPte \in Pte
  BY DEF NoPte, Pte
<1> QED
  BY <1>1, <1>2, <1>3 DEF Inv, Typed

LEMMA ForkKeeps == Inv /\ KFork => Inv'
<1> SUFFICES ASSUME Inv, KFork
             PROVE  Inv'
  OBVIOUS
<1> DEFINE shared == [v \in Pages |-> IF pte[cur][v].frame = None THEN NoPte
                                     ELSE [frame |-> pte[cur][v].frame, wp |-> TRUE]]
<1>1. /\ Cached(tlb)'
      /\ UNCHANGED <<mem, cur, kernel, ufault, reg, input>>
  BY FlushCached DEF KFork
<1>2. PICK c \in Procs \ alive :
        /\ alive' = alive \cup {c}
        /\ pte' = [pte EXCEPT ![cur] = shared, ![c] = shared]
        /\ backing' = [backing EXCEPT ![c] = backing[cur]]
  BY DEF KFork
<1>3. shared \in [Pages -> Pte]
  <2> SUFFICES ASSUME NEW v \in Pages
               PROVE  shared[v] \in Pte
    OBVIOUS
  <2>1. pte[cur][v].frame \in Frames \cup {None}
    BY DEF Inv, Typed, Pte
  <2> QED
    BY <2>1 DEF NoPte, Pte
<1>4. pte' \in [Procs -> [Pages -> Pte]]
  BY <1>2, <1>3 DEF Inv, Typed
<1>5. backing' \in [Procs -> [Pages -> Val]]
  BY <1>2 DEF Inv, Typed
<1> QED
  BY <1>1, <1>2, <1>4, <1>5 DEF Inv, Typed

LEMMA SwitchKeeps == Inv /\ KSwitch => Inv'
<1> SUFFICES ASSUME Inv, KSwitch
             PROVE  Inv'
  OBVIOUS
<1>1. PICK p \in alive : cur' = p /\ tlb_flush
  BY DEF KSwitch, Activate
<1>2. Cached(tlb)'
  BY <1>1, FlushCached
<1> QED
  BY <1>1, <1>2 DEF KSwitch, Inv, Typed

LEMMA KernelKeeps == Inv /\ Kernel => Inv'
<1>1. Inv /\ KInterrupt => Inv'
  BY StillCached DEF KInterrupt, Inv, Typed
<1>2. Inv /\ KReturn => Inv'
  BY StillCached DEF KReturn, Inv, Typed
<1> QED
  BY <1>1, <1>2, VmFaultKeeps, PageOutKeeps, ForkKeeps, SwitchKeeps DEF Kernel

LEMMA RaiseKeeps == Inv /\ RaiseFault => Inv'
<1> SUFFICES ASSUME Inv, RaiseFault
             PROVE  Inv'
  OBVIOUS
<1>1. ufault' \in Fault
  BY DEF RaiseFault, Fault, Inv, Typed
<1> QED
  BY <1>1, StillCached DEF RaiseFault, Inv, Typed

(* Invariants of the specification, in whatever state the system is in.    *)
LEMMA Invariance == Spec => []Inv
<1>1. Init => Inv
  <2> SUFFICES ASSUME Init
               PROVE  Inv
    OBVIOUS
  <2>1. Cached(tlb)
    BY DEF Init, Cached, Line, EmptyTlb, NoEnt, TlbEnt
  <2>2. NoPte \in Pte
    BY DEF NoPte, Pte
  <2>3. /\ mem \in [Frames -> Val] /\ reg \in Val
        /\ backing \in [Procs -> [Pages -> Val]]
        /\ pte \in [Procs -> [Pages -> Pte]]
    BY <2>2 DEF Init
  <2>4. /\ alive \subseteq Procs /\ cur \in alive /\ kernel \in BOOLEAN
        /\ ufault \in Fault
    BY FaultType, MemoryAssumption DEF Init
  <2>5. input \in 0 .. MaxInput
    BY MemoryAssumption DEF Init
  <2> QED
    BY <2>1, <2>3, <2>4, <2>5 DEF Inv, Typed
<1>2. Inv /\ [Next]_vars => Inv'
  <2> SUFFICES ASSUME Inv, [Next]_vars
               PROVE  Inv'
    OBVIOUS
  <2>1. CASE Next
    BY <2>1, InstructionKeeps, ServeKeeps, RaiseKeeps, KernelKeeps DEF Next
  <2>2. CASE UNCHANGED vars
    BY <2>2, StillCached DEF vars, Inv, Typed
  <2> QED
    BY <2>1, <2>2
<1> QED
  BY <1>1, <1>2, PTL DEF Spec

(* "The two hardware events that invalidate a translation are both         *)
(* modelled" (cpu.c:1593): no process is ever served by an entry its page  *)
(* tables do not have, however many there are and however the cache is     *)
(* sized.                                                                  *)
THEOREM CacheAgrees == Spec => []TlbCoherent
  BY Invariance, InvIsBoth, PTL

(* Every fault recorded is for a page of the program, every value read or  *)
(* written is one a page holds, and every cache line holds a page that     *)
(* belongs in it, with a frame.                                            *)
THEOREM MemoryTyped == Spec => []TypeOK
  BY Invariance, InvIsBoth, PTL

(***************************************************************************)
(* Memory of one's own.  What makes sharing invisible: only processes that *)
(* exist have pages in memory, and a frame that two descriptors name is    *)
(* write protected in both.                                                *)
(***************************************************************************)
Sharing ==
  /\ IsFiniteSet(alive)
  /\ \A p \in Procs \ alive, v \in Pages : pte[p][v].frame = None
  /\ \A p, q \in Procs, v, w \in Pages :
       pte[p][v].frame # None /\ pte[p][v].frame = pte[q][w].frame /\ ~pte[p][v].wp
         => p = q /\ v = w

LEMMA SharingKept ==
  ASSUME Sharing, UNCHANGED <<alive, pte>>
  PROVE  Sharing'
  BY DEF Sharing

(* A free frame is one no descriptor names.                                *)
LEMMA FreeIsUnnamed ==
  ASSUME Inv, Sharing, NEW f \in FreeFrames
  PROVE  /\ f \in Frames /\ f # None
         /\ \A p \in Procs, v \in Pages : pte[p][v].frame # f
<1>1. f \in Frames /\ f # None
  BY MemoryAssumption DEF FreeFrames
<1>2. ASSUME NEW p \in Procs, NEW v \in Pages
      PROVE  pte[p][v].frame # f
  <2>1. CASE p \in alive
    <3>1. <<p, v>> \notin Mappers(f)
      BY DEF FreeFrames
    <3> QED
      BY <2>1, <3>1 DEF Mappers
  <2>2. CASE p \notin alive
    BY <1>1, <2>2 DEF Sharing
  <2> QED
    BY <2>1, <2>2
<1> QED
  BY <1>1, <1>2

(* A frame with one mapper is named by one descriptor.                     *)
LEMMA OneMapper ==
  ASSUME Inv, Sharing, NEW p \in alive, NEW v \in Pages,
         pte[p][v].frame # None, Cardinality(Mappers(pte[p][v].frame)) = 1
  PROVE  \A q \in Procs, w \in Pages :
           pte[q][w].frame = pte[p][v].frame => q = p /\ w = v
<1> DEFINE M == Mappers(pte[p][v].frame)
<1>1. IsFiniteSet(M)
  <2>1. IsFiniteSet(Pages)
    BY FS_Interval, MemoryAssumption DEF Pages
  <2>2. IsFiniteSet(alive \X Pages)
    BY <2>1, FS_Product DEF Sharing
  <2> QED
    BY <2>2, FS_Subset DEF Mappers
<1>2. PICK x : M = {x}
  BY <1>1, FS_Singleton
<1>3. <<p, v>> \in M
  BY DEF Mappers
<1> SUFFICES ASSUME NEW q \in Procs, NEW w \in Pages,
                    pte[q][w].frame = pte[p][v].frame
             PROVE  q = p /\ w = v
  OBVIOUS
<1>4. q \in alive
  BY DEF Sharing
<1>5. <<q, w>> \in M
  BY <1>4 DEF Mappers
<1> QED
  BY <1>2, <1>3, <1>5

(* vm_fault gives a page a frame of its own or its protection back.        *)
LEMMA VmFaultShares == Inv /\ Sharing /\ KVmFault => Sharing'
<1> SUFFICES ASSUME Inv, Sharing, KVmFault
             PROVE  Sharing'
  OBVIOUS
<1> DEFINE v == ufault.va
<1>1. v \in Pages /\ cur \in Procs /\ cur \in alive /\ alive' = alive
  BY DEF Inv, Typed, Fault, KVmFault
<1>2. PICK f, protect :
        /\ pte' = [pte EXCEPT ![cur][v] = [frame |-> f, wp |-> protect]]
        /\ \A q \in Procs, w \in Pages :
             pte[q][w].frame = f => q = cur /\ w = v
  <2>1. CASE pte[cur][v].frame = None
    BY <2>1, FreeIsUnnamed DEF KVmFault
  <2>2. CASE pte[cur][v].frame # None
    <3>1. \/ /\ Cardinality(Mappers(pte[cur][v].frame)) = 1
             /\ pte' = [pte EXCEPT ![cur][v] =
                          [frame |-> pte[cur][v].frame, wp |-> FALSE]]
          \/ \E g \in FreeFrames :
               pte' = [pte EXCEPT ![cur][v] = [frame |-> g, wp |-> FALSE]]
      BY <2>2 DEF KVmFault
    <3>2. CASE /\ Cardinality(Mappers(pte[cur][v].frame)) = 1
               /\ pte' = [pte EXCEPT ![cur][v] =
                            [frame |-> pte[cur][v].frame, wp |-> FALSE]]
      <4>1. \A q \in Procs, w \in Pages :
              pte[q][w].frame = pte[cur][v].frame => q = cur /\ w = v
        BY <1>1, <2>2, <3>2, OneMapper
      <4> QED
        BY <3>2, <4>1
    <3>3. CASE \E g \in FreeFrames :
                 pte' = [pte EXCEPT ![cur][v] = [frame |-> g, wp |-> FALSE]]
      <4>1. PICK g \in FreeFrames :
              pte' = [pte EXCEPT ![cur][v] = [frame |-> g, wp |-> FALSE]]
        BY <3>3
      <4>2. \A q \in Procs, w \in Pages : pte[q][w].frame # g
        BY FreeIsUnnamed
      <4> QED
        BY <4>1, <4>2
    <3> QED
      BY <3>1, <3>2, <3>3
  <2> QED
    BY <2>1, <2>2
<1>3. \A q \in Procs, w \in Pages :
        pte'[q][w] = IF q = cur /\ w = v THEN [frame |-> f, wp |-> protect]
                     ELSE pte[q][w]
  BY <1>1, <1>2 DEF Inv, Typed
<1>4. \A q \in Procs \ alive, w \in Pages : pte'[q][w].frame = None
  BY <1>1, <1>3 DEF Sharing
<1>5. ASSUME NEW p \in Procs, NEW q \in Procs, NEW u \in Pages, NEW w \in Pages,
             pte'[p][u].frame # None, pte'[p][u].frame = pte'[q][w].frame,
             ~pte'[p][u].wp
      PROVE  p = q /\ u = w
  <2>1. CASE p = cur /\ u = v
    BY <1>1, <1>2, <1>3, <1>5, <2>1
  <2>2. CASE ~(p = cur /\ u = v) /\ q = cur /\ w = v
    BY <1>1, <1>2, <1>3, <1>5, <2>2
  <2>3. CASE ~(p = cur /\ u = v) /\ ~(q = cur /\ w = v)
    BY <1>3, <1>5, <2>3 DEF Sharing
  <2> QED
    BY <2>1, <2>2, <2>3
<1> QED
  BY <1>1, <1>4, <1>5 DEF Sharing

(* A page taken out of memory is in no descriptor any more.                *)
LEMMA PageOutShares == Inv /\ Sharing /\ KPageOut => Sharing'
<1> SUFFICES ASSUME Inv, Sharing, KPageOut
             PROVE  Sharing'
  OBVIOUS
<1>1. PICK f \in Frames \ FreeFrames :
        pte' = [p \in Procs |-> [v \in Pages |->
                  IF <<p, v>> \in Mappers(f) THEN NoPte ELSE pte[p][v]]]
  BY DEF KPageOut
<1>2. \A p \in Procs, v \in Pages :
        pte'[p][v].frame = None \/ pte'[p][v] = pte[p][v]
  BY <1>1 DEF NoPte
<1>3. alive' = alive
  BY DEF KPageOut
<1> QED
  BY <1>2, <1>3 DEF Sharing

(* fork shares every page of the parent that is in memory, protected.      *)
LEMMA ForkShares == Inv /\ Sharing /\ KFork => Sharing'
<1> SUFFICES ASSUME Inv, Sharing, KFork
             PROVE  Sharing'
  OBVIOUS
<1> DEFINE shared == [v \in Pages |-> IF pte[cur][v].frame = None THEN NoPte
                                     ELSE [frame |-> pte[cur][v].frame, wp |-> TRUE]]
<1>1. PICK c \in Procs \ alive :
        /\ alive' = alive \cup {c}
        /\ pte' = [pte EXCEPT ![cur] = shared, ![c] = shared]
  BY DEF KFork
<1>2. cur \in alive /\ alive \subseteq Procs /\ c # cur
  BY <1>1 DEF Inv, Typed
<1>3. \A p \in Procs, v \in Pages :
        pte'[p][v] = IF p = cur \/ p = c THEN shared[v] ELSE pte[p][v]
  BY <1>1, <1>2 DEF Inv, Typed
<1>4. \A v \in Pages : /\ shared[v].frame = pte[cur][v].frame
                       /\ shared[v].frame # None => shared[v].wp
  BY DEF NoPte
<1> HIDE DEF shared
<1>5. IsFiniteSet(alive')
  BY <1>1, FS_AddElement DEF Sharing
<1>6. ASSUME NEW p \in Procs \ alive', NEW v \in Pages
      PROVE  pte'[p][v].frame = None
  <2>1. p \notin alive /\ p # c /\ p # cur
    BY <1>1, <1>2
  <2>2. pte'[p][v] = pte[p][v]
    BY <1>3, <2>1
  <2> QED
    BY <2>1, <2>2 DEF Sharing
<1>7. ASSUME NEW p \in Procs, NEW q \in Procs, NEW v \in Pages, NEW w \in Pages,
             pte'[p][v].frame # None, pte'[p][v].frame = pte'[q][w].frame,
             ~pte'[p][v].wp
      PROVE  p = q /\ v = w
  <2>1. p # cur /\ p # c /\ pte'[p][v] = pte[p][v]
    BY <1>3, <1>4, <1>7
  <2>2. CASE q = cur \/ q = c
    <3>1. pte[p][v].frame = pte[cur][w].frame
      BY <1>3, <1>4, <1>7, <2>1, <2>2
    <3> QED
      BY <1>2, <1>7, <2>1, <3>1 DEF Sharing
  <2>3. CASE q # cur /\ q # c
    BY <1>3, <1>7, <2>1, <2>3 DEF Sharing
  <2> QED
    BY <2>2, <2>3
<1> QED
  BY <1>5, <1>6, <1>7 DEF Sharing

LEMMA SharingInvariance == Spec => []Sharing
<1>1. Init => Sharing
  <2> SUFFICES ASSUME Init
               PROVE  Sharing
    OBVIOUS
  <2>1. IsFiniteSet(alive)
    BY FS_Singleton DEF Init
  <2>2. \A p \in Procs, v \in Pages : pte[p][v].frame = None
    BY DEF Init, NoPte
  <2> QED
    BY <2>1, <2>2 DEF Sharing
<1>2. Inv /\ Sharing /\ [Next]_vars => Sharing'
  <2> SUFFICES ASSUME Inv, Sharing, [Next]_vars
               PROVE  Sharing'
    OBVIOUS
  <2>1. CASE Instruction
    BY <2>1, SharingKept DEF Instruction, Load, Store
  <2>2. CASE Serve
    BY <2>2, SharingKept DEF Serve, ServeRead, ServeWrite, ServeIoctl
  <2>3. CASE RaiseFault \/ KInterrupt \/ KReturn \/ KSwitch
    BY <2>3, SharingKept DEF RaiseFault, KInterrupt, KReturn, KSwitch
  <2>4. CASE UNCHANGED vars
    BY <2>4, SharingKept DEF vars
  <2> QED
    BY <2>1, <2>2, <2>3, <2>4, VmFaultShares, PageOutShares, ForkShares DEF Next, Kernel
<1> QED
  BY <1>1, <1>2, Invariance, PTL DEF Spec

(***************************************************************************)
(* What a process has at a page, step by step                              *)
(***************************************************************************)
LEMMA ContentsOf ==
  \A p \in Procs, v \in Pages :
    Contents[p][v] = IF pte[p][v].frame # None THEN mem[pte[p][v].frame]
                     ELSE backing[p][v]
  BY DEF Contents

LEMMA ContentsKept ==
  ASSUME UNCHANGED <<mem, pte, backing>>
  PROVE  Contents' = Contents
  BY DEF Contents

(* A descriptor changed without changing what is found through it.         *)
LEMMA ContentsSame ==
  ASSUME \A p \in Procs, v \in Pages :
           (IF pte'[p][v].frame # None THEN mem'[pte'[p][v].frame]
            ELSE backing'[p][v]) = Contents[p][v]
  PROVE  Contents' = Contents
<1>1. Contents = [p \in Procs |-> [v \in Pages |-> Contents[p][v]]]
  BY DEF Contents
<1>2. Contents' = [p \in Procs |-> [v \in Pages |->
         IF pte'[p][v].frame # None THEN mem'[pte'[p][v].frame] ELSE backing'[p][v]]]
  BY DEF Contents
<1> QED
  BY <1>1, <1>2

LEMMA Stutters ==
  ASSUME Contents' = Contents, UNCHANGED <<alive, cur, reg>>
  PROVE  UNCHANGED Memory!avars
  BY DEF Memory!avars

LEMMA EntryWalks ==
  ASSUME Inv, NEW v \in Pages
  PROVE  pte[cur][v].frame = Entry(v).frame /\ pte[cur][v].wp = Entry(v).wp
<1>1. pte[cur][v] = [frame |-> Entry(v).frame, wp |-> Entry(v).wp]
  BY EntryAgrees DEF Walk
<1>2. pte[cur][v].frame = Entry(v).frame
  BY <1>1
<1>3. pte[cur][v].wp = Entry(v).wp
  BY <1>1
<1> QED
  BY <1>2, <1>3

(* A value read through the translation is what the process has there.     *)
LEMMA ReadsOwn ==
  ASSUME Inv, NEW v \in Pages, Entry(v).frame # None, reg' = mem[Entry(v).frame],
         UNCHANGED <<mem, pte, backing, alive, cur>>
  PROVE  Memory!Read
<1>1. cur \in Procs /\ pte[cur][v].frame = Entry(v).frame
  BY EntryWalks DEF Inv, Typed
<1>2. reg' = Contents[cur][v]
  BY <1>1, ContentsOf
<1>3. Contents' = Contents
  BY ContentsKept
<1> QED
  BY <1>2, <1>3 DEF Memory!Read

(* A value written to the frames of pages that are not write protected is  *)
(* seen at those pages and nowhere else.                                   *)
LEMMA WritesOwn ==
  ASSUME Inv, Sharing, NEW S \in SUBSET Pages, NEW x \in Val,
         \A v \in S : pte[cur][v].frame # None /\ ~pte[cur][v].wp,
         \A f \in Frames :
           mem'[f] = IF \E v \in S : pte[cur][v].frame = f THEN x ELSE mem[f],
         UNCHANGED <<pte, backing, alive, cur, reg>>
  PROVE  Memory!Write
<1>1. cur \in Procs
  BY DEF Inv, Typed
<1> DEFINE New(p, v) == IF p = cur /\ v \in S THEN x ELSE Contents[p][v]
<1>2. ASSUME NEW p \in Procs, NEW v \in Pages
      PROVE  (IF pte[p][v].frame # None THEN mem'[pte[p][v].frame]
              ELSE backing[p][v]) = New(p, v)
  <2>1. CASE pte[p][v].frame = None
    BY <1>1, <2>1, ContentsOf
  <2>2. CASE pte[p][v].frame # None
    <3>1. pte[p][v].frame \in Frames
      BY <2>2 DEF Inv, Typed, Pte
    <3>2. (\E w \in S : pte[cur][w].frame = pte[p][v].frame) <=> p = cur /\ v \in S
      BY <1>1, <2>2 DEF Sharing
    <3> QED
      BY <2>2, <3>1, <3>2, ContentsOf
  <2> QED
    BY <2>1, <2>2
<1>3. Contents' = [p \in Procs |-> [v \in Pages |-> New(p, v)]]
  <2>1. Contents' = [p \in Procs |-> [v \in Pages |->
           IF pte[p][v].frame # None THEN mem'[pte[p][v].frame] ELSE backing[p][v]]]
    BY DEF Contents
  <2> QED
    BY <1>2, <2>1
<1>4. Contents = [p \in Procs |-> [v \in Pages |-> Contents[p][v]]]
  BY DEF Contents
<1>5. Contents' = [Contents EXCEPT ![cur] =
                     [v \in Pages |-> IF v \in S THEN x ELSE @[v]]]
  <2> DEFINE W == [v \in Pages |-> IF v \in S THEN x ELSE Contents[cur][v]]
  <2>1. [v \in Pages |-> New(cur, v)] = W
    OBVIOUS
  <2>2. \A p \in Procs : p # cur => [v \in Pages |-> New(p, v)] = Contents[p]
    <3> SUFFICES ASSUME NEW p \in Procs, p # cur
                 PROVE  [v \in Pages |-> New(p, v)] = Contents[p]
      OBVIOUS
    <3>1. Contents[p] = [v \in Pages |-> Contents[p][v]]
      BY <1>4
    <3> QED
      BY <3>1
  <2>3. Contents' = [p \in Procs |-> IF p = cur THEN W ELSE Contents[p]]
    BY <1>3, <2>1, <2>2
  <2>4. [Contents EXCEPT ![cur] = W]
          = [p \in Procs |-> IF p = cur THEN W ELSE Contents[p]]
    BY <1>1, <1>4
  <2> QED
    BY <2>3, <2>4
<1> QED
  BY <1>5 DEF Memory!Write

LEMMA InstructionMaps ==
  ASSUME Inv, Sharing, Instruction
  PROVE  [Memory!ANext]_(Memory!avars)
<1> SUFFICES ASSUME NEW v \in Pages, Load(v) \/ \E x \in Val : Store(v, x)
             PROVE  [Memory!ANext]_(Memory!avars)
  BY DEF Instruction
<1>1. pte[cur][v].frame = Entry(v).frame /\ pte[cur][v].wp = Entry(v).wp
  BY EntryWalks
<1>2. CASE Load(v)
  <2>1. CASE Faults(v, FALSE)
    BY <1>2, <2>1, ContentsKept, Stutters DEF Load
  <2>2. CASE ~Faults(v, FALSE)
    BY <1>2, <2>2, ReadsOwn DEF Load, Faults, Memory!ANext
  <2> QED
    BY <2>1, <2>2
<1>3. CASE \E x \in Val : Store(v, x)
  <2>1. PICK x \in Val : Store(v, x)
    BY <1>3
  <2>2. CASE Faults(v, TRUE)
    BY <2>1, <2>2, ContentsKept, Stutters DEF Store
  <2>3. CASE ~Faults(v, TRUE)
    <3>1. pte[cur][v].frame # None /\ ~pte[cur][v].wp
      BY <1>1, <2>3 DEF Faults
    <3>2. /\ mem' = [mem EXCEPT ![pte[cur][v].frame] = x]
          /\ UNCHANGED <<pte, backing, alive, cur, reg>>
      BY <1>1, <2>1, <2>3 DEF Store
    <3>3. \A f \in Frames :
            mem'[f] = IF \E w \in {v} : pte[cur][w].frame = f THEN x ELSE mem[f]
      BY <3>2 DEF Inv, Typed
    <3>4. \A w \in {v} : pte[cur][w].frame # None /\ ~pte[cur][w].wp
      BY <3>1
    <3>5. {v} \in SUBSET Pages
      OBVIOUS
    <3>6. Memory!Write
      BY <3>2, <3>3, <3>4, <3>5, WritesOwn
    <3> QED
      BY <3>6 DEF Memory!ANext
  <2> QED
    BY <2>2, <2>3
<1> QED
  BY <1>2, <1>3

LEMMA ReadMaps ==
  ASSUME Inv, Sharing, "copied_first" \in Assumed,
         NEW first \in Pages, NEW last \in Pages, ServeRead(first, last)
  PROVE  [Memory!ANext]_(Memory!avars)
<1>1. CASE Missing(first, last) # {}
  BY <1>1, ContentsKept, Stutters DEF ServeRead
<1>2. CASE Missing(first, last) = {}
  <2>1. PICK upto \in first .. last :
          mem' = [f \in Frames |->
                    IF \E v \in first .. upto : Entry(v).frame = f
                      THEN input % Cardinality(Val) ELSE mem[f]]
    BY <1>2 DEF ServeRead
  <2>2. first .. upto \in SUBSET Pages
    BY MemoryAssumption DEF Pages
  <2>3. \A v \in first .. upto : v \in first .. last
    BY MemoryAssumption DEF Pages
  <2>4. \A v \in first .. upto : v \in Pages /\ pte[cur][v].frame = Entry(v).frame
    BY <2>2, EntryWalks
  <2>5. \A v \in first .. upto : pte[cur][v].frame # None /\ ~pte[cur][v].wp
    BY <1>2, <2>3, <2>4 DEF Missing, Faults, ServeRead, MayRead
  <2>6. \A f \in Frames :
          mem'[f] = IF \E v \in first .. upto : pte[cur][v].frame = f
                      THEN input % Cardinality(Val) ELSE mem[f]
    BY <2>1, <2>4
  <2>7. input \in Nat
    BY MemoryAssumption DEF Inv, Typed
  <2>8. Memory!Write
    BY <2>2, <2>5, <2>6, <2>7, InputValue, WritesOwn DEF ServeRead
  <2> QED
    BY <2>8 DEF Memory!ANext
<1> QED
  BY <1>1, <1>2

LEMMA ServeMaps ==
  ASSUME Inv, Sharing, "copied_first" \in Assumed, "request_present" \in Assumed,
         Serve
  PROVE  [Memory!ANext]_(Memory!avars)
<1> SUFFICES ASSUME NEW v \in Pages,
                    \/ \E last \in v .. NPages - 1 : ServeRead(v, last)
                    \/ ServeWrite(v) \/ ServeIoctl(v)
             PROVE  [Memory!ANext]_(Memory!avars)
  BY DEF Serve
<1>1. \A last \in v .. NPages - 1 : last \in Pages
  BY MemoryAssumption DEF Pages
<1>2. CASE ServeWrite(v)
  <2>1. CASE Missing(v, v) # {}
    BY <1>2, <2>1, ContentsKept, Stutters DEF ServeWrite
  <2>2. CASE Missing(v, v) = {}
    <3>1. Entry(v).frame # None
      BY <2>2, MemoryAssumption DEF Missing, Faults, Pages
    <3> QED
      BY <1>2, <2>2, <3>1, ReadsOwn DEF ServeWrite, Memory!ANext
  <2> QED
    BY <2>1, <2>2
<1>3. CASE ServeIoctl(v)
  BY <1>3, ReadsOwn DEF ServeIoctl, Faults, Memory!ANext
<1> QED
  BY <1>1, <1>2, <1>3, ReadMaps

(* vm_fault brings a page in, or copies it: what it holds stays the same.  *)
LEMMA VmFaultMaps ==
  ASSUME Inv, Sharing, KVmFault
  PROVE  UNCHANGED Memory!avars
<1> DEFINE v == ufault.va
<1>1. /\ v \in Pages /\ cur \in Procs /\ cur \in alive
      /\ UNCHANGED <<backing, alive, cur, reg>>
  BY DEF Inv, Typed, Fault, KVmFault
<1>2. ASSUME NEW f \in Frames, NEW protect \in BOOLEAN, f # None,
             pte' = [pte EXCEPT ![cur][v] = [frame |-> f, wp |-> protect]],
             mem' = [mem EXCEPT ![f] = Contents[cur][v]],
             \A q \in Procs, w \in Pages :
               pte[q][w].frame = f => q = cur /\ w = v
      PROVE  Contents' = Contents
  <2>1. \A q \in Procs, w \in Pages :
          pte'[q][w] = IF q = cur /\ w = v THEN [frame |-> f, wp |-> protect]
                       ELSE pte[q][w]
    BY <1>1, <1>2 DEF Inv, Typed
  <2>2. \A g \in Frames : mem'[g] = IF g = f THEN Contents[cur][v] ELSE mem[g]
    BY <1>2 DEF Inv, Typed
  <2>3. ASSUME NEW q \in Procs, NEW w \in Pages
        PROVE  (IF pte'[q][w].frame # None THEN mem'[pte'[q][w].frame]
                ELSE backing'[q][w]) = Contents[q][w]
    <3>1. CASE q = cur /\ w = v
      <4>1. pte'[q][w].frame = f
        BY <2>1, <3>1
      <4> QED
        BY <1>2, <2>2, <3>1, <4>1
    <3>2. CASE ~(q = cur /\ w = v)
      <4>1. pte'[q][w] = pte[q][w] /\ pte[q][w].frame # f
        BY <1>2, <2>1, <3>2
      <4>2. pte[q][w].frame # None => pte[q][w].frame \in Frames
        BY DEF Inv, Typed, Pte
      <4>3. pte[q][w].frame # None => mem'[pte[q][w].frame] = mem[pte[q][w].frame]
        BY <2>2, <4>1, <4>2
      <4> QED
        BY <1>1, <4>1, <4>3, ContentsOf
    <3> QED
      BY <3>1, <3>2
  <2> QED
    BY <2>3, ContentsSame
<1>3. Contents' = Contents
  <2>1. CASE pte[cur][v].frame = None
    <3>1. PICK f \in FreeFrames, protect \in BOOLEAN :
            /\ pte' = [pte EXCEPT ![cur][v] = [frame |-> f, wp |-> protect]]
            /\ mem' = [mem EXCEPT ![f] = backing[cur][v]]
      BY <2>1 DEF KVmFault
    <3>2. Contents[cur][v] = backing[cur][v]
      BY <1>1, <2>1, ContentsOf
    <3>3. f \in Frames /\ f # None /\ \A q \in Procs, w \in Pages : pte[q][w].frame # f
      BY FreeIsUnnamed
    <3>4. mem' = [mem EXCEPT ![f] = Contents[cur][v]]
      BY <3>1, <3>2
    <3> QED
      BY <1>2, <3>1, <3>3, <3>4
  <2>2. CASE pte[cur][v].frame # None
    <3>1. /\ pte[cur][v].frame \in Frames
          /\ Contents[cur][v] = mem[pte[cur][v].frame]
      BY <1>1, <2>2, ContentsOf DEF Inv, Typed, Pte
    <3>2. CASE /\ Cardinality(Mappers(pte[cur][v].frame)) = 1
               /\ pte' = [pte EXCEPT ![cur][v] =
                            [frame |-> pte[cur][v].frame, wp |-> FALSE]]
               /\ UNCHANGED mem
      <4>1. \A q \in Procs, w \in Pages :
              pte[q][w].frame = pte[cur][v].frame => q = cur /\ w = v
        BY <1>1, <2>2, <3>2, OneMapper
      <4>2. mem' = [mem EXCEPT ![pte[cur][v].frame] = Contents[cur][v]]
        BY <3>1, <3>2 DEF Inv, Typed
      <4> QED
        BY <1>2, <2>2, <3>1, <3>2, <4>1, <4>2
    <3>3. CASE \E g \in FreeFrames :
                 /\ pte' = [pte EXCEPT ![cur][v] = [frame |-> g, wp |-> FALSE]]
                 /\ mem' = [mem EXCEPT ![g] = mem[pte[cur][v].frame]]
      <4>1. PICK g \in FreeFrames :
              /\ pte' = [pte EXCEPT ![cur][v] = [frame |-> g, wp |-> FALSE]]
              /\ mem' = [mem EXCEPT ![g] = mem[pte[cur][v].frame]]
        BY <3>3
      <4>2. g \in Frames /\ g # None /\ \A q \in Procs, w \in Pages : pte[q][w].frame # g
        BY FreeIsUnnamed
      <4>3. mem' = [mem EXCEPT ![g] = Contents[cur][v]]
        BY <3>1, <4>1
      <4> QED
        BY <1>2, <4>1, <4>2, <4>3
    <3> QED
      BY <2>2, <3>2, <3>3 DEF KVmFault
  <2> QED
    BY <2>1, <2>2
<1> QED
  BY <1>1, <1>3, Stutters

(* A page taken out is kept behind every descriptor that named it.         *)
LEMMA PageOutMaps ==
  ASSUME Inv, Sharing, KPageOut
  PROVE  UNCHANGED Memory!avars
<1>1. PICK f \in Frames \ FreeFrames :
        /\ backing' = [p \in Procs |-> [v \in Pages |->
                         IF <<p, v>> \in Mappers(f) THEN mem[f] ELSE backing[p][v]]]
        /\ pte' = [p \in Procs |-> [v \in Pages |->
                     IF <<p, v>> \in Mappers(f) THEN NoPte ELSE pte[p][v]]]
  BY DEF KPageOut
<1>2. UNCHANGED <<mem, alive, cur, reg>>
  BY DEF KPageOut
<1>3. ASSUME NEW p \in Procs, NEW v \in Pages
      PROVE  (IF pte'[p][v].frame # None THEN mem'[pte'[p][v].frame]
              ELSE backing'[p][v]) = Contents[p][v]
  <2>1. CASE <<p, v>> \in Mappers(f)
    <3>1. pte[p][v].frame = f /\ f # None
      BY <2>1, MemoryAssumption DEF Mappers
    <3>2. pte'[p][v].frame = None /\ backing'[p][v] = mem[f]
      BY <1>1, <2>1 DEF NoPte
    <3> QED
      BY <3>1, <3>2, ContentsOf
  <2>2. CASE <<p, v>> \notin Mappers(f)
    <3>1. pte'[p][v] = pte[p][v] /\ backing'[p][v] = backing[p][v]
      BY <1>1, <2>2
    <3> QED
      BY <1>2, <3>1, ContentsOf
  <2> QED
    BY <2>1, <2>2
<1> QED
  BY <1>2, <1>3, ContentsSame, Stutters

(* The child has what its parent had, and nobody's memory changes.         *)
LEMMA ForkMaps ==
  ASSUME Inv, Sharing, KFork
  PROVE  Memory!Fork
<1> DEFINE shared == [v \in Pages |-> IF pte[cur][v].frame = None THEN NoPte
                                     ELSE [frame |-> pte[cur][v].frame, wp |-> TRUE]]
<1>1. PICK c \in Procs \ alive :
        /\ alive' = alive \cup {c}
        /\ pte' = [pte EXCEPT ![cur] = shared, ![c] = shared]
        /\ backing' = [backing EXCEPT ![c] = backing[cur]]
  BY DEF KFork
<1>2. cur \in Procs /\ c # cur /\ UNCHANGED <<mem, cur, reg>>
  BY <1>1 DEF Inv, Typed, KFork
<1>3. \A v \in Pages : shared[v].frame = pte[cur][v].frame
  BY DEF NoPte
<1>4. \A p \in Procs, v \in Pages :
        pte'[p][v] = IF p = cur \/ p = c THEN shared[v] ELSE pte[p][v]
  BY <1>1, <1>2 DEF Inv, Typed
<1> HIDE DEF shared
<1>5. \A p \in Procs : backing'[p] = IF p = c THEN backing[cur] ELSE backing[p]
  BY <1>1 DEF Inv, Typed
<1> DEFINE From(p) == IF p = c THEN cur ELSE p
<1>6. ASSUME NEW p \in Procs, NEW v \in Pages
      PROVE  (IF pte'[p][v].frame # None THEN mem'[pte'[p][v].frame]
              ELSE backing'[p][v]) = Contents[From(p)][v]
  <2>1. /\ From(p) \in Procs
        /\ pte'[p][v].frame = pte[From(p)][v].frame
        /\ backing'[p][v] = backing[From(p)][v]
    BY <1>2, <1>3, <1>4, <1>5
  <2> QED
    BY <1>2, <2>1, ContentsOf
<1>7. Contents' = [p \in Procs |-> [v \in Pages |-> Contents[From(p)][v]]]
  <2>1. Contents' = [p \in Procs |-> [v \in Pages |->
           IF pte'[p][v].frame # None THEN mem'[pte'[p][v].frame] ELSE backing'[p][v]]]
    BY DEF Contents
  <2> QED
    BY <1>6, <2>1
<1>8. \A p \in Procs : Contents[p] = [v \in Pages |-> Contents[p][v]]
  BY DEF Contents
<1>9. Contents' = [p \in Procs |-> Contents[From(p)]]
  BY <1>2, <1>7, <1>8
<1>10. Contents' = [Contents EXCEPT ![c] = Contents[cur]]
  <2>1. Contents = [p \in Procs |-> Contents[p]]
    BY DEF Contents
  <2> QED
    BY <1>9, <2>1
<1> QED
  BY <1>1, <1>2, <1>10 DEF Memory!Fork

LEMMA KernelMaps ==
  ASSUME Inv, Sharing, Kernel
  PROVE  [Memory!ANext]_(Memory!avars)
<1>1. CASE KInterrupt \/ KReturn
  BY <1>1, ContentsKept, Stutters DEF KInterrupt, KReturn
<1>2. CASE KVmFault \/ KPageOut
  BY <1>2, VmFaultMaps, PageOutMaps
<1>3. CASE KFork
  BY <1>3, ForkMaps DEF Memory!ANext
<1>4. CASE KSwitch
  <2>1. Memory!Switch
    BY <1>4, ContentsKept DEF KSwitch, Activate, Memory!Switch
  <2> QED
    BY <2>1 DEF Memory!ANext
<1> QED
  BY <1>1, <1>2, <1>3, <1>4 DEF Kernel

(* "Parent and child ... textbook COW" (mmu.c:199): page tables, sharing,  *)
(* paging and the translation cache are invisible, and a call the emulator *)
(* serves reads and writes what its caller has, when a read's buffer is    *)
(* the caller's alone and a block ioctl's request is in memory.            *)
THEOREM MemoryIsPrivate ==
  ASSUME "copied_first" \in Assumed, "request_present" \in Assumed
  PROVE  Spec => Private
<1>1. Init => Memory!AInit
  <2> SUFFICES ASSUME Init
               PROVE  Memory!AInit
    OBVIOUS
  <2>1. PICK x \in Val : /\ mem = [f \in Frames |-> x]
                         /\ backing = [p \in Procs |-> [v \in Pages |-> x]]
                         /\ reg = x
    BY DEF Init
  <2>2. Contents = [p \in Procs |-> [v \in Pages |-> x]]
    <3>1. \A p \in Procs, v \in Pages : pte[p][v].frame = None
      BY DEF Init, NoPte
    <3> QED
      BY <2>1, <3>1 DEF Contents
  <2> QED
    BY <2>1, <2>2 DEF Init, Memory!AInit
<1>2. Inv /\ Sharing /\ [Next]_vars => [Memory!ANext]_(Memory!avars)
  <2> SUFFICES ASSUME Inv, Sharing, [Next]_vars
               PROVE  [Memory!ANext]_(Memory!avars)
    OBVIOUS
  <2>1. CASE RaiseFault \/ UNCHANGED vars
    BY <2>1, ContentsKept, Stutters DEF RaiseFault, vars
  <2> QED
    BY <2>1, InstructionMaps, ServeMaps, KernelMaps DEF Next
<1> QED
  BY <1>1, <1>2, Invariance, SharingInvariance, PTL DEF Spec, Private, Memory!ASpec

(* "Fault first, and on a missing page ... the syscall re-runs once the    *)
(* kernel has paged it in, input still unread" (console.c:747): a value    *)
(* taken off the terminal is in the reader's memory when the call returns, *)
(* whichever pages of its buffer were there, shared or cached.             *)
THEOREM InputIsDelivered == Spec => InputReachesBuffer
<1> DEFINE Delivered == input' # input =>
             /\ ~ufault'.pending
             /\ \E v \in Pages : Contents'[cur][v] = input % Cardinality(Val)
<1>1. Inv /\ [Next]_vars => Delivered
  <2> SUFFICES ASSUME Inv, [Next]_vars, input' # input
               PROVE  /\ ~ufault'.pending
                      /\ \E v \in Pages : Contents'[cur][v] = input % Cardinality(Val)
    OBVIOUS
  <2>1. PICK v \in Pages : \E last \in v .. NPages - 1 : ServeRead(v, last)
    BY DEF Next, vars, Instruction, Load, Store, Serve, ServeWrite, ServeIoctl,
           RaiseFault, Kernel, KInterrupt, KReturn, KVmFault, KPageOut, KFork, KSwitch
  <2>2. PICK last \in v .. NPages - 1 : ServeRead(v, last)
    BY <2>1
  <2>3. /\ Missing(v, last) = {} /\ UNCHANGED <<ufault, pte, backing, cur>>
        /\ ~ufault.pending
    BY <2>2 DEF ServeRead, User
  <2>4. PICK upto \in v .. last :
          mem' = [f \in Frames |->
                    IF \E w \in v .. upto : Entry(w).frame = f
                      THEN input % Cardinality(Val) ELSE mem[f]]
    BY <2>2, <2>3 DEF ServeRead
  <2>5. v \in v .. upto /\ v \in v .. last
    BY MemoryAssumption DEF Pages
  <2>6. Entry(v).frame # None
    BY <2>3, <2>5 DEF Missing, Faults
  <2>7. mem'[Entry(v).frame] = input % Cardinality(Val)
    BY <2>4, <2>5, <2>6, FrameType
  <2>8. cur \in Procs /\ pte'[cur][v].frame = Entry(v).frame
    BY <2>3, EntryWalks DEF Inv, Typed
  <2>9. Contents'[cur][v] = input % Cardinality(Val)
    BY <2>6, <2>7, <2>8 DEF Contents
  <2> QED
    BY <2>3, <2>9
<1> QED
  BY <1>1, Invariance, PTL DEF Spec, InputReachesBuffer
=============================================================================
