---------------------------- MODULE Tty_proofs -----------------------------
(***************************************************************************)
(* The two halves of emu/console.c: which descriptors are the console's    *)
(* (FdSets), and what is read from it (Console).                           *)
(*                                                                         *)
(* As long as the table has a slot for every process, and no process is    *)
(* switched out inside a watched call, no process disturbs another's       *)
(* descriptor flags, whatever they do and however many they are.           *)
(* With the rest of what the model assumes of its guest, the flags are the *)
(* descriptors the kernel has open.                                        *)
(*                                                                         *)
(* As long as the decoder can tell the keys apart, the guest has read the  *)
(* beginning of what was typed, however many keys there are, however their *)
(* bytes were cut up and however many are asked for at a time.             *)
(***************************************************************************)
EXTENDS FdSets, Console, FiniteSetTheorems, SequenceTheorems, WellFoundedInduction,
        TLAPS

(***************************************************************************)
(* FdSets: one set of flags for each process                               *)
(***************************************************************************)

Pids == Procs \cup {InitPid}

(* What a switch relies on: the current process has a slot, only pids that *)
(* may exist have one, and a process inside a watched call is current.     *)
Inv ==
  /\ fdcur \in Procs /\ fdcur \in DOMAIN fdsets
  /\ DOMAIN fdsets \subseteq Pids
  /\ parent \in [Procs -> Pids]
  /\ call \in [Procs -> Call \cup {NoCall}]
  /\ \A p \in Procs : call[p] # NoCall => fdcur = p

(* What all system calls have in common.                                   *)
Switched(p) ==
  /\ MayTrap(p)
  /\ fdcur' = p
  /\ fdsets' = fd_switch(p).sets

(* fdslot finds a slot for every pid, and disturbs no other.               *)
LEMMA SlotFound ==
  ASSUME IsFiniteSet(Procs), Cardinality(Procs) < FDSETS,
         NEW sets, DOMAIN sets \subseteq Pids,
         NEW pid \in Pids
  PROVE  /\ pid \in DOMAIN fdslot(sets, pid)
         /\ DOMAIN fdslot(sets, pid) \subseteq Pids
         /\ \A q \in DOMAIN sets : /\ q \in DOMAIN fdslot(sets, pid)
                                   /\ fdslot(sets, pid)[q] = sets[q]
<1>1. CASE pid \in DOMAIN sets
  BY <1>1 DEF fdslot
<1>2. CASE pid \notin DOMAIN sets
  <2>1. IsFiniteSet(Pids) /\ Cardinality(Pids) <= FDSETS
    <3>1. InitPid \notin Procs
      BY FdAssumption
    <3>2. /\ IsFiniteSet(Pids)
          /\ Cardinality(Pids) = Cardinality(Procs) + 1
      BY <3>1, FS_AddElement DEF Pids
    <3>3. Cardinality(Procs) \in Nat /\ FDSETS \in Nat
      BY FS_CardinalityType, FdAssumption
    <3> QED
      BY <3>2, <3>3
  <2>2. /\ IsFiniteSet(Pids \ {pid})
        /\ Cardinality(Pids \ {pid}) = Cardinality(Pids) - 1
    BY <2>1, FS_RemoveElement
  <2>3. DOMAIN sets \subseteq Pids \ {pid}
    BY <1>2
  <2>4. Cardinality(DOMAIN sets) <= Cardinality(Pids \ {pid})
    BY <2>2, <2>3, FS_Subset
  <2>5. /\ Cardinality(DOMAIN sets) \in Nat
        /\ Cardinality(Pids) \in Nat
        /\ FDSETS \in Nat
    BY <2>1, <2>2, <2>3, FS_Subset, FS_CardinalityType, FdAssumption
  <2>6. ~(Cardinality(DOMAIN sets) >= FDSETS)
    BY <2>1, <2>2, <2>4, <2>5
  <2>7. fdslot(sets, pid) = With(sets, pid, NoFlags)
    BY <1>2, <2>6 DEF fdslot
  <2>8. DOMAIN With(sets, pid, NoFlags) = DOMAIN sets \cup {pid}
    BY DEF With
  <2>9. \A q \in DOMAIN sets : With(sets, pid, NoFlags)[q] = sets[q]
    BY <1>2 DEF With
  <2> HIDE DEF NoFlags
  <2> QED
    BY <2>7, <2>8, <2>9
<1> QED
  BY <1>1, <1>2

(* fd_switch keeps the flags of every process but the one that comes in:   *)
(* the outgoing one's working copy goes to its slot, nobody else's slot is *)
(* touched.                                                                *)
LEMMA SwitchKeeps ==
  ASSUME IsFiniteSet(Procs), Cardinality(Procs) < FDSETS, Inv,
         NEW p \in Procs
  PROVE  /\ p \in DOMAIN fd_switch(p).sets
         /\ DOMAIN fd_switch(p).sets \subseteq Pids
         /\ \A q \in Procs \ {p} :
              Owned(q) => /\ q \in DOMAIN fd_switch(p).sets
                          /\ fd_switch(p).sets[q] = FlagsOf(q)
<1>1. CASE p = fdcur
  <2>1. fd_switch(p).sets = fdsets
    BY <1>1 DEF fd_switch
  <2> QED
    BY <1>1, <2>1 DEF Inv, Owned, FlagsOf
<1>2. CASE p # fdcur
  <2> DEFINE saved == fd_save(fdsets, fdcur, live)
             slots == fdslot(saved, p)
             all == fdslot(slots, parent[p])
             seed == IF parent[p] \in DOMAIN all /\ ~Unseen(all[parent[p]])
                       THEN all[parent[p]] ELSE live
  <2>1. saved = With(fdsets, fdcur, live)
    BY DEF fd_save, fdslot, Inv
  <2>2. /\ DOMAIN saved \subseteq Pids
        /\ \A q \in Procs : Owned(q) => q \in DOMAIN saved
                                        /\ saved[q] = FlagsOf(q)
    <3>1. /\ DOMAIN saved = DOMAIN fdsets \cup {fdcur}
          /\ saved[fdcur] = live
          /\ \A z \in DOMAIN fdsets : z # fdcur => saved[z] = fdsets[z]
      BY <2>1 DEF With
    <3> HIDE DEF saved
    <3> QED
      BY <3>1 DEF Inv, Owned, FlagsOf, Pids
  <2>3. p \in Pids /\ parent[p] \in Pids
    BY DEF Inv, Pids
  <2> HIDE DEF saved
  <2>4. /\ p \in DOMAIN slots
        /\ DOMAIN slots \subseteq Pids
        /\ \A q \in Procs : Owned(q) => q \in DOMAIN slots
                                        /\ slots[q] = FlagsOf(q)
    BY <2>2, <2>3, SlotFound
  <2> HIDE DEF slots
  <2>5. /\ p \in DOMAIN all
        /\ DOMAIN all \subseteq Pids
        /\ \A q \in Procs : Owned(q) => q \in DOMAIN all
                                        /\ all[q] = FlagsOf(q)
    BY <2>3, <2>4, SlotFound
  <2>6. fd_switch(p).sets = IF ~Unseen(slots[p]) THEN slots
                            ELSE With(all, p, seed)
    BY <1>2, <2>4 DEF fd_switch, saved, slots
  <2> HIDE DEF all, seed
  <2>7. CASE ~Unseen(slots[p])
    BY <2>4, <2>6, <2>7
  <2>8. CASE Unseen(slots[p])
    <3>1. fd_switch(p).sets = With(all, p, seed)
      BY <2>6, <2>8
    <3>2. DOMAIN With(all, p, seed) = DOMAIN all \cup {p}
      BY DEF With
    <3>3. \A q \in Procs \ {p} : Owned(q) => With(all, p, seed)[q] = FlagsOf(q)
      BY <2>5 DEF With
    <3> QED
      BY <2>5, <3>1, <3>2, <3>3
  <2> QED
    BY <2>7, <2>8
<1> QED
  BY <1>1, <1>2

CallsOk == call \in [Procs -> Call \cup {NoCall}]
ParentsOk == parent \in [Procs -> Pids]

Undisturbed ==
  \A q \in Procs : Owned(q) /\ st[q] = "run" /\ ~Acts(q) =>
    Owned(q)' /\ FlagsOf(q)' = FlagsOf(q)

(* A system call disturbs nobody but its caller.                           *)
LEMMA SwitchIsolates ==
  ASSUME IsFiniteSet(Procs), Cardinality(Procs) < FDSETS,
         "atomic_calls" \in Assumed, Inv,
         NEW p \in Procs, Switched(p), CallsOk', ParentsOk',
         \A r \in Procs \ {p} : call'[r] = call[r]
  PROVE  Inv' /\ Undisturbed
<1>1. /\ p \in DOMAIN fd_switch(p).sets
      /\ DOMAIN fd_switch(p).sets \subseteq Pids
      /\ \A q \in Procs \ {p} :
           Owned(q) => /\ q \in DOMAIN fd_switch(p).sets
                       /\ fd_switch(p).sets[q] = FlagsOf(q)
  BY SwitchKeeps
<1>2. fdcur' = p /\ fdsets' = fd_switch(p).sets
  BY DEF Switched
<1>3. \A q \in Procs : call[q] = NoCall
  BY DEF Switched, MayTrap
<1>4. Inv'
  BY <1>1, <1>2, <1>3 DEF Inv, CallsOk, ParentsOk, Pids
<1>5. Undisturbed
  <2> SUFFICES ASSUME NEW q \in Procs, Owned(q), ~Acts(q)
               PROVE  Owned(q)' /\ FlagsOf(q)' = FlagsOf(q)
    BY DEF Undisturbed
  <2>1. q # p
    BY <1>2 DEF Acts
  <2>2. q \in DOMAIN fdsets' /\ fdsets'[q] = FlagsOf(q)
    BY <1>1, <1>2, <2>1
  <2> QED
    BY <1>2, <2>1, <2>2 DEF Owned, FlagsOf
<1> QED
  BY <1>4, <1>5

(* The return from a watched call marks the flags of the process that made *)
(* it, because that is still the current one.                              *)
LEMMA ReturnIsolates ==
  ASSUME Inv, NEW p \in Procs, call[p] # NoCall, call' = [call EXCEPT ![p] = NoCall],
         UNCHANGED <<fdsets, fdcur, parent>>
  PROVE  Inv' /\ Undisturbed
<1>1. fdcur = p /\ fdcur' = p
  BY DEF Inv
<1>2. call' \in [Procs -> Call \cup {NoCall}]
  BY DEF Inv
<1>3. \A r \in Procs \ {p} : call'[r] = call[r]
  BY DEF Inv
<1>4. Inv'
  BY <1>1, <1>2, <1>3 DEF Inv
<1>5. Undisturbed
  <2> SUFFICES ASSUME NEW q \in Procs, Owned(q), ~Acts(q)
               PROVE  Owned(q)' /\ FlagsOf(q)' = FlagsOf(q)
    BY DEF Undisturbed
  <2>1. q # p
    BY <1>1, <1>3 DEF Acts
  <2> QED
    BY <1>1, <2>1 DEF Owned, FlagsOf
<1> QED
  BY <1>4, <1>5

LEMMA StepIsolates ==
  ASSUME IsFiniteSet(Procs), Cardinality(Procs) < FDSETS,
         "atomic_calls" \in Assumed, Inv, Next
  PROVE  Inv' /\ Undisturbed
<1> SUFFICES ASSUME NEW p \in Procs, Step(p)
             PROVE  Inv' /\ Undisturbed
  BY DEF Next
<1>0. CallsOk /\ ParentsOk
  BY DEF Inv, CallsOk, ParentsOk
<1>1. CASE Plain(p)
  <2>1. Switched(p) /\ UNCHANGED <<call, parent>>
    BY <1>1 DEF Plain, Trap, Switched
  <2> QED
    BY <1>0, <2>1, SwitchIsolates DEF CallsOk, ParentsOk
<1>2. CASE Close(p)
  <2>1. Switched(p) /\ UNCHANGED <<call, parent>>
    BY <1>2 DEF Close, Trap, Switched
  <2> QED
    BY <1>0, <2>1, SwitchIsolates DEF CallsOk, ParentsOk
<1>3. CASE Fork(p)
  <2>1. Switched(p) /\ UNCHANGED call
    BY <1>3 DEF Fork, Trap, Switched
  <2>2. ParentsOk'
    BY <1>0, <1>3 DEF Fork, ParentsOk, Pids
  <2> QED
    BY <1>0, <2>1, <2>2, SwitchIsolates DEF CallsOk
<1>4. CASE Exit(p)
  <2>1. Switched(p) /\ UNCHANGED call
    BY <1>4 DEF Exit, Trap, Switched
  <2>2. ParentsOk'
    BY <1>0, <1>4 DEF Exit, ParentsOk, Pids
  <2> QED
    BY <1>0, <2>1, <2>2, SwitchIsolates DEF CallsOk
<1>5. CASE Enter(p)
  <2>1. PICK c \in Call : /\ Trap(p, Moved(c, fd_switch(p).live))
                         /\ call' = [call EXCEPT ![p] = c]
    BY <1>5 DEF Enter
  <2>2. Switched(p) /\ UNCHANGED parent
    BY <1>5, <2>1 DEF Enter, Trap, Switched
  <2>3. CallsOk' /\ \A r \in Procs \ {p} : call'[r] = call[r]
    BY <1>0, <2>1 DEF CallsOk
  <2> QED
    BY <1>0, <2>2, <2>3, SwitchIsolates DEF ParentsOk
<1>6. CASE Fail(p)
  BY <1>6, ReturnIsolates DEF Fail
<1>7. CASE Return(p)
  BY <1>7, ReturnIsolates DEF Return
<1> QED
  BY <1>1, <1>2, <1>3, <1>4, <1>5, <1>6, <1>7 DEF Step

(* "They must be per-process" (console.c:847): with a slot for every       *)
(* process and calls that are not preempted, no step of one process        *)
(* changes the flags of another, for any number of processes and           *)
(* descriptors and with none of the other assumptions.                     *)
THEOREM FlagsArePerProcess ==
  ASSUME IsFiniteSet(Procs), Cardinality(Procs) < FDSETS,
         "atomic_calls" \in Assumed
  PROVE  Spec => Isolated
<1>1. Init => Inv
  BY FdAssumption DEF Init, Inv, Pids
<1>2. Inv /\ [Next]_vars => Inv'
  <2> SUFFICES ASSUME Inv, [Next]_vars PROVE Inv'
    OBVIOUS
  <2>1. CASE Next
    BY <2>1, StepIsolates
  <2>2. CASE UNCHANGED vars
    BY <2>2 DEF vars, Inv
  <2> QED
    BY <2>1, <2>2
<1>3. Inv /\ [Next]_vars => [Undisturbed]_vars
  BY StepIsolates
<1> QED
  BY <1>1, <1>2, <1>3, PTL DEF Spec, Isolated, Undisturbed

(***************************************************************************)
(* Routing.  With a slot for every process, calls that are not preempted,  *)
(* a new child that is the first to make a call, descriptor 0 never closed *)
(* and dup2 of open descriptors, the flags of a process that is in no      *)
(* watched call are its open descriptors; those of one in a call are what  *)
(* the call has made of them so far; and a new child has those of its      *)
(* parent, which has made no call since.                                   *)
(***************************************************************************)
Shown(flags, tab) ==
  /\ flags \in Flags
  /\ flags.con = {fd \in Fds : tab[fd] = "tty"}
  /\ flags.dsk = {fd \in Fds : tab[fd] = "disk"}
  /\ flags.krn

Took(c, s) == IF c.src \in s THEN s \cup {c.dst} ELSE s \ {c.dst}

InCall(c, flags, w, tab) ==
  /\ w \in Watch /\ w.op = c.op
  /\ flags \in Flags /\ flags.krn
  /\ c.op = "dup2" =>
       /\ tab[c.src] # "none" /\ ~w.con /\ ~w.disk
       /\ flags.con = Took(c, {fd \in Fds : tab[fd] = "tty"})
       /\ flags.dsk = Took(c, {fd \in Fds : tab[fd] = "disk"})
  /\ c.op # "dup2" =>
       /\ Shown(flags, tab)
       /\ w.con <=> c.op = "dup" /\ tab[c.src] = "tty"
       /\ w.disk <=> \/ c.op = "dup" /\ tab[c.src] = "disk"
                     \/ c.op = "open" /\ c.dev = "disk"

Tables ==
  /\ live \in Flags
  /\ fdsets \in [DOMAIN fdsets -> Flags]
  /\ kfd \in [Procs -> [Fds -> Kinds]]
  /\ st \in [Procs -> {"none", "new", "run", "dead"}]
  /\ watch \in Watch \cup {NoCall}

Routing ==
  /\ Tables
  /\ \A p \in Procs : st[p] = "run" /\ call[p] = NoCall =>
       Owned(p) /\ Shown(FlagsOf(p), kfd[p])
  /\ \A p \in Procs : call[p] # NoCall =>
       st[p] = "run" /\ InCall(call[p], live, watch, kfd[p])
  /\ \A p \in Procs : st[p] = "new" =>
       /\ st[fdcur] = "run" /\ call[fdcur] = NoCall
       /\ parent[p] = fdcur /\ kfd[p] = kfd[fdcur]
  /\ \A p \in Procs : st[p] \in {"none", "new"} => p \notin DOMAIN fdsets

(* A table of sets stays one, and a new slot says nothing.                 *)
LEMMA SlotTyped ==
  ASSUME NEW sets, sets \in [DOMAIN sets -> Flags], NEW pid
  PROVE  /\ fdslot(sets, pid) \in [DOMAIN fdslot(sets, pid) -> Flags]
         /\ DOMAIN fdslot(sets, pid) \subseteq DOMAIN sets \cup {pid}
         /\ pid \notin DOMAIN sets /\ pid \in DOMAIN fdslot(sets, pid) =>
              fdslot(sets, pid)[pid] = NoFlags
<1>1. NoFlags \in Flags
  BY DEF NoFlags, Flags
<1> HIDE DEF NoFlags
<1>2. CASE fdslot(sets, pid) = sets
  BY <1>2
<1>3. CASE fdslot(sets, pid) = With(sets, pid, NoFlags)
  <2>1. /\ DOMAIN With(sets, pid, NoFlags) = DOMAIN sets \cup {pid}
        /\ With(sets, pid, NoFlags)[pid] = NoFlags
        /\ With(sets, pid, NoFlags) \in [DOMAIN sets \cup {pid} -> Flags]
    BY <1>1 DEF With
  <2> QED
    BY <1>3, <2>1
<1> QED
  BY <1>2, <1>3 DEF fdslot

(* The working copy that a system call finds shows what its process has    *)
(* open, whether it was current, comes back, or is seen for the first time.*)
LEMMA SwitchShows ==
  ASSUME IsFiniteSet(Procs), Cardinality(Procs) < FDSETS, Inv, Routing,
         "atomic_calls" \in Assumed, "child_first" \in Assumed,
         NEW p \in Procs, MayTrap(p)
  PROVE  /\ Shown(fd_switch(p).live, kfd[p])
         /\ fd_switch(p).sets \in [DOMAIN fd_switch(p).sets -> Flags]
         /\ DOMAIN fd_switch(p).sets \subseteq DOMAIN fdsets \cup {p}
<1> DEFINE saved == fd_save(fdsets, fdcur, live)
           slots == fdslot(saved, p)
           all == fdslot(slots, parent[p])
           seed == IF parent[p] \in DOMAIN all /\ ~Unseen(all[parent[p]])
                     THEN all[parent[p]] ELSE live
<1>1. /\ live \in Flags /\ fdsets \in [DOMAIN fdsets -> Flags]
      /\ fdcur \in Procs /\ fdcur \in DOMAIN fdsets
  BY DEF Inv, Routing, Tables
<1>2. st[p] \in {"new", "run"} /\ call[p] = NoCall
  BY DEF MayTrap
<1>3. \A q \in Procs : st[q] = "run" /\ call[q] = NoCall =>
        Owned(q) /\ Shown(FlagsOf(q), kfd[q])
  BY DEF Routing
<1>4. CASE p = fdcur
  <2>1. st[p] = "run"
    BY <1>1, <1>2, <1>4 DEF Routing
  <2>2. fd_switch(p).live = live /\ fd_switch(p).sets = fdsets
    BY <1>4 DEF fd_switch
  <2> QED
    BY <1>1, <1>2, <1>3, <1>4, <2>1, <2>2 DEF FlagsOf
<1>5. CASE p # fdcur
  <2>1. /\ DOMAIN saved = DOMAIN fdsets
        /\ saved \in [DOMAIN saved -> Flags]
        /\ saved[fdcur] = live
        /\ \A q \in DOMAIN fdsets : q # fdcur => saved[q] = fdsets[q]
    <3>1. saved = With(fdsets, fdcur, live)
      BY <1>1 DEF fd_save, fdslot
    <3> QED
      BY <1>1, <3>1 DEF With
  <2>2. DOMAIN saved \subseteq Pids /\ p \in Pids
    BY <2>1 DEF Inv, Pids
  <2> HIDE DEF saved
  <2>3. /\ p \in DOMAIN slots
        /\ \A q \in DOMAIN saved : q \in DOMAIN slots /\ slots[q] = saved[q]
    BY <2>2, SlotFound
  <2>4. /\ slots \in [DOMAIN slots -> Flags]
        /\ DOMAIN slots \subseteq DOMAIN fdsets \cup {p}
        /\ p \notin DOMAIN saved => slots[p] = NoFlags
    BY <2>1, <2>3, SlotTyped
  <2>5. fd_switch(p) = IF ~Unseen(slots[p]) THEN [live |-> slots[p], sets |-> slots]
                       ELSE [live |-> seed, sets |-> With(all, p, seed)]
    BY <1>5, <2>3 DEF fd_switch, saved
  <2> HIDE DEF slots
  <2>6. CASE st[p] = "run"
    <3>1. p \in DOMAIN fdsets /\ Shown(fdsets[p], kfd[p])
      BY <1>2, <1>3, <1>5, <2>6 DEF Owned, FlagsOf
    <3>2. slots[p] = fdsets[p]
      BY <1>5, <2>1, <2>3, <3>1
    <3>3. ~Unseen(slots[p])
      BY <3>1, <3>2 DEF Shown, Unseen
    <3>4. fd_switch(p) = [live |-> slots[p], sets |-> slots]
      BY <2>5, <3>3
    <3>5. fd_switch(p).live = slots[p] /\ fd_switch(p).sets = slots
      BY <3>4
    <3> QED
      BY <2>4, <3>1, <3>2, <3>5
  <2>7. CASE st[p] = "new"
    <3>1. /\ p \notin DOMAIN fdsets /\ parent[p] = fdcur
          /\ kfd[p] = kfd[fdcur] /\ Shown(live, kfd[fdcur])
      BY <1>1, <1>3, <2>7 DEF Routing, FlagsOf
    <3>2. Unseen(slots[p])
      BY <2>1, <2>4, <3>1 DEF NoFlags, Unseen
    <3>3. fdcur \in DOMAIN slots /\ slots[fdcur] = live
      BY <1>1, <2>1, <2>3
    <3>4. all = slots
      BY <3>1, <3>3 DEF fdslot
    <3>5. seed = live
      BY <3>1, <3>3, <3>4
    <3>6. fd_switch(p).live = live /\ fd_switch(p).sets = With(slots, p, live)
      BY <2>5, <3>2, <3>4, <3>5
    <3>7. /\ DOMAIN With(slots, p, live) = DOMAIN slots
          /\ With(slots, p, live) \in [DOMAIN slots -> Flags]
      BY <1>1, <2>3, <2>4 DEF With
    <3> QED
      BY <2>4, <3>1, <3>6, <3>7
  <2> QED
    BY <1>2, <2>6, <2>7
<1> QED
  BY <1>4, <1>5

(* A system call leaves the others' flags right, if it leaves its own      *)
(* right, or right so far.                                                 *)
LEMMA TrapRoutes ==
  ASSUME IsFiniteSet(Procs), Cardinality(Procs) < FDSETS, Inv, Routing,
         "atomic_calls" \in Assumed, "child_first" \in Assumed,
         NEW p \in Procs, Switched(p), CallsOk', ParentsOk',
         live' \in Flags, watch' \in Watch \cup {NoCall},
         kfd' \in [Procs -> [Fds -> Kinds]],
         st' \in [Procs -> {"none", "new", "run", "dead"}],
         \A q \in Procs \ {p} :
           /\ call'[q] = call[q]
           /\ st'[q] = "run" => st[q] = "run" /\ kfd'[q] = kfd[q]
           /\ st'[q] = "none" => st[q] = "none"
           /\ st'[q] = "new" /\ st[q] # "new" =>
                /\ st[q] = "none" /\ parent'[q] = p /\ kfd'[q] = kfd'[p]
                /\ st'[p] = "run" /\ call'[p] = NoCall,
         st'[p] \in {"run", "dead"},
         st'[p] = "run" /\ call'[p] = NoCall => Shown(live', kfd'[p]),
         call'[p] # NoCall =>
           st'[p] = "run" /\ InCall(call'[p], live', watch', kfd'[p])
  PROVE  Inv' /\ Routing'
<1>1. Inv' /\ Undisturbed
  BY SwitchIsolates
<1>2. MayTrap(p) /\ fdcur' = p /\ fdsets' = fd_switch(p).sets
  BY DEF Switched
<1>3. /\ fdsets' \in [DOMAIN fdsets' -> Flags]
      /\ DOMAIN fdsets' \subseteq DOMAIN fdsets \cup {p}
  BY <1>2, SwitchShows
<1>4. /\ \A q \in Procs : call[q] = NoCall
      /\ \A q \in Procs \ {p} : st[q] # "new"
  BY <1>2 DEF MayTrap
<1>5. Tables'
  BY <1>3 DEF Tables
<1>6. \A q \in Procs : st'[q] = "run" /\ call'[q] = NoCall =>
        Owned(q)' /\ Shown(FlagsOf(q)', kfd'[q])
  <2> SUFFICES ASSUME NEW q \in Procs, st'[q] = "run", call'[q] = NoCall
               PROVE  Owned(q)' /\ Shown(FlagsOf(q)', kfd'[q])
    OBVIOUS
  <2>1. CASE q = p
    BY <1>2, <2>1 DEF Owned, FlagsOf
  <2>2. CASE q # p
    <3>1. st[q] = "run" /\ kfd'[q] = kfd[q] /\ ~Acts(q)
      BY <1>2, <2>2 DEF Acts
    <3>2. Owned(q) /\ Shown(FlagsOf(q), kfd[q])
      BY <1>4, <3>1 DEF Routing
    <3>3. Owned(q)' /\ FlagsOf(q)' = FlagsOf(q)
      BY <1>1, <3>1, <3>2 DEF Undisturbed
    <3> QED
      BY <3>1, <3>2, <3>3
  <2> QED
    BY <2>1, <2>2
<1>7. \A q \in Procs : call'[q] # NoCall =>
        st'[q] = "run" /\ InCall(call'[q], live', watch', kfd'[q])
  BY <1>4
<1>8. \A q \in Procs : st'[q] = "new" =>
        /\ st'[fdcur'] = "run" /\ call'[fdcur'] = NoCall
        /\ parent'[q] = fdcur' /\ kfd'[q] = kfd'[fdcur']
  BY <1>2, <1>4
<1>9. \A q \in Procs : st'[q] \in {"none", "new"} => q \notin DOMAIN fdsets'
  BY <1>3, <1>4 DEF Routing
<1> QED
  BY <1>1, <1>5, <1>6, <1>7, <1>8, <1>9 DEF Routing

(* The kernel takes the lowest free descriptor, and there is one.          *)
LEMMA LowestIn ==
  ASSUME NEW s \in SUBSET Nat, s # {}
  PROVE  Lowest(s) \in s
<1>1. \E x \in s : \A y \in s : <<y, x>> \notin OpToRel(<, Nat)
  BY NatLessThanWellFounded, WFMin
<1>2. PICK x \in s : \A y \in s : <<y, x>> \notin OpToRel(<, Nat)
  BY <1>1
<1>3. \A y \in s : x <= y
  <2> SUFFICES ASSUME NEW y \in s PROVE x <= y
    OBVIOUS
  <2>1. <<y, x>> \in Nat \X Nat
    OBVIOUS
  <2>2. ~(y < x)
    BY <1>2, <2>1 DEF OpToRel
  <2> QED
    BY <2>2
<1> QED
  BY <1>3 DEF Lowest

(* What the kernel makes of a call is what was remembered of it.           *)
LEMMA ReturnShows ==
  ASSUME Inv, Routing, NEW p \in Procs, call[p] # NoCall, Return(p)
  PROVE  /\ kfd' \in [Procs -> [Fds -> Kinds]]
         /\ \A q \in Procs \ {p} : kfd'[q] = kfd[q]
         /\ watch' = NoCall
         /\ Shown(live', kfd'[p])
<1> DEFINE c == call[p]
           Free == {fd \in Fds : kfd[p][fd] = "none"}
           New == Lowest(Free)
           Second == Lowest(Free \ {New})
<1>0. PICK tab2, N : tab2 = Served(p, c).tab /\ N = Served(p, c).fds
  OBVIOUS
<1>1. /\ c \in Call /\ InCall(c, live, watch, kfd[p])
      /\ kfd \in [Procs -> [Fds -> Kinds]] /\ kfd[p] \in [Fds -> Kinds]
  BY DEF Inv, Routing, Tables
<1>2. Possible(p, c)
  BY DEF Return
<1>3. kfd' = [kfd EXCEPT ![p] = tab2]
  BY <1>0 DEF Return
<1>4. PICK C, D : /\ C = (IF watch.con THEN N ELSE {})
                  /\ D = (IF watch.disk THEN N ELSE {})
  OBVIOUS
<1>5. /\ live' = [con |-> live.con \cup C, dsk |-> live.dsk \cup D,
                  krn |-> live.krn \/ 0 \in N]
      /\ watch' = NoCall
  BY <1>0, <1>1, <1>4 DEF Return, InCall
<1>6. live' = [con |-> live.con \cup C, dsk |-> live.dsk \cup D, krn |-> TRUE]
  BY <1>1, <1>5 DEF InCall, Flags
<1>7. Fds \in SUBSET Nat /\ Free \in SUBSET Nat
  BY DEF Fds
<1>8. c.src \in Fds /\ c.dst \in Fds /\ c.op \in Watched /\ c.dev \in {"file", "disk"}
  BY <1>1 DEF Call
<1>9. tab2 \in [Fds -> Kinds] /\ Shown(live', tab2)
  <2>1. CASE c.op = "dup2"
    <3>1. tab2 = [kfd[p] EXCEPT ![c.dst] = kfd[p][c.src]] /\ N = {c.dst}
      BY <1>0, <2>1 DEF Served
    <3>2. tab2 \in [Fds -> Kinds]
      BY <1>1, <1>8, <3>1
    <3>3. ~watch.con /\ ~watch.disk /\ live \in Flags /\ live.krn
      BY <1>1, <2>1 DEF InCall
    <3>4. live.con = {fd \in Fds : tab2[fd] = "tty"}
      BY <1>1, <1>8, <2>1, <3>1 DEF InCall, Took
    <3>5. live.dsk = {fd \in Fds : tab2[fd] = "disk"}
      BY <1>1, <1>8, <2>1, <3>1 DEF InCall, Took
    <3>6. C = {} /\ D = {}
      BY <1>4, <3>3
    <3> QED
      BY <1>6, <3>2, <3>3, <3>4, <3>5, <3>6 DEF Shown, Flags
  <2>2. CASE c.op # "dup2"
    <3>1. Shown(live, kfd[p])
      BY <1>1, <2>2 DEF InCall
    <3>2. /\ watch.con <=> c.op = "dup" /\ kfd[p][c.src] = "tty"
          /\ watch.disk <=> \/ c.op = "dup" /\ kfd[p][c.src] = "disk"
                            \/ c.op = "open" /\ c.dev = "disk"
      BY <1>1, <2>2 DEF InCall
    <3>3. Free # {}
      <4>1. CASE c.op = "pipe"
        BY <1>2, <4>1, FS_EmptySet DEF Possible
      <4>2. CASE c.op \in {"dup", "open"}
        BY <1>2, <4>2 DEF Possible
      <4> QED
        BY <1>8, <2>2, <4>1, <4>2 DEF Watched
    <3>4. New \in Free
      BY <1>7, <3>3, LowestIn
    <3>5. CASE c.op = "pipe"
      <4>1. Free \ {New} # {}
        <5>1. IsFiniteSet(Fds)
          BY FdAssumption, FS_Interval DEF Fds
        <5>2. IsFiniteSet(Free)
          BY <5>1, FS_Subset
        <5>3. Cardinality(Free) \in Nat /\ Cardinality(Free) >= 2
          BY <1>2, <3>5, <5>2, FS_CardinalityType DEF Possible
        <5>4. /\ Cardinality(Free \ {New}) = Cardinality(Free) - 1
              /\ IsFiniteSet(Free \ {New})
          BY <3>4, <5>2, FS_RemoveElement
        <5>5. Cardinality(Free \ {New}) # 0
          BY <5>3, <5>4
        <5> QED
          BY <5>5, FS_EmptySet
      <4>2. Second \in Free \ {New}
        BY <1>7, <4>1, LowestIn
      <4> HIDE DEF New, Second
      <4>3. /\ tab2 = [kfd[p] EXCEPT ![New] = "file", ![Second] = "file"]
            /\ N = {New, Second}
        BY <1>0, <3>5 DEF Served, New, Second
      <4>4. tab2 \in [Fds -> Kinds]
        BY <1>1, <3>4, <4>2, <4>3 DEF Kinds
      <4>5. /\ N \in SUBSET Fds
            /\ \A fd \in N : kfd[p][fd] = "none" /\ tab2[fd] = "file"
            /\ \A fd \in Fds \ N : tab2[fd] = kfd[p][fd]
        BY <1>1, <3>4, <4>2, <4>3
      <4>6. C = {} /\ D = {}
        BY <1>4, <3>2, <3>5
      <4> HIDE DEF Free
      <4>7. live.con = {fd \in Fds : tab2[fd] = "tty"}
        BY <3>1, <4>5 DEF Shown
      <4>8. live.dsk = {fd \in Fds : tab2[fd] = "disk"}
        BY <3>1, <4>5 DEF Shown
      <4> QED
        BY <1>6, <4>4, <4>6, <4>7, <4>8 DEF Shown, Flags
    <3>6. CASE c.op \in {"dup", "open"}
      <4> DEFINE k == IF c.op = "dup" THEN kfd[p][c.src] ELSE c.dev
      <4> HIDE DEF New
      <4>1. tab2 = [kfd[p] EXCEPT ![New] = k] /\ N = {New}
        BY <1>0, <3>6 DEF Served, New
      <4>2. k \in Kinds
        BY <1>1, <1>8 DEF Kinds
      <4>3. /\ C = IF k = "tty" THEN N ELSE {}
            /\ D = IF k = "disk" THEN N ELSE {}
        <5>1. /\ watch.con <=> k = "tty"
              /\ watch.disk <=> k = "disk"
          BY <1>8, <3>2, <3>6
        <5> HIDE DEF k
        <5> QED
          BY <1>4, <5>1, Zenon
      <4> HIDE DEF k
      <4>4. tab2 \in [Fds -> Kinds]
        BY <1>1, <3>4, <4>1, <4>2
      <4>5. /\ N \in SUBSET Fds
            /\ \A fd \in N : kfd[p][fd] = "none" /\ tab2[fd] = k
            /\ \A fd \in Fds \ N : tab2[fd] = kfd[p][fd]
        BY <1>1, <3>4, <4>1
      <4> HIDE DEF Free
      <4>6. live.con \cup C = {fd \in Fds : tab2[fd] = "tty"}
        BY <3>1, <4>3, <4>5 DEF Shown
      <4>7. live.dsk \cup D = {fd \in Fds : tab2[fd] = "disk"}
        BY <3>1, <4>3, <4>5 DEF Shown
      <4> QED
        BY <1>6, <4>4, <4>6, <4>7 DEF Shown, Flags
    <3> QED
      BY <1>8, <2>2, <3>5, <3>6 DEF Watched
  <2> QED
    BY <2>1, <2>2
<1> QED
  BY <1>1, <1>3, <1>5, <1>9

(* The return from a watched call leaves its process right.                *)
LEMMA CallRoutes ==
  ASSUME Inv, Routing, NEW p \in Procs, call[p] # NoCall,
         call' = [call EXCEPT ![p] = NoCall],
         UNCHANGED <<fdsets, fdcur, st, parent>>,
         watch' \in Watch \cup {NoCall},
         kfd' \in [Procs -> [Fds -> Kinds]],
         \A q \in Procs \ {p} : kfd'[q] = kfd[q],
         Shown(live', kfd'[p])
  PROVE  Inv' /\ Routing'
<1>1. Inv' /\ Undisturbed
  BY ReturnIsolates
<1>2. fdcur = p /\ fdcur' = p /\ st[p] = "run"
  BY DEF Inv, Routing
<1>3. \A q \in Procs \ {p} : call[q] = NoCall /\ call'[q] = NoCall /\ st[q] # "new"
  BY <1>2 DEF Inv, Routing
<1>4. call'[p] = NoCall
  BY DEF Inv
<1>5. Tables'
  BY DEF Routing, Tables, Shown
<1>6. \A q \in Procs : st'[q] = "run" /\ call'[q] = NoCall =>
        Owned(q)' /\ Shown(FlagsOf(q)', kfd'[q])
  <2> SUFFICES ASSUME NEW q \in Procs, st'[q] = "run", call'[q] = NoCall
               PROVE  Owned(q)' /\ Shown(FlagsOf(q)', kfd'[q])
    OBVIOUS
  <2>1. CASE q = p
    BY <1>2, <2>1 DEF Owned, FlagsOf
  <2>2. CASE q # p
    <3>1. st[q] = "run" /\ kfd'[q] = kfd[q]
      BY <2>2
    <3>2. Owned(q) /\ Shown(FlagsOf(q), kfd[q])
      BY <1>3, <2>2, <3>1 DEF Routing
    <3>3. Owned(q)' /\ FlagsOf(q)' = FlagsOf(q)
      BY <1>2, <2>2, <3>2 DEF Owned, FlagsOf
    <3> QED
      BY <3>1, <3>2, <3>3
  <2> QED
    BY <2>1, <2>2
<1>7. \A q \in Procs : call'[q] = NoCall /\ st'[q] # "new"
  BY <1>2, <1>3, <1>4
<1>8. \A q \in Procs : st'[q] \in {"none", "new"} => q \notin DOMAIN fdsets'
  BY DEF Routing
<1> QED
  BY <1>1, <1>5, <1>6, <1>7, <1>8 DEF Routing

(* Removing a descriptor other than 0 removes it from what is shown.       *)
LEMMA ClosedShown ==
  ASSUME NEW flags, NEW tab \in [Fds -> Kinds], Shown(flags, tab),
         NEW fd \in Fds, fd # 0
  PROVE  Shown(Cleared(flags, fd), [tab EXCEPT ![fd] = "none"])
<1> DEFINE tab2 == [tab EXCEPT ![fd] = "none"]
<1>1. flags.con \ {fd} = {x \in Fds : tab2[x] = "tty"}
  BY DEF Shown
<1>2. flags.dsk \ {fd} = {x \in Fds : tab2[x] = "disk"}
  BY DEF Shown
<1>3. flags.krn = TRUE
  BY DEF Shown, Flags
<1> HIDE DEF tab2
<1>4. Shown(Cleared(flags, fd), tab2)
  BY <1>1, <1>2, <1>3 DEF Shown, Cleared, Flags
<1> QED
  BY <1>4 DEF tab2

(* What dup2 does at once, and what is remembered of the other calls.      *)
LEMMA EnteredIsInCall ==
  ASSUME NEW flags, NEW tab \in [Fds -> Kinds], Shown(flags, tab),
         NEW c \in Call, c.op = "dup2" => tab[c.src] # "none"
  PROVE  /\ Moved(c, flags) \in Flags /\ Remember(c, flags) \in Watch
         /\ InCall(c, Moved(c, flags), Remember(c, flags), tab)
<1> DEFINE m == Moved(c, flags)
           w == Remember(c, flags)
<1>1. /\ flags \in Flags /\ flags.krn = TRUE
      /\ flags.con = {fd \in Fds : tab[fd] = "tty"}
      /\ flags.dsk = {fd \in Fds : tab[fd] = "disk"}
  BY DEF Shown, Flags
<1>2. /\ c.src \in Fds /\ c.dst \in Fds /\ c.op \in Watched
  BY DEF Call
<1>3. /\ w.op = c.op
      /\ w.con <=> c.op = "dup" /\ c.src \in flags.con
      /\ w.disk <=> \/ c.op = "open" /\ c.dev = "disk"
                    \/ c.op = "dup" /\ c.src \in flags.dsk
      /\ w \in Watch
  BY <1>2 DEF Remember, Watch
<1>4. CASE c.op = "dup2"
  <2>1. m = [flags EXCEPT !.con = Took(c, flags.con), !.dsk = Took(c, flags.dsk)]
    BY <1>4 DEF Moved, Took
  <2>2. Took(c, flags.con) \in SUBSET Fds /\ Took(c, flags.dsk) \in SUBSET Fds
    BY <1>1, <1>2 DEF Took
  <2> HIDE DEF m, w
  <2>3. /\ m \in Flags /\ m.krn = TRUE
        /\ m.con = Took(c, flags.con) /\ m.dsk = Took(c, flags.dsk)
    BY <1>1, <2>1, <2>2 DEF Flags
  <2>4. ~w.con /\ ~w.disk
    BY <1>3, <1>4
  <2>5. InCall(c, m, w, tab)
    BY <1>1, <1>3, <1>4, <2>3, <2>4 DEF InCall
  <2> QED
    BY <1>3, <2>3, <2>5 DEF m, w
<1>5. CASE c.op # "dup2"
  <2>1. m = flags
    BY <1>5 DEF Moved
  <2> HIDE DEF m, w
  <2>2. w.con <=> c.op = "dup" /\ tab[c.src] = "tty"
    BY <1>1, <1>2, <1>3
  <2>3. w.disk <=> \/ c.op = "dup" /\ tab[c.src] = "disk"
                   \/ c.op = "open" /\ c.dev = "disk"
    BY <1>1, <1>2, <1>3
  <2>4. InCall(c, m, w, tab)
    BY <1>1, <1>3, <1>5, <2>1, <2>2, <2>3 DEF InCall
  <2> QED
    BY <1>1, <1>3, <2>1, <2>4 DEF m, w
<1> QED
  BY <1>4, <1>5

LEMMA StepRoutes ==
  ASSUME IsFiniteSet(Procs), Cardinality(Procs) < FDSETS, Assumed = Assumptions,
         Inv, Routing, Next
  PROVE  Inv' /\ Routing'
<1> SUFFICES ASSUME NEW p \in Procs, Step(p)
             PROVE  Inv' /\ Routing'
  BY DEF Next
<1>a. /\ "atomic_calls" \in Assumed /\ "child_first" \in Assumed
      /\ "keeps_stdin" \in Assumed /\ "open_source" \in Assumed
  BY DEF Assumptions
<1>b. CallsOk /\ ParentsOk /\ Tables
  BY DEF Inv, CallsOk, ParentsOk, Routing
<1>c. MayTrap(p) => /\ Shown(fd_switch(p).live, kfd[p])
                    /\ fd_switch(p).live \in Flags
                    /\ call[p] = NoCall
                    /\ \A q \in Procs \ {p} : st[q] # "new"
  BY <1>a, SwitchShows DEF MayTrap, Shown
<1>1. CASE Plain(p)
  <2>1. /\ Switched(p) /\ MayTrap(p) /\ live' = fd_switch(p).live
        /\ st' = [st EXCEPT ![p] = "run"]
        /\ UNCHANGED <<watch, kfd, call, parent>>
    BY <1>1 DEF Plain, Trap, Switched, Ran
  <2>2. CallsOk' /\ ParentsOk'
    BY <1>b, <2>1 DEF CallsOk, ParentsOk
  <2>3. /\ st' \in [Procs -> {"none", "new", "run", "dead"}]
        /\ st'[p] = "run"
        /\ \A q \in Procs \ {p} : st'[q] = st[q]
    BY <1>b, <2>1 DEF Tables
  <2>4. /\ live' \in Flags /\ Shown(live', kfd'[p]) /\ call'[p] = NoCall
        /\ watch' \in Watch \cup {NoCall} /\ kfd' \in [Procs -> [Fds -> Kinds]]
    BY <1>b, <1>c, <2>1 DEF Tables
  <2>5. /\ Switched(p)
        /\ \A q \in Procs \ {p} : call'[q] = call[q] /\ kfd'[q] = kfd[q]
    BY <2>1
  <2> QED
    BY <1>a, <2>2, <2>3, <2>4, <2>5, TrapRoutes
<1>2. CASE Close(p)
  <2>1. PICK fd \in Fds :
          /\ fd # 0
          /\ Trap(p, Cleared(fd_switch(p).live, fd))
          /\ kfd' = [kfd EXCEPT ![p][fd] = "none"]
    BY <1>2, <1>a DEF Close
  <2>2. /\ Switched(p) /\ MayTrap(p) /\ live' = Cleared(fd_switch(p).live, fd)
        /\ st' = [st EXCEPT ![p] = "run"]
        /\ UNCHANGED <<watch, call, parent>>
    BY <1>2, <2>1 DEF Close, Trap, Switched, Ran
  <2>3. CallsOk' /\ ParentsOk'
    BY <1>b, <2>2 DEF CallsOk, ParentsOk
  <2>4. /\ st' \in [Procs -> {"none", "new", "run", "dead"}]
        /\ st'[p] = "run"
        /\ \A q \in Procs \ {p} : st'[q] = st[q]
    BY <1>b, <2>2 DEF Tables
  <2>5. /\ kfd' \in [Procs -> [Fds -> Kinds]]
        /\ kfd'[p] = [kfd[p] EXCEPT ![fd] = "none"]
        /\ \A q \in Procs \ {p} : kfd'[q] = kfd[q]
    BY <1>b, <2>1 DEF Tables, Kinds
  <2>6. Shown(live', kfd'[p])
    <3>1. kfd[p] \in [Fds -> Kinds]
      BY <1>b DEF Tables
    <3> QED
      BY <1>c, <2>1, <2>2, <2>5, <3>1, ClosedShown
  <2>7. live' \in Flags /\ call'[p] = NoCall /\ watch' \in Watch \cup {NoCall}
    BY <1>b, <1>c, <2>2, <2>6 DEF Tables, Shown
  <2>8. Switched(p) /\ \A q \in Procs \ {p} : call'[q] = call[q]
    BY <2>2
  <2> QED
    BY <1>a, <2>3, <2>4, <2>5, <2>6, <2>7, <2>8, TrapRoutes
<1>3. CASE Fork(p)
  <2>1. PICK c \in Procs :
          /\ st[c] = "none"
          /\ Trap(p, fd_switch(p).live)
          /\ st' = [st EXCEPT ![p] = "run", ![c] = "new"]
          /\ kfd' = [kfd EXCEPT ![c] = kfd[p]]
          /\ parent' = [parent EXCEPT ![c] = p]
          /\ UNCHANGED <<watch, call>>
    BY <1>3 DEF Fork
  <2>2. Switched(p) /\ MayTrap(p) /\ live' = fd_switch(p).live /\ c # p
    BY <2>1 DEF Trap, Switched, MayTrap
  <2>3. CallsOk' /\ ParentsOk'
    BY <1>b, <2>1 DEF CallsOk, ParentsOk, Pids
  <2>4. /\ st' \in [Procs -> {"none", "new", "run", "dead"}]
        /\ st'[p] = "run" /\ st'[c] = "new" /\ parent'[c] = p
        /\ \A q \in Procs \ {p, c} : st'[q] = st[q]
    BY <1>b, <2>1, <2>2 DEF Tables, ParentsOk
  <2>5. /\ kfd' \in [Procs -> [Fds -> Kinds]]
        /\ kfd'[p] = kfd[p] /\ kfd'[c] = kfd[p]
        /\ \A q \in Procs \ {p, c} : kfd'[q] = kfd[q]
    BY <1>b, <2>1, <2>2 DEF Tables
  <2>6. /\ live' \in Flags /\ Shown(live', kfd'[p]) /\ call'[p] = NoCall
        /\ watch' \in Watch \cup {NoCall}
        /\ \A q \in Procs \ {p} : call'[q] = call[q]
    BY <1>b, <1>c, <2>1, <2>2, <2>5 DEF Tables
  <2>7. \A q \in Procs \ {p} :
          /\ call'[q] = call[q]
          /\ st'[q] = "run" => st[q] = "run" /\ kfd'[q] = kfd[q]
          /\ st'[q] = "none" => st[q] = "none"
          /\ st'[q] = "new" /\ st[q] # "new" =>
               /\ st[q] = "none" /\ parent'[q] = p /\ kfd'[q] = kfd'[p]
               /\ st'[p] = "run" /\ call'[p] = NoCall
    <3> SUFFICES ASSUME NEW q \in Procs \ {p}
                 PROVE  /\ call'[q] = call[q]
                        /\ st'[q] = "run" => st[q] = "run" /\ kfd'[q] = kfd[q]
                        /\ st'[q] = "none" => st[q] = "none"
                        /\ st'[q] = "new" /\ st[q] # "new" =>
                             /\ st[q] = "none" /\ parent'[q] = p
                             /\ kfd'[q] = kfd'[p]
                             /\ st'[p] = "run" /\ call'[p] = NoCall
      OBVIOUS
    <3>1. CASE q = c
      <4>1. st[q] = "none" /\ st'[q] = "new"
        BY <2>1, <2>4, <3>1
      <4>2. parent'[q] = p /\ kfd'[q] = kfd'[p]
        BY <2>4, <2>5, <3>1
      <4> QED
        BY <2>4, <2>6, <4>1, <4>2
    <3>2. CASE q # c
      <4>1. st'[q] = st[q] /\ kfd'[q] = kfd[q] /\ call'[q] = call[q]
        BY <2>4, <2>5, <2>6, <3>2
      <4> QED
        BY <4>1
    <3> QED
      BY <3>1, <3>2
  <2>8. Switched(p) /\ st'[p] = "run" /\ kfd' \in [Procs -> [Fds -> Kinds]]
        /\ st' \in [Procs -> {"none", "new", "run", "dead"}]
    BY <2>2, <2>4, <2>5
  <2> QED
    BY <1>a, <2>3, <2>6, <2>7, <2>8, TrapRoutes
<1>4. CASE Exit(p)
  <2>1. /\ Switched(p) /\ MayTrap(p) /\ live' = fd_switch(p).live
        /\ st' = [st EXCEPT ![p] = "dead"]
        /\ kfd' = [kfd EXCEPT ![p] = [fd \in Fds |-> "none"]]
        /\ UNCHANGED <<watch, call>>
    BY <1>4 DEF Exit, Trap, Switched
  <2>2. CallsOk' /\ ParentsOk'
    BY <1>b, <1>4, <2>1 DEF Exit, CallsOk, ParentsOk, Pids
  <2>3. /\ st' \in [Procs -> {"none", "new", "run", "dead"}]
        /\ st'[p] = "dead"
        /\ \A q \in Procs \ {p} : st'[q] = st[q]
    BY <1>b, <2>1 DEF Tables
  <2>4. /\ kfd' \in [Procs -> [Fds -> Kinds]]
        /\ \A q \in Procs \ {p} : kfd'[q] = kfd[q]
    BY <1>b, <2>1 DEF Tables, Kinds
  <2>5. /\ live' \in Flags /\ call'[p] = NoCall
        /\ watch' \in Watch \cup {NoCall}
        /\ \A q \in Procs \ {p} : call'[q] = call[q]
    BY <1>b, <1>c, <2>1 DEF Tables
  <2>6. Switched(p)
    BY <2>1
  <2> QED
    BY <1>a, <2>2, <2>3, <2>4, <2>5, <2>6, TrapRoutes
<1>5. CASE Enter(p)
  <2>1. PICK c \in Call :
          /\ c.op = "dup2" => kfd[p][c.src] # "none"
          /\ Trap(p, Moved(c, fd_switch(p).live))
          /\ watch' = Remember(c, fd_switch(p).live)
          /\ call' = [call EXCEPT ![p] = c]
    BY <1>5, <1>a DEF Enter
  <2>2. /\ Switched(p) /\ MayTrap(p) /\ live' = Moved(c, fd_switch(p).live)
        /\ st' = [st EXCEPT ![p] = "run"]
        /\ UNCHANGED <<kfd, parent>>
    BY <1>5, <2>1 DEF Enter, Trap, Switched, Ran
  <2>3. /\ CallsOk' /\ ParentsOk'
        /\ call'[p] = c /\ \A q \in Procs \ {p} : call'[q] = call[q]
    BY <1>b, <2>1, <2>2 DEF CallsOk, ParentsOk
  <2>4. /\ st' \in [Procs -> {"none", "new", "run", "dead"}]
        /\ st'[p] = "run"
        /\ \A q \in Procs \ {p} : st'[q] = st[q]
    BY <1>b, <2>2 DEF Tables
  <2>5. /\ Moved(c, fd_switch(p).live) \in Flags
        /\ Remember(c, fd_switch(p).live) \in Watch
        /\ InCall(c, Moved(c, fd_switch(p).live),
                  Remember(c, fd_switch(p).live), kfd[p])
    <3>1. kfd[p] \in [Fds -> Kinds]
      BY <1>b DEF Tables
    <3> QED
      BY <1>c, <2>1, <2>2, <3>1, EnteredIsInCall
  <2>6. /\ live' \in Flags /\ watch' \in Watch \cup {NoCall}
        /\ InCall(call'[p], live', watch', kfd'[p])
        /\ kfd' \in [Procs -> [Fds -> Kinds]]
        /\ \A q \in Procs \ {p} : kfd'[q] = kfd[q]
    BY <1>b, <2>1, <2>2, <2>3, <2>5 DEF Tables
  <2>7. Switched(p) /\ c # NoCall
    BY <2>2 DEF Call, NoCall, Watched
  <2> QED
    BY <1>a, <2>3, <2>4, <2>6, <2>7, TrapRoutes
<1>6. CASE Fail(p)
  <2>1. /\ call[p] # NoCall /\ call' = [call EXCEPT ![p] = NoCall]
        /\ call[p].op = "dup2" => kfd[p][call[p].src] = "none"
        /\ UNCHANGED <<live, fdsets, fdcur, watch, kfd, st, parent>>
    BY <1>6 DEF Fail
  <2>2. InCall(call[p], live, watch, kfd[p])
    BY <2>1 DEF Routing
  <2>3. call[p].op # "dup2"
    BY <2>1, <2>2 DEF InCall
  <2>4. Shown(live', kfd'[p])
    BY <2>1, <2>2, <2>3 DEF InCall
  <2>5. /\ watch' \in Watch \cup {NoCall} /\ kfd' \in [Procs -> [Fds -> Kinds]]
        /\ \A q \in Procs \ {p} : kfd'[q] = kfd[q]
    BY <1>b, <2>1 DEF Tables
  <2> QED
    BY <2>1, <2>4, <2>5, CallRoutes
<1>7. CASE Return(p)
  <2>1. /\ call[p] # NoCall /\ call' = [call EXCEPT ![p] = NoCall]
        /\ UNCHANGED <<fdsets, fdcur, st, parent>>
    BY <1>7 DEF Return
  <2>2. /\ kfd' \in [Procs -> [Fds -> Kinds]]
        /\ \A q \in Procs \ {p} : kfd'[q] = kfd[q]
        /\ watch' = NoCall
        /\ Shown(live', kfd'[p])
    BY <1>7, <2>1, ReturnShows
  <2> QED
    BY <2>1, <2>2, CallRoutes
<1> QED
  BY <1>1, <1>2, <1>3, <1>4, <1>5, <1>6, <1>7 DEF Step

(* A table with a slot for every process never has more than FDSETS.       *)
LEMMA SlotsBounded ==
  ASSUME IsFiniteSet(Procs), Cardinality(Procs) < FDSETS, Inv
  PROVE  Cardinality(DOMAIN fdsets) <= FDSETS
<1>1. InitPid \notin Procs
  BY FdAssumption
<1>2. IsFiniteSet(Pids) /\ Cardinality(Pids) = Cardinality(Procs) + 1
  BY <1>1, FS_AddElement DEF Pids
<1>3. DOMAIN fdsets \in SUBSET Pids
  BY DEF Inv
<1>4. /\ IsFiniteSet(DOMAIN fdsets)
      /\ Cardinality(DOMAIN fdsets) <= Cardinality(Pids)
  BY <1>2, <1>3, FS_Subset
<1>5. /\ Cardinality(DOMAIN fdsets) \in Nat /\ Cardinality(Procs) \in Nat
      /\ FDSETS \in Nat
  BY <1>4, FS_CardinalityType, FdAssumption
<1> QED
  BY <1>2, <1>4, <1>5

LEMMA RoutingIsRouted ==
  ASSUME IsFiniteSet(Procs), Cardinality(Procs) < FDSETS, Inv, Routing
  PROVE  Routed
<1>1. /\ DOMAIN fdsets \in SUBSET (Procs \cup {InitPid})
      /\ fdsets \in [DOMAIN fdsets -> Flags]
      /\ Cardinality(DOMAIN fdsets) <= FDSETS
  BY SlotsBounded DEF Inv, Pids, Routing, Tables
<1>2. \E pids \in SUBSET (Procs \cup {InitPid}) :
        fdsets \in [pids -> Flags] /\ Cardinality(pids) <= FDSETS
  BY <1>1
<1>3. TypeOK
  BY <1>2 DEF TypeOK, Inv, Pids, Routing, Tables
<1>4. st[fdcur] = "run" /\ call[fdcur] = NoCall =>
        live.con = Open(fdcur, "tty") /\ live.dsk = Open(fdcur, "disk")
  BY DEF Inv, Routing, FlagsOf, Shown, Open
<1> QED
  BY <1>3, <1>4 DEF Routed

(* "Which fds still reach the host" (globals.c:234): with a slot for every *)
(* process and the guest the run assumes, the emulator answers for exactly *)
(* the descriptors the current process has on the terminal or the raw      *)
(* disk, for any number of processes and descriptors.                      *)
THEOREM DescriptorsAreRouted ==
  ASSUME IsFiniteSet(Procs), Cardinality(Procs) < FDSETS, Assumed = Assumptions
  PROVE  Spec => []Routed
<1>1. Init => Inv /\ Routing
  <2> SUFFICES ASSUME Init PROVE Inv /\ Routing
    OBVIOUS
  <2>1. Inv
    BY FdAssumption DEF Init, Inv, Pids
  <2>2. /\ Std \subseteq Fds /\ First \in Procs
        /\ live = [con |-> Std, dsk |-> {}, krn |-> TRUE]
    BY FdAssumption DEF Init, Std, Fds
  <2>3. live \in Flags /\ fdsets \in [DOMAIN fdsets -> Flags] /\ DOMAIN fdsets = {First}
    <3>1. live \in Flags
      BY <2>2 DEF Flags
    <3>2. NoFlags \in Flags
      BY DEF NoFlags, Flags
    <3> HIDE DEF NoFlags
    <3>3. [NoFlags EXCEPT !.con = Std] \in Flags
      BY <2>2, <3>2 DEF Flags
    <3>4. fdsets = [p \in {First} |-> [NoFlags EXCEPT !.con = Std]]
      BY DEF Init
    <3> QED
      BY <3>1, <3>3, <3>4
  <2>4. Tables
    BY <2>3 DEF Init, Tables, Kinds
  <2>5. Shown(live, kfd[First])
    BY <2>2, <2>3 DEF Init, Shown
  <2>6. \A p \in Procs : /\ call[p] = NoCall
                         /\ st[p] = IF p = First THEN "run" ELSE "none"
    BY DEF Init
  <2>7. fdcur = First
    BY DEF Init
  <2> QED
    BY <2>1, <2>3, <2>4, <2>5, <2>6, <2>7 DEF Routing, Owned, FlagsOf
<1>2. Inv /\ Routing /\ [Next]_vars => Inv' /\ Routing'
  <2> SUFFICES ASSUME Inv, Routing, [Next]_vars PROVE Inv' /\ Routing'
    OBVIOUS
  <2>1. CASE Next
    BY <2>1, StepRoutes
  <2>2. CASE UNCHANGED vars
    <3>1. Inv'
      BY <2>2 DEF vars, Inv
    <3>2. Tables'
      BY <2>2 DEF vars, Routing, Tables
    <3>3. \A p \in Procs : Owned(p)' = Owned(p) /\ FlagsOf(p)' = FlagsOf(p)
      BY <2>2 DEF vars, Owned, FlagsOf
    <3> QED
      BY <2>2, <3>1, <3>2, <3>3 DEF vars, Routing
  <2> QED
    BY <2>1, <2>2
<1>3. Inv /\ Routing => Routed
  BY RoutingIsRouted
<1> QED
  BY <1>1, <1>2, <1>3, PTL DEF Spec
(***************************************************************************)
(* Sequences of sequences laid end to end                                  *)
(***************************************************************************)

(* Induction: a set of numbers that is not empty has a first one.          *)
LEMMA FirstOf ==
  ASSUME NEW T \in SUBSET Nat, T # {}
  PROVE  \E n \in T : n - 1 \notin T /\ \A m \in T : n <= m
<1>1. \E x \in T : \A y \in T : <<y, x>> \notin OpToRel(<, Nat)
  BY NatLessThanWellFounded, WFMin
<1>2. PICK x \in T : \A y \in T : <<y, x>> \notin OpToRel(<, Nat)
  BY <1>1
<1>3. \A y \in T : x <= y
  <2> SUFFICES ASSUME NEW y \in T PROVE x <= y
    OBVIOUS
  <2>1. <<y, x>> \in Nat \X Nat
    OBVIOUS
  <2>2. ~(y < x)
    BY <1>2, <2>1 DEF OpToRel
  <2> QED
    BY <2>2
<1>4. x - 1 \notin T
  BY <1>3
<1> QED
  BY <1>3, <1>4

(* d lays the first m parts of p end to end.                               *)
LaidOut(d, p, m) == d = [i \in 1 .. m |-> IF i = 1 THEN p[i] ELSE d[i - 1] \o p[i]]

LEMMA LaidOutExists ==
  ASSUME NEW C, NEW p \in Seq(Seq(C))
  PROVE  \E d \in [1 .. Len(p) -> Seq(C)] : LaidOut(d, p, Len(p))
<1> DEFINE Can(m) == \E d \in [1 .. m -> Seq(C)] : LaidOut(d, p, m)
           T == {m \in 0 .. Len(p) : ~Can(m)}
<1>0. Len(p) \in Nat /\ \A i \in 1 .. Len(p) : p[i] \in Seq(C)
  OBVIOUS
<1> SUFFICES ASSUME T # {} PROVE FALSE
  <2> HIDE DEF Can
  <2>1. Len(p) \in 0 .. Len(p)
    BY <1>0
  <2>2. Can(Len(p))
    BY <2>1
  <2> QED
    BY <2>2 DEF Can
<1>1. T \in SUBSET Nat
  BY <1>0
<1>2. PICK m \in T : m - 1 \notin T
  BY <1>1, FirstOf
<1>3. m \in 0 .. Len(p) /\ ~Can(m)
  BY <1>2
<1>4. CASE m = 0
  <2> DEFINE d == [i \in 1 .. m |-> IF i = 1 THEN p[i] ELSE p[i]]
  <2>1. 1 .. m = {}
    BY <1>4
  <2>2. d \in [1 .. m -> Seq(C)] /\ LaidOut(d, p, m)
    BY <2>1 DEF LaidOut
  <2> QED
    BY <1>3, <2>2
<1>5. CASE m # 0
  <2>1. m - 1 \in 0 .. Len(p) /\ m \in 1 .. Len(p) /\ m - 1 \in Nat
    BY <1>0, <1>3, <1>5
  <2>2. PICK d \in [1 .. (m - 1) -> Seq(C)] : LaidOut(d, p, m - 1)
    BY <1>2, <2>1
  <2> DEFINE e == [i \in 1 .. m |-> IF i = m THEN IF i = 1 THEN p[i] ELSE d[m - 1] \o p[i] ELSE d[i]]
  <2>3. \A i \in 1 .. (m - 1) : d[i] = IF i = 1 THEN p[i] ELSE d[i - 1] \o p[i]
    BY <2>2 DEF LaidOut
  <2>4. \A i \in 1 .. m : i # m => i \in 1 .. (m - 1)
    BY <2>1
  <2>5. m # 1 => m - 1 \in 1 .. (m - 1)
    BY <2>1
  <2>6. e \in [1 .. m -> Seq(C)]
    <3> SUFFICES ASSUME NEW i \in 1 .. m
                 PROVE  (IF i = m THEN IF i = 1 THEN p[i] ELSE d[m - 1] \o p[i] ELSE d[i]) \in Seq(C)
      OBVIOUS
    <3>1. p[i] \in Seq(C)
      BY <1>0, <2>1
    <3>2. CASE i # m
      BY <2>4, <3>2
    <3>3. CASE i = m /\ i = 1
      BY <3>1, <3>3
    <3>4. CASE i = m /\ i # 1
      <4>1. d[m - 1] \in Seq(C)
        BY <2>5, <3>4
      <4>2. d[m - 1] \o p[i] \in Seq(C)
        BY <3>1, <4>1
      <4> QED
        BY <3>4, <4>2
    <3> QED
      BY <3>2, <3>3, <3>4
  <2>7. ASSUME NEW i \in 1 .. m
        PROVE  e[i] = IF i = 1 THEN p[i] ELSE e[i - 1] \o p[i]
    <3>1. CASE i = m
      <4>1. i # 1 => e[i - 1] = d[m - 1]
        BY <2>1, <3>1
      <4> QED
        BY <3>1, <4>1
    <3>2. CASE i # m
      <4>1. i \in 1 .. (m - 1) /\ e[i] = d[i]
        BY <2>4, <3>2
      <4>2. i # 1 => e[i - 1] = d[i - 1]
        BY <4>1
      <4> QED
        BY <2>3, <4>1, <4>2
    <3> QED
      BY <3>1, <3>2
  <2>8. LaidOut(e, p, m)
    BY <2>7 DEF LaidOut
  <2> QED
    BY <1>3, <2>6, <2>8
<1> QED
  BY <1>4, <1>5

LEMMA FlattenIs ==
  ASSUME NEW C, NEW p \in Seq(Seq(C)), Len(p) # 0
  PROVE  \E d \in [1 .. Len(p) -> Seq(C)] :
           LaidOut(d, p, Len(p)) /\ FlattenSeq(p) = d[Len(p)]
<1> DEFINE d == CHOOSE d : d = [i \in 1 .. Len(p) |-> IF i = 1 THEN p[i] ELSE d[i - 1] \o p[i]]
<1>1. FlattenSeq(p) = d[Len(p)]
  BY DEF FlattenSeq
<1>2. PICK e \in [1 .. Len(p) -> Seq(C)] : LaidOut(e, p, Len(p))
  BY LaidOutExists, SMTT(30)
<1>3. d = [i \in 1 .. Len(p) |-> IF i = 1 THEN p[i] ELSE d[i - 1] \o p[i]]
  BY <1>2, ZenonT(30) DEF LaidOut
<1> HIDE DEF d
<1>4. \A i \in 1 .. Len(p) : d[i] = e[i]
  <2> DEFINE T == {i \in 1 .. Len(p) : d[i] # e[i]}
  <2> SUFFICES ASSUME T # {} PROVE FALSE
    OBVIOUS
  <2>1. PICK k \in T : k - 1 \notin T
    <3>1. T \in SUBSET Nat
      OBVIOUS
    <3> QED
      BY <3>1, FirstOf
  <2>2. k \in 1 .. Len(p) /\ d[k] # e[k]
    OBVIOUS
  <2>3. /\ d[k] = IF k = 1 THEN p[k] ELSE d[k - 1] \o p[k]
        /\ e[k] = IF k = 1 THEN p[k] ELSE e[k - 1] \o p[k]
    BY <1>2, <1>3, <2>2 DEF LaidOut
  <2>4. k # 1 => d[k - 1] = e[k - 1]
    <3>1. k # 1 => k - 1 \in 1 .. Len(p)
      BY <2>2
    <3> QED
      BY <2>1, <3>1
  <2> QED
    BY <2>2, <2>3, <2>4
<1>5. Len(p) \in 1 .. Len(p)
  OBVIOUS
<1> QED
  BY <1>1, <1>2, <1>4, <1>5

LEMMA FlattenEmpty == FlattenSeq(<< >>) = << >>
  BY DEF FlattenSeq

LEMMA FlattenType ==
  ASSUME NEW C, NEW p \in Seq(Seq(C))
  PROVE  FlattenSeq(p) \in Seq(C)
<1>1. CASE Len(p) = 0
  <2>1. p = << >>
    BY <1>1
  <2>2. << >> \in Seq(C)
    OBVIOUS
  <2> QED
    BY <2>1, <2>2, FlattenEmpty
<1>2. CASE Len(p) # 0
  <2>1. PICK d \in [1 .. Len(p) -> Seq(C)] : FlattenSeq(p) = d[Len(p)]
    BY <1>2, FlattenIs
  <2> QED
    BY <1>2, <2>1, SMTT(30)
<1> QED
  BY <1>1, <1>2

(* One part more.                                                          *)
LEMMA FlattenAppend ==
  ASSUME NEW C, NEW p \in Seq(Seq(C)), NEW s \in Seq(C)
  PROVE  FlattenSeq(Append(p, s)) = FlattenSeq(p) \o s
<1> DEFINE q == Append(p, s)
           n == Len(p)
<1>1. /\ q \in Seq(Seq(C)) /\ Len(q) = n + 1 /\ n \in Nat
      /\ \A i \in 1 .. n : q[i] = p[i]
      /\ q[n + 1] = s
  BY AppendProperties
<1> HIDE DEF q
<1>2. PICK e \in [1 .. Len(q) -> Seq(C)] : LaidOut(e, q, Len(q)) /\ FlattenSeq(q) = e[Len(q)]
  BY <1>1, FlattenIs
<1>3. \A i \in 1 .. n + 1 : e[i] = IF i = 1 THEN q[i] ELSE e[i - 1] \o q[i]
  BY <1>1, <1>2 DEF LaidOut
<1>4. CASE n = 0
  <2>1. p = << >> /\ << >> \o s = s
    BY <1>4
  <2>2. FlattenSeq(q) = s
    BY <1>1, <1>2, <1>3, <1>4
  <2> QED
    BY <2>1, <2>2, FlattenEmpty DEF q
<1>5. CASE n # 0
  <2>1. PICK d \in [1 .. n -> Seq(C)] : LaidOut(d, p, n) /\ FlattenSeq(p) = d[n]
    BY <1>5, FlattenIs
  <2>2. \A i \in 1 .. n : d[i] = IF i = 1 THEN p[i] ELSE d[i - 1] \o p[i]
    BY <2>1 DEF LaidOut
  <2>3. \A i \in 1 .. n : d[i] = e[i]
    <3> DEFINE T == {i \in 1 .. n : d[i] # e[i]}
    <3> SUFFICES ASSUME T # {} PROVE FALSE
      OBVIOUS
    <3>1. PICK k \in T : k - 1 \notin T
      <4>1. T \in SUBSET Nat
        OBVIOUS
      <4> QED
        BY <4>1, FirstOf
    <3>2. k \in 1 .. n /\ k \in 1 .. n + 1 /\ d[k] # e[k]
      BY <1>1
    <3>3. /\ d[k] = IF k = 1 THEN p[k] ELSE d[k - 1] \o p[k]
          /\ e[k] = IF k = 1 THEN p[k] ELSE e[k - 1] \o p[k]
      BY <1>1, <1>3, <2>2, <3>2
    <3>4. k # 1 => d[k - 1] = e[k - 1]
      <4>1. k # 1 => k - 1 \in 1 .. n
        BY <1>1, <3>2
      <4> QED
        BY <3>1, <4>1
    <3> QED
      BY <3>2, <3>3, <3>4
  <2>4. n \in 1 .. n /\ n + 1 \in 1 .. n + 1 /\ n + 1 # 1 /\ (n + 1) - 1 = n
    BY <1>1, <1>5
  <2>5. e[n + 1] = e[n] \o s
    BY <1>1, <1>3, <2>4
  <2> QED
    BY <1>1, <1>2, <2>1, <2>3, <2>4, <2>5 DEF q
<1> QED
  BY <1>4, <1>5

LEMMA Appended ==
  ASSUME NEW S, NEW a \in Seq(S), NEW b \in Seq(S), NEW c \in S
  PROVE  a \o Append(b, c) = Append(a \o b, c) /\ a \o b \in Seq(S)
  OBVIOUS

LEMMA Grouped ==
  ASSUME NEW S
  PROVE  \A a, b, c \in Seq(S) : (a \o b) \o c = a \o (b \o c)
  OBVIOUS

LEMMA FlattenCons ==
  ASSUME NEW C, NEW p \in Seq(Seq(C)), NEW x \in Seq(C)
  PROVE  FlattenSeq(<<x>> \o p) = x \o FlattenSeq(p)
<1> DEFINE P(k) == SubSeq(p, 1, k)
           T == {k \in 0 .. Len(p) : FlattenSeq(<<x>> \o P(k)) # x \o FlattenSeq(P(k))}
<1>0. <<x>> \in Seq(Seq(C))
  OBVIOUS
<1>1. T = {}
  <2> SUFFICES ASSUME T # {} PROVE FALSE
    OBVIOUS
  <2>1. PICK k \in T : k - 1 \notin T
    <3>1. T \in SUBSET Nat
      OBVIOUS
    <3> QED
      BY <3>1, FirstOf
  <2>2. k \in 0 .. Len(p) /\ FlattenSeq(<<x>> \o P(k)) # x \o FlattenSeq(P(k))
    OBVIOUS
  <2>3. CASE k = 0
    <3>1. P(k) = << >> /\ <<x>> \o << >> = Append(<< >>, x) /\ << >> \in Seq(Seq(C))
      BY <2>3
    <3>2. FlattenSeq(Append(<< >>, x)) = FlattenSeq(<< >>) \o x
      BY <3>1, FlattenAppend
    <3>3. << >> \o x = x /\ x \o << >> = x
      OBVIOUS
    <3> QED
      BY <2>2, <3>1, <3>2, <3>3, FlattenEmpty
  <2>4. CASE k # 0
    <3> DEFINE q == P(k - 1)
               c == p[k]
               r == <<x>> \o q
    <3>1. k - 1 \in 0 .. Len(p) /\ k \in 1 .. Len(p)
      BY <2>2, <2>4
    <3>2. q \in Seq(Seq(C)) /\ c \in Seq(C) /\ P(k) = Append(q, c)
      BY <3>1, SMTT(30)
    <3>3. FlattenSeq(r) = x \o FlattenSeq(q)
      BY <2>1, <3>1
    <3> HIDE DEF q, c
    <3>4. <<x>> \o Append(q, c) = Append(r, c) /\ r \in Seq(Seq(C))
      <4> DEFINE S == Seq(C)
                 y == <<x>>
      <4>1. y \in Seq(S) /\ q \in Seq(S) /\ c \in S
        BY <1>0, <3>2
      <4> HIDE DEF S, y
      <4>2. y \o Append(q, c) = Append(y \o q, c) /\ y \o q \in Seq(S)
        BY <4>1, Appended, ZenonT(30)
      <4> QED
        BY <4>2 DEF S, y
    <3> HIDE DEF r
    <3>5. FlattenSeq(Append(r, c)) = FlattenSeq(r) \o c
      BY <3>2, <3>4, FlattenAppend
    <3>6. FlattenSeq(Append(q, c)) = FlattenSeq(q) \o c
      BY <3>2, FlattenAppend
    <3> DEFINE u == FlattenSeq(q)
    <3>7. u \in Seq(C)
      BY <3>2, FlattenType
    <3>8. (x \o u) \o c = x \o (u \o c)
      <4> HIDE DEF u
      <4>1. u \in Seq(C) /\ c \in Seq(C) /\ x \in Seq(C)
        BY <3>2, <3>7
      <4> HIDE DEF T, P
      <4>2. \A a, b, d \in Seq(C) : (a \o b) \o d = a \o (b \o d)
        BY Grouped
      <4> QED
        BY <4>1, <4>2
    <3> QED
      BY <2>2, <3>2, <3>3, <3>4, <3>5, <3>6, <3>8
  <2> QED
    BY <2>3, <2>4
<1>2. Len(p) \in 0 .. Len(p) /\ P(Len(p)) = p
  OBVIOUS
<1>3. Len(p) \notin T
  BY <1>1
<1> QED
  BY <1>2, <1>3

(***************************************************************************)
(* What has been typed, and its encodings                                  *)
(***************************************************************************)

AllKeys == {"a", "RETURN", "CR", "FF", "BS", "EOT", "WILL", "SB"}
Codings == Seq(Seq(Byte))

(* The encodings cs of the keys behind the i-th, up to the j-th.           *)
Bytes(cs, i, j) == FlattenSeq(SubSeq(cs, i + 1, j))

LEMMA EndToEnd == \A a, b, c \in Seq(Byte) : (a \o b) \o c = a \o (b \o c)
<1> SUFFICES ASSUME NEW S, NEW a \in Seq(S), NEW b \in Seq(S), NEW c \in Seq(S)
             PROVE  (a \o b) \o c = a \o (b \o c)
  OBVIOUS
<1> QED
  OBVIOUS

LEMMA Nothing == \A a \in Seq(Byte) : a \o << >> = a /\ << >> \o a = a
<1> SUFFICES ASSUME NEW S, NEW a \in Seq(S)
             PROVE  a \o << >> = a /\ << >> \o a = a
  OBVIOUS
<1> QED
  OBVIOUS

LEMMA Joined == \A a, b \in Seq(Byte) : a \o b \in Seq(Byte)
<1> SUFFICES ASSUME NEW S, NEW a \in Seq(S), NEW b \in Seq(S)
             PROVE  a \o b \in Seq(S)
  OBVIOUS
<1> QED
  OBVIOUS

LEMMA BytesType ==
  ASSUME NEW cs \in Codings, NEW i \in 0 .. Len(cs), NEW j \in 0 .. Len(cs)
  PROVE  Bytes(cs, i, j) \in Seq(Byte)
<1>1. SubSeq(cs, i + 1, j) \in Seq(Seq(Byte))
  BY DEF Codings
<1> QED
  BY <1>1, FlattenType DEF Bytes

LEMMA BytesNone ==
  ASSUME NEW cs \in Codings, NEW i \in 0 .. Len(cs)
  PROVE  Bytes(cs, i, i) = << >>
<1>1. SubSeq(cs, i + 1, i) = << >>
  BY DEF Codings
<1> QED
  BY <1>1, FlattenEmpty DEF Bytes

LEMMA BytesFirst ==
  ASSUME NEW cs \in Codings, NEW j \in 0 .. Len(cs), NEW i \in 0 .. j - 1
  PROVE  /\ cs[i + 1] \in Seq(Byte)
         /\ Bytes(cs, i, j) = cs[i + 1] \o Bytes(cs, i + 1, j)
<1> DEFINE x == cs[i + 1]
           p == SubSeq(cs, i + 2, j)
<1>1. i + 1 \in 1 .. Len(cs) /\ (i + 1) + 1 = i + 2
  BY DEF Codings
<1>2. x \in Seq(Byte) /\ p \in Seq(Seq(Byte))
  BY <1>1 DEF Codings
<1>3. SubSeq(cs, i + 1, j) = <<x>> \o p
  BY <1>1 DEF Codings
<1> HIDE DEF x, p
<1>4. FlattenSeq(<<x>> \o p) = x \o FlattenSeq(p)
  BY <1>2, FlattenCons
<1> QED
  BY <1>1, <1>2, <1>3, <1>4 DEF Bytes, x, p

LEMMA BytesLast ==
  ASSUME NEW cs \in Codings, NEW j \in 0 .. Len(cs) - 1, NEW i \in 0 .. j
  PROVE  /\ cs[j + 1] \in Seq(Byte)
         /\ Bytes(cs, i, j + 1) = Bytes(cs, i, j) \o cs[j + 1]
<1> DEFINE x == cs[j + 1]
           p == SubSeq(cs, i + 1, j)
<1>1. j + 1 \in 1 .. Len(cs)
  BY DEF Codings
<1>2. x \in Seq(Byte) /\ p \in Seq(Seq(Byte))
  BY <1>1 DEF Codings
<1>3. SubSeq(cs, i + 1, j + 1) = Append(p, x)
  BY <1>1 DEF Codings
<1> HIDE DEF x, p
<1>4. FlattenSeq(Append(p, x)) = FlattenSeq(p) \o x
  BY <1>2, FlattenAppend
<1> QED
  BY <1>2, <1>3, <1>4 DEF Bytes, x, p

(* Of more keys, the first are the same.                                   *)
LEMMA BytesSame ==
  ASSUME NEW cs \in Codings, NEW c \in Seq(Byte), NEW i \in 0 .. Len(cs), NEW j \in i .. Len(cs)
  PROVE  /\ Append(cs, c) \in Codings /\ Len(Append(cs, c)) = Len(cs) + 1
         /\ Append(cs, c)[Len(cs) + 1] = c
         /\ \A n \in 1 .. Len(cs) : Append(cs, c)[n] = cs[n]
         /\ Bytes(Append(cs, c), i, j) = Bytes(cs, i, j)
<1> DEFINE e == Append(cs, c)
<1>1. /\ e \in Codings /\ Len(e) = Len(cs) + 1 /\ e[Len(cs) + 1] = c
      /\ \A n \in 1 .. Len(cs) : e[n] = cs[n]
  BY AppendProperties DEF Codings
<1>2. SubSeq(e, i + 1, j) = SubSeq(cs, i + 1, j)
  <2> HIDE DEF e
  <2> DEFINE a == SubSeq(e, i + 1, j)
             b == SubSeq(cs, i + 1, j)
  <2>1. a \in Seq(Seq(Byte)) /\ b \in Seq(Seq(Byte)) /\ Len(a) = j - i /\ Len(b) = j - i
    BY <1>1 DEF Codings
  <2>2. \A n \in 1 .. j - i : a[n] = e[i + n] /\ b[n] = cs[i + n] /\ i + n \in 1 .. Len(cs)
    BY <1>1 DEF Codings
  <2> HIDE DEF a, b
  <2>3. \A n \in 1 .. j - i : a[n] = b[n]
    BY <1>1, <2>2
  <2>4. a = b
    BY <2>1, <2>3, SeqEqual
  <2> QED
    BY <2>4 DEF a, b
<1> QED
  BY <1>1, <1>2 DEF Bytes

(***************************************************************************)
(* What is to be read of it                                                *)
(***************************************************************************)

LEMMA KeystrokeType == \A k \in AllKeys : Keystroke(k) \in Seq(Byte)
<1> SUFFICES ASSUME NEW k \in AllKeys PROVE Keystroke(k) \in Seq(Byte)
  OBVIOUS
<1>1. {"CR", "IAC", "a", "BS", "EOT"} \subseteq Byte
  BY DEF Byte
<1>2. \A b \in Byte : <<b>> \in Seq(Byte)
  <2> SUFFICES ASSUME NEW S, NEW b \in S PROVE <<b>> \in Seq(S)
    OBVIOUS
  <2> QED
    OBVIOUS
<1>3. << >> \in Seq(Byte)
  OBVIOUS
<1>4. Keystroke(k) \in {<<"CR">>, <<"IAC">>, << >>, <<"a">>, <<"BS">>, <<"EOT">>}
  BY DEF Keystroke, AllKeys
<1> QED
  BY <1>1, <1>2, <1>3, <1>4

LEMMA KeystrokesNone == Keystrokes(<< >>) = << >>
<1>1. [n \in DOMAIN << >> |-> Keystroke(<< >>[n])] = << >>
  OBVIOUS
<1> QED
  BY <1>1, FlattenEmpty DEF Keystrokes

LEMMA KeystrokesAppend ==
  ASSUME NEW q \in Seq(AllKeys), NEW k \in AllKeys
  PROVE  /\ Keystrokes(q) \in Seq(Byte)
         /\ Keystrokes(Append(q, k)) = Keystrokes(q) \o Keystroke(k)
<1> DEFINE r == Append(q, k)
           p == [n \in DOMAIN q |-> Keystroke(q[n])]
           pr == [n \in DOMAIN r |-> Keystroke(r[n])]
           l == Len(q)
<1>1. /\ r \in Seq(AllKeys) /\ Len(r) = l + 1 /\ l \in Nat
      /\ \A n \in 1 .. l : r[n] = q[n] /\ q[n] \in AllKeys
      /\ r[l + 1] = k
      /\ DOMAIN r = 1 .. l + 1 /\ DOMAIN q = 1 .. l
  BY AppendProperties
<1>2. /\ p \in Seq(Seq(Byte)) /\ Keystroke(k) \in Seq(Byte) /\ Len(p) = l
      /\ \A n \in 1 .. l : p[n] = Keystroke(q[n])
  BY <1>1, KeystrokeType
<1> HIDE DEF r
<1>3. pr \in Seq(Seq(Byte)) /\ Len(pr) = l + 1 /\ \A n \in 1 .. l + 1 : pr[n] = Keystroke(r[n])
  <2>1. \A n \in 1 .. l + 1 : r[n] \in AllKeys
    BY <1>1
  <2> QED
    BY <1>1, <2>1, KeystrokeType
<1>4. pr = Append(p, Keystroke(k))
  <2> HIDE DEF p, pr
  <2> DEFINE a == Append(p, Keystroke(k))
  <2>1. /\ a \in Seq(Seq(Byte)) /\ Len(a) = l + 1
        /\ \A n \in 1 .. l : a[n] = p[n]
        /\ a[l + 1] = Keystroke(k)
    BY <1>2, AppendProperties
  <2> HIDE DEF a
  <2>2. \A n \in 1 .. l + 1 : a[n] = pr[n]
    <3> SUFFICES ASSUME NEW n \in 1 .. l + 1 PROVE a[n] = pr[n]
      OBVIOUS
    <3>1. CASE n = l + 1
      BY <1>1, <1>3, <2>1, <3>1
    <3>2. CASE n \in 1 .. l
      BY <1>1, <1>2, <1>3, <2>1, <3>2
    <3> QED
      BY <1>1, <3>1, <3>2
  <2>3. a = pr
    BY <1>3, <2>1, <2>2, SeqEqual
  <2> QED
    BY <2>3 DEF a
<1>5. FlattenSeq(pr) = FlattenSeq(p) \o Keystroke(k) /\ FlattenSeq(p) \in Seq(Byte)
  <2> HIDE DEF p, pr
  <2> QED
    BY <1>2, <1>4, FlattenAppend, FlattenType
<1> QED
  BY <1>5 DEF Keystrokes, r

Cooking == [out : Seq(Byte), line : Seq(Byte)]
Raw == [out |-> << >>, line |-> << >>]

LEMMA EraseType == \A s \in Seq(Byte) : Erase(s) \in Seq(Byte)
<1> SUFFICES ASSUME NEW S, NEW s \in Seq(S), s # << >> PROVE Front(s) \in Seq(S)
  BY DEF Erase
<1>1. Len(s) \in Nat /\ Len(s) # 0
  OBVIOUS
<1> QED
  BY <1>1 DEF Front

LEMMA EditIs ==
  ASSUME NEW s \in Cooking, NEW k \in AllKeys
  PROVE  /\ Edit(s, k) \in Cooking
         /\ k \in {"RETURN", "CR"} =>
              Edit(s, k).out = s.out \o s.line \o <<"LF">> /\ Edit(s, k).line = << >>
         /\ k = "EOT" => Edit(s, k).out = s.out \o s.line /\ Edit(s, k).line = << >>
         /\ k = "BS" => Edit(s, k).out = s.out /\ Edit(s, k).line = Erase(s.line)
         /\ k \in {"a", "FF", "WILL", "SB"} =>
              Edit(s, k).out = s.out /\ Edit(s, k).line = s.line \o Keystroke(k)
<1>1. /\ s.out \in Seq(Byte) /\ s.line \in Seq(Byte)
      /\ << >> \in Seq(Byte) /\ Keystroke(k) \in Seq(Byte) /\ Erase(s.line) \in Seq(Byte)
  BY KeystrokeType, EraseType DEF Cooking
<1>2. <<"LF">> \in Seq(Byte)
  BY DEF Byte
<1>3. /\ s.out \o s.line \in Seq(Byte) /\ (s.out \o s.line) \o <<"LF">> \in Seq(Byte)
      /\ s.line \o Keystroke(k) \in Seq(Byte)
  BY <1>1, <1>2, Joined
<1>4. CASE k \in {"RETURN", "CR"}
  <2>1. Edit(s, k) = [out |-> s.out \o s.line \o <<"LF">>, line |-> << >>]
    BY <1>4 DEF Edit
  <2> QED
    BY <1>1, <1>3, <1>4, <2>1 DEF Cooking
<1>5. CASE k = "EOT"
  <2>1. Edit(s, k) = [out |-> s.out \o s.line, line |-> << >>]
    BY <1>5 DEF Edit
  <2> DEFINE l == s.out \o s.line
  <2>2. l \in Seq(Byte)
    BY <1>3
  <2> HIDE DEF l
  <2>3. Edit(s, k) \in Cooking /\ Edit(s, k).out = l /\ Edit(s, k).line = << >>
    BY <1>1, <2>1, <2>2 DEF Cooking, l
  <2> QED
    BY <1>5, <2>3 DEF l
<1>6. CASE k = "BS"
  <2>1. Edit(s, k) = [s EXCEPT !.line = Erase(s.line)]
    BY <1>6 DEF Edit, Erase
  <2> QED
    BY <1>1, <1>6, <2>1 DEF Cooking
<1>7. CASE k \in {"a", "FF", "WILL", "SB"}
  <2>1. Edit(s, k) = [s EXCEPT !.line = s.line \o Keystroke(k)]
    BY <1>7 DEF Edit
  <2> DEFINE l == s.line \o Keystroke(k)
  <2>2. l \in Seq(Byte)
    BY <1>3
  <2> HIDE DEF l
  <2>3. Edit(s, k) \in Cooking /\ Edit(s, k).out = s.out /\ Edit(s, k).line = l
    BY <2>1, <2>2 DEF Cooking, l
  <2> QED
    BY <1>7, <2>3 DEF l
<1> QED
  BY <1>4, <1>5, <1>6, <1>7 DEF AllKeys

(* d cooks the first m keys of q.                                          *)
Cooks(d, q, m) ==
  d = [n \in 0 .. m |-> IF n = 0 THEN Raw ELSE Edit(d[n - 1], q[n])]

LEMMA CooksExists ==
  ASSUME NEW q \in Seq(AllKeys)
  PROVE  \E d \in [0 .. Len(q) -> Cooking] : Cooks(d, q, Len(q))
<1> DEFINE Can(m) == \E d \in [0 .. m -> Cooking] : Cooks(d, q, m)
           T == {m \in 0 .. Len(q) : ~Can(m)}
<1>0. Len(q) \in Nat /\ \A n \in 1 .. Len(q) : q[n] \in AllKeys
  OBVIOUS
<1>a. Raw \in Cooking
  <2>1. << >> \in Seq(Byte)
    OBVIOUS
  <2> QED
    BY <2>1 DEF Raw, Cooking
<1> SUFFICES ASSUME T # {} PROVE FALSE
  <2> HIDE DEF Can
  <2>1. Len(q) \in 0 .. Len(q)
    BY <1>0
  <2>2. Can(Len(q))
    BY <2>1
  <2> QED
    BY <2>2 DEF Can
<1>1. T \in SUBSET Nat
  BY <1>0
<1>2. PICK m \in T : m - 1 \notin T
  BY <1>1, FirstOf
<1>3. m \in 0 .. Len(q) /\ ~Can(m)
  BY <1>2
<1>4. CASE m = 0
  <2> DEFINE d == [n \in 0 .. m |-> Raw]
  <2>1. 0 .. m = {0}
    BY <1>4
  <2>2. d \in [0 .. m -> Cooking]
    BY <1>a
  <2>3. Cooks(d, q, m)
    BY <2>1 DEF Cooks
  <2> QED
    BY <1>3, <2>2, <2>3
<1>5. CASE m # 0
  <2>1. m - 1 \in 0 .. Len(q) /\ m \in 1 .. Len(q) /\ m - 1 \in Nat
    BY <1>0, <1>3, <1>5
  <2>2. PICK d \in [0 .. (m - 1) -> Cooking] : Cooks(d, q, m - 1)
    BY <1>2, <2>1
  <2> DEFINE x == Edit(d[m - 1], q[m])
             e == [n \in 0 .. m |-> IF n = m THEN x ELSE d[n]]
  <2>3. \A n \in 0 .. (m - 1) : d[n] = IF n = 0 THEN Raw ELSE Edit(d[n - 1], q[n])
    BY <2>2, ZenonT(30) DEF Cooks
  <2>4. x \in Cooking
    <3>1. m - 1 \in 0 .. (m - 1)
      BY <2>1
    <3>2. d[m - 1] \in Cooking /\ q[m] \in AllKeys
      BY <1>0, <2>1, <3>1
    <3> QED
      BY <3>2, EditIs
  <2>5. \A n \in 0 .. m : n # m => n \in 0 .. (m - 1)
    BY <2>1
  <2> HIDE DEF x
  <2>6. e \in [0 .. m -> Cooking]
    BY <2>4, <2>5
  <2>7. ASSUME NEW n \in 0 .. m
        PROVE  e[n] = IF n = 0 THEN Raw ELSE Edit(e[n - 1], q[n])
    <3>1. CASE n = m
      <4>1. n # 0 /\ n - 1 \in 0 .. m /\ n - 1 # m
        BY <1>5, <2>1, <3>1
      <4>2. e[n - 1] = d[m - 1] /\ e[n] = x
        BY <3>1, <4>1
      <4> QED
        BY <3>1, <4>1, <4>2 DEF x
    <3>2. CASE n # m
      <4>1. n \in 0 .. (m - 1) /\ e[n] = d[n]
        BY <2>5, <3>2
      <4>2. n # 0 => e[n - 1] = d[n - 1]
        BY <2>1, <4>1
      <4> QED
        BY <2>3, <4>1, <4>2
    <3> QED
      BY <3>1, <3>2
  <2>8. Cooks(e, q, m)
    BY <2>7 DEF Cooks
  <2> QED
    BY <1>3, <2>6, <2>8
<1> QED
  BY <1>4, <1>5

LEMMA CookIs ==
  ASSUME NEW q \in Seq(AllKeys)
  PROVE  \E d \in [0 .. Len(q) -> Cooking] : Cooks(d, q, Len(q)) /\ Cook(q) = d[Len(q)]
<1> DEFINE d == CHOOSE d : d = [n \in 0 .. Len(q) |->
                  IF n = 0 THEN [out |-> << >>, line |-> << >>] ELSE Edit(d[n - 1], q[n])]
<1>1. Cook(q) = d[Len(q)]
  BY DEF Cook
<1>2. PICK e \in [0 .. Len(q) -> Cooking] : Cooks(e, q, Len(q))
  BY CooksExists
<1>3. Cooks(d, q, Len(q))
  BY <1>2, ZenonT(30) DEF Cooks, Raw
<1> HIDE DEF d
<1>4. \A n \in 0 .. Len(q) : d[n] = e[n]
  <2> DEFINE T == {n \in 0 .. Len(q) : d[n] # e[n]}
  <2> SUFFICES ASSUME T # {} PROVE FALSE
    OBVIOUS
  <2>1. PICK k \in T : k - 1 \notin T
    <3>1. T \in SUBSET Nat
      OBVIOUS
    <3> QED
      BY <3>1, FirstOf
  <2>2. k \in 0 .. Len(q) /\ d[k] # e[k]
    OBVIOUS
  <2>3. /\ d[k] = IF k = 0 THEN Raw ELSE Edit(d[k - 1], q[k])
        /\ e[k] = IF k = 0 THEN Raw ELSE Edit(e[k - 1], q[k])
    BY <1>2, <1>3, <2>2, ZenonT(30) DEF Cooks
  <2>4. k # 0 => d[k - 1] = e[k - 1]
    <3>1. k # 0 => k - 1 \in 0 .. Len(q)
      BY <2>2
    <3> QED
      BY <2>1, <3>1
  <2> QED
    BY <2>2, <2>3, <2>4
<1>5. Len(q) \in 0 .. Len(q)
  OBVIOUS
<1> QED
  BY <1>1, <1>2, <1>4, <1>5

LEMMA CookNone == Cook(<< >>) = Raw
<1> DEFINE q == << >>
<1>1. q \in Seq(AllKeys) /\ Len(q) = 0
  OBVIOUS
<1> HIDE DEF q
<1>2. PICK d \in [0 .. Len(q) -> Cooking] : Cooks(d, q, Len(q)) /\ Cook(q) = d[Len(q)]
  BY <1>1, CookIs
<1>3. 0 \in 0 .. Len(q)
  BY <1>1
<1>4. d[0] = Raw
  BY <1>2, <1>3, ZenonT(30) DEF Cooks
<1> QED
  BY <1>1, <1>2, <1>4 DEF q

(* One key more.                                                           *)
LEMMA CookAppend ==
  ASSUME NEW q \in Seq(AllKeys), NEW k \in AllKeys
  PROVE  Cook(q) \in Cooking /\ Cook(Append(q, k)) = Edit(Cook(q), k)
<1> DEFINE r == Append(q, k)
           l == Len(q)
<1>1. /\ r \in Seq(AllKeys) /\ Len(r) = l + 1 /\ l \in Nat
      /\ \A n \in 1 .. l : r[n] = q[n]
      /\ r[l + 1] = k
  BY AppendProperties
<1> HIDE DEF r
<1>2. PICK e \in [0 .. Len(r) -> Cooking] : Cooks(e, r, Len(r)) /\ Cook(r) = e[Len(r)]
  BY <1>1, CookIs
<1>3. PICK d \in [0 .. l -> Cooking] : Cooks(d, q, l) /\ Cook(q) = d[l]
  BY CookIs
<1>4. \A n \in 0 .. l + 1 : e[n] = IF n = 0 THEN Raw ELSE Edit(e[n - 1], r[n])
  BY <1>1, <1>2, ZenonT(30) DEF Cooks
<1>5. \A n \in 0 .. l : d[n] = IF n = 0 THEN Raw ELSE Edit(d[n - 1], q[n])
  BY <1>3, ZenonT(30) DEF Cooks
<1>6. \A n \in 0 .. l : d[n] = e[n]
  <2> DEFINE T == {n \in 0 .. l : d[n] # e[n]}
  <2> SUFFICES ASSUME T # {} PROVE FALSE
    OBVIOUS
  <2>1. PICK m \in T : m - 1 \notin T
    <3>1. T \in SUBSET Nat
      OBVIOUS
    <3> QED
      BY <3>1, FirstOf
  <2>2. m \in 0 .. l /\ m \in 0 .. l + 1 /\ d[m] # e[m]
    BY <1>1
  <2>3. CASE m = 0
    BY <1>4, <1>5, <2>2, <2>3
  <2>4. CASE m # 0
    <3>1. m - 1 \in 0 .. l /\ m \in 1 .. l
      BY <1>1, <2>2, <2>4
    <3>2. d[m - 1] = e[m - 1] /\ r[m] = q[m]
      BY <1>1, <2>1, <3>1
    <3> QED
      BY <1>4, <1>5, <2>2, <2>4, <3>2
  <2> QED
    BY <2>3, <2>4
<1>7. l \in 0 .. l /\ l + 1 \in 0 .. l + 1 /\ l + 1 # 0 /\ (l + 1) - 1 = l
  BY <1>1
<1>8. e[l + 1] = Edit(e[l], k) /\ d[l] = e[l]
  BY <1>1, <1>4, <1>6, <1>7
<1> QED
  BY <1>1, <1>2, <1>3, <1>7, <1>8 DEF r

(***************************************************************************)
(* One byte of it                                                          *)
(***************************************************************************)

(* What is left of a telnet command, or of a doubled 0xff that is owed to  *)
(* the reader, when con_in_byte is so far into it.                         *)
Fits(iac, part, owed, keys) ==
  \/ iac = "data" /\ part = << >> /\ owed = << >>
  \/ iac = "iac" /\ part = <<"IAC">> /\ owed = <<"IAC">> /\ "FF" \in keys
  \/ iac = "iac" /\ part \in {<<"WILL", "opt">>, <<"SB", "opt", "IAC", "SE">>} /\ owed = << >>
  \/ iac = "opt" /\ part = <<"opt">> /\ owed = << >>
  \/ iac = "sb" /\ part \in {<<"opt", "IAC", "SE">>, <<"IAC", "SE">>} /\ owed = << >>
  \/ iac = "sbiac" /\ part = <<"SE">> /\ owed = << >>

Pairs == {<<"LF">>, <<"NUL">>}
Single == {"a", "CR", "BS", "EOT"}
Command == {"FF", "WILL", "SB"}

LEMMA EncodingIs ==
  /\ DOMAIN Encodings = AllKeys
  /\ \A k \in Single : Encodings[k] = {<<k>>}
  /\ Encodings["RETURN"] = {<<"CR", "LF">>, <<"CR", "NUL">>}
  /\ Encodings["FF"] = {<<"IAC", "IAC">>}
  /\ Encodings["WILL"] = {<<"IAC", "WILL", "opt">>}
  /\ Encodings["SB"] = {<<"IAC", "SB", "opt", "IAC", "SE">>}
<1>1. DOMAIN Encodings = AllKeys
  BY DEF Encodings, AllKeys
<1>2. \A k \in AllKeys : Encodings[k] =
        CASE k = "RETURN" -> {<<"CR", "LF">>, <<"CR", "NUL">>}
          [] k = "FF" -> {<<"IAC", "IAC">>}
          [] k = "WILL" -> {<<"IAC", "WILL", "opt">>}
          [] k = "SB" -> {<<"IAC", "SB", "opt", "IAC", "SE">>}
          [] OTHER -> {<<k>>}
  BY DEF Encodings, AllKeys
<1>3. Single \subseteq AllKeys /\ {"RETURN", "FF", "WILL", "SB"} \subseteq AllKeys
  BY DEF Single, AllKeys
<1>4. \A k \in Single : k # "RETURN" /\ k # "FF" /\ k # "WILL" /\ k # "SB"
  BY DEF Single
<1>5. \A k \in Single : Encodings[k] = {<<k>>}
  BY <1>2, <1>3, <1>4
<1>6. Encodings["RETURN"] = {<<"CR", "LF">>, <<"CR", "NUL">>}
  BY <1>2, <1>3
<1>7. Encodings["FF"] = {<<"IAC", "IAC">>}
  BY <1>2, <1>3
<1>8. Encodings["WILL"] = {<<"IAC", "WILL", "opt">>}
  BY <1>2, <1>3
<1>9. Encodings["SB"] = {<<"IAC", "SB", "opt", "IAC", "SE">>}
  BY <1>2, <1>3
<1> QED
  BY <1>1, <1>5, <1>6, <1>7, <1>8, <1>9

LEMMA Tuples ==
  ASSUME NEW S, NEW a \in S, NEW b \in S, NEW c \in S, NEW d \in S, NEW e \in S
  PROVE  /\ <<a>> \in Seq(S) /\ <<a, b>> \in Seq(S) /\ <<a, b, c>> \in Seq(S)
         /\ <<a, b, c, d>> \in Seq(S) /\ <<a, b, c, d, e>> \in Seq(S)
         /\ Head(<<a>>) = a /\ Head(<<a, b>>) = a /\ Head(<<a, b, c>>) = a
         /\ Head(<<a, b, c, d>>) = a /\ Head(<<a, b, c, d, e>>) = a
         /\ Tail(<<a>>) = << >> /\ Tail(<<a, b>>) = <<b>> /\ Tail(<<a, b, c>>) = <<b, c>>
         /\ Tail(<<a, b, c, d>>) = <<b, c, d>> /\ Tail(<<a, b, c, d, e>>) = <<b, c, d, e>>
  OBVIOUS

(* In the middle of a command or of a doubled 0xff.                        *)
LEMMA StepInPart ==
  ASSUME NEW iac, NEW part, NEW owed, NEW keys, Fits(iac, part, owed, keys), part # << >>
  PROVE  LET d == Decode(iac, Head(part))
         IN  /\ part \in Seq(Byte) /\ Tail(part) \in Seq(Byte)
             /\ \/ d[1] = None /\ Fits(d[2], Tail(part), owed, keys)
                \/ /\ d[1] = "IAC" /\ d[2] = "data" /\ Tail(part) = << >>
                   /\ owed = <<"IAC">> /\ "FF" \in keys
<1>0. /\ "IAC" \in Byte /\ "WILL" \in Byte /\ "opt" \in Byte /\ "SB" \in Byte /\ "SE" \in Byte
  BY DEF Byte
<1>z. << >> \in Seq(Byte)
  OBVIOUS
<1>1. CASE iac = "iac" /\ part = <<"IAC">> /\ owed = <<"IAC">> /\ "FF" \in keys
  <2>1. Head(part) = "IAC" /\ Tail(part) = << >> /\ part \in Seq(Byte)
    BY <1>0, <1>1, Tuples
  <2>2. Decode("iac", "IAC") = <<"IAC", "data">>
    BY DEF Decode
  <2> QED
    BY <1>1, <1>z, <2>1, <2>2
<1>2. CASE iac = "iac" /\ part = <<"WILL", "opt">> /\ owed = << >>
  <2>1. Head(part) = "WILL" /\ Tail(part) = <<"opt">> /\ part \in Seq(Byte) /\ <<"opt">> \in Seq(Byte)
    BY <1>0, <1>2, Tuples
  <2>2. Decode("iac", "WILL") = <<None, "opt">>
    BY DEF Decode, EOF
  <2> QED
    BY <1>2, <2>1, <2>2 DEF Fits
<1>3. CASE iac = "iac" /\ part = <<"SB", "opt", "IAC", "SE">> /\ owed = << >>
  <2>1. Head(part) = "SB" /\ Tail(part) = <<"opt", "IAC", "SE">> /\ part \in Seq(Byte)
        /\ <<"opt", "IAC", "SE">> \in Seq(Byte)
    BY <1>0, <1>3, Tuples
  <2>2. Decode("iac", "SB") = <<None, "sb">>
    BY DEF Decode, EOF
  <2> QED
    BY <1>3, <2>1, <2>2 DEF Fits
<1>4. CASE iac = "opt" /\ part = <<"opt">> /\ owed = << >>
  <2>1. Head(part) = "opt" /\ Tail(part) = << >> /\ part \in Seq(Byte)
    BY <1>0, <1>4, Tuples
  <2>2. Decode("opt", "opt") = <<None, "data">>
    BY DEF Decode
  <2> QED
    BY <1>4, <1>z, <2>1, <2>2 DEF Fits
<1>5. CASE iac = "sb" /\ part = <<"opt", "IAC", "SE">> /\ owed = << >>
  <2>1. Head(part) = "opt" /\ Tail(part) = <<"IAC", "SE">> /\ part \in Seq(Byte)
        /\ <<"IAC", "SE">> \in Seq(Byte)
    BY <1>0, <1>5, Tuples
  <2>2. Decode("sb", "opt") = <<None, "sb">>
    BY DEF Decode, EOF
  <2> QED
    BY <1>5, <2>1, <2>2 DEF Fits
<1>6. CASE iac = "sb" /\ part = <<"IAC", "SE">> /\ owed = << >>
  <2>1. Head(part) = "IAC" /\ Tail(part) = <<"SE">> /\ part \in Seq(Byte) /\ <<"SE">> \in Seq(Byte)
    BY <1>0, <1>6, Tuples
  <2>2. Decode("sb", "IAC") = <<None, "sbiac">>
    BY DEF Decode, EOF
  <2> QED
    BY <1>6, <2>1, <2>2 DEF Fits
<1>7. CASE iac = "sbiac" /\ part = <<"SE">> /\ owed = << >>
  <2>1. Head(part) = "SE" /\ Tail(part) = << >> /\ part \in Seq(Byte)
    BY <1>0, <1>7, Tuples
  <2>2. Decode("sbiac", "SE") = <<None, "data">>
    BY DEF Decode, EOF
  <2> QED
    BY <1>7, <1>z, <2>1, <2>2 DEF Fits
<1> QED
  BY <1>1, <1>2, <1>3, <1>4, <1>5, <1>6, <1>7 DEF Fits

(* The first byte of a key.                                                *)
LEMMA StepFirst ==
  ASSUME NEW keys, NEW k \in keys, k \in AllKeys, NEW c \in Encodings[k]
  PROVE  LET d == Decode("data", Head(c))
         IN  /\ c \in Seq(Byte) /\ c # << >> /\ Tail(c) \in Seq(Byte)
             /\ \/ /\ k \in Command /\ d[1] = None
                   /\ Fits(d[2], Tail(c), Keystroke(k), keys)
                \/ k \in Single /\ d[1] = k /\ d[2] = "data" /\ Tail(c) = << >>
                \/ k = "RETURN" /\ d[1] = "CR" /\ d[2] = "data" /\ Tail(c) \in Pairs
<1>0. /\ "IAC" \in Byte /\ "WILL" \in Byte /\ "opt" \in Byte /\ "SB" \in Byte /\ "SE" \in Byte
      /\ "CR" \in Byte /\ "LF" \in Byte /\ "NUL" \in Byte /\ Single \subseteq Byte
  BY DEF Byte, Single
<1>z. << >> \in Seq(Byte)
  OBVIOUS
<1>1. CASE k \in Single
  <2>1. c = <<k>>
    BY <1>1, EncodingIs
  <2>2. Head(c) = k /\ Tail(c) = << >> /\ c \in Seq(Byte) /\ c # << >>
    BY <1>0, <1>1, <2>1, Tuples
  <2>3. Decode("data", k) = <<k, "data">>
    <3>1. k # "IAC"
      BY <1>1 DEF Single
    <3> QED
      BY <3>1 DEF Decode
  <2> QED
    BY <1>1, <1>z, <2>2, <2>3
<1>2. CASE k = "RETURN"
  <2>1. c = <<"CR", "LF">> \/ c = <<"CR", "NUL">>
    BY <1>2, EncodingIs
  <2>2. Head(c) = "CR" /\ Tail(c) \in Pairs /\ c \in Seq(Byte) /\ c # << >> /\ Tail(c) \in Seq(Byte)
    <3>1. CASE c = <<"CR", "LF">>
      <4>1. Head(c) = "CR" /\ Tail(c) = <<"LF">> /\ c \in Seq(Byte) /\ <<"LF">> \in Seq(Byte)
        BY <1>0, <3>1, Tuples
      <4> QED
        BY <3>1, <4>1 DEF Pairs
    <3>2. CASE c = <<"CR", "NUL">>
      <4>1. Head(c) = "CR" /\ Tail(c) = <<"NUL">> /\ c \in Seq(Byte) /\ <<"NUL">> \in Seq(Byte)
        BY <1>0, <3>2, Tuples
      <4> QED
        BY <3>2, <4>1 DEF Pairs
    <3> QED
      BY <2>1, <3>1, <3>2
  <2>3. Decode("data", "CR") = <<"CR", "data">>
    BY DEF Decode
  <2> QED
    BY <1>2, <2>2, <2>3
<1>3. Decode("data", "IAC") = <<None, "iac">>
  BY DEF Decode
<1>4. CASE k = "FF"
  <2>1. c = <<"IAC", "IAC">>
    BY <1>4, EncodingIs
  <2>2. Head(c) = "IAC" /\ Tail(c) = <<"IAC">> /\ c \in Seq(Byte) /\ c # << >> /\ <<"IAC">> \in Seq(Byte)
    BY <1>0, <2>1, Tuples
  <2>3. Keystroke("FF") = <<"IAC">>
    BY DEF Keystroke
  <2>4. Fits("iac", <<"IAC">>, <<"IAC">>, keys)
    BY <1>4 DEF Fits
  <2> QED
    <3>1. Decode("data", Head(c))[1] = None /\ Decode("data", Head(c))[2] = "iac"
      BY <1>3, <2>2
    <3>2. Fits("iac", Tail(c), Keystroke(k), keys)
      BY <1>4, <2>2, <2>3, <2>4
    <3>3. k \in Command
      BY <1>4 DEF Command
    <3> QED
      BY <2>2, <3>1, <3>2, <3>3
<1>5. CASE k = "WILL"
  <2>1. c = <<"IAC", "WILL", "opt">>
    BY <1>5, EncodingIs
  <2>2. /\ Head(c) = "IAC" /\ Tail(c) = <<"WILL", "opt">> /\ c \in Seq(Byte) /\ c # << >>
        /\ <<"WILL", "opt">> \in Seq(Byte)
    BY <1>0, <2>1, Tuples
  <2>3. Keystroke("WILL") = << >>
    BY DEF Keystroke
  <2>4. Fits("iac", <<"WILL", "opt">>, << >>, keys)
    BY DEF Fits
  <2> QED
    <3>1. Decode("data", Head(c))[1] = None /\ Decode("data", Head(c))[2] = "iac"
      BY <1>3, <2>2
    <3>2. Fits("iac", Tail(c), Keystroke(k), keys)
      BY <1>5, <2>2, <2>3, <2>4
    <3>3. k \in Command
      BY <1>5 DEF Command
    <3> QED
      BY <2>2, <3>1, <3>2, <3>3
<1>6. CASE k = "SB"
  <2>1. c = <<"IAC", "SB", "opt", "IAC", "SE">>
    BY <1>6, EncodingIs
  <2>2. /\ Head(c) = "IAC" /\ Tail(c) = <<"SB", "opt", "IAC", "SE">> /\ c \in Seq(Byte) /\ c # << >>
        /\ <<"SB", "opt", "IAC", "SE">> \in Seq(Byte)
    BY <1>0, <2>1, Tuples
  <2>3. Keystroke("SB") = << >>
    BY DEF Keystroke
  <2>4. Fits("iac", <<"SB", "opt", "IAC", "SE">>, << >>, keys)
    BY DEF Fits
  <2> QED
    <3>1. Decode("data", Head(c))[1] = None /\ Decode("data", Head(c))[2] = "iac"
      BY <1>3, <2>2
    <3>2. Fits("iac", Tail(c), Keystroke(k), keys)
      BY <1>6, <2>2, <2>3, <2>4
    <3>3. k \in Command
      BY <1>6 DEF Command
    <3> QED
      BY <2>2, <3>1, <3>2, <3>3
<1> QED
  BY <1>1, <1>2, <1>4, <1>5, <1>6 DEF AllKeys, Single

LEMMA HeadTail ==
  ASSUME NEW p \in Seq(Byte), NEW q \in Seq(Byte), p # << >>
  PROVE  p \o q # << >> /\ Head(p \o q) = Head(p) /\ Tail(p \o q) = Tail(p) \o q
<1> SUFFICES ASSUME NEW S, NEW a \in Seq(S), NEW b \in Seq(S), a # << >>
             PROVE  a \o b # << >> /\ Head(a \o b) = Head(a) /\ Tail(a \o b) = Tail(a) \o b
  OBVIOUS
<1>1. a \o b # << >> /\ Head(a \o b) = Head(a)
  OBVIOUS
<1> DEFINE x == Tail(a \o b)
           y == Tail(a) \o b
<1>2. x \in Seq(S) /\ y \in Seq(S) /\ Len(x) = Len(a) + Len(b) - 1 /\ Len(y) = Len(x)
  OBVIOUS
<1>3. \A n \in 1 .. Len(x) : x[n] = y[n]
  <2> SUFFICES ASSUME NEW n \in 1 .. Len(x) PROVE x[n] = y[n]
    OBVIOUS
  <2>1. x[n] = (a \o b)[n + 1]
    BY <1>2
  <2> QED
    BY <1>2, <2>1
<1> HIDE DEF x, y
<1>4. x = y
  BY <1>2, <1>3, SeqEqual
<1> QED
  BY <1>1, <1>4 DEF x, y

(* cs encodes the keys t, all of them among keys.                          *)
Encodes(cs, t, keys) ==
  /\ cs \in Codings /\ t \in Seq(AllKeys) /\ Len(cs) = Len(t)
  /\ \A n \in 1 .. Len(t) : t[n] \in keys /\ cs[n] \in Encodings[t[n]]

(* What con_in_byte has made of a byte, d, and what is then left.          *)
Read1(d, iac, owed, i, part2, owed2, i2, t, keys) ==
  \/ /\ d[1] = None /\ Fits(d[2], part2, owed2, keys)
     /\ \/ i2 = i /\ owed2 = owed
        \/ i2 = i + 1 /\ t[i2] \in Command /\ owed = << >> /\ owed2 = Keystroke(t[i2])
  \/ /\ d[1] = "IAC" /\ d[2] = "data" /\ owed = <<"IAC">> /\ "FF" \in keys
     /\ i2 = i /\ part2 = << >> /\ owed2 = << >>
  \/ /\ i2 = i + 1 /\ t[i2] \in Single /\ d[1] = t[i2] /\ d[2] = "data"
     /\ iac = "data" /\ owed = << >> /\ part2 = << >> /\ owed2 = << >>
  \/ /\ i2 = i + 1 /\ t[i2] = "RETURN" /\ d[1] = "CR" /\ d[2] = "data"
     /\ iac = "data" /\ owed = << >> /\ part2 \in Pairs /\ owed2 = << >>

(* Decoding the next byte of what is ahead leaves a part of a key again.   *)
LEMMA NextByte ==
  ASSUME NEW cs, NEW t, NEW keys, Encodes(cs, t, keys),
         NEW j \in 0 .. Len(cs), NEW i \in 0 .. j,
         NEW iac, NEW part, NEW owed, Fits(iac, part, owed, keys),
         part \o Bytes(cs, i, j) # << >>
  PROVE  \E i2, part2, owed2 :
           /\ i2 \in i .. j /\ part2 \in Seq(Byte)
           /\ Tail(part \o Bytes(cs, i, j)) = part2 \o Bytes(cs, i2, j)
           /\ Read1(Decode(iac, Head(part \o Bytes(cs, i, j))), iac, owed, i,
                    part2, owed2, i2, t, keys)
<1>0. cs \in Codings /\ Len(cs) \in Nat /\ Len(t) = Len(cs)
  BY DEF Encodes, Codings
<1> DEFINE s == Bytes(cs, i, j)
<1>1. s \in Seq(Byte)
  <2>1. i \in 0 .. Len(cs)
    BY <1>0
  <2> QED
    BY <1>0, <2>1, BytesType
<1>2. CASE part # << >>
  <2>1. /\ part \in Seq(Byte) /\ Tail(part) \in Seq(Byte)
        /\ \/ /\ Decode(iac, Head(part))[1] = None
              /\ Fits(Decode(iac, Head(part))[2], Tail(part), owed, keys)
           \/ /\ Decode(iac, Head(part))[1] = "IAC" /\ Decode(iac, Head(part))[2] = "data"
              /\ Tail(part) = << >> /\ owed = <<"IAC">> /\ "FF" \in keys
    BY <1>2, StepInPart
  <2>2. Head(part \o s) = Head(part) /\ Tail(part \o s) = Tail(part) \o s
    BY <1>1, <1>2, <2>1, HeadTail
  <2>3. i \in i .. j
    BY <1>0
  <2> HIDE DEF s
  <2>4. CASE /\ Decode(iac, Head(part))[1] = None
             /\ Fits(Decode(iac, Head(part))[2], Tail(part), owed, keys)
    <3>1. Read1(Decode(iac, Head(part \o s)), iac, owed, i, Tail(part), owed, i, t, keys)
      BY <2>2, <2>4 DEF Read1
    <3> QED
      BY <2>1, <2>2, <2>3, <3>1 DEF s
  <2>5. CASE /\ Decode(iac, Head(part))[1] = "IAC" /\ Decode(iac, Head(part))[2] = "data"
             /\ Tail(part) = << >> /\ owed = <<"IAC">> /\ "FF" \in keys
    <3>1. Read1(Decode(iac, Head(part \o s)), iac, owed, i, Tail(part), << >>, i, t, keys)
      BY <2>2, <2>5 DEF Read1
    <3> QED
      BY <2>1, <2>2, <2>3, <3>1 DEF s
  <2> QED
    BY <2>1, <2>4, <2>5
<1>3. CASE part = << >>
  <2>1. iac = "data" /\ owed = << >>
    <3>1. /\ <<"IAC">> # << >> /\ <<"WILL", "opt">> # << >> /\ <<"SB", "opt", "IAC", "SE">> # << >>
          /\ <<"opt">> # << >> /\ <<"opt", "IAC", "SE">> # << >> /\ <<"IAC", "SE">> # << >>
          /\ <<"SE">> # << >>
      OBVIOUS
    <3> QED
      BY <1>3, <3>1 DEF Fits
  <2>2. part \o s = s /\ s # << >>
    BY <1>1, <1>3, Nothing
  <2>3. i \in 0 .. j - 1
    <3>1. i # j
      BY <1>0, <2>2, BytesNone
    <3> QED
      BY <1>0, <3>1
  <2> DEFINE c == cs[i + 1]
             k == t[i + 1]
             r == Bytes(cs, i + 1, j)
  <2>4. /\ s = c \o r /\ k \in keys /\ k \in AllKeys /\ c \in Encodings[k] /\ i + 1 \in i .. j
        /\ r \in Seq(Byte)
    <3>1. i + 1 \in 1 .. Len(t) /\ i + 1 \in i .. j /\ i + 1 \in 0 .. Len(cs)
      BY <1>0, <2>3
    <3>2. s = c \o r
      BY <1>0, <2>3, BytesFirst
    <3>3. r \in Seq(Byte)
      BY <1>0, <3>1, BytesType
    <3> QED
      BY <3>1, <3>2, <3>3 DEF Encodes
  <2> HIDE DEF c, s, r, k
  <2>5. /\ c \in Seq(Byte) /\ c # << >> /\ Tail(c) \in Seq(Byte)
        /\ \/ /\ k \in Command /\ Decode("data", Head(c))[1] = None
              /\ Fits(Decode("data", Head(c))[2], Tail(c), Keystroke(k), keys)
           \/ /\ k \in Single /\ Decode("data", Head(c))[1] = k
              /\ Decode("data", Head(c))[2] = "data" /\ Tail(c) = << >>
           \/ /\ k = "RETURN" /\ Decode("data", Head(c))[1] = "CR"
              /\ Decode("data", Head(c))[2] = "data" /\ Tail(c) \in Pairs
    BY <2>4, StepFirst
  <2>6. Head(part \o s) = Head(c) /\ Tail(part \o s) = Tail(c) \o r
    BY <2>2, <2>4, <2>5, HeadTail
  <2> DEFINE o == IF k \in Command THEN Keystroke(k) ELSE << >>
  <2>7. Read1(Decode(iac, Head(part \o s)), iac, owed, i, Tail(c), o, i + 1, t, keys)
    <3>1. CASE /\ k \in Command /\ Decode("data", Head(c))[1] = None
               /\ Fits(Decode("data", Head(c))[2], Tail(c), Keystroke(k), keys)
      BY <2>1, <2>6, <3>1 DEF Read1, k
    <3>2. CASE /\ k \in Single /\ Decode("data", Head(c))[1] = k
               /\ Decode("data", Head(c))[2] = "data" /\ Tail(c) = << >>
      <4>1. o = << >>
        BY <3>2 DEF Command, Single
      <4> QED
        BY <2>1, <2>6, <3>2, <4>1 DEF Read1, k
    <3>3. CASE /\ k = "RETURN" /\ Decode("data", Head(c))[1] = "CR"
               /\ Decode("data", Head(c))[2] = "data" /\ Tail(c) \in Pairs
      <4>1. o = << >>
        BY <3>3 DEF Command
      <4> QED
        BY <2>1, <2>6, <3>3, <4>1 DEF Read1, k
    <3> QED
      BY <2>5, <3>1, <3>2, <3>3
  <2> QED
    BY <2>4, <2>5, <2>6, <2>7 DEF s, r
<1> QED
  BY <1>2, <1>3

(* Nothing is left.                                                        *)
LEMMA AllRead ==
  ASSUME NEW cs, NEW t, NEW keys, Encodes(cs, t, keys),
         NEW j \in 0 .. Len(cs), NEW i \in 0 .. j, NEW part \in Seq(Byte),
         part \o Bytes(cs, i, j) = << >>
  PROVE  part = << >> /\ i = j
<1>0. cs \in Codings /\ Len(cs) \in Nat /\ Len(t) = Len(cs)
  BY DEF Encodes, Codings
<1>1. Bytes(cs, i, j) \in Seq(Byte)
  <2>1. i \in 0 .. Len(cs)
    BY <1>0
  <2> QED
    BY <1>0, <2>1, BytesType
<1>2. part = << >>
  BY <1>1, HeadTail
<1>3. CASE i # j
  <2>1. i \in 0 .. j - 1 /\ i + 1 \in 1 .. Len(t) /\ i + 1 \in 0 .. Len(cs)
    BY <1>0, <1>3
  <2>2. /\ Bytes(cs, i, j) = cs[i + 1] \o Bytes(cs, i + 1, j) /\ Bytes(cs, i + 1, j) \in Seq(Byte)
    BY <1>0, <2>1, BytesFirst, BytesType
  <2>3. t[i + 1] \in keys /\ t[i + 1] \in AllKeys /\ cs[i + 1] \in Encodings[t[i + 1]]
    BY <2>1 DEF Encodes
  <2>4. cs[i + 1] \in Seq(Byte) /\ cs[i + 1] # << >>
    BY <2>3, StepFirst
  <2>5. Bytes(cs, i, j) # << >>
    BY <2>2, <2>4, HeadTail
  <2>6. part \o Bytes(cs, i, j) = Bytes(cs, i, j)
    BY <1>1, <1>2, Nothing
  <2> QED
    BY <2>5, <2>6
<1> QED
  BY <1>2, <1>3

(***************************************************************************)
(* The types                                                               *)
(***************************************************************************)

Ats == {"idle", "key", "pair", "cook", "cookpair"}
Iacs == {"data", "iac", "opt", "sb", "sbiac"}
Reading == [at : Ats, iac : Iacs, got : Seq(Byte), max : 1 .. MaxRead]

TypeInv ==
  /\ ConTypeOK
  /\ rd \in Reading
  /\ rd.at = "key" => Len(rd.got) < rd.max

LEMMA IdleType == Idle \in Reading
<1>1. 1 \in 1 .. MaxRead
  BY ConsoleAssumption
<1>2. << >> \in Seq(Byte)
  OBVIOUS
<1> QED
  BY <1>1, <1>2 DEF Idle, Reading, Ats, Iacs

LEMMA DecodeType ==
  ASSUME NEW iac \in Iacs, NEW b \in Byte \cup {EOF}
  PROVE  /\ Decode(iac, b)[1] \in Byte \cup {EOF, None} /\ Decode(iac, b)[2] \in Iacs
<1>1. Decode(iac, b) \in {<<None, "data">>, <<None, "iac">>, <<None, "opt">>, <<None, "sb">>,
                          <<None, "sbiac">>, <<b, "data">>, <<EOF, "data">>}
  BY DEF Decode, Iacs
<1>2. \A x, y : <<x, y>>[1] = x /\ <<x, y>>[2] = y
  OBVIOUS
<1> QED
  BY <1>1, <1>2 DEF Iacs

LEMMA ReceivedType ==
  ASSUME TypeInv
  PROVE  /\ Received \in Byte \cup {EOF} /\ sockAfter \in Seq(Byte) /\ eofAfter \in BOOLEAN
<1>1. con_pushback \in Byte \cup {None} /\ sock \in Seq(Byte) /\ con_eof \in BOOLEAN
  BY DEF TypeInv, ConTypeOK
<1>2. sock # << >> => Head(sock) \in Byte /\ Tail(sock) \in Seq(Byte)
  BY <1>1
<1>3. Received \in Byte \cup {EOF}
  BY <1>1, <1>2 DEF Received
<1>4. sockAfter \in Seq(Byte)
  BY <1>1, <1>2 DEF sockAfter
<1>5. eofAfter \in BOOLEAN
  BY <1>1 DEF eofAfter
<1> QED
  BY <1>3, <1>4, <1>5

LEMMA KeysAre ==
  ASSUME NEW m \in Modes, NEW k \in Keys[m]
  PROVE  k \in AllKeys /\ k \in UNION Range(Keys)
<1>1. Keys \in [Modes -> SUBSET DOMAIN Encodings]
  BY ConsoleAssumption
<1>2. k \in DOMAIN Encodings /\ Keys[m] \in Range(Keys)
  BY <1>1 DEF Range
<1> QED
  BY <1>2, EncodingIs

LEMMA TypeStarts == ConInit => TypeInv
<1> SUFFICES ASSUME ConInit PROVE TypeInv
  OBVIOUS
<1>1. << >> \in Seq(Byte) /\ << >> \in Seq(Seq(Byte)) /\ << >> \in Seq(UNION Range(Keys))
      /\ Len(<< >>) = 0
  OBVIOUS
<1>2. rd \in Reading /\ rd.at = "idle" /\ rd.at # "key" /\ rd.at # "pair"
  BY IdleType DEF ConInit, Idle
<1>3. MaxKeys \in Nat
  BY ConsoleAssumption
<1>4. rd.at \in Ats /\ rd.iac \in Iacs /\ rd.got \in Seq(Byte) /\ rd.max \in 1 .. MaxRead
  BY <1>2 DEF Reading
<1>6. /\ typed = << >> /\ wire = << >> /\ sock = << >> /\ con_line = << >> /\ delivered = << >>
      /\ tty \in Modes
  BY DEF ConInit
<1>7. {closed, con_eof, promised} \subseteq BOOLEAN
  BY DEF ConInit
<1>8. con_pushback \in (Byte \ {"LF", "NUL"}) \cup {None}
  BY DEF ConInit
<1>9. Len(typed) <= MaxKeys
  BY <1>1, <1>3, <1>6
<1> HIDE DEF ConInit
<1>5. ConTypeOK
  BY <1>1, <1>2, <1>4, <1>6, <1>7, <1>8, <1>9 DEF ConTypeOK, Ats, Iacs
<1> QED
  BY <1>2, <1>5 DEF TypeInv

(* The fields of a read, whatever else changes.                            *)
LEMMA ReadTyped ==
  ASSUME rd' \in Reading, rd'.at \in {"key", "pair"} => Len(rd'.got) <= rd'.max,
         rd'.at = "key" => Len(rd'.got) < rd'.max,
         typed' \in Seq(UNION Range(Keys)), Len(typed') <= MaxKeys,
         wire' \in Seq(Seq(Byte)), sock' \in Seq(Byte), con_line' \in Seq(Byte),
         closed' \in BOOLEAN, con_eof' \in BOOLEAN, promised' \in BOOLEAN,
         con_pushback' \in (Byte \ {"LF", "NUL"}) \cup {None},
         tty' \in Modes, delivered' \in Seq(Byte)
  PROVE  TypeInv'
<1>1. rd'.at \in Ats /\ rd'.iac \in Iacs /\ rd'.got \in Seq(Byte) /\ rd'.max \in 1 .. MaxRead
  BY DEF Reading
<1> QED
  BY <1>1 DEF TypeInv, ConTypeOK, Ats, Iacs

LEMMA ReadFields ==
  ASSUME TypeInv
  PROVE  /\ rd \in Reading /\ rd.at \in Ats /\ rd.iac \in Iacs /\ rd.got \in Seq(Byte)
         /\ rd.max \in 1 .. MaxRead /\ rd.max \in Nat /\ Len(rd.got) \in Nat
         /\ rd.at \in {"key", "pair"} => Len(rd.got) <= rd.max
         /\ rd.at = "key" => Len(rd.got) < rd.max
         /\ typed \in Seq(UNION Range(Keys)) /\ Len(typed) <= MaxKeys
         /\ wire \in Seq(Seq(Byte)) /\ sock \in Seq(Byte) /\ con_line \in Seq(Byte)
         /\ closed \in BOOLEAN /\ con_eof \in BOOLEAN /\ promised \in BOOLEAN
         /\ con_pushback \in (Byte \ {"LF", "NUL"}) \cup {None}
         /\ tty \in Modes /\ delivered \in Seq(Byte)
<1>1. rd \in Reading
  BY DEF TypeInv
<1>2. rd.at \in Ats /\ rd.iac \in Iacs /\ rd.got \in Seq(Byte) /\ rd.max \in 1 .. MaxRead
  BY <1>1 DEF Reading
<1>3. rd.max \in Nat /\ Len(rd.got) \in Nat
  BY <1>2, ConsoleAssumption
<1> QED
  BY <1>1, <1>2, <1>3 DEF TypeInv, ConTypeOK

LEMMA NextKeyTyped ==
  ASSUME TypeInv, NEW got \in Seq(Byte), NEW pb, NextKey(got, pb)
  PROVE  /\ rd' \in Reading /\ rd'.at # "pair" /\ (rd'.at = "key" => Len(rd'.got) < rd'.max)
         /\ delivered' \in Seq(Byte) /\ promised' \in BOOLEAN
<1>1. /\ rd \in Reading /\ delivered \in Seq(Byte) /\ promised \in BOOLEAN
  BY ReadFields
<1>2. CASE Len(got) < rd.max /\ Available(pb, sockAfter, eofAfter) # 0
  <2>1. rd' = [rd EXCEPT !.at = "key", !.iac = "data", !.got = got]
        /\ delivered' = delivered /\ promised' = promised
    BY <1>2 DEF NextKey
  <2>2. rd' \in Reading /\ rd'.at = "key" /\ rd'.got = got /\ rd'.max = rd.max
    BY <1>1, <2>1 DEF Reading, Ats, Iacs
  <2> QED
    BY <1>1, <1>2, <2>1, <2>2
<1>3. CASE ~(Len(got) < rd.max /\ Available(pb, sockAfter, eofAfter) # 0)
  <2>1. rd' = Idle /\ delivered' = delivered \o got /\ promised' = FALSE
    BY <1>3 DEF NextKey, ReadReturns
  <2>2. rd' \in Reading /\ rd'.at = "idle"
    BY <2>1, IdleType DEF Idle
  <2>3. delivered' \in Seq(Byte)
    BY <1>1, <2>1, Joined
  <2> QED
    BY <2>1, <2>2, <2>3
<1> QED
  BY <1>2, <1>3

LEMMA LineReadTyped ==
  ASSUME TypeInv, NEW line \in Seq(Byte), LineRead(line)
  PROVE  /\ rd' \in Reading /\ rd'.at = "idle"
         /\ delivered' \in Seq(Byte) /\ promised' \in BOOLEAN /\ con_line' \in Seq(Byte)
<1>1. /\ rd.max \in Nat /\ delivered \in Seq(Byte)
  BY ReadFields
<1> DEFINE a == SubSeq(line, 1, IF Len(line) < rd.max THEN Len(line) ELSE rd.max)
           m == rd.max
<1>2. a \in Seq(Byte) /\ SubSeq(line, rd.max + 1, Len(line)) \in Seq(Byte)
  <2> HIDE DEF m
  <2>1. m \in Nat
    BY <1>1 DEF m
  <2>2. /\ SubSeq(line, 1, IF Len(line) < m THEN Len(line) ELSE m) \in Seq(Byte)
        /\ SubSeq(line, m + 1, Len(line)) \in Seq(Byte)
    BY <2>1
  <2> QED
    BY <2>2 DEF m
<1>3. rd' = Idle /\ delivered' = delivered \o a /\ promised' = FALSE
      /\ con_line' = SubSeq(line, rd.max + 1, Len(line))
  BY DEF LineRead, ReadReturns
<1>4. rd' \in Reading /\ rd'.at = "idle"
  BY <1>3, IdleType DEF Idle
<1> HIDE DEF a
<1>5. delivered' \in Seq(Byte)
  BY <1>1, <1>2, <1>3, Joined
<1> QED
  BY <1>2, <1>3, <1>4, <1>5

LEMMA InByteTyped ==
  ASSUME TypeInv, NEW at, NEW b, InByte(at, b)
  PROVE  /\ sock' \in Seq(Byte) /\ con_eof' \in BOOLEAN /\ b \in Byte \cup {EOF, None}
         /\ Decode(rd.iac, Received)[2] \in Iacs
         /\ typed' = typed /\ wire' = wire /\ closed' = closed /\ tty' = tty
<1>1. Received \in Byte \cup {EOF} /\ rd.iac \in Iacs
  BY ReceivedType, ReadFields
<1> QED
  BY <1>1, ReceivedType, DecodeType DEF InByte

LEMMA BytesAre ==
  /\ None \notin Byte /\ EOF \notin Byte /\ "CR" \in Byte /\ "LF" \in Byte /\ None # EOF
  /\ \A b \in Byte \cup {EOF} : Pushed(b) \in (Byte \ {"LF", "NUL"}) \cup {None}
  BY DEF None, EOF, Byte, Pushed

LEMMA OneMore == \A q \in Seq(Byte), b \in Byte : Append(q, b) \in Seq(Byte) /\ Len(Append(q, b)) = Len(q) + 1
<1> SUFFICES ASSUME NEW S, NEW q \in Seq(S), NEW b \in S
             PROVE  Append(q, b) \in Seq(S) /\ Len(Append(q, b)) = Len(q) + 1
  OBVIOUS
<1> QED
  OBVIOUS

LEMMA TypeStays == TypeInv /\ ConNext => TypeInv'
<1> SUFFICES ASSUME TypeInv, ConNext PROVE TypeInv'
  OBVIOUS
<1>0. /\ rd \in Reading /\ rd.at \in Ats /\ rd.iac \in Iacs /\ rd.got \in Seq(Byte)
      /\ rd.max \in Nat /\ Len(rd.got) \in Nat
      /\ rd.at \in {"key", "pair"} => Len(rd.got) <= rd.max
      /\ rd.at = "key" => Len(rd.got) < rd.max
      /\ typed \in Seq(UNION Range(Keys)) /\ Len(typed) <= MaxKeys
      /\ wire \in Seq(Seq(Byte)) /\ sock \in Seq(Byte) /\ con_line \in Seq(Byte)
      /\ closed \in BOOLEAN /\ con_eof \in BOOLEAN /\ promised \in BOOLEAN
      /\ con_pushback \in (Byte \ {"LF", "NUL"}) \cup {None}
      /\ tty \in Modes /\ delivered \in Seq(Byte)
  BY ReadFields
<1>1. CASE Type
  <2>k. PICK k \in Keys[tty] : \E code \in Encodings[k] :
          typed' = Append(typed, k) /\ wire' = Append(wire, code)
    BY <1>1 DEF Type
  <2>1. PICK code \in Encodings[k] :
          typed' = Append(typed, k) /\ wire' = Append(wire, code)
    BY <2>k
  <2>2. k \in AllKeys /\ k \in UNION Range(Keys) /\ code \in Seq(Byte)
    BY <1>0, KeysAre, StepFirst
  <2>3. typed' \in Seq(UNION Range(Keys)) /\ Len(typed') <= MaxKeys
    <3>1. Len(typed) < MaxKeys /\ Len(typed) \in Nat /\ MaxKeys \in Nat
      BY <1>0, <1>1, ConsoleAssumption DEF Type
    <3>2. Len(typed') = Len(typed) + 1 /\ typed' \in Seq(UNION Range(Keys))
      BY <1>0, <2>1, <2>2
    <3> QED
      BY <3>1, <3>2
  <2>4. wire' \in Seq(Seq(Byte))
    BY <1>0, <2>1, <2>2
  <2> QED
    BY <1>0, <1>1, <2>3, <2>4, ReadTyped DEF Type
<1>2. CASE HangUp
  BY <1>0, <1>2, ReadTyped DEF HangUp
<1>3. CASE Arrive
  <2>1. PICK n \in 1 .. Len(Head(wire)) :
       /\ sock' = sock \o SubSeq(Head(wire), 1, n)
       /\ wire' = (IF n = Len(Head(wire)) THEN << >>
                   ELSE <<SubSeq(Head(wire), n + 1, Len(Head(wire)))>>) \o Tail(wire)
    BY <1>3 DEF Arrive
  <2> DEFINE h == Head(wire)
             l == Tail(wire)
             s == SubSeq(h, 1, n)
             r == SubSeq(h, n + 1, Len(h))
  <2>2. h \in Seq(Byte) /\ l \in Seq(Seq(Byte))
    BY <1>0, <1>3 DEF Arrive
  <2>3. s \in Seq(Byte) /\ r \in Seq(Byte)
    <3> HIDE DEF h
    <3>1. n \in 1 .. Len(h)
      BY DEF h
    <3> QED
      BY <2>2, <3>1
  <2>4. sock' \in Seq(Byte)
    <3>1. sock' = sock \o s
      BY <2>1
    <3> HIDE DEF s
    <3> QED
      BY <1>0, <2>3, <3>1, Joined
  <2>5. wire' \in Seq(Seq(Byte))
    <3>1. wire' = (IF n = Len(h) THEN << >> ELSE <<r>>) \o l
      BY <2>1
    <3> HIDE DEF h, l, r
    <3> DEFINE p == IF n = Len(h) THEN << >> ELSE <<r>>
    <3>2. p \in Seq(Seq(Byte))
      BY <2>3
    <3> HIDE DEF p
    <3>3. p \o l \in Seq(Seq(Byte))
      BY <2>2, <3>2
    <3> QED
      BY <3>1, <3>3 DEF p
  <2> QED
    BY <1>0, <1>3, <2>4, <2>5, ReadTyped DEF Arrive
<1>4. CASE Swallow
  <2>1. /\ sock' \in Seq(Byte) /\ con_eof' \in BOOLEAN /\ Decode(rd.iac, Received)[2] \in Iacs
        /\ typed' = typed /\ wire' = wire /\ closed' = closed /\ tty' = tty
    BY <1>4, InByteTyped DEF Swallow
  <2>2. rd' = [rd EXCEPT !.iac = Decode(rd.iac, Received)[2]]
    BY <1>4 DEF Swallow
  <2>3. rd' \in Reading /\ rd'.at = rd.at /\ rd'.got = rd.got /\ rd'.max = rd.max
    BY <1>0, <2>1, <2>2 DEF Reading
  <2> QED
    BY <1>0, <1>4, <2>1, <2>3, ReadTyped DEF Swallow
<1>5. CASE ReadKey
  <2>1. PICK b \in Byte \cup {EOF} :
       /\ InByte("key", b)
       /\ IF b = EOF THEN ReadReturns(rd.got)
          ELSE IF b = "CR" /\ PairFollows
            THEN /\ rd' = [rd EXCEPT !.at = "pair", !.iac = "data", !.got = Append(rd.got, b)]
                 /\ UNCHANGED <<delivered, promised>>
            ELSE NextKey(Append(rd.got, b), None)
    BY <1>5 DEF ReadKey
  <2>2. /\ sock' \in Seq(Byte) /\ con_eof' \in BOOLEAN
        /\ typed' = typed /\ wire' = wire /\ closed' = closed /\ tty' = tty
    BY <2>1, InByteTyped
  <2>3. Len(rd.got) < rd.max
    BY <1>0, <2>1 DEF InByte
  <2>4. /\ rd' \in Reading /\ (rd'.at \in {"key", "pair"} => Len(rd'.got) <= rd'.max)
        /\ (rd'.at = "key" => Len(rd'.got) < rd'.max)
        /\ delivered' \in Seq(Byte) /\ promised' \in BOOLEAN
    <3>1. CASE b = EOF
      <4>1. rd' = Idle /\ delivered' = delivered \o rd.got /\ promised' = FALSE
        BY <2>1, <3>1 DEF ReadReturns
      <4> QED
        BY <1>0, <4>1, IdleType, Joined DEF Idle
    <3>2. CASE b # EOF /\ b = "CR" /\ PairFollows
      <4>1. rd' = [rd EXCEPT !.at = "pair", !.iac = "data", !.got = Append(rd.got, b)]
            /\ delivered' = delivered /\ promised' = promised
        BY <2>1, <3>2
      <4>2. Append(rd.got, b) \in Seq(Byte) /\ Len(Append(rd.got, b)) = Len(rd.got) + 1
        BY <1>0, <3>2, OneMore, BytesAre
      <4> DEFINE g == Append(rd.got, b)
      <4>3. g \in Seq(Byte) /\ Len(g) <= rd.max
        BY <1>0, <2>3, <4>2
      <4> HIDE DEF g
      <4>4. rd' \in Reading /\ rd'.at = "pair" /\ rd'.got = g /\ rd'.max = rd.max
        BY <1>0, <4>1, <4>3 DEF Reading, Ats, Iacs, g
      <4> QED
        BY <1>0, <4>1, <4>3, <4>4
    <3>3. CASE b # EOF /\ ~(b = "CR" /\ PairFollows)
      <4>1. NextKey(Append(rd.got, b), None) /\ Append(rd.got, b) \in Seq(Byte)
        BY <1>0, <2>1, <3>3, OneMore
      <4>2. /\ rd' \in Reading /\ rd'.at # "pair" /\ (rd'.at = "key" => Len(rd'.got) < rd'.max)
            /\ delivered' \in Seq(Byte) /\ promised' \in BOOLEAN
        BY <4>1, NextKeyTyped
      <4>3. rd'.at = "key" => Len(rd'.got) <= rd'.max
        BY <4>2, ConsoleAssumption DEF Reading
      <4> QED
        BY <4>2, <4>3
    <3> QED
      BY <3>1, <3>2, <3>3
  <2> QED
    BY <1>0, <1>5, <2>2, <2>4, ReadTyped DEF ReadKey
<1>6. CASE ReadPair
  <2>1. PICK b \in Byte \cup {EOF} :
          InByte("pair", b) /\ con_pushback' = Pushed(b) /\ NextKey(rd.got, Pushed(b))
    BY <1>6 DEF ReadPair
  <2>2. /\ sock' \in Seq(Byte) /\ con_eof' \in BOOLEAN
        /\ typed' = typed /\ wire' = wire /\ closed' = closed /\ tty' = tty
    BY <2>1, InByteTyped
  <2>3. /\ rd' \in Reading /\ rd'.at # "pair" /\ (rd'.at = "key" => Len(rd'.got) < rd'.max)
        /\ delivered' \in Seq(Byte) /\ promised' \in BOOLEAN
    BY <1>0, <2>1, NextKeyTyped
  <2>4. rd'.at = "key" => Len(rd'.got) <= rd'.max
    BY <2>3, ConsoleAssumption DEF Reading
  <2>5. con_pushback' \in (Byte \ {"LF", "NUL"}) \cup {None}
    BY <2>1, BytesAre
  <2> QED
    BY <1>0, <1>6, <2>2, <2>3, <2>4, <2>5, ReadTyped DEF ReadPair
<1>7. CASE CookByte
  <2>1. PICK b \in Byte \cup {EOF} :
       /\ InByte("cook", b)
       /\ CASE b \in {EOF, "EOT"} -> LineRead(rd.got)
            [] b = "LF" -> LineRead(Append(rd.got, "LF"))
            [] OTHER ->
                 /\ rd' = [rd EXCEPT !.at = IF b = "CR" THEN "cookpair" ELSE rd.at,
                                     !.iac = "data",
                                     !.got = CASE b \in {"NUL", "CR"} -> rd.got
                                               [] b = "BS" -> Erase(rd.got)
                                               [] OTHER -> Append(rd.got, b)]
                 /\ UNCHANGED <<con_line, delivered, promised>>
    BY <1>7 DEF CookByte
  <2>2. /\ sock' \in Seq(Byte) /\ con_eof' \in BOOLEAN /\ rd.at = "cook"
        /\ typed' = typed /\ wire' = wire /\ closed' = closed /\ tty' = tty
    BY <2>1, InByteTyped DEF InByte
  <2>3. /\ rd' \in Reading /\ rd'.at # "key" /\ rd'.at # "pair" /\ con_line' \in Seq(Byte)
        /\ delivered' \in Seq(Byte) /\ promised' \in BOOLEAN
    <3>1. CASE b \in {EOF, "EOT"}
      <4>1. LineRead(rd.got)
        BY <2>1, <3>1 DEF EOF
      <4> QED
        BY <1>0, <4>1, LineReadTyped
    <3>2. CASE b = "LF"
      <4>1. LineRead(Append(rd.got, "LF")) /\ Append(rd.got, "LF") \in Seq(Byte)
        BY <1>0, <2>1, <3>2, OneMore, BytesAre DEF EOF
      <4> QED
        BY <4>1, LineReadTyped
    <3>3. CASE b \notin {EOF, "EOT", "LF"}
      <4> DEFINE g == CASE b \in {"NUL", "CR"} -> rd.got [] b = "BS" -> Erase(rd.got)
                        [] OTHER -> Append(rd.got, b)
                 a == IF b = "CR" THEN "cookpair" ELSE rd.at
      <4>1. rd' = [rd EXCEPT !.at = a, !.iac = "data", !.got = g]
            /\ con_line' = con_line /\ delivered' = delivered /\ promised' = promised
        BY <2>1, <3>3
      <4>2. g \in Seq(Byte)
        BY <1>0, <3>3, OneMore, EraseType
      <4>3. a \in Ats /\ a # "key" /\ a # "pair"
        BY <2>2 DEF Ats
      <4> HIDE DEF g, a
      <4>4. rd' \in Reading /\ rd'.at = a
        BY <1>0, <4>1, <4>2, <4>3 DEF Reading, Iacs
      <4> QED
        BY <1>0, <4>1, <4>3, <4>4
    <3> QED
      BY <3>1, <3>2, <3>3
  <2> QED
    BY <1>0, <1>7, <2>2, <2>3, ReadTyped DEF CookByte
<1>8. CASE CookPair
  <2>1. PICK b \in Byte \cup {EOF} :
          InByte("cookpair", b) /\ con_pushback' = Pushed(b) /\ LineRead(Append(rd.got, "LF"))
    BY <1>8 DEF CookPair
  <2>2. /\ sock' \in Seq(Byte) /\ con_eof' \in BOOLEAN
        /\ typed' = typed /\ wire' = wire /\ closed' = closed /\ tty' = tty
    BY <2>1, InByteTyped
  <2>3. Append(rd.got, "LF") \in Seq(Byte)
    BY <1>0, OneMore, BytesAre
  <2>4. /\ rd' \in Reading /\ rd'.at = "idle" /\ con_line' \in Seq(Byte)
        /\ delivered' \in Seq(Byte) /\ promised' \in BOOLEAN
    BY <2>1, <2>3, LineReadTyped
  <2>5. con_pushback' \in (Byte \ {"LF", "NUL"}) \cup {None}
    BY <2>1, BytesAre
  <2> QED
    BY <1>0, <2>2, <2>4, <2>5, ReadTyped
<1>9. CASE Read
  <2>1. PICK max \in 1 .. MaxRead :
       IF tty = "cooked" /\ con_line # << >>
         THEN LET k == IF max < Len(con_line) THEN max ELSE Len(con_line) IN
              /\ ReadReturns(SubSeq(con_line, 1, k))
              /\ con_line' = SubSeq(con_line, k + 1, Len(con_line))
         ELSE /\ rd' = [Idle EXCEPT !.at = IF tty = "raw" THEN "key" ELSE "cook", !.max = max]
              /\ UNCHANGED <<con_line, delivered, promised>>
    BY <1>9 DEF Read
  <2>2. /\ sock' = sock /\ con_eof' = con_eof /\ con_pushback' = con_pushback
        /\ typed' = typed /\ wire' = wire /\ closed' = closed /\ tty' = tty
    BY <1>9 DEF Read
  <2>3. max \in Nat /\ 0 < max
    BY ConsoleAssumption
  <2>4. CASE tty = "cooked" /\ con_line # << >>
    <3> DEFINE k == IF max < Len(con_line) THEN max ELSE Len(con_line)
               a == SubSeq(con_line, 1, k)
               r == SubSeq(con_line, k + 1, Len(con_line))
    <3>1. rd' = Idle /\ delivered' = delivered \o a /\ promised' = FALSE /\ con_line' = r
      BY <2>1, <2>4 DEF ReadReturns
    <3>2. a \in Seq(Byte) /\ r \in Seq(Byte)
      BY <1>0, <2>3
    <3> HIDE DEF a, r
    <3>3. delivered' \in Seq(Byte) /\ con_line' \in Seq(Byte)
      BY <1>0, <3>1, <3>2, Joined
    <3>4. rd' \in Reading /\ rd'.at = "idle"
      BY <3>1, IdleType DEF Idle
    <3> QED
      BY <1>0, <2>2, <3>1, <3>3, <3>4, ReadTyped
  <2>5. CASE ~(tty = "cooked" /\ con_line # << >>)
    <3>1. /\ rd' = [Idle EXCEPT !.at = IF tty = "raw" THEN "key" ELSE "cook", !.max = max]
          /\ con_line' = con_line /\ delivered' = delivered /\ promised' = promised
      BY <2>1, <2>5
    <3>2. rd' \in Reading /\ rd'.got = << >> /\ rd'.max = max
      BY <3>1, IdleType DEF Idle, Reading, Ats
    <3>3. Len(rd'.got) = 0 /\ 0 < rd'.max /\ rd'.max \in Nat
      BY <2>3, <3>2
    <3> QED
      BY <1>0, <2>2, <3>1, <3>2, <3>3, ReadTyped
  <2> QED
    BY <2>4, <2>5
<1>10. CASE Fionread
  BY <1>0, <1>10, ReadTyped DEF Fionread
<1>11. CASE SetMode
  <2>1. tty' \in Modes
    BY <1>11 DEF SetMode
  <2> QED
    BY <1>0, <1>11, <2>1, ReadTyped DEF SetMode
<1> QED
  BY <1>1, <1>2, <1>3, <1>4, <1>5, <1>6, <1>7, <1>8, <1>9, <1>10, <1>11 DEF ConNext, Receive

(***************************************************************************)
(* Where every key is                                                      *)
(***************************************************************************)

(* The bytes the guest has still to receive, those that have been cut out  *)
(* of the keys on their way included.                                      *)
Waiting == IF con_pushback = None THEN << >> ELSE <<con_pushback>>
Behind == IF tty \in Split THEN FlattenSeq(wire) ELSE << >>
Ahead == Waiting \o (sock \o Behind)

(* cs are the codes the client has sent for the keys typed; the first j of *)
(* them have left the wire, or all if the network cuts them up.            *)
Sent(cs, j) ==
  /\ Encodes(cs, typed, Keys[tty])
  /\ j \in 0 .. Len(cs)
  /\ tty \in Split => j = Len(cs)
  /\ tty \notin Split =>
       /\ Len(wire) = Len(cs) - j
       /\ \A n \in 1 .. Len(wire) : wire[n] = cs[j + n]

Paired == {"pair", "cookpair"}

(* Of what is ahead, part is the rest of a key the decoder is in, and the  *)
(* keys from i on follow; owed is what the key it is in is still to yield. *)
Place(cs, i, j, part, owed) ==
  /\ i \in 0 .. j /\ part \in Seq(Byte)
  /\ Ahead = part \o Bytes(cs, i, j)
  /\ \/ Fits(rd.iac, part, owed, Keys[tty])
     \/ rd.at \in Paired /\ rd.iac = "data" /\ part \in Pairs /\ owed = << >>
  /\ rd.at \in Paired /\ part \notin Pairs => "CR" \in Keys[tty]

(* What the guest has of the first i keys: in raw mode ...                 *)
RawText(i, owed) ==
  /\ rd.at \in {"idle", "key", "pair"}
  /\ con_line = << >>
  /\ (delivered \o rd.got) \o owed = Keystrokes(SubSeq(typed, 1, i))

(* ... and in cooked mode, where c is what they come to.                   *)
CookedText(at, got, line, eof, read, owed, c, all) ==
  /\ at \in {"idle", "cook", "cookpair"}
  /\ line # << >> => at = "idle"
  /\ at = "cookpair" =>
       (read \o got) \o <<"LF">> = c.out /\ c.line = << >> /\ owed = << >>
  /\ at # "cookpair" /\ ~eof => read \o line = c.out /\ got \o owed = c.line
  /\ at # "cookpair" /\ eof => read \o line = c.out \o c.line /\ got = << >> /\ all

Text(i, owed) ==
  /\ rd.at = "idle" => rd = Idle
  /\ tty = "raw" => RawText(i, owed)
  /\ tty = "cooked" =>
       CookedText(rd.at, rd.got, con_line, con_eof, delivered, owed,
                  Cook(SubSeq(typed, 1, i)), i = Len(typed))

(* The end of the input is the end.                                        *)
Over ==
  /\ con_eof => closed /\ wire = << >> /\ sock = << >> /\ con_pushback = None
  /\ typed = << >> => wire = << >>

Accounted(cs, i, j, part, owed) ==
  Sent(cs, j) /\ Place(cs, i, j, part, owed) /\ Text(i, owed)

ConInv ==
  /\ TypeInv
  /\ Over
  /\ \E cs, i, j, part, owed : Accounted(cs, i, j, part, owed)

(* The clients the code can read: no mode has both a lone CR, after which  *)
(* a byte is read ahead and pushed back, and the data byte 0xff, which     *)
(* would be decoded a second time when it is (console.c:534); and a RETURN *)
(* is not cut in two in raw mode, where its halves would be two keystrokes *)
(* (console.c:532).                                                        *)
Readable ==
  /\ \A m \in Modes : ~("CR" \in Keys[m] /\ "FF" \in Keys[m])
  /\ "raw" \in Split => "RETURN" \notin Keys["raw"]

Steady == ~Switches /\ Readable

(* A byte is received, or the end if everything has been.                  *)
LEMMA Receiving ==
  ASSUME TypeInv, CanReceive,
         NEW cs, NEW i, NEW j, NEW part, NEW owed, Sent(cs, j), Place(cs, i, j, part, owed)
  PROVE  \/ /\ Received = EOF /\ Ahead = << >> /\ closed /\ wire = << >> /\ sock = << >>
            /\ con_pushback = None /\ sockAfter = << >> /\ i = Len(typed) /\ part = << >>
         \/ /\ Received \in Byte /\ Received = Head(Ahead) /\ Ahead # << >>
            /\ sockAfter \o Behind = Tail(Ahead) /\ ~(con_pushback = None /\ sock = << >>)
<1>0. /\ sock \in Seq(Byte) /\ con_pushback \in (Byte \ {"LF", "NUL"}) \cup {None}
      /\ wire \in Seq(Seq(Byte)) /\ tty \in Modes
  BY ReadFields
<1>1. Behind \in Seq(Byte)
  BY <1>0, FlattenType DEF Behind
<1>2. sock \o Behind \in Seq(Byte)
  BY <1>0, <1>1, Joined
<1>3. CASE con_pushback # None
  <2>1. con_pushback \in Byte /\ Received = con_pushback /\ sockAfter = sock
    BY <1>0, <1>3 DEF Received, sockAfter
  <2>2. <<con_pushback>> \in Seq(Byte) /\ Head(<<con_pushback>>) = con_pushback
        /\ Tail(<<con_pushback>>) = << >> /\ <<con_pushback>> # << >>
    BY <2>1, Tuples
  <2>3. Ahead = <<con_pushback>> \o (sock \o Behind)
    BY <1>3 DEF Ahead, Waiting
  <2>4. Ahead # << >> /\ Head(Ahead) = con_pushback /\ Tail(Ahead) = << >> \o (sock \o Behind)
    BY <1>2, <2>2, <2>3, HeadTail
  <2>5. Tail(Ahead) = sock \o Behind
    BY <1>2, <2>4, Nothing
  <2> QED
    BY <1>3, <2>1, <2>4, <2>5
<1>4. CASE con_pushback = None /\ sock # << >>
  <2>1. Received = Head(sock) /\ sockAfter = Tail(sock) /\ Head(sock) \in Byte
    BY <1>0, <1>4 DEF Received, sockAfter
  <2>2. Ahead = sock \o Behind
    BY <1>2, <1>4, Nothing DEF Ahead, Waiting
  <2>3. Ahead # << >> /\ Head(Ahead) = Head(sock) /\ Tail(Ahead) = Tail(sock) \o Behind
    BY <1>0, <1>1, <1>4, <2>2, HeadTail
  <2> QED
    BY <1>4, <2>1, <2>3
<1>5. CASE con_pushback = None /\ sock = << >>
  <2>1. closed /\ wire = << >> /\ Received = EOF /\ sockAfter = << >>
    BY <1>5 DEF CanReceive, Received, sockAfter
  <2>2. Behind = << >>
    BY <2>1, FlattenEmpty DEF Behind
  <2>3. Ahead = << >>
    BY <1>1, <1>5, <2>2, Nothing DEF Ahead, Waiting
  <2>4. part = << >> /\ i = j
    <3>1. /\ Encodes(cs, typed, Keys[tty]) /\ j \in 0 .. Len(cs) /\ i \in 0 .. j
          /\ part \in Seq(Byte) /\ Ahead = part \o Bytes(cs, i, j)
      BY DEF Sent, Place
    <3>2. part \o Bytes(cs, i, j) = << >>
      BY <2>3, <3>1
    <3> QED
      BY <3>1, <3>2, AllRead
  <2>5. j = Len(typed)
    <3>1. Len(cs) = Len(typed) /\ Len(cs) \in Nat /\ j \in 0 .. Len(cs)
      BY DEF Sent, Encodes, Codings
    <3>2. CASE tty \in Split
      BY <3>1, <3>2 DEF Sent
    <3>3. CASE tty \notin Split
      <4>1. Len(wire) = Len(cs) - j
        BY <3>3 DEF Sent
      <4>2. Len(wire) = 0
        BY <2>1
      <4> QED
        BY <3>1, <4>1, <4>2
    <3> QED
      BY <3>2, <3>3
  <2> QED
    BY <1>5, <2>1, <2>3, <2>4, <2>5
<1> QED
  BY <1>3, <1>4, <1>5

LEMMA FitsIs ==
  ASSUME NEW iac, NEW part, NEW owed, NEW keys, Fits(iac, part, owed, keys)
  PROVE  /\ part \notin Pairs /\ owed \in Seq(Byte)
         /\ part = << >> => iac = "data" /\ owed = << >>
         /\ iac = "data" => part = << >> /\ owed = << >>
<1>1. /\ <<"IAC">> # << >> /\ <<"WILL", "opt">> # << >> /\ <<"SB", "opt", "IAC", "SE">> # << >>
      /\ <<"opt">> # << >> /\ <<"opt", "IAC", "SE">> # << >> /\ <<"IAC", "SE">> # << >>
      /\ <<"SE">> # << >>
  OBVIOUS
<1>2. /\ << >> \notin Pairs /\ <<"IAC">> \notin Pairs /\ <<"WILL", "opt">> \notin Pairs
      /\ <<"SB", "opt", "IAC", "SE">> \notin Pairs
      /\ <<"opt">> \notin Pairs /\ <<"opt", "IAC", "SE">> \notin Pairs
      /\ <<"IAC", "SE">> \notin Pairs /\ <<"SE">> \notin Pairs
  BY DEF Pairs
<1>3. << >> \in Seq(Byte) /\ <<"IAC">> \in Seq(Byte)
  BY DEF Byte
<1>4. part \in {<< >>, <<"IAC">>, <<"WILL", "opt">>, <<"SB", "opt", "IAC", "SE">>, <<"opt">>,
                <<"opt", "IAC", "SE">>, <<"IAC", "SE">>, <<"SE">>}
  BY DEF Fits
<1>5. owed \in {<< >>, <<"IAC">>}
  BY DEF Fits
<1>6. part = << >> => iac = "data" /\ owed = << >>
  BY <1>1 DEF Fits
<1>7. iac = "data" => part = << >> /\ owed = << >>
  BY DEF Fits
<1>8. part \notin Pairs
  BY <1>2, <1>4
<1>9. owed \in Seq(Byte)
  BY <1>3, <1>5
<1> QED
  BY <1>6, <1>7, <1>8, <1>9

(* What a receive makes of the next byte: nothing yet, the other half of   *)
(* a 0xff, a key of one byte, a RETURN, or a RETURN's second byte.         *)
Yields(b, iac2, i, i2, part, part2, owed, owed2) ==
  \/ /\ b = None /\ Fits(iac2, part2, owed2, Keys[tty]) /\ part \notin Pairs
     /\ \/ i2 = i /\ owed2 = owed
        \/ i2 = i + 1 /\ typed[i2] \in Command /\ owed = << >> /\ owed2 = Keystroke(typed[i2])
  \/ /\ b = "IAC" /\ "FF" \in Keys[tty] /\ part \notin Pairs
     /\ i2 = i /\ part2 = << >> /\ owed = <<"IAC">> /\ owed2 = << >>
  \/ /\ i2 = i + 1 /\ typed[i2] \in Single /\ b = typed[i2] /\ part \notin Pairs
     /\ rd.iac = "data" /\ owed = << >> /\ part2 = << >> /\ owed2 = << >>
  \/ /\ i2 = i + 1 /\ typed[i2] = "RETURN" /\ b = "CR" /\ part \notin Pairs
     /\ rd.iac = "data" /\ owed = << >> /\ part2 \in Pairs /\ owed2 = << >>
  \/ /\ rd.at \in Paired /\ part \in Pairs /\ b \in {"LF", "NUL"} /\ i2 = i
     /\ part2 = << >> /\ owed = << >> /\ owed2 = << >>

Ended(cs, i, j, part, owed) ==
  /\ i = Len(typed) /\ i = j /\ part = << >> /\ owed = << >> /\ rd.iac = "data"
  /\ closed /\ wire = << >> /\ con_pushback = None /\ sockAfter = << >>
  /\ sockAfter \o Behind = << >> \o Bytes(cs, i, j)

(* A receive that can go on takes the end, when all has been read, or the  *)
(* next byte, and what is ahead is again a part of a key and whole keys.   *)
LEMMA Taken ==
  ASSUME TypeInv, Over, CanReceive,
         NEW cs, NEW i, NEW j, NEW part, NEW owed, Accounted(cs, i, j, part, owed)
  PROVE  \/ /\ Received = EOF /\ Decode(rd.iac, Received)[1] = EOF /\ eofAfter = TRUE
            /\ Ended(cs, i, j, part, owed)
         \/ /\ Received # EOF /\ ~con_eof /\ eofAfter = FALSE
            /\ ~(con_pushback = None /\ sock = << >>)
            /\ \E i2, part2, owed2 :
                 /\ i2 \in i .. j /\ part2 \in Seq(Byte)
                 /\ sockAfter \o Behind = part2 \o Bytes(cs, i2, j)
                 /\ Yields(Decode(rd.iac, Received)[1], Decode(rd.iac, Received)[2],
                           i, i2, part, part2, owed, owed2)
<1> USE DEF Accounted
<1>0. /\ Encodes(cs, typed, Keys[tty]) /\ j \in 0 .. Len(cs) /\ i \in 0 .. j
      /\ part \in Seq(Byte) /\ Ahead = part \o Bytes(cs, i, j) /\ cs \in Codings
      /\ Len(cs) = Len(typed) /\ Len(cs) \in Nat
  BY DEF Sent, Place, Encodes, Codings
<1>1. /\ sock \in Seq(Byte) /\ con_pushback \in (Byte \ {"LF", "NUL"}) \cup {None}
      /\ wire \in Seq(Seq(Byte)) /\ tty \in Modes
  BY ReadFields
<1>2. CASE Received = EOF
  <2>1. /\ closed /\ wire = << >> /\ sock = << >> /\ con_pushback = None
        /\ sockAfter = << >> /\ i = Len(typed) /\ part = << >> /\ Ahead = << >>
    <3>1. EOF \notin Byte
      BY BytesAre
    <3> QED
      BY <1>2, <3>1, Receiving
  <2>2. rd.iac = "data" /\ owed = << >>
    <3>1. << >> \notin Pairs
      BY DEF Pairs
    <3> QED
      BY <2>1, <3>1, FitsIs DEF Place
  <2>3. Decode(rd.iac, Received)[1] = EOF
    BY <1>2, <2>2 DEF Decode, EOF
  <2>4. eofAfter = TRUE
    BY <1>2 DEF eofAfter
  <2>5. i = j
    BY <1>0, <2>1
  <2>6. sockAfter \o Behind = << >> \o Bytes(cs, i, j)
    <3>1. Behind = << >>
      BY <2>1, FlattenEmpty DEF Behind
    <3>2. Bytes(cs, i, j) = << >>
      BY <1>0, <2>5, BytesNone
    <3> QED
      BY <2>1, <3>1, <3>2
  <2> QED
    BY <1>2, <2>1, <2>2, <2>3, <2>4, <2>5, <2>6 DEF Ended
<1>3. CASE Received # EOF
  <2>1. /\ Received \in Byte /\ Received = Head(Ahead) /\ Ahead # << >>
        /\ sockAfter \o Behind = Tail(Ahead) /\ ~(con_pushback = None /\ sock = << >>)
    BY <1>3, Receiving
  <2>2. ~con_eof /\ eofAfter = FALSE
    BY <1>3, <2>1, ReadFields DEF Over, eofAfter
  <2>3. \E i2, part2, owed2 :
          /\ i2 \in i .. j /\ part2 \in Seq(Byte)
          /\ sockAfter \o Behind = part2 \o Bytes(cs, i2, j)
          /\ Yields(Decode(rd.iac, Received)[1], Decode(rd.iac, Received)[2],
                    i, i2, part, part2, owed, owed2)
    <3>1. CASE Fits(rd.iac, part, owed, Keys[tty])
      <4>1. part \o Bytes(cs, i, j) # << >>
        BY <1>0, <2>1
      <4>2. PICK i2, part2, owed2 :
           /\ i2 \in i .. j /\ part2 \in Seq(Byte)
           /\ Tail(part \o Bytes(cs, i, j)) = part2 \o Bytes(cs, i2, j)
           /\ Read1(Decode(rd.iac, Head(part \o Bytes(cs, i, j))), rd.iac, owed, i,
                    part2, owed2, i2, typed, Keys[tty])
        BY <1>0, <3>1, <4>1, NextByte
      <4>3. Read1(Decode(rd.iac, Received), rd.iac, owed, i, part2, owed2, i2, typed, Keys[tty])
        BY <1>0, <2>1, <4>2
      <4>4. part \notin Pairs
        BY <3>1, FitsIs
      <4>5. Yields(Decode(rd.iac, Received)[1], Decode(rd.iac, Received)[2],
                   i, i2, part, part2, owed, owed2)
        BY <4>3, <4>4 DEF Read1, Yields
      <4>6. sockAfter \o Behind = part2 \o Bytes(cs, i2, j)
        BY <1>0, <2>1, <4>2
      <4>7. i2 \in i .. j /\ part2 \in Seq(Byte)
        BY <4>2
      <4> QED
        BY <4>5, <4>6, <4>7
    <3>2. CASE rd.at \in Paired /\ rd.iac = "data" /\ part \in Pairs /\ owed = << >>
      <4>1. PICK b \in {"LF", "NUL"} : part = <<b>>
        BY <3>2 DEF Pairs
      <4>2. b \in Byte
        BY DEF Byte
      <4>3. Head(part) = b /\ Tail(part) = << >> /\ part # << >>
        BY <4>1, <4>2, Tuples
      <4>4. Bytes(cs, i, j) \in Seq(Byte)
        <5>1. i \in 0 .. Len(cs)
          BY <1>0
        <5> QED
          BY <1>0, <5>1, BytesType
      <4>5. Head(Ahead) = b /\ Tail(Ahead) = << >> \o Bytes(cs, i, j)
        BY <1>0, <4>3, <4>4, HeadTail
      <4>6. Decode("data", b) = <<b, "data">>
        BY DEF Decode
      <4>7. Decode(rd.iac, Received)[1] = b
        BY <2>1, <3>2, <4>5, <4>6
      <4>8. Yields(Decode(rd.iac, Received)[1], Decode(rd.iac, Received)[2],
                   i, i, part, << >>, owed, << >>)
        BY <3>2, <4>7 DEF Yields
      <4>9. i \in i .. j /\ << >> \in Seq(Byte)
        BY <1>0
      <4> QED
        BY <2>1, <4>5, <4>8, <4>9
    <3> QED
      BY <3>1, <3>2 DEF Place
  <2> QED
    BY <1>3, <2>1, <2>2, <2>3
<1> QED
  BY <1>2, <1>3

(* The keys one more.                                                      *)
LEMMA OneKey ==
  ASSUME NEW t \in Seq(AllKeys), NEW i \in 0 .. Len(t)
  PROVE  /\ SubSeq(t, 1, i) \in Seq(AllKeys)
         /\ Keystrokes(SubSeq(t, 1, i)) \in Seq(Byte) /\ Cook(SubSeq(t, 1, i)) \in Cooking
         /\ i + 1 \in 0 .. Len(t) =>
              /\ t[i + 1] \in AllKeys
              /\ Keystrokes(SubSeq(t, 1, i + 1)) =
                   Keystrokes(SubSeq(t, 1, i)) \o Keystroke(t[i + 1])
              /\ Cook(SubSeq(t, 1, i + 1)) = Edit(Cook(SubSeq(t, 1, i)), t[i + 1])
<1>0. "a" \in AllKeys
  BY DEF AllKeys
<1>1. SubSeq(t, 1, i) \in Seq(AllKeys)
  OBVIOUS
<1>2. Keystrokes(SubSeq(t, 1, i)) \in Seq(Byte) /\ Cook(SubSeq(t, 1, i)) \in Cooking
  BY <1>0, <1>1, KeystrokesAppend, CookAppend
<1>3. ASSUME i + 1 \in 0 .. Len(t)
      PROVE  /\ t[i + 1] \in AllKeys
             /\ SubSeq(t, 1, i + 1) = Append(SubSeq(t, 1, i), t[i + 1])
  <2>1. t[i + 1] \in AllKeys
    BY <1>3
  <2> DEFINE a == SubSeq(t, 1, i + 1)
             b == Append(SubSeq(t, 1, i), t[i + 1])
  <2>2. a \in Seq(AllKeys) /\ b \in Seq(AllKeys) /\ Len(a) = i + 1 /\ Len(b) = i + 1
    BY <1>1, <1>3, <2>1
  <2>3. \A n \in 1 .. Len(a) : a[n] = b[n]
    <3> SUFFICES ASSUME NEW n \in 1 .. i + 1 PROVE a[n] = b[n]
      BY <2>2
    <3>1. a[n] = t[n]
      BY <1>3
    <3>2. b[n] = t[n]
      BY <1>1, <1>3
    <3> QED
      BY <3>1, <3>2
  <2> HIDE DEF a, b
  <2>4. a = b
    BY <2>2, <2>3, SeqEqual
  <2> QED
    BY <2>1, <2>4 DEF a, b
<1> QED
  BY <1>1, <1>2, <1>3, KeystrokesAppend, CookAppend

LEMMA YieldsIs ==
  ASSUME NEW b, NEW iac2, NEW i, NEW i2, NEW part, NEW part2, NEW owed, NEW owed2,
         Yields(b, iac2, i, i2, part, part2, owed, owed2)
  PROVE  /\ b = None =>
              /\ Fits(iac2, part2, owed2, Keys[tty]) /\ part \notin Pairs
              /\ \/ i2 = i /\ owed2 = owed
                 \/ i2 = i + 1 /\ typed[i2] \in Command /\ owed = << >> /\ owed2 = Keystroke(typed[i2])
         /\ b # None /\ part \notin Pairs =>
              \/ /\ b = "IAC" /\ "FF" \in Keys[tty] /\ i2 = i /\ part2 = << >>
                 /\ owed = <<"IAC">> /\ owed2 = << >>
              \/ /\ i2 = i + 1 /\ rd.iac = "data" /\ owed = << >> /\ owed2 = << >>
                 /\ \/ typed[i2] \in Single /\ b = typed[i2] /\ part2 = << >>
                    \/ typed[i2] = "RETURN" /\ b = "CR" /\ part2 \in Pairs
         /\ b # None /\ part \in Pairs =>
              /\ rd.at \in Paired /\ b \in {"LF", "NUL"} /\ i2 = i
              /\ part2 = << >> /\ owed = << >> /\ owed2 = << >>
<1>1. None # "IAC" /\ None \notin Single /\ None # "CR" /\ None \notin {"LF", "NUL"}
  BY DEF None, Single
<1> HIDE DEF None
<1> DEFINE k == typed[i2]
           n == i + 1
<1> HIDE DEF k, n
<1> QED
  BY <1>1 DEF Yields, k, n

(* Of a sequence, x has been read and owed is still to come; it becomes    *)
(* another one with the next key.                                          *)
Has(x, owed, s) == x \in Seq(Byte) /\ s \in Seq(Byte) /\ x \o owed = s
HasLine(x, owed, c) == Has(x, owed, c.line)
Unedited(x, owed, c, c2) == c2.out = c.out /\ HasLine(x, owed, c2)

RawStep(i, i2, s, s2) ==
  /\ s \in Seq(Byte) /\ s2 \in Seq(Byte) /\ i \in Nat /\ i2 \in Nat
  /\ i2 = i => s2 = s
  /\ i2 = i + 1 => typed[i2] \in AllKeys /\ s2 = s \o Keystroke(typed[i2])

EditedBy(b, x, c, c2) ==
  /\ b \in {"IAC", "a", "CR", "BS", "EOT"}
  /\ b \in {"IAC", "a"} => c2.out = c.out /\ c2.line = Append(x, b)
  /\ b = "BS" => c2.out = c.out /\ c2.line = Erase(x)
  /\ b = "EOT" => c2.out = c.out \o x /\ c2.line = << >>
  /\ b = "CR" => c2.out = c.out \o x \o <<"LF">> /\ c2.line = << >>

CookStep(i, i2, c, c2) ==
  /\ c \in Cooking /\ c2 \in Cooking /\ i \in Nat /\ i2 \in Nat
  /\ i2 = i => c2 = c
  /\ i2 = i + 1 => typed[i2] \in AllKeys /\ c2 = Edit(c, typed[i2])

(* What the byte is to the guest in raw mode.                              *)
LEMMA RawAfter ==
  ASSUME NEW i, NEW i2, NEW b, NEW iac2, NEW part, NEW part2, NEW owed, NEW owed2,
         Yields(b, iac2, i, i2, part, part2, owed, owed2),
         NEW x, NEW s, NEW s2, Has(x, owed, s), RawStep(i, i2, s, s2)
  PROVE  /\ b = None => Has(x, owed2, s2)
         /\ b # None /\ part \notin Pairs =>
              /\ b \in Byte /\ owed2 = << >> /\ Has(Append(x, b), owed2, s2)
              /\ b # "CR" => part2 = << >>
         /\ b # None /\ part \in Pairs => Has(x, owed2, s2)
<1>h. x \in Seq(Byte) /\ s \in Seq(Byte) /\ s2 \in Seq(Byte) /\ i \in Nat /\ i2 \in Nat
  BY DEF Has, RawStep
<1> DEFINE k == typed[i2]
<1>0. x \o owed = s /\ (i2 = i => s2 = s)
  BY DEF Has, RawStep
<1>1. i2 = i + 1 => k \in AllKeys /\ s2 = s \o Keystroke(k)
  BY DEF RawStep
<1>2. \A c \in Byte : Append(x, c) = x \o <<c>> /\ <<c>> \in Seq(Byte) /\ Append(x, c) \in Seq(Byte)
  <2> SUFFICES ASSUME NEW S, x \in Seq(S), NEW c \in S
               PROVE Append(x, c) = x \o <<c>> /\ <<c>> \in Seq(S) /\ Append(x, c) \in Seq(S)
    BY <1>h
  <2> QED
    OBVIOUS
<1>n. /\ x \o << >> = x /\ "IAC" \in Byte /\ "LF" \in Byte /\ "NUL" \in Byte /\ "CR" \in Byte
      /\ Single \subseteq Byte
      /\ None \notin Byte
  BY <1>h, Nothing, BytesAre DEF Byte, Single
<1> HIDE DEF k
<1>3. CASE b = None
  <2>1. \/ i2 = i /\ owed2 = owed
        \/ i2 = i + 1 /\ k \in Command /\ owed = << >> /\ owed2 = Keystroke(k)
    BY <1>3, YieldsIs DEF k
  <2>2. CASE i2 = i /\ owed2 = owed
    <3>1. x \o owed2 = s2
      BY <1>0, <2>2
    <3> QED
      BY <1>h, <1>3, <3>1 DEF Has
  <2>3. CASE i2 = i + 1 /\ owed = << >> /\ owed2 = Keystroke(k)
    <3>1. x = s
      BY <1>0, <1>n, <2>3
    <3>2. x \o owed2 = s2
      BY <1>1, <2>3, <3>1
    <3> QED
      BY <1>h, <1>3, <3>2 DEF Has
  <2> QED
    BY <2>1, <2>2, <2>3
<1>4. CASE b # None /\ part \in Pairs
  <2>1. i2 = i /\ owed2 = << >> /\ owed = << >>
    BY <1>4, YieldsIs
  <2>2. Has(x, owed2, s2)
    BY <1>0, <1>h, <2>1 DEF Has
  <2> QED
    BY <1>4, <2>2
<1>5. CASE b # None /\ part \notin Pairs
  <2>1. CASE b = "IAC" /\ i2 = i /\ owed = <<"IAC">> /\ owed2 = << >> /\ part2 = << >>
    <3>1. Append(x, b) \in Seq(Byte) /\ Append(x, b) = s2
      BY <1>0, <1>2, <1>n, <2>1
    <3>2. Append(x, b) \o owed2 = s2
      BY <2>1, <3>1, Nothing
    <3> QED
      BY <1>h, <1>5, <1>n, <2>1, <3>1, <3>2 DEF Has
  <2>2. CASE /\ i2 = i + 1 /\ owed = << >> /\ owed2 = << >>
             /\ \/ k \in Single /\ b = k /\ part2 = << >>
                \/ k = "RETURN" /\ b = "CR"
    <3>1. x = s
      BY <1>0, <1>n, <2>2
    <3>2. Keystroke(k) = <<b>>
      BY <2>2 DEF Keystroke, Single
    <3>3. b \in Byte
      BY <1>n, <2>2
    <3>4. Append(x, b) \in Seq(Byte) /\ Append(x, b) = s2
      BY <1>1, <1>2, <2>2, <3>1, <3>2, <3>3
    <3>5. Append(x, b) \o owed2 = s2
      BY <2>2, <3>4, Nothing
    <3> QED
      BY <1>h, <1>5, <2>2, <3>3, <3>4, <3>5 DEF Has
  <2>3. \/ b = "IAC" /\ i2 = i /\ owed = <<"IAC">> /\ owed2 = << >> /\ part2 = << >>
        \/ /\ i2 = i + 1 /\ owed = << >> /\ owed2 = << >>
           /\ \/ k \in Single /\ b = k /\ part2 = << >>
              \/ k = "RETURN" /\ b = "CR"
    BY <1>5, YieldsIs DEF k
  <2> QED
    BY <2>1, <2>2, <2>3
<1> QED
  BY <1>3, <1>4, <1>5

(* ... and in cooked mode.                                                 *)
LEMMA CookedAfter ==
  ASSUME NEW i, NEW i2, NEW b, NEW iac2, NEW part, NEW part2, NEW owed, NEW owed2,
         Yields(b, iac2, i, i2, part, part2, owed, owed2),
         NEW x, NEW c, NEW c2, HasLine(x, owed, c), CookStep(i, i2, c, c2)
  PROVE  /\ b = None => Unedited(x, owed2, c, c2)
         /\ b # None /\ part \in Pairs => c2 = c /\ owed2 = << >> /\ b \in {"LF", "NUL"}
         /\ b # None /\ part \notin Pairs =>
              EditedBy(b, x, c, c2) /\ owed2 = << >> /\ (b # "CR" => part2 = << >>)
<1>h. /\ x \in Seq(Byte) /\ c \in Cooking /\ c2 \in Cooking /\ i \in Nat /\ i2 \in Nat
      /\ x \o owed = c.line /\ (i2 = i => c2 = c)
  BY DEF Has, HasLine, CookStep
<1>g. c2.line \in Seq(Byte)
  BY <1>h DEF Cooking
<1> DEFINE k == typed[i2]
<1>f. c.out \in Seq(Byte) /\ c.line \in Seq(Byte)
  BY <1>h DEF Cooking
<1>0. \A s \in Cooking, q \in AllKeys :
         /\ q \in {"RETURN", "CR"} =>
              Edit(s, q).out = s.out \o s.line \o <<"LF">> /\ Edit(s, q).line = << >>
         /\ q = "EOT" => Edit(s, q).out = s.out \o s.line /\ Edit(s, q).line = << >>
         /\ q = "BS" => Edit(s, q).out = s.out /\ Edit(s, q).line = Erase(s.line)
         /\ q \in {"a", "FF", "WILL", "SB"} =>
              Edit(s, q).out = s.out /\ Edit(s, q).line = s.line \o Keystroke(q)
  BY EditIs
<1>1. i2 = i + 1 =>
         /\ k \in {"RETURN", "CR"} => c2.out = c.out \o c.line \o <<"LF">> /\ c2.line = << >>
         /\ k = "EOT" => c2.out = c.out \o c.line /\ c2.line = << >>
         /\ k = "BS" => c2.out = c.out /\ c2.line = Erase(c.line)
         /\ k \in {"a", "FF", "WILL", "SB"} => c2.out = c.out /\ c2.line = c.line \o Keystroke(k)
  <2> SUFFICES ASSUME i2 = i + 1
               PROVE  /\ k \in {"RETURN", "CR"} =>
                           c2.out = c.out \o c.line \o <<"LF">> /\ c2.line = << >>
                      /\ k = "EOT" => c2.out = c.out \o c.line /\ c2.line = << >>
                      /\ k = "BS" => c2.out = c.out /\ c2.line = Erase(c.line)
                      /\ k \in {"a", "FF", "WILL", "SB"} =>
                           c2.out = c.out /\ c2.line = c.line \o Keystroke(k)
    OBVIOUS
  <2>1. k \in AllKeys /\ c2 = Edit(c, k)
    BY DEF CookStep
  <2> HIDE DEF k
  <2> QED
    BY <1>0, <1>h, <2>1
<1> HIDE DEF k
<1>2. \A d \in Byte : Append(x, d) = x \o <<d>>
  <2> SUFFICES ASSUME NEW S, x \in Seq(S), NEW d \in S
               PROVE Append(x, d) = x \o <<d>>
    BY <1>h
  <2> QED
    OBVIOUS
<1>n. /\ x \o << >> = x /\ "IAC" \in Byte /\ "a" \in Byte
      /\ None \notin {"IAC", "CR", "LF", "NUL", "a", "BS", "EOT"}
  BY <1>h, Nothing DEF Byte, None
<1>3. CASE b = None
  <2>1. \/ i2 = i /\ owed2 = owed
        \/ i2 = i + 1 /\ k \in Command /\ owed = << >> /\ owed2 = Keystroke(k)
    BY <1>3, YieldsIs DEF k
  <2>2. CASE i2 = i /\ owed2 = owed
    <3>1. c2 = c
      BY <1>h, <2>2
    <3>2. HasLine(x, owed2, c2)
      BY <2>2, <3>1 DEF HasLine
    <3> QED
      BY <1>3, <3>1, <3>2 DEF Unedited
  <2>3. CASE i2 = i + 1 /\ k \in Command /\ owed = << >> /\ owed2 = Keystroke(k)
    <3>1. k \in {"a", "FF", "WILL", "SB"}
      BY <2>3 DEF Command
    <3>2. c2.out = c.out /\ c2.line = c.line \o Keystroke(k)
      BY <1>1, <2>3, <3>1
    <3>3. x = c.line
      BY <1>h, <1>n, <2>3
    <3>4. x \o owed2 = c2.line
      BY <2>3, <3>2, <3>3
    <3> QED
      BY <1>3, <1>g, <1>h, <3>2, <3>4 DEF Has, HasLine, Unedited
  <2> QED
    BY <2>1, <2>2, <2>3
<1>4. CASE b # None /\ part \in Pairs
  <2>1. i2 = i /\ owed2 = << >> /\ b \in {"LF", "NUL"}
    BY <1>4, YieldsIs
  <2>2. c2 = c
    BY <1>h, <2>1
  <2> QED
    BY <1>4, <2>1, <2>2
<1>5. CASE b # None /\ part \notin Pairs
  <2>1. CASE b = "IAC" /\ i2 = i /\ owed = <<"IAC">> /\ owed2 = << >> /\ part2 = << >>
    <3>1. c2 = c
      BY <1>h, <2>1
    <3>2. c2.line = Append(x, b)
      BY <1>2, <1>h, <1>n, <2>1, <3>1
    <3>3. EditedBy(b, x, c, c2)
      BY <2>1, <3>1, <3>2 DEF EditedBy
    <3> QED
      BY <1>5, <2>1, <3>3
  <2>2. CASE /\ i2 = i + 1 /\ owed = << >> /\ owed2 = << >>
             /\ k \in Single /\ b = k /\ part2 = << >>
    <3>1. x = c.line
      BY <1>h, <1>n, <2>2
    <3>3. b \in {"a", "CR", "BS", "EOT"}
      BY <2>2 DEF Single
    <3>4. b = "a" => c2.out = c.out /\ c2.line = Append(x, b)
      <4>1. b = "a" => c2.out = c.out /\ c2.line = c.line \o Keystroke(k)
        BY <1>1, <2>2
      <4>2. b = "a" => Keystroke(k) = <<b>>
        BY <2>2 DEF Keystroke
      <4> QED
        BY <1>2, <1>n, <3>1, <4>1, <4>2
    <3>5. b = "BS" => c2.out = c.out /\ c2.line = Erase(x)
      BY <1>1, <2>2, <3>1
    <3>6. b = "EOT" => c2.out = c.out \o x /\ c2.line = << >>
      BY <1>1, <2>2, <3>1
    <3>7. b = "CR" => c2.out = c.out \o x \o <<"LF">> /\ c2.line = << >>
      BY <1>1, <2>2, <3>1
    <3>8. EditedBy(b, x, c, c2)
      <4>1. b # "IAC"
        BY <3>3
      <4> QED
        BY <3>3, <3>4, <3>5, <3>6, <3>7, <4>1 DEF EditedBy
    <3> QED
      BY <1>5, <2>2, <3>8
  <2>3. CASE i2 = i + 1 /\ owed = << >> /\ owed2 = << >> /\ k = "RETURN" /\ b = "CR"
    <3>1. x = c.line
      BY <1>h, <1>n, <2>3
    <3>3. c2.out = c.out \o x \o <<"LF">> /\ c2.line = << >>
      BY <1>1, <2>3, <3>1
    <3>4. EditedBy(b, x, c, c2)
      BY <2>3, <3>3 DEF EditedBy
    <3> QED
      BY <1>5, <2>3, <3>4
  <2> QED
    BY <1>5, <2>1, <2>2, <2>3, YieldsIs DEF k
<1> QED
  BY <1>3, <1>4, <1>5

LEMMA SentStays ==
  ASSUME NEW cs, NEW j, Sent(cs, j), typed' = typed, wire' = wire, tty' = tty
  PROVE  Sent(cs, j)' /\ Behind' = Behind
  BY DEF Sent, Behind

LEMMA Ranges ==
  ASSUME TypeInv, NEW cs, NEW i, NEW j, NEW part, NEW owed, Accounted(cs, i, j, part, owed)
  PROVE  /\ Encodes(cs, typed, Keys[tty]) /\ cs \in Codings /\ Len(cs) = Len(typed)
         /\ Len(cs) \in Nat /\ typed \in Seq(AllKeys)
         /\ j \in 0 .. Len(cs) /\ i \in 0 .. j /\ i \in 0 .. Len(cs) /\ i \in Nat
         /\ part \in Seq(Byte) /\ owed \in Seq(Byte)
         /\ rd.at \notin Paired => Fits(rd.iac, part, owed, Keys[tty]) /\ part \notin Pairs
<1>1. /\ Encodes(cs, typed, Keys[tty]) /\ cs \in Codings /\ Len(cs) = Len(typed)
      /\ typed \in Seq(AllKeys) /\ j \in 0 .. Len(cs) /\ i \in 0 .. j /\ part \in Seq(Byte)
  BY DEF Accounted, Sent, Place, Encodes
<1>2. Len(cs) \in Nat
  BY <1>1 DEF Codings
<1>3. i \in 0 .. Len(cs) /\ i \in Nat
  BY <1>1, <1>2
<1>4. rd.at \notin Paired => Fits(rd.iac, part, owed, Keys[tty])
  BY DEF Accounted, Place
<1>5. Fits(rd.iac, part, owed, Keys[tty]) \/ owed = << >>
  BY DEF Accounted, Place
<1>6. << >> \in Seq(Byte)
  OBVIOUS
<1>7. owed \in Seq(Byte) /\ (rd.at \notin Paired => part \notin Pairs)
  BY <1>4, <1>5, <1>6, FitsIs
<1> QED
  BY <1>1, <1>2, <1>3, <1>4, <1>7

(* What such a step takes of what is ahead.                                *)
Takes(b, cs, i, j, part, owed) ==
  \/ /\ b = EOF /\ con_eof' /\ i = Len(typed) /\ part = << >> /\ owed = << >>
     /\ rd.iac = "data"
     /\ con_pushback' = None => Ahead' = << >> \o Bytes(cs, i, j)
  \/ /\ b # EOF /\ ~con_eof /\ con_eof' = FALSE
     /\ \E i2, part2, owed2 :
          /\ i2 \in i .. j /\ part2 \in Seq(Byte)
          /\ con_pushback' = None => Ahead' = part2 \o Bytes(cs, i2, j)
          /\ Yields(b, Decode(rd.iac, Received)[2], i, i2, part, part2, owed, owed2)
     /\ rd.iac = "data" /\ b # None /\ con_pushback' = b => Ahead' = Ahead

(* The same of a step that receives: what is ahead afterwards, unless the  *)
(* byte is pushed back.                                                    *)
LEMMA Receives ==
  ASSUME TypeInv, Over, NEW at, NEW b, InByte(at, b),
         NEW cs, NEW i, NEW j, NEW part, NEW owed, Accounted(cs, i, j, part, owed)
  PROVE  /\ rd.at = at /\ Sent(cs, j)' /\ tty' = tty /\ typed' = typed
         /\ con_eof' /\ con_pushback' = None => Over'
         /\ ~con_eof' => Over'
         /\ Takes(b, cs, i, j, part, owed)
<1>1. /\ rd.at = at /\ CanReceive /\ b = Decode(rd.iac, Received)[1]
      /\ sock' = sockAfter /\ con_eof' = eofAfter
      /\ typed' = typed /\ wire' = wire /\ closed' = closed /\ tty' = tty
  BY DEF InByte
<1>2. Sent(cs, j)' /\ Behind' = Behind
  BY <1>1, SentStays DEF Accounted
<1>3. con_pushback' = None => Ahead' = sockAfter \o Behind
  <2>1. sockAfter \o Behind \in Seq(Byte)
    BY ReadFields, ReceivedType, FlattenType, Joined DEF Behind
  <2>2. con_pushback' = None => Ahead' = << >> \o (sockAfter \o Behind)
    BY <1>1, <1>2 DEF Ahead, Waiting
  <2> QED
    BY <2>1, <2>2, Nothing
<1>n. typed = << >> => wire = << >>
  BY DEF Over
<1>4. CASE /\ Received = EOF /\ Decode(rd.iac, Received)[1] = EOF /\ eofAfter = TRUE
           /\ Ended(cs, i, j, part, owed)
  <2>1. /\ i = Len(typed) /\ part = << >> /\ owed = << >> /\ rd.iac = "data" /\ closed /\ wire = << >>
        /\ sockAfter = << >> /\ sockAfter \o Behind = << >> \o Bytes(cs, i, j)
    BY <1>4 DEF Ended
  <2>2. con_pushback' = None => Over'
    BY <1>1, <2>1 DEF Over
  <2> QED
    BY <1>1, <1>2, <1>3, <1>4, <2>1, <2>2 DEF Takes
<1>5. CASE /\ Received # EOF /\ ~con_eof /\ eofAfter = FALSE
           /\ ~(con_pushback = None /\ sock = << >>)
           /\ \E i2, part2, owed2 :
                /\ i2 \in i .. j /\ part2 \in Seq(Byte)
                /\ sockAfter \o Behind = part2 \o Bytes(cs, i2, j)
                /\ Yields(Decode(rd.iac, Received)[1], Decode(rd.iac, Received)[2],
                          i, i2, part, part2, owed, owed2)
  <2>1. PICK i2, part2, owed2 :
          /\ i2 \in i .. j /\ part2 \in Seq(Byte)
          /\ sockAfter \o Behind = part2 \o Bytes(cs, i2, j)
          /\ Yields(Decode(rd.iac, Received)[1], Decode(rd.iac, Received)[2],
                    i, i2, part, part2, owed, owed2)
    BY <1>5
  <2>2. b # EOF
    <3>1. Received \in Byte \cup {EOF} /\ rd.iac \in Iacs
      BY ReceivedType, ReadFields
    <3>2. Decode(rd.iac, Received) \in {<<None, "data">>, <<None, "iac">>, <<None, "opt">>,
                       <<None, "sb">>, <<None, "sbiac">>, <<Received, "data">>}
      BY <1>5, <3>1 DEF Decode, Iacs
    <3>3. b = None \/ b = Received
      BY <1>1, <3>2
    <3> QED
      BY <1>5, <3>3, BytesAre
  <2>3. Over'
    BY <1>1, <1>5, <1>n DEF Over
  <2>4. ASSUME rd.iac = "data", b # None, con_pushback' = b
        PROVE  Ahead' = Ahead
    <3>1. b = Received
      <4>1. Decode("data", Received) = <<None, "iac">> \/ Decode("data", Received) = <<Received, "data">>
        BY DEF Decode
      <4> QED
        BY <1>1, <2>4, <4>1
    <3>2. /\ Received \in Byte /\ Received = Head(Ahead) /\ Ahead # << >>
          /\ sockAfter \o Behind = Tail(Ahead)
      BY <1>1, <1>5, Receiving DEF Accounted
    <3>3. Waiting' = <<Received>>
      BY <2>4, <3>1 DEF Waiting
    <3>4. Ahead' = <<Received>> \o Tail(Ahead)
      BY <1>1, <1>2, <3>2, <3>3 DEF Ahead
    <3>5. Ahead \in Seq(Byte)
      <4>1. Waiting \in Seq(Byte)
        BY ReadFields, Tuples DEF Waiting
      <4> QED
        BY <4>1, ReadFields, FlattenType, Joined DEF Behind, Ahead
    <3>6. \A q \in Seq(Byte) : q # << >> => <<Head(q)>> \o Tail(q) = q
      <4> SUFFICES ASSUME NEW S, NEW q \in Seq(S), q # << >> PROVE <<Head(q)>> \o Tail(q) = q
        OBVIOUS
      <4> QED
        OBVIOUS
    <3> QED
      BY <3>2, <3>4, <3>5, <3>6
  <2>5. \E m, p, o :
           /\ m \in i .. j /\ p \in Seq(Byte)
           /\ con_pushback' = None => Ahead' = p \o Bytes(cs, m, j)
           /\ Yields(b, Decode(rd.iac, Received)[2], i, m, part, p, owed, o)
    BY <1>1, <1>3, <2>1
  <2> QED
    BY <1>1, <1>2, <1>5, <2>2, <2>3, <2>4, <2>5 DEF Takes
<1> QED
  BY <1>1, <1>4, <1>5, Taken

(***************************************************************************)
(* Every step accounts for every key                                       *)
(***************************************************************************)

(* The text before and after a byte, in either mode.                       *)
LEMMA TextIs ==
  ASSUME TypeInv, NEW cs, NEW i, NEW j, NEW part, NEW owed, Accounted(cs, i, j, part, owed)
  PROVE  /\ rd.at = "idle" => rd = Idle
         /\ tty = "raw" => RawText(i, owed)
         /\ tty = "cooked" => CookedText(rd.at, rd.got, con_line, con_eof, delivered, owed,
                                      Cook(SubSeq(typed, 1, i)), i = Len(typed))
         /\ tty = "raw" \/ tty = "cooked"
  BY ReadFields DEF Accounted, Text, Modes

LEMMA TextStays ==
  ASSUME NEW i, NEW owed, typed' = typed, tty' = tty, rd'.at = "idle" => rd' = Idle,
         tty = "raw" =>
           /\ rd'.at \in {"idle", "key", "pair"} /\ con_line' = << >>
           /\ (delivered' \o rd'.got) \o owed = Keystrokes(SubSeq(typed, 1, i)),
         tty = "cooked" =>
           CookedText(rd'.at, rd'.got, con_line', con_eof', delivered', owed,
                      Cook(SubSeq(typed, 1, i)), i = Len(typed))
  PROVE  Text(i, owed)'
<1>1. Keystrokes(SubSeq(typed, 1, i))' = Keystrokes(SubSeq(typed, 1, i))
      /\ Cook(SubSeq(typed, 1, i))' = Cook(SubSeq(typed, 1, i)) /\ Len(typed') = Len(typed)
  OBVIOUS
<1> QED
  BY <1>1 DEF Text, RawText

LEMMA NextText ==
  ASSUME typed \in Seq(AllKeys), NEW i \in 0 .. Len(typed), NEW i2 \in 0 .. Len(typed)
  PROVE  /\ RawStep(i, i2, Keystrokes(SubSeq(typed, 1, i)), Keystrokes(SubSeq(typed, 1, i2)))
         /\ CookStep(i, i2, Cook(SubSeq(typed, 1, i)), Cook(SubSeq(typed, 1, i2)))
  BY OneKey DEF RawStep, CookStep

(* Every step keeps the account: a byte of a telnet command ...            *)
LEMMA SwallowAccounts ==
  ASSUME TypeInv, Over, Steady, Swallow,
         NEW cs, NEW i, NEW j, NEW part, NEW owed, Accounted(cs, i, j, part, owed)
  PROVE  Over' /\ \E i2, part2, owed2 : Accounted(cs, i2, j, part2, owed2)'
<1>1. /\ InByte(rd.at, None) /\ con_pushback' = None /\ rd.at # "idle"
      /\ rd' = [rd EXCEPT !.iac = Decode(rd.iac, Received)[2]]
      /\ con_line' = con_line /\ delivered' = delivered
  BY DEF Swallow
<1>i. InByte(rd.at, None)
  BY DEF Swallow
<1>r. rd \in Reading
  BY ReadFields
<1>2. /\ rd'.at = rd.at /\ rd'.iac = Decode(rd.iac, Received)[2] /\ rd'.got = rd.got
  BY <1>1, <1>r DEF Reading
<1>3. /\ Sent(cs, j)' /\ tty' = tty /\ typed' = typed /\ Over' /\ con_eof' = con_eof
      /\ ~con_eof
      /\ \E i2, part2, owed2 :
            /\ i2 \in i .. j /\ part2 \in Seq(Byte)
            /\ Ahead' = part2 \o Bytes(cs, i2, j)
            /\ Yields(None, Decode(rd.iac, Received)[2], i, i2, part, part2, owed, owed2)
  <2>1. None # EOF /\ con_eof \in BOOLEAN
    BY BytesAre, ReadFields
  <2>2. /\ Sent(cs, j)' /\ tty' = tty /\ typed' = typed
        /\ ~con_eof' => Over'
        /\ Takes(None, cs, i, j, part, owed)
    BY <1>i, Receives
  <2>3. PICK i2, part2, owed2 :
                    /\ i2 \in i .. j /\ part2 \in Seq(Byte)
                    /\ con_pushback' = None => Ahead' = part2 \o Bytes(cs, i2, j)
                    /\ Yields(None, Decode(rd.iac, Received)[2], i, i2, part, part2, owed, owed2)
    BY <2>1, <2>2 DEF Takes
  <2>4. Ahead' = part2 \o Bytes(cs, i2, j)
    BY <1>1, <2>3
  <2> QED
    BY <2>1, <2>2, <2>3, <2>4 DEF Takes
<1>4. PICK i2, part2, owed2 :
            /\ i2 \in i .. j /\ part2 \in Seq(Byte)
            /\ Ahead' = part2 \o Bytes(cs, i2, j)
            /\ Yields(None, Decode(rd.iac, Received)[2], i, i2, part, part2, owed, owed2)
  BY <1>3
<1> DEFINE iac2 == Decode(rd.iac, Received)[2]
<1> HIDE DEF iac2
<1>5. /\ Fits(iac2, part2, owed2, Keys[tty]) /\ part \notin Pairs
      /\ i2 = i \/ i2 = i + 1
      /\ owed2 \in Seq(Byte) /\ part2 \notin Pairs
  <2>1. /\ Fits(iac2, part2, owed2, Keys[tty]) /\ part \notin Pairs
        /\ i2 = i \/ i2 = i + 1
    BY <1>4, YieldsIs DEF iac2
  <2> QED
    BY <2>1, FitsIs
<1>6. /\ typed \in Seq(AllKeys) /\ j \in 0 .. Len(cs) /\ i \in 0 .. Len(typed)
      /\ Len(cs) = Len(typed) /\ i2 \in 0 .. Len(typed) /\ i2 \in 0 .. j /\ i2 \in Nat /\ i \in Nat
  <2>1. /\ typed \in Seq(AllKeys) /\ j \in 0 .. Len(cs) /\ i \in 0 .. j
        /\ Len(cs) = Len(typed) /\ Len(cs) \in Nat
    BY Ranges
  <2> QED
    BY <1>4, <2>1
<1>7. rd.at \in Paired => "CR" \in Keys[tty] /\ owed2 = << >>
  <2>1. rd.at \in Paired => "CR" \in Keys[tty]
    BY <1>5 DEF Accounted, Place
  <2>2. "CR" \in Keys[tty] => "FF" \notin Keys[tty]
    BY ReadFields DEF Steady, Readable
  <2>3. "FF" \notin Keys[tty] => owed2 = << >>
    BY <1>5 DEF Fits
  <2> QED
    BY <2>1, <2>2, <2>3
<1>8. Place(cs, i2, j, part2, owed2)'
  <2>1. Fits(rd'.iac, part2, owed2, Keys[tty'])
    BY <1>2, <1>3, <1>5 DEF iac2
  <2>2. rd'.at \in Paired => "CR" \in Keys[tty']
    BY <1>2, <1>3, <1>7
  <2>3. Ahead' = part2 \o Bytes(cs, i2, j)
    BY <1>4
  <2> QED
    BY <1>4, <1>6, <2>1, <2>2, <2>3 DEF Place
<1> DEFINE s == Keystrokes(SubSeq(typed, 1, i))
           s2 == Keystrokes(SubSeq(typed, 1, i2))
           c == Cook(SubSeq(typed, 1, i))
           c2 == Cook(SubSeq(typed, 1, i2))
<1>a. RawStep(i, i2, s, s2) /\ CookStep(i, i2, c, c2)
  BY <1>6, NextText
<1>b. /\ tty = "raw" => /\ rd.at \in {"idle", "key", "pair"} /\ con_line = << >>
                       /\ (delivered \o rd.got) \o owed = s
      /\ tty = "cooked" => CookedText(rd.at, rd.got, con_line, con_eof, delivered, owed,
                                     c, i = Len(typed))
  BY TextIs DEF RawText
<1> HIDE DEF s, s2, c, c2
<1>c. rd.got \in Seq(Byte) /\ delivered \in Seq(Byte) /\ << >> \in Seq(Byte)
  BY ReadFields
<1>d. s \in Seq(Byte) /\ c.line \in Seq(Byte)
  BY <1>a DEF RawStep, CookStep, Cooking
<1>e. ASSUME NEW x, Has(x, owed, s) PROVE Has(x, owed2, s2)
  BY <1>4, <1>a, <1>e, RawAfter
<1>f. ASSUME NEW x, HasLine(x, owed, c) PROVE c2.out = c.out /\ HasLine(x, owed2, c2)
  <2>1. Unedited(x, owed2, c, c2)
    BY <1>4, <1>a, <1>f, CookedAfter
  <2> QED
    BY <2>1 DEF Unedited
<1>g. tty = "raw" => /\ rd'.at \in {"idle", "key", "pair"} /\ con_line' = << >>
                     /\ (delivered' \o rd'.got) \o owed2 = s2
  <2> HAVE tty = "raw"
  <2>1. Has(delivered \o rd.got, owed, s)
    BY <1>b, <1>c, <1>d, Joined DEF Has
  <2>2. Has(delivered \o rd.got, owed2, s2)
    BY <1>e, <2>1
  <2> QED
    BY <1>1, <1>2, <1>b, <2>2 DEF Has
<1>h. tty = "cooked" => CookedText(rd'.at, rd'.got, con_line', con_eof', delivered', owed2,
                                   c2, i2 = Len(typed))
  <2> HAVE tty = "cooked"
  <2>1. CookedText(rd.at, rd.got, con_line, con_eof, delivered, owed, c, i = Len(typed))
    BY <1>b
  <2>2. CASE rd.at = "cookpair"
    <3>1. (delivered \o rd.got) \o <<"LF">> = c.out /\ c.line = << >> /\ owed = << >>
          /\ con_line = << >>
      BY <2>1, <2>2 DEF CookedText
    <3>2. owed2 = << >>
      BY <1>7, <2>2 DEF Paired
    <3>3. HasLine(<< >>, owed, c)
      BY <1>c, <3>1, Nothing DEF Has, HasLine
    <3>4. c2.out = c.out /\ HasLine(<< >>, owed2, c2)
      BY <1>f, <3>3
    <3>5. c2.line = << >>
      BY <1>c, <3>2, <3>4, Nothing DEF Has, HasLine
    <3> QED
      BY <1>1, <1>2, <2>2, <3>1, <3>2, <3>4, <3>5 DEF CookedText
  <2>3. CASE rd.at # "cookpair"
    <3>1. delivered \o con_line = c.out /\ rd.got \o owed = c.line
      BY <1>3, <2>1, <2>3 DEF CookedText
    <3>2. HasLine(rd.got, owed, c)
      BY <1>c, <1>d, <3>1 DEF Has, HasLine
    <3>3. c2.out = c.out /\ rd.got \o owed2 = c2.line
      BY <1>f, <3>2 DEF Has, HasLine
    <3>4. rd.at = "cook" /\ con_line = << >>
      BY <1>1, <2>1, <2>3 DEF CookedText
    <3> QED
      BY <1>1, <1>2, <1>3, <3>1, <3>3, <3>4 DEF CookedText
  <2> QED
    BY <2>2, <2>3
<1>9. Text(i2, owed2)'
  <2>1. rd'.at # "idle"
    BY <1>1, <1>2
  <2> QED
    BY <1>3, <1>g, <1>h, <2>1, TextStays DEF s2, c2
<1> QED
  BY <1>3, <1>8, <1>9 DEF Accounted

LEMMA AvailableIs ==
  ASSUME TypeInv, NEW pb, NEW sk \in Seq(Byte), NEW eof \in BOOLEAN
  PROVE  Available(pb, sk, eof) # 0 <=> eof \/ pb # None \/ con_line # << >> \/ sk # << >>
<1>1. con_line \in Seq(Byte)
  BY ReadFields
<1> DEFINE l == Len(con_line)
           n == Len(sk)
<1>2. l \in Nat /\ n \in Nat /\ (l = 0 <=> con_line = << >>) /\ (n = 0 <=> sk = << >>)
  BY <1>1
<1> HIDE DEF l, n
<1> DEFINE h == (IF pb # None THEN 1 ELSE 0) + l
<1>3. h \in Nat /\ (h = 0 <=> pb = None /\ l = 0)
  BY <1>2
<1>4. Available(pb, sk, eof) = IF eof THEN (IF h = 0 THEN 1 ELSE h) ELSE h + n
  BY DEF Available, l, n
<1> HIDE DEF h
<1>5. CASE eof
  BY <1>3, <1>4, <1>5
<1>6. CASE ~eof
  <2>1. Available(pb, sk, eof) = h + n
    BY <1>4, <1>6
  <2>2. h + n = 0 <=> h = 0 /\ n = 0
    BY <1>2, <1>3
  <2> QED
    BY <1>2, <1>3, <1>6, <2>1, <2>2
<1> QED
  BY <1>5, <1>6

LEMMA Ends ==
  ASSUME NEW a \in Seq(Byte), NEW b \in Seq(Byte), NEW k \in 0 .. Len(b)
  PROVE  /\ SubSeq(b, 1, k) \in Seq(Byte) /\ SubSeq(b, k + 1, Len(b)) \in Seq(Byte)
         /\ (a \o SubSeq(b, 1, k)) \o SubSeq(b, k + 1, Len(b)) = a \o b
<1> DEFINE p == SubSeq(b, 1, k)
           q == SubSeq(b, k + 1, Len(b))
<1>1. p \in Seq(Byte) /\ q \in Seq(Byte)
  <2> SUFFICES ASSUME NEW S, b \in Seq(S)
               PROVE  SubSeq(b, 1, k) \in Seq(S) /\ SubSeq(b, k + 1, Len(b)) \in Seq(S)
    OBVIOUS
  <2> QED
    OBVIOUS
<1>2. p \o q = b
  <2>1. Len(b) \in Nat
    OBVIOUS
  <2>2. 1 \in 1 .. Len(b) + 1 /\ k \in 1 - 1 .. Len(b) /\ Len(b) \in k .. Len(b)
    BY <2>1
  <2>3. p \o q = SubSeq(b, 1, Len(b))
    BY <2>2, ConcatAdjacentSubSeq
  <2> QED
    BY <2>3, SubSeqFull
<1> HIDE DEF p, q
<1>3. (a \o p) \o q = a \o (p \o q)
  BY <1>1, EndToEnd
<1> QED
  BY <1>1, <1>2, <1>3 DEF p, q

(* What has been read and what is left of the line are the line.           *)
LEMMA LineReadIs ==
  ASSUME TypeInv, NEW line \in Seq(Byte), LineRead(line)
  PROVE  rd' = Idle /\ delivered' \o con_line' = delivered \o line
<1> DEFINE m == rd.max
           k == IF Len(line) < m THEN Len(line) ELSE m
           q == SubSeq(line, m + 1, Len(line))
<1>1. m \in Nat /\ delivered \in Seq(Byte) /\ Len(line) \in Nat
  BY ReadFields
<1>2. rd' = Idle /\ delivered' = delivered \o SubSeq(line, 1, k) /\ con_line' = q
  BY DEF LineRead, ReadReturns
<1> HIDE DEF m
<1>3. k \in 0 .. Len(line)
  BY <1>1
<1>4. q = SubSeq(line, k + 1, Len(line))
  <2>1. CASE Len(line) < m
    <3>1. m + 1 \in Int /\ k + 1 \in Int /\ Len(line) \in Int /\ Len(line) < m + 1 /\ Len(line) < k + 1
      BY <1>1, <2>1
    <3>2. q = << >> /\ SubSeq(line, k + 1, Len(line)) = << >>
      BY <3>1, SubSeqEmpty
    <3> QED
      BY <3>2
  <2>2. CASE ~(Len(line) < m)
    BY <2>2
  <2> QED
    BY <2>1, <2>2
<1> HIDE DEF k, q
<1>5. (delivered \o SubSeq(line, 1, k)) \o SubSeq(line, k + 1, Len(line)) = delivered \o line
  BY <1>1, <1>3, Ends
<1> QED
  BY <1>2, <1>4, <1>5

LEMMA NextKeyIs ==
  ASSUME TypeInv, NEW got \in Seq(Byte), NEW pb, NextKey(got, pb)
  PROVE  /\ rd'.at \in {"idle", "key"} /\ rd'.iac = "data"
         /\ rd'.at = "idle" => rd' = Idle
         /\ delivered' \o rd'.got = delivered \o got
         /\ rd'.at = "key" => Available(pb, sockAfter, eofAfter) # 0
         /\ rd'.at = "idle" => promised' = FALSE
<1>1. rd \in Reading /\ delivered \in Seq(Byte)
  BY ReadFields
<1>2. CASE Len(got) < rd.max /\ Available(pb, sockAfter, eofAfter) # 0
  <2>1. rd' = [rd EXCEPT !.at = "key", !.iac = "data", !.got = got]
        /\ delivered' = delivered
    BY <1>2 DEF NextKey
  <2>2. rd'.at = "key" /\ rd'.iac = "data" /\ rd'.got = got
    BY <1>1, <2>1 DEF Reading
  <2> QED
    BY <1>2, <2>1, <2>2
<1>3. CASE ~(Len(got) < rd.max /\ Available(pb, sockAfter, eofAfter) # 0)
  <2>1. rd' = Idle /\ delivered' = delivered \o got /\ promised' = FALSE
    BY <1>3 DEF NextKey, ReadReturns
  <2>2. rd'.at = "idle" /\ rd'.iac = "data" /\ rd'.got = << >>
    BY <2>1 DEF Idle
  <2>3. delivered' \o rd'.got = delivered \o got
    BY <1>1, <2>1, <2>2, Joined, Nothing
  <2> QED
    BY <2>1, <2>2, <2>3
<1> QED
  BY <1>2, <1>3

(* A read between two keys.                                                *)
LEMMA Between ==
  ASSUME NEW cs, NEW i, NEW j, i \in 0 .. j, tty' = tty,
         Ahead' = << >> \o Bytes(cs, i, j), rd'.iac = "data",
         rd'.at \in Paired => "CR" \in Keys[tty]
  PROVE  Place(cs, i, j, << >>, << >>)'
<1>1. Fits(rd'.iac, << >>, << >>, Keys[tty']) /\ << >> \in Seq(Byte)
  BY DEF Fits
<1>2. rd'.at \in Paired /\ << >> \notin Pairs => "CR" \in Keys[tty']
  OBVIOUS
<1> QED
  BY <1>1, <1>2 DEF Place

(* The byte paired with a CR is its own LF or NUL, or goes back.           *)
LEMMA PairTaken ==
  ASSUME TypeInv, Over, Steady, NEW at \in Paired, NEW b \in Byte \cup {EOF}, InByte(at, b),
         con_pushback' = Pushed(b), rd'.iac = "data", rd'.at \notin Paired,
         NEW cs, NEW i, NEW j, NEW part, NEW owed, Accounted(cs, i, j, part, owed)
  PROVE  /\ Over' /\ rd.at = at /\ tty' = tty /\ typed' = typed
         /\ Sent(cs, j)' /\ Place(cs, i, j, << >>, << >>)'
         /\ owed = << >> /\ (con_eof' => b = EOF /\ i = Len(typed)) /\ con_eof' \in BOOLEAN
<1>1. /\ rd.at = at /\ Sent(cs, j)' /\ tty' = tty /\ typed' = typed
      /\ con_eof' /\ con_pushback' = None => Over'
      /\ ~con_eof' => Over'
      /\ Takes(b, cs, i, j, part, owed)
  BY Receives
<1>2. /\ i \in 0 .. j /\ Encodes(cs, typed, Keys[tty])
      /\ Ahead = part \o Bytes(cs, i, j)
  BY Ranges DEF Accounted, Place
<1>3. CASE /\ b = EOF /\ con_eof' /\ i = Len(typed) /\ owed = << >>
           /\ con_pushback' = None => Ahead' = << >> \o Bytes(cs, i, j)
  <2>1. con_pushback' = None
    BY <1>3 DEF Pushed
  <2>2. Ahead' = << >> \o Bytes(cs, i, j) /\ Over'
    BY <1>1, <1>3, <2>1
  <2>3. Place(cs, i, j, << >>, << >>)'
    BY <1>1, <1>2, <2>2, Between
  <2>4. con_eof' \in BOOLEAN
    BY InByteTyped
  <2> QED
    BY <1>1, <1>3, <2>2, <2>3, <2>4
<1>4. CASE /\ b # EOF /\ con_eof' = FALSE
           /\ \E i2, part2, owed2 :
                /\ i2 \in i .. j /\ part2 \in Seq(Byte)
                /\ con_pushback' = None => Ahead' = part2 \o Bytes(cs, i2, j)
                /\ Yields(b, Decode(rd.iac, Received)[2], i, i2, part, part2, owed, owed2)
           /\ rd.iac = "data" /\ b # None /\ con_pushback' = b => Ahead' = Ahead
  <2>1. PICK i2, part2, owed2 :
          /\ con_pushback' = None => Ahead' = part2 \o Bytes(cs, i2, j)
          /\ Yields(b, Decode(rd.iac, Received)[2], i, i2, part, part2, owed, owed2)
    BY <1>4
  <2>2. b # None
    BY <1>4, BytesAre
  <2>3. CASE part \in Pairs
    <3>1. b \in {"LF", "NUL"} /\ i2 = i /\ part2 = << >> /\ owed = << >>
      BY <2>1, <2>2, <2>3, YieldsIs
    <3>2. con_pushback' = None
      BY <3>1 DEF Pushed
    <3>3. Ahead' = << >> \o Bytes(cs, i, j)
      BY <2>1, <3>1, <3>2
    <3>4. Place(cs, i, j, << >>, << >>)'
      BY <1>1, <1>2, <3>3, Between
    <3> QED
      BY <1>1, <1>4, <3>1, <3>4
  <2>4. CASE part \notin Pairs
    <3>1. "CR" \in Keys[tty] /\ Fits(rd.iac, part, owed, Keys[tty])
      BY <1>1, <2>4 DEF Accounted, Place
    <3>2. "FF" \notin Keys[tty]
      BY <3>1, ReadFields DEF Steady, Readable
    <3>3. /\ rd.iac = "data" /\ owed = << >>
          /\ \/ typed[i2] \in Single /\ b = typed[i2]
             \/ b = "CR"
      BY <2>1, <2>2, <2>4, <3>2, YieldsIs
    <3>4. b \notin {EOF, "LF", "NUL"}
      <4>1. Single \cap {"LF", "NUL"} = {}
        BY DEF Single
      <4> QED
        BY <1>4, <3>3, <4>1
    <3>5. con_pushback' = b
      BY <3>4 DEF Pushed
    <3>6. Ahead' = part \o Bytes(cs, i, j)
      BY <1>2, <1>4, <2>2, <3>3, <3>5
    <3>7. part = << >>
      BY <3>1, <3>3, FitsIs
    <3>8. Place(cs, i, j, << >>, << >>)'
      BY <1>1, <1>2, <3>6, <3>7, Between
    <3> QED
      BY <1>1, <1>4, <3>3, <3>8
  <2> QED
    BY <2>3, <2>4
<1> QED
  BY <1>1, <1>3, <1>4 DEF Takes

(* ... the byte after a CR, in raw and in cooked mode ...                  *)
LEMMA ReadPairAccounts ==
  ASSUME TypeInv, Over, Steady, ReadPair,
         NEW cs, NEW i, NEW j, NEW part, NEW owed, Accounted(cs, i, j, part, owed)
  PROVE  Over' /\ Accounted(cs, i, j, << >>, << >>)'
<1>1. PICK b \in Byte \cup {EOF} :
        InByte("pair", b) /\ con_pushback' = Pushed(b) /\ NextKey(rd.got, Pushed(b))
  BY DEF ReadPair
<1>2. con_line' = con_line /\ rd.got \in Seq(Byte) /\ delivered \in Seq(Byte)
  BY ReadFields DEF ReadPair
<1>3. /\ rd'.at \in {"idle", "key"} /\ rd'.iac = "data"
      /\ rd'.at = "idle" => rd' = Idle
      /\ delivered' \o rd'.got = delivered \o rd.got
  BY <1>1, <1>2, NextKeyIs
<1>4. "pair" \in Paired /\ rd'.at \notin Paired
  BY <1>3 DEF Paired
<1>5. /\ Over' /\ rd.at = "pair" /\ tty' = tty /\ typed' = typed
      /\ Sent(cs, j)' /\ Place(cs, i, j, << >>, << >>)' /\ owed = << >>
  BY <1>1, <1>3, <1>4, PairTaken
<1>6. tty = "raw" /\ con_line = << >> /\ (delivered \o rd.got) \o << >> = Keystrokes(SubSeq(typed, 1, i))
  <2>1. tty # "cooked"
    BY <1>5, TextIs DEF CookedText
  <2> QED
    BY <1>5, <2>1, TextIs DEF RawText
<1>7. Text(i, << >>)'
  BY <1>2, <1>3, <1>5, <1>6, TextStays
<1> QED
  BY <1>5, <1>7 DEF Accounted

LEMMA CookPairAccounts ==
  ASSUME TypeInv, Over, Steady, CookPair,
         NEW cs, NEW i, NEW j, NEW part, NEW owed, Accounted(cs, i, j, part, owed)
  PROVE  Over' /\ Accounted(cs, i, j, << >>, << >>)'
<1>1. PICK b \in Byte \cup {EOF} :
        InByte("cookpair", b) /\ con_pushback' = Pushed(b) /\ LineRead(Append(rd.got, "LF"))
  BY DEF CookPair
<1>2. rd.got \in Seq(Byte) /\ delivered \in Seq(Byte) /\ Append(rd.got, "LF") \in Seq(Byte)
  BY ReadFields, OneMore, BytesAre
<1>3. rd' = Idle /\ delivered' \o con_line' = delivered \o Append(rd.got, "LF")
  BY <1>1, <1>2, LineReadIs
<1>4. "cookpair" \in Paired /\ rd'.at \notin Paired /\ rd'.iac = "data" /\ rd'.at = "idle"
      /\ rd'.got = << >>
  BY <1>3 DEF Paired, Idle
<1>5. /\ Over' /\ rd.at = "cookpair" /\ tty' = tty /\ typed' = typed
      /\ Sent(cs, j)' /\ Place(cs, i, j, << >>, << >>)'
      /\ con_eof' => i = Len(typed)
  BY <1>1, <1>4, PairTaken
<1> DEFINE c == Cook(SubSeq(typed, 1, i))
<1>6. tty = "cooked" /\ CookedText("cookpair", rd.got, con_line, con_eof, delivered, owed, c, i = Len(typed))
  <2>1. tty # "raw"
    BY <1>5, TextIs DEF RawText
  <2> QED
    BY <1>5, <2>1, TextIs
<1>7. c \in Cooking
  BY Ranges, OneKey
<1> HIDE DEF c
<1>8. (delivered \o rd.got) \o <<"LF">> = c.out /\ c.line = << >>
  BY <1>6 DEF CookedText
<1>9. delivered' \o con_line' = c.out
  <2>1. \A S : \A d, g \in Seq(S), e \in S : d \o Append(g, e) = (d \o g) \o <<e>>
    OBVIOUS
  <2>2. delivered \o Append(rd.got, "LF") = (delivered \o rd.got) \o <<"LF">>
    BY <1>2, <2>1, BytesAre
  <2> QED
    BY <1>3, <1>8, <2>2
<1>10. CookedText(rd'.at, rd'.got, con_line', con_eof', delivered', << >>, c, i = Len(typed))
  <2>1. c.out \o c.line = c.out /\ << >> \o << >> = << >>
    BY <1>7, <1>8, Nothing DEF Cooking
  <2> QED
    BY <1>4, <1>5, <1>8, <1>9, <2>1 DEF CookedText
<1>11. Text(i, << >>)'
  BY <1>3, <1>5, <1>6, <1>10, TextStays DEF c
<1> QED
  BY <1>5, <1>11 DEF Accounted

LEMMA Appends == \A x \in Seq(Byte), d \in Byte : Append(x, d) = x \o <<d>> /\ <<d>> \in Seq(Byte)
<1> TAKE x \in Seq(Byte), d \in Byte
<1> SUFFICES ASSUME NEW S, x \in Seq(S), d \in S PROVE Append(x, d) = x \o <<d>> /\ <<d>> \in Seq(S)
  OBVIOUS
<1> QED
  OBVIOUS

LEMMA Joins == \A a, g \in Seq(Byte), b \in Byte : Append(a \o g, b) = a \o Append(g, b)
<1> TAKE a, g \in Seq(Byte), b \in Byte
<1>1. /\ a \o g \in Seq(Byte) /\ <<b>> \in Seq(Byte)
      /\ Append(a \o g, b) = (a \o g) \o <<b>> /\ Append(g, b) = g \o <<b>>
  BY Joined, Appends
<1>2. (a \o g) \o <<b>> = a \o (g \o <<b>>)
  BY <1>1, EndToEnd
<1> QED
  BY <1>1, <1>2

(* A key that yields its byte, or a RETURN's CR: what is then left of it,  *)
(* and how many keys the guest has.                                        *)
Left(b, cs, i, j, part, owed, i2, part2) ==
  /\ i2 \in i .. j /\ part2 \in Seq(Byte)
  /\ Ahead' = part2 \o Bytes(cs, i2, j)
  /\ Yields(b, Decode(rd.iac, Received)[2], i, i2, part, part2, owed, << >>)
  /\ part2 = << >> \/ part2 \in Pairs
  /\ part2 = << >> /\ b = "CR" => "CR" \in Keys[tty]
  /\ part2 \in Pairs => b = "CR" /\ "RETURN" \in Keys[tty]

LEMMA KeyTaken ==
  ASSUME TypeInv, Over, NEW at, at \notin Paired, NEW b \in Byte, InByte(at, b),
         con_pushback' = None,
         NEW cs, NEW i, NEW j, NEW part, NEW owed, Accounted(cs, i, j, part, owed)
  PROVE  /\ Over' /\ rd.at = at /\ tty' = tty /\ typed' = typed /\ Sent(cs, j)'
         /\ ~con_eof /\ con_eof' = FALSE /\ part \notin Pairs
         /\ \E i2, part2 : Left(b, cs, i, j, part, owed, i2, part2)
<1>1. /\ rd.at = at /\ Sent(cs, j)' /\ tty' = tty /\ typed' = typed
      /\ ~con_eof' => Over'
      /\ Takes(b, cs, i, j, part, owed)
  BY Receives
<1>2. b # EOF /\ b # None
  BY BytesAre
<1>3. ~con_eof /\ con_eof' = FALSE
  BY <1>1, <1>2 DEF Takes
<1>4. PICK i2, part2, owed2 :
         /\ i2 \in i .. j /\ part2 \in Seq(Byte)
         /\ Ahead' = part2 \o Bytes(cs, i2, j)
         /\ Yields(b, Decode(rd.iac, Received)[2], i, i2, part, part2, owed, owed2)
  BY <1>1, <1>2 DEF Takes
<1>5. part \notin Pairs
  BY <1>1, Ranges
<1>6. /\ owed2 = << >>
      /\ \/ b = "IAC" /\ part2 = << >>
         \/ i2 = i + 1 /\ typed[i2] \in Single /\ b = typed[i2] /\ part2 = << >>
         \/ i2 = i + 1 /\ typed[i2] = "RETURN" /\ b = "CR" /\ part2 \in Pairs
  BY <1>2, <1>4, <1>5, YieldsIs
<1>7. i2 = i + 1 => typed[i2] \in Keys[tty]
  <2>1. /\ i \in 0 .. j /\ j \in 0 .. Len(typed) /\ Len(typed) \in Nat
        /\ Encodes(cs, typed, Keys[tty])
    BY Ranges
  <2>2. i2 = i + 1 => i2 \in 1 .. Len(typed)
    BY <1>4, <2>1
  <2> QED
    BY <2>1, <2>2 DEF Encodes
<1>8. << >> \notin Pairs
  BY DEF Pairs
<1>9. /\ part2 = << >> \/ part2 \in Pairs
      /\ part2 = << >> /\ b = "CR" => "CR" \in Keys[tty]
      /\ part2 \in Pairs => b = "CR" /\ "RETURN" \in Keys[tty]
  BY <1>6, <1>7, <1>8
<1> QED
  BY <1>1, <1>3, <1>4, <1>5, <1>6, <1>9 DEF Left

(* ... a key, in raw and in cooked mode ...                                *)
LEMMA ReadKeyAccounts ==
  ASSUME TypeInv, Over, Steady, ReadKey,
         NEW cs, NEW i, NEW j, NEW part, NEW owed, Accounted(cs, i, j, part, owed)
  PROVE  Over' /\ \E i2, part2 : Accounted(cs, i2, j, part2, << >>)'
<1>1. PICK b \in Byte \cup {EOF} :
       /\ InByte("key", b)
       /\ IF b = EOF THEN ReadReturns(rd.got)
          ELSE IF b = "CR" /\ PairFollows
            THEN /\ rd' = [rd EXCEPT !.at = "pair", !.iac = "data", !.got = Append(rd.got, b)]
                 /\ UNCHANGED <<delivered, promised>>
            ELSE NextKey(Append(rd.got, b), None)
  BY DEF ReadKey
<1>2. /\ con_line' = con_line /\ con_pushback' = None
      /\ rd \in Reading /\ rd.got \in Seq(Byte) /\ delivered \in Seq(Byte)
  BY ReadFields DEF ReadKey
<1>3. rd.at = "key" /\ "key" \notin Paired
  BY <1>1 DEF InByte, Paired
<1> DEFINE s == Keystrokes(SubSeq(typed, 1, i))
<1>4. tty = "raw" /\ con_line = << >> /\ (delivered \o rd.got) \o owed = s
  <2>1. tty # "cooked"
    BY <1>3, TextIs DEF CookedText
  <2> QED
    BY <2>1, TextIs DEF RawText
<1>5. /\ i \in 0 .. j /\ j \in 0 .. Len(cs) /\ i \in 0 .. Len(typed) /\ Len(cs) = Len(typed)
      /\ typed \in Seq(AllKeys) /\ Len(cs) \in Nat /\ s \in Seq(Byte)
  BY Ranges, OneKey
<1> HIDE DEF s
<1>6. CASE b = EOF
  <2>1. rd' = Idle /\ delivered' = delivered \o rd.got
    BY <1>1, <1>6 DEF ReadReturns
  <2>2. /\ Sent(cs, j)' /\ tty' = tty /\ typed' = typed
        /\ con_eof' /\ con_pushback' = None => Over'
        /\ Takes(b, cs, i, j, part, owed)
    BY <1>1, Receives
  <2>3. /\ Over' /\ owed = << >> /\ Ahead' = << >> \o Bytes(cs, i, j)
    BY <1>2, <1>6, <2>2 DEF Takes
  <2>4. rd'.at = "idle" /\ rd'.at \notin Paired /\ rd'.iac = "data" /\ rd'.got = << >>
    BY <2>1 DEF Idle, Paired
  <2>5. Place(cs, i, j, << >>, << >>)'
    BY <1>5, <2>2, <2>3, <2>4, Between
  <2>6. (delivered' \o rd'.got) \o << >> = s
    <3>1. delivered \o rd.got \in Seq(Byte)
      BY <1>2, Joined
    <3> QED
      BY <1>4, <2>1, <2>3, <2>4, <3>1, Nothing
  <2>7. Text(i, << >>)'
    BY <1>2, <1>4, <2>1, <2>2, <2>4, <2>6, TextStays DEF s
  <2> QED
    BY <2>2, <2>3, <2>5, <2>7 DEF Accounted
<1>7. CASE b # EOF
  <2>1. b \in Byte
    BY <1>7
  <2>2. /\ Over' /\ tty' = tty /\ typed' = typed /\ Sent(cs, j)'
        /\ con_eof' = FALSE /\ part \notin Pairs
        /\ \E i2, part2 : Left(b, cs, i, j, part, owed, i2, part2)
    BY <1>1, <1>2, <1>3, <2>1, KeyTaken
  <2>i. PICK i2, part2 : Left(b, cs, i, j, part, owed, i2, part2)
    BY <2>2
  <2>3. /\ i2 \in i .. j /\ part2 \in Seq(Byte)
        /\ Ahead' = part2 \o Bytes(cs, i2, j)
        /\ Yields(b, Decode(rd.iac, Received)[2], i, i2, part, part2, owed, << >>)
        /\ part2 = << >> \/ part2 \in Pairs
        /\ part2 = << >> /\ b = "CR" => "CR" \in Keys[tty]
        /\ part2 \in Pairs => b = "CR" /\ "RETURN" \in Keys[tty]
    BY <2>i DEF Left
  <2>4. i2 \in 0 .. j /\ i2 \in 0 .. Len(typed)
    BY <1>5, <2>3
  <2> DEFINE s2 == Keystrokes(SubSeq(typed, 1, i2))
             g == Append(rd.got, b)
  <2>5. RawStep(i, i2, s, s2)
    BY <1>5, <2>4, NextText DEF s
  <2> HIDE DEF s2
  <2>6. Has(delivered \o rd.got, owed, s)
    BY <1>2, <1>4, <1>5, Joined DEF Has
  <2>7. Has(Append(delivered \o rd.got, b), << >>, s2)
    <3>1. b # None
      BY <2>1, BytesAre
    <3> QED
      BY <2>2, <2>3, <2>5, <2>6, <3>1, RawAfter
  <2>8. g \in Seq(Byte) /\ delivered \o g = s2
    <3>a. Append(delivered \o rd.got, b) = delivered \o g
      BY <1>2, <2>1, Joins
    <3>b. g \in Seq(Byte)
      BY <1>2, <2>1, OneMore
    <3>0. g \in Seq(Byte) /\ Append(delivered \o rd.got, b) = delivered \o g
      BY <3>a, <3>b
    <3>1. g \in Seq(Byte) /\ delivered \o g \in Seq(Byte) /\ Append(delivered \o rd.got, b) = delivered \o g
      BY <1>2, <3>0, Joined
    <3> HIDE DEF g
    <3>2. (delivered \o g) \o << >> = s2
      BY <2>7, <3>1 DEF Has
    <3> QED
      BY <3>1, <3>2, Nothing
  <2> HIDE DEF g
  <2>9. CASE b = "CR" /\ PairFollows
    <3>1. rd' = [rd EXCEPT !.at = "pair", !.iac = "data", !.got = g] /\ delivered' = delivered
      BY <1>1, <1>7, <2>9 DEF g
    <3>2. rd'.at = "pair" /\ rd'.iac = "data" /\ rd'.got = g /\ "pair" \in Paired
      BY <1>2, <3>1 DEF Reading, Paired
    <3>3. Place(cs, i2, j, part2, << >>)'
      <4>1. CASE part2 = << >>
        BY <2>2, <2>3, <2>4, <2>9, <3>2, <4>1, Between
      <4>2. CASE part2 \in Pairs
        BY <2>2, <2>3, <2>4, <3>2, <4>2 DEF Place
      <4> QED
        BY <2>3, <4>1, <4>2
    <3>4. (delivered' \o rd'.got) \o << >> = s2
      <4>1. delivered \o g \in Seq(Byte)
        BY <1>2, <2>8, Joined
      <4> QED
        BY <2>8, <3>1, <3>2, <4>1, Nothing
    <3>5. Text(i2, << >>)'
      BY <1>2, <1>4, <2>2, <3>2, <3>4, TextStays DEF s2
    <3> QED
      BY <2>2, <3>3, <3>5 DEF Accounted
  <2>10. CASE ~(b = "CR" /\ PairFollows)
    <3>1. NextKey(g, None)
      BY <1>1, <1>7, <2>10 DEF g
    <3>2. /\ rd'.at \in {"idle", "key"} /\ rd'.iac = "data"
          /\ rd'.at = "idle" => rd' = Idle
          /\ delivered' \o rd'.got = s2
      BY <2>8, <3>1, NextKeyIs
    <3>3. rd'.at \notin Paired
      BY <3>2 DEF Paired
    <3>4. part2 = << >>
      <4> SUFFICES ASSUME part2 \in Pairs PROVE FALSE
        BY <2>3
      <4>1. b = "CR" /\ tty \notin Split
        BY <1>4, <2>3 DEF Steady, Readable
      <4>2. sock' = sockAfter /\ sockAfter \in Seq(Byte) /\ eofAfter \in BOOLEAN
        BY <1>1, ReceivedType DEF InByte
      <4>3. Ahead' = sock'
        <5>1. Behind' = << >> /\ Waiting' = << >>
          BY <1>2, <2>2, <4>1 DEF Behind, Waiting
        <5>2. sockAfter \o << >> = sockAfter /\ << >> \o sockAfter = sockAfter
          BY <4>2, Nothing
        <5> QED
          BY <4>2, <5>1, <5>2 DEF Ahead
      <4>4. sock' # << >>
        <5>1. part2 # << >>
          BY DEF Pairs
        <5>2. i2 \in 0 .. Len(cs) /\ cs \in Codings
          BY <1>5, <2>4, Ranges
        <5>3. Bytes(cs, i2, j) \in Seq(Byte)
          BY <1>5, <5>2, BytesType
        <5>4. part2 \o Bytes(cs, i2, j) # << >>
          BY <2>3, <5>1, <5>3, HeadTail
        <5> QED
          BY <2>3, <4>3, <5>4
      <4>5. PairFollows
        BY <4>2, <4>4, AvailableIs DEF PairFollows
      <4> QED
        BY <2>10, <4>1, <4>5
    <3>5. Place(cs, i2, j, << >>, << >>)'
      BY <2>2, <2>3, <2>4, <3>2, <3>3, <3>4, Between
    <3>6. (delivered' \o rd'.got) \o << >> = s2
      <4>1. s2 \in Seq(Byte)
        BY <2>7 DEF Has
      <4> QED
        BY <3>2, <4>1, Nothing
    <3>7. Text(i2, << >>)'
      BY <1>2, <1>4, <2>2, <3>2, <3>6, TextStays DEF s2
    <3> QED
      BY <2>2, <3>5, <3>7 DEF Accounted
  <2> QED
    BY <2>9, <2>10
<1> QED
  BY <1>6, <1>7

LEMMA CookByteAccounts ==
  ASSUME TypeInv, Over, Steady, CookByte,
         NEW cs, NEW i, NEW j, NEW part, NEW owed, Accounted(cs, i, j, part, owed)
  PROVE  Over' /\ \E i2, part2 : Accounted(cs, i2, j, part2, << >>)'
<1>1. PICK b \in Byte \cup {EOF} :
       /\ InByte("cook", b)
       /\ CASE b \in {EOF, "EOT"} -> LineRead(rd.got)
            [] b = "LF" -> LineRead(Append(rd.got, "LF"))
            [] OTHER ->
                 /\ rd' = [rd EXCEPT !.at = IF b = "CR" THEN "cookpair" ELSE rd.at,
                                     !.iac = "data",
                                     !.got = CASE b \in {"NUL", "CR"} -> rd.got
                                               [] b = "BS" -> Erase(rd.got)
                                               [] OTHER -> Append(rd.got, b)]
                 /\ UNCHANGED <<con_line, delivered, promised>>
  BY DEF CookByte
<1>2. /\ con_pushback' = None
      /\ rd \in Reading /\ rd.got \in Seq(Byte) /\ delivered \in Seq(Byte)
  BY ReadFields DEF CookByte
<1>3. rd.at = "cook" /\ "cook" \notin Paired
  BY <1>1 DEF InByte, Paired
<1> DEFINE c == Cook(SubSeq(typed, 1, i))
<1>4. /\ tty = "cooked"
      /\ CookedText("cook", rd.got, con_line, con_eof, delivered, owed, c, i = Len(typed))
  <2>1. tty # "raw"
    BY <1>3, TextIs DEF RawText
  <2> QED
    BY <1>3, <2>1, TextIs
<1>5. /\ i \in 0 .. j /\ j \in 0 .. Len(cs) /\ i \in 0 .. Len(typed) /\ Len(cs) = Len(typed)
      /\ typed \in Seq(AllKeys) /\ Len(cs) \in Nat /\ c \in Cooking
  BY Ranges, OneKey
<1> HIDE DEF c
<1>6. con_line = << >> /\ delivered \o con_line = delivered
      /\ c.out \in Seq(Byte) /\ c.line \in Seq(Byte) /\ << >> \o << >> = << >>
  BY <1>2, <1>4, <1>5, Nothing DEF CookedText, Cooking
<1>7. CASE b = EOF
  <2>1. LineRead(rd.got)
    BY <1>1, <1>7 DEF EOF
  <2>2. rd' = Idle /\ delivered' \o con_line' = delivered \o rd.got
    BY <1>2, <2>1, LineReadIs
  <2>3. /\ Sent(cs, j)' /\ tty' = tty /\ typed' = typed
        /\ con_eof' /\ con_pushback' = None => Over'
        /\ Takes(b, cs, i, j, part, owed)
    BY <1>1, Receives
  <2>4. /\ Over' /\ owed = << >> /\ Ahead' = << >> \o Bytes(cs, i, j) /\ con_eof' /\ i = Len(typed)
    BY <1>2, <1>7, <2>3 DEF Takes
  <2>5. rd'.at = "idle" /\ rd'.at \notin Paired /\ rd'.iac = "data" /\ rd'.got = << >>
    BY <2>2 DEF Idle, Paired
  <2>6. Place(cs, i, j, << >>, << >>)'
    BY <1>5, <2>3, <2>4, <2>5, Between
  <2>7. delivered \o rd.got = c.out \o c.line
    <3>1. CASE con_eof
      BY <1>4, <1>6, <3>1 DEF CookedText
    <3>2. CASE ~con_eof
      <4>1. delivered = c.out /\ rd.got \o << >> = c.line
        BY <1>4, <1>6, <2>4, <3>2 DEF CookedText
      <4>2. rd.got = c.line
        BY <1>2, <4>1, Nothing
      <4> QED
        BY <4>1, <4>2
    <3> QED
      BY <3>1, <3>2
  <2>8. CookedText(rd'.at, rd'.got, con_line', con_eof', delivered', << >>, c, i = Len(typed))
    BY <2>2, <2>4, <2>5, <2>7 DEF CookedText
  <2>9. Text(i, << >>)'
    BY <1>4, <2>2, <2>3, <2>8, TextStays DEF c
  <2> QED
    BY <2>3, <2>4, <2>6, <2>9 DEF Accounted
<1>8. CASE b # EOF
  <2>1. b \in Byte /\ b # None
    BY <1>8, BytesAre
  <2>2. /\ Over' /\ tty' = tty /\ typed' = typed /\ Sent(cs, j)' /\ ~con_eof
        /\ con_eof' = FALSE /\ part \notin Pairs
        /\ \E i2, part2 : Left(b, cs, i, j, part, owed, i2, part2)
    BY <1>1, <1>2, <1>3, <2>1, KeyTaken
  <2>i. PICK i2, part2 : Left(b, cs, i, j, part, owed, i2, part2)
    BY <2>2
  <2>3. /\ i2 \in i .. j /\ part2 \in Seq(Byte)
        /\ Ahead' = part2 \o Bytes(cs, i2, j)
        /\ Yields(b, Decode(rd.iac, Received)[2], i, i2, part, part2, owed, << >>)
        /\ part2 = << >> \/ part2 \in Pairs
        /\ part2 = << >> /\ b = "CR" => "CR" \in Keys[tty]
        /\ part2 \in Pairs => b = "CR" /\ "RETURN" \in Keys[tty]
    BY <2>i DEF Left
  <2>4. i2 \in 0 .. j /\ i2 \in 0 .. Len(typed)
    BY <1>5, <2>3
  <2> DEFINE c2 == Cook(SubSeq(typed, 1, i2))
             g == rd.got
  <2>5. CookStep(i, i2, c, c2)
    BY <1>5, <2>4, NextText DEF c
  <2> HIDE DEF c2
  <2>6. delivered = c.out /\ HasLine(g, owed, c)
    BY <1>2, <1>4, <1>6, <2>2 DEF CookedText, Has, HasLine
  <2>e. EditedBy(b, g, c, c2) /\ (b # "CR" => part2 = << >>)
    <3> HIDE DEF g
    <3> QED
      BY <2>1, <2>2, <2>3, <2>5, <2>6, CookedAfter
  <2>7. /\ b \in {"IAC", "a", "CR", "BS", "EOT"}
        /\ b \in {"IAC", "a"} => c2.out = c.out /\ c2.line = Append(g, b)
        /\ b = "BS" => c2.out = c.out /\ c2.line = Erase(g)
        /\ b = "EOT" => c2.out = c.out \o g /\ c2.line = << >>
        /\ b = "CR" => c2.out = c.out \o g \o <<"LF">> /\ c2.line = << >>
        /\ b # "CR" => part2 = << >>
    BY <2>e DEF EditedBy
  <2>8. c2.line \in Seq(Byte) /\ c2.line \o << >> = c2.line
    BY <2>5, Nothing DEF CookStep, Cooking
  <2>9. CASE b = "EOT"
    <3>1. LineRead(rd.got)
      BY <1>1, <2>9
    <3>2. rd' = Idle /\ delivered' \o con_line' = delivered \o rd.got
      BY <1>2, <3>1, LineReadIs
    <3>3. rd'.at = "idle" /\ rd'.at \notin Paired /\ rd'.iac = "data" /\ rd'.got = << >>
      BY <3>2 DEF Idle, Paired
    <3>4. Place(cs, i2, j, << >>, << >>)'
      BY <2>2, <2>3, <2>4, <2>7, <2>9, <3>3, Between
    <3>5. CookedText(rd'.at, rd'.got, con_line', con_eof', delivered', << >>, c2, i2 = Len(typed))
      BY <1>6, <2>2, <2>6, <2>7, <2>9, <3>2, <3>3 DEF CookedText
    <3>6. Text(i2, << >>)'
      BY <1>4, <2>2, <3>2, <3>5, TextStays DEF c2
    <3> QED
      BY <2>2, <3>4, <3>6 DEF Accounted
  <2>10. CASE b # "EOT"
    <3> DEFINE at == IF b = "CR" THEN "cookpair" ELSE rd.at
               got == CASE b \in {"NUL", "CR"} -> rd.got [] b = "BS" -> Erase(rd.got)
                        [] OTHER -> Append(rd.got, b)
    <3>1. /\ rd' = [rd EXCEPT !.at = at, !.iac = "data", !.got = got]
          /\ con_line' = con_line /\ delivered' = delivered
      BY <1>1, <1>8, <2>7, <2>10
    <3>2. /\ b = "CR" => at = "cookpair" /\ got = g
          /\ b # "CR" => at = "cook" /\ c2.out = c.out /\ c2.line = got
      BY <1>3, <2>7, <2>10
    <3> HIDE DEF at, got
    <3>3. rd'.at = at /\ rd'.iac = "data" /\ rd'.got = got
      BY <1>2, <3>1 DEF Reading
    <3>4. Place(cs, i2, j, part2, << >>)'
      <4>1. CASE part2 = << >>
        <5>1. rd'.at \in Paired => "CR" \in Keys[tty]
          BY <1>3, <2>3, <3>2, <3>3, <4>1
        <5> QED
          BY <2>2, <2>3, <2>4, <3>3, <4>1, <5>1, Between
      <4>2. CASE part2 \in Pairs
        <5>1. rd'.at \in Paired
          BY <2>3, <3>2, <3>3, <4>2 DEF Paired
        <5> QED
          BY <2>2, <2>3, <2>4, <3>3, <4>2, <5>1 DEF Place
      <4> QED
        BY <2>3, <4>1, <4>2
    <3>5. CookedText(rd'.at, rd'.got, con_line', con_eof', delivered', << >>, c2, i2 = Len(typed))
      <4>1. CASE b = "CR"
        <5>1. (delivered \o got) \o <<"LF">> = c2.out /\ c2.line = << >>
          BY <2>6, <2>7, <3>2, <4>1
        <5> QED
          BY <1>6, <3>1, <3>2, <3>3, <4>1, <5>1 DEF CookedText
      <4>2. CASE b # "CR"
        <5>1. delivered \o con_line = c2.out /\ got \o << >> = c2.line
          BY <1>6, <2>6, <2>8, <3>2, <4>2
        <5> QED
          BY <1>6, <2>2, <3>1, <3>2, <3>3, <4>2, <5>1 DEF CookedText
      <4> QED
        BY <4>1, <4>2
    <3>6. rd'.at # "idle"
      BY <3>2, <3>3
    <3>7. Text(i2, << >>)'
      BY <1>4, <2>2, <3>5, <3>6, TextStays DEF c2
    <3> QED
      BY <2>2, <3>4, <3>7 DEF Accounted
  <2> QED
    BY <2>9, <2>10
<1> QED
  BY <1>7, <1>8

(* Nothing that is accounted for changes.                                  *)
LEMMA SameAccounts ==
  ASSUME NEW cs, NEW i, NEW j, NEW part, NEW owed, Accounted(cs, i, j, part, owed),
         typed' = typed, wire' = wire, sock' = sock, con_pushback' = con_pushback,
         con_eof' = con_eof, con_line' = con_line, tty' = tty, rd' = rd, delivered' = delivered
  PROVE  Accounted(cs, i, j, part, owed)'
<1>1. Sent(cs, j)'
  BY SentStays DEF Accounted
<1>2. Ahead' = Ahead
  BY DEF Ahead, Waiting, Behind
<1>3. Place(cs, i, j, part, owed)'
  BY <1>2 DEF Accounted, Place
<1>4. Text(i, owed)'
  BY DEF Accounted, Text, RawText
<1> QED
  BY <1>1, <1>3, <1>4 DEF Accounted

(* What is ahead grows by what is sent or arrives.                         *)
LEMMA AheadType == TypeInv => Waiting \in Seq(Byte) /\ Behind \in Seq(Byte) /\ Ahead \in Seq(Byte)
<1> SUFFICES ASSUME TypeInv PROVE Waiting \in Seq(Byte) /\ Behind \in Seq(Byte) /\ Ahead \in Seq(Byte)
  OBVIOUS
<1>1. /\ sock \in Seq(Byte) /\ con_pushback \in (Byte \ {"LF", "NUL"}) \cup {None}
      /\ wire \in Seq(Seq(Byte))
  BY ReadFields
<1>2. Behind \in Seq(Byte)
  BY <1>1, FlattenType DEF Behind
<1>3. Waiting \in Seq(Byte)
  BY <1>1, Tuples DEF Waiting
<1>4. Ahead \in Seq(Byte)
  BY <1>1, <1>2, <1>3, Joined DEF Ahead
<1> QED
  BY <1>2, <1>3, <1>4

(* ... a key typed ...                                                     *)
LEMMA TypeAccounts ==
  ASSUME TypeInv, Over, Type,
         NEW cs, NEW i, NEW j, NEW part, NEW owed, Accounted(cs, i, j, part, owed)
  PROVE  Over' /\ \E cs2, j2 : Accounted(cs2, i, j2, part, owed)'
<1>1. PICK k \in Keys[tty] : \E code \in Encodings[k] :
        typed' = Append(typed, k) /\ wire' = Append(wire, code)
  BY DEF Type
<1>2. PICK code \in Encodings[k] : typed' = Append(typed, k) /\ wire' = Append(wire, code)
  BY <1>1
<1>3. /\ ~closed /\ closed' = closed /\ sock' = sock /\ con_pushback' = con_pushback
      /\ con_eof' = con_eof /\ con_line' = con_line /\ tty' = tty /\ rd' = rd
      /\ delivered' = delivered
  BY DEF Type
<1>4. /\ tty \in Modes /\ wire \in Seq(Seq(Byte)) /\ sock \in Seq(Byte) /\ con_eof \in BOOLEAN
  BY ReadFields
<1>5. k \in AllKeys /\ code \in Seq(Byte)
  BY <1>4, KeysAre, StepFirst
<1>6. /\ Encodes(cs, typed, Keys[tty]) /\ cs \in Codings /\ Len(cs) = Len(typed)
      /\ Len(cs) \in Nat /\ typed \in Seq(AllKeys)
      /\ j \in 0 .. Len(cs) /\ i \in 0 .. j /\ i \in 0 .. Len(cs) /\ part \in Seq(Byte)
  BY Ranges
<1>7. con_eof = FALSE
  BY <1>3, <1>4 DEF Over
<1>8. Over'
  <2>1. typed' # << >>
    <3>1. Len(Append(typed, k)) = Len(typed) + 1 /\ Len(typed) \in Nat /\ Len(<< >>) = 0
      BY <1>5, <1>6, AppendProperties
    <3> DEFINE t == Append(typed, k)
    <3>2. t # << >>
      <4>1. Len(t) # Len(<< >>)
        BY <3>1
      <4> HIDE DEF t
      <4> QED
        BY <4>1
    <3> QED
      BY <1>2, <3>2
  <2> QED
    BY <1>3, <1>7, <2>1 DEF Over
<1> DEFINE cs2 == Append(cs, code)
           t2 == Append(typed, k)
<1>9. j \in i .. Len(cs)
  BY <1>6
<1>10. /\ cs2 \in Codings /\ Len(cs2) = Len(cs) + 1 /\ cs2[Len(cs) + 1] = code
       /\ \A n \in 1 .. Len(cs) : cs2[n] = cs[n]
       /\ Bytes(cs2, i, j) = Bytes(cs, i, j)
  BY <1>5, <1>6, <1>9, BytesSame
<1>11. /\ t2 \in Seq(AllKeys) /\ Len(t2) = Len(typed) + 1 /\ t2[Len(typed) + 1] = k
       /\ \A n \in 1 .. Len(typed) : t2[n] = typed[n]
  BY <1>5, <1>6, AppendProperties
<1>12. SubSeq(t2, 1, i) = SubSeq(typed, 1, i)
  BY <1>6, <1>11
<1> HIDE DEF cs2, t2
<1>13. Encodes(cs2, t2, Keys[tty])
  <2>1. ASSUME NEW n \in 1 .. Len(t2)
        PROVE  t2[n] \in Keys[tty] /\ cs2[n] \in Encodings[t2[n]]
    <3>1. CASE n \in 1 .. Len(typed)
      BY <1>6, <1>10, <1>11, <3>1 DEF Encodes
    <3>2. CASE n = Len(typed) + 1
      BY <1>6, <1>10, <1>11, <3>2
    <3> QED
      BY <1>6, <1>11, <3>1, <3>2
  <2> QED
    BY <1>6, <1>10, <1>11, <2>1 DEF Encodes
<1>14. typed' = t2
  BY <1>2 DEF t2
<1>20. PICK j2 : j2 = IF tty \in Split THEN Len(cs2) ELSE j
  OBVIOUS
<1>15. j2 \in 0 .. Len(cs2) /\ i \in 0 .. j2
  BY <1>6, <1>10, <1>20
<1>16. Sent(cs2, j2)'
  <2>1. CASE tty \in Split
    BY <1>3, <1>13, <1>14, <1>15, <1>20, <2>1 DEF Sent
  <2>2. CASE tty \notin Split
    <3>1. Len(wire) = Len(cs) - j /\ \A n \in 1 .. Len(wire) : wire[n] = cs[j + n]
      BY <2>2 DEF Accounted, Sent
    <3> DEFINE w == Append(wire, code)
    <3>2. /\ Len(w) = Len(wire) + 1 /\ w[Len(wire) + 1] = code
          /\ \A n \in 1 .. Len(wire) : w[n] = wire[n]
      BY <1>4, <1>5, AppendProperties
    <3> HIDE DEF w
    <3>3. Len(wire) \in Nat
      BY <1>4
    <3>4. Len(w) = Len(cs2) - j
      BY <1>6, <1>10, <3>1, <3>2, <3>3
    <3>5. ASSUME NEW n \in 1 .. Len(w) PROVE w[n] = cs2[j + n]
      <4>1. CASE n \in 1 .. Len(wire)
        <5>1. j + n \in 1 .. Len(cs)
          BY <1>6, <3>1, <3>3, <4>1
        <5> QED
          BY <1>10, <3>1, <3>2, <4>1, <5>1
      <4>2. CASE n = Len(wire) + 1
        <5>1. j + n = Len(cs) + 1
          BY <1>6, <3>1, <3>3, <4>2
        <5> QED
          BY <1>10, <3>2, <4>2, <5>1
      <4> QED
        BY <3>2, <3>3, <4>1, <4>2
    <3>6. wire' = w /\ j2 = j
      BY <1>2, <1>20, <2>2 DEF w
    <3> QED
      BY <1>3, <1>13, <1>14, <1>15, <2>2, <3>4, <3>5, <3>6 DEF Sent
  <2> QED
    BY <2>1, <2>2
<1>17. Ahead' = part \o Bytes(cs2, i, j2)
  <2>0. Ahead = part \o Bytes(cs2, i, j) /\ Waiting' = Waiting
    BY <1>3, <1>10 DEF Accounted, Place, Waiting
  <2>1. CASE tty \in Split
    <3>1. j = Len(cs) /\ j2 = j + 1
      BY <1>10, <1>20, <2>1 DEF Accounted, Sent
    <3>2. Behind' = Behind \o code
      BY <1>2, <1>3, <1>4, <1>5, <2>1, FlattenAppend DEF Behind
    <3>3. Ahead' = Ahead \o code
      <4>1. Ahead' = Waiting \o (sock \o (Behind \o code))
        BY <1>3, <2>0, <3>2 DEF Ahead
      <4>2. Waiting \in Seq(Byte) /\ Behind \in Seq(Byte)
        BY AheadType
      <4>3. Waiting \o (sock \o (Behind \o code)) = (Waiting \o (sock \o Behind)) \o code
        <5>1. (sock \o Behind) \o code = sock \o (Behind \o code) /\ sock \o Behind \in Seq(Byte)
          BY <1>4, <1>5, <4>2, EndToEnd, Joined
        <5>2. (Waiting \o (sock \o Behind)) \o code = Waiting \o ((sock \o Behind) \o code)
          BY <1>5, <4>2, <5>1, EndToEnd
        <5> QED
          BY <5>1, <5>2
      <4>4. Ahead = Waiting \o (sock \o Behind)
        BY DEF Ahead
      <4> QED
        BY <4>1, <4>3, <4>4
    <3>4. j \in 0 .. Len(cs2) - 1
      BY <1>6, <1>10
    <3>5. Bytes(cs2, i, j + 1) = Bytes(cs2, i, j) \o code
      BY <1>6, <1>10, <3>1, <3>4, BytesLast
    <3>6. Bytes(cs2, i, j) \in Seq(Byte)
      BY <1>6, <1>10, BytesType
    <3>7. (part \o Bytes(cs2, i, j)) \o code = part \o (Bytes(cs2, i, j) \o code)
      BY <1>5, <1>6, <3>6, EndToEnd
    <3> QED
      BY <2>0, <3>1, <3>3, <3>5, <3>7
  <2>2. CASE tty \notin Split
    <3>1. Ahead' = Ahead
      BY <1>3, <2>0, <2>2 DEF Ahead, Behind
    <3> QED
      BY <1>20, <2>0, <2>2, <3>1
  <2> QED
    BY <2>1, <2>2
<1>18. Place(cs2, i, j2, part, owed)'
  <2>1. /\ \/ Fits(rd.iac, part, owed, Keys[tty])
           \/ rd.at \in Paired /\ rd.iac = "data" /\ part \in Pairs /\ owed = << >>
        /\ rd.at \in Paired /\ part \notin Pairs => "CR" \in Keys[tty]
    BY DEF Accounted, Place
  <2>2. Fits(rd.iac, part, owed, Keys[tty])' <=> Fits(rd.iac, part, owed, Keys[tty])
    BY <1>3 DEF Fits
  <2>3. i \in 0 .. j2 /\ part \in Seq(Byte)
    BY <1>6, <1>15
  <2>4. rd' = rd /\ tty' = tty
    BY <1>3
  <2>5. /\ \/ Fits(rd.iac, part, owed, Keys[tty])'
           \/ rd'.at \in Paired /\ rd'.iac = "data" /\ part \in Pairs /\ owed = << >>
        /\ rd'.at \in Paired /\ part \notin Pairs => "CR" \in Keys[tty']
    BY <2>1, <2>2, <2>4
  <2> QED
    BY <1>17, <2>3, <2>5 DEF Place
<1>19. Text(i, owed)'
  <2>1. SubSeq(typed', 1, i) = SubSeq(typed, 1, i)
    BY <1>12, <1>14
  <2>2. tty = "cooked" => CookedText(rd'.at, rd'.got, con_line', con_eof', delivered', owed,
                      Cook(SubSeq(typed, 1, i)), i = Len(typed'))
    <3> SUFFICES ASSUME tty = "cooked"
                 PROVE  CookedText(rd.at, rd.got, con_line, FALSE, delivered, owed,
                                   Cook(SubSeq(typed, 1, i)), i = Len(typed'))
      BY <1>3, <1>7
    <3> DEFINE c == Cook(SubSeq(typed, 1, i))
    <3>1. CookedText(rd.at, rd.got, con_line, FALSE, delivered, owed, c, i = Len(typed))
      BY <1>7, TextIs
    <3> HIDE DEF c
    <3>2. CookedText(rd.at, rd.got, con_line, FALSE, delivered, owed, c, i = Len(typed'))
      BY <3>1 DEF CookedText
    <3> QED
      BY <3>2 DEF c
  <2>3. tty = "raw" => /\ rd'.at \in {"idle", "key", "pair"} /\ con_line' = << >>
                       /\ (delivered' \o rd'.got) \o owed = Keystrokes(SubSeq(typed, 1, i))
    BY <1>3, TextIs DEF RawText
  <2>4. rd'.at = "idle" => rd' = Idle
    BY <1>3, TextIs
  <2> QED
    BY <1>3, <2>1, <2>2, <2>3, <2>4 DEF Text, RawText
<1> QED
  BY <1>8, <1>16, <1>18, <1>19 DEF Accounted

(* The network cuts h after its n-th byte.                                 *)
Cut(h, n, p, q) ==
  /\ p \in Seq(Byte) /\ q \in Seq(Byte) /\ p # << >> /\ p \o q = h
  /\ n = Len(h) => p = h

LEMMA CutAt ==
  ASSUME NEW h \in Seq(Byte), NEW n \in 1 .. Len(h)
  PROVE  Cut(h, n, SubSeq(h, 1, n), SubSeq(h, n + 1, Len(h)))
<1>1. /\ SubSeq(h, 1, n) \in Seq(Byte) /\ SubSeq(h, n + 1, Len(h)) \in Seq(Byte)
      /\ (<< >> \o SubSeq(h, 1, n)) \o SubSeq(h, n + 1, Len(h)) = << >> \o h
  <2>1. << >> \in Seq(Byte) /\ n \in 0 .. Len(h)
    OBVIOUS
  <2> QED
    BY <2>1, Ends
<1>2. << >> \o h = h /\ << >> \o SubSeq(h, 1, n) = SubSeq(h, 1, n)
  BY <1>1, Nothing
<1>3. Len(SubSeq(h, 1, n)) = n /\ Len(<< >>) = 0
  OBVIOUS
<1>4. SubSeq(h, 1, n) # << >>
  BY <1>3
<1>5. n = Len(h) => SubSeq(h, 1, n) = h
  BY SubSeqFull
<1> DEFINE p == SubSeq(h, 1, n)
           q == SubSeq(h, n + 1, Len(h))
<1>6. p \in Seq(Byte) /\ q \in Seq(Byte)
  BY <1>1
<1>9. p # << >>
  BY <1>4
<1>10. n = Len(h) => p = h
  BY <1>5
<1>7. p \o q = h
  BY <1>1, <1>2
<1> HIDE DEF p, q
<1>8. Cut(h, n, p, q)
  BY <1>6, <1>7, <1>9, <1>10 DEF Cut
<1> QED
  BY <1>8 DEF p, q

(* ... the arrival of some of its bytes ...                                *)
LEMMA ArriveAccounts ==
  ASSUME TypeInv, Over, Arrive,
         NEW cs, NEW i, NEW j, NEW part, NEW owed, Accounted(cs, i, j, part, owed)
  PROVE  Over' /\ sock' # << >> /\ \E j2 : Accounted(cs, i, j2, part, owed)'
<1> DEFINE h == Head(wire)
           l == Tail(wire)
           len == Len(h)
<1>1. PICK n \in 1 .. len :
        /\ tty \notin Split => n = len
        /\ sock' = sock \o SubSeq(h, 1, n)
        /\ wire' = (IF n = len THEN << >> ELSE <<SubSeq(h, n + 1, len)>>) \o l
  BY DEF Arrive
<1>2. /\ wire # << >> /\ typed' = typed /\ closed' = closed /\ con_pushback' = con_pushback
      /\ con_eof' = con_eof /\ con_line' = con_line /\ tty' = tty /\ rd' = rd
      /\ delivered' = delivered
  BY DEF Arrive
<1>3. /\ tty \in Modes /\ wire \in Seq(Seq(Byte)) /\ sock \in Seq(Byte) /\ con_eof \in BOOLEAN
  BY ReadFields
<1>4. /\ Encodes(cs, typed, Keys[tty]) /\ cs \in Codings /\ Len(cs) = Len(typed)
      /\ Len(cs) \in Nat /\ typed \in Seq(AllKeys)
      /\ j \in 0 .. Len(cs) /\ i \in 0 .. j /\ i \in 0 .. Len(cs) /\ part \in Seq(Byte)
  BY Ranges
<1>5. Over'
  BY <1>2 DEF Over
<1>6. h \in Seq(Byte) /\ l \in Seq(Seq(Byte)) /\ wire = <<h>> \o l /\ h = wire[1]
      /\ Len(l) = Len(wire) - 1 /\ \A m \in 1 .. Len(l) : l[m] = wire[m + 1]
  BY <1>2, <1>3
<1> HIDE DEF h, l
<1> DEFINE p == SubSeq(h, 1, n)
           q == SubSeq(h, n + 1, len)
<1>7. /\ p \in Seq(Byte) /\ q \in Seq(Byte) /\ p # << >> /\ p \o q = h /\ len \in Nat
      /\ n = len => p = h
  <2>1. len \in Nat /\ n \in 1 .. Len(h)
    BY <1>6
  <2>2. Cut(h, n, p, q)
    BY <1>6, <2>1, CutAt
  <2> HIDE DEF p, q
  <2> QED
    BY <2>1, <2>2 DEF Cut
<1>14. sock' = sock \o p /\ wire' = (IF n = len THEN << >> ELSE <<q>>) \o l
  BY <1>1
<1> HIDE DEF p, q, len
<1>8. sock' = sock \o p /\ sock' \in Seq(Byte) /\ wire' = (IF n = len THEN << >> ELSE <<q>>) \o l
  BY <1>3, <1>7, <1>14, Joined
<1>9. sock' # << >>
  <2>1. \A a, b \in Seq(Byte) : b # << >> => a \o b # << >>
    <3> SUFFICES ASSUME NEW S, NEW a \in Seq(S), NEW b \in Seq(S), b # << >> PROVE a \o b # << >>
      OBVIOUS
    <3> QED
      OBVIOUS
  <2> QED
    BY <1>3, <1>7, <1>8, <2>1
<1>10. Waiting' = Waiting /\ Waiting \in Seq(Byte) /\ Behind \in Seq(Byte)
       /\ Ahead = part \o Bytes(cs, i, j)
  BY <1>2, AheadType DEF Waiting, Accounted, Place
<1>11. Text(i, owed)'
  BY <1>2, TextIs, TextStays DEF RawText
<1>12. CASE tty \in Split
  <2>1. j = Len(cs)
    BY <1>12 DEF Accounted, Sent
  <2>2. Sent(cs, j)'
    BY <1>2, <1>4, <1>12, <2>1 DEF Sent
  <2> DEFINE f == FlattenSeq(l)
  <2>3. f \in Seq(Byte) /\ FlattenSeq(<<h>> \o l) = h \o f /\ FlattenSeq(<<q>> \o l) = q \o f
    BY <1>6, <1>7, FlattenType, FlattenCons
  <2>4. Behind = h \o f
    BY <1>6, <1>12, <2>3 DEF Behind
  <2>5. Behind' = (IF n = len THEN f ELSE q \o f)
    <3>1. << >> \o l = l
      BY <1>6
    <3>2. Behind' = FlattenSeq(wire')
      BY <1>2, <1>12 DEF Behind
    <3> QED
      BY <1>8, <2>3, <3>1, <3>2
  <2> HIDE DEF f
  <2>6. sock' \o Behind' = sock \o Behind
    <3>1. CASE n = len
      <4>1. p = h /\ Behind' = f
        BY <1>7, <2>5, <3>1
      <4>2. (sock \o h) \o f = sock \o (h \o f)
        BY <1>3, <1>6, <2>3, EndToEnd
      <4> QED
        BY <1>8, <2>4, <4>1, <4>2
    <3>2. CASE n # len
      <4>1. Behind' = q \o f
        BY <2>5, <3>2
      <4>2. h \o f = p \o (q \o f)
        BY <1>7, <2>3, EndToEnd
      <4>3. q \o f \in Seq(Byte)
        BY <1>7, <2>3, Joined
      <4>4. (sock \o p) \o (q \o f) = sock \o (p \o (q \o f))
        BY <1>3, <1>7, <4>3, EndToEnd
      <4> QED
        BY <1>8, <2>4, <4>1, <4>2, <4>4
    <3> QED
      BY <3>1, <3>2
  <2>7. Ahead' = part \o Bytes(cs, i, j)
    BY <1>10, <2>6 DEF Ahead
  <2>8. Place(cs, i, j, part, owed)'
    BY <1>2, <1>4, <2>7 DEF Accounted, Place
  <2> QED
    BY <1>5, <1>9, <1>11, <2>2, <2>8 DEF Accounted
<1>13. CASE tty \notin Split
  <2>1. Len(wire) = Len(cs) - j /\ \A m \in 1 .. Len(wire) : wire[m] = cs[j + m]
    BY <1>13 DEF Accounted, Sent
  <2>2. Len(wire) \in Nat /\ Len(wire) >= 1
    BY <1>2, <1>3
  <2>3. j \in 0 .. Len(cs) - 1 /\ j + 1 \in 0 .. Len(cs) /\ i \in 0 .. j + 1
    BY <1>4, <2>1, <2>2
  <2>4. h = cs[j + 1]
    BY <1>6, <2>1, <2>2
  <2>5. wire' = l
    <3>1. n = len
      BY <1>1, <1>13 DEF len
    <3>2. << >> \o l = l
      BY <1>6
    <3> QED
      BY <1>8, <3>1, <3>2
  <2>6. Sent(cs, j + 1)'
    <3>1. Len(l) = Len(cs) - (j + 1)
      BY <1>4, <1>6, <2>1, <2>2
    <3>2. ASSUME NEW m \in 1 .. Len(l) PROVE l[m] = cs[(j + 1) + m]
      <4>1. Len(l) \in Nat
        BY <1>6, <2>2
      <4>2. m + 1 \in 1 .. Len(wire) /\ j + (m + 1) = (j + 1) + m
        BY <1>4, <1>6, <2>2, <4>1
      <4> QED
        BY <1>6, <2>1, <4>2
    <3> QED
      BY <1>2, <1>4, <1>13, <2>3, <2>5, <3>1, <3>2 DEF Sent
  <2>7. Ahead' = Waiting \o (sock \o h) /\ Ahead = Waiting \o sock
    <3>1. Behind = << >> /\ Behind' = << >> /\ p = h
      BY <1>1, <1>2, <1>7, <1>13 DEF Behind, len
    <3>2. sock' \o << >> = sock' /\ sock \o << >> = sock
      BY <1>3, <1>8, Nothing
    <3> QED
      BY <1>8, <1>10, <3>1, <3>2 DEF Ahead
  <2>8. Ahead' = part \o Bytes(cs, i, j + 1)
    <3>1. Bytes(cs, i, j + 1) = Bytes(cs, i, j) \o h /\ Bytes(cs, i, j) \in Seq(Byte)
      BY <1>4, <2>3, <2>4, BytesLast, BytesType
    <3>2. Waiting \o (sock \o h) = (Waiting \o sock) \o h
      BY <1>3, <1>6, <1>10, EndToEnd
    <3>3. (part \o Bytes(cs, i, j)) \o h = part \o (Bytes(cs, i, j) \o h)
      BY <1>4, <1>6, <3>1, EndToEnd
    <3> QED
      BY <1>10, <2>7, <3>1, <3>2, <3>3
  <2>9. Place(cs, i, j + 1, part, owed)'
    BY <1>2, <1>4, <2>3, <2>8 DEF Accounted, Place
  <2> QED
    BY <1>5, <1>9, <1>11, <2>6, <2>9 DEF Accounted
<1> QED
  BY <1>12, <1>13

(* ... and the calls that receive nothing.                                 *)
LEMMA HangUpAccounts ==
  ASSUME TypeInv, Over, HangUp,
         NEW cs, NEW i, NEW j, NEW part, NEW owed, Accounted(cs, i, j, part, owed)
  PROVE  Over' /\ Accounted(cs, i, j, part, owed)'
<1>1. Over'
  BY DEF HangUp, Over
<1>2. Accounted(cs, i, j, part, owed)'
  BY SameAccounts DEF HangUp
<1> QED
  BY <1>1, <1>2

LEMMA FionreadAccounts ==
  ASSUME TypeInv, Over, Fionread,
         NEW cs, NEW i, NEW j, NEW part, NEW owed, Accounted(cs, i, j, part, owed)
  PROVE  Over' /\ Accounted(cs, i, j, part, owed)'
<1>1. Over'
  BY DEF Fionread, Over
<1>2. Accounted(cs, i, j, part, owed)'
  BY SameAccounts DEF Fionread
<1> QED
  BY <1>1, <1>2

(* A read that begins finds the guest between two keys, or in one.         *)
LEMMA ReadAccounts ==
  ASSUME TypeInv, Over, Steady, Read,
         NEW cs, NEW i, NEW j, NEW part, NEW owed, Accounted(cs, i, j, part, owed)
  PROVE  Over' /\ Accounted(cs, i, j, part, owed)'
<1>1. /\ rd.at = "idle" /\ typed' = typed /\ wire' = wire /\ closed' = closed /\ sock' = sock
      /\ con_pushback' = con_pushback /\ con_eof' = con_eof /\ tty' = tty
  BY DEF Read
<1>2. rd = Idle
  BY <1>1, TextIs
<1>3. rd.at = "idle" /\ rd.iac = "data" /\ rd.got = << >>
  BY <1>2 DEF Idle
<1>4. Over'
  BY <1>1 DEF Over
<1>5. Sent(cs, j)'
  BY <1>1, SentStays DEF Accounted
<1>6. Ahead' = Ahead
  BY <1>1 DEF Ahead, Waiting, Behind
<1>7. /\ delivered \in Seq(Byte) /\ con_line \in Seq(Byte) /\ con_eof \in BOOLEAN
      /\ typed \in Seq(AllKeys) /\ i \in 0 .. Len(typed) /\ owed \in Seq(Byte)
      /\ "idle" \notin Paired
  BY ReadFields, Ranges DEF Paired
<1>8. Fits("data", part, owed, Keys[tty])
  BY <1>3, <1>7, Ranges
<1>9. part = << >> /\ owed = << >>
  BY <1>8, FitsIs
<1>10. PICK max \in 1 .. MaxRead :
       IF tty = "cooked" /\ con_line # << >>
         THEN LET k == IF max < Len(con_line) THEN max ELSE Len(con_line) IN
              /\ ReadReturns(SubSeq(con_line, 1, k))
              /\ con_line' = SubSeq(con_line, k + 1, Len(con_line))
         ELSE /\ rd' = [Idle EXCEPT !.at = IF tty = "raw" THEN "key" ELSE "cook", !.max = max]
              /\ UNCHANGED <<con_line, delivered, promised>>
  BY DEF Read
<1>11. ASSUME rd'.iac = "data", rd'.at \notin Paired
       PROVE  Place(cs, i, j, part, owed)'
  <2>1. Fits(rd'.iac, part, owed, Keys[tty'])
    BY <1>1, <1>8, <1>11
  <2>2. i \in 0 .. j /\ part \in Seq(Byte) /\ Ahead = part \o Bytes(cs, i, j)
    BY DEF Accounted, Place
  <2> QED
    BY <1>6, <1>11, <2>1, <2>2 DEF Place
<1>12. CASE tty = "cooked" /\ con_line # << >>
  <2> DEFINE k == IF max < Len(con_line) THEN max ELSE Len(con_line)
             a == SubSeq(con_line, 1, k)
             b == SubSeq(con_line, k + 1, Len(con_line))
  <2>1. rd' = Idle /\ delivered' = delivered \o a /\ con_line' = b
    BY <1>10, <1>12 DEF ReadReturns
  <2>2. k \in 0 .. Len(con_line)
    BY <1>7, ConsoleAssumption
  <2> HIDE DEF k
  <2>3. delivered' \o con_line' = delivered \o con_line
    <3>1. (delivered \o SubSeq(con_line, 1, k)) \o SubSeq(con_line, k + 1, Len(con_line))
            = delivered \o con_line
      BY <1>7, <2>2, Ends
    <3> QED
      BY <2>1, <3>1
  <2> HIDE DEF a, b
  <2>4. rd'.at = "idle" /\ rd'.iac = "data" /\ rd'.got = << >>
    BY <2>1 DEF Idle
  <2>5. Place(cs, i, j, part, owed)'
    BY <1>7, <1>11, <2>4
  <2> DEFINE c == Cook(SubSeq(typed, 1, i))
             all == i = Len(typed)
  <2>6. CookedText(rd.at, rd.got, con_line, con_eof, delivered, owed, c, all)
    BY <1>12, TextIs
  <2> HIDE DEF c, all
  <2>7. CookedText(rd'.at, rd'.got, con_line', con_eof', delivered', owed, c, all)
    BY <1>1, <1>3, <2>3, <2>4, <2>6 DEF CookedText
  <2>8. Text(i, owed)'
    BY <1>1, <1>12, <2>1, <2>7, TextStays DEF c, all
  <2> QED
    BY <1>4, <1>5, <2>5, <2>8 DEF Accounted
<1>13. CASE ~(tty = "cooked" /\ con_line # << >>)
  <2>1. /\ rd' = [Idle EXCEPT !.at = IF tty = "raw" THEN "key" ELSE "cook", !.max = max]
        /\ con_line' = con_line /\ delivered' = delivered
    BY <1>10, <1>13
  <2>2. rd'.iac = "data" /\ rd'.got = << >> /\ rd'.at = IF tty = "raw" THEN "key" ELSE "cook"
    BY <2>1 DEF Idle
  <2>3. Place(cs, i, j, part, owed)'
    <3>1. rd'.at \notin Paired
      BY <2>2 DEF Paired
    <3> QED
      BY <1>11, <2>2, <3>1
  <2>4. CASE tty = "raw"
    <3>1. /\ con_line = << >>
          /\ (delivered \o rd.got) \o owed = Keystrokes(SubSeq(typed, 1, i))
      BY <2>4, TextIs DEF RawText
    <3>2. rd'.at = "key"
      BY <2>2, <2>4
    <3>3. (delivered' \o rd'.got) \o owed = Keystrokes(SubSeq(typed, 1, i))
      BY <1>3, <2>1, <2>2, <3>1
    <3>4. Text(i, owed)'
      BY <1>1, <2>1, <2>4, <3>1, <3>2, <3>3, TextStays
    <3> QED
      BY <1>4, <1>5, <2>3, <3>4 DEF Accounted
  <2>5. CASE tty = "cooked"
    <3> DEFINE c == Cook(SubSeq(typed, 1, i))
               all == i = Len(typed)
    <3>1. CookedText(rd.at, rd.got, con_line, con_eof, delivered, owed, c, all)
      BY <2>5, TextIs
    <3>2. rd'.at = "cook" /\ con_line = << >>
      BY <1>13, <2>2, <2>5
    <3> HIDE DEF c, all
    <3>3. CookedText(rd'.at, rd'.got, con_line', con_eof', delivered', owed, c, all)
      BY <1>1, <1>3, <2>1, <2>2, <3>1, <3>2 DEF CookedText
    <3>4. Text(i, owed)'
      BY <1>1, <2>5, <3>2, <3>3, TextStays DEF c, all
    <3> QED
      BY <1>4, <1>5, <2>3, <3>4 DEF Accounted
  <2> QED
    BY <2>4, <2>5, TextIs
<1> QED
  BY <1>12, <1>13

(* Before anything is typed, nothing is anywhere.                          *)
Untyped ==
  /\ typed = << >> /\ wire = << >> /\ sock = << >> /\ con_pushback = None
  /\ con_line = << >> /\ rd = Idle /\ delivered = << >>

LEMMA NothingTyped == TypeInv /\ Untyped => Accounted(<< >>, 0, 0, << >>, << >>)
<1> SUFFICES ASSUME TypeInv, typed = << >>, wire = << >>, sock = << >>, con_pushback = None,
                    con_line = << >>, rd = Idle, delivered = << >>
             PROVE  Accounted(<< >>, 0, 0, << >>, << >>)
  BY DEF Untyped
<1>1. /\ << >> \in Codings /\ << >> \in Seq(AllKeys) /\ << >> \in Seq(Byte)
      /\ << >> \in Seq(Seq(Byte)) /\ Len(<< >>) = 0
  BY DEF Codings
<1>2. rd.at = "idle" /\ rd.iac = "data" /\ rd.got = << >> /\ rd.at \notin Paired
  BY DEF Idle, Paired
<1>4. Sent(<< >>, 0)
  <2>1. Encodes(<< >>, typed, Keys[tty])
    BY <1>1 DEF Encodes
  <2>2. Len(wire) = 0 /\ 0 \in 0 .. 0 /\ 0 - 0 = 0 /\ 1 .. 0 = {}
    BY <1>1
  <2> QED
    BY <1>1, <2>1, <2>2 DEF Sent
<1>5. Place(<< >>, 0, 0, << >>, << >>)
  <2>1. Behind = << >> /\ Waiting = << >>
    BY FlattenEmpty DEF Behind, Waiting
  <2>2. Bytes(<< >>, 0, 0) = << >>
    <3>1. 0 \in 0 .. Len(<< >>)
      BY <1>1
    <3> QED
      BY <1>1, <3>1, BytesNone
  <2>3. << >> \o << >> = << >>
    BY <1>1, Nothing
  <2>4. Ahead = << >> \o Bytes(<< >>, 0, 0)
    BY <2>1, <2>2, <2>3 DEF Ahead
  <2>5. Fits(rd.iac, << >>, << >>, Keys[tty])
    BY <1>2 DEF Fits
  <2>6. 0 \in 0 .. 0
    OBVIOUS
  <2> QED
    BY <1>1, <1>2, <2>4, <2>5, <2>6 DEF Place
<1>6. Text(0, << >>)
  <2>1. SubSeq(typed, 1, 0) = << >>
    BY <1>1
  <2>2. (<< >> \o << >>) \o << >> = << >> /\ << >> \o << >> = << >>
    BY <1>1, Nothing
  <2>3. tty = "raw" => RawText(0, << >>)
    BY <1>2, <2>1, <2>2, KeystrokesNone DEF RawText
  <2>6. Raw.out = << >> /\ Raw.line = << >> /\ 0 = Len(typed)
    BY <1>1 DEF Raw
  <2>4. CookedText("idle", << >>, << >>, con_eof, << >>, << >>, Raw, 0 = Len(typed))
    BY <2>2, <2>6 DEF CookedText
  <2>5. CookedText(rd.at, rd.got, con_line, con_eof, delivered, << >>,
                   Cook(SubSeq(typed, 1, 0)), 0 = Len(typed))
    BY <1>2, <2>1, <2>4, CookNone
  <2> QED
    BY <2>3, <2>5 DEF Text
<1> QED
  BY <1>4, <1>5, <1>6 DEF Accounted

LEMMA NothingTypedYet ==
  (TypeInv /\ Untyped)' => Accounted(<< >>, 0, 0, << >>, << >>)'
BY NothingTyped, PTL

LEMMA ConStarts == ConInit => ConInv
<1> SUFFICES ASSUME ConInit PROVE ConInv
  OBVIOUS
<1>1. TypeInv
  BY TypeStarts
<1>2. /\ typed = << >> /\ wire = << >> /\ sock = << >> /\ con_pushback = None
      /\ con_line = << >> /\ con_eof = FALSE /\ rd = Idle /\ delivered = << >>
  BY DEF ConInit
<1> HIDE DEF ConInit
<1>3. Accounted(<< >>, 0, 0, << >>, << >>)
  BY <1>1, <1>2, NothingTyped DEF Untyped
<1>4. Over
  BY <1>2 DEF Over
<1> QED
  BY <1>1, <1>3, <1>4 DEF ConInv

(* A steady console changes its mode only before anything is typed.        *)
LEMMA ModeAccounts ==
  ASSUME TypeInv, TypeInv', Over, Steady, SetMode,
         NEW cs, NEW i, NEW j, NEW part, NEW owed, Accounted(cs, i, j, part, owed)
  PROVE  Over' /\ Accounted(<< >>, 0, 0, << >>, << >>)'
<1>1. /\ rd.at = "idle" /\ typed = << >> /\ typed' = typed /\ wire' = wire /\ closed' = closed
      /\ sock' = sock /\ con_pushback' = con_pushback /\ con_eof' = con_eof
      /\ con_line' = con_line /\ rd' = rd /\ delivered' = delivered
  BY DEF SetMode, Steady
<1>2. Over'
  BY <1>1 DEF Over
<1>3. wire = << >>
  BY <1>1 DEF Over
<1>4. rd = Idle
  BY <1>1, TextIs
<1>5. TypeInv /\ con_eof \in BOOLEAN /\ sock \in Seq(Byte) /\ delivered \in Seq(Byte)
      /\ con_line \in Seq(Byte) /\ con_pushback \in (Byte \ {"LF", "NUL"}) \cup {None}
      /\ rd.got = << >> /\ rd.at \notin Paired
  BY <1>1, <1>4, ReadFields DEF Idle, Paired
<1>6. cs \in Codings /\ Len(cs) = 0 /\ i = 0 /\ j = 0 /\ part \in Seq(Byte)
      /\ Fits(rd.iac, part, owed, Keys[tty])
  <2>1. /\ cs \in Codings /\ Len(cs) = Len(typed) /\ j \in 0 .. Len(cs) /\ i \in 0 .. j
        /\ part \in Seq(Byte) /\ Fits(rd.iac, part, owed, Keys[tty])
    BY <1>5, Ranges
  <2>2. Len(typed) = 0
    BY <1>1
  <2> QED
    BY <2>1, <2>2
<1>7. part = << >> /\ owed = << >>
  BY <1>4, <1>6, FitsIs DEF Idle
<1>8. Ahead = << >>
  <2>1. Bytes(cs, i, j) = << >>
    BY <1>6, BytesNone
  <2>2. << >> \o << >> = << >>
    OBVIOUS
  <2> QED
    BY <1>7, <2>1, <2>2 DEF Accounted, Place
<1>9. sock = << >> /\ con_pushback = None
  <2>1. Waiting \in Seq(Byte) /\ Behind \in Seq(Byte) /\ sock \o Behind \in Seq(Byte)
    BY <1>5, AheadType, Joined
  <2>2. \A a, b \in Seq(Byte) : a \o b = << >> => a = << >> /\ b = << >>
    <3> SUFFICES ASSUME NEW S, NEW a \in Seq(S), NEW b \in Seq(S), a \o b = << >>
                 PROVE  a = << >> /\ b = << >>
      OBVIOUS
    <3> QED
      OBVIOUS
  <2>3. Waiting = << >> /\ sock \o Behind = << >>
    BY <1>8, <2>1, <2>2 DEF Ahead
  <2>4. sock = << >>
    BY <1>5, <2>1, <2>2, <2>3
  <2>5. con_pushback # None => <<con_pushback>> # << >>
    OBVIOUS
  <2> QED
    BY <2>3, <2>4, <2>5 DEF Waiting
<1>10. con_line = << >> /\ delivered = << >>
  <2>0. << >> \in Seq(Byte) /\ << >> \o << >> = << >>
    OBVIOUS
  <2>1. SubSeq(typed, 1, i) = << >>
    BY <1>1, <1>6
  <2>2. CASE tty = "raw"
    <3>1. con_line = << >> /\ (delivered \o rd.got) \o owed = Keystrokes(SubSeq(typed, 1, i))
      BY <2>2, TextIs DEF RawText
    <3>2. (delivered \o << >>) \o << >> = delivered
      BY <1>5, Nothing
    <3>3. Keystrokes(SubSeq(typed, 1, i)) = << >>
      BY <2>1, KeystrokesNone
    <3>4. (delivered \o rd.got) \o owed = delivered
      BY <1>5, <1>7, <3>2
    <3> QED
      BY <3>1, <3>3, <3>4
  <2>3. CASE tty = "cooked"
    <3>1. CookedText(rd.at, rd.got, con_line, con_eof, delivered, owed,
                     Cook(SubSeq(typed, 1, i)), i = Len(typed))
      BY <2>3, TextIs
    <3>4. Raw.out = << >> /\ Raw.line = << >>
      BY DEF Raw
    <3>2. Cook(SubSeq(typed, 1, i)).out = << >> /\ Cook(SubSeq(typed, 1, i)).line = << >>
      BY <2>1, <3>4, CookNone
    <3> DEFINE c == Cook(SubSeq(typed, 1, i))
    <3> HIDE DEF c
    <3>3. delivered \o con_line = << >>
      <4>1. rd.at # "cookpair"
        BY <1>5 DEF Paired
      <4> QED
        BY <2>0, <3>1, <3>2, <4>1 DEF CookedText, c
    <3>5. \A a, b \in Seq(Byte) : a \o b = << >> => a = << >> /\ b = << >>
      <4> SUFFICES ASSUME NEW S, NEW a \in Seq(S), NEW b \in Seq(S), a \o b = << >>
                   PROVE  a = << >> /\ b = << >>
        OBVIOUS
      <4> QED
        OBVIOUS
    <3> QED
      BY <1>5, <3>3, <3>5
  <2> QED
    BY <2>2, <2>3, TextIs
<1>11. /\ typed' = << >> /\ wire' = << >> /\ sock' = << >> /\ con_pushback' = None
       /\ con_line' = << >> /\ rd' = Idle /\ delivered' = << >>
  BY <1>1, <1>3, <1>4, <1>9, <1>10
<1>12. Accounted(<< >>, 0, 0, << >>, << >>)'
  BY <1>11, NothingTypedYet DEF Untyped
<1> QED
  BY <1>2, <1>12

(* The account is an inductive invariant.                                  *)
LEMMA ConStays ==
  ASSUME Steady, ConInv, [ConNext]_conVars
  PROVE  ConInv'
<1>1. PICK cs, i, j, part, owed : Accounted(cs, i, j, part, owed)
  BY DEF ConInv
<1>2. TypeInv /\ Over
  BY DEF ConInv
<1>3. CASE Type
  <2>1. TypeInv'
    BY <1>2, <1>3, TypeStays DEF ConNext
  <2> QED
    BY <1>1, <1>2, <1>3, <2>1, TypeAccounts DEF ConInv
<1>4. CASE HangUp
  <2>1. TypeInv'
    BY <1>2, <1>4, TypeStays DEF ConNext
  <2> QED
    BY <1>1, <1>2, <1>4, <2>1, HangUpAccounts DEF ConInv
<1>5. CASE Arrive
  <2>1. TypeInv'
    BY <1>2, <1>5, TypeStays DEF ConNext
  <2> QED
    BY <1>1, <1>2, <1>5, <2>1, ArriveAccounts DEF ConInv
<1>6. CASE Swallow
  <2>1. TypeInv'
    BY <1>2, <1>6, TypeStays DEF ConNext, Receive
  <2> QED
    BY <1>1, <1>2, <1>6, <2>1, SwallowAccounts DEF ConInv
<1>7. CASE ReadKey
  <2>1. TypeInv'
    BY <1>2, <1>7, TypeStays DEF ConNext, Receive
  <2> QED
    BY <1>1, <1>2, <1>7, <2>1, ReadKeyAccounts DEF ConInv
<1>8. CASE ReadPair
  <2>1. TypeInv'
    BY <1>2, <1>8, TypeStays DEF ConNext, Receive
  <2> QED
    BY <1>1, <1>2, <1>8, <2>1, ReadPairAccounts DEF ConInv
<1>9. CASE CookByte
  <2>1. TypeInv'
    BY <1>2, <1>9, TypeStays DEF ConNext, Receive
  <2> QED
    BY <1>1, <1>2, <1>9, <2>1, CookByteAccounts DEF ConInv
<1>10. CASE CookPair
  <2>1. TypeInv'
    BY <1>2, <1>10, TypeStays DEF ConNext, Receive
  <2> QED
    BY <1>1, <1>2, <1>10, <2>1, CookPairAccounts DEF ConInv
<1>11. CASE Read
  <2>1. TypeInv'
    BY <1>2, <1>11, TypeStays DEF ConNext
  <2> QED
    BY <1>1, <1>2, <1>11, <2>1, ReadAccounts DEF ConInv
<1>12. CASE Fionread
  <2>1. TypeInv'
    BY <1>2, <1>12, TypeStays DEF ConNext
  <2> QED
    BY <1>1, <1>2, <1>12, <2>1, FionreadAccounts DEF ConInv
<1>13. CASE SetMode
  <2>1. TypeInv'
    BY <1>2, <1>13, TypeStays DEF ConNext
  <2> QED
    BY <1>1, <1>2, <1>13, <2>1, ModeAccounts DEF ConInv
<1>14. CASE UNCHANGED conVars
  <2>1. /\ typed' = typed /\ wire' = wire /\ closed' = closed /\ sock' = sock
        /\ con_pushback' = con_pushback /\ con_eof' = con_eof /\ con_line' = con_line
        /\ tty' = tty /\ rd' = rd /\ promised' = promised /\ delivered' = delivered
    BY <1>14 DEF conVars
  <2>2. TypeInv'
    BY <1>2, <2>1 DEF TypeInv, ConTypeOK
  <2>3. Over'
    BY <1>2, <2>1 DEF Over
  <2>4. Accounted(cs, i, j, part, owed)'
    BY <1>1, <2>1, SameAccounts
  <2> QED
    BY <2>2, <2>3, <2>4 DEF ConInv
<1> QED
  BY <1>3, <1>4, <1>5, <1>6, <1>7, <1>8, <1>9, <1>10, <1>11, <1>12, <1>13, <1>14
  DEF ConNext, Receive

LEMMA ConAlways == ASSUME Steady PROVE ConSpec => []ConInv
<1>1. ConInit => ConInv
  BY ConStarts
<1>2. ConInv /\ [ConNext]_conVars => ConInv'
  BY ConStays
<1> QED
  BY <1>1, <1>2, PTL DEF ConSpec

(***************************************************************************)
(* What the guest has read is the beginning of what was typed              *)
(***************************************************************************)

Begins(a, s) == \E r \in Seq(Byte) : s = a \o r

LEMMA BeginsIs ==
  /\ \A a \in Seq(Byte) : Begins(a, a)
  /\ \A a, b \in Seq(Byte) : Begins(a, a \o b)
  /\ \A a, b, c \in Seq(Byte) : Begins(a, b) /\ Begins(b, c) => Begins(a, c)
  /\ \A a, b \in Seq(Byte) : Begins(a, b) => IsPrefix(a, b)
<1>1. << >> \in Seq(Byte)
  OBVIOUS
<1>2. ASSUME NEW a \in Seq(Byte) PROVE Begins(a, a)
  <2>1. a = a \o << >>
    BY <1>1, Nothing
  <2> QED
    BY <1>1, <2>1 DEF Begins
<1>3. ASSUME NEW a \in Seq(Byte), NEW b \in Seq(Byte) PROVE Begins(a, a \o b)
  BY DEF Begins
<1>4. ASSUME NEW a \in Seq(Byte), NEW b \in Seq(Byte), NEW c \in Seq(Byte),
             Begins(a, b), Begins(b, c)
      PROVE  Begins(a, c)
  <2>1. PICK r \in Seq(Byte) : b = a \o r
    BY <1>4 DEF Begins
  <2>2. PICK s \in Seq(Byte) : c = b \o s
    BY <1>4 DEF Begins
  <2>5. r \o s \in Seq(Byte)
    BY Joined
  <2>3. (a \o r) \o s = a \o (r \o s)
    BY EndToEnd, SMTT(30)
  <2>4. c = a \o (r \o s)
    BY <2>1, <2>2, <2>3
  <2> QED
    BY <2>4, <2>5 DEF Begins
<1>5. ASSUME NEW a \in Seq(Byte), NEW b \in Seq(Byte), Begins(a, b) PROVE IsPrefix(a, b)
  <2>1. PICK r \in Seq(Byte) : b = a \o r
    BY <1>5 DEF Begins
  <2>2. IsPrefix(a, a \o r)
    <3> SUFFICES ASSUME NEW S, NEW x \in Seq(S), NEW y \in Seq(S) PROVE IsPrefix(x, x \o y)
      OBVIOUS
    <3>1. Len(x) <= Len(x \o y) /\ Len(x) \in Nat /\ Len(x \o y) = Len(x) + Len(y)
      OBVIOUS
    <3>2. SubSeq(x, 1, Len(x)) = SubSeq(x \o y, 1, Len(x))
      OBVIOUS
    <3> QED
      BY <3>1, <3>2 DEF IsPrefix
  <2> QED
    BY <2>1, <2>2
<1> QED
  BY <1>2, <1>3, <1>4, <1>5

LEMMA BeginsLeft ==
  ASSUME NEW a \in Seq(Byte), NEW b \in Seq(Byte), NEW c \in Seq(Byte)
  PROVE  Begins(a, (a \o b) \o c)
<1>1. b \o c \in Seq(Byte)
  BY Joined
<1>2. (a \o b) \o c = a \o (b \o c)
  BY EndToEnd
<1> QED
  BY <1>1, <1>2 DEF Begins

(* What is read of more keys begins with what is read of fewer.            *)
LEMMA KeysOn ==
  ASSUME NEW t \in Seq(AllKeys), NEW i \in 0 .. Len(t)
  PROVE  /\ Begins(Keystrokes(SubSeq(t, 1, i)), Keystrokes(t))
         /\ Begins(Cook(SubSeq(t, 1, i)).out, Cook(t).out)
<1> DEFINE K(n) == Keystrokes(SubSeq(t, 1, n))
           C(n) == Cook(SubSeq(t, 1, n))
<1>1. ASSUME NEW n \in 0 .. Len(t)
      PROVE  K(n) \in Seq(Byte) /\ C(n) \in Cooking /\ C(n).out \in Seq(Byte) /\ C(n).line \in Seq(Byte)
  BY OneKey DEF Cooking
<1>2. ASSUME NEW n \in 0 .. Len(t), n + 1 \in 0 .. Len(t)
      PROVE  Begins(K(n), K(n + 1)) /\ Begins(C(n).out, C(n + 1).out)
  <2>1. /\ t[n + 1] \in AllKeys
        /\ K(n + 1) = K(n) \o Keystroke(t[n + 1]) /\ C(n + 1) = Edit(C(n), t[n + 1])
    BY <1>2, OneKey
  <2> DEFINE k == t[n + 1]
             x == K(n)
             c == C(n)
  <2>2. x \in Seq(Byte) /\ c \in Cooking /\ c.out \in Seq(Byte) /\ c.line \in Seq(Byte)
    BY <1>1
  <2> HIDE DEF x, c, k, K, C
  <2>3. k \in AllKeys /\ K(n + 1) = x \o Keystroke(k) /\ C(n + 1) = Edit(c, k)
    BY <2>1 DEF x, c, k
  <2>4. Begins(x, x \o Keystroke(k))
    BY <2>2, <2>3, KeystrokeType, BeginsIs
  <2>5. Begins(c.out, Edit(c, k).out)
    <3> DEFINE lf == <<"LF">>
    <3>0. lf \in Seq(Byte)
      BY BytesAre, Tuples
    <3> HIDE DEF lf
    <3>1. /\ Edit(c, k).out \in {c.out, c.out \o c.line, (c.out \o c.line) \o lf}
      BY <2>2, <2>3, EditIs DEF AllKeys, lf
    <3>2. Begins(c.out, (c.out \o c.line) \o lf)
      BY <2>2, <3>0, BeginsLeft
    <3>3. Begins(c.out, c.out) /\ Begins(c.out, c.out \o c.line)
      BY <2>2, BeginsIs
    <3> QED
      BY <3>1, <3>2, <3>3
  <2> QED
    BY <2>3, <2>4, <2>5 DEF x, c
<1> DEFINE Bad == {n \in 0 .. Len(t) : i <= n /\ ~(Begins(K(i), K(n)) /\ Begins(C(i).out, C(n).out))}
<1> HIDE DEF K, C
<1>3. Bad = {}
  <2> SUFFICES ASSUME Bad # {} PROVE FALSE
    OBVIOUS
  <2>1. Bad \in SUBSET Nat
    OBVIOUS
  <2>2. PICK n \in Bad : n - 1 \notin Bad
    BY <2>1, FirstOf
  <2>3. n \in 0 .. Len(t) /\ i <= n
    OBVIOUS
  <2>4. CASE n = i
    BY <1>1, <2>2, <2>4, BeginsIs
  <2>5. CASE n # i
    <3>1. n - 1 \in 0 .. Len(t) /\ (n - 1) + 1 = n /\ i <= n - 1
      BY <2>3, <2>5
    <3>2. Begins(K(i), K(n - 1)) /\ Begins(C(i).out, C(n - 1).out)
      BY <2>2, <3>1
    <3>3. Begins(K(n - 1), K(n)) /\ Begins(C(n - 1).out, C(n).out)
      <4>1. (n - 1) + 1 \in 0 .. Len(t)
        BY <2>3, <3>1
      <4>2. Begins(K(n - 1), K((n - 1) + 1)) /\ Begins(C(n - 1).out, C((n - 1) + 1).out)
        BY <1>2, <3>1, <4>1
      <4> QED
        BY <3>1, <4>2
    <3>4. /\ K(i) \in Seq(Byte) /\ K(n - 1) \in Seq(Byte) /\ K(n) \in Seq(Byte)
          /\ C(i).out \in Seq(Byte) /\ C(n - 1).out \in Seq(Byte) /\ C(n).out \in Seq(Byte)
      BY <1>1, <2>3, <3>1
    <3>5. Begins(K(i), K(n)) /\ Begins(C(i).out, C(n).out)
      BY <3>2, <3>3, <3>4, BeginsIs
    <3> QED
      BY <2>2, <3>5
  <2> QED
    BY <2>4, <2>5
<1>4. Len(t) \in 0 .. Len(t) /\ i <= Len(t)
  OBVIOUS
<1>5. Begins(K(i), K(Len(t))) /\ Begins(C(i).out, C(Len(t)).out)
  BY <1>3, <1>4
<1>6. SubSeq(t, 1, Len(t)) = t
  BY SubSeqFull
<1> QED
  BY <1>5, <1>6 DEF K, C

(* By the account, what was read begins what is to be read.                *)
LEMMA ReadSoFar == TypeInv /\ ConInv => IsPrefix(delivered, Intended.out \o Intended.line)
<1> SUFFICES ASSUME TypeInv, ConInv PROVE IsPrefix(delivered, Intended.out \o Intended.line)
  OBVIOUS
<1>1. PICK cs, i, j, part, owed : Accounted(cs, i, j, part, owed)
  BY DEF ConInv
<1>2. /\ delivered \in Seq(Byte) /\ rd.got \in Seq(Byte) /\ con_line \in Seq(Byte)
      /\ con_eof \in BOOLEAN
      /\ typed \in Seq(AllKeys) /\ i \in 0 .. Len(typed) /\ owed \in Seq(Byte)
  BY <1>1, ReadFields, Ranges
<1> DEFINE t == SubSeq(typed, 1, i)
<1>3. /\ t \in Seq(AllKeys) /\ Keystrokes(t) \in Seq(Byte) /\ Keystrokes(typed) \in Seq(Byte)
      /\ Cook(t) \in Cooking /\ Cook(typed) \in Cooking
  <2>1. "a" \in AllKeys
    BY DEF AllKeys
  <2> QED
    BY <1>2, <2>1, OneKey, KeystrokesAppend, CookAppend
<1>4. /\ Cook(t).out \in Seq(Byte) /\ Cook(t).line \in Seq(Byte)
      /\ Cook(typed).out \in Seq(Byte) /\ Cook(typed).line \in Seq(Byte)
  BY <1>3 DEF Cooking
<1>5. Begins(Keystrokes(t), Keystrokes(typed)) /\ Begins(Cook(t).out, Cook(typed).out)
  BY <1>2, KeysOn
<1>6. CASE tty = "raw"
  <2>1. (delivered \o rd.got) \o owed = Keystrokes(t)
    BY <1>1, <1>6, TextIs DEF RawText
  <2>2. Begins(delivered, (delivered \o rd.got) \o owed)
    BY <1>2, BeginsLeft
  <2> HIDE DEF t
  <2>3. Begins(delivered, Keystrokes(t))
    BY <2>1, <2>2
  <2>4. Begins(delivered, Keystrokes(typed))
    BY <1>2, <1>3, <1>5, <2>3, BeginsIs
  <2>5. Intended.out \o Intended.line = Keystrokes(typed) \o << >>
    BY <1>6 DEF Intended
  <2>6. Keystrokes(typed) \o << >> = Keystrokes(typed)
    BY <1>3, Nothing
  <2> QED
    BY <1>2, <1>3, <2>4, <2>5, <2>6, BeginsIs
<1>7. CASE tty = "cooked"
  <2> DEFINE c == Cook(t)
             all == i = Len(typed)
             e == Cook(typed)
  <2>1. CookedText(rd.at, rd.got, con_line, con_eof, delivered, owed, c, all)
    BY <1>1, <1>7, TextIs
  <2>2. Intended = e
    BY <1>7 DEF Intended
  <2>3. all => c = e
    <3>1. SubSeq(typed, 1, Len(typed)) = typed
      BY <1>2, SubSeqFull
    <3> QED
      BY <3>1
  <2>4. e.out \in Seq(Byte) /\ e.line \in Seq(Byte) /\ c.out \in Seq(Byte) /\ c.line \in Seq(Byte)
        /\ Begins(c.out, e.out) /\ e.out \o e.line \in Seq(Byte)
    BY <1>4, <1>5, Joined
  <2> HIDE DEF c, all, e, t
  <2>5. Begins(e.out, e.out \o e.line)
    BY <2>4, BeginsIs
  <2>6. Begins(delivered, c.out) => Begins(delivered, e.out \o e.line)
    BY <1>2, <2>4, <2>5, BeginsIs
  <2>7. CASE rd.at = "cookpair"
    <3> DEFINE lf == <<"LF">>
    <3>0. lf \in Seq(Byte)
      BY BytesAre, Tuples
    <3>1. (delivered \o rd.got) \o lf = c.out
      BY <2>1, <2>7 DEF CookedText
    <3> HIDE DEF lf
    <3>2. Begins(delivered, (delivered \o rd.got) \o lf)
      BY <1>2, <3>0, BeginsLeft
    <3>3. Begins(delivered, c.out)
      BY <3>1, <3>2
    <3> QED
      BY <1>2, <2>2, <2>4, <2>6, <3>3, BeginsIs
  <2>8. CASE rd.at # "cookpair" /\ ~con_eof
    <3>1. delivered \o con_line = c.out
      BY <2>1, <2>8 DEF CookedText
    <3>3. Begins(delivered, c.out)
      BY <1>2, <3>1, BeginsIs
    <3> QED
      BY <1>2, <2>2, <2>4, <2>6, <3>3, BeginsIs
  <2>9. CASE rd.at # "cookpair" /\ con_eof
    <3>1. delivered \o con_line = c.out \o c.line /\ all
      BY <2>1, <2>9 DEF CookedText
    <3>2. delivered \o con_line = e.out \o e.line
      BY <2>3, <3>1
    <3>3. Begins(delivered, e.out \o e.line)
      BY <1>2, <3>2, BeginsIs
    <3> QED
      BY <1>2, <2>2, <2>4, <3>3, BeginsIs
  <2> QED
    BY <1>2, <2>7, <2>8, <2>9
<1> QED
  BY <1>1, <1>6, <1>7, TextIs

(* For every set of keys, way of cutting them up and size of read, as long *)
(* as the code can tell the keys apart (Readable): what the guest has read *)
(* of a console whose mode does not change is the beginning of what was    *)
(* typed, each key once and in order, and a read never exceeds its size    *)
(* (con_in_byte, con_in_key, con_cook_line, con_sock_read).                *)
THEOREM TypedIsRead == ASSUME Readable PROVE ConSpec => []ReadsWhatWasTyped
<1>1. CASE ~Switches
  <2>1. ConSpec => []ConInv
    BY <1>1, ConAlways DEF Steady
  <2>2. ConInv => ReadsWhatWasTyped
    BY ReadSoFar DEF ConInv, TypeInv, ReadsWhatWasTyped
  <2> QED
    BY <2>1, <2>2, PTL
<1>2. CASE Switches
  <2>1. ConInit => TypeInv
    BY TypeStarts
  <2>2. TypeInv /\ [ConNext]_conVars => TypeInv'
    <3>1. TypeInv /\ UNCHANGED conVars => TypeInv'
      BY DEF TypeInv, ConTypeOK, conVars
    <3> QED
      BY <3>1, TypeStays
  <2>3. TypeInv => ReadsWhatWasTyped
    BY <1>2 DEF TypeInv, ReadsWhatWasTyped
  <2> QED
    BY <2>1, <2>2, <2>3, PTL DEF ConSpec
<1> QED
  BY <1>1, <1>2

(***************************************************************************)
(* A read that was promised input, or is in the middle of it, can go on    *)
(***************************************************************************)

(* Without negotiation the only command is the first half of a 0xff, and   *)
(* its other half is there.                                                *)
Halved ==
  /\ rd.iac \in {"data", "iac"}
  /\ rd.iac = "iac" => con_pushback = None /\ sock # << >> /\ Head(sock) = "IAC"

Engaged == promised \/ rd.at = "pair" \/ (rd.at = "key" /\ rd.got # << >>)

ReadyInv ==
  tty = "raw" /\ ~Negotiated => Halved /\ (Engaged => CanReceive)

(* ... and a 0xff typed in raw mode arrives in one piece.                  *)
Whole == Steady /\ ("raw" \in Split => "FF" \notin Keys["raw"])

(* The first byte of a key that is a command is that of a 0xff.            *)
LEMMA FirstHalf ==
  ASSUME TypeInv, Over, Whole, CanReceive, tty = "raw", ~Negotiated,
         rd.iac = "data", Received = "IAC",
         NEW cs, NEW i, NEW j, NEW part, NEW owed, Accounted(cs, i, j, part, owed)
  PROVE  sockAfter # << >> /\ Head(sockAfter) = "IAC"
<1>1. /\ Encodes(cs, typed, Keys[tty]) /\ cs \in Codings /\ Len(cs) = Len(typed)
      /\ Len(cs) \in Nat /\ typed \in Seq(AllKeys)
      /\ j \in 0 .. Len(cs) /\ i \in 0 .. j /\ i \in 0 .. Len(cs) /\ part \in Seq(Byte)
  BY Ranges
<1>2. Sent(cs, j) /\ Place(cs, i, j, part, owed)
  BY DEF Accounted
<1>3. "IAC" # EOF /\ "IAC" \in Byte
  BY DEF EOF, Byte
<1>4. Head(Ahead) = "IAC" /\ Ahead # << >> /\ sockAfter \o Behind = Tail(Ahead)
  BY <1>2, <1>3, Receiving
<1>5. Ahead = part \o Bytes(cs, i, j)
  BY <1>2 DEF Place
<1>6. part = << >>
  <2>1. CASE Fits(rd.iac, part, owed, Keys[tty])
    BY <2>1, FitsIs
  <2>2. CASE part \in Pairs
    <3>1. PICK b \in {"LF", "NUL"} : part = <<b>>
      BY <2>2 DEF Pairs
    <3>2. b \in Byte /\ b # "IAC"
      BY <3>1 DEF Byte
    <3>3. Head(part) = b /\ part # << >>
      BY <3>1, <3>2, Tuples
    <3>4. Bytes(cs, i, j) \in Seq(Byte)
      BY <1>1, BytesType
    <3>5. Head(Ahead) = b
      BY <1>1, <1>5, <3>3, <3>4, HeadTail
    <3> QED
      BY <1>4, <3>2, <3>5
  <2> QED
    BY <1>2, <2>1, <2>2 DEF Place
<1>7. Ahead = Bytes(cs, i, j) /\ Bytes(cs, i, j) \in Seq(Byte)
  <2>1. Bytes(cs, i, j) \in Seq(Byte)
    BY <1>1, BytesType
  <2>2. << >> \o Bytes(cs, i, j) = Bytes(cs, i, j)
    BY <2>1, Nothing
  <2> QED
    BY <1>5, <1>6, <2>1, <2>2
<1>8. i \in 0 .. j - 1
  <2>1. i # j
    BY <1>1, <1>4, <1>7, BytesNone
  <2> QED
    BY <1>1, <2>1
<1>9. PICK k : k = typed[i + 1]
  OBVIOUS
<1>10. PICK c : c = cs[i + 1]
  OBVIOUS
<1>11. k \in Keys[tty] /\ c \in Encodings[k] /\ k \in AllKeys /\ k \in Range(typed)
  <2>1. i + 1 \in 1 .. Len(typed)
    BY <1>1, <1>8
  <2> QED
    BY <1>1, <1>9, <1>10, <2>1 DEF Encodes, Range
<1>12. c \in Seq(Byte) /\ c # << >> /\ Ahead = c \o Bytes(cs, i + 1, j)
       /\ Bytes(cs, i + 1, j) \in Seq(Byte)
  <2>1. i + 1 \in 0 .. Len(cs)
    BY <1>1, <1>8
  <2>2. Bytes(cs, i + 1, j) \in Seq(Byte)
    BY <1>1, <2>1, BytesType
  <2>3. Bytes(cs, i, j) = cs[i + 1] \o Bytes(cs, i + 1, j)
    BY <1>1, <1>8, BytesFirst
  <2>4. c \in Seq(Byte) /\ c # << >>
    BY <1>11, StepFirst
  <2> QED
    BY <1>7, <1>10, <2>2, <2>3, <2>4
<1>13. Head(c) = "IAC" /\ Tail(Ahead) = Tail(c) \o Bytes(cs, i + 1, j)
  BY <1>4, <1>12, HeadTail
<1>14. k = "FF"
  <2>1. k # "WILL" /\ k # "SB"
    BY <1>11 DEF Negotiated
  <2>2. k \in Single => c = <<k>>
    BY <1>11, EncodingIs
  <2>3. k \in Single => Head(c) = k
    BY <2>2
  <2>4. k = "RETURN" => Head(c) = "CR"
    <3>1. "CR" \in Byte /\ "LF" \in Byte /\ "NUL" \in Byte
      BY DEF Byte
    <3>2. k = "RETURN" => c \in {<<"CR", "LF">>, <<"CR", "NUL">>}
      BY <1>11, EncodingIs
    <3> QED
      BY <3>1, <3>2, Tuples
  <2> QED
    BY <1>11, <1>13, <2>1, <2>3, <2>4 DEF AllKeys, Single
<1>15. Tail(c) = <<"IAC">> /\ "FF" \in Keys[tty]
  <2>1. c = <<"IAC", "IAC">>
    BY <1>11, <1>14, EncodingIs
  <2> QED
    BY <1>3, <1>11, <1>14, <2>1, Tuples
<1>16. tty \notin Split
  BY <1>15 DEF Whole
<1>17. sockAfter = Tail(Ahead)
  <2>1. Behind = << >>
    BY <1>16 DEF Behind
  <2>2. sockAfter \o << >> = sockAfter
    BY ReceivedType, Nothing
  <2> QED
    BY <1>4, <2>1, <2>2
<1>18. Tail(Ahead) # << >> /\ Head(Tail(Ahead)) = "IAC"
  <2>1. <<"IAC">> \in Seq(Byte) /\ <<"IAC">> # << >> /\ Head(<<"IAC">>) = "IAC"
    BY <1>3, Tuples
  <2> DEFINE x == <<"IAC">>
             y == Bytes(cs, i + 1, j)
  <2>2. Tail(Ahead) = x \o y /\ y \in Seq(Byte)
    BY <1>12, <1>13, <1>15
  <2>3. x \in Seq(Byte) /\ x # << >> /\ Head(x) = "IAC"
    BY <2>1
  <2> HIDE DEF x, y
  <2>4. x \o y # << >> /\ Head(x \o y) = "IAC"
    BY <2>2, <2>3, HeadTail
  <2> QED
    BY <2>2, <2>4
<1> QED
  BY <1>17, <1>18

(* What is available can be received.                                      *)
LEMMA AvailableIsReceived ==
  ASSUME TypeInv, Over', con_line = << >>, NEW pb, con_pushback' = pb,
         sock' = sockAfter, con_eof' = eofAfter, Available(pb, sockAfter, eofAfter) # 0
  PROVE  CanReceive'
<1>1. eofAfter \/ pb # None \/ con_line # << >> \/ sockAfter # << >>
  BY ReceivedType, AvailableIs
<1> QED
  BY <1>1 DEF Over, CanReceive

LEMMA RawReads ==
  ASSUME TypeInv, tty = "raw",
         NEW cs, NEW i, NEW j, NEW part, NEW owed, Accounted(cs, i, j, part, owed)
  PROVE  con_line = << >> /\ rd.at \in {"idle", "key", "pair"} /\ (rd.at = "idle" => rd = Idle)
BY TextIs DEF RawText

LEMMA ReadyStarts == ConInit => ReadyInv
BY DEF ConInit, ReadyInv, Halved, Engaged, Idle

(* A read that is engaged always has something to receive.                 *)
LEMMA ReadyStays ==
  ASSUME Whole, ConInv, ConInv', ReadyInv, [ConNext]_conVars
  PROVE  ReadyInv'
<1>1. PICK cs, i, j, part, owed : Accounted(cs, i, j, part, owed)
  BY DEF ConInv
<1>2. TypeInv /\ Over /\ Over' /\ TypeInv'
  BY DEF ConInv
<1> SUFFICES ASSUME (tty = "raw")', ~Negotiated'
             PROVE  Halved' /\ (Engaged' => CanReceive')
  BY DEF ReadyInv
<1>3. CASE SetMode
  <2>1. rd = Idle /\ rd' = rd /\ promised' = FALSE
    BY <1>1, <1>2, <1>3, TextIs DEF SetMode
  <2> QED
    BY <2>1 DEF Idle, Halved, Engaged
<1>4. ASSUME tty' = tty, typed' = typed
      PROVE  tty = "raw" /\ Halved /\ (Engaged => CanReceive) /\ ~Negotiated
  BY <1>4 DEF ReadyInv, Negotiated
<1>5. CASE Type
  <2>1. PICK k \in Keys[tty] : \E code \in Encodings[k] :
          typed' = Append(typed, k) /\ wire' = Append(wire, code)
    BY <1>5 DEF Type
  <2>2. ~closed /\ UNCHANGED <<closed, sock, con_pushback, con_eof, con_line, tty, rd,
                               promised, delivered>>
    BY <1>5 DEF Type
  <2>3. ~Negotiated
    <3>1. typed \in Seq(UNION Range(Keys))
      BY <1>2, ReadFields
    <3>2. \A n \in DOMAIN typed : n \in DOMAIN Append(typed, k) /\ Append(typed, k)[n] = typed[n]
      BY <3>1
    <3>3. \A x \in Range(typed) : x \in Range(typed')
      BY <2>1, <3>2 DEF Range
    <3> QED
      BY <3>3 DEF Negotiated
  <2>4. Halved /\ (Engaged => CanReceive)
    BY <2>2, <2>3 DEF ReadyInv
  <2> QED
    BY <2>2, <2>4 DEF Halved, Engaged, CanReceive
<1>6. CASE HangUp
  <2>1. Halved /\ (Engaged => CanReceive)
    BY <1>4, <1>6 DEF HangUp
  <2> QED
    BY <1>6, <2>1 DEF HangUp, Halved, Engaged, CanReceive
<1>7. CASE Arrive
  <2>1. Halved /\ tty' = tty /\ rd' = rd /\ con_pushback' = con_pushback
    BY <1>4, <1>7 DEF Arrive
  <2>2. sock' # << >>
    BY <1>1, <1>2, <1>7, ArriveAccounts
  <2>3. sock # << >> => Head(sock') = Head(sock)
    <3>1. PICK p : sock' = sock \o p /\ p \in Seq(Byte)
      <4>1. PICK n \in 1 .. Len(Head(wire)) : sock' = sock \o SubSeq(Head(wire), 1, n)
        BY <1>7 DEF Arrive
      <4> DEFINE h == Head(wire)
      <4>2. wire # << >> /\ wire \in Seq(Seq(Byte))
        BY <1>2, <1>7, ReadFields DEF Arrive
      <4>3. h \in Seq(Byte)
        BY <4>2
      <4>4. n \in 1 .. Len(h)
        OBVIOUS
      <4> HIDE DEF h
      <4>5. SubSeq(h, 1, n) \in Seq(Byte)
        BY <4>3, <4>4
      <4> QED
        BY <4>1, <4>5 DEF h
    <3>2. sock \in Seq(Byte)
      BY <1>2, ReadFields
    <3> QED
      BY <3>1, <3>2, HeadTail
  <2> QED
    BY <2>1, <2>2, <2>3 DEF Halved, CanReceive
<1>8. CASE Swallow
  <2>1. /\ CanReceive /\ None = Decode(rd.iac, Received)[1] /\ sock' = sockAfter
        /\ con_pushback' = None /\ rd' = [rd EXCEPT !.iac = Decode(rd.iac, Received)[2]]
        /\ typed' = typed /\ tty' = tty
    BY <1>8 DEF Swallow, InByte
  <2>2. tty = "raw" /\ Halved /\ ~Negotiated
    BY <1>4, <2>1
  <2>3. rd.iac = "data"
    <3>1. CASE rd.iac = "iac"
      <4>1. Received = "IAC"
        BY <2>2, <3>1 DEF Halved, Received
      <4>2. Decode("iac", "IAC") = <<"IAC", "data">>
        BY DEF Decode
      <4>3. Decode("iac", "IAC")[1] = "IAC"
        BY <4>2
      <4> QED
        BY <2>1, <3>1, <4>1, <4>3 DEF None
    <3> QED
      BY <2>2, <3>1 DEF Halved
  <2>4. Received = "IAC"
    <3>1. Received # "IAC" => Decode("data", Received) = <<Received, "data">>
      BY DEF Decode
    <3>2. Received # "IAC" => Decode("data", Received)[1] = Received
      BY <3>1
    <3>3. Received # None
      BY <1>2, ReceivedType, BytesAre
    <3> QED
      BY <2>1, <2>3, <3>2, <3>3
  <2>5. sockAfter # << >> /\ Head(sockAfter) = "IAC"
    BY <1>1, <1>2, <2>1, <2>2, <2>3, <2>4, FirstHalf
  <2>6. rd'.iac = "iac"
    <3>1. Decode("data", "IAC") = <<None, "iac">>
      BY DEF Decode
    <3>2. Decode("data", "IAC")[2] = "iac"
      BY <3>1
    <3>3. rd \in Reading
      BY <1>2, ReadFields
    <3>4. rd'.iac = Decode(rd.iac, Received)[2]
      BY <2>1, <3>3 DEF Reading
    <3> QED
      BY <2>3, <2>4, <3>2, <3>4
  <2> QED
    BY <2>1, <2>5, <2>6 DEF Halved, CanReceive
<1>9. CASE ReadKey
  <2>1. PICK b \in Byte \cup {EOF} :
       /\ InByte("key", b)
       /\ IF b = EOF THEN ReadReturns(rd.got)
          ELSE IF b = "CR" /\ PairFollows
            THEN /\ rd' = [rd EXCEPT !.at = "pair", !.iac = "data", !.got = Append(rd.got, b)]
                 /\ UNCHANGED <<delivered, promised>>
            ELSE NextKey(Append(rd.got, b), None)
    BY <1>9 DEF ReadKey
  <2>2. /\ sock' = sockAfter /\ con_eof' = eofAfter /\ tty' = tty /\ typed' = typed
        /\ con_pushback' = None
    BY <1>9, <2>1 DEF ReadKey, InByte
  <2>3. con_line = << >>
    BY <1>1, <1>2, <1>4, <2>2, RawReads
  <2>4. CASE b = EOF
    <3>1. rd' = Idle /\ promised' = FALSE
      BY <2>1, <2>4 DEF ReadReturns
    <3> QED
      BY <3>1 DEF Idle, Halved, Engaged
  <2>5. CASE b # EOF /\ b = "CR" /\ PairFollows
    <3>1. rd' = [rd EXCEPT !.at = "pair", !.iac = "data", !.got = Append(rd.got, b)]
      BY <2>1, <2>5
    <3>2. rd'.iac = "data"
      BY <1>2, <3>1, ReadFields DEF Reading
    <3>3. Available(None, sockAfter, eofAfter) # 0
      BY <2>5 DEF PairFollows
    <3>4. CanReceive'
      BY <1>2, <2>2, <2>3, <3>3, AvailableIsReceived
    <3> QED
      BY <3>2, <3>4 DEF Halved
  <2>6. CASE b # EOF /\ ~(b = "CR" /\ PairFollows)
    <3>1. NextKey(Append(rd.got, b), None) /\ Append(rd.got, b) \in Seq(Byte)
      BY <1>2, <2>1, <2>6, ReadFields, OneMore
    <3>2. /\ rd'.at \in {"idle", "key"} /\ rd'.iac = "data"
          /\ rd'.at = "key" => Available(None, sockAfter, eofAfter) # 0
          /\ rd'.at = "idle" => promised' = FALSE
      BY <1>2, <3>1, NextKeyIs
    <3>3. rd'.at = "key" => CanReceive'
      BY <1>2, <2>2, <2>3, <3>2, AvailableIsReceived
    <3> QED
      BY <3>2, <3>3 DEF Halved, Engaged
  <2> QED
    BY <2>4, <2>5, <2>6
<1>10. CASE ReadPair
  <2>1. PICK b \in Byte \cup {EOF} :
          InByte("pair", b) /\ con_pushback' = Pushed(b) /\ NextKey(rd.got, Pushed(b))
    BY <1>10 DEF ReadPair
  <2>2. sock' = sockAfter /\ con_eof' = eofAfter /\ tty' = tty /\ typed' = typed
    BY <2>1 DEF InByte
  <2>3. con_line = << >>
    BY <1>1, <1>2, <1>4, <2>2, RawReads
  <2>4. PICK pb : pb = Pushed(b)
    OBVIOUS
  <2>5. NextKey(rd.got, pb) /\ con_pushback' = pb /\ rd.got \in Seq(Byte)
    BY <1>2, <2>1, <2>4, ReadFields
  <2>6. /\ rd'.at \in {"idle", "key"} /\ rd'.iac = "data"
        /\ rd'.at = "key" => Available(pb, sockAfter, eofAfter) # 0
        /\ rd'.at = "idle" => promised' = FALSE
    BY <1>2, <2>5, NextKeyIs
  <2>7. rd'.at = "key" => CanReceive'
    BY <1>2, <2>2, <2>3, <2>5, <2>6, AvailableIsReceived
  <2> QED
    BY <2>6, <2>7 DEF Halved, Engaged
<1>11. CASE CookByte \/ CookPair
  <2>1. rd.at \in {"cook", "cookpair"} /\ tty' = tty /\ typed' = typed
    BY <1>11 DEF CookByte, CookPair, InByte
  <2>2. rd.at \in {"idle", "key", "pair"}
    BY <1>1, <1>2, <1>4, <2>1, RawReads
  <2> QED
    BY <2>1, <2>2
<1>12. CASE Read
  <2>1. /\ rd.at = "idle" /\ promised' \in {promised, FALSE} /\ tty' = tty /\ typed' = typed
        /\ sock' = sock /\ con_pushback' = con_pushback /\ closed' = closed /\ wire' = wire
    BY <1>12 DEF Read, ReadReturns
  <2>2. tty = "raw" /\ (Engaged => CanReceive)
    BY <1>4, <2>1
  <2>3. PICK max \in 1 .. MaxRead :
          rd' = [Idle EXCEPT !.at = "key", !.max = max] /\ promised' = promised
    BY <1>12, <2>2 DEF Read
  <2>4. rd'.iac = "data" /\ rd'.got = << >> /\ rd'.at = "key"
    BY <2>3 DEF Idle
  <2> QED
    BY <2>1, <2>2, <2>3, <2>4 DEF Halved, Engaged, CanReceive
<1>13. CASE Fionread
  <2>1. /\ Available(con_pushback, sock, con_eof) # 0 /\ tty' = tty /\ typed' = typed
        /\ UNCHANGED <<wire, closed, sock, con_pushback, con_eof, con_line, rd>>
    BY <1>13 DEF Fionread
  <2>2. tty = "raw" /\ Halved /\ con_line = << >>
    BY <1>1, <1>2, <1>4, <2>1, RawReads
  <2>3. sock \in Seq(Byte) /\ con_eof \in BOOLEAN
    BY <1>2, ReadFields
  <2>4. con_eof \/ con_pushback # None \/ sock # << >>
    BY <1>2, <2>1, <2>2, <2>3, AvailableIs
  <2>5. CanReceive
    BY <1>2, <2>4 DEF Over, CanReceive
  <2> QED
    BY <2>1, <2>2, <2>5 DEF Halved, CanReceive
<1>14. CASE UNCHANGED conVars
  <2>1. Halved /\ (Engaged => CanReceive)
    BY <1>4, <1>14 DEF conVars
  <2> QED
    BY <1>14, <2>1 DEF conVars, Halved, Engaged, CanReceive
<1> QED
  BY <1>3, <1>5, <1>6, <1>7, <1>8, <1>9, <1>10, <1>11, <1>12, <1>13, <1>14 DEF ConNext, Receive

(* For every set of keys the code can tell apart, in a mode that does not  *)
(* change and with each 0xff arriving whole in raw mode: a raw read that   *)
(* FIONREAD has promised input, or that has a byte already, does not block *)
(* unless a telnet command is negotiated (con_input_avail, con_read_raw).  *)
THEOREM ReadyReads == ASSUME Whole PROVE ConSpec => []ReadyMeansReady
<1>1. ConSpec => []ConInv
  BY ConAlways DEF Whole
<1>2. ConInit => ReadyInv
  BY ReadyStarts
<1>3. ConInv /\ ConInv' /\ ReadyInv /\ [ConNext]_conVars => ReadyInv'
  BY ReadyStays
<1>4. ConInv /\ ReadyInv => ReadyMeansReady
  <2> SUFFICES ASSUME ConInv, ReadyInv, Blocked, ~Negotiated
               PROVE  ~promised /\ rd.got = << >>
    BY DEF ReadyMeansReady
  <2>1. PICK cs, i, j, part, owed : Accounted(cs, i, j, part, owed)
    BY DEF ConInv
  <2>2. rd.at \in {"key", "pair"} /\ ~CanReceive
    BY DEF Blocked
  <2>3. tty = "raw"
    <3>1. tty = "raw" \/ tty = "cooked"
      BY <2>1, TextIs DEF ConInv
    <3>2. tty = "cooked" => rd.at \in {"idle", "cook", "cookpair"}
      BY <2>1, TextIs DEF ConInv, CookedText
    <3> QED
      BY <2>2, <3>1, <3>2
  <2> QED
    BY <2>2, <2>3 DEF ReadyInv, Engaged
<1> QED
  BY <1>1, <1>2, <1>3, <1>4, PTL DEF ConSpec
=============================================================================
