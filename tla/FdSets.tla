------------------------------- MODULE FdSets -------------------------------
(***************************************************************************)
(* Which descriptors the emulator answers for (emu/console.c, sysmode.c).  *)
(* The kernel holds the real descriptor tables; the emulator keeps one     *)
(* working copy of flags per descriptor NUMBER (fd_console, fd_disk,       *)
(* fd_kernel), exchanges it for the current process's own at each system   *)
(* call, edits it as it sees calls go by, and learns the descriptor a call *)
(* returned by watching for the return address.                            *)
(*                                                                         *)
(* Every process runs the same program, so a watched call's address is     *)
(* known by its name.  /hosttar is not configured.                         *)
(***************************************************************************)
EXTENDS Naturals, FiniteSets

CONSTANTS
  Procs,      \* pids of the processes that may ever exist
  First,      \* the process the emulator launches
  InitPid,    \* init, which adopts orphans; it makes no system calls
  NFds,       \* bound: descriptors per process (64)
  NStd,       \* bound: descriptors a process starts with on the console (3)
  FDSETS,     \* slots in the table of sets (24)
  Devices,    \* what open() may open: a subset of {"file", "disk"}
  Assumed     \* what is taken for granted of the processes and the kernel

Fds == 0 .. NFds - 1
Std == 0 .. NStd - 1
Watched == {"open", "dup", "dup2", "pipe"}
Assumptions == {"atomic_calls",  \* no process switch inside a watched call
                "child_first",   \* a new child makes a call before anyone else
                "keeps_stdin",   \* nobody closes descriptor 0
                "open_source"}   \* dup2's source is open

ASSUME FdAssumption ==
  /\ NStd \in 1 .. NFds /\ NFds \in Nat /\ FDSETS \in Nat \ {0}
  /\ First \in Procs /\ InitPid \notin Procs
  /\ Devices \subseteq {"file", "disk"}
  /\ Assumed \subseteq Assumptions

VARIABLES
  live,       \* fd_console, fd_disk, fd_kernel: the working copy
  fdsets,     \* the sets saved, by pid
  fdcur,      \* the process the working copy belongs to
  watch,      \* fd_watch_pc, _pair, _con, _disk
  kfd,        \* the kernel's descriptor tables
  call,       \* the watched call each process is in
  st, parent  \* process states and parents

vars == <<live, fdsets, fdcur, watch, kfd, call, st, parent>>

Kinds == {"none", "tty", "file", "disk"}

(* Of fd_kernel, only descriptor 0's flag is ever asked for.               *)
Flags == [con: SUBSET Fds, dsk: SUBSET Fds, krn: BOOLEAN]
NoFlags == [con |-> {}, dsk |-> {}, krn |-> FALSE]
Call == [op: Watched, src: Fds, dst: Fds, dev: {"file", "disk"}]
NoCall == [op |-> "none"]
Watch == [op: Watched, con: BOOLEAN, disk: BOOLEAN]

TypeOK ==
  /\ live \in Flags
  /\ \E pids \in SUBSET (Procs \cup {InitPid}) :
       fdsets \in [pids -> Flags] /\ Cardinality(pids) <= FDSETS
  /\ fdcur \in Procs
  /\ fdcur \in DOMAIN fdsets \/ Cardinality(DOMAIN fdsets) = FDSETS
  /\ watch \in Watch \cup {NoCall}
  /\ kfd \in [Procs -> [Fds -> Kinds]]
  /\ call \in [Procs -> Call \cup {NoCall}]
  /\ st \in [Procs -> {"none", "new", "run", "dead"}]
  /\ parent \in [Procs -> Procs \cup {InitPid}]

(* The launched process has opened /dev/null three times: the kernel's     *)
(* descriptors 0, 1, 2 stand for the terminal.                             *)
Init ==
  /\ live = [con |-> Std, dsk |-> {}, krn |-> TRUE]
  /\ fdsets = [p \in {First} |-> [NoFlags EXCEPT !.con = Std]]
  /\ fdcur = First
  /\ watch = NoCall
  /\ kfd = [p \in Procs |-> [fd \in Fds |->
              IF p = First /\ fd \in Std THEN "tty" ELSE "none"]]
  /\ call = [p \in Procs |-> NoCall]
  /\ st = [p \in Procs |-> IF p = First THEN "run" ELSE "none"]
  /\ parent = [p \in Procs |-> InitPid]

(***************************************************************************)
(* fd_switch                                                               *)
(***************************************************************************)
With(f, x, y) == [z \in DOMAIN f \cup {x} |-> IF z = x THEN y ELSE f[z]]

(* fdslot: the process's slot, or a free one, or none.                     *)
fdslot(sets, pid) ==
  IF pid \in DOMAIN sets \/ Cardinality(DOMAIN sets) >= FDSETS
    THEN sets ELSE With(sets, pid, NoFlags)

fd_save(sets, pid, flags) ==
  LET s == fdslot(sets, pid) IN
  IF pid \in DOMAIN s THEN With(s, pid, flags) ELSE s

(* "First sight": the set says nothing of the three standard descriptors.  *)
Unseen(flags) == flags.con \cap Std = {} /\ ~flags.krn

(* The working copy and the table once p is current.                       *)
(* Mutated forms end in _mut: here the outgoing process is not saved.      *)
fd_switch_mut(p) ==
  LET slots == fdslot(fdsets, p) IN
  IF p = fdcur THEN [live |-> live, sets |-> fdsets]
  ELSE IF p \notin DOMAIN slots THEN [live |-> live, sets |-> slots]
  ELSE IF ~Unseen(slots[p]) THEN [live |-> slots[p], sets |-> slots]
  ELSE LET all == fdslot(slots, parent[p])
           seed == IF parent[p] \in DOMAIN all /\ ~Unseen(all[parent[p]])
                     THEN all[parent[p]] ELSE live
       IN  [live |-> seed, sets |-> With(all, p, seed)]

fd_switch(p) ==
  LET slots == fdslot(fd_save(fdsets, fdcur, live), p) IN
  IF p = fdcur THEN [live |-> live, sets |-> fdsets]
  ELSE IF p \notin DOMAIN slots THEN [live |-> live, sets |-> slots]
  ELSE IF ~Unseen(slots[p]) THEN [live |-> slots[p], sets |-> slots]
  ELSE LET all == fdslot(slots, parent[p])
           seed == IF parent[p] \in DOMAIN all /\ ~Unseen(all[parent[p]])
                     THEN all[parent[p]] ELSE live
       IN  [live |-> seed, sets |-> With(all, p, seed)]

(***************************************************************************)
(* System calls                                                            *)
(***************************************************************************)

(* p is in user mode and, under the assumptions, may be the one to run.    *)
MayTrap(p) ==
  /\ st[p] \in {"new", "run"}
  /\ call[p] = NoCall
  /\ "atomic_calls" \in Assumed => \A q \in Procs : call[q] = NoCall
  /\ "child_first" \in Assumed => \A q \in Procs \ {p} : st[q] # "new"

(* Every system call makes p current; flags is what it makes of the        *)
(* working copy.                                                           *)
Trap(p, flags) ==
  /\ MayTrap(p)
  /\ live' = flags
  /\ fdsets' = fd_switch(p).sets
  /\ fdcur' = p

Ran(p) == st' = [st EXCEPT ![p] = "run"]

(* read, write, ioctl, wait: no descriptor comes or goes.                  *)
Plain(p) ==
  /\ Trap(p, fd_switch(p).live)
  /\ Ran(p)
  /\ UNCHANGED <<watch, kfd, call, parent>>

Cleared_mut(flags, fd) == flags

Cleared(flags, fd) == [con |-> flags.con \ {fd}, dsk |-> flags.dsk \ {fd},
                       krn |-> flags.krn /\ fd # 0]

Close(p) ==
  \E fd \in Fds :
    /\ "keeps_stdin" \in Assumed => fd # 0
    /\ Trap(p, Cleared(fd_switch(p).live, fd))
    /\ Ran(p)
    /\ kfd' = [kfd EXCEPT ![p][fd] = "none"]
    /\ UNCHANGED <<watch, call, parent>>

Fork(p) ==
  \E c \in Procs :
    /\ st[c] = "none"
    /\ Trap(p, fd_switch(p).live)
    /\ st' = [st EXCEPT ![p] = "run", ![c] = "new"]
    /\ kfd' = [kfd EXCEPT ![c] = kfd[p]]
    /\ parent' = [parent EXCEPT ![c] = p]
    /\ UNCHANGED <<watch, call>>

(* A pid is not used again.  Its slot is not freed.                        *)
Exit(p) ==
  /\ \E q \in Procs \ {p} : st[q] \in {"new", "run"}
  /\ Trap(p, fd_switch(p).live)
  /\ st' = [st EXCEPT ![p] = "dead"]
  /\ kfd' = [kfd EXCEPT ![p] = [fd \in Fds |-> "none"]]
  /\ parent' = [q \in Procs |-> IF parent[q] = p
                                  THEN InitPid ELSE parent[q]]
  /\ UNCHANGED <<watch, call>>

(* dup2's flags move at once, before the kernel has looked at it.          *)
Moved(c, flags) ==
  LET Take(s) == IF c.src \in s THEN s \cup {c.dst} ELSE s \ {c.dst} IN
  IF c.op = "dup2"
    THEN [flags EXCEPT !.con = Take(flags.con), !.dsk = Take(flags.dsk)]
    ELSE flags

(* What is remembered of a call that will return a descriptor.             *)
Remember(c, flags) ==
  [op |-> c.op,
   con |-> c.op = "dup" /\ c.src \in flags.con,
   disk |-> \/ c.op = "open" /\ c.dev = "disk"
            \/ c.op = "dup" /\ c.src \in flags.dsk]

Enter(p) ==
  \E c \in Call :
    /\ c.op # "dup2" => c.dst = 0
    /\ c.op \notin {"dup", "dup2"} => c.src = 0
    /\ IF c.op = "open" THEN c.dev \in Devices ELSE c.dev = "file"
    /\ c.op = "dup2" /\ "open_source" \in Assumed => kfd[p][c.src] # "none"
    /\ Trap(p, Moved(c, fd_switch(p).live))
    /\ watch' = Remember(c, fd_switch(p).live)
    /\ call' = [call EXCEPT ![p] = c]
    /\ Ran(p)
    /\ UNCHANGED <<kfd, parent>>

(* The kernel refuses: control returns to the error point, which nothing   *)
(* watches.                                                                *)
Fail(p) ==
  /\ call[p] # NoCall
  /\ call[p].op = "dup2" => kfd[p][call[p].src] = "none"
  /\ call' = [call EXCEPT ![p] = NoCall]
  /\ UNCHANGED <<live, fdsets, fdcur, watch, kfd, st, parent>>

Lowest(s) == CHOOSE fd \in s : \A other \in s : fd <= other

(* What the kernel's table becomes and the descriptors r2 and r3 hold.     *)
Served(p, c) ==
  LET Free == {fd \in Fds : kfd[p][fd] = "none"}
      New == Lowest(Free)
      Second == Lowest(Free \ {New})
  IN  CASE c.op = "dup2" -> [tab |-> [kfd[p] EXCEPT ![c.dst] = kfd[p][c.src]],
                             fds |-> {c.dst}]
        [] c.op = "pipe" -> [tab |-> [kfd[p] EXCEPT ![New] = "file",
                                                    ![Second] = "file"],
                             fds |-> {New, Second}]
        [] c.op = "dup" -> [tab |-> [kfd[p] EXCEPT ![New] = kfd[p][c.src]],
                            fds |-> {New}]
        [] OTHER -> [tab |-> [kfd[p] EXCEPT ![New] = c.dev], fds |-> {New}]

Possible(p, c) ==
  LET Free == {fd \in Fds : kfd[p][fd] = "none"} IN
  /\ c.op \in {"dup", "dup2"} => kfd[p][c.src] # "none"
  /\ c.op \in {"dup", "open"} => Free # {}
  /\ c.op = "pipe" => Cardinality(Free) >= 2

(* The call succeeds and control reaches the watched address: whichever    *)
(* process's flags are live are the ones marked.                           *)
Return(p) ==
  /\ call[p] # NoCall
  /\ Possible(p, call[p])
  /\ LET r == Served(p, call[p]) IN
       /\ kfd' = [kfd EXCEPT ![p] = r.tab]
       /\ IF watch.op = call[p].op
            THEN /\ live' = [con |-> live.con \cup (IF watch.con THEN r.fds ELSE {}),
                             dsk |-> live.dsk \cup (IF watch.disk THEN r.fds ELSE {}),
                             krn |-> live.krn \/ 0 \in r.fds]
                 /\ watch' = NoCall
            ELSE UNCHANGED <<live, watch>>
  /\ call' = [call EXCEPT ![p] = NoCall]
  /\ UNCHANGED <<fdsets, fdcur, st, parent>>

Step(p) == \/ Plain(p) \/ Close(p) \/ Fork(p) \/ Exit(p)
           \/ Enter(p) \/ Fail(p) \/ Return(p)

Next == \E p \in Procs : Step(p)

Spec == Init /\ [][Next]_vars

(***************************************************************************)
(* Properties                                                              *)
(***************************************************************************)
Open(p, kind) == {fd \in Fds : kfd[p][fd] = kind}

(* "Which fds still reach the host" (globals.c:234): the emulator answers  *)
(* for exactly the descriptors of the current process that the kernel has  *)
(* open on the terminal or the raw disk; no more sets are kept than there  *)
(* are slots (TypeOK).                                                     *)
Routed ==
  /\ TypeOK
  /\ st[fdcur] = "run" /\ call[fdcur] = NoCall =>
       live.con = Open(fdcur, "tty") /\ live.dsk = Open(fdcur, "disk")

(* "They must be per-process: /bin/echo closes 0, 1 and 2 on exit, and one *)
(* global set would wipe the parent shell's console" (console.c:847): what *)
(* one process does leaves every other process's flags as they were.       *)
Owned(q) == fdcur = q \/ q \in DOMAIN fdsets
FlagsOf(q) == IF fdcur = q THEN live ELSE fdsets[q]

Acts(q) == fdcur' = q /\ \A p \in Procs \ {q} : call'[p] = call[p]

Isolated ==
  [][\A q \in Procs : Owned(q) /\ st[q] = "run" /\ ~Acts(q) =>
       Owned(q)' /\ FlagsOf(q)' = FlagsOf(q)]_vars
=============================================================================
