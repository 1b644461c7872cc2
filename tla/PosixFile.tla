----------------------------- MODULE PosixFile ------------------------------
(***************************************************************************)
(* What a process may expect of the raw disk and of /hosttar: files that   *)
(* each process reads, writes and positions on its own, every call taking  *)
(* effect once.  The raw disk reads as zeros behind its end and grows when *)
(* written there; /hosttar is read-only and ends.  Unlike a Unix file, a   *)
(* position is never shared: the model has no dup and no fork.             *)
(***************************************************************************)
EXTENDS Integers, Sequences, SequencesExt

CONSTANTS
  Procs,
  Calls,     \* the calls made: records of op, file, whence, n and x
  HostFile   \* the contents of /hosttar

VARIABLES
  disk,      \* the contents of the raw disk
  pos,       \* pos[p][f]: the position, or Closed
  call,      \* the call each process has issued
  got        \* the last call's result

pvars == <<disk, pos, call, got>>

Closed == -1
NoCall == [op |-> "none", file |-> "disk", whence |-> "set", n |-> 0, x |-> 0]

PInit ==
  /\ disk \in Seq({0, 1})
  /\ pos = [p \in Procs |-> [f \in {"disk", "host"} |-> Closed]]
  /\ call = [p \in Procs |-> NoCall] /\ got = << >>

(* The cells of s from position o on, with zeros behind its end.           *)
Cells(s, o, n) == [k \in 1 .. n |-> IF o + k <= Len(s) THEN s[o + k] ELSE 0]
Overwritten(s, o, t) ==
  [k \in 1 .. (IF o + Len(t) > Len(s) THEN o + Len(t) ELSE Len(s)) |->
     IF k \in o + 1 .. o + Len(t) THEN t[k - o] ELSE IF k <= Len(s) THEN s[k] ELSE 0]

Issue(p) ==
  /\ call[p] = NoCall
  /\ \E c \in Calls : call' = [call EXCEPT ![p] = c]
  /\ got' = << >> /\ UNCHANGED <<disk, pos>>

Answered(p, f, position, result) ==
  /\ pos' = [pos EXCEPT ![p][f] = position]
  /\ got' = result
  /\ call' = [call EXCEPT ![p] = NoCall]

Open(p) ==
  LET c == call[p] IN
  /\ c.op = "open" /\ pos[p][c.file] = Closed
  /\ \E position \in {0, Closed} : Answered(p, c.file, position, << >>)
  /\ UNCHANGED disk

Close(p) ==
  LET c == call[p] IN
  /\ c.op = "close" /\ Answered(p, c.file, Closed, << >>) /\ UNCHANGED disk

Seek(p) ==
  LET c == call[p]
      base == CASE c.whence = "set" -> 0
                [] c.whence = "cur" -> pos[p][c.file]
                [] c.whence = "end" -> IF c.file = "disk" THEN Len(disk) ELSE Len(HostFile)
  IN /\ c.op = "lseek" /\ pos[p][c.file] # Closed
     /\ Answered(p, c.file, base + c.n, <<base + c.n>>)
     /\ UNCHANGED disk

ReadDisk(p) ==
  LET c == call[p] IN
  /\ c.op = "read" /\ c.file = "disk" /\ pos[p].disk # Closed
  /\ Answered(p, "disk", pos[p].disk + c.n, Cells(disk, pos[p].disk, c.n))
  /\ UNCHANGED disk

ReadHost(p) ==
  LET c == call[p]
      o == pos[p].host
      n == IF o + c.n <= Len(HostFile) THEN c.n ELSE IF o < Len(HostFile) THEN Len(HostFile) - o ELSE 0
  IN /\ c.op = "read" /\ c.file = "host" /\ o # Closed
     /\ Answered(p, "host", o + n, SubSeq(HostFile, o + 1, o + n))
     /\ UNCHANGED disk

WriteDisk(p) ==
  LET c == call[p] IN
  /\ c.op = "write" /\ pos[p].disk # Closed
  /\ disk' = Overwritten(disk, pos[p].disk, [k \in 1 .. c.n |-> c.x])
  /\ Answered(p, "disk", pos[p].disk + c.n, << >>)

(* The ioctl that transfers one block without a position.                  *)
Transfer(p) ==
  LET c == call[p] IN
  /\ pos[p].disk # Closed
  /\ \/ /\ c.op = "getblock"
        /\ Answered(p, "disk", pos[p].disk, Cells(disk, c.n, 1)) /\ UNCHANGED disk
     \/ /\ c.op = "putblock"
        /\ disk' = Overwritten(disk, c.n, <<c.x>>)
        /\ Answered(p, "disk", pos[p].disk, << >>)

(* A call on a file the process does not have open, or cannot write, fails.*)
Fail(p) ==
  /\ call[p] # NoCall
  /\ \/ call[p].op \notin {"open", "close"} /\ pos[p][call[p].file] = Closed
     \/ call[p].op = "open" /\ pos[p][call[p].file] # Closed
  /\ call' = [call EXCEPT ![p] = NoCall] /\ got' = << >> /\ UNCHANGED <<disk, pos>>

(* A process ends, and another takes its place.                            *)
Exit(p) ==
  /\ call[p] = NoCall
  /\ pos' = [pos EXCEPT ![p] = [f \in {"disk", "host"} |-> Closed]]
  /\ UNCHANGED <<disk, call, got>>

PNext ==
  \E p \in Procs :
    \/ Issue(p) \/ Open(p) \/ Close(p) \/ Seek(p) \/ ReadDisk(p) \/ ReadHost(p)
    \/ WriteDisk(p) \/ Transfer(p) \/ Fail(p) \/ Exit(p)

PSpec == PInit /\ [][PNext]_pvars
=============================================================================
