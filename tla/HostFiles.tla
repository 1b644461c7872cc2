----------------------------- MODULE HostFiles ------------------------------
(***************************************************************************)
(* The files of the host that processes reach through system calls the     *)
(* emulator serves itself (disk_syscall, hostfile_syscall, emu/console.c): *)
(* the disk image as a raw device, whose positions are exchanged with the  *)
(* flags of a process at every system call (fd_switch), and an archive at  *)
(* /hosttar, whose descriptors and positions all processes share.  A call  *)
(* that finds the buffer not resident does nothing and is made again.      *)
(*                                                                         *)
(* That each process has the descriptors it opened routed to the emulator  *)
(* is what FdSets shows, and is taken over from there; the path given to   *)
(* open is in memory.  A cell is a sector.  The size of the image and the  *)
(* positions stay below 2 GB, so that no offset wraps.                     *)
(***************************************************************************)
EXTENDS Integers, Sequences, FiniteSetsExt

CONSTANTS
  Procs,
  Calls,       \* the calls made: records of op, file, whence, n and x
  Fds,         \* numbers the kernel gives to descriptors
  HostFds,     \* numbers the emulator gives to /hosttar (40 .. 63)
  Archive,     \* the host file
  Padding,     \* zeros presented behind it
  Image,       \* the disk image at the start
  MaxPos       \* bound: the highest position

ASSUME HostFilesAssumption ==
  /\ HostFds \subseteq Nat /\ Fds \subseteq Nat /\ Fds \cap HostFds = {}
  /\ Archive \in Seq({0, 1}) /\ Image \in Seq({0, 1})
  /\ Padding \in Nat /\ MaxPos \in Nat

(* A system call's count and block number are not negative; /hosttar is    *)
(* read-only and has no blocks.                                            *)
ASSUME CallsAssumption ==
  \A c \in Calls :
    /\ c \in [op : {"open", "close", "lseek", "read", "write", "getblock", "putblock"},
              file : {"disk", "host"}, whence : {"set", "cur", "end"},
              n : Int, x : {0, 1}]
    /\ c.op # "lseek" => c.n \in Nat
    /\ c.op \in {"write", "getblock", "putblock"} => c.file = "disk"

None == -1
NoCall == [op |-> "none", file |-> "disk", whence |-> "set", n |-> 0, x |-> 0]

VARIABLES
  image,    \* the image
  disk_off,    \* positions by descriptor: the working copy
  doff,        \* positions saved, by process
  fdcur,       \* the process the working copy belongs to
  raw,         \* each process's descriptor of the disk, or None
  fd_host,     \* descriptors of /hosttar in use
  host_off,    \* their positions
  tar,         \* each process's descriptor of /hosttar, or None
  call, got    \* each process's call, the last call's result

hostfiles == <<image, disk_off, doff, fdcur, raw, fd_host, host_off, tar, call, got>>
diskpart == <<image, raw>>
hostpart == <<fd_host, host_off, tar>>

vsize == Len(Archive) + Padding

HostFilesTypeOK ==
  /\ image \in Seq({0, 1})
  /\ disk_off \in [Fds -> 0 .. MaxPos] /\ doff \in [Procs -> [Fds -> 0 .. MaxPos]]
  /\ fdcur \in Procs
  /\ raw \in [Procs -> Fds \cup {None}] /\ tar \in [Procs -> HostFds \cup {None}]
  /\ \A p \in Procs : tar[p] # None => tar[p] \in fd_host
  /\ fd_host \subseteq HostFds /\ host_off \in [HostFds -> 0 .. MaxPos]
  /\ call \in [Procs -> Calls \cup {NoCall}]

HostFilesInit ==
  /\ image = Image
  /\ disk_off = [fd \in Fds |-> 0] /\ doff = [p \in Procs |-> [fd \in Fds |-> 0]]
  /\ fdcur \in Procs
  /\ raw = [p \in Procs |-> None] /\ tar = [p \in Procs |-> None]
  /\ fd_host = {} /\ host_off = [fd \in HostFds |-> 0]
  /\ call = [p \in Procs |-> NoCall] /\ got = << >>

(* The positions process p finds at its system call: fd_switch saves the   *)
(* working copy to the last process and loads p's own.                     *)
OffsetsOf(p) == IF p = fdcur THEN disk_off ELSE doff[p]

Switched_mut(p, offsets) ==
  /\ fdcur' = p /\ disk_off' = offsets /\ UNCHANGED doff
Switched(p, offsets) ==
  /\ fdcur' = p /\ disk_off' = offsets
  /\ doff' = [doff EXCEPT ![fdcur] = disk_off]

(* The call is over: its result, and p's positions after it.               *)
Served(p, offsets, result) ==
  /\ Switched(p, offsets)
  /\ call' = [call EXCEPT ![p] = NoCall] /\ got' = result

DiskPos(p) == OffsetsOf(p)[raw[p]]
Within(position) == position \in 0 .. MaxPos
MovedTo(p, position) == [OffsetsOf(p) EXCEPT ![raw[p]] = position]

(* A process makes a system call.                                          *)
KCall(p, calls) ==
  /\ call[p] = NoCall
  /\ \E c \in calls : call' = [call EXCEPT ![p] = c]
  /\ got' = << >>
  /\ UNCHANGED <<diskpart, disk_off, doff, fdcur, hostpart>>

(* ubuf_fault finds a page of the buffer missing: the call is made again.  *)
BufferFault(p) ==
  /\ call[p].op \in {"read", "write", "getblock", "putblock"}
  /\ Switched(p, OffsetsOf(p))
  /\ UNCHANGED <<diskpart, hostpart, call, got>>

(***************************************************************************)
(* The raw disk                                                            *)
(***************************************************************************)

(* The kernel opens the device; the watched return clears the position.    *)
OpenDisk(p) ==
  /\ call[p].op = "open" /\ call[p].file = "disk" /\ raw[p] = None
  /\ \/ \E fd \in Fds :
          /\ raw' = [raw EXCEPT ![p] = fd]
          /\ Served(p, [OffsetsOf(p) EXCEPT ![fd] = 0], << >>)
     \/ raw' = raw /\ Served(p, OffsetsOf(p), << >>)
  /\ UNCHANGED <<image, hostpart>>

CloseDisk(p) ==
  /\ call[p].op = "close" /\ call[p].file = "disk"
  /\ raw' = [raw EXCEPT ![p] = None]
  /\ Served(p, OffsetsOf(p), << >>)
  /\ UNCHANGED <<image, hostpart>>

Uses(p, op) == call[p].op = op /\ call[p].file = "disk" /\ raw[p] # None

SeekDisk(p) ==
  /\ Uses(p, "lseek")
  /\ LET c == call[p]
         to == c.n + CASE c.whence = "set" -> 0
                       [] c.whence = "cur" -> DiskPos(p)
                       [] c.whence = "end" -> Len(image)
     IN Within(to) /\ Served(p, MovedTo(p, to), <<to>>)
  /\ UNCHANGED <<diskpart, hostpart>>

(* A short read of the image leaves the rest of the buffer zero; a write   *)
(* behind its end makes it longer.                                         *)
FromImage(o, n) ==
  [k \in 1 .. n |-> IF o + k <= Len(image) THEN image[o + k] ELSE 0]
ToImage(o, t) ==
  [k \in 1 .. Max({o + Len(t), Len(image)}) |->
     IF k \in o + 1 .. o + Len(t) THEN t[k - o]
     ELSE IF k <= Len(image) THEN image[k] ELSE 0]

ReadDisk(p) ==
  /\ Uses(p, "read") /\ Within(DiskPos(p) + call[p].n)
  /\ Served(p, MovedTo(p, DiskPos(p) + call[p].n), FromImage(DiskPos(p), call[p].n))
  /\ UNCHANGED <<diskpart, hostpart>>

WriteDisk(p) ==
  /\ Uses(p, "write") /\ Within(DiskPos(p) + call[p].n)
  /\ image' = ToImage(DiskPos(p), [k \in 1 .. call[p].n |-> call[p].x])
  /\ Served(p, MovedTo(p, DiskPos(p) + call[p].n), << >>)
  /\ UNCHANGED <<raw, hostpart>>

(* ioctl 0xc014000d: a block by its number, the position left alone.       *)
GetBlock(p) ==
  /\ Uses(p, "getblock")
  /\ Served(p, OffsetsOf(p), FromImage(call[p].n, 1))
  /\ UNCHANGED <<diskpart, hostpart>>

PutBlock(p) ==
  /\ Uses(p, "putblock")
  /\ image' = ToImage(call[p].n, <<call[p].x>>)
  /\ Served(p, OffsetsOf(p), << >>)
  /\ UNCHANGED <<raw, hostpart>>

(***************************************************************************)
(* /hosttar                                                                *)
(***************************************************************************)

(* The lowest descriptor free in all processes; with none left, the kernel *)
(* is asked for a file it does not have.                                   *)
FreeHostFds == HostFds \ fd_host

OpenHost(p) ==
  /\ call[p].op = "open" /\ call[p].file = "host" /\ tar[p] = None
  /\ \/ FreeHostFds = {} /\ UNCHANGED hostpart
     \/ \E fd \in FreeHostFds :
          /\ \A other \in FreeHostFds : fd <= other
          /\ fd_host' = fd_host \cup {fd}
          /\ host_off' = [host_off EXCEPT ![fd] = 0]
          /\ tar' = [tar EXCEPT ![p] = fd]
  /\ Served(p, OffsetsOf(p), << >>) /\ UNCHANGED diskpart

Has(p, op) == call[p].op = op /\ call[p].file = "host" /\ tar[p] # None

Wanted(off, n) ==
  IF off >= vsize THEN 0 ELSE IF off + n > vsize THEN vsize - off ELSE n

FromArchive(off, n) ==
  [k \in 1 .. n |-> IF off + k <= Len(Archive) THEN Archive[off + k] ELSE 0]

ReadHost(p) ==
  /\ Has(p, "read")
  /\ LET off == host_off[tar[p]]
         n == Wanted(off, call[p].n)
     IN /\ host_off' = [host_off EXCEPT ![tar[p]] = off + n]
        /\ Served(p, OffsetsOf(p), FromArchive(off, n))
  /\ UNCHANGED <<diskpart, fd_host, tar>>

SeekHost(p) ==
  /\ Has(p, "lseek")
  /\ LET c == call[p]
         to == c.n + CASE c.whence = "set" -> 0
                       [] c.whence = "cur" -> host_off[tar[p]]
                       [] c.whence = "end" -> vsize
     IN /\ Within(to)
        /\ host_off' = [host_off EXCEPT ![tar[p]] = to]
        /\ Served(p, OffsetsOf(p), <<to>>)
  /\ UNCHANGED <<diskpart, fd_host, tar>>

CloseHost(p) ==
  /\ Has(p, "close")
  /\ fd_host' = fd_host \ {tar[p]} /\ host_off' = [host_off EXCEPT ![tar[p]] = 0]
  /\ tar' = [tar EXCEPT ![p] = None]
  /\ Served(p, OffsetsOf(p), << >>) /\ UNCHANGED diskpart

(* A call on a descriptor the process does not have is the kernel's.       *)
KFail(p) ==
  /\ \/ call[p].op \in {"lseek", "read", "write", "getblock", "putblock"}
        /\ (IF call[p].file = "disk" THEN raw[p] ELSE tar[p]) = None
     \/ call[p].op = "open" /\ (IF call[p].file = "disk" THEN raw[p] ELSE tar[p]) # None
     \/ call[p].op = "close" /\ call[p].file = "host" /\ tar[p] = None
  /\ Served(p, OffsetsOf(p), << >>) /\ UNCHANGED <<diskpart, hostpart>>

(* A process exits, which the emulator does not see: descriptors of        *)
(* /hosttar that were not closed stay in use.  Another takes its place.    *)
KExit(p) ==
  /\ call[p] = NoCall
  /\ raw' = [raw EXCEPT ![p] = None] /\ tar' = [tar EXCEPT ![p] = None]
  /\ UNCHANGED <<image, disk_off, doff, fdcur, fd_host, host_off, call, got>>

HostFilesNext(calls) ==
  \E p \in Procs :
    \/ KCall(p, calls) \/ BufferFault(p)
    \/ OpenDisk(p) \/ CloseDisk(p) \/ SeekDisk(p) \/ ReadDisk(p) \/ WriteDisk(p)
    \/ GetBlock(p) \/ PutBlock(p)
    \/ OpenHost(p) \/ ReadHost(p) \/ SeekHost(p) \/ CloseHost(p)
    \/ KFail(p) \/ KExit(p)

(***************************************************************************)
(* What the calls amount to: files of a process's own, each call once.     *)
(***************************************************************************)
files == INSTANCE PosixFile WITH
  HostFile <- Archive \o [k \in 1 .. Padding |-> 0],
  disk <- image,
  pos <- [p \in Procs |->
            [disk |-> IF raw[p] = None THEN -1 ELSE DiskPos(p),
             host |-> IF tar[p] = None THEN -1 ELSE host_off[tar[p]]]]

(* However processes interleave, fault, close and exit, a call on the raw  *)
(* disk or on /hosttar is one call on a file of the process's own: it uses *)
(* and moves that process's position, once, and tar reads the archive to   *)
(* the end of its padding without a gap (disk_syscall and                  *)
(* hostfile_syscall, console.c:580-712; fd_save and fd_load, 874-886).     *)
Behave_As_Files == files!PSpec
=============================================================================
