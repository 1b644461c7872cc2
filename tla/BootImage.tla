----------------------------- MODULE BootImage ------------------------------
(***************************************************************************)
(* Reading the kernel out of the file system of the boot image (emu/       *)
(* ffs.c): a path is resolved name by name, then the file is read block by *)
(* block through direct, single and double indirect pointers.  The image   *)
(* is what the guest's file system made: it is given as the file's blocks, *)
(* those of them that are holes, and the pointer blocks that follow.       *)
(***************************************************************************)
EXTENDS Integers, Sequences, FiniteSets

CONSTANTS
  NDirect,   \* direct pointers of an inode (12)
  NIndir,    \* pointers of a pointer block
  BSize,     \* bytes of a block
  MaxFileBlocks, \* bound: blocks of the file
  Dirs,      \* Dirs[i]: the entries of directory i, in order: name and inode
  Files,     \* inodes of regular files
  Paths      \* the paths tried

ROOT == 2
Absent == -1

ASSUME BootImageAssumption ==
  /\ NDirect \in Nat \ {0} /\ NIndir \in Nat \ {0} /\ BSize \in Nat \ {0}
  /\ MaxFileBlocks \in 0 .. NDirect + NIndir + NIndir * NIndir
  /\ ROOT \in DOMAIN Dirs /\ DOMAIN Dirs \cap Files = {}
  /\ Absent \notin DOMAIN Dirs \cup Files

VARIABLES
  filesize, holes,  \* the file: its length, the blocks it does not have
  path, ino,        \* names left, the inode reached, Absent if none
  buf, done         \* the bytes read; all is

bootimage == <<filesize, holes, path, ino, buf, done>>

NBlocks == (filesize + BSize - 1) \div BSize

(* What the byte at offset i of the file is.                               *)
Byte(i) == IF i \div BSize \in holes THEN 0 ELSE i + 1

BootTypeOK ==
  /\ filesize \in 0 .. MaxFileBlocks * BSize /\ holes \subseteq 0 .. MaxFileBlocks - 1
  /\ ino \in DOMAIN Dirs \cup Files \cup {Absent}
  /\ Len(buf) <= filesize /\ done \in BOOLEAN

BootInit ==
  /\ filesize \in 0 .. MaxFileBlocks * BSize /\ holes \in SUBSET (0 .. NBlocks - 1)
  /\ path \in Paths /\ ino = ROOT
  /\ buf = << >> /\ done = FALSE

(***************************************************************************)
(* The image, as newfs and the kernel lay it out: block k of the file is   *)
(* at address k + 1; pointer blocks have addresses of their own, and one   *)
(* that would point at nothing is 0.                                       *)
(***************************************************************************)
KAddr(k) == IF k < NBlocks /\ k \notin holes THEN k + 1 ELSE 0
KOne == NDirect                \* the first block of the single indirect
KTwo == NDirect + NIndir       \* and of the double indirect pointer
KSingle == IF \E k \in KOne .. KTwo - 1 : KAddr(k) # 0 THEN -1 ELSE 0
KSecond(i) ==
  IF \E k \in 0 .. NIndir - 1 : KAddr(KTwo + i * NIndir + k) # 0 THEN -3 - i ELSE 0
KDouble == IF \E i \in 0 .. NIndir - 1 : KSecond(i) # 0 THEN -2 ELSE 0
KPointer(block, i) ==
  CASE block = -1 -> KAddr(KOne + i)
    [] block = -2 -> KSecond(i)
    [] OTHER -> KAddr(KTwo + (-3 - block) * NIndir + i)

(* An entry of a pointer block, and the address of block bn of the file.   *)
ind(block, i) == IF block = 0 THEN 0 ELSE KPointer(block, i)

bmap_mut(bn) ==
  IF bn < NDirect THEN KAddr(bn)
  ELSE LET n == bn - NDirect IN
    IF n < NIndir THEN ind(KSingle, n)
    ELSE ind(ind(KDouble, n \div NIndir), n % NIndir)
bmap(bn) ==
  IF bn < NDirect THEN KAddr(bn)
  ELSE LET n == bn - NDirect
           m == n - NIndir
       IN CASE n < NIndir -> ind(KSingle, n)
            [] n >= NIndir /\ m < NIndir * NIndir -> ind(ind(KDouble, m \div NIndir), m % NIndir)
            [] OTHER -> 0

(* A name is looked up in a directory, and only there.                     *)
Walk ==
  /\ path # << >> /\ ino # Absent
  /\ LET entries == IF ino \in DOMAIN Dirs THEN Dirs[ino] ELSE << >>
         found == {i \in DOMAIN entries : entries[i].ino # 0 /\ entries[i].name = Head(path)}
     IN ino' = IF found = {} THEN Absent
               ELSE entries[CHOOSE i \in found : \A j \in found : i <= j].ino
  /\ path' = Tail(path) /\ UNCHANGED <<filesize, holes, buf, done>>

(* The next block is read, or is a hole; the last may not be whole.        *)
ReadBlock ==
  /\ path = << >> /\ ino \in Files /\ Len(buf) < filesize
  /\ LET at == Len(buf)
         a == bmap(at \div BSize)
         n == IF at + BSize <= filesize THEN BSize ELSE filesize - at
     IN buf' = buf \o [i \in 1 .. n |-> IF a = 0 THEN 0 ELSE (a - 1) * BSize + i]
  /\ UNCHANGED <<filesize, holes, path, ino, done>>

Finish ==
  /\ ~done /\ done' = TRUE
  /\ \/ ino = Absent
     \/ path = << >> /\ (ino \in Files => Len(buf) = filesize)
  /\ ino' = IF ino \in Files THEN ino ELSE Absent
  /\ UNCHANGED <<filesize, holes, path, buf>>

BootNext == Walk \/ ReadBlock \/ Finish

(* The file named by the path, if there is one and it is a regular file,   *)
(* is read byte for byte, a hole as zeros, whatever mixture of direct,     *)
(* indirect and absent pointers leads to its blocks; anything else is      *)
(* refused (ffs.c:87-177).  Triple indirect blocks are not supported.      *)
KernelIsRead ==
  done => \/ ino = Absent /\ buf = << >>
          \/ ino \in Files /\ buf = [i \in 1 .. filesize |-> Byte(i - 1)]
=============================================================================
