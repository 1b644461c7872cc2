------------------------------ MODULE BlockIO ------------------------------
(***************************************************************************)
(* Block I/O without interrupts (emu/cpu.c, console.c, sysmode.c): the     *)
(* kernel's buffer cache, and the three places where step() stands in for  *)
(* the disk controller: it carries a transfer out at the driver's front    *)
(* door, where biowait would sleep for it, or where getblk would sleep for *)
(* a busy buffer.  Raw disk system calls go to the image past the cache.   *)
(* The run loop ends the session when the processes are gone, and decides  *)
(* whether to warn that blocks were left behind in the cache.              *)
(*                                                                         *)
(* A transfer is one block; past the end of an image there are zeros.  The *)
(* kernel is not part of the repository: its actions do what the comments  *)
(* at the intercepts say of getblk, biowait, biodone and sync.             *)
(***************************************************************************)
EXTENDS Naturals, FiniteSets

CONSTANTS
  Procs,      \* processes
  Bufs,       \* buffers in the cache
  RootBlocks, SdBlocks,   \* blocks of the two devices
  Door,       \* devices whose driver is the one intercepted at its strategy
  Val,        \* what a block may hold
  Assumed     \* what is taken for granted of the guest

Devs == {"root", "sd"}
Files == {"root_img", "disk_img"}
Blocks == ({"root"} \X RootBlocks) \cup ({"sd"} \X SdBlocks)
NoDev == "none"
NoBlk == <<NoDev, 0>>

Assumptions ==
  {"root_first",      \* the root device is the first to be used
   "root_kept",       \* nobody writes to the root file system
   "held_alone",      \* no process wants a buffer another is working on
   "raw_unmounted",   \* raw access only while the disk is not mounted
   "sync_last"}       \* sync and umount come last: nothing is written after

ASSUME BlockAssumption ==
  /\ RootBlocks # {} /\ SdBlocks # {} /\ Bufs # {} /\ Val # {}
  /\ Procs \cap {"io", "nobody"} = {}
  /\ Door \subseteq Devs
  /\ Assumed \subseteq Assumptions

VARIABLES
  img,          \* the image files
  buf,          \* buffer headers and their data
  root_dev_vp,  \* the device taken for the root
  disk_wrote, fs_synced,
  op,           \* what each process is doing
  reg,          \* the last value a process read
  ended         \* how the session ended

vars == <<img, buf, root_dev_vp, disk_wrote, fs_synced, op, reg, ended>>

(* A buffer is held by a process, by an I/O in progress, or by nobody.     *)
Flag == {"READ", "ASYNC", "DONE", "DELWRI"}
Holder == Procs \cup {"io", "nobody"}
Buf == [blk: Blocks \cup {NoBlk}, data: Val, flags: SUBSET Flag, holder: Holder]
Waiting == {"biowait", "bwrite"}
Holding == Waiting \cup {"bread", "hold", "dirty", "release"}
Op == [at: Holding \cup {"idle", "getblk", "raw", "sync", "umount", "dead"},
       blk: Blocks \cup {NoBlk}]

Idle == [at |-> "idle", blk |-> NoBlk]
Incore(k) == {b \in Bufs : buf[b].blk = k}

TypeOK ==
  /\ img \in [Files -> [RootBlocks \cup SdBlocks -> Val]]
  /\ buf \in [Bufs -> Buf]
  /\ root_dev_vp \in Devs \cup {NoDev}
  /\ disk_wrote \in BOOLEAN /\ fs_synced \in BOOLEAN
  /\ op \in [Procs -> Op]
  /\ reg \in Val
  /\ ended \in {"no", "quiet", "warned"}
  /\ \A b, c \in Bufs : buf[b].blk = buf[c].blk /\ buf[b].blk # NoBlk => b = c
  /\ \A p \in Procs :
       {b \in Bufs : buf[b].holder = p} =
         IF op[p].at \in Holding THEN Incore(op[p].blk) ELSE {}

Init ==
  /\ \E x \in Val :
       /\ img = [f \in Files |-> [j \in RootBlocks \cup SdBlocks |-> x]]
       /\ buf = [c \in Bufs |-> [blk |-> NoBlk, data |-> x, flags |-> {},
                                 holder |-> "nobody"]]
       /\ reg = x
  /\ op = [p \in Procs |-> Idle]
  /\ root_dev_vp = NoDev
  /\ disk_wrote = FALSE /\ fs_synced = FALSE
  /\ ended = "no"

(***************************************************************************)
(* The transfer                                                            *)
(***************************************************************************)
Dev(r) == r.blk[1]

(* The first device seen is the root.                                      *)
FileOf(r) == IF root_dev_vp \in {NoDev, Dev(r)} THEN "root_img" ELSE "disk_img"

Writes(r) == "READ" \notin r.flags /\ FileOf(r) = "disk_img"

(* A read fills the buffer; a write reaches the disk, never the root.      *)
Transfer(r) ==
  /\ root_dev_vp' = IF root_dev_vp = NoDev THEN Dev(r) ELSE root_dev_vp
  /\ img' = IF Writes(r) THEN [img EXCEPT !["disk_img"][r.blk[2]] = r.data] ELSE img
  /\ disk_wrote' = (disk_wrote \/ Writes(r))

(* Mutated forms end in _mut: here every device is read from the root's    *)
(* image.                                                                  *)
Transferred_mut(r) ==
  IF "READ" \in r.flags THEN [r EXCEPT !.data = img["root_img"][r.blk[2]]] ELSE r

Transferred(r) ==
  IF "READ" \in r.flags THEN [r EXCEPT !.data = img[FileOf(r)][r.blk[2]]] ELSE r

(* Here an asynchronous transfer is marked done as biowait would mark it,  *)
(* and nobody releases the buffer.                                         *)
biodone_mut(r) == [r EXCEPT !.flags = @ \cup {"DONE"}]

(* Every buffer is released, also the one that its process still holds.    *)
(* The kernel's biodone, which also releases an asynchronous buffer.       *)
biodone(r) ==
  IF "ASYNC" \in r.flags
    THEN [r EXCEPT !.flags = (@ \cup {"DONE"}) \ {"ASYNC"}, !.holder = "nobody"]
    ELSE [r EXCEPT !.flags = @ \cup {"DONE"}]

(* The intercept at the strategy routine and at getblk's sleep: transfer,  *)
(* then biodone.                                                           *)
Complete(b, r) ==
  /\ Transfer(r)
  /\ buf' = [buf EXCEPT ![b] = biodone(Transferred(r))]

(* The intercept at biowait's sleep: transfer, and mark the buffer done.   *)
CompleteWait(b) ==
  LET r == [Transferred(buf[b]) EXCEPT !.flags = @ \cup {"DONE"}]
  IN  Transfer(buf[b]) /\ buf' = [buf EXCEPT ![b] = r]

(* A driver that is not intercepted queues the request; nothing happens.   *)
Strategy(b, r) ==
  IF Dev(r) \in Door
    THEN Complete(b, r)
    ELSE buf' = [buf EXCEPT ![b] = r] /\ UNCHANGED <<img, root_dev_vp, disk_wrote>>

(***************************************************************************)
(* File operations                                                         *)
(***************************************************************************)
Mine(p) == CHOOSE b \in Bufs : buf[b].holder = p
Goes(p, at) == op' = [op EXCEPT ![p].at = at]
Rests(p) == op' = [op EXCEPT ![p] = Idle]
disk == <<img, root_dev_vp, disk_wrote>>

(* A process wants a block.                                                *)
Ask(p) ==
  /\ op[p].at = "idle"
  /\ \E k \in Blocks :
       /\ "root_first" \in Assumed /\ root_dev_vp = NoDev => k[1] = "root"
       /\ "raw_unmounted" \in Assumed /\ k[1] = "sd" => \A q \in Procs : op[q].at # "raw"
       /\ op' = [op EXCEPT ![p] = [at |-> "getblk", blk |-> k]]
  /\ UNCHANGED <<disk, buf, fs_synced, reg, ended>>

Spare == {b \in Bufs : buf[b].holder = "nobody"}

Take(p) ==
  /\ op[p].at = "getblk"
  /\ \E b \in Incore(op[p].blk) \cap Spare :
       /\ buf' = [buf EXCEPT ![b].holder = p]
  /\ Goes(p, "bread")
  /\ UNCHANGED <<disk, fs_synced, reg, ended>>

(* getblk sleeps on a busy buffer: step() takes it for one whose I/O is    *)
(* not complete, and getblk looks again.                                   *)
GetblkSleep(p) ==
  /\ op[p].at = "getblk"
  /\ \E b \in Incore(op[p].blk) \ Spare :
       /\ "held_alone" \in Assumed => buf[b].holder = "io"
       /\ Complete(b, buf[b])
  /\ UNCHANGED <<fs_synced, op, reg, ended>>

(* A buffer is taken for another block; a delayed write goes out first.    *)
Reuse(p) ==
  /\ op[p].at = "getblk"
  /\ Incore(op[p].blk) = {}
  /\ \E b \in Spare :
       /\ "DELWRI" \notin buf[b].flags
       /\ buf' = [buf EXCEPT ![b] = [@ EXCEPT !.blk = op[p].blk, !.flags = {},
                                              !.holder = p]]
  /\ Goes(p, "bread")
  /\ UNCHANGED <<disk, fs_synced, reg, ended>>

Outgoing(r, async, holder) ==
  [r EXCEPT !.flags = async, !.holder = holder]

(* bawrite, of a buffer nobody holds                                       *)
WriteOut(b) == /\ b \in Spare /\ "DELWRI" \in buf[b].flags
               /\ Strategy(b, Outgoing(buf[b], {"ASYNC"}, "io"))

Evict(p) ==
  /\ op[p].at = "getblk"
  /\ Incore(op[p].blk) = {}
  /\ \E b \in Bufs : WriteOut(b)
  /\ UNCHANGED <<fs_synced, op, reg, ended>>

Bread(p) ==
  LET b == Mine(p) IN
  /\ op[p].at = "bread"
  /\ IF "DONE" \in buf[b].flags
       THEN Goes(p, "hold") /\ UNCHANGED <<disk, buf>>
       ELSE Goes(p, "biowait") /\ Strategy(b, [buf[b] EXCEPT !.flags = {"READ"}])
  /\ UNCHANGED <<fs_synced, reg, ended>>

Biowait(p) ==
  LET b == Mine(p) IN
  /\ op[p].at \in Waiting
  /\ IF "DONE" \in buf[b].flags THEN UNCHANGED <<disk, buf>> ELSE CompleteWait(b)
  /\ Goes(p, IF op[p].at = "bwrite" THEN "release" ELSE "hold")
  /\ UNCHANGED <<fs_synced, reg, ended>>

(* breada: the next block is read without waiting for it.                  *)
ReadAhead(p) ==
  /\ op[p].at = "hold"
  /\ \E k \in Blocks, b \in Spare :
       /\ k[1] = op[p].blk[1] /\ Incore(k) = {}
       /\ "DELWRI" \notin buf[b].flags
       /\ Strategy(b, [buf[b] EXCEPT !.blk = k, !.flags = {"READ", "ASYNC"},
                                     !.holder = "io"])
  /\ UNCHANGED <<fs_synced, op, reg, ended>>

Look(p) ==
  /\ op[p].at = "hold"
  /\ reg' = buf[Mine(p)].data
  /\ UNCHANGED <<disk, buf, fs_synced, op, ended>>

Modify(p) ==
  /\ op[p].at \in {"hold", "dirty"}
  /\ "root_kept" \in Assumed => op[p].blk[1] # "root"
  /\ "sync_last" \in Assumed => ~fs_synced
  /\ \E x \in Val : buf' = [buf EXCEPT ![Mine(p)].data = x]
  /\ Goes(p, "dirty")
  /\ UNCHANGED <<disk, fs_synced, reg, ended>>

(* brelse, bdwrite, bwrite and bawrite                                     *)
Release(p) ==
  /\ op[p].at \in {"hold", "release"}
  /\ buf' = [buf EXCEPT ![Mine(p)].holder = "nobody"]
  /\ Rests(p)
  /\ UNCHANGED <<disk, fs_synced, reg, ended>>

DelayedWrite(p) ==
  /\ op[p].at = "dirty"
  /\ buf' = [buf EXCEPT ![Mine(p)].flags = @ \cup {"DELWRI", "DONE"},
                         ![Mine(p)].holder = "nobody"]
  /\ Rests(p)
  /\ UNCHANGED <<disk, fs_synced, reg, ended>>

Bwrite(p) ==
  LET b == Mine(p) IN
  /\ op[p].at = "dirty"
  /\ \/ Goes(p, "bwrite") /\ Strategy(b, Outgoing(buf[b], {}, p))
     \/ Rests(p) /\ Strategy(b, Outgoing(buf[b], {"ASYNC"}, "io"))
  /\ UNCHANGED <<fs_synced, reg, ended>>

(***************************************************************************)
(* System calls the emulator takes an interest in                          *)
(***************************************************************************)
OthersGone(p) == \A q \in Procs \ {p} : op[q].at = "dead"

(* sync or umount: what run_sys remembers is that it was called.           *)
Flush(p) ==
  /\ op[p].at = "idle"
  /\ "sync_last" \in Assumed => OthersGone(p)
  /\ fs_synced' = TRUE
  /\ \E call \in {"sync", "umount"} : Goes(p, call)
  /\ UNCHANGED <<disk, buf, reg, ended>>

FlushOne(p) ==
  /\ op[p].at \in {"sync", "umount"}
  /\ \E b \in Bufs : WriteOut(b)
  /\ UNCHANGED <<fs_synced, op, reg, ended>>

Dirty(b) == b \in Spare /\ "DELWRI" \in buf[b].flags
OnDisk(b) == buf[b].blk[1] = "sd"

SyncEnds(p) ==
  /\ op[p].at = "sync"
  /\ \A b \in Bufs : ~Dirty(b)
  /\ Rests(p)
  /\ UNCHANGED <<disk, buf, fs_synced, reg, ended>>

(* umount succeeds if nobody uses the disk, and forgets its blocks.        *)
UmountEnds(p) ==
  /\ op[p].at = "umount"
  /\ \A b \in Bufs : ~Dirty(b)
  /\ Rests(p)
  /\ buf' = IF \E q \in Procs : op[q].blk[1] = "sd" THEN buf
            ELSE [b \in Bufs |-> IF OnDisk(b) THEN [buf[b] EXCEPT !.blk = NoBlk,
                                                                  !.flags = {}]
                                 ELSE buf[b]]
  /\ UNCHANGED <<disk, fs_synced, reg, ended>>

(* disk_syscall: newfs or fsck opens the raw device, and its reads and     *)
(* writes go to the image.                                                 *)
InUse == (\E b \in Bufs : OnDisk(b)) \/ \E q \in Procs : op[q].blk[1] = "sd"

RawOpen(p) ==
  /\ op[p].at = "idle"
  /\ "raw_unmounted" \in Assumed => ~InUse
  /\ "sync_last" \in Assumed => ~fs_synced
  /\ Goes(p, "raw")
  /\ UNCHANGED <<disk, buf, fs_synced, reg, ended>>

RawRead(p) ==
  /\ op[p].at = "raw"
  /\ \E k \in SdBlocks : reg' = img["disk_img"][k]
  /\ UNCHANGED <<disk, buf, fs_synced, op, ended>>

RawWrite(p) ==
  /\ op[p].at = "raw"
  /\ \E k \in SdBlocks, x \in Val : img' = [img EXCEPT !["disk_img"][k] = x]
  /\ UNCHANGED <<buf, root_dev_vp, disk_wrote, fs_synced, op, reg, ended>>

RawClose(p) ==
  /\ op[p].at = "raw"
  /\ Rests(p)
  /\ UNCHANGED <<disk, buf, fs_synced, reg, ended>>

Exit(p) ==
  /\ op[p].at = "idle"
  /\ Goes(p, "dead")
  /\ UNCHANGED <<disk, buf, fs_synced, reg, ended>>

(***************************************************************************)
(* The idle intercept of run_sys, once no process is left                  *)
(***************************************************************************)
Warns_mut == disk_wrote /\ fs_synced
Warns == disk_wrote /\ ~fs_synced

End ==
  /\ ended = "no"
  /\ \A p \in Procs : op[p].at = "dead"
  /\ ended' = IF Warns THEN "warned" ELSE "quiet"
  /\ UNCHANGED <<disk, buf, fs_synced, op, reg>>

Gets(p) == Take(p) \/ Reuse(p)
Awaits(p) == GetblkSleep(p) \/ Bread(p) \/ Biowait(p)
Uses(p) == ReadAhead(p) \/ Look(p) \/ Modify(p)
LetsGo(p) == Release(p) \/ DelayedWrite(p) \/ Bwrite(p)
Raw(p) == RawOpen(p) \/ RawRead(p) \/ RawWrite(p) \/ RawClose(p)
Flushes(p) == FlushOne(p) \/ SyncEnds(p) \/ UmountEnds(p)

Step(p) == \/ Ask(p) \/ Gets(p) \/ Evict(p) \/ Awaits(p) \/ Uses(p) \/ LetsGo(p)
           \/ Flush(p) \/ Flushes(p) \/ Raw(p) \/ Exit(p)

Next == End \/ \E p \in Procs : Step(p)

Spec == Init /\ [][Next]_vars

(* A process that can go on does, none holds a buffer for ever, and one    *)
(* that wants a buffer which is free again and again gets it in the end.   *)
FairSpec ==
  /\ Spec
  /\ \A p \in Procs : /\ SF_vars(Gets(p)) /\ SF_vars(Evict(p))
                       /\ WF_vars(Awaits(p)) /\ WF_vars(LetsGo(p))

(***************************************************************************)
(* Properties                                                              *)
(***************************************************************************)
Contents ==
  [k \in Blocks |->
     IF \E b \in Incore(k) : "DONE" \in buf[b].flags
       THEN buf[CHOOSE b \in Incore(k) : TRUE].data
       ELSE img[IF k[1] = "root" THEN "root_img" ELSE "disk_img"][k[2]]]

(* The blocks a process works on: a buffer it holds, or the raw disk.      *)
Using ==
  [p \in Procs |-> CASE op[p].at \in {"hold", "dirty"} -> {op[p].blk}
                     [] op[p].at = "raw" -> {"sd"} \X SdBlocks
                     [] OTHER -> {}]

Disk == INSTANCE SharedDisk WITH contents <- Contents, using <- Using

(* A read returns what was last written to the block, wherever the block   *)
(* is, and however its transfers were completed (cpu.c:1114-1228).         *)
Faithful == Disk!SSpec

(* No process sleeps for ever on a transfer for which no interrupt comes   *)
(* (cpu.c:1105-1112, 1164-1171).                                           *)
InputOutputEnds ==
  \A p \in Procs : op[p].at \in {"getblk", "bread"} \cup Waiting ~> op[p].at \in {"hold", "idle"}

Unsaved(b) ==
  /\ OnDisk(b)
  /\ Dirty(b) \/ "READ" \notin buf[b].flags
  /\ buf[b].data # img["disk_img"][buf[b].blk[2]]

(* A session that wrote a part of its changes to the image and ends        *)
(* without the warning has left none behind in the cache                   *)
(* (sysmode.c:212-233), in which no block is twice and no buffer has two   *)
(* holders (TypeOK).                                                       *)
QuietEndIsClean ==
  TypeOK /\ (ended = "quiet" /\ disk_wrote => \A b \in Bufs : ~Unsaved(b))
=============================================================================
