------------------------------ MODULE Adaptor -------------------------------
(***************************************************************************)
(* The SCSI adaptor (emu/devices.c) and the places where step() (emu/      *)
(* cpu.c) stands in for its completion interrupt.  The kernel's driver     *)
(* issues one request at a time and waits for it in one of four ways; no   *)
(* wait is ever a real one: on reaching it the emulator executes the       *)
(* command, leaves in memory what the interrupt routine would have left,   *)
(* drops the lock the sleep would have dropped, and goes on behind the     *)
(* wait.  The driver is not part of the repository; the K... actions are   *)
(* what the comments of these intercepts say of it.                        *)
(*                                                                         *)
(* Memory and disk are kept in blocks; commands other than transfers move  *)
(* no data the driver's progress depends on.                               *)
(***************************************************************************)
EXTENDS Integers, Sequences, SequencesExt

CONSTANTS
  NSlots,    \* entries of the command queue in dual-port memory
  NWindows,  \* VME windows on the free list (2)
  MaxXfer,   \* blocks in the emulator's transfer buffer (64 KB)
  MaxLba,    \* bound: last block a request names
  MaxBlocks, \* bound: blocks of a request
  MaxWrites, \* bound: writes, each of new data
  Size,      \* blocks of the disk image at the start
  Assumed    \* what is taken for granted of the driver

Assumptions == {"fits_buffer",  \* no request is longer than MaxXfer
                "few_windows"}  \* no request maps more than NWindows windows

ASSUME AdaptorAssumption ==
  /\ NSlots \in Nat \ {0} /\ NWindows \in Nat \ {0} /\ MaxXfer \in Nat \ {0}
  /\ MaxLba \in Nat /\ MaxBlocks \in Nat \ {0} /\ MaxWrites \in Nat
  /\ Size \in Nat
  /\ Assumed \subseteq Assumptions

VARIABLES
  sha_status,  \* 0, 1 busy, 2 ready
  disk_img,    \* the blocks of the image; 0 is a block of zeros
  buffer,      \* the blocks at the DMA address
  slot,        \* slots with bit 0 set
  next,        \* the slot the driver uses next
  head,        \* of the window free list: NWindows is the sentinel 0x1ff
  windows,     \* mapped for the current request, in order
  lock,        \* the driver's lock is held
  register,    \* a device register, which must never be written 0
  block,       \* the command block's completion state
  req,         \* the request
  pc,          \* where the driver is
  writes       \* issued so far

machine == <<sha_status, slot, next, head, windows, lock, register>>
data == <<disk_img, buffer>>
adaptor == <<machine, data, block, req, pc, writes>>

(* The four waits: tsleep in the adaptor's own code, the switch in         *)
(* _sdcommand_nowait, the poll loop, and tsleep in _copy_out_buffer.       *)
Waits == {"sleep", "switch", "poll", "segments"}
Ops == {"read", "write", "other"}
Target == 0

Requests ==
  [wait : Waits, op : Ops, target : {Target, 1}, lba : 0 .. MaxLba,
   n : 1 .. MaxBlocks, r4 : {"none", "lock", "register"}, dma : BOOLEAN]

Pending == [outstanding |-> TRUE, done |-> FALSE, copying |-> TRUE]
NoReq == [wait |-> "sleep", op |-> "other", target |-> 1, lba |-> 0, n |-> 1,
          r4 |-> "none", dma |-> FALSE]

AdaptorTypeOK ==
  /\ sha_status \in 0 .. 2
  /\ disk_img \in Seq(0 .. MaxWrites) /\ buffer \in Seq(0 .. MaxWrites)
  /\ slot \subseteq 0 .. NSlots - 1 /\ next \in 0 .. NSlots - 1
  /\ head \in 0 .. NWindows /\ windows \in Seq(0 .. NWindows - 1)
  /\ lock \in BOOLEAN /\ register \in {0, 1}
  /\ block \in [outstanding : BOOLEAN, done : BOOLEAN, copying : BOOLEAN]
  /\ req \in Requests /\ writes \in 0 .. MaxWrites
  /\ pc \in {"reset", "pulse", "probe", "idle", "map", "slot", "issue",
             "wait", "check", "relock", "done"}

AdaptorInit ==
  /\ sha_status = 0
  /\ disk_img = [i \in 1 .. Size |-> 0] /\ buffer = << >>
  /\ slot = {} /\ next = 0 /\ head = 0 /\ windows = << >>
  /\ lock = FALSE /\ register = 1
  /\ block = Pending /\ req = NoReq /\ pc = "reset" /\ writes = 0

(***************************************************************************)
(* The adaptor's registers                                                 *)
(***************************************************************************)

(* A store to the command register: reset, the end of the reset pulse.     *)
ShaReset ==
  /\ pc = "reset" /\ sha_status' = 1 /\ pc' = "pulse"
  /\ UNCHANGED <<disk_img, buffer, slot, next, head, windows, lock, register,
                 block, req, writes>>

ShaReady ==
  /\ pc = "pulse" /\ sha_status' = 2 /\ pc' = "probe"
  /\ UNCHANGED <<disk_img, buffer, slot, next, head, windows, lock, register,
                 block, req, writes>>

(* The driver reads the status until the adaptor is ready.                 *)
ReadStatus ==
  /\ pc = "probe" /\ sha_status = 2 /\ pc' = "idle"
  /\ UNCHANGED <<machine, data, block, req, writes>>

(***************************************************************************)
(* Executing a command                                                     *)
(***************************************************************************)

(* What fread and fwrite make of the image: nothing behind its end, and a  *)
(* write behind the end leaves a hole.                                     *)
BlockAt(img, i) == IF i < Len(img) THEN img[i + 1] ELSE 0

ReadBlocks(img, lba, n) == [i \in 1 .. n |-> BlockAt(img, lba + i - 1)]

WriteBlocks_mut(img, lba, blocks) == blocks

WriteBlocks(img, lba, blocks) ==
  LET end == lba + Len(blocks)
  IN [i \in 1 .. (IF end > Len(img) THEN end ELSE Len(img)) |->
        IF i > lba /\ i <= end THEN blocks[i - lba] ELSE BlockAt(img, i - 1)]

Clipped(n) == IF n > MaxXfer THEN MaxXfer ELSE n

(* sha_sdcomplete: only target 0 is there; without a DMA address no data   *)
(* moves.                                                                  *)
sha_sdcomplete ==
  IF req.target # Target \/ ~req.dma \/ req.op = "other" THEN UNCHANGED data
  ELSE LET n == Clipped(req.n)
       IN IF req.op = "read"
            THEN /\ buffer' = ReadBlocks(disk_img, req.lba, n)
                              \o SubSeq(buffer, n + 1, Len(buffer))
                 /\ UNCHANGED disk_img
            ELSE /\ disk_img' = WriteBlocks(disk_img, req.lba,
                                            SubSeq(buffer, 1, n))
                 /\ UNCHANGED buffer

(***************************************************************************)
(* The intercepts                                                          *)
(***************************************************************************)

(* The lock passed to a sleep is dropped, and nothing else is.             *)
DropLock ==
  /\ lock' = IF req.r4 = "lock" THEN FALSE ELSE lock
  /\ UNCHANGED register

(* tsleep from the adaptor's code: sha_complete clears the flags the       *)
(* driver tests when it wakes.                                             *)
SkipSleep_mut ==
  /\ pc = "wait" /\ req.wait = "sleep"
  /\ block' = [block EXCEPT !.outstanding = FALSE]
  /\ UNCHANGED <<data, lock, register>>

SkipSleep ==
  /\ pc = "wait" /\ req.wait = "sleep"
  /\ block' = [block EXCEPT !.outstanding = FALSE]
  /\ DropLock
  /\ UNCHANGED data

(* swtch_pri in _sdcommand_nowait.                                         *)
SkipSwitch_mut ==
  /\ pc = "wait" /\ req.wait = "switch"
  /\ UNCHANGED <<data, block, lock, register>>

SkipSwitch ==
  /\ pc = "wait" /\ req.wait = "switch"
  /\ sha_sdcomplete
  /\ UNCHANGED <<block, lock, register>>

(* A turn of the poll loop: the first one finds the bit clear.             *)
Poll ==
  /\ pc = "wait" /\ req.wait = "poll"
  /\ IF block.done THEN UNCHANGED <<data, block>>
     ELSE sha_sdcomplete /\ block' = [block EXCEPT !.done = TRUE]
  /\ UNCHANGED <<lock, register>>

(* tsleep in _copy_out_buffer, for one segment.                            *)
SkipSegment ==
  /\ pc = "wait" /\ req.wait = "segments"
  /\ sha_sdcomplete
  /\ block' = [block EXCEPT !.copying = FALSE]
  /\ DropLock

Wait ==
  /\ SkipSleep \/ SkipSwitch \/ Poll \/ SkipSegment
  /\ pc' = "check"
  /\ UNCHANGED <<sha_status, slot, next, head, windows, req, writes>>

(* An exhausted free list starts again at its first entry; the chain of    *)
(* the entries is still what it was.                                       *)
MapWindow ==
  /\ pc = "map" /\ Len(windows) < req.n
  /\ LET first == IF head = NWindows THEN 0 ELSE head
     IN head' = first + 1 /\ windows' = Append(windows, first)
  /\ UNCHANGED <<sha_status, slot, next, lock, register, data, block, req, pc,
                 writes>>

(* _sha_cmd_wait finds the slot free: the emulator clears its bit.         *)
CmdWait ==
  /\ pc = "slot" /\ slot' = slot \ {next} /\ pc' = "issue"
  /\ UNCHANGED <<sha_status, next, head, windows, lock, register, data, block,
                 req, writes>>

(***************************************************************************)
(* The driver                                                              *)
(***************************************************************************)

(* The driver's requests.  The sleep in the adaptor's own code waits for a *)
(* command to the adaptor itself; the switch and the poll hold no lock.    *)
(* The driver only looks at the data of a target it has found.             *)
Sane(r) ==
  /\ r.wait = "sleep" => r.op = "other" /\ r.target = Target /\ r.n = 1
  /\ r.wait \in {"switch", "poll"} => r.r4 = "none"
  /\ r.target # Target => r.op = "other"
  /\ r.op = "other" => r.lba = 0 /\ r.n = 1 /\ ~r.dma
  /\ r.op = "write" => r.dma
  /\ "fits_buffer" \in Assumed => r.n <= MaxXfer
  /\ "few_windows" \in Assumed => r.n <= NWindows

KBegin(r) ==
  /\ pc = "idle" /\ Sane(r)
  /\ IF r.op = "write"
       THEN /\ writes < MaxWrites /\ writes' = writes + 1
            /\ buffer' = [i \in 1 .. r.n |-> writes + 1]
       ELSE UNCHANGED <<writes, buffer>>
  /\ req' = r
  /\ lock' = (r.r4 = "lock") /\ pc' = "map"
  /\ UNCHANGED <<sha_status, slot, next, head, windows, register, disk_img,
                 block>>

KMapped ==
  /\ pc = "map" /\ Len(windows) = req.n
  /\ pc' = "slot"
  /\ UNCHANGED <<machine, data, block, req, writes>>

(* The command goes into the slot and to the command register.             *)
KIssue ==
  /\ pc = "issue"
  /\ slot' = slot \cup {next} /\ next' = (next + 1) % NSlots
  /\ pc' = "wait"
  /\ UNCHANGED <<sha_status, head, windows, lock, register, data, block, req,
                 writes>>

Completed ==
  CASE req.wait = "sleep" -> ~block.outstanding
    [] req.wait = "poll" -> block.done
    [] req.wait = "segments" -> ~block.copying
    [] OTHER -> TRUE

(* Behind the wait the driver looks at the command block and may have to   *)
(* wait again; a driver that slept with its lock takes it again.           *)
KCheck ==
  /\ pc = "check"
  /\ pc' = IF ~Completed THEN "wait"
           ELSE IF req.r4 = "lock" THEN "relock" ELSE "done"
  /\ UNCHANGED <<machine, data, block, req, writes>>

KRelock ==
  /\ pc = "relock" /\ ~lock
  /\ lock' = TRUE /\ pc' = "done"
  /\ UNCHANGED <<sha_status, slot, next, head, windows, register, data, block,
                 req, writes>>

KDone ==
  /\ pc = "done" /\ pc' = "idle"
  /\ lock' = FALSE /\ windows' = << >>
  /\ req' = NoReq /\ block' = Pending /\ buffer' = << >>
  /\ UNCHANGED <<sha_status, slot, next, head, register, disk_img, writes>>

AdaptorNext ==
  \/ ShaReset \/ ShaReady \/ ReadStatus
  \/ Wait \/ MapWindow \/ CmdWait
  \/ \E r \in Requests : KBegin(r)
  \/ KMapped \/ KIssue \/ KCheck \/ KRelock \/ KDone


(***************************************************************************)
(* Properties                                                              *)
(***************************************************************************)

(* Blocks that no request wrote stay what they were: a write changes only  *)
(* the blocks it names (devices.c:358-361).                                *)
WritesInPlace ==
  [][\A i \in 0 .. MaxLba + MaxBlocks :
       BlockAt(disk_img, i)' # BlockAt(disk_img, i) =>
         req.op = "write" /\ i >= req.lba /\ i < req.lba + req.n]_adaptor

(* "release it here too, but only when r4 is a kernel-space lock ... a     *)
(* device register must never be written 0" (cpu.c:1011-1013).             *)
RegisterKept == register # 0

(* "no window is ever in flight and the pool can be recycled freely"       *)
(* (cpu.c:1083): the windows of one request are different ones.            *)
WindowsDistinct == IsInjective(windows)

Arrived ==
  \A i \in 1 .. req.n :
    i \in DOMAIN buffer /\ buffer[i] = BlockAt(disk_img, req.lba + i - 1)

(* When the driver goes on behind a wait, the transfer has happened:       *)
(* a read delivers the image's blocks as they are now, zeros behind its    *)
(* end, and a write is in the image (devices.c:301-363); no block of a     *)
(* request is forgotten where the emulator's buffer is large enough.  Each *)
(* went through a window of its own, and no register was written over in   *)
(* place of a lock.                                                        *)
Delivered ==
  /\ pc = "done" /\ req.target = Target /\ req.dma => Arrived
  /\ WindowsDistinct /\ RegisterKept
=============================================================================
