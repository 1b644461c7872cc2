# Models and proofs for tc2000 (nx88)

The repository holds an emulator of the BBN TC2000, an MC88100 machine. It boots
the original nX kernel image unchanged, gives the user a shell on it, on a
terminal, over a socket or in a browser, and stands in for the hardware and for
those parts of the kernel that need hardware it does not have. This directory
holds TLA+ models of its behaviour over time, TLC configurations that check them,
and TLAPS proofs of the central invariants.

What makes this program hard to get right is the seam between the emulator and a
kernel it does not control. The kernel keeps its state in guest memory and
registers; the emulator keeps state of its own (a delay slot, a recorded fault, a
translation cache, descriptor flags, a timer, a root device) that must agree with
it at every step. It intervenes at fixed program counters, any of which
interrupts, faults, process switches and calls it serves itself may separate.
A boot test exercises one interleaving of these; the models enumerate them.

The kernel is not part of the repository. Its actions (prefixed `K`, or marked
external in `PROJECT.json`) do what the emulator's comments and intercepts rely on
it to do, and no more is claimed about it.

- [Inventory](#inventory)
- [Modules](#modules)
- [The models, one by one](#the-models-one-by-one)
- [Runs and bounds](#runs-and-bounds)
- [Fairness](#fairness)
- [Proofs](#proofs)
- [Where the code and its documentation part](#where-the-code-and-its-documentation-part)
- [What is not modelled](#what-is-not-modelled)
- [Plan](#plan)

## Inventory

| Part | State it keeps | Operations | Talks to | Hard behaviour | Right when |
|---|---|---|---|---|---|
| Sequencing and exceptions: `step`, `deliver_*` (emu/cpu.c), fault delivery in `run_sys` (emu/sysmode.c) | `pc`, delay slot, PSR, EPSR, SXIP, SNIP, SFIP, DMT0, DMA0, recorded fault | execute, interrupt, trap, fault, `rte`, served call, skipped replay | kernel handlers through the vector table | exceptions nest, share one set of registers; faults in delay slots and in handlers | the interrupted program cannot tell |
| Interrupts and timer: cpu.c 199-236 and 1280-1370, devices.c | counter, compare register and latch, `irq_source`, `next_softint`, `next_clock`; kernel's `spl`, pending word | deliver soft, deliver hard, reprogram, `kcall` | the kernel's interrupt routine | wrap of the counter, level-triggered requests, masking, a clock put back | ticks on time and for ever; requests served; code goes on |
| User memory: emu/mmu.c, emu/proc.c | translation caches, `ufault`; kernel's page tables | translate, fault, invalidate, served reads and writes | instructions, served calls, the kernel's VM | copy-on-write, untagged cache, paging under a served call | every process has a memory of its own |
| Descriptor routing: emu/console.c 840-930, sysmode.c 320-460 | `fd_console`, `fd_disk`, `fd_kernel`, `fdsets`, `fdcur`, the watch | switch at each system call, edit, learn a returned descriptor | all processes | per-process state inferred from a stream of calls | exactly the terminal's and the disk's descriptors are answered |
| Console input: emu/console.c 40-560, 716-841 | socket, push-back, telnet decoder, cooked line, eof, tty mode | receive, decode, edit, read, FIONREAD | telnet client, the guest's reads | bytes cut up anywhere, reads that block half-way | what is typed is read once, in order |
| Console output and transports: console.c, main.c | client connection, stored tty parameters | write, accept, ioctl | client | a client that leaves and returns | output in order |
| Host files and the raw disk: console.c 560-712 | position per descriptor | lseek, read, write, ioctl | disk image, archive | calls made again, positions exchanged between processes | files of each process's own |
| Run loop and process launch: sysmode.c, proc.c | boot phase, launched process | detect boot, fork by `kcall`, end of session, halt | kernel scheduler | decides "over" against "waiting" | ends when the processes have, and only then |
| Sleep, switch and idle intercepts: cpu.c 1000-1110 | run queue seen, lock words | skip a sleep, yield, pick a process | kernel scheduler | a skipped sleep must drop its lock | every runnable process runs |
| Block I/O: cpu.c 1114-1228, console.c 580-648 | `root_dev_vp`, `disk_wrote`, `fs_synced`, images; kernel's buffers | complete at strategy, at getblk, at biowait | buffer cache, images | no interrupt completes a transfer; two paths to one disk | blocks hold what was written last |
| SCSI adaptor: devices.c, cpu.c 1009-1101 | status, slots, windows, image and its label | reset, complete at a wait, label | the driver | four kinds of wait without an interrupt, locks, lists at their ends | behind a wait the transfer has happened |
| Device registers: devices.c, memory.c | ring index, timer, CMRAM, mailbox | load and store | drivers | a busy-waiting kernel, the ring's wrap | each character once, no wait for ever |
| Arithmetic: cpu.c 760-825, 1490-1600 | none | compare, bit fields, find first, floating point | | widths, shifts of 32 | as the manual defines |
| File reader and loader: ffs.c, aout.c | none | block map, directory look-up, segments | image file | indirect blocks, holes | the file's bytes |
| Kernel message buffer: kmsg.c | a line for the console and one for the log | assemble, print, flush | the kernel's putchar | the same line twice, long lines | every message once |
| User-mode interpreter: usermode.c | open host files | run a static binary | host | none of the above | |
| Browser build: emu/web.c, web/*.js | page phase, images, worker, messages, input ring, output buffer | start, stop, send, halt | event loops of page and worker | asynchronous downloads, termination, reboot, early messages | input and output keep their order; every boot settles |
| Options, page layout, server, tools, vendored terminal | | | | | |

They meet in few places: `step()` asks `translate()` for every access; a fault it
records is delivered by the run loop before the next instruction; system calls are
looked at on their way into the kernel (routing, then serving) and served through
the same `translate()`; block I/O and the timer are driven from `step()`; the
console blocks the whole machine while it waits for input, and in the browser gives
the event loop its turn there.

`PROJECT.json` lists what can go wrong at each of these seams as hazards, each
at its line and with the property that covers it.

## Modules

| Module | What it is |
|---|---|
| `UserMachine` | abstract: an MC88100 without exceptions |
| `Program` | abstract: the life of the one program a run is about |
| `Session` | launch, run queue, idle decision, end of a run; implements `Program` |
| `Session_proofs` | the run queue, panics, giving up and `Session` => `Program`, for every number of processes |
| `Devices` | composes the five modules below: one device at a time |
| `Adaptor` | the SCSI adaptor and its four waits |
| `FrontEnd` | the diagnostic ring and the boot log |
| `PosixFile` | abstract: files with a position of each process's own |
| `HostFiles` | the raw disk and /hosttar; implements `PosixFile` |
| `DiskLabel` | the label of an image that may change its size |
| `BootImage` | reading the kernel out of the boot image |
| `Devices_proofs` | for every size of everything: the refinement, the block map, transfers, windows, label, ring, boot log |
| `Instructions` | what the MC88100's instructions compute |
| `Idioms` | the sequences a compiler relies on, and their meaning |
| `Idioms_proofs` | that they have it, for words of every width and every operand |
| `Cpu88100` | sequencing and exceptions; implements `UserMachine` |
| `Interrupts` | counter, deadlines, software interrupts, `kcall` |
| `Processor_proofs` | of `Cpu88100`: its invariants, and the refinement, for every program; of `Interrupts`: the hardclock comes on time, for every width and interval |
| `AddressSpaces` | abstract: private memories |
| `UserMemory` | page tables, translation cache, faults, served calls; implements `AddressSpaces` |
| `UserMemory_proofs` | the cache agrees with the tables, and the refinement, for every size |
| `FdSets` | descriptor routing |
| `Console` | console input |
| `Tty_proofs` | of `FdSets`: isolation of processes and routing, for every number of them; of `Console`: what is read is what was typed, and ready means ready, for every number of keys |
| `SharedDisk` | abstract: blocks that hold what was written last |
| `BlockIO` | buffer cache, intercepts, images; implements `SharedDisk` |
| `BlockIO_proofs` | the refinement and the quiet end, for every size |
| `WebSession` | the page, its worker and the messages between them |
| `WebSession_proofs` | input in order, the whole screen and whole images, for every capacity and number of boots |
| `MC*` | values of the constants for TLC |

The components meet through a narrow interface that each model keeps at its own
border: `Cpu88100` leaves out where a fault comes from (any page may be missing)
and `UserMemory` leaves out how it is delivered; `UserMemory` and `HostFiles` serve
calls whose descriptors `FdSets` has routed, the one for the bytes' way through the
memory, the other for what the files hold and where their positions are; `Session`'s
processes are any program whose instructions and exceptions are the business of
`Instructions` and `Cpu88100`; the blocks `Adaptor` moves are those `BlockIO`'s root
device reads through its driver; `Interrupts` takes interrupts between
instructions, whose effect on the delay slot and the registers is `Cpu88100`'s.
The conditions under which the abstractions of one hold in another are the
assumptions listed with each model.

Definitions keep the source's names where there is one (`fd_switch`, `biodone`,
`root_dev_vp`, `pendingInput`). A definition that ends in `_mut` is the form a
plausible mistake would give the definition after it; the properties are shown
to notice it. Nothing else uses it.

## The models, one by one

### Cpu88100

State: `pc` with the explicit delay slot (`has_pending`, `pending`), the two PSR bits
that matter, the exception registers `cr`, the recorded fault `ufault`, and the
frames the kernel has stacked. Addresses count instructions. What an instruction
computes is left out; what it does to sequencing, and that it touches memory, is
kept. The kernel's side has four places: the vector table, the `rte` with which
`saveregs` continues itself, the handler proper, and the `rte` that ends an
exception.

| Action | Code |
|---|---|
| `TakeInterrupt`, `ExecTrap`, `RaiseFault` | `deliver_exception`, `deliver_trap`, `deliver_fault` (cpu.c 825-956) |
| `ExecPlain`, `ExecBranch`, `ExecMemory`, `MemoryFault`, `FetchFault` | `step`, with the order fetch, execute, commit and its early returns |
| `ServeSyscall`, `ServeSyscallFault` | system calls `run_sys` answers without a trap |
| `Rte` | cpu.c 1581-1603: the first valid of SXIP, SNIP, SFIP |
| `SkipReplay` | the intercept that leaves out `data_access_emulation` (cpu.c 992-1007) |
| `K...` | saving and restoring frames, paging, faults of the kernel on user memory |

Properties. `ReturnPath`: the `rte` of `saveregs` reaches its continuation and the
final `rte` goes back to what was stopped, in its mode. `AccessDescribed`: what the
kernel finds in the data pipeline at entry is the access that will be re-executed, or
none. Both follow from `Stacked`, an invariant that is proved and not checked by a run.
`Transparent`: with the kernel
taken out, the program's two counters and its accesses behave as `UserMachine`'s;
each access happens once although it is aborted and the instruction re-executed.
`EveryExceptionEnds`.

The pages that hold a delay slot, and those it accesses, are wired in run `cpu`: a fault
there loses the branch (run `cpu_slot_fault`).

### Interrupts

State: the counter `timer` of `Width` bits, the compare register and its latch, both
pacings of the tick, the controller's pending register, and of the kernel its `spl`, its
pending word (`softints`), its PSR.IND and its interrupt routine. Absolute times are kept as time
left. `Run` is one microsecond of one instruction. `TakeSoft` and `TakeHard` are the two
delivery blocks of `step`, in their order and with their rate limits. `KcallBegin` and
`KcallEnd` are `kcall`, which disables interrupts and restores the processor, its counter
included.

Properties. `TicksOnTime`: a hardclock is delivered from its deadline on
(`PastDeadlineIsDue`) and not before (`NotBeforeDeadline`), on both sides of the wrap. `ClockNeverStops`, `SoftintsRun`:
the routine decides from `irq_source` alone why it was entered, so one misreported tick
would be the last. `CodeGoesOn`: a request that stays up does not take all the time.

### UserMemory

State: frames, the kernel's page descriptors, what a page not in memory holds
(`backing`), the direct-mapped translation cache with its copy of the write-protect bit,
the recorded fault. `Load` and `Store` are instructions; `ServeRead`, `ServeWrite` and
`ServeIoctl` are calls the emulator serves (`ubuf_fault` first, over the whole buffer, then
`uwrite_mem` or reads). `KFork` shares pages and write-protects them, `KVmFault` pages
in and copies, `KPageOut`, `KSwitch`; each writes the invalidations of cmmu_command and of
the APR that mmu.c acts upon.

Properties. `TlbCoherent`: no entry, nor its protection bit, outlives a switch or a
changed descriptor. `Private`: the whole implements `AddressSpaces`, in which sharing,
paging and the cache do not exist. `InputReachesBuffer`: a served read consumes a line of
input only in a step that puts it into the caller's memory.

Assumed: `copied_first`, a served read's buffer is not shared copy-on-write at the time
(without it run `mem_served_cow`), and `request_present`, the argument block of a block
ioctl is in memory (disk_syscall reads it without a check).

### FdSets

State: the working copy of the flags, the saved sets by pid, the process the copy
belongs to, the watch for a returned descriptor; and the kernel's real tables, which the
flags are to mirror. A process's system call is `Enter` (what `run_sys` does at the
trap: `fd_switch`, then edits) and, for calls that return a descriptor, a `Return` of
its own, found by its address. `Close`, `Fork`, `Exit`, `Plain` are the others. Of
`fd_kernel` the code only ever reads entry 0 (console.c 896), so it is a Boolean.

Properties. `Routed`: while a process runs outside a watched call, the flags are exactly
its descriptors that are open on the terminal and the disk. `Isolated`: no step of one
process changes the flags another will find.

Assumed: `atomic_calls`, no process switch inside a watched call; `child_first`, a new
child makes a system call before anyone else does; `keeps_stdin`, nobody closes
descriptor 0; `open_source`, dup2's source is open. `Routed` needs each of them; `Isolated`
only the first. See below for what happens without.

### Console

State: encodings on the wire, bytes arrived, `con_pushback`, `con_eof`, the unread rest
of a cooked line, the tty mode, and the read in progress, which is a program of its own:
`rd.at` says which byte it waits for and `rd.iac` how far the decoder is into a telnet
command. Each receive is a step; between two of them bytes may arrive, the client may
type or hang up. Bytes are named for what the decoder does with them.

Properties. `ReadsWhatWasTyped`: what is delivered is a prefix of what the keys mean
(`Keystroke` for raw mode; `Cook`, a line editor written independently of the code, for
cooked mode), however the bytes were encoded (RETURN has two encodings) and cut.
`ReadyMeansReady`: after FIONREAD has promised input, or with a byte in hand, a raw read does
not block. `EverythingArrives`: once the client has left, all of it has been read.

Run `con_keys` checks them with keys cut up anywhere in cooked mode and delivered whole in
raw mode (what a cut RETURN does there: see below), with the mode fixed for
the session. In raw mode a bare CR and the byte 0xff are not typed in the same
session: see below.

### BlockIO

State: the two images, the buffer headers of the kernel's cache (block, data, the
flags READ, ASYNC, DONE and DELWRI, and who holds the buffer), `root_dev_vp`,
`disk_wrote`, `fs_synced`, and what each process is doing. A transfer is one block.
`Strategy` is the intercept at the SCSI disk's driver: transfer, then the kernel's
`biodone`, which for an asynchronous buffer also releases it. A device that is not in
`Door`, the root, has a driver that only queues; its transfers are carried out by
`Biowait` (the intercept in biowait's sleep) or, when nobody waits for them, by
`GetblkSleep` (the intercept in getblk's sleep) for whoever wants the buffer next.
`RawRead` and `RawWrite` are `disk_syscall`, past the cache. `Flush` is what `run_sys`
notes at the trap of sync or umount. `End` is the end of the session.

Properties. `Faithful`: cache, intercepts and images together implement `SharedDisk`, where
a block changes only by a write of a process that is using it, so a transfer lost,
made twice, routed to the wrong image or made at the wrong time shows.
`InputOutputEnds`: nobody sleeps for ever although no interrupt comes. `QuietEndIsClean`: a
session that has written to the image and ends without the warning of sysmode.c 227 has
left nothing in the cache.

Assumed, each one necessary (dropping any of them makes `Faithful`, or for the last
`QuietEndIsClean`, fail):

| | why it is needed |
|---|---|
| `root_first` | the root is whichever device is seen first (cpu.c 1125) |
| `root_kept` | writes to the root are dropped (cpu.c 1138, globals.c 203-211), so nothing may write there |
| `held_alone` | the getblk intercept transfers any busy buffer, also one that a process holds for another reason, whose changes it would overwrite |
| `raw_unmounted` | raw access does not look at the cache |
| `sync_last` | `fs_synced` is set at a sync or umount and never cleared |

### WebSession

State: the page's phase and images, messages in both directions, the worker's place in
its life, the images it has, `Module` and `pendingInput`, the input ring and its eof flag,
the output buffer; and as a record of the promise, what was typed, read, written and
displayed. The page's handlers (`Start`, `Stop`, `Type`, `SendEof`, `ShowOut`, ...), the
worker's (`TakeInput`, `TakeEof`, `Import`, `Instantiated`, `Fetched`, `LoadFails`, ...) and
the machine's steps (`Reads`, `ReadsEof`, `Writes`, `Yield`, `Halts`) are actions. A worker
is terminated with all its messages.

Properties. `TypedInOrder`: the machine reads what was typed, in order, and the end of input
only behind all of it (`EndAfterInput`). `ScreenShowsAll`: what is displayed is what was
written, with the last words last. `BootSettles`: every boot runs, fails or is stopped, and a
machine runs from whole images, which are downloaded once (`BootsFromImages`). `EofEndsSession`. Their
comments quote what the code promises.
`Impatient` says what the page may send before the machine runs; it is empty in run `web`.

### Session

State: the kernel's process table as far as the emulator reads or writes it (`stat`, `parent`,
the clusters that may fork), its run queue with both of the marks a process carries
(`queued` for the back-pointer, `rlink` for the link), who is running, and of the emulator
`procexp_proc`, `idle_spins` and whether 2000 instructions have gone by (`recent`).

| Action | Code |
|---|---|
| `LaunchNoProcess`, `LaunchNoSpace`, `Launch` | `proc_experiment` (cpu.c 420-743) and its early returns: newproc, cluster, address space, trampoline, run queue, `load_context` |
| `RunqRemove`, `RunqAdd` | cpu.c 288-326, with the link that rem_runq leaves dangling |
| `IdleYield`, `IdleEnd` | the sentinel (sysmode.c 150-253): alive? spun? yield at the worst priority |
| `Stop`, `Halt` | the limit and the halt catcher (sysmode.c 99-133, 254-268) |
| `K...` | fork, sleep, wakeup, exit, wait4, the clock, swtch and the idle process, with the panics the comments quote |

Properties. `NoPanic`: none of those panics is reached. `QueueIsRunnable`: a process is on the
run queue exactly when it is runnable and not running. `DeadlockIsReal`: a run that is
given up could not have gone on. `Ends`. `Runs_Program`: seen from outside, a run implements
`Program`; it is declared finished when the last process has exited and not before.

Assumed: `parents_wait`, no process exits before its children (without it the parent pointers
lead past the first process to init, and `Runs_Program` fails: the run ends with an
orphan alive); `spins_in_swtch`, while somebody sleeps on the clock it takes the scheduler 2000
instructions to come back to proc0 (without it two quick returns end the run during a
`sleep 1`, and `DeadlockIsReal` fails).

### Devices

A behaviour uses one of seven devices, so that the run checks their sum and not their
product. None of them shares state with another, and the code serves each access at once.

`Adaptor`. State: the adaptor's status, the slots' busy bits, the free list of windows, the
disk image, the driver's lock and place, and the flags of its command block. The driver
waits in four ways; `SkipSleep`, `SkipSwitch`, `Poll` and `SkipSegment` are the
intercepts that stand in for the completion. `Delivered`: behind any of them the transfer has
happened, through windows that are different ones (`WindowsDistinct`), and no device register
was cleared in the place of a lock (`RegisterKept`). `RequestsEnd`: none is waited in for ever,
nor is a slot or the driver's own lock. `WritesInPlace`: a write changes the blocks it
names and no others. Assumed: `fits_buffer`, no request is
longer than the emulator's 64 KB (it would be cut without notice: with `MaxXfer = 1` and
without the assumption `Delivered` fails), and `few_windows`, none maps more windows than
there are (with `NWindows = 1` `Delivered` fails, by `WindowsDistinct`).

`FrontEnd`. The diagnostic ring has no consumer but the load of its consumer index, which
drains it; a turn of that loop is a step. `RingDrains`: every character leaves it once and in
order, and the consumer always catches up. The boot log gets
characters from two streams; `NothingLost`: every letter is printed, being assembled, or in a
line left out, and only a line the console has just had is left out (`Spoken`).

`HostFiles`. State: the working copy of the positions and the copies saved by process,
exchanged at every system call as the flags of `FdSets` are; the descriptors of /hosttar, given
out to all processes from one set; the image; each process's call. A call whose buffer is
not resident does nothing but the exchange and is made again (`BufferFault`).
`Behave_As_Files`: with positions taken from wherever they are, each call is one step of
`PosixFile`, in which a process has a position of its own per file and nobody else moves it.

`DiskLabel`. Attach, detach, spoil, resize. `LabelFits`: the label never announces a block
that is not there, nor hides a cylinder that is, whatever it said before.

`BootImage`. The image is given as newfs and the kernel lay it out (`KAddr`, `KPointer`);
`Walk`, `bmap`, `ind` and `ReadBlock` are ffs.c's. `KernelIsRead`: the bytes of the file, or a
refusal.

### Instructions and Idioms

`Instructions` has one action per class of instruction, on words that are sets of bits.
A state is a short program half-way through; a taken branch or a trap leaves it. What C
leaves undefined is a choice: the most negative number divided by -1 gives itself or stops the
emulator, a float that does not fit is converted to one of three words.
`Idioms` states what a compiler uses the instructions for, from numbers: compare and
branch means the relation; clear, make and or replace a field; quotient times divisor
plus rest is the dividend; bytes stored are the bytes loaded, at each size, signed and
not; an integer survives a conversion. Its `ConditionBit` and `ConditionMask` are the
architecture's, the code's own numbers are in `Instructions`. `Families` are all the sequences,
for every field and every half word; a run takes some of them (`IdiomsAssumption`).
`Two` and `Sum`, the powers of two and the number a set of bits stands for, are recursive
functions, so that they can be proved about.


## Runs and bounds

| Run | Shows | Instance | States |
|---|---|---|---|
| `cpu` | `ReturnPath`, `AccessDescribed`, `Transparent`, `EveryExceptionEnds` | a loop of seven instructions with a conditional delayed branch whose slot accesses memory on the next text page, a system call, a division; four pages, nesting to depth 2, accesses counted modulo 2 | 18 000 |
| `cpu_slot_fault` | a branch lost by a fault in its slot | the same, nothing wired | counterexample |
| `mem` | `TlbCoherent`, `Private`, `InputReachesBuffer` | 2 processes of 2 pages, 3 frames, one cache line for both pages, two values | 1.2 million |
| `mem_served_cow` | a served read writes a shared page | two cache lines | counterexample |
| `fd` | `Routed`, `Isolated` | 3 processes, 2 descriptors, slots for all | 270 000 |
| `con_keys` | `ReadsWhatWasTyped`, `ReadyMeansReady`, `EverythingArrives` | 3 keys of 5 or 6 kinds, reads of 1 or 2 bytes | 104 000 |
| `irq` | `TicksOnTime`, `ClockNeverStops`, `SoftintsRun`, `CodeGoesOn` | counter of 3 bits, interval 3, two software interrupts, masked for at most 2, one `kcall` | 149 000 |
| `disk` | `Faithful`, `InputOutputEnds`, `QuietEndIsClean` | 2 processes, 2 buffers, 2 root blocks, 1 disk block, 2 values | 147 000 |
| `web` | `TypedInOrder`, `ScreenShowsAll`, `BootSettles`, `EofEndsSession` | 3 boots, ring and buffer of 2 bytes, 3 bytes each way | 44 000 |
| `session` | `NoPanic`, `QueueIsRunnable`, `DeadlockIsReal`, `Runs_Program`, `Ends` | table of 3 processes, 3 forks, 2 calls each, 2 parents followed, with and without `--init` and a usable cluster | 330 000 |
| `devices` | `Delivered`, `WritesInPlace`, `RequestsEnd`, `RingDrains`, `NothingLost`, `Behave_As_Files`, `LabelFits`, `KernelIsRead` | see below | 480 000 |
| `idioms` | `BranchesMeanRelations`, `BitsMeanNumbers`, `ArithmeticAgrees`, `MemoryIsBigEndian` | words of 12 bits, 12 operands, 18 floating values, programs of up to four instructions | 397 000 |

A property that has parts is the conjunction of named ones, each with a comment of its own
in the module. The type invariants of `FdSets`, `Console`, `Interrupts`, `BlockIO`,
`WebSession`, `Devices` and `Instructions` are parts of properties checked (of `Routed`,
`ReadsWhatWasTyped`, `TicksOnTime`, `QuietEndIsClean`, `TypedInOrder`, `RequestsEnd` and
`ArithmeticAgrees`); those of `Cpu88100`, `UserMemory` and `Session` are proved.

Why the bounds are enough to meet the interesting cases:

- `cpu`: any exception may arrive at any instruction, in the slot and in a handler; depth
  2 has a nested exception inside a nested one's window. Two instructions of text
  per page would be enough for every fault of the fetch; the program has each
  class of instruction once, at both kinds of successor.
- `mem`: one line for two pages makes every access evict; three frames for four pages
  makes paging necessary. Two lines for two pages were checked too
  (1.4 million states).
- `fd`: with two descriptors, pipe never finds two free ones and always fails. It succeeds
  with `Procs <- {p1, p2}`, `NFds = 3`, `NStd = 2`, `FDSETS = 3`, which was checked as
  well (2.9 million states); three processes are what inheritance and interference take.
- `con_keys`: three keys are RETURN, a key before and a key after, and an edited key.
- `irq`: with three bits the counter wraps every eight microseconds while deadlines are
  three ahead, so deadlines fall on both sides of the wrap. `MaxMasked` keeps interrupts
  out for less than half the counter's range; beyond that the sign of the difference
  turns, as it would in the code after 35 minutes.
- `disk`: two buffers for three blocks force eviction, delayed writes go out on reuse,
  and the root's two blocks allow read-ahead.
- `web`: one byte more than the ring and the buffer hold.
- `session`: three processes are a parent, a child and a grandchild, or a pipe between two
  children; each can sleep for each reason, and a table entry is used again after its
  process is reaped, because forks are not fewer than entries. Following two parents is
  just enough for a grandchild.
- `devices`: the slots and windows (2 of each) are used up and used again, requests of two
  blocks reach behind the end of a disk of two; a ring of three bytes wraps twice; lines of
  two letters are cut; two processes have the same descriptor number for the raw disk, and
  opens of /hosttar outnumber its two descriptors; images from nothing to more
  cylinders than a label can state; a file of up to seven blocks has two direct, two single
  indirect and three double indirect ones, under every set of holes.
- `idioms`: a word of twelve bits has bytes, halves and a condition register that
  holds all twelve condition bits; operands are at each limit and on both sides of it;
  fields have every relation to the ends of the word.

Deadlock is checked except in `fd` (all processes may exit), `web` (the page waits for its
user), `disk` (the session ends), `idioms` (a program ends) and `devices` (the bounded
requests, characters and files run out). In `session` a run that has ended stutters
(`Ended`), so that any other state without a successor would be reported.

## Fairness

- `Cpu88100!Live`: the run loop never stops, so execution and delivery of a recorded fault
  are weakly fair. A handler that is interrupted again and again still gets on at each
  depth (strong fairness), because the clock's period is thousands of instructions.
- `Interrupts!IrqFairSpec`: the run loop goes on; the interrupt routine and the called
  kernel functions end; the kernel lowers its `spl` to 0 and enables interrupts again
  some time. `SoftintsRun` promises dispatch only to a request the level lets through
  again and again (`GateOpen`).
- `Console!FairSpec`: TCP delivers, the client leaves at last, the guest reads again, a receive
  that can return does.
- `BlockIO!FairSpec`: a process in a system call goes on, none holds a buffer for ever,
  and one that wants a buffer that is free again and again gets it (brelse wakes every
  sleeper, so strong fairness is the scheduler's).
- `WebSession!FairSpec`: event loops are first in, first out, and the machine yields to
  its own every 2^18 instructions and whenever it waits for a key, so a handler
  enabled again and again runs (strong fairness). The machine halts once a read has
  returned the end of its input: a shell exits then.
- `Session!Fairness`: the machine runs, so what the run loop does at the sentinel is weakly
  fair; a process that has the processor gets on with its calls, which are bounded
  (`MaxBursts`), and exits; the clock ticks; the idle process gives way; a panicked kernel
  reaches its last spin. The scheduler's choice is not fair: `Ends` holds whichever process it
  prefers, except with `--init`, where another program may run for ever.
- `Devices!Spec`: the driver gets on with a request it has begun; a kernel that waits for the
  front end keeps loading the index. Nothing forces a request or a character.
- `UserMemory`, `FdSets` and `Idioms` have no liveness properties and no fairness.

## Proofs

`tlapm` checks all of them. They hold for every value of the constants that
satisfies the modules' assumptions.

**Processor_proofs**, of `Cpu88100`. From `TextAssumption` (the types of the constants, `VBR` above the
text) and `ClosedText` (the program does not run off its end).
`ExceptionsStack`: `Spec => [](TypeOK /\ Stacked)`. `Stacked` relates mode, address
and registers: in user mode there are no frames and interrupts are enabled; at a vector the
registers hold the stopped user program, or, if there are frames, a handler; between
entry and the first `rte`, and at the last one, interrupts are off, which is why no other
exception can overwrite them; each frame holds what was in the registers. Neither
`ReturnPath` nor `AccessDescribed` is inductive: where an `rte` goes depends on what was
saved, perhaps many steps ago and in a frame of which only the top is in sight.
`ReturnsWhereItStopped`, `AccessIsTheFaultingOne` and `TypesHold` follow from it.

`ExceptionsAreInvisible`: with `SlotsWired`, `Spec => Transparent`. `SlotsWired` says what the
text of the run `cpu` does: what is in the slot of a delayed branch is no branch or trap, and
neither it nor the page it uses is ever taken away (the run `cpu_slot_fault` is the machine
without it). The refinement needs, besides `Stacked`, that a branch pending means that its slot is next
and that no fault is recorded (`InSlot`): then no exception comes in between. An instruction
executed is a step of `UserMachine`; faults, traps, interrupts and whatever runs in
supervisor mode are stutters, because the state of the user's program is in the registers or in
the frame at the bottom.

**Processor_proofs**, of `Interrupts`. `HardclockOnTime`: if the guest keeps interrupts out for less than half
the counter's range (`MaxMasked < Half`), `IrqSpec => TicksOnTime`, for any width, interval and
period. `OnTime` says where the counter is: while the interval has not passed, so much before the
deadline as is left of it, on one side of the wrap or the other; afterwards, no further behind
it than interrupts have been kept out (`Behind`), which is where `MaxMasked < Half` makes the signed
difference come out right. `Saved` says the same of the clock `kcall` will put back:
a kernel call that began before the deadline returns before it.

**UserMemory_proofs.** From `MemoryAssumption`. The inductive invariant `Inv` is
`Typed /\ Cached(tlb)`: the types of everything but the cache, and, of a cache, that each
line is for a page whose slot it is in, has a frame and says what the tables say. Lemmas show
that translating preserves `Cached` for any cache (`FillCached`, `FillAllCached`), which
reduces served calls, which fill many lines in one step, to the single access; and that every
kernel step that changes the tables or the process leaves an empty cache.
`CacheAgrees` (`Spec => []TlbCoherent`) and `MemoryTyped` (`Spec => []TypeOK`) follow.

`MemoryIsPrivate`: with `copied_first` and `request_present`, `Spec => Private`. The refinement
maps a page to what its frame holds or, when it has none, to its backing. It needs `Sharing`: a
process that does not exist has no pages in memory, and two descriptors that name one frame
are both write protected. So a store through a line of the cache, which by `CacheAgrees` is
writable only if the descriptor is, changes one page of one process; demand zero, copy on write and
paging change no page at all. `InputIsDelivered` (`Spec => InputReachesBuffer`) needs neither of the two
assumptions.

**Tty_proofs.** Of `FdSets`: `FlagsArePerProcess`: if there are fewer processes than slots and
no process is switched out inside a watched call, `Spec => Isolated`. `Inv` says that the
current process has a slot, that only pids that may exist have one, and that a process
inside a watched call is the current one; the second bounds the number of slots taken, by
the cardinality of the set of pids, so that `fdslot` always finds one. No other assumption
of the run is used.

`DescriptorsAreRouted`: with the other three assumptions as well, `Spec => []Routed`. `Routed`
speaks of the current process between its calls; the invariant `Routing` has to say where
everybody's flags are at any time. Those of a running process, in the working copy or in its slot, are
its open descriptors (`Shown`); those of a process in a call are that up to what dup2 has moved
already, and what is remembered of the call is what the kernel will do (`InCall`); a new child has
no slot, has its parent's descriptors, and its parent is the current process, so that the
seeding at first sight (console.c:894) takes the right set. Descriptor 0's flag is
always up, which is what tells a set that has been seen from one that has not.

Of `Console` (its `Init`, `Next` and so on are named `ConInit`, `ConNext`, so that one module can
extend both), from `ConsoleAssumption`: `TypedIsRead` (`ConSpec => []ReadsWhatWasTyped`) for any
number of keys, sizes of read and tty modes the network cuts keys in, if the keys are `Readable`: no
mode has both a lone CR and 0xff, and a RETURN is not cut in two in raw mode. Both are limits of the
code and described below, with what happens beyond them. `ReadyReads` (`ConSpec => []ReadyMeansReady`)
if in addition the mode does not change while keys are on their way and a 0xff typed in raw mode
arrives in one piece, since a read that has its first half waits for the second.
The prefix that `ReadsWhatWasTyped` speaks of says nothing of the keys on their way, so it is far
from inductive. `Accounted` finds the place of every key: there are codes `cs` that the client
has sent, one for each key typed (`Sent`); the bytes that can still be received, that is, what is pushed
back, what has arrived and, where the network cuts, what is on the wire, are the rest `part` of the
key the decoder is in followed by the codes of whole keys, from the i-th on (`Place`); and what
the guest has, with what it has of the read in progress, of the line and what the decoder `owed`
for that key, is what the first i keys come to (`Text`). `Fits` says which rest goes with which
place in a telnet command; the two places behind a CR allow the second byte of a RETURN besides.
Decoding is proved on values (`NextByte`: the next byte of `part` and whole codes leaves
`part` and whole codes), so that an action has only to say what it does with the byte
(`RawAfter`, `CookedAfter`). `Over` says that an input that has ended is empty everywhere.
The meaning of the keys is a recursion and a flattened sequence: `CookAppend`, `FlattenAppend`
and `FlattenCons` unroll them by least counterexamples, and `KeysOn` shows them monotone.
`ReadyReads` adds `ReadyInv`: without negotiation a read that has been promised something, or
has part of it, has a byte to receive, and the decoder is only ever inside a 0xff whose second
half has arrived (`Halved`).

**BlockIO_proofs.** `OneDisk`: `Spec => Faithful`, and `NothingLeftBehind`:
`Spec => []QuietEndIsClean`, both for any processes, buffers, blocks and values, with the five
assumptions of the run `disk` and the disk's driver among those intercepted. In the invariant,
`Cached` is what makes the cache one disk: no block is in two buffers (`Unique`); a process that
works on a buffer holds it, and the other way round; and each buffer is `Sound`, that is, clean data
is the image's, a buffer without data is being filled, and a transfer left for the driver
is one of the root's. `Devices` says that the root comes first and that the raw disk is open only
while nothing of the disk is cached or wanted, without which a raw write would change a block under the
cache. `Flushed` follows the flush at the end: it is the last process alive, and once it is over
no buffer is dirty. The actions are proved on buffers and images as parameters
(`Put`, `Turns`): one buffer and one process change, and the lemma of an action says to what.

**Session_proofs.** From `SessionAssumption`, for any table, number of forks, calls and yields.
The inductive invariant is `All == Inv /\ MayFork /\ Yielded /\ GaveUp`. `Inv` holds the types,
that link and back-pointer agree for all processes but `init`, and that the queue is what
`QueueIsRunnable` says, also during the boot and after the end; it is this equality, kept by
every pick of the scheduler (`SwtchKeeps`), that keeps the links and the idle process in
order. `MayFork`: every process of the program is in a cluster that may fork. `Yielded`: at
the sentinel, right after a yield, nothing is runnable. `GaveUp` is what two yields in a row
then imply. `QueueIsRight`, `NeverPanics` and `SessionTyped` follow from it alone.
`GivesUpWhenStuck` (`DeadlockIsReal`, from `spins_in_swtch`) also needs that the program is not over
when it is given up, and `RunIsTheProgram` (`Runs_Program`, from `parents_wait`) that "descends from
the first process" (`Descends`), which is all the emulator looks at, is the same as being one of
the program's. For both, `Kin == All /\ Family`: the kernel's own processes have only each other
above them, so nothing of theirs ever counts (`AliveIsOurs`), and from the first process of the program
a *line* leads down to each living one, every member the parent of the next, all alive and all
different (`Line`, `Descent`). A fork extends a line (`LineGrows`); an exit breaks none because
the process has no child left (`LineKept`), which is where `parents_wait` is used. Being injective, a
line is no longer than there are processes (`LineIsShort`), so that the parents followed reach
its end (`OursIsAlive`) if `Cardinality(Slots) <= Hops + 1`. The code follows 32
parents and does not ask how many processes there are: beneath a line of 34 it would declare a
run over that is not, and the hypothesis says just that. What `Descends` computes is recursive in the
number of parents; the lemmas about it (`ClimbExists`, `KernelClimbs`, `LineClimbs`) go by the
least counterexample (`First`, from the library's `WFMin`).

**Devices_proofs.** `WritesStayInPlace` from `fits_buffer`, and `TransfersHappen` from that and
`few_windows`: the invariant `Transferred` relates the completion flag a wait tests to the
data having been moved, `Chained` keeps the windows apart, and `Untouched` is the register.
`RequestsComeToAnEnd`, with no assumption on the driver, is the safety half of `RequestsEnd`: `CanGoOn`
says that at no point of a request the driver waits for what is not there, be it the status, a
window, a completion the emulator does not signal or its own lock, and `Ahead`, a number, gets
smaller with each of its steps; that a step which can be taken is taken is left to the fairness
TLC checks. The invariant `OnItsWay` says that the command block is as the driver made it until a
wait is over, and that the lock a driver must take again is the one it slept with and is free:
a wait that dropped another lock, or not that one, would stop it at `KRelock`.
`WindowsNeverShared` from `few_windows` alone: `Chained` says that the windows mapped are in a row,
modulo their number, and that the head of the list is behind the last. `LabelAlwaysFits`,
`KernelAlwaysRead`, `FilesOfTheirOwn` without assumptions of either kind.
Of the host files, from `HostFilesAssumption` and `CallsAssumption`: `OwnFiles` is the types plus that two
processes never have the same descriptor of /hosttar, and one in use is marked so; without it
another process's read would move a position that is not its own. Each action is shown to be a
step of `PosixFile`, under the mapping that takes a process's position from the working copy if
it is the current one and from its saved copy otherwise; the exchange is a stutter (`SamePos`). Of the boot image, from
`BootImageAssumption`: `MapIsRight`, for every block number below
the triple indirect range, `bmap` finds the block or finds it absent; it takes that quotient
and rest by `NIndir` are unique (`Unique`). `Prefix`: what has been read is a prefix
of the file, in whole blocks until the end.
Of the front end, from `FrontEndAssumption`: `RingKeepsOrder` (`RingInOrder`, the safety half of
`RingDrains`) by `RingInv`, which says that the ring's places from the consumer to the producer hold
the numbers behind the last drained; `Resolved` and `Indices` take the two remainders out of the
index arithmetic. `NothingIsLost` (`NothingLost`) by `LogInv`: `Logged` is the equations of
`AllKept` over values, so that a line's end (`LineEnds`) and a character (`CharComes`) are
separate lemmas and a full buffer is the one after the other, and `Spoke` adds to `Spoken`
that the last console line is among those printed, and is the last of them if that one was the
console's; without it a skip could name a line nobody saw. The texts are laid end to end by a
recursion, which `FlattenAppend` unrolls by a least counterexample (`FirstOf`).

**WebSession_proofs.** From `WebAssumption`, for any ring, output buffer and number of boots:
`ScreenIsComplete` and `ImagesAreWhole` (`BootsFromImages`) without another hypothesis, and
`InputInOrder` (`TypedInOrder`) if `"keys" \notin Impatient`, that is, if no key is sent before the machine
runs; with such keys it is false (below), while an early end of the input does no harm to
it. `Base` holds the types and, in `Stages`, which announcements may be in the queue to the page
at which point of a boot: "running" only behind whole images, and nothing behind "exit". `Shown`
is the screen's equation in every state, with the buffer empty once the worker is over. For the
input, `InOrder` is the order of the bytes by their numbers (`Rising`) with none above `typed`;
`HeldBack` says that no byte waits in `pendingInput` when the emulator is there, without which
a byte taken into the ring would overtake it; `Starting` that the message taken at the import
is the start and not a key; and `EofIsLast` that behind an eof in the queue, and in all of it once
the ring has its eof flag, there are only bytes typed later. The queue's data and the push into the
ring are folds. `FoldExists` unrolls a `FoldLeft` to a function on prefixes, by a least
counterexample (`LeastOf`); `DataAppend`, `DataHead` and `PushedIs` (a push keeps a prefix of what
is pushed, and all of it if it fits) are what the actions need.

**Idioms_proofs.** All four properties of the run `idioms`: `BranchesAlwaysMeanRelations`,
`BitsAlwaysMeanNumbers`, `ArithmeticAlwaysAgrees` and `MemoryAlwaysBigEndian`, for words of any
width that is a multiple of four and at least 12, any operands, any programs of the families and any
floating-point numbers. The assumptions are the types of the constants
(`InstructionsAssumption`, `FloatsAssumption`, `WordsAssumption`) and that the programs are of the
families (`IdiomsAssumption`). Nothing is assumed of the operands' values: the most negative number, a
divisor of zero and a quotient that does not fit are among the cases.

The first half is about numbers. `Number` is a sum over bits, so a word means what it does
because of lemmas that go by induction on the number of bits (`Induction`, from the
well-foundedness of the naturals; `Recursion` unrolls `Two` and `Sum`): below n bits a sum is
below `Two[n]`, two sets with the same bits below n have the same sum and the other way round
(`SumOfSame`), and a sum is the sum of its lower n bits and `Two[n]` times that of what is left after
shifting them out (`SumSplit`). From these come that `Shr` divides, that a mask takes the remainder,
that `WordOf` and `Number` undo each other modulo `Two[W]`, and that `Signed` orders words as
two's complement does. `Alike`, equality modulo `Two[W]`, is kept by addition, subtraction and multiplication,
and a multiplication that overflows in between does no harm to the rest of a division (`RestAlike`).
Joint shifts (`Joined`) give bytes their place: a word and its bytes are related by
`Spelled`, bit by bit, and only once by their numbers.

The second half runs the sequences. A property speaks of a sequence that is over; on its
own it is not inductive, since it says nothing of the registers in between. For each family
there is an invariant (`CompareRuns`, `ReplaceRuns`, `DivideRuns`, `ThroughRuns`, ...) that gives at each
instruction what the ones before it have left in terms of registers 2 and 3, which no sequence writes.
`Performed` says once for all instructions what a step does, so that the lemma of a family has only
the cases of `at`. `Typed` is `TypeOK` and that the program is of the families; that these do not
overlap where the properties tell them apart by their instructions is `Sorted`.

Only model-checked: `TypeOK` of
`Devices`; and every liveness property (the provers do not reason about fairness and ENABLED here).
The library's induction theorems take an operator as a parameter and cannot be used, so that
whatever is proved of a recursion or a fold goes by a least counterexample, as in `Tty_proofs`,
`Session_proofs`, `WebSession_proofs`, `Devices_proofs` and `Idioms_proofs`.

## Where the code and its documentation part

Shown by a run (the findings of `PROJECT.json` quote the lines):

- a fault in the delay slot of a taken branch loses the branch (`cpu_slot_fault`);
- a served read into a page shared after a fork writes the shared page (`mem_served_cow`).

Met while modelling, and reproducible by changing a constant of a passing run:

- the 25th process and all later ones share one set of descriptor flags (console.c 871):
  in `fd` with `FDSETS = 2` `Isolated` fails;
- a RETURN whose CR arrives alone is two keystrokes in raw mode (console.c 532): in `con_keys`
  with the split RETURN among the raw keys `ReadsWhatWasTyped` fails;
- keys sent before the machine runs can overtake earlier ones (nx88-worker.js 174): in `web`
  with `Impatient = {"keys"}` `TypedInOrder` fails;
- without `parents_wait`, a run is declared over while an orphan is alive (`Runs_Program`);
  without `spins_in_swtch`, it is given up while a process sleeps on the clock
  (`DeadlockIsReal`);
- without `fits_buffer`, a long transfer is cut and reported complete (devices.c 322);
  without `few_windows`, two windows of a request coincide (cpu.c 1086);
- dup of a descriptor of the raw disk starts at position 0 (sysmode.c 433), and dup2 and fork copy
  the position, where Unix shares it: `HostFiles` leaves these calls out;
- descriptors of /hosttar are the same for all processes, are not inherited by dup, and are not
  given back when a process exits without closing them: after 24 of those an open goes to
  the kernel, which has no such file (`OpenHost`, `KExit`);
- an open whose path is not in memory is not recognised as one of the disk or of /hosttar;
- an image smaller than a cylinder is labelled as one (devices.c 240); `LabelFits` excludes it;
- triple indirect blocks are read as zeros (ffs.c 98);
- `ext` of a field that crosses bit 31 is not sign-extended, nor is one of width 0 (cpu.c
  813-816); `FieldsHoldNumbers` speaks of fields inside the word;
- sub-operations of the opcode 0x3C that are not known do nothing, without an exception;
- the signed division of the most negative number by -1, and the truncation of a float out of
  range, are undefined in C (cpu.c 1449, 1490);

- without `child_first`, a child inherits the flags its parent has when the child makes its
  first call, not those it had at the fork;
- without `keeps_stdin`, a process that has closed its standard descriptors is seeded
  again at its next call (console.c 894 infers "has no set yet" from the contents);
- without `open_source`, dup2 moves the flags although the kernel refuses the call;
- without `atomic_calls`, another process's trap or return between a watched call and its
  return takes or loses the mark;
- without `request_present`, the block ioctl reads its argument block from a missing
  page, and the fault is delivered after the call was served;
- with `Switches = TRUE`, FIONREAD counts the rest of a cooked line after a change to raw
  mode, where no read returns it (console.c 455), and `ReadyMeansReady` fails;
- with CR and FF both in the raw keys, a byte 0xff read one too far after a bare CR is
  pushed back decoded and decoded again (console.c 534): `ReadyMeansReady` fails, and with
  `MaxKeys = 4` so does `ReadsWhatWasTyped`;
- with raw among the modes whose keys are cut up, FIONREAD counts the first half of a 0xff, and the
  read waits for the second: `ReadyMeansReady` fails;
- FIONREAD counts bytes of telnet commands, which a read swallows; `ReadyMeansReady`
  excludes them;
- with `MaxMasked` of half the counter's range or more, a deadline long past looks
  far in the future;
- `kcall` takes the counter back when it returns, while times the called function has
  stored stay where they were;
- with `Impatient = {"eof"}`, an eof sent before the emulator is instantiated is dropped
  where input would be kept (nx88-worker.js 208), and `EofEndsSession` fails;
- a trap enters with DMT0 as the last fault left it; `AccessDescribed` says nothing of
  traps for that reason;
- without `sync_last`, a session that syncs, writes on and ends gets no warning, although
  its metadata did not reach the image (sysmode.c 212-233): `QuietEndIsClean` fails.

## What is not modelled

- The packing of doubles into register pairs, arithmetic on floating-point numbers and
  the rounding modes: the host's.
- Sub-operations that decode to nothing, and the second entry point's debugging options.
- The code side's translation cache, which works as the data side's does; block
  translations; `scratch_base`; devmap; the fallback walk and the CMMU probe commands; the
  forced acknowledgement of a TLB shootdown.
- CMRAM, a second memory behind a select and a data register; the TCS mailbox, which takes a
  command at the store (devices.c 160-169); the status ports.
- Console output, which has no state beyond the connection; accepting, losing and
  regaining a client; the stdio transport.
- dup and fork of descriptors of the raw disk (their flags are in `FdSets`).
- The kernel's locks around the intercepted sleeps of the buffer cache, and transfers of
  several blocks there.
- Of the launch, what is written into the stub, the stack and the trampoline; recognising
  the end of the boot; the traces.
- Parsing an a.out header and copying its segments; the user-mode interpreter; option parsing,
  page layout, the web server, the offline research tools, the vendored terminal.
- Races between threads: there are none; the emulator is one thread, and in the browser
  page and worker share nothing.

## Plan

Built so far, in this order: `Cpu88100`, `UserMemory`, `FdSets`, `Console`, `Interrupts`,
`BlockIO`, `WebSession` with their abstract specifications; then `Session`, `Devices`,
`Instructions` and `Idioms`. What is left, in the order of its weight:

1. Completing `UserMemory`: block translations, the code cache, the supervisor's scratch pages.
2. `Transport`: accepting, losing and regaining a client, output and its line endings.
3. `BlockIO` with transfers of several blocks and `biowait`'s lock, over `Adaptor`'s driver.
4. Theorems: the safety half of `TypeOK` of `Devices`.

Runs that pass have taken the place of runs that only show a counterexample; those are
described above.

## Running

    tlc -workers 2 -config cpu.cfg MCCpu88100
    tlapm Processor_proofs.tla

Each configuration belongs to the module named for it in `PROJECT.json`.
