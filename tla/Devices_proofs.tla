--------------------------- MODULE Devices_proofs ---------------------------
(***************************************************************************)
(* For sizes of any kind: the kernel read out of the boot image is the     *)
(* file, byte for byte, a transfer has happened when the driver goes on,   *)
(* the windows of a request are different ones, a write stays in its       *)
(* place, the label fits the image, the diagnostic ring keeps its order,   *)
(* the boot log loses nothing, and the host files are files of each        *)
(* process's own.                                                          *)
(***************************************************************************)
EXTENDS Devices, SequenceTheorems, WellFoundedInduction, TLAPS

(***************************************************************************)
(* The host files.  The calls on the raw disk and on /hosttar are calls on *)
(* files of each process's own, under the mapping of HostFiles; what it    *)
(* needs is that a descriptor of /hosttar that a process has is in use and *)
(* no other process's, and that the exchange of the positions of the disk  *)
(* leaves every other process's alone (Exchange).                          *)
(***************************************************************************)

(* The inductive invariant.                                                *)
OwnFiles ==
  /\ image \in Seq({0, 1})
  /\ disk_off \in [Fds -> Nat] /\ doff \in [Procs -> [Fds -> Nat]]
  /\ fdcur \in Procs
  /\ raw \in [Procs -> Fds \cup {None}] /\ tar \in [Procs -> HostFds \cup {None}]
  /\ \A p \in Procs : tar[p] # None => tar[p] \in fd_host
  /\ \A p, q \in Procs : tar[p] # None /\ p # q => tar[p] # tar[q]
  /\ fd_host \subseteq HostFds /\ host_off \in [HostFds -> Nat]
  /\ call \in [Procs -> Calls \cup {NoCall}]

LEMMA NotANumber == None \notin Fds /\ None \notin HostFds
  BY HostFilesAssumption DEF None

LEMMA OffsetsTyped ==
  ASSUME OwnFiles, NEW p \in Procs
  PROVE  OffsetsOf(p) \in [Fds -> Nat]
  BY DEF OwnFiles, OffsetsOf

(* The positions as the abstract files have them.                          *)
Pos ==
  [p \in Procs |->
     [disk |-> IF raw[p] = None THEN -1 ELSE DiskPos(p),
      host |-> IF tar[p] = None THEN -1 ELSE host_off[tar[p]]]]

Contents == Archive \o [k \in 1 .. Padding |-> 0]

LEMMA MaxOfTwo ==
  ASSUME NEW a \in Int, NEW b \in Int
  PROVE  Max({a, b}) = IF a > b THEN a ELSE b
  BY DEF Max

LEMMA Written ==
  ASSUME OwnFiles, NEW o \in Nat, NEW t \in Seq({0, 1})
  PROVE  /\ ToImage(o, t) \in Seq({0, 1})
         /\ ToImage(o, t) = files!Overwritten(image, o, t)
<1>1. Len(image) \in Nat /\ Len(t) \in Nat
  BY LenProperties DEF OwnFiles
<1>2. Max({o + Len(t), Len(image)}) = IF o + Len(t) > Len(image) THEN o + Len(t) ELSE Len(image)
  BY <1>1, MaxOfTwo
<1>3. ToImage(o, t) = files!Overwritten(image, o, t)
  BY <1>2 DEF ToImage, files!Overwritten
<1> DEFINE n == IF o + Len(t) > Len(image) THEN o + Len(t) ELSE Len(image)
           e(k) == IF k \in o + 1 .. o + Len(t) THEN t[k - o]
                   ELSE IF k <= Len(image) THEN image[k] ELSE 0
<1>4. n \in Nat
  BY <1>1
<1>5. ASSUME NEW k \in 1 .. n PROVE e(k) \in {0, 1}
  <2>1. CASE k \in o + 1 .. o + Len(t)
    <3>1. k - o \in 1 .. Len(t)
      BY <2>1, <1>1
    <3> QED
      BY <3>1, <2>1, ElementOfSeq
  <2>2. CASE k \notin o + 1 .. o + Len(t) /\ k <= Len(image)
    <3>1. k \in 1 .. Len(image)
      BY <2>2, <1>1
    <3> QED
      BY <3>1, <2>2, ElementOfSeq DEF OwnFiles
  <2> QED
    BY <2>1, <2>2
<1>6. ToImage(o, t) = [k \in 1 .. n |-> e(k)]
  BY <1>2 DEF ToImage
<1> HIDE DEF n, e
<1>7. [k \in 1 .. n |-> e(k)] \in Seq({0, 1})
  BY <1>4, <1>5, IsASeq
<1> QED
  BY <1>3, <1>6, <1>7

(* A call is over, but for its result and p's positions.                   *)
Over(p) ==
  /\ fdcur' = p /\ doff' = [doff EXCEPT ![fdcur] = disk_off]
  /\ call' = [call EXCEPT ![p] = NoCall]

(* What a call leaves of the exchange and of the calls.                    *)
LEMMA OverTyped ==
  ASSUME OwnFiles, NEW p \in Procs, disk_off' \in [Fds -> Nat], Over(p)
  PROVE  /\ doff' \in [Procs -> [Fds -> Nat]]
         /\ fdcur' \in Procs
         /\ call' \in [Procs -> Calls \cup {NoCall}]
         /\ \A q \in Procs : OffsetsOf(q)' = IF q = p THEN disk_off' ELSE OffsetsOf(q)
<1>1. /\ fdcur' = p /\ doff' = [doff EXCEPT ![fdcur] = disk_off]
      /\ call' = [call EXCEPT ![p] = NoCall]
  BY DEF Over
<1>2. /\ doff \in [Procs -> [Fds -> Nat]] /\ fdcur \in Procs
      /\ disk_off \in [Fds -> Nat] /\ call \in [Procs -> Calls \cup {NoCall}]
  BY DEF OwnFiles
<1>3. doff' \in [Procs -> [Fds -> Nat]] /\ call' \in [Procs -> Calls \cup {NoCall}]
  BY <1>1, <1>2
<1>4. ASSUME NEW q \in Procs
      PROVE  OffsetsOf(q)' = IF q = p THEN disk_off' ELSE OffsetsOf(q)
  <2>1. CASE q = p
    BY <2>1, <1>1 DEF OffsetsOf
  <2>2. CASE q # p
    <3>1. OffsetsOf(q)' = doff'[q]
      BY <2>2, <1>1 DEF OffsetsOf
    <3>2. doff'[q] = IF q = fdcur THEN disk_off ELSE doff[q]
      BY <1>1, <1>2
    <3> QED
      BY <3>1, <3>2, <2>2 DEF OffsetsOf
  <2> QED
    BY <2>1, <2>2
<1> QED
  BY <1>1, <1>3, <1>4

LEMMA PosValue ==
  ASSUME OwnFiles, NEW p \in Procs, raw[p] # None
  PROVE  raw[p] \in Fds /\ DiskPos(p) \in Nat
  BY OffsetsTyped DEF OwnFiles, DiskPos

LEMMA CallTyped ==
  ASSUME OwnFiles, NEW p \in Procs, call[p].op # "none"
  PROVE  /\ call[p] \in Calls
         /\ call[p] \in [op : {"open", "close", "lseek", "read", "write", "getblock", "putblock"},
                         file : {"disk", "host"}, whence : {"set", "cur", "end"},
                         n : Int, x : {0, 1}]
         /\ call[p].op # "lseek" => call[p].n \in Nat
         /\ call[p].op \in {"write", "getblock", "putblock"} => call[p].file = "disk"
<1>1. call[p] \in Calls
  BY DEF OwnFiles, NoCall
<1> QED
  BY <1>1, CallsAssumption

(***************************************************************************)
(* Steps of a process p leave the files of the others alone.               *)
(***************************************************************************)
Others(p) ==
  \A q \in Procs \ {p} :
    /\ raw'[q] = raw[q] /\ tar'[q] = tar[q] /\ OffsetsOf(q)' = OffsetsOf(q)
    /\ tar[q] # None => host_off'[tar[q]] = host_off[tar[q]]

PosDisk(q) == IF raw[q] = None THEN -1 ELSE DiskPos(q)
PosHost(q) == IF tar[q] = None THEN -1 ELSE host_off[tar[q]]

LEMMA OthersPos ==
  ASSUME NEW p \in Procs, Others(p), NEW q \in Procs \ {p}
  PROVE  PosDisk(q)' = PosDisk(q) /\ PosHost(q)' = PosHost(q)
<1>1. raw'[q] = raw[q] /\ tar'[q] = tar[q] /\ OffsetsOf(q)' = OffsetsOf(q)
  BY DEF Others
<1>2. tar[q] # None => host_off'[tar[q]] = host_off[tar[q]]
  BY DEF Others
<1>3. PosDisk(q)' = PosDisk(q)
  BY <1>1 DEF PosDisk, DiskPos
<1>4. PosHost(q)' = PosHost(q)
  BY <1>1, <1>2 DEF PosHost
<1> QED
  BY <1>3, <1>4

LEMMA PosIs == Pos = [q \in Procs |-> [disk |-> PosDisk(q), host |-> PosHost(q)]]
  BY DEF Pos, PosDisk, PosHost

LEMMA PosPrime == Pos' = [q \in Procs |-> [disk |-> PosDisk(q)', host |-> PosHost(q)']]
  BY DEF Pos, PosDisk, PosHost

(* A call that answers with p's file f at a position is the abstract one.  *)
LEMMA AnswersDisk ==
  ASSUME NEW p \in Procs, Others(p), PosHost(p)' = PosHost(p)
  PROVE  Pos' = [Pos EXCEPT ![p]["disk"] = PosDisk(p)']
<1>1. \A q \in Procs \ {p} : PosDisk(q)' = PosDisk(q) /\ PosHost(q)' = PosHost(q)
  BY OthersPos
<1>2. Pos' = [q \in Procs |-> IF q = p THEN [disk |-> PosDisk(p)', host |-> PosHost(p)]
                               ELSE [disk |-> PosDisk(q), host |-> PosHost(q)]]
  BY <1>1, PosPrime
<1>3. [Pos EXCEPT ![p]["disk"] = PosDisk(p)']
      = [q \in Procs |-> IF q = p THEN [Pos[p] EXCEPT !["disk"] = PosDisk(p)'] ELSE Pos[q]]
  BY PosIs
<1>4. [Pos[p] EXCEPT !["disk"] = PosDisk(p)'] = [disk |-> PosDisk(p)', host |-> PosHost(p)]
  BY PosIs
<1>5. \A q \in Procs : Pos[q] = [disk |-> PosDisk(q), host |-> PosHost(q)]
  BY PosIs
<1> QED
  BY <1>2, <1>3, <1>4, <1>5

LEMMA AnswersHost ==
  ASSUME NEW p \in Procs, Others(p), PosDisk(p)' = PosDisk(p)
  PROVE  Pos' = [Pos EXCEPT ![p]["host"] = PosHost(p)']
<1>1. \A q \in Procs \ {p} : PosDisk(q)' = PosDisk(q) /\ PosHost(q)' = PosHost(q)
  BY OthersPos
<1>2. Pos' = [q \in Procs |-> IF q = p THEN [disk |-> PosDisk(p), host |-> PosHost(p)']
                               ELSE [disk |-> PosDisk(q), host |-> PosHost(q)]]
  BY <1>1, PosPrime
<1>3. [Pos EXCEPT ![p]["host"] = PosHost(p)']
      = [q \in Procs |-> IF q = p THEN [Pos[p] EXCEPT !["host"] = PosHost(p)'] ELSE Pos[q]]
  BY PosIs
<1>4. [Pos[p] EXCEPT !["host"] = PosHost(p)'] = [disk |-> PosDisk(p), host |-> PosHost(p)']
  BY PosIs
<1>5. \A q \in Procs : Pos[q] = [disk |-> PosDisk(q), host |-> PosHost(q)]
  BY PosIs
<1> QED
  BY <1>2, <1>3, <1>4, <1>5

LEMMA SamePos ==
  ASSUME NEW p \in Procs, Others(p),
         PosDisk(p)' = PosDisk(p), PosHost(p)' = PosHost(p)
  PROVE  Pos' = Pos
<1>1. \A q \in Procs : PosDisk(q)' = PosDisk(q) /\ PosHost(q)' = PosHost(q)
  BY OthersPos
<1> QED
  BY <1>1, PosPrime, PosIs

(***************************************************************************)
(* Each action keeps the invariant and is a step of the abstract files, or *)
(* none.                                                                   *)
(***************************************************************************)
Step(p) == OwnFiles' /\ (files!PNext \/ UNCHANGED files!pvars)

(* A served call on the raw disk.                                          *)
LEMMA DiskAnswer ==
  ASSUME OwnFiles, NEW p \in Procs, Over(p), UNCHANGED hostpart,
         disk_off' \in [Fds -> Nat],
         raw' \in [Procs -> Fds \cup {None}],
         \A q \in Procs \ {p} : raw'[q] = raw[q],
         image' \in Seq({0, 1})
  PROVE  /\ OwnFiles'
         /\ Pos' = [Pos EXCEPT ![p]["disk"] =
                      IF raw'[p] = None THEN -1 ELSE disk_off'[raw'[p]]]
<1>1. /\ doff' \in [Procs -> [Fds -> Nat]]
      /\ fdcur' \in Procs
      /\ call' \in [Procs -> Calls \cup {NoCall}]
      /\ \A q \in Procs : OffsetsOf(q)' = IF q = p THEN disk_off' ELSE OffsetsOf(q)
  BY OverTyped
<1>2. fd_host' = fd_host /\ host_off' = host_off /\ tar' = tar
  BY DEF hostpart
<1>3. OwnFiles'
  BY <1>1, <1>2 DEF OwnFiles
<1>4. Others(p)
  BY <1>1, <1>2 DEF Others
<1>5. PosHost(p)' = PosHost(p)
  BY <1>2 DEF PosHost
<1>6. PosDisk(p)' = IF raw'[p] = None THEN -1 ELSE disk_off'[raw'[p]]
  BY <1>1 DEF PosDisk, DiskPos
<1> QED
  BY <1>3, <1>4, <1>5, <1>6, AnswersDisk

LEMMA PosAt ==
  ASSUME NEW p \in Procs
  PROVE  /\ Pos[p]["disk"] = PosDisk(p) /\ Pos[p]["host"] = PosHost(p)
         /\ Pos[p].disk = PosDisk(p) /\ Pos[p].host = PosHost(p)
  BY PosIs

(* An open file's position is not Closed.                                  *)
LEMMA IsOpen ==
  ASSUME OwnFiles, NEW p \in Procs, raw[p] # None
  PROVE  /\ PosDisk(p) = DiskPos(p) /\ PosDisk(p) \in Nat /\ PosDisk(p) # -1
         /\ Pos[p].disk = DiskPos(p) /\ Pos[p]["disk"] = DiskPos(p)
  BY PosValue, PosAt DEF PosDisk

LEMMA OpenDiskStep ==
  ASSUME OwnFiles, NEW p \in Procs, OpenDisk(p)
  PROVE  Step(p)
<1>1. /\ call[p].op = "open" /\ call[p].file = "disk" /\ raw[p] = None
      /\ image' = image /\ UNCHANGED hostpart /\ Over(p) /\ got' = << >>
      /\ image' \in Seq({0, 1})
  BY DEF OpenDisk, Served, Switched, Over, OwnFiles
<1>2. Pos[p]["disk"] = -1
  BY <1>1, PosAt DEF PosDisk
<1>3. OwnFiles' /\ \E position \in {0, -1} : Pos' = [Pos EXCEPT ![p]["disk"] = position]
  <2>1. ASSUME NEW fd \in Fds, raw' = [raw EXCEPT ![p] = fd],
               Served(p, [OffsetsOf(p) EXCEPT ![fd] = 0], << >>)
        PROVE  OwnFiles' /\ Pos' = [Pos EXCEPT ![p]["disk"] = 0]
    <3>1. disk_off' \in [Fds -> Nat] /\ disk_off'[fd] = 0
      BY <2>1, OffsetsTyped DEF Served, Switched
    <3>2. /\ raw' \in [Procs -> Fds \cup {None}]
          /\ \A q \in Procs \ {p} : raw'[q] = raw[q]
          /\ raw'[p] = fd
      BY <2>1 DEF OwnFiles
    <3>3. raw'[p] # None
      BY <3>2, NotANumber
    <3> QED
      BY <1>1, <3>1, <3>2, <3>3, DiskAnswer
  <2>2. ASSUME raw' = raw, Served(p, OffsetsOf(p), << >>)
        PROVE  OwnFiles' /\ Pos' = [Pos EXCEPT ![p]["disk"] = -1]
    <3>1. disk_off' \in [Fds -> Nat] /\ raw' \in [Procs -> Fds \cup {None}]
      BY <2>2, OffsetsTyped DEF Served, Switched, OwnFiles
    <3> QED
      BY <1>1, <2>2, <3>1, DiskAnswer
  <2> QED
    BY <2>1, <2>2 DEF OpenDisk
<1>4. files!Open(p)
  BY <1>1, <1>2, <1>3
     DEF files!Open, files!Answered, files!Closed, files!NoCall, NoCall, Pos, Over
<1> QED
  BY <1>3, <1>4 DEF Step, files!PNext

LEMMA CloseDiskStep ==
  ASSUME OwnFiles, NEW p \in Procs, CloseDisk(p)
  PROVE  Step(p)
<1>1. /\ call[p].op = "close" /\ call[p].file = "disk"
      /\ raw' = [raw EXCEPT ![p] = None]
      /\ Over(p) /\ got' = << >> /\ disk_off' \in [Fds -> Nat]
      /\ image' = image /\ UNCHANGED hostpart
  BY OffsetsTyped DEF CloseDisk, Served, Switched, Over
<1>2. /\ raw' \in [Procs -> Fds \cup {None}] /\ image' \in Seq({0, 1})
      /\ raw'[p] = None /\ \A q \in Procs \ {p} : raw'[q] = raw[q]
  BY <1>1 DEF OwnFiles
<1>3. OwnFiles' /\ Pos' = [Pos EXCEPT ![p]["disk"] = -1]
  BY <1>1, <1>2, DiskAnswer
<1>4. files!Close(p)
  BY <1>1, <1>3
     DEF files!Close, files!Answered, files!Closed, files!NoCall, NoCall, Pos, Over
<1> QED
  BY <1>3, <1>4 DEF Step, files!PNext

(* The calls that leave p's descriptor open.                               *)
LEMMA DiskMoves ==
  ASSUME OwnFiles, NEW p \in Procs, Over(p), UNCHANGED hostpart,
         raw[p] # None, raw' = raw, image' \in Seq({0, 1}),
         NEW to \in Nat, disk_off' = MovedTo(p, to)
  PROVE  OwnFiles' /\ Pos' = [Pos EXCEPT ![p]["disk"] = to]
<1>1. raw[p] \in Fds /\ raw' \in [Procs -> Fds \cup {None}]
  BY DEF OwnFiles
<1>2. disk_off' \in [Fds -> Nat] /\ disk_off'[raw[p]] = to
  BY <1>1, OffsetsTyped DEF MovedTo
<1> QED
  BY <1>1, <1>2, DiskAnswer

LEMMA DiskStays ==
  ASSUME OwnFiles, NEW p \in Procs, Over(p), UNCHANGED hostpart,
         raw[p] # None, raw' = raw, image' \in Seq({0, 1}),
         disk_off' = OffsetsOf(p)
  PROVE  OwnFiles' /\ Pos' = [Pos EXCEPT ![p]["disk"] = Pos[p]["disk"]]
<1>1. disk_off' \in [Fds -> Nat] /\ raw' \in [Procs -> Fds \cup {None}]
  BY OffsetsTyped DEF OwnFiles
<1>2. Pos[p]["disk"] = disk_off'[raw'[p]]
  BY IsOpen DEF DiskPos
<1> QED
  BY <1>1, <1>2, DiskAnswer

LEMMA SeekDiskStep ==
  ASSUME OwnFiles, NEW p \in Procs, SeekDisk(p)
  PROVE  Step(p)
<1> DEFINE c == call[p]
           base == CASE c.whence = "set" -> 0
                     [] c.whence = "cur" -> DiskPos(p)
                     [] c.whence = "end" -> Len(image)
           to == c.n + base
<1>1. /\ c.op = "lseek" /\ c.file = "disk" /\ raw[p] # None
      /\ Within(to) /\ Over(p) /\ disk_off' = MovedTo(p, to) /\ got' = <<to>>
      /\ image' = image /\ raw' = raw /\ UNCHANGED hostpart
  BY DEF SeekDisk, Uses, diskpart, Served, Switched, Over
<1>2. c.n \in Int /\ c.whence \in {"set", "cur", "end"}
  BY <1>1, CallTyped
<1>3. base \in Int
  <2>1. Len(image) \in Nat /\ DiskPos(p) \in Nat
    BY <1>1, PosValue, LenProperties DEF OwnFiles
  <2> QED
    BY <1>2, <2>1
<1>4. base = CASE c.whence = "set" -> 0
               [] c.whence = "cur" -> Pos[p][c.file]
               [] c.whence = "end" -> IF c.file = "disk" THEN Len(image) ELSE Len(Contents)
  BY <1>1, <1>2, IsOpen
<1> HIDE DEF base
<1>5. to = base + c.n
  BY <1>2, <1>3
<1>6. to \in Nat
  BY <1>1, HostFilesAssumption DEF Within
<1>7. image' \in Seq({0, 1})
  BY <1>1 DEF OwnFiles
<1>8. Pos[p][c.file] # -1
  BY <1>1, IsOpen
<1> HIDE DEF to
<1>9. OwnFiles' /\ Pos' = [Pos EXCEPT ![p][c.file] = to]
  BY <1>1, <1>6, <1>7, DiskMoves
<1>10. files!Seek(p)
  BY <1>1, <1>4, <1>5, <1>8, <1>9
     DEF files!Seek, files!Answered, files!Closed, files!NoCall, NoCall, Pos, Contents, Over
<1> QED
  BY <1>9, <1>10 DEF Step, files!PNext

LEMMA ReadDiskStep ==
  ASSUME OwnFiles, NEW p \in Procs, ReadDisk(p)
  PROVE  Step(p)
<1> DEFINE o == DiskPos(p)
           n == call[p].n
           to == o + n
<1>1. /\ call[p].op = "read" /\ call[p].file = "disk" /\ raw[p] # None
      /\ Over(p) /\ disk_off' = MovedTo(p, to) /\ got' = FromImage(o, n)
      /\ image' = image /\ raw' = raw /\ UNCHANGED hostpart
  BY DEF ReadDisk, Uses, diskpart, Served, Switched, Over
<1>2. n \in Nat /\ o \in Nat /\ to \in Nat
  BY <1>1, CallTyped, PosValue
<1>3. image' \in Seq({0, 1})
  BY <1>1 DEF OwnFiles
<1>4. got' = files!Cells(image, o, n)
  BY <1>1 DEF FromImage, files!Cells
<1>5. Pos[p].disk = o /\ Pos[p].disk # -1
  BY <1>1, <1>2, IsOpen
<1> HIDE DEF to
<1>6. OwnFiles' /\ Pos' = [Pos EXCEPT ![p]["disk"] = to]
  BY <1>1, <1>2, <1>3, DiskMoves
<1> HIDE DEF o, n
<1>7. files!ReadDisk(p)
  BY <1>1, <1>4, <1>5, <1>6
     DEF files!ReadDisk, files!Answered, files!Closed, files!NoCall, NoCall, Pos, Over, n, to
<1> QED
  BY <1>6, <1>7 DEF Step, files!PNext

LEMMA WriteDiskStep ==
  ASSUME OwnFiles, NEW p \in Procs, WriteDisk(p)
  PROVE  Step(p)
<1> DEFINE o == DiskPos(p)
           n == call[p].n
           t == [k \in 1 .. n |-> call[p].x]
           to == o + n
<1>1. /\ call[p].op = "write" /\ call[p].file = "disk" /\ raw[p] # None
      /\ Over(p) /\ disk_off' = MovedTo(p, to) /\ got' = << >>
      /\ image' = ToImage(o, t) /\ raw' = raw /\ UNCHANGED hostpart
  BY DEF WriteDisk, Uses, Served, Switched, Over
<1>2. n \in Nat /\ o \in Nat /\ to \in Nat /\ call[p].x \in {0, 1}
  BY <1>1, CallTyped, PosValue
<1>3. t \in Seq({0, 1})
  BY <1>2
<1>4. Pos[p].disk = o /\ Pos[p].disk # -1
  BY <1>1, <1>2, IsOpen
<1> HIDE DEF o, to
<1>5. image' \in Seq({0, 1}) /\ image' = files!Overwritten(image, o, t)
  <2> HIDE DEF t
  <2> QED
    BY <1>1, <1>2, <1>3, Written
<1>6. OwnFiles' /\ Pos' = [Pos EXCEPT ![p]["disk"] = to]
  BY <1>1, <1>2, <1>5, DiskMoves
<1>7. files!WriteDisk(p)
  <2>1. image' = files!Overwritten(image, Pos[p].disk, [k \in 1 .. call[p].n |-> call[p].x])
    BY <1>4, <1>5
  <2>2. to = Pos[p].disk + call[p].n
    BY <1>4 DEF to
  <2> HIDE DEF n, t
  <2> QED
    BY <1>1, <1>4, <1>6, <2>1, <2>2
       DEF files!WriteDisk, files!Answered, files!Closed, files!NoCall, NoCall, Pos, Over
<1> QED
  BY <1>6, <1>7 DEF Step, files!PNext

LEMMA TransferStep ==
  ASSUME OwnFiles, NEW p \in Procs, GetBlock(p) \/ PutBlock(p)
  PROVE  Step(p)
<1>1. /\ call[p].op \in {"getblock", "putblock"} /\ call[p].file = "disk" /\ raw[p] # None
      /\ Over(p) /\ disk_off' = OffsetsOf(p) /\ raw' = raw /\ UNCHANGED hostpart
  BY DEF GetBlock, PutBlock, Uses, diskpart, Served, Switched, Over
<1>2. call[p].n \in Nat /\ call[p].x \in {0, 1} /\ <<call[p].x>> \in Seq({0, 1})
  BY <1>1, CallTyped
<1>3. Pos[p].disk # -1 /\ Pos[p].disk = Pos[p]["disk"]
  BY <1>1, IsOpen
<1>4. CASE GetBlock(p)
  <2>1. /\ call[p].op = "getblock" /\ image' = image /\ image' \in Seq({0, 1})
        /\ got' = files!Cells(image, call[p].n, 1)
    BY <1>4 DEF GetBlock, Uses, diskpart, Served, FromImage, files!Cells, OwnFiles
  <2>2. OwnFiles' /\ Pos' = [Pos EXCEPT ![p]["disk"] = Pos[p]["disk"]]
    BY <1>1, <2>1, DiskStays
  <2>3. files!Transfer(p)
    BY <1>1, <1>3, <2>1, <2>2
       DEF files!Transfer, files!Answered, files!Closed, files!NoCall, NoCall, Pos, Over
  <2> QED
    BY <2>2, <2>3 DEF Step, files!PNext
<1>5. CASE PutBlock(p)
  <2>1. /\ call[p].op = "putblock" /\ got' = << >>
        /\ image' = ToImage(call[p].n, <<call[p].x>>)
    BY <1>5 DEF PutBlock, Uses, Served
  <2>2. image' \in Seq({0, 1}) /\ image' = files!Overwritten(image, call[p].n, <<call[p].x>>)
    BY <1>2, <2>1, Written
  <2>3. OwnFiles' /\ Pos' = [Pos EXCEPT ![p]["disk"] = Pos[p]["disk"]]
    BY <1>1, <2>2, DiskStays
  <2>4. files!Transfer(p)
    BY <1>1, <1>3, <2>1, <2>2, <2>3
       DEF files!Transfer, files!Answered, files!Closed, files!NoCall, NoCall, Pos, Over
  <2> QED
    BY <2>3, <2>4 DEF Step, files!PNext
<1> QED
  BY <1>4, <1>5

(***************************************************************************)
(* /hosttar: what is done to p's descriptor is nothing to the others', as  *)
(* no two processes have the same.                                         *)
(***************************************************************************)
LEMMA HostAnswer ==
  ASSUME OwnFiles, NEW p \in Procs, Over(p), UNCHANGED diskpart,
         disk_off' = OffsetsOf(p),
         NEW fd \in HostFds \cup {None}, tar' = [tar EXCEPT ![p] = fd],
         fd # None => fd \in fd_host',
         fd_host' \subseteq HostFds, host_off' \in [HostFds -> Nat],
         \A q \in Procs \ {p} : tar[q] # None =>
           tar[q] # fd /\ tar[q] \in fd_host' /\ host_off'[tar[q]] = host_off[tar[q]]
  PROVE  /\ OwnFiles'
         /\ Pos' = [Pos EXCEPT ![p]["host"] = IF fd = None THEN -1 ELSE host_off'[fd]]
<1>1. disk_off' \in [Fds -> Nat]
  BY OffsetsTyped
<1>2. /\ doff' \in [Procs -> [Fds -> Nat]]
      /\ fdcur' \in Procs
      /\ call' \in [Procs -> Calls \cup {NoCall}]
      /\ \A q \in Procs : OffsetsOf(q)' = OffsetsOf(q)
  BY <1>1, OverTyped
<1>3. image' = image /\ raw' = raw
  BY DEF diskpart
<1>4. tar' \in [Procs -> HostFds \cup {None}] /\ tar'[p] = fd
      /\ \A q \in Procs \ {p} : tar'[q] = tar[q]
  BY DEF OwnFiles
<1>5. \A q \in Procs : tar'[q] # None => tar'[q] \in fd_host'
  BY <1>4
<1>6. \A q, r \in Procs : tar'[q] # None /\ q # r => tar'[q] # tar'[r]
  <2> TAKE q, r \in Procs
  <2> HAVE tar'[q] # None /\ q # r
  <2>1. tar[q] # None /\ q # r => tar[q] # tar[r]
    BY DEF OwnFiles
  <2>2. CASE q = p
    BY <2>2, <1>4
  <2>3. CASE r = p
    BY <2>3, <1>4
  <2> QED
    BY <2>1, <2>2, <2>3, <1>4
<1>7. OwnFiles'
  BY <1>1, <1>2, <1>3, <1>4, <1>5, <1>6 DEF OwnFiles
<1>8. Others(p)
  BY <1>2, <1>3, <1>4 DEF Others
<1>9. PosDisk(p)' = PosDisk(p)
  BY <1>2, <1>3 DEF PosDisk, DiskPos
<1>10. PosHost(p)' = IF fd = None THEN -1 ELSE host_off'[fd]
  BY <1>4 DEF PosHost
<1> QED
  BY <1>7, <1>8, <1>9, <1>10, AnswersHost

LEMMA HostOwn ==
  ASSUME OwnFiles, NEW p \in Procs, tar[p] # None
  PROVE  /\ tar[p] \in HostFds /\ tar[p] \in fd_host /\ host_off[tar[p]] \in Nat
         /\ \A q \in Procs \ {p} : tar[q] # None => tar[q] # tar[p]
         /\ Pos[p]["host"] = host_off[tar[p]] /\ Pos[p].host = host_off[tar[p]]
         /\ Pos[p]["host"] # -1
<1>1. tar[p] \in HostFds /\ tar[p] \in fd_host
  BY DEF OwnFiles
<1>2. host_off[tar[p]] \in Nat
  BY <1>1 DEF OwnFiles
<1>3. \A q \in Procs \ {p} : tar[q] # None => tar[q] # tar[p]
  BY DEF OwnFiles
<1>4. PosHost(p) = host_off[tar[p]]
  BY DEF PosHost
<1>5. -1 \notin Nat
  OBVIOUS
<1> QED
  BY <1>1, <1>2, <1>3, <1>4, <1>5, PosAt

LEMMA ContentsAre ==
  /\ Contents \in Seq({0, 1}) /\ Len(Contents) = vsize /\ vsize \in Nat
  /\ Len(Archive) \in Nat
  /\ \A i \in 1 .. vsize : Contents[i] = IF i <= Len(Archive) THEN Archive[i] ELSE 0
<1> DEFINE zeros == [k \in 1 .. Padding |-> 0]
<1>1. Archive \in Seq({0, 1}) /\ Padding \in Nat
  BY HostFilesAssumption
<1>2. zeros \in Seq({0, 1}) /\ Len(zeros) = Padding
  BY <1>1
<1>3. Len(Archive) \in Nat
  BY <1>1, LenProperties
<1> DEFINE both == Archive \o zeros
<1>4. Contents = both
  BY DEF Contents
<1>5. \A i \in 1 .. Padding : zeros[i] = 0
  OBVIOUS
<1> HIDE DEF zeros
<1>6. /\ both \in Seq({0, 1}) /\ Len(both) = Len(Archive) + Len(zeros)
      /\ \A i \in 1 .. Len(Archive) + Len(zeros) :
           both[i] = IF i <= Len(Archive) THEN Archive[i] ELSE zeros[i - Len(Archive)]
  BY <1>1, <1>2, ConcatProperties
<1> HIDE DEF both
<1>7. \A i \in 1 .. vsize : both[i] = IF i <= Len(Archive) THEN Archive[i] ELSE 0
  <2> TAKE i \in 1 .. vsize
  <2>1. both[i] = IF i <= Len(Archive) THEN Archive[i] ELSE zeros[i - Len(Archive)]
    BY <1>2, <1>6 DEF vsize
  <2>2. i > Len(Archive) => i - Len(Archive) \in 1 .. Padding
    BY <1>1, <1>3 DEF vsize
  <2> QED
    BY <1>3, <1>5, <2>1, <2>2
<1> QED
  BY <1>1, <1>2, <1>3, <1>4, <1>6, <1>7 DEF vsize

Present(o, n) == SubSeq(Contents, o + 1, o + n)

LEMMA HostCount ==
  ASSUME NEW o \in Nat, NEW c \in Nat
  PROVE  /\ Wanted(o, c) \in Nat
         /\ Wanted(o, c) = IF o + c <= Len(Contents) THEN c
                           ELSE IF o < Len(Contents) THEN Len(Contents) - o ELSE 0
  BY ContentsAre DEF Wanted

(* Behind the archive come zeros, and then nothing.                        *)
LEMMA HostBytes ==
  ASSUME NEW o \in Nat, NEW n \in Nat, n = 0 \/ o + n <= vsize
  PROVE  FromArchive(o, n) = Present(o, n)
<1>1. vsize \in Nat /\ Len(Archive) \in Nat /\ Len(Contents) = vsize
      /\ Contents \in Seq({0, 1})
  BY ContentsAre
<1>2. n \in Nat
  OBVIOUS
<1>3. n = 0 \/ o + n <= vsize
  OBVIOUS
<1> DEFINE e(k) == IF o + k <= Len(Archive) THEN Archive[o + k] ELSE 0
           left == [k \in 1 .. n |-> e(k)]
           right == SubSeq(Contents, o + 1, o + n)
<1>4. \A k \in 1 .. n : e(k) = Contents[o + k] /\ Contents[o + k] \in {0, 1}
  <2> TAKE k \in 1 .. n
  <2>1. o + k \in 1 .. vsize
    BY <1>1, <1>2, <1>3
  <2>2. Contents[o + k] = IF o + k <= Len(Archive) THEN Archive[o + k] ELSE 0
    BY <2>1, ContentsAre
  <2>3. Contents[o + k] \in {0, 1}
    BY <2>1, <1>1, ElementOfSeq
  <2> QED
    BY <2>2, <2>3
<1>5. \A i \in o + 1 .. o + n : Contents[i] \in {0, 1}
  <2> TAKE i \in o + 1 .. o + n
  <2>1. i - o \in 1 .. n /\ o + (i - o) = i
    BY <1>2
  <2>2. \A k \in 1 .. n : Contents[o + k] \in {0, 1}
    BY <1>4
  <2> HIDE DEF e, left, right
  <2>3. Contents[o + (i - o)] \in {0, 1}
    BY <2>1, <2>2
  <2> QED
    BY <2>1, <2>3
<1> DEFINE first == o + 1
           last == o + n
<1>6. /\ right \in Seq({0, 1})
      /\ Len(right) = IF first <= last THEN last - first + 1 ELSE 0
      /\ \A k \in 1 .. last - first + 1 : right[k] = Contents[first + k - 1]
  <2>1. first \in Int /\ last \in Int
    BY <1>2
  <2>2. \A i \in first .. last : Contents[i] \in {0, 1}
    BY <1>5
  <2>3. right = SubSeq(Contents, first, last)
    OBVIOUS
  <2> HIDE DEF first, last, left, right, e
  <2> QED
    BY <2>1, <2>2, <2>3, SubSeqProperties
<1>7. Len(right) = n /\ \A k \in 1 .. n : right[k] = Contents[o + k]
  BY <1>2, <1>6
<1>8. left \in Seq({0, 1})
  <2>1. \A k \in 1 .. n : e(k) \in {0, 1}
    BY <1>4
  <2> HIDE DEF e
  <2> QED
    BY <1>2, <2>1, IsASeq
<1>9. Len(left) = n /\ \A k \in 1 .. n : left[k] = e(k)
  BY <1>2
<1> HIDE DEF left, right, e
<1>10. left = right
  BY <1>4, <1>6, <1>7, <1>8, <1>9, SeqEqual
<1> QED
  BY <1>10 DEF left, right, e, FromArchive, Present

LEMMA OpenHostStep ==
  ASSUME OwnFiles, NEW p \in Procs, OpenHost(p)
  PROVE  Step(p)
<1>1. /\ call[p].op = "open" /\ call[p].file = "host" /\ tar[p] = None
      /\ Over(p) /\ disk_off' = OffsetsOf(p) /\ got' = << >> /\ UNCHANGED diskpart
  BY DEF OpenHost, Served, Switched, Over
<1>2. Pos[p]["host"] = -1 /\ image' = image
  BY <1>1, PosAt DEF PosHost, diskpart
<1>3. /\ fd_host \subseteq HostFds /\ host_off \in [HostFds -> Nat]
      /\ tar \in [Procs -> HostFds \cup {None}]
      /\ \A q \in Procs : tar[q] # None => tar[q] \in fd_host
  BY DEF OwnFiles
<1>4. OwnFiles' /\ \E position \in {0, -1} : Pos' = [Pos EXCEPT ![p]["host"] = position]
  <2>1. ASSUME UNCHANGED hostpart
        PROVE  OwnFiles' /\ Pos' = [Pos EXCEPT ![p]["host"] = -1]
    <3>1. fd_host' = fd_host /\ host_off' = host_off /\ tar' = tar
      BY <2>1 DEF hostpart
    <3>2. tar' = [tar EXCEPT ![p] = None] /\ None \in HostFds \cup {None}
      BY <3>1, <1>1, <1>3
    <3>3. \A q \in Procs \ {p} : tar[q] # None =>
            tar[q] # None /\ tar[q] \in fd_host' /\ host_off'[tar[q]] = host_off[tar[q]]
      BY <3>1, <1>3
    <3>4. fd_host' \subseteq HostFds /\ host_off' \in [HostFds -> Nat]
      BY <3>1, <1>3
    <3> QED
      BY <1>1, <3>2, <3>3, <3>4, HostAnswer
  <2>2. ASSUME NEW fd \in FreeHostFds, fd_host' = fd_host \cup {fd},
               host_off' = [host_off EXCEPT ![fd] = 0],
               tar' = [tar EXCEPT ![p] = fd]
        PROVE  OwnFiles' /\ Pos' = [Pos EXCEPT ![p]["host"] = 0]
    <3>1. fd \in HostFds /\ fd \notin fd_host /\ fd # None
      BY NotANumber DEF FreeHostFds
    <3>2. fd_host' \subseteq HostFds /\ host_off' \in [HostFds -> Nat] /\ host_off'[fd] = 0
      BY <2>2, <3>1, <1>3
    <3>3. \A q \in Procs \ {p} : tar[q] # None =>
            tar[q] # fd /\ tar[q] \in fd_host' /\ host_off'[tar[q]] = host_off[tar[q]]
      BY <2>2, <3>1, <1>3
    <3> QED
      BY <1>1, <2>2, <3>1, <3>2, <3>3, HostAnswer
  <2> QED
    BY <2>1, <2>2 DEF OpenHost
<1>5. files!Open(p)
  BY <1>1, <1>2, <1>4
     DEF files!Open, files!Answered, files!Closed, files!NoCall, NoCall, Pos, Over
<1> QED
  BY <1>4, <1>5 DEF Step, files!PNext

(* The calls that leave p's descriptor of /hosttar open.                   *)
LEMMA HostMoves ==
  ASSUME OwnFiles, NEW p \in Procs, Over(p), UNCHANGED diskpart,
         disk_off' = OffsetsOf(p), tar[p] # None, tar' = tar, fd_host' = fd_host,
         NEW to \in Nat, host_off' = [host_off EXCEPT ![tar[p]] = to]
  PROVE  OwnFiles' /\ Pos' = [Pos EXCEPT ![p]["host"] = to]
<1>1. /\ tar[p] \in HostFds /\ tar[p] \in fd_host
      /\ \A q \in Procs \ {p} : tar[q] # None => tar[q] # tar[p]
  BY HostOwn
<1>2. /\ fd_host \subseteq HostFds /\ host_off \in [HostFds -> Nat]
      /\ tar \in [Procs -> HostFds \cup {None}]
      /\ \A q \in Procs : tar[q] # None => tar[q] \in fd_host
  BY DEF OwnFiles
<1>3. PICK fd \in HostFds : fd = tar[p]
  BY <1>1
<1>4. tar' = [tar EXCEPT ![p] = fd] /\ fd # None /\ fd \in fd_host'
  BY <1>1, <1>2, <1>3
<1>5. host_off' \in [HostFds -> Nat] /\ host_off'[fd] = to
  BY <1>2, <1>3
<1>6. \A q \in Procs \ {p} : tar[q] # None =>
        tar[q] # fd /\ tar[q] \in fd_host' /\ host_off'[tar[q]] = host_off[tar[q]]
  BY <1>1, <1>2, <1>3
<1> QED
  BY <1>2, <1>4, <1>5, <1>6, HostAnswer

LEMMA ReadHostStep ==
  ASSUME OwnFiles, NEW p \in Procs, ReadHost(p)
  PROVE  Step(p)
<1> DEFINE o == host_off[tar[p]]
           c == call[p].n
           n == Wanted(o, c)
           to == o + n
<1>1. /\ call[p].op = "read" /\ call[p].file = "host" /\ tar[p] # None
      /\ Over(p) /\ disk_off' = OffsetsOf(p) /\ UNCHANGED diskpart
      /\ host_off' = [host_off EXCEPT ![tar[p]] = to]
      /\ fd_host' = fd_host /\ tar' = tar
      /\ got' = FromArchive(o, n)
  BY DEF ReadHost, Has, Served, Switched, Over
<1>2. c \in Nat /\ o \in Nat
  BY <1>1, CallTyped, HostOwn
<1>3. image' = image
  BY <1>1 DEF diskpart
<1>4. Pos[p].host = o /\ Pos[p].host # -1
  BY <1>1, <1>2, HostOwn
<1> HIDE DEF o, c, n
<1>5. /\ n \in Nat
      /\ n = IF o + c <= Len(Contents) THEN c
             ELSE IF o < Len(Contents) THEN Len(Contents) - o ELSE 0
      /\ got' = Present(o, n)
  <2>1. n = Wanted(o, c)
    BY DEF n
  <2>2. /\ n \in Nat
        /\ n = IF o + c <= Len(Contents) THEN c
               ELSE IF o < Len(Contents) THEN Len(Contents) - o ELSE 0
    BY <1>2, <2>1, HostCount
  <2>3. n = 0 \/ o + n <= vsize
    BY <1>2, <2>2, ContentsAre
  <2>4. FromArchive(o, n) = Present(o, n)
    BY <1>2, <2>2, <2>3, HostBytes
  <2> QED
    BY <1>1, <2>2, <2>4
<1>6. to \in Nat
  BY <1>2, <1>5
<1> HIDE DEF to
<1>7. OwnFiles' /\ Pos' = [Pos EXCEPT ![p]["host"] = to]
  BY <1>1, <1>6, HostMoves
<1>8. to = o + n
  BY DEF to
<1>9. files!ReadHost(p)
  BY <1>1, <1>3, <1>4, <1>5, <1>7, <1>8
     DEF files!ReadHost, files!Answered, files!Closed, files!NoCall, NoCall, Pos, Over,
         Contents, Present, c
<1> QED
  BY <1>7, <1>9 DEF Step, files!PNext

LEMMA SeekHostStep ==
  ASSUME OwnFiles, NEW p \in Procs, SeekHost(p)
  PROVE  Step(p)
<1> DEFINE c == call[p]
           base == CASE c.whence = "set" -> 0
                     [] c.whence = "cur" -> host_off[tar[p]]
                     [] c.whence = "end" -> vsize
           to == c.n + base
<1>1. /\ c.op = "lseek" /\ c.file = "host" /\ tar[p] # None
      /\ Within(to) /\ Over(p) /\ disk_off' = OffsetsOf(p) /\ got' = <<to>>
      /\ host_off' = [host_off EXCEPT ![tar[p]] = to]
      /\ fd_host' = fd_host /\ tar' = tar /\ UNCHANGED diskpart
  BY DEF SeekHost, Has, Served, Switched, Over
<1>2. c.n \in Int /\ c.whence \in {"set", "cur", "end"}
  BY <1>1, CallTyped
<1>3. base \in Int
  BY <1>1, <1>2, HostOwn, ContentsAre
<1>4. base = CASE c.whence = "set" -> 0
               [] c.whence = "cur" -> Pos[p][c.file]
               [] c.whence = "end" -> IF c.file = "disk" THEN Len(image) ELSE Len(Contents)
  BY <1>1, <1>2, HostOwn, ContentsAre
<1> HIDE DEF base
<1>5. to = base + c.n
  BY <1>2, <1>3
<1>6. to \in Nat
  BY <1>1, HostFilesAssumption DEF Within
<1>7. image' = image
  BY <1>1 DEF diskpart
<1>8. Pos[p][c.file] # -1
  BY <1>1, HostOwn
<1> HIDE DEF to
<1>9. OwnFiles' /\ Pos' = [Pos EXCEPT ![p][c.file] = to]
  BY <1>1, <1>6, HostMoves
<1>10. files!Seek(p)
  BY <1>1, <1>4, <1>5, <1>7, <1>8, <1>9
     DEF files!Seek, files!Answered, files!Closed, files!NoCall, NoCall, Pos, Contents, Over
<1> QED
  BY <1>9, <1>10 DEF Step, files!PNext

LEMMA CloseHostStep ==
  ASSUME OwnFiles, NEW p \in Procs, CloseHost(p)
  PROVE  Step(p)
<1>1. /\ call[p].op = "close" /\ call[p].file = "host" /\ tar[p] # None
      /\ Over(p) /\ disk_off' = OffsetsOf(p) /\ got' = << >> /\ UNCHANGED diskpart
      /\ fd_host' = fd_host \ {tar[p]} /\ host_off' = [host_off EXCEPT ![tar[p]] = 0]
      /\ tar' = [tar EXCEPT ![p] = None] /\ image' = image
  BY DEF CloseHost, Has, Served, Switched, Over, diskpart
<1>2. /\ tar[p] \in HostFds
      /\ \A q \in Procs \ {p} : tar[q] # None => tar[q] # tar[p]
  BY <1>1, HostOwn
<1>3. /\ fd_host \subseteq HostFds /\ host_off \in [HostFds -> Nat]
      /\ \A q \in Procs : tar[q] # None => tar[q] \in fd_host
      /\ tar \in [Procs -> HostFds \cup {None}]
  BY DEF OwnFiles
<1>4. fd_host' \subseteq HostFds /\ host_off' \in [HostFds -> Nat]
  BY <1>1, <1>2, <1>3
<1>5. \A q \in Procs \ {p} : tar[q] # None =>
        tar[q] # None /\ tar[q] \in fd_host' /\ host_off'[tar[q]] = host_off[tar[q]]
  BY <1>1, <1>2, <1>3
<1>6. None \in HostFds \cup {None}
  OBVIOUS
<1>7. OwnFiles' /\ Pos' = [Pos EXCEPT ![p]["host"] = -1]
  BY <1>1, <1>4, <1>5, <1>6, HostAnswer
<1>8. files!Close(p)
  BY <1>1, <1>7
     DEF files!Close, files!Answered, files!Closed, files!NoCall, NoCall, Pos, Over
<1> QED
  BY <1>7, <1>8 DEF Step, files!PNext

(***************************************************************************)
(* The steps that move no position.                                        *)
(***************************************************************************)

(* The exchange alone, and the end of a call the emulator did not serve.   *)
LEMMA NothingMoves ==
  ASSUME OwnFiles, NEW p \in Procs, Switched(p, OffsetsOf(p)),
         UNCHANGED diskpart, UNCHANGED hostpart,
         call' \in [Procs -> Calls \cup {NoCall}]
  PROVE  OwnFiles' /\ Pos' = Pos
<1>1. /\ fdcur' = p /\ disk_off' = OffsetsOf(p)
      /\ doff' = [doff EXCEPT ![fdcur] = disk_off]
  BY DEF Switched
<1>2. /\ image' = image /\ raw' = raw /\ fd_host' = fd_host
      /\ host_off' = host_off /\ tar' = tar
  BY DEF diskpart, hostpart
<1>3. doff \in [Procs -> [Fds -> Nat]] /\ fdcur \in Procs /\ disk_off \in [Fds -> Nat]
  BY DEF OwnFiles
<1>4. doff' \in [Procs -> [Fds -> Nat]] /\ disk_off' \in [Fds -> Nat]
  BY <1>1, <1>3, OffsetsTyped
<1>5. OwnFiles'
  BY <1>1, <1>2, <1>4 DEF OwnFiles
<1>6. ASSUME NEW q \in Procs PROVE OffsetsOf(q)' = OffsetsOf(q)
  <2>1. CASE q = p
    BY <2>1, <1>1 DEF OffsetsOf
  <2>2. CASE q # p
    <3>1. OffsetsOf(q)' = doff'[q]
      BY <2>2, <1>1 DEF OffsetsOf
    <3>2. doff'[q] = IF q = fdcur THEN disk_off ELSE doff[q]
      BY <1>1, <1>3
    <3> QED
      BY <3>1, <3>2 DEF OffsetsOf
  <2> QED
    BY <2>1, <2>2
<1>7. Others(p)
  BY <1>2, <1>6 DEF Others
<1>8. PosDisk(p)' = PosDisk(p) /\ PosHost(p)' = PosHost(p)
  BY <1>2, <1>6 DEF PosDisk, PosHost, DiskPos
<1> QED
  BY <1>5, <1>7, <1>8, SamePos

LEMMA KCallStep ==
  ASSUME OwnFiles, NEW calls, calls \subseteq Calls, NEW p \in Procs, KCall(p, calls)
  PROVE  Step(p)
<1>1. PICK c \in calls : call' = [call EXCEPT ![p] = c]
  BY DEF KCall
<1>2. /\ call[p] = NoCall /\ got' = << >>
      /\ image' = image /\ raw' = raw /\ disk_off' = disk_off /\ doff' = doff
      /\ fdcur' = fdcur /\ fd_host' = fd_host /\ host_off' = host_off /\ tar' = tar
  BY DEF KCall, diskpart, hostpart
<1>3. call' \in [Procs -> Calls \cup {NoCall}]
  BY <1>1 DEF OwnFiles
<1>4. OwnFiles'
  BY <1>2, <1>3 DEF OwnFiles
<1>5. Pos' = Pos
  BY <1>2 DEF Pos, DiskPos, OffsetsOf
<1>6. files!Issue(p)
  BY <1>1, <1>2, <1>5 DEF files!Issue, files!NoCall, NoCall, Pos
<1> QED
  BY <1>4, <1>6 DEF Step, files!PNext

LEMMA BufferFaultStep ==
  ASSUME OwnFiles, NEW p \in Procs, BufferFault(p)
  PROVE  Step(p)
<1>1. /\ Switched(p, OffsetsOf(p)) /\ UNCHANGED diskpart /\ UNCHANGED hostpart
      /\ call' = call /\ got' = got
  BY DEF BufferFault
<1>2. call' \in [Procs -> Calls \cup {NoCall}]
  BY <1>1 DEF OwnFiles
<1>3. OwnFiles' /\ Pos' = Pos
  BY <1>1, <1>2, NothingMoves
<1>4. UNCHANGED files!pvars
  BY <1>1, <1>3 DEF files!pvars, Pos, diskpart
<1> QED
  BY <1>3, <1>4 DEF Step

LEMMA KFailStep ==
  ASSUME OwnFiles, NEW p \in Procs, KFail(p)
  PROVE  Step(p)
<1>1. /\ Switched(p, OffsetsOf(p)) /\ UNCHANGED diskpart /\ UNCHANGED hostpart
      /\ call' = [call EXCEPT ![p] = NoCall] /\ got' = << >>
  BY DEF KFail, Served
<1>2. call' \in [Procs -> Calls \cup {NoCall}]
  BY <1>1 DEF OwnFiles
<1>3. OwnFiles' /\ Pos' = Pos
  BY <1>1, <1>2, NothingMoves
<1>4. image' = image
  BY <1>1 DEF diskpart
<1>5. call[p].op # "none"
  BY DEF KFail
<1>6. call[p].file \in {"disk", "host"} /\ call[p] # NoCall
  BY <1>5, CallTyped DEF NoCall
<1>7. (IF call[p].file = "disk" THEN raw[p] ELSE tar[p]) = None
        <=> Pos[p][call[p].file] = -1
  BY <1>6, IsOpen, HostOwn, PosAt DEF PosDisk, PosHost
<1>8. Pos[p][call[p].file] = -1 => Pos' = [Pos EXCEPT ![p][call[p].file] = -1]
  <2>1. CASE call[p].file = "disk"
    BY <1>3, <2>1, PosIs
  <2>2. CASE call[p].file = "host"
    BY <1>3, <2>2, PosIs
  <2> QED
    BY <1>6, <2>1, <2>2
<1>9. CASE call[p].op = "close"
  <2>1. Pos[p][call[p].file] = -1
    BY <1>7, <1>9 DEF KFail
  <2>2. files!Close(p)
    BY <1>1, <1>4, <1>8, <1>9, <2>1
       DEF files!Close, files!Answered, files!Closed, files!NoCall, NoCall, Pos
  <2> QED
    BY <1>3, <2>2 DEF Step, files!PNext
<1>10. CASE call[p].op # "close"
  <2>1. \/ call[p].op \notin {"open", "close"} /\ Pos[p][call[p].file] = -1
        \/ call[p].op = "open" /\ Pos[p][call[p].file] # -1
    BY <1>7, <1>10 DEF KFail
  <2>2. files!Fail(p)
    BY <1>1, <1>3, <1>4, <1>6, <2>1
       DEF files!Fail, files!Closed, files!NoCall, NoCall, Pos
  <2> QED
    BY <1>3, <2>2 DEF Step, files!PNext
<1> QED
  BY <1>9, <1>10

LEMMA KExitStep ==
  ASSUME OwnFiles, NEW p \in Procs, KExit(p)
  PROVE  Step(p)
<1>1. /\ call[p] = NoCall
      /\ raw' = [raw EXCEPT ![p] = None] /\ tar' = [tar EXCEPT ![p] = None]
      /\ image' = image /\ disk_off' = disk_off /\ doff' = doff /\ fdcur' = fdcur
      /\ fd_host' = fd_host /\ host_off' = host_off /\ call' = call /\ got' = got
  BY DEF KExit
<1>2. /\ raw \in [Procs -> Fds \cup {None}] /\ tar \in [Procs -> HostFds \cup {None}]
  BY DEF OwnFiles
<1>3. /\ raw' \in [Procs -> Fds \cup {None}] /\ tar' \in [Procs -> HostFds \cup {None}]
      /\ raw'[p] = None /\ tar'[p] = None
      /\ \A q \in Procs \ {p} : raw'[q] = raw[q] /\ tar'[q] = tar[q]
  BY <1>1, <1>2
<1>4. OwnFiles'
  <2>1. \A q \in Procs : tar'[q] # None => tar'[q] \in fd_host'
    BY <1>1, <1>3 DEF OwnFiles
  <2>2. \A q, r \in Procs : tar'[q] # None /\ q # r => tar'[q] # tar'[r]
    BY <1>3 DEF OwnFiles
  <2> QED
    BY <1>1, <1>3, <2>1, <2>2 DEF OwnFiles
<1>5. \A q \in Procs : OffsetsOf(q)' = OffsetsOf(q)
  BY <1>1 DEF OffsetsOf
<1>6. Others(p)
  BY <1>1, <1>3, <1>5 DEF Others
<1>7. \A q \in Procs \ {p} : PosDisk(q)' = PosDisk(q) /\ PosHost(q)' = PosHost(q)
  BY <1>6, OthersPos
<1>8. PosDisk(p)' = -1 /\ PosHost(p)' = -1
  BY <1>3 DEF PosDisk, PosHost
<1>9. Pos' = [q \in Procs |-> IF q = p THEN [disk |-> -1, host |-> -1]
                               ELSE [disk |-> PosDisk(q), host |-> PosHost(q)]]
  BY <1>7, <1>8, PosPrime
<1>10. [f \in {"disk", "host"} |-> -1] = [disk |-> -1, host |-> -1]
  OBVIOUS
<1>11. Pos' = [Pos EXCEPT ![p] = [f \in {"disk", "host"} |-> -1]]
  BY <1>9, <1>10, PosIs
<1>12. files!Exit(p)
  BY <1>1, <1>11 DEF files!Exit, files!Closed, files!NoCall, NoCall, Pos
<1> QED
  BY <1>4, <1>12 DEF Step, files!PNext

(***************************************************************************)
(* All of it, for calls of the kinds assumed.                              *)
(***************************************************************************)
LEMMA FilesInit == HostFilesInit => OwnFiles /\ files!PInit
<1> SUFFICES ASSUME HostFilesInit PROVE OwnFiles /\ files!PInit
  OBVIOUS
<1>1. OwnFiles
  BY HostFilesAssumption DEF HostFilesInit, OwnFiles
<1>2. Pos = [p \in Procs |-> [disk |-> -1, host |-> -1]]
  BY DEF Pos, HostFilesInit
<1>3. [f \in {"disk", "host"} |-> -1] = [disk |-> -1, host |-> -1]
  OBVIOUS
<1>4. Pos = [p \in Procs |-> [f \in {"disk", "host"} |-> -1]]
  BY <1>2, <1>3
<1>5. image \in Seq({0, 1}) /\ call = [p \in Procs |-> NoCall] /\ got = << >>
  BY HostFilesAssumption DEF HostFilesInit
<1>6. files!PInit
  BY <1>4, <1>5 DEF files!PInit, files!Closed, files!NoCall, NoCall, Pos
<1> QED
  BY <1>1, <1>6

LEMMA FilesNext ==
  ASSUME OwnFiles, NEW calls, calls \subseteq Calls, HostFilesNext(calls)
  PROVE  OwnFiles' /\ (files!PNext \/ UNCHANGED files!pvars)
<1>1. PICK p \in Procs :
        \/ KCall(p, calls) \/ BufferFault(p)
        \/ OpenDisk(p) \/ CloseDisk(p) \/ SeekDisk(p) \/ ReadDisk(p) \/ WriteDisk(p)
        \/ GetBlock(p) \/ PutBlock(p)
        \/ OpenHost(p) \/ ReadHost(p) \/ SeekHost(p) \/ CloseHost(p)
        \/ KFail(p) \/ KExit(p)
  BY DEF HostFilesNext
<1>2. Step(p)
  BY <1>1, KCallStep, BufferFaultStep, OpenDiskStep, CloseDiskStep, SeekDiskStep,
     ReadDiskStep, WriteDiskStep, TransferStep, OpenHostStep, ReadHostStep,
     SeekHostStep, CloseHostStep, KFailStep, KExitStep
<1> QED
  BY <1>2 DEF Step

(***************************************************************************)
(* The boot image.  bmap follows the pointers to each block's address      *)
(* (MapIsRight), and what has been read is always a prefix of the file of  *)
(* whole blocks (Prefix).                                                  *)
(***************************************************************************)

(* Arithmetic of the divisions.                                            *)
LEMMA Quotient ==
  ASSUME NEW a \in Nat, NEW b \in Nat \ {0}
  PROVE  /\ a \div b \in Nat /\ a % b \in 0 .. b - 1
         /\ a = (a \div b) * b + (a % b)
  OBVIOUS

LEMMA Times ==
  ASSUME NEW a \in Nat, NEW b \in Nat, NEW c \in Nat \ {0}
  PROVE  /\ a * c \in Nat /\ (a + 1) * c = a * c + c
         /\ a <= b => a * c <= b * c
         /\ a * c < b * c => a < b
  OBVIOUS

LEMMA Unique ==
  ASSUME NEW k \in Nat, NEW b \in Nat \ {0}, NEW r \in 0 .. b - 1
  PROVE  (k * b + r) \div b = k
<1> DEFINE a == k * b + r
           q == a \div b
<1>1. a \in Nat /\ k * b \in Nat
  BY Times
<1> HIDE DEF a
<1>2. q \in Nat /\ a % b \in 0 .. b - 1 /\ a = q * b + (a % b)
  BY <1>1, Quotient
<1> HIDE DEF q
<1>3. a = k * b + r
  BY DEF a
<1>4. k < q + 1
  <2>1. (q + 1) * b = q * b + b /\ q * b \in Nat
    BY <1>2, Times
  <2>2. k * b < (q + 1) * b
    BY <1>1, <1>2, <1>3, <2>1
  <2> QED
    BY <1>2, <2>2, Times
<1>5. q < k + 1
  <2>1. (k + 1) * b = k * b + b /\ q * b \in Nat
    BY <1>2, Times
  <2>2. q * b < (k + 1) * b
    BY <1>1, <1>2, <1>3, <2>1
  <2> QED
    BY <1>2, <2>2, Times
<1> QED
  BY <1>2, <1>4, <1>5 DEF q, a

(* The block map finds each block of a file that is small enough.          *)
LEMMA MapIsRight ==
  ASSUME NEW bn \in Nat, bn < NDirect + NIndir + NIndir * NIndir
  PROVE  bmap(bn) = KAddr(bn)
<1>1. NDirect \in Nat \ {0} /\ NIndir \in Nat \ {0}
  BY BootImageAssumption
<1>2. CASE bn < NDirect
  BY <1>2 DEF bmap
<1>3. CASE bn >= NDirect /\ bn - NDirect < NIndir
  <2>1. bmap(bn) = ind(KSingle, bn - NDirect)
    BY <1>1, <1>3 DEF bmap
  <2>2. bn \in KOne .. KTwo - 1 /\ KOne + (bn - NDirect) = bn
    BY <1>1, <1>3 DEF KOne, KTwo
  <2>3. CASE KSingle = -1
    BY <2>1, <2>2, <2>3 DEF ind, KPointer
  <2>4. CASE KSingle # -1
    <3>1. KSingle = 0 /\ KAddr(bn) = 0
      BY <2>2, <2>4 DEF KSingle
    <3> QED
      BY <2>1, <3>1 DEF ind
  <2> QED
    BY <2>3, <2>4
<1>4. CASE bn >= NDirect /\ bn - NDirect >= NIndir
  <2> DEFINE m == bn - NDirect - NIndir
             i == m \div NIndir
             j == m % NIndir
  <2>1. m \in Nat /\ m < NIndir * NIndir
    BY <1>1, <1>4
  <2>2. bmap(bn) = ind(ind(KDouble, i), j)
    <3>1. bn - NDirect >= NIndir /\ ~(bn < NDirect) /\ ~(bn - NDirect < NIndir)
      BY <1>1, <1>4
    <3> QED
      BY <2>1, <3>1 DEF bmap
  <2> HIDE DEF m
  <2>3. i \in Nat /\ j \in 0 .. NIndir - 1 /\ m = i * NIndir + j
    BY <1>1, <2>1, Quotient
  <2> HIDE DEF i, j
  <2>4. i \in 0 .. NIndir - 1
    <3>1. i * NIndir \in Nat
      BY <1>1, <2>3, Times
    <3>2. i * NIndir < NIndir * NIndir
      BY <1>1, <2>1, <2>3, <3>1
    <3>3. i < NIndir
      BY <1>1, <2>3, <3>2, Times
    <3> QED
      BY <1>1, <2>3, <3>3
  <2>5. KTwo + i * NIndir + j = bn
    <3>1. i * NIndir \in Nat
      BY <1>1, <2>3, Times
    <3> QED
      BY <1>1, <2>3, <3>1 DEF KTwo, m
  <2>6. CASE KSecond(i) # 0
    <3>1. KSecond(i) = -3 - i
      BY <2>6 DEF KSecond
    <3>2. KDouble = -2
      BY <2>4, <2>6 DEF KDouble
    <3>3. ind(KDouble, i) = KSecond(i)
      BY <3>2 DEF ind, KPointer
    <3>4. KSecond(i) # -1 /\ KSecond(i) # -2 /\ -3 - KSecond(i) = i
      BY <2>4, <3>1
    <3>5. ind(KSecond(i), j) = KAddr(KTwo + i * NIndir + j)
      BY <2>6, <3>4 DEF ind, KPointer
    <3> QED
      BY <2>2, <2>5, <3>3, <3>5
  <2>7. CASE KSecond(i) = 0
    <3>1. KAddr(bn) = 0
      <4>1. ~ \E k \in 0 .. NIndir - 1 : KAddr(KTwo + i * NIndir + k) # 0
        BY <2>4, <2>7 DEF KSecond
      <4>2. KAddr(KTwo + i * NIndir + j) = 0
        BY <2>3, <4>1
      <4> QED
        BY <2>5, <4>2
    <3>2. ind(KDouble, i) = 0
      BY <2>7 DEF ind, KPointer, KDouble
    <3>3. ind(0, j) = 0
      BY DEF ind
    <3> QED
      BY <2>2, <3>1, <3>2, <3>3
  <2> QED
    BY <2>6, <2>7
<1> QED
  BY <1>1, <1>2, <1>3, <1>4

(* What has been read is the beginning of the file, in whole blocks.       *)
Prefix ==
  /\ filesize \in 0 .. MaxFileBlocks * BSize
  /\ buf \in Seq(Nat) /\ Len(buf) <= filesize
  /\ \A i \in 1 .. Len(buf) : buf[i] = Byte(i - 1)
  /\ Len(buf) = filesize \/ \E k \in Nat : Len(buf) = k * BSize
  /\ buf # << >> => ino \in Files /\ path = << >>
  /\ done => \/ ino = Absent
             \/ ino \in Files /\ path = << >> /\ Len(buf) = filesize

LEMMA PrefixInit == BootInit => Prefix
<1> SUFFICES ASSUME BootInit PROVE Prefix
  OBVIOUS
<1>1. buf = << >> /\ ~done /\ filesize \in 0 .. MaxFileBlocks * BSize
  BY DEF BootInit
<1>2. buf \in Seq(Nat) /\ Len(buf) = 0 /\ BSize \in Nat /\ MaxFileBlocks \in Nat
  BY <1>1, BootImageAssumption
<1>3. Len(buf) = 0 * BSize /\ 0 <= filesize
  BY <1>1, <1>2
<1>4. \A i \in 1 .. Len(buf) : buf[i] = Byte(i - 1)
  BY <1>2
<1> QED
  BY <1>1, <1>2, <1>3, <1>4 DEF Prefix

LEMMA ReadBlockStep ==
  ASSUME Prefix, ReadBlock
  PROVE  Prefix'
<1> DEFINE at == Len(buf)
           bn == at \div BSize
           a == bmap(bn)
           n == IF at + BSize <= filesize THEN BSize ELSE filesize - at
           e(i) == IF a = 0 THEN 0 ELSE (a - 1) * BSize + i
           piece == [i \in 1 .. n |-> e(i)]
<1>1. /\ path = << >> /\ ino \in Files /\ at < filesize
      /\ buf' = buf \o piece
      /\ filesize' = filesize /\ holes' = holes /\ path' = path /\ ino' = ino /\ done' = done
  BY DEF ReadBlock
<1>2. /\ BSize \in Nat \ {0} /\ NDirect \in Nat \ {0} /\ NIndir \in Nat \ {0}
      /\ MaxFileBlocks \in Nat /\ filesize \in Nat /\ at \in Nat
      /\ buf \in Seq(Nat)
  BY BootImageAssumption, LenProperties DEF Prefix
<1>3. PICK k \in Nat : at = k * BSize
  BY <1>1, <1>2 DEF Prefix
<1>4. bn = k
  <2>1. (k * BSize + 0) \div BSize = k
    BY <1>2, Unique
  <2>2. k * BSize + 0 = at
    BY <1>2, <1>3
  <2> QED
    BY <2>1, <2>2
<1>5. k < NBlocks
  <2> DEFINE total == filesize + BSize - 1
  <2>1. total \in Nat /\ NBlocks = total \div BSize
    BY <1>2 DEF NBlocks
  <2> HIDE DEF total
  <2>2. NBlocks \in Nat /\ total % BSize \in 0 .. BSize - 1
        /\ total = NBlocks * BSize + (total % BSize)
    BY <1>2, <2>1, Quotient
  <2>3. (NBlocks + 1) * BSize = NBlocks * BSize + BSize /\ NBlocks * BSize \in Nat
        /\ (k + 1) * BSize = k * BSize + BSize /\ k * BSize \in Nat
    BY <1>2, <2>2, Times
  <2>4. total >= k * BSize + BSize
    BY <1>1, <1>2, <1>3, <2>3 DEF total
  <2>5. (k + 1) * BSize < (NBlocks + 1) * BSize
    BY <1>2, <2>1, <2>2, <2>3, <2>4
  <2>6. k + 1 < NBlocks + 1
    BY <1>2, <2>2, <2>5, Times
  <2> QED
    BY <2>2, <2>6
<1>6. a = KAddr(k)
  <2> DEFINE below == k * BSize
             top == MaxFileBlocks * BSize
  <2>1. below \in Nat /\ top \in Nat
    BY <1>2, Times
  <2>2. filesize \in 0 .. top /\ at = below
    BY <1>3 DEF Prefix
  <2> HIDE DEF below, top, at
  <2>3. below < top
    BY <1>1, <1>2, <2>1, <2>2
  <2> USE DEF below, top
  <2>4. k < MaxFileBlocks
    BY <1>2, <2>3, Times
  <2>5. k < NDirect + NIndir + NIndir * NIndir
    BY <1>2, <2>4, BootImageAssumption
  <2>6. bmap(k) = KAddr(k)
    BY <2>5, MapIsRight
  <2> QED
    BY <1>4, <2>6
<1>7. n \in 1 .. BSize /\ at + n <= filesize /\ (at + n = filesize \/ n = BSize)
  BY <1>1, <1>2
<1> HIDE DEF at, bn, a, n
<1>8. ASSUME NEW i \in 1 .. n
      PROVE  e(i) = Byte(at + i - 1) /\ e(i) \in Nat
  <2>1. i - 1 \in 0 .. BSize - 1 /\ i \in Nat /\ i >= 1
    BY <1>2, <1>7
  <2>2. (k * BSize + (i - 1)) \div BSize = k
    BY <1>2, <2>1, Unique
  <2>3. k * BSize + (i - 1) = at + i - 1 /\ at + i - 1 \in Nat
    BY <1>2, <1>3, <2>1
  <2>4. (at + i - 1) \div BSize = k
    BY <2>2, <2>3
  <2>5. CASE k \in holes
    BY <1>5, <1>6, <2>4, <2>5 DEF KAddr, Byte
  <2>6. CASE k \notin holes
    <3>1. a = k + 1 /\ a # 0 /\ a - 1 = k
      BY <1>5, <1>6, <2>6 DEF KAddr
    <3>2. e(i) = k * BSize + i
      BY <3>1
    <3>3. Byte(at + i - 1) = at + i - 1 + 1
      BY <2>4, <2>6 DEF Byte
    <3> QED
      BY <1>2, <1>3, <2>1, <3>2, <3>3
  <2> QED
    BY <2>5, <2>6
<1>9. /\ piece \in Seq(Nat) /\ Len(piece) = n
      /\ \A i \in 1 .. n : piece[i] = Byte(at + i - 1)
  <2>1. n \in Nat
    BY <1>2, <1>7
  <2>2. \A i \in 1 .. n : e(i) \in Nat
    BY <1>8
  <2>3. \A i \in 1 .. n : e(i) = Byte(at + i - 1)
    BY <1>8
  <2> HIDE DEF e
  <2>4. piece \in Seq(Nat)
    BY <2>1, <2>2, IsASeq
  <2>5. Len(piece) = n
    BY <2>1
  <2> QED
    BY <2>3, <2>4, <2>5
<1> HIDE DEF piece
<1>10. /\ buf \o piece \in Seq(Nat) /\ Len(buf \o piece) = Len(buf) + Len(piece)
       /\ \A i \in 1 .. Len(buf) + Len(piece) :
            (buf \o piece)[i] = IF i <= Len(buf) THEN buf[i] ELSE piece[i - Len(buf)]
  BY <1>2, <1>9, ConcatProperties
<1>11. buf' \in Seq(Nat) /\ Len(buf') = at + n
  BY <1>1, <1>9, <1>10 DEF at
<1>12. \A i \in 1 .. Len(buf') : buf'[i] = Byte(i - 1)
  <2> TAKE i \in 1 .. Len(buf')
  <2>1. CASE i <= at
    <3>1. i \in 1 .. Len(buf)
      BY <1>2, <2>1 DEF at
    <3>2. buf[i] = Byte(i - 1)
      BY <3>1 DEF Prefix
    <3> QED
      BY <1>1, <1>2, <1>7, <1>9, <1>10, <1>11, <2>1, <3>1, <3>2 DEF at
  <2>2. CASE ~(i <= at)
    <3>1. i - at \in 1 .. n /\ at + (i - at) - 1 = i - 1
      BY <1>2, <1>7, <1>11, <2>2
    <3>2. piece[i - at] = Byte(at + (i - at) - 1)
      BY <1>9, <3>1
    <3>3. buf'[i] = piece[i - at]
      BY <1>1, <1>2, <1>7, <1>9, <1>10, <1>11, <2>2 DEF at
    <3> QED
      BY <3>1, <3>2, <3>3
  <2> QED
    BY <2>1, <2>2
<1>13. Len(buf') = filesize \/ \E m \in Nat : Len(buf') = m * BSize
  <2>1. CASE at + n = filesize
    BY <2>1, <1>11
  <2>2. CASE n = BSize
    <3>1. (k + 1) * BSize = k * BSize + BSize /\ k + 1 \in Nat
      BY <1>2, Times
    <3> QED
      BY <1>3, <1>11, <2>2, <3>1
  <2> QED
    BY <1>7, <2>1, <2>2
<1>14. \A i \in 1 .. Len(buf') : Byte(i - 1)' = Byte(i - 1)
  BY <1>1 DEF Byte
<1>15. done => ino = Absent \/ at = filesize
  BY DEF Prefix, at
<1>16. ~done
  BY <1>1, <1>2, <1>15, BootImageAssumption
<1> QED
  BY <1>1, <1>2, <1>7, <1>11, <1>12, <1>13, <1>14, <1>16 DEF Prefix

LEMMA WalkStep ==
  ASSUME Prefix, Walk
  PROVE  Prefix'
<1>1. /\ path # << >> /\ ino # Absent
      /\ filesize' = filesize /\ holes' = holes /\ buf' = buf /\ done' = done
  BY DEF Walk
<1>2. buf = << >> /\ ~done
  BY <1>1 DEF Prefix
<1>3. Len(buf) = 0 /\ \A i \in 1 .. Len(buf') : buf'[i] = Byte(i - 1)'
  BY <1>1, <1>2
<1> QED
  BY <1>1, <1>2, <1>3 DEF Prefix

LEMMA FinishStep ==
  ASSUME Prefix, Finish
  PROVE  Prefix'
<1>1. /\ filesize' = filesize /\ holes' = holes /\ buf' = buf /\ path' = path
      /\ ino' = IF ino \in Files THEN ino ELSE Absent
      /\ ino = Absent \/ (path = << >> /\ (ino \in Files => Len(buf) = filesize))
  BY DEF Finish
<1>2. \A i \in 1 .. Len(buf) : Byte(i - 1)' = Byte(i - 1)
  BY <1>1 DEF Byte
<1>3. Absent \notin Files
  BY BootImageAssumption
<1> QED
  BY <1>1, <1>2, <1>3 DEF Prefix

LEMMA BootNextKeeps == Prefix /\ BootNext => Prefix'
  BY ReadBlockStep, WalkStep, FinishStep DEF BootNext

LEMMA PrefixIsAll == Prefix => KernelIsRead
<1> SUFFICES ASSUME Prefix, done
             PROVE  \/ ino = Absent /\ buf = << >>
                    \/ ino \in Files /\ buf = [i \in 1 .. filesize |-> Byte(i - 1)]
  BY DEF KernelIsRead
<1>1. CASE ino = Absent
  <2>1. Absent \notin Files
    BY BootImageAssumption
  <2> QED
    BY <1>1, <2>1 DEF Prefix
<1>2. CASE ino \in Files /\ Len(buf) = filesize
  <2>1. buf \in Seq(Nat) /\ \A i \in 1 .. filesize : buf[i] = Byte(i - 1)
    BY <1>2 DEF Prefix
  <2>2. buf = [i \in 1 .. filesize |-> buf[i]]
    BY <1>2, <2>1, LenProperties
  <2> QED
    BY <1>2, <2>1, <2>2
<1> QED
  BY <1>1, <1>2 DEF Prefix

(***************************************************************************)
(* The disk label                                                          *)
(***************************************************************************)

(* While the emulator runs and the guest leaves the label alone, it states *)
(* the size of the image.                                                  *)
LabelInv ==
  /\ size \in Nat
  /\ attached /\ ~spoilt /\ size # 0 => label = Cylinders

LEMMA Division ==
  ASSUME NEW a \in Nat, NEW b \in Nat \ {0}
  PROVE  /\ a \div b \in Nat
         /\ (a \div b) * b <= a /\ a < (a \div b) * b + b
  OBVIOUS

LEMMA Products ==
  ASSUME NEW a \in Nat, NEW b \in Nat, NEW c \in Nat, a <= b
  PROVE  a * c <= b * c
  OBVIOUS

LEMMA LabelStarts == LabelInit => LabelInv
  BY LabelAssumption DEF LabelInit, LabelInv

LEMMA LabelStays == LabelInv /\ LabelNext => LabelInv'
  BY LabelAssumption DEF LabelInv, LabelNext, Attach, Detach, KSpoil, KResize, Label, Cylinders

LEMMA LabelInvFits == LabelInv => LabelFits
<1> SUFFICES ASSUME LabelInv, attached, ~spoilt, size >= PerCyl
             PROVE  /\ label * PerCyl <= size
                    /\ size - label * PerCyl < PerCyl \/ label = MaxCyl
  BY DEF LabelFits
<1> DEFINE n == size \div PerCyl
<1>1. size \in Nat /\ PerCyl \in Nat \ {0} /\ MaxCyl \in Nat \ {0} /\ size # 0
  BY LabelAssumption DEF LabelInv
<1>2. n \in Nat /\ n * PerCyl <= size /\ size < n * PerCyl + PerCyl
  BY <1>1, Division
<1>3. label = CASE n = 0 -> 1 [] n > MaxCyl -> MaxCyl [] OTHER -> n
  BY <1>1 DEF LabelInv, Cylinders
<1> HIDE DEF n
<1>4. n # 0
  BY <1>1, <1>2
<1>5. CASE n > MaxCyl
  <2>1. label = MaxCyl
    BY <1>3, <1>4, <1>5
  <2>2. MaxCyl * PerCyl <= n * PerCyl
    BY <1>1, <1>2, <1>5, Products
  <2>3. MaxCyl * PerCyl \in Nat /\ n * PerCyl \in Nat
    BY <1>1, <1>2
  <2> QED
    BY <1>1, <1>2, <2>1, <2>2, <2>3
<1>6. CASE ~(n > MaxCyl)
  <2>1. label = n
    BY <1>3, <1>4, <1>6
  <2>2. n * PerCyl \in Nat
    BY <1>1, <1>2
  <2> QED
    BY <1>1, <1>2, <2>1, <2>2
<1> QED
  BY <1>5, <1>6

(***************************************************************************)
(* The adaptor: windows                                                    *)
(***************************************************************************)
Begun == {"map", "slot", "issue", "wait", "check", "relock", "done"}

(* Window i of a request is the one as far behind the head as it is from   *)
(* the last.                                                               *)
InARow ==
  \A i \in 1 .. Len(windows) :
    LET k == head - 1 - (Len(windows) - i)
    IN windows[i] = IF k >= 0 THEN k ELSE k + NWindows

Reasonable == req = NoReq \/ Sane(req)

Chained ==
  /\ head \in 0 .. NWindows
  /\ windows \in Seq(0 .. NWindows - 1) /\ Len(windows) <= req.n
  /\ req \in Requests /\ Reasonable
  /\ pc \notin Begun => windows = << >>
  /\ windows # << >> => head >= 1
  /\ InARow

FewWindows == "few_windows" \in Assumed

LEMMA ReqSmall ==
  ASSUME FewWindows, Chained
  PROVE  req.n \in Nat /\ req.n <= NWindows
<1>1. MaxBlocks \in Nat \ {0} /\ NWindows \in Nat \ {0}
  BY AdaptorAssumption
<1>2. req \in Requests
  BY DEF Chained
<1>3. req.n \in 1 .. MaxBlocks
  BY <1>2 DEF Requests
<1>4. CASE req = NoReq
  BY <1>1, <1>4 DEF NoReq
<1>5. CASE Sane(req)
  BY <1>1, <1>3, <1>5 DEF Sane, FewWindows
<1> QED
  BY <1>4, <1>5, <1>1, <1>3 DEF Chained, Reasonable

LEMMA WindowsInit == AdaptorInit => Chained
<1> SUFFICES ASSUME AdaptorInit PROVE Chained
  OBVIOUS
<1>1. req = NoReq /\ pc = "reset" /\ windows = << >> /\ head = 0
  BY DEF AdaptorInit
<1>2. NoReq \in Requests
  BY AdaptorAssumption DEF NoReq, Requests, Waits, Ops
<1>3. windows \in Seq(0 .. NWindows - 1) /\ Len(windows) = 0
  BY <1>1
<1> QED
  BY <1>1, <1>2, <1>3, AdaptorAssumption DEF Chained, Reasonable, InARow, NoReq

LEMMA WindowsStep ==
  ASSUME FewWindows, Chained, AdaptorNext
  PROVE  Chained'
<1>1. /\ NWindows \in Nat \ {0} /\ head \in 0 .. NWindows
      /\ windows \in Seq(0 .. NWindows - 1) /\ req \in Requests
      /\ Len(windows) \in Nat
  BY AdaptorAssumption, LenProperties DEF Chained
<1>2. CASE MapWindow
  <2> DEFINE first == IF head = NWindows THEN 0 ELSE head
             n == Len(windows)
  <2>1. /\ pc = "map" /\ n < req.n /\ head' = first + 1
        /\ windows' = Append(windows, first) /\ req' = req /\ pc' = pc
    BY <1>2 DEF MapWindow
  <2>2. req.n \in Nat /\ req.n <= NWindows
    BY ReqSmall
  <2>3. first \in 0 .. NWindows - 1 /\ n \in Nat
    BY <1>1
  <2>4. /\ windows' \in Seq(0 .. NWindows - 1) /\ Len(windows') = n + 1
        /\ windows'[n + 1] = first
        /\ \A i \in 1 .. n : windows'[i] = windows[i]
    BY <1>1, <2>1, <2>3
  <2>5. \A i \in 1 .. Len(windows') :
          LET k == head' - 1 - (Len(windows') - i)
          IN windows'[i] = IF k >= 0 THEN k ELSE k + NWindows
    <3> TAKE i \in 1 .. Len(windows')
    <3>1. CASE i = n + 1
      BY <3>1, <2>1, <2>3, <2>4
    <3>2. CASE i \in 1 .. n
      <4>1. /\ windows # << >>
            /\ windows[i] = IF head - 1 - (n - i) >= 0 THEN head - 1 - (n - i)
                            ELSE head - 1 - (n - i) + NWindows
        BY <3>2, <1>1 DEF Chained, Reasonable, InARow
      <4>2. head >= 1
        BY <4>1 DEF Chained
      <4>3. windows'[i] = windows[i]
        BY <2>4, <3>2
      <4>4. CASE head = NWindows
        <5>1. head' = 1
          BY <2>1, <4>4
        <5>2. head - 1 - (n - i) >= 0
          BY <1>1, <4>4, <2>1, <2>2, <2>3, <3>2
        <5>3. windows'[i] = NWindows - 1 - (n - i)
          BY <5>2, <4>1, <4>3, <4>4
        <5>4. head' - 1 - (Len(windows') - i) = i - n - 1 /\ i - n - 1 < 0
          BY <5>1, <2>3, <2>4, <3>2
        <5> QED
          BY <5>3, <5>4, <2>3, <3>2, <1>1
      <4>5. CASE head # NWindows
        <5>1. head' = head + 1
          BY <2>1, <4>5
        <5> QED
          BY <5>1, <4>1, <4>3, <2>3, <2>4, <3>2, <1>1
      <4> QED
        BY <4>4, <4>5
    <3>3. i \in 1 .. n + 1
      BY <2>4
    <3> QED
      BY <3>1, <3>2, <3>3, <2>3
  <2>6. head' \in 0 .. NWindows /\ head' >= 1 /\ Len(windows') <= req'.n
    BY <1>1, <2>1, <2>2, <2>3, <2>4
  <2> QED
    BY <2>1, <2>4, <2>5, <2>6 DEF Chained, Reasonable, InARow, Begun, Sane
<1>3. CASE \E r \in Requests : KBegin(r)
  <2>1. PICK r \in Requests : KBegin(r)
    BY <1>3
  <2>2. /\ pc = "idle" /\ Sane(r) /\ req' = r /\ pc' = "map"
        /\ head' = head /\ windows' = windows
    BY <2>1 DEF KBegin
  <2>3. windows = << >> /\ Len(windows) = 0
    BY <2>2 DEF Chained, Begun
  <2>4. r.n \in Nat
    BY AdaptorAssumption DEF Requests
  <2>5. Sane(req')
    BY <2>2 DEF Sane
  <2> QED
    BY <1>1, <2>2, <2>3, <2>4, <2>5 DEF Chained, Reasonable, InARow, Begun, Sane
<1>4. CASE KDone
  <2>1. req' = NoReq /\ pc' = "idle" /\ windows' = << >> /\ head' = head
    BY <1>4 DEF KDone
  <2>2. NoReq \in Requests
    BY AdaptorAssumption DEF NoReq, Requests, Waits, Ops
  <2>3. windows' \in Seq(0 .. NWindows - 1) /\ Len(windows') = 0
    BY <2>1
  <2> QED
    BY <1>1, <2>1, <2>2, <2>3 DEF Chained, Reasonable, InARow, Begun, NoReq
<1>5. ASSUME head' = head, windows' = windows, req' = req,
             pc' \in Begun \/ pc \notin Begun
      PROVE  Chained'
  <2>1. InARow'
    BY <1>5 DEF Chained, Reasonable, InARow
  <2>2. Reasonable => Reasonable'
    BY <1>5 DEF Reasonable, Sane
  <2>3. pc' \notin Begun => windows' = << >>
    BY <1>5 DEF Chained
  <2> QED
    BY <1>5, <2>1, <2>2, <2>3 DEF Chained
<1>6. CASE ShaReset \/ ShaReady \/ ReadStatus
  BY <1>5, <1>6 DEF ShaReset, ShaReady, ReadStatus, machine, Begun
<1>7. CASE Wait \/ CmdWait \/ KMapped \/ KIssue \/ KCheck \/ KRelock
  BY <1>5, <1>7 DEF Wait, SkipSleep, SkipSwitch, Poll, SkipSegment, CmdWait,
     KMapped, KIssue, KCheck, KRelock, machine, Begun
<1> QED
  BY <1>2, <1>3, <1>4, <1>6, <1>7 DEF AdaptorNext

LEMMA DifferentWindows ==
  ASSUME FewWindows, Chained
  PROVE  WindowsDistinct
<1>1. /\ NWindows \in Nat \ {0} /\ head \in 0 .. NWindows
      /\ windows \in Seq(0 .. NWindows - 1) /\ Len(windows) \in Nat
      /\ Len(windows) <= NWindows /\ DOMAIN windows = 1 .. Len(windows)
  <2>1. NWindows \in Nat \ {0} /\ windows \in Seq(0 .. NWindows - 1)
        /\ Len(windows) <= req.n /\ head \in 0 .. NWindows
    BY AdaptorAssumption DEF Chained
  <2> QED
    BY <2>1, ReqSmall, LenProperties
<1>2. ASSUME NEW i \in 1 .. Len(windows), NEW j \in 1 .. Len(windows),
             windows[i] = windows[j]
      PROVE  i = j
  <2> DEFINE a == head - 1 - (Len(windows) - i)
             b == head - 1 - (Len(windows) - j)
  <2>1. /\ windows[i] = IF a >= 0 THEN a ELSE a + NWindows
        /\ windows[j] = IF b >= 0 THEN b ELSE b + NWindows
    BY DEF Chained, Reasonable, InARow
  <2>2. a \in Int /\ b \in Int /\ a - b = i - j /\ i - j < NWindows /\ j - i < NWindows
    BY <1>1
  <2> HIDE DEF a, b
  <2>3. (IF a >= 0 THEN a ELSE a + NWindows) = IF b >= 0 THEN b ELSE b + NWindows
    BY <1>2, <2>1
  <2>4. a = b
    BY <1>1, <2>2, <2>3
  <2> QED
    BY <2>2, <2>4
<1> QED
  BY <1>1, <1>2 DEF WindowsDistinct, IsInjective

(***************************************************************************)
(* The adaptor: transfers                                                  *)
(***************************************************************************)
FitsBuffer == "fits_buffer" \in Assumed

(* Behind a wait the command is complete and the blocks have moved; before *)
(* it the command block is as it was issued, and what is to be written is  *)
(* in memory.                                                              *)
Behind == {"check", "relock", "done"}

Untouched == register = 1

Transferred ==
  /\ disk_img \in Seq(Nat) /\ buffer \in Seq(Nat)
  /\ req \in Requests /\ Reasonable
  /\ writes \in Nat
  /\ pc \notin Behind => block = Pending
  /\ pc = "check" => Completed
  /\ pc \in Begun /\ req.op = "write" => Len(buffer) = req.n
  /\ pc \in Behind /\ req.target = Target /\ req.dma => Arrived

(* The disk image with some blocks written over.                           *)
LEMMA WriteResult ==
  ASSUME NEW img \in Seq(Nat), NEW lba \in Nat, NEW blocks \in Seq(Nat)
  PROVE  /\ WriteBlocks(img, lba, blocks) \in Seq(Nat)
         /\ \A i \in Nat :
              BlockAt(WriteBlocks(img, lba, blocks), i) =
                IF i >= lba /\ i < lba + Len(blocks) THEN blocks[i - lba + 1]
                ELSE BlockAt(img, i)
<1> DEFINE end == lba + Len(blocks)
           n == IF end > Len(img) THEN end ELSE Len(img)
           e(i) == IF i > lba /\ i <= end THEN blocks[i - lba] ELSE BlockAt(img, i - 1)
           new == [i \in 1 .. n |-> e(i)]
<1>1. Len(img) \in Nat /\ Len(blocks) \in Nat
  BY LenProperties
<1>2. n \in Nat /\ end \in Nat /\ n >= end /\ n >= Len(img) /\ (n = end \/ n = Len(img))
  BY <1>1
<1>3. new = WriteBlocks(img, lba, blocks)
  BY DEF WriteBlocks
<1>4. ASSUME NEW i \in 1 .. n PROVE e(i) \in Nat
  <2>1. CASE i > lba /\ i <= end
    <3>1. i - lba \in 1 .. Len(blocks)
      BY <1>1, <2>1
    <3>2. blocks[i - lba] \in Nat
      BY <3>1, ElementOfSeq
    <3> QED
      BY <2>1, <3>2
  <2>2. CASE ~(i > lba /\ i <= end)
    <3>1. CASE i - 1 < Len(img)
      <4>1. i \in 1 .. Len(img) /\ (i - 1) + 1 = i
        BY <3>1, <1>1, <1>2
      <4>2. img[i] \in Nat
        BY <4>1, ElementOfSeq
      <4> QED
        BY <2>2, <3>1, <4>1, <4>2 DEF BlockAt
    <3>2. CASE ~(i - 1 < Len(img))
      BY <2>2, <3>2 DEF BlockAt
    <3> QED
      BY <3>1, <3>2
  <2> QED
    BY <2>1, <2>2
<1>5. new \in Seq(Nat) /\ Len(new) = n /\ \A i \in 1 .. n : new[i] = e(i)
  <2>1. \A i \in 1 .. n : e(i) \in Nat
    BY <1>4
  <2> HIDE DEF e, n
  <2>2. new \in Seq(Nat)
    BY <1>2, <2>1, IsASeq
  <2>3. Len(new) = n
    BY <1>2
  <2> QED
    BY <2>2, <2>3
<1>6. ASSUME NEW i \in Nat
      PROVE  BlockAt(new, i) = IF i >= lba /\ i < end THEN blocks[i - lba + 1]
                               ELSE BlockAt(img, i)
  <2>1. i < n => new[i + 1] = e(i + 1)
    BY <1>2, <1>5
  <2>2. BlockAt(new, i) = IF i < n THEN e(i + 1) ELSE 0
    BY <1>5, <2>1 DEF BlockAt
  <2>3. CASE i >= lba /\ i < end
    <3>1. i < n /\ i + 1 > lba /\ i + 1 <= end /\ (i + 1) - lba = i - lba + 1
      BY <2>3, <1>2
    <3>2. e(i + 1) = blocks[(i + 1) - lba]
      BY <3>1
    <3> QED
      BY <2>2, <2>3, <3>1, <3>2
  <2>4. CASE ~(i >= lba /\ i < end)
    <3>1. ~(i + 1 > lba /\ i + 1 <= end) /\ (i + 1) - 1 = i
      BY <2>4, <1>2
    <3>2. e(i + 1) = BlockAt(img, i)
      BY <3>1
    <3>3. ~(i < n) => BlockAt(img, i) = 0
      BY <1>1, <1>2 DEF BlockAt
    <3> QED
      BY <2>2, <2>4, <3>2, <3>3
  <2> QED
    BY <2>3, <2>4
<1> HIDE DEF new
<1> QED
  BY <1>3, <1>5, <1>6

LEMMA TransferInit == AdaptorInit => Transferred
<1> SUFFICES ASSUME AdaptorInit PROVE Transferred
  OBVIOUS
<1>1. /\ req = NoReq /\ pc = "reset" /\ block = Pending /\ buffer = << >> /\ writes = 0
      /\ disk_img = [i \in 1 .. Size |-> 0]
  BY DEF AdaptorInit
<1>2. NoReq \in Requests
  BY AdaptorAssumption DEF NoReq, Requests, Waits, Ops
<1>3. disk_img \in Seq(Nat) /\ buffer \in Seq(Nat)
  BY <1>1, AdaptorAssumption
<1> QED
  BY <1>1, <1>2, <1>3 DEF Transferred, Reasonable, Behind, Begun

LEMMA ReqTyped ==
  ASSUME Transferred
  PROVE  /\ req.n \in Nat \ {0} /\ req.lba \in Nat /\ req.dma \in BOOLEAN
         /\ req.wait \in Waits /\ req.op \in Ops /\ req.target \in {Target, 1}
         /\ FitsBuffer => Clipped(req.n) = req.n
         /\ req.dma => req.op # "other"
         /\ req.op = "write" => req.dma
         /\ req.wait = "sleep" => req.op = "other"
<1>1. MaxBlocks \in Nat \ {0} /\ MaxXfer \in Nat \ {0} /\ MaxLba \in Nat
  BY AdaptorAssumption
<1>2. req \in Requests /\ Reasonable
  BY DEF Transferred
<1>3. /\ req.n \in 1 .. MaxBlocks /\ req.lba \in 0 .. MaxLba /\ req.dma \in BOOLEAN
      /\ req.wait \in Waits /\ req.op \in Ops /\ req.target \in {Target, 1}
  BY <1>2 DEF Requests
<1>4. FitsBuffer => req.n <= MaxXfer
  BY <1>1, <1>2 DEF Reasonable, NoReq, Sane, FitsBuffer
<1>5. Clipped(req.n) = IF req.n > MaxXfer THEN MaxXfer ELSE req.n
  BY DEF Clipped
<1>6. FitsBuffer => Clipped(req.n) = req.n
  BY <1>1, <1>3, <1>4, <1>5
<1>7. /\ req.dma => req.op # "other"
      /\ req.op = "write" => req.dma
      /\ req.wait = "sleep" => req.op = "other"
  BY <1>2, <1>3 DEF Reasonable, NoReq, Sane
<1> QED
  BY <1>1, <1>3, <1>6, <1>7

(* Executing the command moves the blocks of the request, and of a write   *)
(* exactly those.                                                          *)
LEMMA Executes ==
  ASSUME FitsBuffer, Transferred, sha_sdcomplete, req' = req,
         req.op = "write" => Len(buffer) = req.n
  PROVE  /\ disk_img' \in Seq(Nat) /\ buffer' \in Seq(Nat)
         /\ req.op = "write" => Len(buffer') = req.n
         /\ req.target = Target /\ req.dma => Arrived'
         /\ \A i \in Nat : BlockAt(disk_img', i) # BlockAt(disk_img, i) =>
              req.op = "write" /\ i >= req.lba /\ i < req.lba + req.n
<1> DEFINE n == req.n
           lba == req.lba
<1>1. /\ n \in Nat \ {0} /\ lba \in Nat /\ Clipped(req.n) = n
      /\ req.dma => req.op # "other"
      /\ req.op \in Ops
  BY ReqTyped
<1>2. disk_img \in Seq(Nat) /\ buffer \in Seq(Nat) /\ Len(buffer) \in Nat /\ Len(disk_img) \in Nat
  BY LenProperties DEF Transferred
<1>3. CASE req.target # Target \/ ~req.dma \/ req.op = "other"
  <2>1. disk_img' = disk_img /\ buffer' = buffer
    BY <1>3 DEF sha_sdcomplete, data
  <2> QED
    BY <1>1, <1>2, <1>3, <2>1
<1>4. CASE ~(req.target # Target \/ ~req.dma \/ req.op = "other") /\ req.op = "read"
  <2> DEFINE blocks == ReadBlocks(disk_img, lba, n)
             rest == SubSeq(buffer, n + 1, Len(buffer))
  <2>1. disk_img' = disk_img /\ buffer' = blocks \o rest
    BY <1>1, <1>4 DEF sha_sdcomplete
  <2>2. /\ blocks \in Seq(Nat) /\ Len(blocks) = n
        /\ \A i \in 1 .. n : blocks[i] = BlockAt(disk_img, lba + i - 1)
    <3>1. \A i \in 1 .. n : BlockAt(disk_img, lba + i - 1) \in Nat
      <4> TAKE i \in 1 .. n
      <4>1. CASE lba + i - 1 < Len(disk_img)
        <5>1. (lba + i - 1) + 1 \in 1 .. Len(disk_img)
          BY <4>1, <1>1, <1>2
        <5>2. disk_img[(lba + i - 1) + 1] \in Nat
          BY <5>1, <1>2, ElementOfSeq
        <5> QED
          BY <4>1, <5>2 DEF BlockAt
      <4>2. CASE ~(lba + i - 1 < Len(disk_img))
        BY <4>2 DEF BlockAt
      <4> QED
        BY <4>1, <4>2
    <3>2. blocks = [i \in 1 .. n |-> BlockAt(disk_img, lba + i - 1)]
      BY DEF ReadBlocks
    <3> HIDE DEF blocks, n, lba
    <3>3. [i \in 1 .. n |-> BlockAt(disk_img, lba + i - 1)] \in Seq(Nat)
      BY <1>1, <3>1, IsASeq
    <3> QED
      BY <1>1, <3>2, <3>3
  <2>3. rest \in Seq(Nat)
    <3>1. n + 1 \in Int /\ Len(buffer) \in Int
      BY <1>1, <1>2
    <3>2. \A i \in n + 1 .. Len(buffer) : buffer[i] \in Nat
      <4> TAKE i \in n + 1 .. Len(buffer)
      <4>1. i \in 1 .. Len(buffer)
        BY <1>1, <1>2
      <4> QED
        BY <4>1, <1>2, ElementOfSeq
    <3> HIDE DEF n
    <3> QED
      BY <3>1, <3>2, SubSeqProperties
  <2>4. Len(rest) \in Nat
    BY <2>3, LenProperties
  <2> HIDE DEF blocks, rest
  <2>5. /\ buffer' \in Seq(Nat) /\ Len(buffer') = n + Len(rest)
        /\ \A i \in 1 .. n + Len(rest) :
             (blocks \o rest)[i] = IF i <= n THEN blocks[i] ELSE rest[i - n]
    <3> HIDE DEF n
    <3>1. /\ blocks \o rest \in Seq(Nat)
          /\ Len(blocks \o rest) = Len(blocks) + Len(rest)
          /\ \A i \in 1 .. Len(blocks) + Len(rest) :
               (blocks \o rest)[i] = IF i <= Len(blocks) THEN blocks[i]
                                     ELSE rest[i - Len(blocks)]
      BY <2>2, <2>3, ConcatProperties
    <3> QED
      BY <2>1, <2>2, <3>1
  <2>6. DOMAIN buffer' = 1 .. n + Len(rest)
    BY <2>5, LenProperties
  <2>7. \A i \in 1 .. n : i \in DOMAIN buffer' /\ buffer'[i] = BlockAt(disk_img, lba + i - 1)
    BY <1>1, <2>1, <2>2, <2>4, <2>5, <2>6
  <2>8. Arrived'
    BY <2>1, <2>7 DEF Arrived
  <2> QED
    BY <1>2, <1>4, <2>1, <2>5, <2>8
<1>5. CASE ~(req.target # Target \/ ~req.dma \/ req.op = "other") /\ req.op # "read"
  <2> DEFINE blocks == SubSeq(buffer, 1, n)
  <2>1. /\ req.op = "write" /\ buffer' = buffer
        /\ disk_img' = WriteBlocks(disk_img, lba, blocks)
    BY <1>1, <1>5 DEF sha_sdcomplete, Ops
  <2>2. Len(buffer) = n
    BY <2>1
  <2>3. blocks = buffer
    BY <1>2, <2>2, SubSeqFull
  <2> HIDE DEF blocks
  <2>4. /\ disk_img' \in Seq(Nat)
        /\ \A i \in Nat :
             BlockAt(disk_img', i) = IF i >= lba /\ i < lba + n THEN buffer[i - lba + 1]
                                     ELSE BlockAt(disk_img, i)
    <3> HIDE DEF n, lba
    <3> DEFINE new == WriteBlocks(disk_img, lba, buffer)
    <3>1. /\ new \in Seq(Nat)
          /\ \A i \in Nat :
               BlockAt(new, i) = IF i >= lba /\ i < lba + Len(buffer) THEN buffer[i - lba + 1]
                                 ELSE BlockAt(disk_img, i)
      BY <1>1, <1>2, WriteResult
    <3>2. disk_img' = new
      BY <2>1, <2>3
    <3> HIDE DEF new
    <3> QED
      BY <2>2, <3>1, <3>2
  <2>5. \A i \in 1 .. n : i \in DOMAIN buffer' /\ buffer'[i] = BlockAt(disk_img', lba + i - 1)
    <3> TAKE i \in 1 .. n
    <3>1. lba + i - 1 \in Nat /\ lba + i - 1 >= lba /\ lba + i - 1 < lba + n
          /\ (lba + i - 1) - lba + 1 = i
      BY <1>1
    <3>2. BlockAt(disk_img', lba + i - 1) = buffer[i]
      BY <2>4, <3>1
    <3>3. i \in DOMAIN buffer
      BY <1>2, <2>2, LenProperties
    <3> QED
      BY <2>1, <3>2, <3>3
  <2>6. Arrived'
    BY <2>5 DEF Arrived
  <2> QED
    BY <1>2, <2>1, <2>2, <2>4, <2>6
<1> QED
  BY <1>3, <1>4, <1>5

InPlace ==
  \A i \in 0 .. MaxLba + MaxBlocks :
    BlockAt(disk_img, i)' # BlockAt(disk_img, i) =>
      req.op = "write" /\ i >= req.lba /\ i < req.lba + req.n

LEMMA SameDisk ==
  ASSUME disk_img' = disk_img
  PROVE  InPlace
  BY DEF InPlace, BlockAt

LEMMA WaitStep ==
  ASSUME FitsBuffer, Transferred, Wait
  PROVE  Transferred' /\ InPlace
<1>1. pc = "wait" /\ pc' = "check" /\ req' = req /\ writes' = writes
  BY DEF Wait, SkipSleep, SkipSwitch, Poll, SkipSegment
<1>2. /\ disk_img \in Seq(Nat) /\ buffer \in Seq(Nat) /\ block = Pending
      /\ req \in Requests /\ Reasonable /\ writes \in Nat
      /\ req.op = "write" => Len(buffer) = req.n
  BY <1>1 DEF Transferred, Behind, Begun
<1>3. Reasonable'
  BY <1>1, <1>2 DEF Reasonable, Sane
<1>4. /\ disk_img' \in Seq(Nat) /\ buffer' \in Seq(Nat)
      /\ req.op = "write" => Len(buffer') = req.n
      /\ req.target = Target /\ req.dma => Arrived'
      /\ InPlace /\ Completed'
  <2>1. CASE SkipSleep
    <3>1. disk_img' = disk_img /\ buffer' = buffer /\ req.wait = "sleep"
          /\ block' = [block EXCEPT !.outstanding = FALSE]
      BY <2>1 DEF SkipSleep, data
    <3>2. ~req.dma
      BY <3>1, ReqTyped
    <3>3. Completed'
      BY <1>1, <1>2, <3>1 DEF Completed, Pending
    <3> QED
      BY <1>2, <3>1, <3>2, <3>3, SameDisk
  <2>2. CASE SkipSwitch \/ SkipSegment \/ Poll
    <3>1. sha_sdcomplete /\ Completed'
      <4>1. CASE SkipSwitch
        BY <1>1, <4>1 DEF SkipSwitch, Completed
      <4>2. CASE SkipSegment
        <5>1. sha_sdcomplete /\ req.wait = "segments"
              /\ block' = [block EXCEPT !.copying = FALSE]
          BY <4>2 DEF SkipSegment
        <5> QED
          BY <1>1, <1>2, <5>1 DEF Completed, Pending
      <4>3. CASE Poll
        <5>1. ~block.done
          BY <1>2 DEF Pending
        <5>2. sha_sdcomplete /\ req.wait = "poll"
              /\ block' = [block EXCEPT !.done = TRUE]
          BY <4>3, <5>1 DEF Poll
        <5> QED
          BY <1>1, <1>2, <5>2 DEF Completed, Pending
      <4> QED
        BY <2>2, <4>1, <4>2, <4>3
    <3>2. /\ disk_img' \in Seq(Nat) /\ buffer' \in Seq(Nat)
          /\ req.op = "write" => Len(buffer') = req.n
          /\ req.target = Target /\ req.dma => Arrived'
          /\ \A i \in Nat : BlockAt(disk_img', i) # BlockAt(disk_img, i) =>
               req.op = "write" /\ i >= req.lba /\ i < req.lba + req.n
      BY <1>1, <1>2, <3>1, Executes
    <3>3. 0 .. MaxLba + MaxBlocks \subseteq Nat
      BY AdaptorAssumption
    <3>4. InPlace
      BY <3>2, <3>3 DEF InPlace, BlockAt
    <3> QED
      BY <3>1, <3>2, <3>4
  <2> QED
    BY <2>1, <2>2 DEF Wait
<1>5. Transferred'
  BY <1>1, <1>2, <1>3, <1>4 DEF Transferred, Behind
<1> QED
  BY <1>4, <1>5

LEMMA BeginStep ==
  ASSUME Transferred, NEW r \in Requests, KBegin(r)
  PROVE  Transferred' /\ InPlace
<1>1. /\ pc = "idle" /\ pc' = "map" /\ Sane(r) /\ req' = r
      /\ disk_img' = disk_img /\ block' = block
      /\ \/ r.op = "write" /\ writes' = writes + 1 /\ buffer' = [i \in 1 .. r.n |-> writes + 1]
         \/ r.op # "write" /\ writes' = writes /\ buffer' = buffer
  BY DEF KBegin
<1>2. /\ disk_img \in Seq(Nat) /\ buffer \in Seq(Nat) /\ block = Pending /\ writes \in Nat
  BY <1>1 DEF Transferred, Behind
<1>3. r.n \in Nat
  BY AdaptorAssumption DEF Requests
<1>4. buffer' \in Seq(Nat) /\ writes' \in Nat /\ (r.op = "write" => Len(buffer') = r.n)
  BY <1>1, <1>2, <1>3
<1>5. Reasonable'
  BY <1>1 DEF Reasonable, Sane
<1>6. Transferred'
  BY <1>1, <1>2, <1>4, <1>5 DEF Transferred, Behind
<1> QED
  BY <1>1, <1>6, SameDisk

LEMMA TransferSteps ==
  ASSUME FitsBuffer, Transferred, AdaptorNext
  PROVE  Transferred' /\ InPlace
<1>1. CASE Wait
  BY <1>1, WaitStep
<1>2. CASE \E r \in Requests : KBegin(r)
  BY <1>2, BeginStep
<1>3. CASE KDone
  <2>1. /\ req' = NoReq /\ pc' = "idle" /\ block' = Pending /\ buffer' = << >>
        /\ disk_img' = disk_img /\ writes' = writes
    BY <1>3 DEF KDone
  <2>2. NoReq \in Requests
    BY AdaptorAssumption DEF NoReq, Requests, Waits, Ops
  <2>3. buffer' \in Seq(Nat)
    BY <2>1
  <2>4. Transferred'
    BY <2>1, <2>2, <2>3 DEF Transferred, Reasonable, Behind, Begun
  <2> QED
    BY <2>1, <2>4, SameDisk
<1>4. CASE KCheck
  <2>1. /\ pc = "check" /\ pc' \in {"relock", "done"}
        /\ req' = req /\ block' = block /\ buffer' = buffer
        /\ disk_img' = disk_img /\ writes' = writes
    BY <1>4 DEF KCheck, Transferred, data
  <2>2. Reasonable'
    BY <2>1 DEF Transferred, Reasonable, Sane
  <2>3. Arrived => Arrived'
    BY <2>1 DEF Arrived, BlockAt
  <2>4. Transferred'
    BY <2>1, <2>2, <2>3 DEF Transferred, Behind, Begun
  <2> QED
    BY <2>1, <2>4, SameDisk
<1>5. CASE KRelock
  <2>1. /\ pc = "relock" /\ pc' = "done"
        /\ req' = req /\ block' = block /\ buffer' = buffer
        /\ disk_img' = disk_img /\ writes' = writes
    BY <1>5 DEF KRelock, data
  <2>2. Reasonable'
    BY <2>1 DEF Transferred, Reasonable, Sane
  <2>3. Arrived => Arrived'
    BY <2>1 DEF Arrived, BlockAt
  <2>4. Transferred'
    BY <2>1, <2>2, <2>3 DEF Transferred, Behind, Begun
  <2> QED
    BY <2>1, <2>4, SameDisk
<1>6. CASE ShaReset \/ ShaReady \/ ReadStatus \/ MapWindow \/ CmdWait \/ KMapped \/ KIssue
  <2>1. /\ pc \notin Behind /\ pc' \notin Behind /\ (pc' \in Begun => pc \in Begun)
        /\ req' = req /\ block' = block /\ buffer' = buffer
        /\ disk_img' = disk_img /\ writes' = writes
    BY <1>6 DEF ShaReset, ShaReady, ReadStatus, MapWindow, CmdWait, KMapped, KIssue,
       Behind, Begun, data, machine
  <2>2. Reasonable'
    BY <2>1 DEF Transferred, Reasonable, Sane
  <2>3. Transferred'
    BY <2>1, <2>2 DEF Transferred, Behind
  <2> QED
    BY <2>1, <2>3, SameDisk
<1> QED
  BY <1>1, <1>2, <1>3, <1>4, <1>5, <1>6 DEF AdaptorNext

LEMMA TransferDelivers ==
  ASSUME FewWindows, Transferred, Chained, Untouched
  PROVE  Delivered
<1>1. WindowsDistinct
  BY DifferentWindows
<1>2. pc = "done" /\ req.target = Target /\ req.dma => Arrived
  BY DEF Transferred, Behind
<1> QED
  BY <1>1, <1>2 DEF Delivered, Untouched, RegisterKept

(***************************************************************************)
(* The end of a request.  Whichever wait the driver uses, it finds every   *)
(* wait over when it looks, and each of its steps brings it nearer to the  *)
(* end of the request.                                                     *)
(***************************************************************************)

(* What the driver's next step waits for is there.                         *)
CanGoOn ==
  /\ pc = "probe" => sha_status = 2
  /\ pc = "map" => Len(windows) <= req.n
  /\ pc = "check" => Completed
  /\ pc = "relock" => ~lock

(* How many steps the driver is at most away from its next request.        *)
Ahead ==
  CASE pc = "reset" -> 3
    [] pc = "pulse" -> 2
    [] pc = "probe" -> 1
    [] pc = "map" -> 7 + (req.n - Len(windows))
    [] pc = "slot" -> 6
    [] pc = "issue" -> 5
    [] pc = "wait" -> 4
    [] pc = "check" -> 3
    [] pc = "relock" -> 2
    [] pc = "done" -> 1
    [] OTHER -> 0

Starting == {"reset", "pulse", "probe", "idle"}

(* The driver's own lock is held until the wait drops it, and is taken     *)
(* again only by a driver that slept with it; and the command block is     *)
(* what the driver made it until a wait is over.                           *)
OnItsWay ==
  /\ pc \in Starting \cup Begun
  /\ req \in Requests /\ Reasonable
  /\ pc = "probe" => sha_status = 2
  /\ head \in Nat /\ windows \in Seq(Nat)
  /\ IF pc \in Starting THEN windows = << >> ELSE Len(windows) <= req.n
  /\ IF pc \in Behind THEN Completed ELSE block = Pending
  /\ lock => req.r4 = "lock" /\ pc \notin {"check", "relock"}
  /\ pc = "relock" => req.r4 = "lock"

LEMMA OnItsWayTyped ==
  ASSUME OnItsWay
  PROVE  /\ req.n \in Nat \ {0} /\ Len(windows) \in Nat
         /\ req.wait \in Waits
         /\ req.r4 = "lock" => req.wait \in {"sleep", "segments"}
<1>1. req \in Requests /\ Reasonable /\ windows \in Seq(Nat)
  BY DEF OnItsWay
<1>2. req.n \in 1 .. MaxBlocks /\ req.wait \in Waits
  BY <1>1 DEF Requests
<1>3. MaxBlocks \in Nat
  BY AdaptorAssumption
<1>4. req.r4 = "lock" => req.wait \notin {"switch", "poll"}
  BY <1>1 DEF Reasonable, Sane, NoReq
<1> QED
  BY <1>1, <1>2, <1>3, <1>4, LenProperties DEF Waits

LEMMA WayStarts == AdaptorInit => OnItsWay
<1> SUFFICES ASSUME AdaptorInit PROVE OnItsWay
  OBVIOUS
<1>1. /\ pc = "reset" /\ req = NoReq /\ head = 0 /\ windows = << >>
      /\ block = Pending /\ lock = FALSE
  BY DEF AdaptorInit
<1>2. NoReq \in Requests
  BY AdaptorAssumption DEF NoReq, Requests, Waits, Ops
<1> QED
  BY <1>1, <1>2 DEF OnItsWay, Reasonable, Starting, Begun, Behind

LEMMA WayIsFree ==
  ASSUME OnItsWay
  PROVE  CanGoOn /\ Ahead \in Nat
<1>1. req.n \in Nat /\ Len(windows) \in Nat
  BY OnItsWayTyped
<1>2. CanGoOn
  BY DEF OnItsWay, CanGoOn, Starting, Begun, Behind
<1>3. pc = "map" => Ahead \in Nat
  BY <1>1, <1>2 DEF CanGoOn, Ahead
<1>4. pc # "map" => Ahead \in Nat
  BY DEF Ahead
<1> QED
  BY <1>2, <1>3, <1>4

(* Every step nearer to the end of the request, but that which begins one. *)
Nearer == pc # "idle" => Ahead' < Ahead

LEMMA WaitIsOver ==
  ASSUME OnItsWay, Wait
  PROVE  OnItsWay' /\ Nearer
<1>1. /\ pc = "wait" /\ pc' = "check" /\ req' = req
      /\ head' = head /\ windows' = windows
  BY DEF Wait, SkipSleep, SkipSwitch, Poll, SkipSegment
<1>2. /\ block = Pending /\ req \in Requests /\ Reasonable
      /\ head \in Nat /\ windows \in Seq(Nat) /\ Len(windows) <= req.n
      /\ lock => req.r4 = "lock"
  BY <1>1 DEF OnItsWay, Starting, Behind
<1>3. req.r4 = "lock" => req.wait \in {"sleep", "segments"}
  BY OnItsWayTyped
<1>4. Completed' /\ ~lock'
  <2>1. CASE SkipSleep
    <3>1. /\ req.wait = "sleep" /\ block' = [block EXCEPT !.outstanding = FALSE]
          /\ lock' = IF req.r4 = "lock" THEN FALSE ELSE lock
      BY <2>1 DEF SkipSleep, DropLock
    <3>2. ~block'.outstanding
      BY <1>2, <3>1 DEF Pending
    <3> QED
      BY <1>1, <1>2, <3>1, <3>2 DEF Completed
  <2>2. CASE SkipSwitch
    <3>1. req.wait = "switch" /\ lock' = lock
      BY <2>2 DEF SkipSwitch
    <3> QED
      BY <1>1, <1>2, <1>3, <3>1 DEF Completed
  <2>3. CASE Poll
    <3>1. req.wait = "poll" /\ lock' = lock /\ ~block.done
      BY <1>2, <2>3 DEF Poll, Pending
    <3>2. block' = [block EXCEPT !.done = TRUE]
      BY <2>3, <3>1 DEF Poll
    <3>3. block'.done
      BY <1>2, <3>2 DEF Pending
    <3> QED
      BY <1>1, <1>2, <1>3, <3>1, <3>3 DEF Completed
  <2>4. CASE SkipSegment
    <3>1. /\ req.wait = "segments" /\ block' = [block EXCEPT !.copying = FALSE]
          /\ lock' = IF req.r4 = "lock" THEN FALSE ELSE lock
      BY <2>4 DEF SkipSegment, DropLock
    <3>2. ~block'.copying
      BY <1>2, <3>1 DEF Pending
    <3> QED
      BY <1>1, <1>2, <3>1, <3>2 DEF Completed
  <2> QED
    BY <2>1, <2>2, <2>3, <2>4 DEF Wait
<1>5. Reasonable'
  BY <1>1, <1>2 DEF Reasonable, Sane
<1>6. OnItsWay'
  BY <1>1, <1>2, <1>4, <1>5 DEF OnItsWay, Starting, Begun, Behind
<1>7. Nearer
  BY <1>1 DEF Nearer, Ahead
<1> QED
  BY <1>6, <1>7

LEMMA WaySteps ==
  ASSUME OnItsWay, AdaptorNext
  PROVE  OnItsWay' /\ Nearer
<1>1. /\ req \in Requests /\ Reasonable /\ head \in Nat /\ windows \in Seq(Nat)
      /\ req.n \in Nat \ {0} /\ Len(windows) \in Nat
  BY OnItsWayTyped DEF OnItsWay
<1>2. CASE Wait
  BY <1>2, WaitIsOver
<1>3. CASE \E r \in Requests : KBegin(r)
  <2>1. PICK r \in Requests : KBegin(r)
    BY <1>3
  <2>2. /\ pc = "idle" /\ pc' = "map" /\ Sane(r) /\ req' = r /\ (lock' => r.r4 = "lock")
        /\ head' = head /\ windows' = windows /\ block' = block
    BY <2>1 DEF KBegin
  <2>3. windows = << >> /\ block = Pending /\ Len(windows) = 0
    BY <2>2 DEF OnItsWay, Starting, Behind
  <2>4. r.n \in Nat
    BY AdaptorAssumption DEF Requests
  <2>5. Reasonable'
    BY <2>2 DEF Reasonable, Sane
  <2>6. lock' => req'.r4 = "lock"
    BY <2>2, Zenon
  <2>7. OnItsWay'
    BY <1>1, <2>2, <2>3, <2>4, <2>5, <2>6 DEF OnItsWay, Starting, Begun, Behind
  <2>8. Nearer
    BY <2>2 DEF Nearer
  <2> QED
    BY <2>7, <2>8
<1>4. CASE MapWindow
  <2> DEFINE first == IF head = NWindows THEN 0 ELSE head
  <2>1. /\ pc = "map" /\ pc' = "map" /\ Len(windows) < req.n
        /\ head' = first + 1 /\ windows' = Append(windows, first)
        /\ req' = req /\ block' = block /\ lock' = lock
    BY <1>4 DEF MapWindow
  <2>2. first \in Nat
    BY <1>1
  <2>3. head' \in Nat /\ windows' \in Seq(Nat) /\ Len(windows') = Len(windows) + 1
    BY <1>1, <2>1, <2>2
  <2>4. Len(windows') <= req'.n
    BY <1>1, <2>1, <2>3
  <2>5. Reasonable'
    BY <1>1, <2>1 DEF Reasonable, Sane
  <2>6. block = Pending /\ (lock => req.r4 = "lock")
    BY <2>1 DEF OnItsWay, Behind
  <2>7. OnItsWay'
    BY <1>1, <2>1, <2>3, <2>4, <2>5, <2>6 DEF OnItsWay, Starting, Begun, Behind
  <2>8. Ahead = 7 + (req.n - Len(windows)) /\ Ahead' = 7 + (req.n - (Len(windows) + 1))
    BY <2>1, <2>3 DEF Ahead
  <2> QED
    BY <1>1, <2>7, <2>8 DEF Nearer
<1>5. CASE KDone
  <2>1. /\ pc = "done" /\ pc' = "idle" /\ lock' = FALSE /\ windows' = << >>
        /\ req' = NoReq /\ block' = Pending /\ head' = head
    BY <1>5 DEF KDone
  <2>2. NoReq \in Requests
    BY AdaptorAssumption DEF NoReq, Requests, Waits, Ops
  <2>3. OnItsWay'
    BY <1>1, <2>1, <2>2 DEF OnItsWay, Reasonable, Starting, Begun, Behind
  <2>4. Nearer
    BY <2>1 DEF Nearer, Ahead
  <2> QED
    BY <2>3, <2>4
<1>6. CASE KCheck
  <2>1. /\ pc = "check" /\ Completed /\ ~lock /\ Len(windows) <= req.n
    BY <1>6 DEF KCheck, OnItsWay, Starting, Behind
  <2>2. /\ pc' = IF req.r4 = "lock" THEN "relock" ELSE "done"
        /\ req' = req /\ block' = block /\ lock' = lock /\ head' = head /\ windows' = windows
    BY <1>6, <2>1 DEF KCheck, machine
  <2>3. Reasonable' /\ Completed'
    BY <1>1, <2>1, <2>2 DEF Reasonable, Sane, Completed
  <2>4. OnItsWay'
    BY <1>1, <2>1, <2>2, <2>3 DEF OnItsWay, Starting, Begun, Behind
  <2>5. Nearer
    BY <2>1, <2>2 DEF Nearer, Ahead
  <2> QED
    BY <2>4, <2>5
<1>7. CASE KRelock
  <2>1. /\ pc = "relock" /\ pc' = "done" /\ lock' = TRUE
        /\ req' = req /\ block' = block /\ head' = head /\ windows' = windows
    BY <1>7 DEF KRelock
  <2>2. Completed /\ req.r4 = "lock" /\ Len(windows) <= req.n
    BY <2>1 DEF OnItsWay, Starting, Behind
  <2>3. Reasonable' /\ Completed'
    BY <1>1, <2>1, <2>2 DEF Reasonable, Sane, Completed
  <2>4. OnItsWay'
    BY <1>1, <2>1, <2>2, <2>3 DEF OnItsWay, Starting, Begun, Behind
  <2>5. Nearer
    BY <2>1 DEF Nearer, Ahead
  <2> QED
    BY <2>4, <2>5
<1>8. CASE ShaReset \/ ShaReady \/ ReadStatus
  <2>1. /\ pc \in {"reset", "pulse", "probe"}
        /\ req' = req /\ block' = block /\ lock' = lock /\ head' = head /\ windows' = windows
        /\ \/ pc = "reset" /\ pc' = "pulse"
           \/ pc = "pulse" /\ pc' = "probe" /\ sha_status' = 2
           \/ pc = "probe" /\ pc' = "idle"
    BY <1>8 DEF ShaReset, ShaReady, ReadStatus, machine
  <2>2. windows = << >> /\ block = Pending /\ (lock => req.r4 = "lock")
    BY <2>1 DEF OnItsWay, Starting, Behind
  <2>3. Reasonable'
    BY <1>1, <2>1 DEF Reasonable, Sane
  <2>4. OnItsWay'
    BY <1>1, <2>1, <2>2, <2>3 DEF OnItsWay, Starting, Begun, Behind
  <2>5. Nearer
    BY <2>1 DEF Nearer, Ahead
  <2> QED
    BY <2>4, <2>5
<1>9. CASE CmdWait \/ KMapped \/ KIssue
  <2>1. /\ req' = req /\ block' = block /\ lock' = lock /\ head' = head /\ windows' = windows
        /\ \/ pc = "map" /\ pc' = "slot" /\ Len(windows) = req.n
           \/ pc = "slot" /\ pc' = "issue"
           \/ pc = "issue" /\ pc' = "wait"
    BY <1>9 DEF CmdWait, KMapped, KIssue, machine
  <2>2. Len(windows) <= req.n /\ block = Pending /\ (lock => req.r4 = "lock")
    BY <2>1 DEF OnItsWay, Starting, Behind
  <2>3. Reasonable'
    BY <1>1, <2>1 DEF Reasonable, Sane
  <2>4. OnItsWay'
    BY <1>1, <2>1, <2>2, <2>3 DEF OnItsWay, Starting, Begun, Behind
  <2>5. Nearer
    BY <1>1, <2>1 DEF Nearer, Ahead
  <2> QED
    BY <2>4, <2>5
<1> QED
  BY <1>2, <1>3, <1>4, <1>5, <1>6, <1>7, <1>8, <1>9 DEF AdaptorNext

(* What the emulator drops is the lock, and never a register.              *)
LEMMA UntouchedKept ==
  ASSUME Untouched, [Next]_vars
  PROVE  Untouched'
<1>1. CASE UsesAdaptor
  <2>1. AdaptorNext
    BY <1>1 DEF UsesAdaptor
  <2>2. register' = register
    BY <2>1 DEF AdaptorNext, ShaReset, ShaReady, ReadStatus, Wait, SkipSleep, SkipSwitch, Poll,
       SkipSegment, DropLock, MapWindow, CmdWait, KBegin, KMapped, KIssue, KCheck, KRelock,
       KDone, machine
  <2> QED
    BY <2>2 DEF Untouched
<1>2. CASE UNCHANGED adaptor
  BY <1>2 DEF adaptor, machine, Untouched
<1> QED
  BY <1>1, <1>2 DEF Next, UsesRing, UsesLog, UsesHostFiles, UsesLabel, Boots, vars

(***************************************************************************)
(* The front end: sequences of sequences laid end to end                   *)
(***************************************************************************)

(* Induction: a set of numbers that is not empty has a first one.          *)
LEMMA FirstOf ==
  ASSUME NEW T \in SUBSET Nat, T # {}
  PROVE  \E n \in T : n - 1 \notin T /\ \A m \in T : n <= m
<1>1. \E x \in T : \A y \in T : <<y, x>> \notin OpToRel(<, Nat)
  BY NatLessThanWellFounded, WFMin
<1>2. PICK x \in T : \A y \in T : <<y, x>> \notin OpToRel(<, Nat)
  BY <1>1
<1>3. \A y \in T : x <= y
  <2> SUFFICES ASSUME NEW y \in T PROVE x <= y
    OBVIOUS
  <2>1. <<y, x>> \in Nat \X Nat
    OBVIOUS
  <2>2. ~(y < x)
    BY <1>2, <2>1 DEF OpToRel
  <2> QED
    BY <2>2
<1>4. x - 1 \notin T
  BY <1>3
<1> QED
  BY <1>3, <1>4

(* d lays the first m parts of p end to end.                               *)
LaidOut(d, p, m) == d = [i \in 1 .. m |-> IF i = 1 THEN p[i] ELSE d[i - 1] \o p[i]]

LEMMA LaidOutExists ==
  ASSUME NEW C, NEW p \in Seq(Seq(C))
  PROVE  \E d \in [1 .. Len(p) -> Seq(C)] : LaidOut(d, p, Len(p))
<1> DEFINE Can(m) == \E d \in [1 .. m -> Seq(C)] : LaidOut(d, p, m)
           T == {m \in 0 .. Len(p) : ~Can(m)}
<1>0. Len(p) \in Nat /\ \A i \in 1 .. Len(p) : p[i] \in Seq(C)
  OBVIOUS
<1> SUFFICES ASSUME T # {} PROVE FALSE
  <2> HIDE DEF Can
  <2>1. Len(p) \in 0 .. Len(p)
    BY <1>0
  <2>2. Can(Len(p))
    BY <2>1
  <2> QED
    BY <2>2 DEF Can
<1>1. T \in SUBSET Nat
  BY <1>0
<1>2. PICK m \in T : m - 1 \notin T
  BY <1>1, FirstOf
<1>3. m \in 0 .. Len(p) /\ ~Can(m)
  BY <1>2
<1>4. CASE m = 0
  <2> DEFINE d == [i \in 1 .. m |-> IF i = 1 THEN p[i] ELSE p[i]]
  <2>1. 1 .. m = {}
    BY <1>4
  <2>2. d \in [1 .. m -> Seq(C)] /\ LaidOut(d, p, m)
    BY <2>1 DEF LaidOut
  <2> QED
    BY <1>3, <2>2
<1>5. CASE m # 0
  <2>1. m - 1 \in 0 .. Len(p) /\ m \in 1 .. Len(p) /\ m - 1 \in Nat
    BY <1>0, <1>3, <1>5
  <2>2. PICK d \in [1 .. (m - 1) -> Seq(C)] : LaidOut(d, p, m - 1)
    BY <1>2, <2>1
  <2> DEFINE e == [i \in 1 .. m |-> IF i = m THEN IF i = 1 THEN p[i] ELSE d[m - 1] \o p[i] ELSE d[i]]
  <2>3. \A i \in 1 .. (m - 1) : d[i] = IF i = 1 THEN p[i] ELSE d[i - 1] \o p[i]
    BY <2>2 DEF LaidOut
  <2>4. \A i \in 1 .. m : i # m => i \in 1 .. (m - 1)
    BY <2>1
  <2>5. m # 1 => m - 1 \in 1 .. (m - 1)
    BY <2>1
  <2>6. e \in [1 .. m -> Seq(C)]
    <3> SUFFICES ASSUME NEW i \in 1 .. m
                 PROVE  (IF i = m THEN IF i = 1 THEN p[i] ELSE d[m - 1] \o p[i] ELSE d[i]) \in Seq(C)
      OBVIOUS
    <3>1. p[i] \in Seq(C)
      BY <1>0, <2>1
    <3>2. CASE i # m
      BY <2>4, <3>2
    <3>3. CASE i = m /\ i = 1
      BY <3>1, <3>3
    <3>4. CASE i = m /\ i # 1
      <4>1. d[m - 1] \in Seq(C)
        BY <2>5, <3>4
      <4>2. d[m - 1] \o p[i] \in Seq(C)
        BY <3>1, <4>1
      <4> QED
        BY <3>4, <4>2
    <3> QED
      BY <3>2, <3>3, <3>4
  <2>7. ASSUME NEW i \in 1 .. m
        PROVE  e[i] = IF i = 1 THEN p[i] ELSE e[i - 1] \o p[i]
    <3>1. CASE i = m
      <4>1. i # 1 => e[i - 1] = d[m - 1]
        BY <2>1, <3>1
      <4> QED
        BY <3>1, <4>1
    <3>2. CASE i # m
      <4>1. i \in 1 .. (m - 1) /\ e[i] = d[i]
        BY <2>4, <3>2
      <4>2. i # 1 => e[i - 1] = d[i - 1]
        BY <4>1
      <4> QED
        BY <2>3, <4>1, <4>2
    <3> QED
      BY <3>1, <3>2
  <2>8. LaidOut(e, p, m)
    BY <2>7 DEF LaidOut
  <2> QED
    BY <1>3, <2>6, <2>8
<1> QED
  BY <1>4, <1>5

LEMMA FlattenIs ==
  ASSUME NEW C, NEW p \in Seq(Seq(C)), Len(p) # 0
  PROVE  \E d \in [1 .. Len(p) -> Seq(C)] :
           LaidOut(d, p, Len(p)) /\ FlattenSeq(p) = d[Len(p)]
<1> DEFINE d == CHOOSE d : d = [i \in 1 .. Len(p) |-> IF i = 1 THEN p[i] ELSE d[i - 1] \o p[i]]
<1>1. FlattenSeq(p) = d[Len(p)]
  BY DEF FlattenSeq
<1>2. PICK e \in [1 .. Len(p) -> Seq(C)] : LaidOut(e, p, Len(p))
  BY LaidOutExists, SMTT(30)
<1>3. d = [i \in 1 .. Len(p) |-> IF i = 1 THEN p[i] ELSE d[i - 1] \o p[i]]
  BY <1>2, ZenonT(30) DEF LaidOut
<1> HIDE DEF d
<1>4. \A i \in 1 .. Len(p) : d[i] = e[i]
  <2> DEFINE T == {i \in 1 .. Len(p) : d[i] # e[i]}
  <2> SUFFICES ASSUME T # {} PROVE FALSE
    OBVIOUS
  <2>1. PICK k \in T : k - 1 \notin T
    <3>1. T \in SUBSET Nat
      OBVIOUS
    <3> QED
      BY <3>1, FirstOf
  <2>2. k \in 1 .. Len(p) /\ d[k] # e[k]
    OBVIOUS
  <2>3. /\ d[k] = IF k = 1 THEN p[k] ELSE d[k - 1] \o p[k]
        /\ e[k] = IF k = 1 THEN p[k] ELSE e[k - 1] \o p[k]
    BY <1>2, <1>3, <2>2 DEF LaidOut
  <2>4. k # 1 => d[k - 1] = e[k - 1]
    <3>1. k # 1 => k - 1 \in 1 .. Len(p)
      BY <2>2
    <3> QED
      BY <2>1, <3>1
  <2> QED
    BY <2>2, <2>3, <2>4
<1>5. Len(p) \in 1 .. Len(p)
  OBVIOUS
<1> QED
  BY <1>1, <1>2, <1>4, <1>5

LEMMA FlattenEmpty == FlattenSeq(<< >>) = << >>
  BY DEF FlattenSeq

LEMMA FlattenType ==
  ASSUME NEW C, NEW p \in Seq(Seq(C))
  PROVE  FlattenSeq(p) \in Seq(C)
<1>1. CASE Len(p) = 0
  <2>1. p = << >>
    BY <1>1
  <2>2. << >> \in Seq(C)
    OBVIOUS
  <2> QED
    BY <2>1, <2>2, FlattenEmpty
<1>2. CASE Len(p) # 0
  <2>1. PICK d \in [1 .. Len(p) -> Seq(C)] : FlattenSeq(p) = d[Len(p)]
    BY <1>2, FlattenIs
  <2> QED
    BY <1>2, <2>1, SMTT(30)
<1> QED
  BY <1>1, <1>2

(* One part more.                                                          *)
LEMMA FlattenAppend ==
  ASSUME NEW C, NEW p \in Seq(Seq(C)), NEW s \in Seq(C)
  PROVE  FlattenSeq(Append(p, s)) = FlattenSeq(p) \o s
<1> DEFINE q == Append(p, s)
           n == Len(p)
<1>1. /\ q \in Seq(Seq(C)) /\ Len(q) = n + 1 /\ n \in Nat
      /\ \A i \in 1 .. n : q[i] = p[i]
      /\ q[n + 1] = s
  BY AppendProperties
<1> HIDE DEF q
<1>2. PICK e \in [1 .. Len(q) -> Seq(C)] : LaidOut(e, q, Len(q)) /\ FlattenSeq(q) = e[Len(q)]
  BY <1>1, FlattenIs
<1>3. \A i \in 1 .. n + 1 : e[i] = IF i = 1 THEN q[i] ELSE e[i - 1] \o q[i]
  BY <1>1, <1>2 DEF LaidOut
<1>4. CASE n = 0
  <2>1. p = << >> /\ << >> \o s = s
    BY <1>4
  <2>2. FlattenSeq(q) = s
    BY <1>1, <1>2, <1>3, <1>4
  <2> QED
    BY <2>1, <2>2, FlattenEmpty DEF q
<1>5. CASE n # 0
  <2>1. PICK d \in [1 .. n -> Seq(C)] : LaidOut(d, p, n) /\ FlattenSeq(p) = d[n]
    BY <1>5, FlattenIs
  <2>2. \A i \in 1 .. n : d[i] = IF i = 1 THEN p[i] ELSE d[i - 1] \o p[i]
    BY <2>1 DEF LaidOut
  <2>3. \A i \in 1 .. n : d[i] = e[i]
    <3> DEFINE T == {i \in 1 .. n : d[i] # e[i]}
    <3> SUFFICES ASSUME T # {} PROVE FALSE
      OBVIOUS
    <3>1. PICK k \in T : k - 1 \notin T
      <4>1. T \in SUBSET Nat
        OBVIOUS
      <4> QED
        BY <4>1, FirstOf
    <3>2. k \in 1 .. n /\ k \in 1 .. n + 1 /\ d[k] # e[k]
      BY <1>1
    <3>3. /\ d[k] = IF k = 1 THEN p[k] ELSE d[k - 1] \o p[k]
          /\ e[k] = IF k = 1 THEN p[k] ELSE e[k - 1] \o p[k]
      BY <1>1, <1>3, <2>2, <3>2
    <3>4. k # 1 => d[k - 1] = e[k - 1]
      <4>1. k # 1 => k - 1 \in 1 .. n
        BY <1>1, <3>2
      <4> QED
        BY <3>1, <4>1
    <3> QED
      BY <3>2, <3>3, <3>4
  <2>4. n \in 1 .. n /\ n + 1 \in 1 .. n + 1 /\ n + 1 # 1 /\ (n + 1) - 1 = n
    BY <1>1, <1>5
  <2>5. e[n + 1] = e[n] \o s
    BY <1>1, <1>3, <2>4
  <2> QED
    BY <1>1, <1>2, <2>1, <2>3, <2>4, <2>5 DEF q
<1> QED
  BY <1>4, <1>5

(***************************************************************************)
(* The boot log                                                            *)
(***************************************************************************)

Chars == Letters \cup {"nl", "cr"}
Printed == [stream : Streams, text : Seq(Chars)]
Outputs == [lines : Seq(Printed), last : Seq(Chars), skipped : Seq(Seq(Chars))]

One(c) == IF c \in Letters THEN <<c>> ELSE << >>
TextsIn(lines, s) ==
  FlattenSeq([i \in DOMAIN lines |-> IF lines[i].stream = s THEN lines[i].text ELSE << >>])

LEMMA EndToEnd == \A a, b, c \in Seq(Chars) : (a \o b) \o c = a \o (b \o c)
<1> SUFFICES ASSUME NEW S, NEW a \in Seq(S), NEW b \in Seq(S), NEW c \in Seq(S)
             PROVE  (a \o b) \o c = a \o (b \o c)
  OBVIOUS
<1> QED
  OBVIOUS

LEMMA OneType == \A c \in Chars : One(c) \in Seq(Chars)
<1> SUFFICES ASSUME NEW c \in Chars PROVE One(c) \in Seq(Chars)
  OBVIOUS
<1>1. <<c>> \in Seq(Chars) /\ << >> \in Seq(Chars)
  OBVIOUS
<1> QED
  BY <1>1 DEF One

LEMMA VisibleEmpty == Visible(<< >>) = << >>
<1>1. [i \in DOMAIN << >> |-> One(<< >>[i])] = << >>
  OBVIOUS
<1> QED
  BY <1>1, FlattenEmpty DEF Visible, One

LEMMA VisibleType == \A q \in Seq(Chars) : Visible(q) \in Seq(Chars)
<1> SUFFICES ASSUME NEW q \in Seq(Chars) PROVE Visible(q) \in Seq(Chars)
  OBVIOUS
<1> DEFINE p == [i \in DOMAIN q |-> One(q[i])]
<1>1. DOMAIN q = 1 .. Len(q) /\ Len(q) \in Nat /\ \A i \in 1 .. Len(q) : q[i] \in Chars
  OBVIOUS
<1>2. p \in Seq(Seq(Chars))
  BY <1>1, OneType
<1> QED
  BY <1>2, FlattenType DEF Visible, One

LEMMA VisibleAppend ==
  ASSUME NEW q \in Seq(Chars), NEW c \in Chars
  PROVE  Visible(Append(q, c)) = Visible(q) \o One(c)
<1> DEFINE r == Append(q, c)
           p == [i \in DOMAIN q |-> One(q[i])]
           pr == [i \in DOMAIN r |-> One(r[i])]
           n == Len(q)
<1>1. /\ r \in Seq(Chars) /\ Len(r) = n + 1 /\ n \in Nat
      /\ \A i \in 1 .. n : r[i] = q[i] /\ q[i] \in Chars
      /\ r[n + 1] = c
      /\ DOMAIN r = 1 .. n + 1 /\ DOMAIN q = 1 .. n
  BY AppendProperties
<1>2. p \in Seq(Seq(Chars)) /\ One(c) \in Seq(Chars) /\ Len(p) = n /\ \A i \in 1 .. n : p[i] = One(q[i])
  BY <1>1, OneType
<1> HIDE DEF r
<1>3. pr \in Seq(Seq(Chars)) /\ Len(pr) = n + 1 /\ \A i \in 1 .. n + 1 : pr[i] = One(r[i])
  <2>1. \A i \in 1 .. n + 1 : r[i] \in Chars
    BY <1>1
  <2> QED
    BY <1>1, <2>1, OneType
<1>4. pr = Append(p, One(c))
  <2> HIDE DEF p, pr
  <2> DEFINE a == Append(p, One(c))
  <2>1. /\ a \in Seq(Seq(Chars)) /\ Len(a) = n + 1
        /\ \A i \in 1 .. n : a[i] = p[i]
        /\ a[n + 1] = One(c)
    BY <1>2, AppendProperties
  <2> HIDE DEF a
  <2>2. \A i \in 1 .. n + 1 : a[i] = pr[i]
    <3> SUFFICES ASSUME NEW i \in 1 .. n + 1 PROVE a[i] = pr[i]
      OBVIOUS
    <3>1. CASE i = n + 1
      BY <1>1, <1>3, <2>1, <3>1
    <3>2. CASE i \in 1 .. n
      BY <1>1, <1>2, <1>3, <2>1, <3>2
    <3> QED
      BY <1>1, <3>1, <3>2
  <2>3. a = pr
    BY <1>3, <2>1, <2>2, SeqEqual
  <2> QED
    BY <2>3 DEF a
<1>5. FlattenSeq(pr) = FlattenSeq(p) \o One(c)
  <2> HIDE DEF p, pr
  <2> QED
    BY <1>2, <1>4, FlattenAppend
<1> QED
  BY <1>5 DEF Visible, One, r

LEMMA VisibleConcat ==
  ASSUME NEW a \in Seq(Chars), NEW b \in Seq(Chars)
  PROVE  Visible(a \o b) = Visible(a) \o Visible(b)
<1> DEFINE P(k) == SubSeq(b, 1, k)
           T == {k \in 0 .. Len(b) : Visible(a \o P(k)) # Visible(a) \o Visible(P(k))}
<1>1. T = {}
  <2> SUFFICES ASSUME T # {} PROVE FALSE
    OBVIOUS
  <2>1. PICK k \in T : k - 1 \notin T
    <3>1. T \in SUBSET Nat
      OBVIOUS
    <3> QED
      BY <3>1, FirstOf
  <2>2. k \in 0 .. Len(b) /\ Visible(a \o P(k)) # Visible(a) \o Visible(P(k))
    OBVIOUS
  <2>3. CASE k = 0
    <3>1. P(k) = << >> /\ a \o << >> = a
      BY <2>3
    <3>2. Visible(a) \o << >> = Visible(a)
      BY VisibleType
    <3> QED
      BY <2>2, <3>1, <3>2, VisibleEmpty
  <2>4. CASE k # 0
    <3> DEFINE q == P(k - 1)
               c == b[k]
    <3>1. k - 1 \in 0 .. Len(b) /\ k \in 1 .. Len(b)
      BY <2>2, <2>4
    <3>2. q \in Seq(Chars) /\ c \in Chars /\ P(k) = Append(q, c)
      BY <3>1
    <3>3. Visible(a \o q) = Visible(a) \o Visible(q)
      BY <2>1, <3>1
    <3> HIDE DEF q, c
    <3>4. a \o Append(q, c) = Append(a \o q, c) /\ a \o q \in Seq(Chars)
      BY <3>2
    <3>5. Visible(Append(a \o q, c)) = Visible(a \o q) \o One(c)
      BY <3>2, <3>4, VisibleAppend
    <3>6. Visible(Append(q, c)) = Visible(q) \o One(c)
      BY <3>2, VisibleAppend
    <3> DEFINE u == Visible(a)
               v == Visible(q)
               w == One(c)
    <3>7. u \in Seq(Chars) /\ v \in Seq(Chars) /\ w \in Seq(Chars)
      BY <3>2, VisibleType, OneType
    <3>8. (u \o v) \o w = u \o (v \o w)
      <4> HIDE DEF u, v, w
      <4> QED
        BY <3>7, EndToEnd, ZenonT(60)
    <3> QED
      BY <2>2, <3>2, <3>3, <3>4, <3>5, <3>6, <3>8
  <2> QED
    BY <2>3, <2>4
<1>2. Len(b) \in 0 .. Len(b) /\ P(Len(b)) = b
  OBVIOUS
<1>3. Len(b) \notin T
  BY <1>1
<1> QED
  BY <1>2, <1>3

(* A line more.                                                            *)
LEMMA TextsAppend ==
  ASSUME NEW lines \in Seq(Printed), NEW l \in Printed, NEW s
  PROVE  /\ TextsIn(lines, s) \in Seq(Chars)
         /\ TextsIn(Append(lines, l), s)
              = TextsIn(lines, s) \o (IF l.stream = s THEN l.text ELSE << >>)
<1> DEFINE T(x) == IF x.stream = s THEN x.text ELSE << >>
           r == Append(lines, l)
           p == [i \in DOMAIN lines |-> T(lines[i])]
           pr == [i \in DOMAIN r |-> T(r[i])]
           n == Len(lines)
<1>0. \A x \in Printed : T(x) \in Seq(Chars)
  BY DEF Printed
<1>1. /\ r \in Seq(Printed) /\ Len(r) = n + 1 /\ n \in Nat
      /\ \A i \in 1 .. n : r[i] = lines[i] /\ lines[i] \in Printed
      /\ r[n + 1] = l
      /\ DOMAIN r = 1 .. n + 1 /\ DOMAIN lines = 1 .. n
  BY AppendProperties
<1> HIDE DEF r, T
<1>2. p \in Seq(Seq(Chars)) /\ T(l) \in Seq(Chars) /\ Len(p) = n /\ \A i \in 1 .. n : p[i] = T(lines[i])
  BY <1>0, <1>1
<1>3. pr \in Seq(Seq(Chars)) /\ Len(pr) = n + 1 /\ \A i \in 1 .. n + 1 : pr[i] = T(r[i])
  <2>1. \A i \in 1 .. n + 1 : r[i] \in Printed
    BY <1>1
  <2> QED
    BY <1>0, <1>1, <2>1
<1>4. pr = Append(p, T(l))
  <2> HIDE DEF p, pr
  <2> DEFINE a == Append(p, T(l))
  <2>1. /\ a \in Seq(Seq(Chars)) /\ Len(a) = n + 1
        /\ \A i \in 1 .. n : a[i] = p[i]
        /\ a[n + 1] = T(l)
    BY <1>2, AppendProperties
  <2> HIDE DEF a
  <2>2. \A i \in 1 .. n + 1 : a[i] = pr[i]
    <3> SUFFICES ASSUME NEW i \in 1 .. n + 1 PROVE a[i] = pr[i]
      OBVIOUS
    <3>1. CASE i = n + 1
      BY <1>1, <1>3, <2>1, <3>1
    <3>2. CASE i \in 1 .. n
      BY <1>1, <1>2, <1>3, <2>1, <3>2
    <3> QED
      BY <1>1, <3>1, <3>2
  <2>3. a = pr
    BY <1>3, <2>1, <2>2, SeqEqual
  <2> QED
    BY <2>3 DEF a
<1>5. FlattenSeq(pr) = FlattenSeq(p) \o T(l) /\ FlattenSeq(p) \in Seq(Chars)
  <2> HIDE DEF p, pr
  <2> QED
    BY <1>2, <1>4, FlattenAppend, FlattenType
<1> QED
  BY <1>5 DEF TextsIn, T, r

ConsoleSeen(o) == Visible(TextsIn(o.lines, "console"))
LogLength(o) == Len(Visible(TextsIn(o.lines, "log"))) + Len(Visible(FlattenSeq(o.skipped)))

(* What Spoken says of the lines, and what it takes to say it of the next. *)
Spoke(o) ==
  /\ \A t \in ToSet(o.skipped) : [stream |-> "console", text |-> t] \in ToSet(o.lines)
  /\ \A i \in 1 .. Len(o.lines) - 1 :
       o.lines[i].stream = "console" /\ o.lines[i + 1].stream = "log"
         => o.lines[i].text # o.lines[i + 1].text
  /\ o.last # << >> => [stream |-> "console", text |-> o.last] \in ToSet(o.lines)
  /\ Len(o.lines) # 0 /\ o.lines[Len(o.lines)].stream = "console"
       => o.lines[Len(o.lines)].text = o.last

LEMMA ToSetAppend ==
  ASSUME NEW S, NEW q \in Seq(S), NEW x \in S
  PROVE  ToSet(Append(q, x)) = ToSet(q) \cup {x}
<1> DEFINE r == Append(q, x)
<1>1. /\ Len(r) = Len(q) + 1 /\ Len(q) \in Nat /\ \A i \in 1 .. Len(q) : r[i] = q[i]
      /\ r[Len(q) + 1] = x
      /\ DOMAIN r = 1 .. Len(q) + 1 /\ DOMAIN q = 1 .. Len(q)
  BY AppendProperties
<1> HIDE DEF r
<1>2. ToSet(r) = {r[i] : i \in 1 .. Len(q) + 1} /\ ToSet(q) = {q[i] : i \in 1 .. Len(q)}
  BY <1>1 DEF ToSet
<1>3. 1 .. Len(q) + 1 = (1 .. Len(q)) \cup {Len(q) + 1}
  BY <1>1
<1>4. {r[i] : i \in 1 .. Len(q) + 1} = {q[i] : i \in 1 .. Len(q)} \cup {x}
  BY <1>1, <1>3
<1> QED
  BY <1>2, <1>4 DEF r

(* A line put out (kmsg_line).                                             *)
LEMMA LinePrinted ==
  ASSUME NEW o \in Outputs, NEW s \in Streams, NEW text \in Seq(Chars), text # << >>,
         ~(s = "log" /\ text = o.last), Spoke(o)
  PROVE  LET n == Line(o, s, text)
         IN  /\ n \in Outputs /\ Spoke(n)
             /\ n.last = IF s = "console" THEN text ELSE o.last
             /\ s = "console" =>
                  /\ ConsoleSeen(n) = ConsoleSeen(o) \o Visible(text)
                  /\ LogLength(n) = LogLength(o)
             /\ s = "log" =>
                  /\ ConsoleSeen(n) = ConsoleSeen(o)
                  /\ LogLength(n) = LogLength(o) + Len(Visible(text))
<1> DEFINE l == [stream |-> s, text |-> text]
           n == Line(o, s, text)
           lines == o.lines
           k == Len(lines)
<1>1. l \in Printed /\ l.stream = s /\ l.text = text
  BY DEF Printed
<1>2. /\ lines \in Seq(Printed) /\ o.last \in Seq(Chars) /\ o.skipped \in Seq(Seq(Chars))
  BY DEF Outputs
<1>3. /\ n.lines = Append(lines, l) /\ n.last = (IF s = "console" THEN text ELSE o.last)
      /\ n.skipped = o.skipped /\ n \in Outputs
  <2>1. n = [o EXCEPT !.lines = Append(lines, l), !.last = IF s = "console" THEN text ELSE o.last]
    BY DEF Line
  <2>2. Append(lines, l) \in Seq(Printed)
    BY <1>1, <1>2
  <2> HIDE DEF n, l
  <2> QED
    BY <1>2, <2>1, <2>2 DEF Outputs
<1> HIDE DEF n
<1>4. Spoke(n)
  <2> DEFINE r == Append(lines, l)
  <2>1. /\ Len(r) = k + 1 /\ k \in Nat /\ r[k + 1] = l /\ \A i \in 1 .. k : r[i] = lines[i]
        /\ ToSet(r) = ToSet(lines) \cup {l}
    BY <1>1, <1>2, AppendProperties, ToSetAppend
  <2> HIDE DEF r
  <2>2. \A t \in ToSet(n.skipped) : [stream |-> "console", text |-> t] \in ToSet(r)
    BY <1>3, <2>1 DEF Spoke
  <2>3. ASSUME NEW i \in 1 .. Len(r) - 1, r[i].stream = "console", r[i + 1].stream = "log"
        PROVE  r[i].text # r[i + 1].text
    <3>1. CASE i \in 1 .. k - 1
      <4>1. i \in 1 .. k /\ i + 1 \in 1 .. k
        BY <2>1, <3>1
      <4> QED
        BY <2>1, <2>3, <3>1, <4>1 DEF Spoke
    <3>2. CASE i = k
      <4>1. k # 0 /\ r[k] = lines[k] /\ r[k + 1] = l /\ s = "log"
        BY <1>1, <2>1, <2>3, <3>2
      <4>2. lines[k].text = o.last
        BY <2>3, <3>2, <4>1 DEF Spoke
      <4> QED
        BY <1>1, <3>2, <4>1, <4>2
    <3> QED
      BY <2>1, <3>1, <3>2
  <2>4. n.last # << >> => [stream |-> "console", text |-> n.last] \in ToSet(r)
    <3>1. CASE s = "console"
      BY <1>3, <2>1, <3>1
    <3>2. CASE s # "console"
      BY <1>3, <2>1, <3>2 DEF Spoke
    <3> QED
      BY <3>1, <3>2
  <2>5. r[Len(r)].stream = "console" => r[Len(r)].text = n.last
    BY <1>1, <1>3, <2>1
  <2> QED
    BY <1>3, <2>2, <2>3, <2>4, <2>5 DEF Spoke, r
<1>5. ASSUME NEW x
      PROVE  /\ TextsIn(lines, x) \in Seq(Chars)
             /\ TextsIn(n.lines, x) = TextsIn(lines, x) \o (IF s = x THEN text ELSE << >>)
  <2> HIDE DEF l
  <2>1. /\ TextsIn(lines, x) \in Seq(Chars)
        /\ TextsIn(Append(lines, l), x)
             = TextsIn(lines, x) \o (IF l.stream = x THEN l.text ELSE << >>)
    BY <1>1, <1>2, TextsAppend
  <2> QED
    BY <1>1, <1>3, <2>1
<1>6. ASSUME NEW x
      PROVE  Visible(TextsIn(n.lines, x))
               = IF s = x THEN Visible(TextsIn(lines, x)) \o Visible(text)
                 ELSE Visible(TextsIn(lines, x))
  <2> DEFINE t == TextsIn(lines, x)
  <2>1. t \in Seq(Chars) /\ TextsIn(n.lines, x) = t \o (IF s = x THEN text ELSE << >>)
    BY <1>5
  <2> HIDE DEF t
  <2>2. t \o << >> = t /\ Visible(t \o text) = Visible(t) \o Visible(text)
    BY <2>1, VisibleConcat
  <2> QED
    BY <2>1, <2>2 DEF t
<1>7. s = "console" => ConsoleSeen(n) = ConsoleSeen(o) \o Visible(text) /\ LogLength(n) = LogLength(o)
  <2> SUFFICES ASSUME s = "console"
               PROVE ConsoleSeen(n) = ConsoleSeen(o) \o Visible(text) /\ LogLength(n) = LogLength(o)
    OBVIOUS
  <2>1. Visible(TextsIn(n.lines, "console")) = Visible(TextsIn(lines, "console")) \o Visible(text)
    BY <1>6
  <2>2. Visible(TextsIn(n.lines, "log")) = Visible(TextsIn(lines, "log"))
    BY <1>6
  <2> QED
    BY <1>3, <2>1, <2>2 DEF ConsoleSeen, LogLength
<1>8. s = "log" => ConsoleSeen(n) = ConsoleSeen(o) /\ LogLength(n) = LogLength(o) + Len(Visible(text))
  <2> SUFFICES ASSUME s = "log"
               PROVE ConsoleSeen(n) = ConsoleSeen(o) /\ LogLength(n) = LogLength(o) + Len(Visible(text))
    OBVIOUS
  <2>1. Visible(TextsIn(n.lines, "console")) = Visible(TextsIn(lines, "console"))
    BY <1>6
  <2>2. Visible(TextsIn(n.lines, "log")) = Visible(TextsIn(lines, "log")) \o Visible(text)
    BY <1>6
  <2> DEFINE u == Visible(TextsIn(lines, "log"))
             v == Visible(text)
             w == Visible(FlattenSeq(o.skipped))
  <2>3. u \in Seq(Chars) /\ v \in Seq(Chars) /\ w \in Seq(Chars)
    BY <1>2, <1>5, VisibleType, FlattenType
  <2>4. Len(u \o v) + Len(w) = (Len(u) + Len(w)) + Len(v)
    <3> HIDE DEF u, v, w
    <3> QED
      BY <2>3
  <2>5. LogLength(n) = Len(u \o v) + Len(w) /\ LogLength(o) = Len(u) + Len(w)
    BY <1>3, <2>2 DEF LogLength
  <2> HIDE DEF u, w
  <2>6. LogLength(n) = LogLength(o) + Len(v)
    BY <2>4, <2>5
  <2> QED
    BY <1>3, <2>1, <2>6 DEF ConsoleSeen
<1> QED
  BY <1>3, <1>4, <1>7, <1>8 DEF n

(* A line the console just had (kmsg.c:43).                                *)
LEMMA LineSkipped ==
  ASSUME NEW o \in Outputs, NEW text \in Seq(Chars), text # << >>, text = o.last, Spoke(o)
  PROVE  LET n == Line(o, "log", text)
         IN  /\ n \in Outputs /\ Spoke(n) /\ n.last = o.last
             /\ ConsoleSeen(n) = ConsoleSeen(o)
             /\ LogLength(n) = LogLength(o) + Len(Visible(text))
<1> DEFINE n == Line(o, "log", text)
<1>2. o.lines \in Seq(Printed) /\ o.last \in Seq(Chars) /\ o.skipped \in Seq(Seq(Chars))
  BY DEF Outputs
<1>3. n.lines = o.lines /\ n.last = o.last /\ n.skipped = Append(o.skipped, text) /\ n \in Outputs
  <2>1. n = [o EXCEPT !.skipped = Append(o.skipped, text)]
    BY DEF Line
  <2>2. Append(o.skipped, text) \in Seq(Seq(Chars))
    BY <1>2
  <2> HIDE DEF n
  <2> QED
    BY <1>2, <2>1, <2>2 DEF Outputs
<1> HIDE DEF n
<1>4. Spoke(n)
  <2>1. ToSet(Append(o.skipped, text)) = ToSet(o.skipped) \cup {text}
    BY <1>2, ToSetAppend
  <2>2. [stream |-> "console", text |-> text] \in ToSet(o.lines)
    BY DEF Spoke
  <2> QED
    BY <1>3, <2>1, <2>2 DEF Spoke
<1> DEFINE u == TextsIn(o.lines, "log")
           f == FlattenSeq(o.skipped)
<1>5. /\ FlattenSeq(n.skipped) = f \o text /\ f \in Seq(Chars)
  BY <1>2, <1>3, FlattenAppend, FlattenType
<1> HIDE DEF f
<1>6. Visible(FlattenSeq(n.skipped)) = Visible(f) \o Visible(text)
  BY <1>5, VisibleConcat
<1> DEFINE vf == Visible(f)
           vt == Visible(text)
           vu == Len(Visible(u))
<1>7. vf \in Seq(Chars) /\ vt \in Seq(Chars) /\ vu \in Nat
  <2>1. u \in Seq(Chars)
    <3>1. CASE o.lines = << >>
      <4>1. [i \in DOMAIN << >> |-> IF << >>[i].stream = "log" THEN << >>[i].text ELSE << >>] = << >>
        OBVIOUS
      <4>2. u = << >>
        BY <3>1, <4>1, FlattenEmpty DEF TextsIn
      <4>3. << >> \in Seq(Chars)
        OBVIOUS
      <4> HIDE DEF u
      <4> QED
        BY <4>2, <4>3
    <3>2. CASE o.lines # << >>
      <4>1. o.lines[1] \in Printed
        BY <1>2, <3>2
      <4> QED
        BY <1>2, <4>1, TextsAppend
    <3> QED
      BY <3>1, <3>2
  <2>2. Visible(u) \in Seq(Chars)
    BY <2>1, VisibleType
  <2> QED
    BY <1>5, <2>2, VisibleType
<1>8. vu + Len(vf \o vt) = (vu + Len(vf)) + Len(vt)
  <2> HIDE DEF vf, vt, vu
  <2> QED
    BY <1>7
<1>9. LogLength(n) = vu + Len(vf \o vt) /\ LogLength(o) = vu + Len(vf)
  BY <1>3, <1>6 DEF LogLength, f
<1> HIDE DEF vu, vf
<1>10. LogLength(n) = LogLength(o) + Len(vt)
  BY <1>8, <1>9
<1>11. ConsoleSeen(n) = ConsoleSeen(o)
  BY <1>3 DEF ConsoleSeen
<1> QED
  BY <1>3, <1>4, <1>10, <1>11 DEF n

Done(o, s, text) == IF text = << >> THEN o ELSE Line(o, s, text)

(* Nothing is lost, in terms of what is put out, assembled and printed.    *)
Logged(o, k, p) ==
  /\ o \in Outputs /\ Spoke(o)
  /\ k \in [Streams -> Seq(Chars)] /\ p \in [Streams -> Seq(Chars)]
  /\ ConsoleSeen(o) \o Visible(k["console"]) = Visible(p["console"])
  /\ LogLength(o) + Len(Visible(k["log"])) = Len(Visible(p["log"]))
  /\ Len(o.last) < KMSG_MAX /\ \A s \in Streams : Len(k[s]) < KMSG_MAX

LEMMA SeenTypes ==
  ASSUME NEW o \in Outputs
  PROVE  /\ ConsoleSeen(o) \in Seq(Chars) /\ TextsIn(o.lines, "log") \in Seq(Chars)
         /\ FlattenSeq(o.skipped) \in Seq(Chars) /\ LogLength(o) \in Nat
<1>1. o.lines \in Seq(Printed) /\ o.skipped \in Seq(Seq(Chars))
  BY DEF Outputs
<1>2. \A s : TextsIn(o.lines, s) \in Seq(Chars)
  <2>1. [stream |-> "log", text |-> << >>] \in Printed
    BY DEF Printed, Streams
  <2> QED
    BY <1>1, <2>1, TextsAppend
<1>3. FlattenSeq(o.skipped) \in Seq(Chars)
  BY <1>1, FlattenType
<1>4. /\ Visible(TextsIn(o.lines, "log")) \in Seq(Chars)
      /\ Visible(FlattenSeq(o.skipped)) \in Seq(Chars)
      /\ Visible(TextsIn(o.lines, "console")) \in Seq(Chars)
  BY <1>2, <1>3, VisibleType
<1> QED
  BY <1>2, <1>3, <1>4 DEF ConsoleSeen, LogLength

(* A line is done.                                                         *)
LEMMA LineEnds ==
  ASSUME NEW o, NEW k, NEW p, NEW s \in Streams, Logged(o, k, p)
  PROVE  Logged(Done(o, s, k[s]), [k EXCEPT ![s] = << >>], p)
<1> DEFINE text == k[s]
           n == Done(o, s, text)
           e == [k EXCEPT ![s] = << >>]
<1>1. /\ o \in Outputs /\ Spoke(o) /\ text \in Seq(Chars) /\ k \in [Streams -> Seq(Chars)]
      /\ p \in [Streams -> Seq(Chars)]
      /\ ConsoleSeen(o) \o Visible(k["console"]) = Visible(p["console"])
      /\ LogLength(o) + Len(Visible(k["log"])) = Len(Visible(p["log"]))
      /\ Len(o.last) < KMSG_MAX /\ \A x \in Streams : Len(k[x]) < KMSG_MAX
  BY DEF Logged
<1>2. /\ e \in [Streams -> Seq(Chars)] /\ e[s] = << >> /\ \A x \in Streams \ {s} : e[x] = k[x]
  <2>1. << >> \in Seq(Chars)
    OBVIOUS
  <2> QED
    BY <1>1, <2>1
<1>3. s \in {"console", "log"} /\ {"console", "log"} = Streams
  BY DEF Streams
<1>4. CASE text = << >>
  <2>1. n = o
    BY <1>4 DEF Done
  <2>2. e = k
    BY <1>1, <1>4
  <2> HIDE DEF n, e
  <2> QED
    BY <2>1, <2>2 DEF n, e
<1>5. CASE text # << >>
  <2>1. n = Line(o, s, text)
    BY <1>5 DEF Done
  <2> HIDE DEF n, e, text
  <2>2. /\ n \in Outputs /\ Spoke(n) /\ n.last \in {o.last, text}
        /\ s = "console" => ConsoleSeen(n) = ConsoleSeen(o) \o Visible(text) /\ LogLength(n) = LogLength(o)
        /\ s = "log" => ConsoleSeen(n) = ConsoleSeen(o) /\ LogLength(n) = LogLength(o) + Len(Visible(text))
    <3>1. CASE s = "log" /\ text = o.last
      BY <1>1, <1>5, <2>1, <3>1, LineSkipped
    <3>2. CASE ~(s = "log" /\ text = o.last)
      BY <1>1, <1>5, <2>1, <3>2, LinePrinted
    <3> QED
      BY <3>1, <3>2
  <2>3. Len(n.last) < KMSG_MAX /\ \A x \in Streams : Len(e[x]) < KMSG_MAX
    <3>1. Len(<< >>) < KMSG_MAX
      BY FrontEndAssumption
    <3>2. Len(text) < KMSG_MAX
      BY <1>1 DEF text
    <3> QED
      BY <1>1, <1>2, <2>2, <3>1, <3>2
  <2> DEFINE a == ConsoleSeen(o)
             v == Visible(text)
  <2>4. /\ a \in Seq(Chars) /\ v \in Seq(Chars) /\ LogLength(o) \in Nat /\ Len(v) \in Nat
        /\ Visible(<< >>) = << >>
    BY <1>1, SeenTypes, VisibleType, VisibleEmpty, SMTT(30)
  <2>5. (a \o v) \o << >> = a \o v
    <3> HIDE DEF a, v
    <3> QED
      BY <2>4
  <2>6. CASE s = "console"
    <3>1. e["console"] = << >> /\ e["log"] = k["log"] /\ text = k["console"]
      BY <1>2, <1>3, <2>6 DEF text
    <3> QED
      BY <1>1, <1>2, <2>2, <2>3, <2>4, <2>5, <2>6, <3>1 DEF Logged, n, e, text
  <2>7. CASE s = "log"
    <3>1. e["log"] = << >> /\ e["console"] = k["console"] /\ text = k["log"]
      BY <1>2, <1>3, <2>7 DEF text
    <3>2. ConsoleSeen(n) \o Visible(e["console"]) = Visible(p["console"])
      BY <1>1, <2>2, <2>7, <3>1
    <3>3. LogLength(n) + Len(Visible(e["log"])) = Len(Visible(p["log"]))
      <4>1. LogLength(n) = LogLength(o) + Len(v) /\ Len(Visible(e["log"])) = 0
        BY <2>2, <2>4, <2>7, <3>1
      <4>2. LogLength(o) + Len(v) = Len(Visible(p["log"]))
        BY <1>1, <3>1
      <4> QED
        BY <2>4, <4>1, <4>2
    <3>4. Logged(n, e, p)
      BY <1>1, <1>2, <2>2, <2>3, <3>2, <3>3 DEF Logged
    <3> QED
      BY <3>4 DEF n, e, text
  <2> QED
    BY <1>3, <2>6, <2>7
<1> QED
  BY <1>4, <1>5

(* A character more.                                                       *)
LEMMA CharComes ==
  ASSUME NEW o, NEW k, NEW p, NEW s \in Streams, NEW c \in Chars, NEW x \in Seq(Chars),
         Logged(o, k, p), Visible(x) = Visible(k[s]) \o One(c), Len(x) < KMSG_MAX
  PROVE  Logged(o, [k EXCEPT ![s] = x], [p EXCEPT ![s] = Append(p[s], c)])
<1> DEFINE e == [k EXCEPT ![s] = x]
           q == [p EXCEPT ![s] = Append(p[s], c)]
<1>1. /\ o \in Outputs /\ k \in [Streams -> Seq(Chars)] /\ p \in [Streams -> Seq(Chars)]
      /\ ConsoleSeen(o) \o Visible(k["console"]) = Visible(p["console"])
      /\ LogLength(o) + Len(Visible(k["log"])) = Len(Visible(p["log"]))
      /\ Spoke(o) /\ Len(o.last) < KMSG_MAX /\ \A t \in Streams : Len(k[t]) < KMSG_MAX
  BY DEF Logged
<1>2. /\ e \in [Streams -> Seq(Chars)] /\ e[s] = x /\ \A t \in Streams \ {s} : e[t] = k[t]
      /\ \A t \in Streams : Len(e[t]) < KMSG_MAX
  BY <1>1
<1>3. /\ q \in [Streams -> Seq(Chars)] /\ q[s] = Append(p[s], c) /\ \A t \in Streams \ {s} : q[t] = p[t]
  <2>1. Append(p[s], c) \in Seq(Chars)
    BY <1>1
  <2> QED
    BY <1>1, <2>1
<1>4. s \in {"console", "log"} /\ {"console", "log"} = Streams
  BY DEF Streams
<1>5. Visible(q[s]) = Visible(p[s]) \o One(c)
  <2>1. p[s] \in Seq(Chars)
    BY <1>1
  <2> QED
    BY <1>3, <2>1, VisibleAppend
<1> HIDE DEF e, q
<1> DEFINE a == ConsoleSeen(o)
           v == Visible(k[s])
           w == One(c)
           y == Visible(p[s])
<1>6. /\ a \in Seq(Chars) /\ v \in Seq(Chars) /\ w \in Seq(Chars) /\ LogLength(o) \in Nat
      /\ y \in Seq(Chars)
  BY <1>1, SeenTypes, VisibleType, OneType
<1>7. CASE s = "console"
  <2>1. e["console"] = x /\ e["log"] = k["log"] /\ q["log"] = p["log"]
    BY <1>2, <1>3, <1>4, <1>7
  <2>2. a \o v = y
    BY <1>1, <1>7
  <2>3. a \o (v \o w) = y \o w
    <3>1. (a \o v) \o w = a \o (v \o w)
      <4> HIDE DEF a, v, w
      <4> QED
        BY <1>6, SMTT(30)
    <3> QED
      BY <2>2, <3>1
  <2>4. ConsoleSeen(o) \o Visible(e["console"]) = Visible(q["console"])
    BY <1>5, <1>7, <2>1, <2>3
  <2>5. LogLength(o) + Len(Visible(e["log"])) = Len(Visible(q["log"]))
    BY <1>1, <2>1
  <2> QED
    BY <1>1, <1>2, <1>3, <2>4, <2>5 DEF Logged, e, q
<1>8. CASE s = "log"
  <2>1. e["log"] = x /\ e["console"] = k["console"] /\ q["console"] = p["console"]
    BY <1>2, <1>3, <1>4, <1>8
  <2>2. LogLength(o) + Len(v) = Len(y)
    BY <1>1, <1>8
  <2>3. LogLength(o) + Len(v \o w) = Len(y \o w)
    <3> DEFINE l == LogLength(o)
    <3>1. l \in Nat
      BY <1>6
    <3> HIDE DEF l, v, w, y
    <3>2. Len(v \o w) = Len(v) + Len(w) /\ Len(y \o w) = Len(y) + Len(w)
      BY <1>6
    <3>3. Len(v) \in Nat /\ Len(w) \in Nat /\ Len(y) \in Nat
      BY <1>6
    <3>4. l + Len(v) = Len(y)
      BY <2>2 DEF l, v, y
    <3> DEFINE i == Len(v)
               j == Len(w)
               n == Len(y)
    <3>5. i \in Nat /\ j \in Nat /\ n \in Nat /\ l + i = n
      BY <3>3, <3>4
    <3>6. Len(v \o w) = i + j /\ Len(y \o w) = n + j
      BY <3>2
    <3> HIDE DEF i, j, n
    <3>7. l + (i + j) = n + j
      BY <3>1, <3>5
    <3>8. l + Len(v \o w) = Len(y \o w)
      BY <3>6, <3>7
    <3> QED
      BY <3>8 DEF l, v, w, y
  <2>4. LogLength(o) + Len(Visible(e["log"])) = Len(Visible(q["log"]))
    BY <1>5, <1>8, <2>1, <2>3
  <2>5. ConsoleSeen(o) \o Visible(e["console"]) = Visible(q["console"])
    BY <1>1, <2>1
  <2> QED
    BY <1>1, <1>2, <1>3, <2>4, <2>5 DEF Logged, e, q
<1> QED
  BY <1>4, <1>7, <1>8

LEMMA VisibleOne == \A c \in Chars : Visible(<<c>>) = One(c)
<1> SUFFICES ASSUME NEW c \in Chars PROVE Visible(<<c>>) = One(c)
  OBVIOUS
<1> DEFINE w == One(c)
<1>1. Append(<< >>, c) = <<c>> /\ << >> \in Seq(Chars)
  OBVIOUS
<1>2. Visible(Append(<< >>, c)) = Visible(<< >>) \o w
  BY <1>1, VisibleAppend
<1>3. w \in Seq(Chars)
  BY OneType
<1> HIDE DEF w
<1>4. << >> \o w = w
  BY <1>3
<1> QED
  BY <1>1, <1>2, <1>4, VisibleEmpty DEF w

(* kmsg_putchar, where the line ends and where it does not.                *)
LEMMA PutCuts ==
  ASSUME NEW o, NEW k, NEW p, NEW s \in Streams, NEW c \in Chars, Logged(o, k, p)
  PROVE  Logged(Done(o, s, k[s]), [k EXCEPT ![s] = IF c = "nl" THEN << >> ELSE <<c>>],
                [p EXCEPT ![s] = Append(p[s], c)])
<1> DEFINE n == Done(o, s, k[s])
           e == [k EXCEPT ![s] = << >>]
           x == IF c = "nl" THEN << >> ELSE <<c>>
<1>1. Logged(n, e, p)
  BY LineEnds
<1>2. e[s] = << >> /\ k \in [Streams -> Seq(Chars)]
  BY DEF Logged
<1>3. x \in Seq(Chars) /\ Len(x) < KMSG_MAX
  <2>1. << >> \in Seq(Chars) /\ <<c>> \in Seq(Chars) /\ Len(<< >>) = 0 /\ Len(<<c>>) = 1
    OBVIOUS
  <2>2. KMSG_MAX \in Nat /\ 0 < KMSG_MAX /\ 1 < KMSG_MAX
    BY FrontEndAssumption
  <2> QED
    BY <2>1, <2>2
<1>4. Visible(x) = One(c)
  <2>1. CASE c = "nl"
    <3>1. One(c) = << >>
      BY <2>1, FrontEndAssumption DEF One
    <3> QED
      BY <2>1, <3>1, VisibleEmpty
  <2>2. CASE c # "nl"
    BY <2>2, VisibleOne
  <2> QED
    BY <2>1, <2>2
<1>5. Visible(x) = Visible(e[s]) \o One(c)
  <2> DEFINE w == One(c)
  <2>1. w \in Seq(Chars)
    BY OneType
  <2>2. << >> \o w = w
    <3> HIDE DEF w
    <3> QED
      BY <2>1
  <2> QED
    BY <1>2, <1>4, <2>2, VisibleEmpty
<1>6. [e EXCEPT ![s] = x] = [k EXCEPT ![s] = x]
  <2> HIDE DEF x
  <2> QED
    BY <1>2
<1> HIDE DEF n, e, x
<1>7. Logged(n, [e EXCEPT ![s] = x], [p EXCEPT ![s] = Append(p[s], c)])
  BY <1>1, <1>3, <1>5, CharComes
<1>8. Logged(n, [k EXCEPT ![s] = x], [p EXCEPT ![s] = Append(p[s], c)])
  BY <1>6, <1>7
<1> QED
  BY <1>8 DEF n, x

LEMMA PutAdds ==
  ASSUME NEW o, NEW k, NEW p, NEW s \in Streams, NEW c \in Chars, Logged(o, k, p),
         c # "nl", Len(k[s]) < KMSG_MAX - 1
  PROVE  Logged(o, IF c = "cr" THEN k ELSE [k EXCEPT ![s] = Append(k[s], c)],
                [p EXCEPT ![s] = Append(p[s], c)])
<1> DEFINE t == k[s]
           x == IF c = "cr" THEN t ELSE Append(t, c)
<1>1. t \in Seq(Chars) /\ k \in [Streams -> Seq(Chars)]
  BY DEF Logged
<1>2. x \in Seq(Chars) /\ Len(x) < KMSG_MAX
  <2>1. KMSG_MAX \in Nat /\ Len(t) \in Nat /\ Len(t) < KMSG_MAX - 1
    BY <1>1, FrontEndAssumption
  <2> HIDE DEF t
  <2>2. Append(t, c) \in Seq(Chars) /\ Len(Append(t, c)) = Len(t) + 1
    BY <1>1
  <2>3. Len(Append(t, c)) < KMSG_MAX /\ Len(t) < KMSG_MAX
    BY <2>1, <2>2
  <2> QED
    BY <1>1, <2>2, <2>3
<1>3. Visible(x) = Visible(t) \o One(c)
  <2>1. CASE c = "cr"
    <3> DEFINE v == Visible(t)
    <3>1. One(c) = << >>
      BY <2>1, FrontEndAssumption DEF One
    <3>2. v \in Seq(Chars)
      BY <1>1, VisibleType
    <3>3. v \o << >> = v
      <4> HIDE DEF v
      <4> QED
        BY <3>2
    <3> QED
      BY <2>1, <3>1, <3>3
  <2>2. CASE c # "cr"
    <3> HIDE DEF t
    <3> QED
      BY <1>1, <2>2, VisibleAppend
  <2> QED
    BY <2>1, <2>2
<1>4. [k EXCEPT ![s] = x] = IF c = "cr" THEN k ELSE [k EXCEPT ![s] = Append(k[s], c)]
  <2>1. [k EXCEPT ![s] = k[s]] = k
    BY <1>1
  <2> QED
    BY <2>1
<1> HIDE DEF x
<1>5. Logged(o, [k EXCEPT ![s] = x], [p EXCEPT ![s] = Append(p[s], c)])
  BY <1>2, <1>3, CharComes
<1> QED
  BY <1>4, <1>5

LEMMA BothEnd ==
  ASSUME NEW o, NEW k, NEW p, Logged(o, k, p)
  PROVE  Logged(Done(Done(o, "console", k["console"]), "log", k["log"]),
                [s \in Streams |-> << >>], p)
<1> DEFINE n == Done(o, "console", k["console"])
           e == [k EXCEPT !["console"] = << >>]
<1>0. "console" \in Streams /\ "log" \in Streams /\ Streams = {"console", "log"}
  BY DEF Streams
<1>1. Logged(n, e, p)
  BY <1>0, LineEnds
<1>2. k \in [Streams -> Seq(Chars)]
  BY DEF Logged
<1>3. e["log"] = k["log"] /\ [e EXCEPT !["log"] = << >>] = [s \in Streams |-> << >>]
  BY <1>0, <1>2
<1> HIDE DEF n, e
<1>4. Logged(Done(n, "log", e["log"]), [e EXCEPT !["log"] = << >>], p)
  BY <1>0, <1>1, LineEnds
<1> QED
  BY <1>3, <1>4 DEF n

(* The inductive invariant.                                                *)
LogInv == Logged(out, kmsg, printed) /\ booted \in BOOLEAN

LEMMA LogStarts == FrontEndInit => LogInv
<1> SUFFICES ASSUME FrontEndInit PROVE LogInv
  OBVIOUS
<1> DEFINE o == [lines |-> << >>, last |-> << >>, skipped |-> << >>]
           k == [s \in Streams |-> << >>]
<1>1. out = o /\ kmsg = k /\ printed = k /\ booted \in BOOLEAN
  BY DEF FrontEndInit
<1>2. o.lines = << >> /\ o.last = << >> /\ o.skipped = << >>
  OBVIOUS
<1>3. /\ << >> \in Seq(Printed) /\ << >> \in Seq(Chars) /\ << >> \in Seq(Seq(Chars))
      /\ Len(<< >>) = 0 /\ << >> \o << >> = << >>
  OBVIOUS
<1>4. o \in Outputs
  BY <1>3 DEF Outputs
<1>5. k["console"] = << >> /\ k["log"] = << >> /\ k \in [Streams -> Seq(Chars)]
  BY <1>3 DEF Streams
<1> HIDE DEF o
<1>6. \A s : TextsIn(o.lines, s) = << >>
  <2> SUFFICES ASSUME NEW s PROVE TextsIn(o.lines, s) = << >>
    OBVIOUS
  <2>1. [i \in DOMAIN << >> |-> IF << >>[i].stream = s THEN << >>[i].text ELSE << >>] = << >>
    OBVIOUS
  <2> QED
    BY <1>2, <2>1, FlattenEmpty DEF TextsIn
<1>7. ConsoleSeen(o) = << >> /\ LogLength(o) = 0
  <2>1. Visible(TextsIn(o.lines, "console")) = << >> /\ Visible(TextsIn(o.lines, "log")) = << >>
    BY <1>6, VisibleEmpty
  <2>2. Visible(FlattenSeq(o.skipped)) = << >>
    BY <1>2, FlattenEmpty, VisibleEmpty
  <2> QED
    BY <1>3, <2>1, <2>2 DEF ConsoleSeen, LogLength
<1>8. Spoke(o)
  <2>1. ToSet(<< >>) = {}
    BY DEF ToSet
  <2> QED
    BY <1>2, <1>3, <2>1 DEF Spoke
<1>9. 0 < KMSG_MAX /\ \A s \in Streams : Len(k[s]) < KMSG_MAX
  BY <1>3, FrontEndAssumption
<1> HIDE DEF k
<1>10. ConsoleSeen(o) \o Visible(k["console"]) = Visible(k["console"])
  BY <1>3, <1>5, <1>7, VisibleEmpty
<1>11. LogLength(o) + Len(Visible(k["log"])) = Len(Visible(k["log"]))
  BY <1>3, <1>5, <1>7, VisibleEmpty
<1>12. Logged(o, k, k)
  BY <1>2, <1>3, <1>4, <1>5, <1>8, <1>9, <1>10, <1>11 DEF Logged
<1> QED
  BY <1>1, <1>12 DEF LogInv

LEMMA LogStays == LogInv /\ LogNext => LogInv'
<1> SUFFICES ASSUME LogInv, LogNext PROVE LogInv'
  OBVIOUS
<1>1. Logged(out, kmsg, printed) /\ booted \in BOOLEAN
  BY DEF LogInv
<1>2. ASSUME NEW s \in Streams, NEW c \in Chars, KPrint(c, s) PROVE LogInv'
  <2>1. /\ printed' = [printed EXCEPT ![s] = Append(printed[s], c)] /\ booted' = booted
        /\ Putchar(c, s)
    BY <1>2 DEF KPrint
  <2>2. CASE c = "nl" \/ Len(kmsg[s]) >= KMSG_MAX - 1
    <3>1. /\ out' = Done(out, s, kmsg[s])
          /\ kmsg' = [kmsg EXCEPT ![s] = IF c = "nl" THEN << >> ELSE <<c>>]
      BY <2>1, <2>2 DEF Putchar, LineDone, Done
    <3>2. Logged(Done(out, s, kmsg[s]), [kmsg EXCEPT ![s] = IF c = "nl" THEN << >> ELSE <<c>>],
                 [printed EXCEPT ![s] = Append(printed[s], c)])
      BY <1>1, PutCuts
    <3> QED
      BY <1>1, <2>1, <3>1, <3>2 DEF LogInv
  <2>3. CASE ~(c = "nl" \/ Len(kmsg[s]) >= KMSG_MAX - 1)
    <3>1. /\ out' = out
          /\ kmsg' = IF c = "cr" THEN kmsg ELSE [kmsg EXCEPT ![s] = Append(kmsg[s], c)]
      BY <2>1, <2>3 DEF Putchar
    <3>2. kmsg[s] \in Seq(Chars)
      BY <1>1 DEF Logged
    <3>3. c # "nl" /\ Len(kmsg[s]) < KMSG_MAX - 1
      <4>1. Len(kmsg[s]) \in Nat /\ KMSG_MAX \in Nat
        BY <3>2, FrontEndAssumption
      <4> QED
        BY <2>3, <4>1
    <3>4. Logged(out, IF c = "cr" THEN kmsg ELSE [kmsg EXCEPT ![s] = Append(kmsg[s], c)],
                 [printed EXCEPT ![s] = Append(printed[s], c)])
      BY <1>1, <3>3, PutAdds
    <3> QED
      BY <1>1, <2>1, <3>1, <3>4 DEF LogInv
  <2> QED
    BY <2>2, <2>3
<1>3. CASE Flush
  <2>1. /\ out' = Done(Done(out, "console", kmsg["console"]), "log", kmsg["log"])
        /\ kmsg' = [s \in Streams |-> << >>] /\ printed' = printed /\ booted' = TRUE
    BY <1>3 DEF Flush, LineDone, Done
  <2>2. Logged(Done(Done(out, "console", kmsg["console"]), "log", kmsg["log"]),
               [s \in Streams |-> << >>], printed)
    BY <1>1, BothEnd
  <2> QED
    BY <2>1, <2>2 DEF LogInv
<1> QED
  BY <1>2, <1>3 DEF LogNext, Chars

LEMMA LogKept == LogInv => AllKept /\ Spoken
<1> SUFFICES ASSUME LogInv PROVE AllKept /\ Spoken
  OBVIOUS
<1> DEFINE tc == TextsIn(out.lines, "console")
           tl == TextsIn(out.lines, "log")
           f == FlattenSeq(out.skipped)
           kc == kmsg["console"]
           kl == kmsg["log"]
<1>1. Logged(out, kmsg, printed) /\ out \in Outputs
  BY DEF LogInv, Logged
<1>2. tc \in Seq(Chars) /\ tl \in Seq(Chars) /\ f \in Seq(Chars)
  <2>1. out.lines \in Seq(Printed)
    BY <1>1 DEF Outputs
  <2>2. [stream |-> "log", text |-> << >>] \in Printed
    BY DEF Printed, Streams
  <2> QED
    BY <1>1, <2>1, <2>2, SeenTypes, TextsAppend
<1>3. kc \in Seq(Chars) /\ kl \in Seq(Chars)
  BY <1>1 DEF Logged, Streams
<1>4. Texts("console") = tc /\ Texts("log") = tl
  BY DEF Texts, TextsIn
<1>5. /\ Visible(tc) \o Visible(kc) = Visible(printed["console"])
      /\ (Len(Visible(tl)) + Len(Visible(f))) + Len(Visible(kl)) = Len(Visible(printed["log"]))
  BY <1>1 DEF Logged, ConsoleSeen, LogLength
<1>6. Spoken
  BY <1>1 DEF Spoken, Logged, Spoke
<1> HIDE DEF tc, tl, f, kc, kl
<1>7. Visible(tc \o kc) = Visible(tc) \o Visible(kc)
  BY <1>2, <1>3, VisibleConcat
<1>8. Visible((tl \o f) \o kl) = (Visible(tl) \o Visible(f)) \o Visible(kl)
  <2>1. tl \o f \in Seq(Chars)
    BY <1>2
  <2>2. Visible(tl \o f) = Visible(tl) \o Visible(f)
    BY <1>2, VisibleConcat
  <2>3. Visible((tl \o f) \o kl) = Visible(tl \o f) \o Visible(kl)
    BY <1>3, <2>1, VisibleConcat
  <2> QED
    BY <2>2, <2>3
<1>9. Len((Visible(tl) \o Visible(f)) \o Visible(kl))
        = (Len(Visible(tl)) + Len(Visible(f))) + Len(Visible(kl))
  <2> DEFINE a == Visible(tl)
             b == Visible(f)
             c == Visible(kl)
  <2>1. a \in Seq(Chars) /\ b \in Seq(Chars) /\ c \in Seq(Chars)
    BY <1>2, <1>3, VisibleType
  <2> HIDE DEF a, b, c
  <2>2. Len((a \o b) \o c) = (Len(a) + Len(b)) + Len(c)
    BY <2>1
  <2> QED
    BY <2>2 DEF a, b, c
<1>10. AllKept
  BY <1>4, <1>5, <1>7, <1>8, <1>9 DEF AllKept, tc, tl, f, kc, kl
<1> QED
  BY <1>6, <1>10

(***************************************************************************)
(* The front end: the diagnostic ring                                      *)
(***************************************************************************)

LEMMA Wrap ==
  ASSUME NEW n \in Nat \ {0}, NEW x \in 0 .. n - 1
  PROVE  x % n = x /\ (x + n) % n = x /\ (x - n) % n = x
  OBVIOUS

(* What is in the ring, in the order it goes out.                          *)
Used == (prod - cons) % RingSize
Place(i) == (cons + i - 1) % RingSize

(* The inductive invariant.                                                *)
RingInv ==
  /\ cons \in 0 .. RingSize - 1 /\ prod \in 0 .. RingSize - 1
  /\ ring \in [0 .. RingSize - 1 -> 0 .. MaxQueued]
  /\ draining \in BOOLEAN
  /\ queued \in 0 .. MaxQueued /\ drained \in Seq(0 .. MaxQueued)
  /\ Len(drained) + Used = queued
  /\ \A i \in 1 .. Len(drained) : drained[i] = i
  /\ \A i \in 1 .. Used : ring[Place(i)] = Len(drained) + i

LEMMA UsedIs ==
  ASSUME NEW c \in 0 .. RingSize - 1, NEW p \in 0 .. RingSize - 1
  PROVE  (p - c) % RingSize = IF c <= p THEN p - c ELSE p - c + RingSize
<1> DEFINE n == RingSize
           d == IF c <= p THEN p - c ELSE p - c + n
<1>1. n \in Nat \ {0}
  BY FrontEndAssumption
<1>2. d \in 0 .. n - 1 /\ (p - c = d \/ p - c = d - n)
  BY <1>1
<1> HIDE DEF n, d
<1>3. d % n = d /\ (d - n) % n = d
  BY <1>1, <1>2, Wrap
<1>4. (p - c) % n = d
  BY <1>2, <1>3
<1> QED
  BY <1>4 DEF n, d

LEMMA PlaceIs ==
  ASSUME NEW c \in 0 .. RingSize - 1, NEW i \in 0 .. RingSize - 1
  PROVE  (c + i) % RingSize = IF c + i < RingSize THEN c + i ELSE c + i - RingSize
<1> DEFINE n == RingSize
           d == IF c + i < n THEN c + i ELSE c + i - n
<1>1. n \in Nat \ {0}
  BY FrontEndAssumption
<1>2. d \in 0 .. n - 1 /\ (c + i = d \/ c + i = d + n)
  BY <1>1
<1> HIDE DEF n, d
<1>3. d % n = d /\ (d + n) % n = d
  BY <1>1, <1>2, Wrap
<1>4. (c + i) % n = d
  BY <1>2, <1>3
<1> QED
  BY <1>4 DEF n, d

(* The next place, and what is used behind a step of either index.         *)
After(x) == IF x = RingSize - 1 THEN 0 ELSE x + 1

LEMMA AfterIs ==
  ASSUME NEW x \in 0 .. RingSize - 1
  PROVE  (x + 1) % RingSize = After(x) /\ After(x) \in 0 .. RingSize - 1
<1>1. RingSize \in Nat /\ 1 < RingSize
  BY FrontEndAssumption
<1>2. 1 \in 0 .. RingSize - 1
  BY <1>1
<1>3. (x + 1) % RingSize = IF x + 1 < RingSize THEN x + 1 ELSE x + 1 - RingSize
  BY <1>2, PlaceIs
<1> QED
  BY <1>1, <1>3 DEF After

Between(c, p) == IF c <= p THEN p - c ELSE p - c + RingSize
At(c, i) == IF c + i < RingSize THEN c + i ELSE c + i - RingSize

LEMMA Indices ==
  ASSUME NEW c \in 0 .. RingSize - 1, NEW p \in 0 .. RingSize - 1
  PROVE  /\ Between(c, p) \in 0 .. RingSize - 1
         /\ c # After(p) =>
              /\ Between(c, After(p)) = Between(c, p) + 1
              /\ At(c, Between(c, p)) = p
              /\ \A i \in 0 .. Between(c, p) - 1 : At(c, i) \in (0 .. RingSize - 1) \ {p}
         /\ c # p =>
              /\ Between(c, p) # 0 /\ Between(After(c), p) = Between(c, p) - 1
              /\ \A i \in 0 .. Between(c, p) - 2 : At(After(c), i) = At(c, i + 1)
         /\ At(c, 0) = c
<1>1. RingSize \in Nat /\ 1 < RingSize
  BY FrontEndAssumption
<1> QED
  BY <1>1 DEF Between, At, After

LEMMA RingStarts == FrontEndInit => RingInv
<1> SUFFICES ASSUME FrontEndInit PROVE RingInv
  OBVIOUS
<1>1. RingSize \in Nat /\ 1 < RingSize /\ MaxQueued \in Nat
  BY FrontEndAssumption
<1>2. 0 \in 0 .. RingSize - 1
  BY <1>1
<1>3. Used = 0
  BY <1>2, UsedIs DEF FrontEndInit, Used
<1>4. << >> \in Seq(0 .. MaxQueued) /\ Len(<< >>) = 0
  OBVIOUS
<1>5. /\ cons = 0 /\ prod = 0 /\ draining = FALSE /\ queued = 0 /\ drained = << >>
      /\ ring = [i \in 0 .. RingSize - 1 |-> 0]
  BY DEF FrontEndInit
<1>6. ring \in [0 .. RingSize - 1 -> 0 .. MaxQueued] /\ 0 \in 0 .. MaxQueued
  BY <1>1, <1>5
<1>7. /\ Len(drained) + Used = queued
      /\ \A i \in 1 .. Len(drained) : drained[i] = i
      /\ \A i \in 1 .. Used : ring[Place(i)] = Len(drained) + i
  BY <1>3, <1>4, <1>5
<1> QED
  BY <1>2, <1>4, <1>5, <1>6, <1>7 DEF RingInv

(* The invariant with the indices' arithmetic resolved.                    *)
LEMMA Resolved ==
  ASSUME cons \in 0 .. RingSize - 1, prod \in 0 .. RingSize - 1
  PROVE  /\ Used = Between(cons, prod)
         /\ \A i \in 1 .. Used : Place(i) = At(cons, i - 1)
<1>1. RingSize \in Nat /\ 1 < RingSize
  BY FrontEndAssumption
<1>2. Used = Between(cons, prod)
  BY UsedIs DEF Used, Between
<1>3. Between(cons, prod) \in 0 .. RingSize - 1
  BY Indices
<1>4. ASSUME NEW i \in 1 .. Used PROVE Place(i) = At(cons, i - 1)
  <2>1. i - 1 \in 0 .. RingSize - 1 /\ i \in Int /\ cons \in Int
    BY <1>1, <1>2, <1>3
  <2>2. (cons + (i - 1)) % RingSize = At(cons, i - 1)
    BY <2>1, PlaceIs DEF At
  <2>3. cons + i - 1 = cons + (i - 1)
    BY <2>1
  <2> QED
    BY <2>2, <2>3 DEF Place
<1> QED
  BY <1>2, <1>4

LEMMA RingStays == RingInv /\ RingNext => RingInv'
<1> SUFFICES ASSUME RingInv, RingNext PROVE RingInv'
  OBVIOUS
<1>0. RingSize \in Nat /\ 1 < RingSize /\ MaxQueued \in Nat
  BY FrontEndAssumption
<1> DEFINE u == Between(cons, prod)
           n == Len(drained)
<1>1. /\ cons \in 0 .. RingSize - 1 /\ prod \in 0 .. RingSize - 1
      /\ ring \in [0 .. RingSize - 1 -> 0 .. MaxQueued]
      /\ draining \in BOOLEAN
      /\ queued \in 0 .. MaxQueued /\ drained \in Seq(0 .. MaxQueued)
      /\ \A i \in 1 .. n : drained[i] = i
      /\ n \in Nat
  BY DEF RingInv
<1>2. /\ u \in 0 .. RingSize - 1 /\ Used = u /\ n + u = queued
      /\ \A i \in 1 .. u : ring[At(cons, i - 1)] = n + i
  BY <1>1, Resolved, Indices, ZenonT(60) DEF RingInv
<1>3. ASSUME cons' \in 0 .. RingSize - 1, prod' \in 0 .. RingSize - 1
      PROVE  /\ Used' = Between(cons', prod')
             /\ \A i \in 1 .. Used' : Place(i)' = At(cons', i - 1)
  <2>1. Used' = Between(cons', prod')
    BY <1>3, UsedIs DEF Used, Between
  <2>2. Between(cons', prod') \in 0 .. RingSize - 1
    BY <1>3, Indices
  <2>3. ASSUME NEW i \in 1 .. Used' PROVE Place(i)' = At(cons', i - 1)
    <3>1. i - 1 \in 0 .. RingSize - 1 /\ i \in Int /\ cons' \in Int
      BY <1>0, <1>3, <2>1, <2>2
    <3>2. (cons' + (i - 1)) % RingSize = At(cons', i - 1)
      BY <1>3, <3>1, PlaceIs DEF At
    <3>3. cons' + i - 1 = cons' + (i - 1)
      BY <3>1
    <3> QED
      BY <3>2, <3>3 DEF Place
  <2> QED
    BY <2>1, <2>3
<1> HIDE DEF u, n
<1>4. CASE KQueue
  <2> DEFINE r == After(prod)
  <2>1. /\ cons # r /\ r \in 0 .. RingSize - 1
        /\ prod' = r /\ cons' = cons /\ draining' = draining /\ drained' = drained
        /\ queued' = queued + 1 /\ queued < MaxQueued
        /\ ring' = [ring EXCEPT ![prod] = queued + 1]
    BY <1>1, <1>4, AfterIs DEF KQueue, Full
  <2>2. /\ Between(cons, r) = u + 1 /\ At(cons, u) = prod
        /\ \A i \in 0 .. u - 1 : At(cons, i) \in (0 .. RingSize - 1) \ {prod}
    BY <1>1, <2>1, Indices DEF u
  <2>3. Used' = u + 1 /\ \A i \in 1 .. u + 1 : Place(i)' = At(cons, i - 1)
    BY <1>1, <1>3, <2>1, <2>2
  <2>4. queued + 1 \in 0 .. MaxQueued
    BY <1>0, <1>1, <2>1
  <2>5. ring' \in [0 .. RingSize - 1 -> 0 .. MaxQueued] /\ ring'[prod] = queued + 1
        /\ \A x \in (0 .. RingSize - 1) \ {prod} : ring'[x] = ring[x]
    BY <1>1, <2>1, <2>4
  <2>6. ASSUME NEW i \in 1 .. u + 1 PROVE ring'[At(cons, i - 1)] = n + i
    <3>1. CASE i = u + 1
      <4>1. i - 1 = u /\ n + i = queued + 1
        BY <1>1, <1>2, <3>1
      <4> QED
        BY <2>2, <2>5, <4>1
    <3>2. CASE i # u + 1
      <4>1. i \in 1 .. u /\ i - 1 \in 0 .. u - 1
        BY <1>2, <3>2
      <4> QED
        BY <1>2, <2>2, <2>5, <4>1
    <3> QED
      BY <3>1, <3>2
  <2>7. Len(drained)' = n /\ n + (u + 1) = queued + 1
    <3>1. Len(drained)' = n
      BY <2>1 DEF n
    <3>2. n + (u + 1) = queued + 1
      BY <1>1, <1>2
    <3> QED
      BY <3>1, <3>2
  <2>8. \A i \in 1 .. Used' : ring'[Place(i)'] = Len(drained)' + i
    BY <2>3, <2>6, <2>7
  <2>9. \A i \in 1 .. Len(drained)' : drained'[i] = i
    BY <1>1, <2>1 DEF n
  <2>10. prod' \in 0 .. RingSize - 1 /\ cons' \in 0 .. RingSize - 1 /\ draining' \in BOOLEAN
         /\ queued' \in 0 .. MaxQueued /\ drained' \in Seq(0 .. MaxQueued)
    BY <1>1, <2>1, <2>4
  <2>11. Len(drained)' + Used' = queued'
    BY <2>1, <2>3, <2>7
  <2> QED
    BY <2>5, <2>8, <2>9, <2>10, <2>11 DEF RingInv
<1>5. CASE LoadIndex \/ DrainEnd
  <2>1. /\ prod' = prod /\ cons' = cons /\ draining' \in BOOLEAN /\ drained' = drained
        /\ queued' = queued /\ ring' = ring
    BY <1>5 DEF LoadIndex, DrainEnd
  <2>2. Used' = Used /\ \A i \in 1 .. Used : Place(i)' = Place(i)
    BY <2>1 DEF Used, Place
  <2> QED
    BY <2>1, <2>2 DEF RingInv
<1>6. CASE DrainByte
  <2> DEFINE a == After(cons)
             x == ring[cons]
  <2>1. /\ cons # prod /\ a \in 0 .. RingSize - 1
        /\ cons' = a /\ prod' = prod /\ draining' = draining /\ queued' = queued /\ ring' = ring
        /\ drained' = Append(drained, x)
    BY <1>1, <1>6, AfterIs DEF DrainByte
  <2>2. /\ u # 0 /\ Between(a, prod) = u - 1 /\ At(cons, 0) = cons
        /\ \A i \in 0 .. u - 2 : At(a, i) = At(cons, i + 1)
    BY <1>1, <2>1, Indices DEF u
  <2>3. Used' = u - 1 /\ \A i \in 1 .. u - 1 : Place(i)' = At(a, i - 1)
    BY <1>1, <1>3, <2>1, <2>2
  <2>4. x = n + 1 /\ x \in 0 .. MaxQueued
    <3>1. 1 \in 1 .. u /\ 1 - 1 = 0
      BY <1>2, <2>2
    <3>2. ring[At(cons, 0)] = n + 1
      BY <1>2, <3>1
    <3> QED
      BY <1>1, <2>2, <3>2
  <2> HIDE DEF x
  <2>5. /\ drained' \in Seq(0 .. MaxQueued) /\ Len(drained') = n + 1
        /\ \A i \in 1 .. n : drained'[i] = drained[i]
        /\ drained'[n + 1] = x
    BY <1>1, <2>1, <2>4, AppendProperties DEF n
  <2>6. \A i \in 1 .. n + 1 : drained'[i] = i
    BY <1>1, <2>4, <2>5
  <2>7. ASSUME NEW i \in 1 .. u - 1 PROVE ring'[At(a, i - 1)] = n + 1 + i
    <3>1. i - 1 \in 0 .. u - 2 /\ i + 1 \in 1 .. u /\ i - 1 + 1 = i /\ i + 1 - 1 = i /\ i \in Nat
      BY <1>2
    <3>2. At(a, i - 1) = At(cons, i)
      BY <2>2, <3>1
    <3>3. ring[At(cons, i)] = n + (i + 1)
      BY <1>2, <3>1
    <3> QED
      BY <1>1, <2>1, <3>1, <3>2, <3>3
  <2>8. \A i \in 1 .. Used' : ring'[Place(i)'] = Len(drained)' + i
    BY <2>3, <2>5, <2>7
  <2>9. Len(drained)' + Used' = queued'
    <3>1. (n + 1) + (u - 1) = queued
      BY <1>1, <1>2
    <3> QED
      BY <2>1, <2>3, <2>5, <3>1
  <2> QED
    BY <1>1, <2>1, <2>5, <2>6, <2>8, <2>9 DEF RingInv
<1> QED
  BY <1>4, <1>5, <1>6 DEF RingNext

LEMMA RingInvOrder == RingInv => RingInOrder
<1> SUFFICES ASSUME RingInv PROVE RingInOrder
  OBVIOUS
<1> DEFINE b == [i \in 1 .. Used |-> ring[Place(i)]]
           n == Len(drained)
           u == Used
<1>1. /\ drained \in Seq(Nat) /\ u \in Nat /\ n \in Nat /\ n + u = queued /\ queued \in Nat
      /\ \A i \in 1 .. n : drained[i] = i
      /\ \A i \in 1 .. u : ring[Place(i)] = n + i
  <2>1. 0 .. MaxQueued \subseteq Nat /\ \A i \in 1 .. Len(drained) : drained[i] \in Nat
    BY DEF RingInv
  <2>2. Used \in Nat
    BY Resolved, Indices DEF RingInv
  <2>3. drained \in Seq(Nat) /\ queued \in Nat
    BY <2>1 DEF RingInv
  <2> QED
    BY <2>2, <2>3 DEF RingInv
<1>2. b \in Seq(Nat) /\ Len(b) = u /\ \A i \in 1 .. u : b[i] = n + i
  <2> HIDE DEF n
  <2>1. \A i \in 1 .. u : ring[Place(i)] \in Nat
    BY <1>1
  <2> QED
    BY <1>1, <2>1
<1> DEFINE t == [i \in 1 .. queued |-> i]
<1>3. t \in Seq(Nat) /\ Len(t) = queued /\ \A i \in 1 .. queued : t[i] = i
  BY <1>1
<1> HIDE DEF b, t
<1>4. drained \o b = t
  <2> DEFINE s == drained \o b
  <2>1. /\ s \in Seq(Nat) /\ Len(s) = n + u
        /\ \A i \in 1 .. n + u : s[i] = IF i <= n THEN drained[i] ELSE b[i - n]
    BY <1>1, <1>2, ConcatProperties
  <2> HIDE DEF s, n, u
  <2>2. \A i \in 1 .. queued : s[i] = t[i]
    <3> SUFFICES ASSUME NEW i \in 1 .. queued PROVE s[i] = t[i]
      OBVIOUS
    <3>1. CASE i <= n
      BY <1>1, <1>3, <2>1, <3>1
    <3>2. CASE n < i
      <4>1. i - n \in 1 .. u /\ n + (i - n) = i
        BY <1>1, <3>2
      <4> QED
        BY <1>1, <1>2, <1>3, <2>1, <3>2, <4>1
    <3> QED
      BY <1>1, <3>1, <3>2
  <2>3. s = t
    BY <1>1, <1>3, <2>1, <2>2, SeqEqual
  <2> QED
    BY <2>3 DEF s
<1> QED
  BY <1>4 DEF RingInOrder, b, t, Used, Place

(***************************************************************************)
(* The theorems                                                            *)
(***************************************************************************)

(* However processes interleave, fault, close and exit: a call on the raw  *)
(* disk or on /hosttar is one call on a file of the process's own          *)
(* (console.c:580-712, 874-886).                                           *)
THEOREM FilesOfTheirOwn == Spec => Behave_As_Files
<1>1. Init => OwnFiles /\ files!PInit
  BY FilesInit DEF Init
<1>2. OwnFiles /\ [Next]_vars => OwnFiles' /\ [files!PNext]_(files!pvars)
  <2> SUFFICES ASSUME OwnFiles, [Next]_vars
               PROVE  OwnFiles' /\ [files!PNext]_(files!pvars)
    OBVIOUS
  <2>1. CASE UsesHostFiles
    <3>1. PICK calls : calls \subseteq Calls /\ HostFilesNext(calls)
      BY <2>1, DevicesAssumption DEF UsesHostFiles
    <3> QED
      BY <3>1, FilesNext
  <2>2. CASE UNCHANGED hostfiles
    <3>1. OwnFiles'
      BY <2>2 DEF hostfiles, OwnFiles
    <3>2. UNCHANGED files!pvars
      BY <2>2 DEF hostfiles, files!pvars, DiskPos, OffsetsOf
    <3> QED
      BY <3>1, <3>2
  <2> QED
    BY <2>1, <2>2 DEF Next, UsesAdaptor, UsesRing, UsesLog, UsesLabel, Boots, vars, files_
<1> QED
  BY <1>1, <1>2, PTL DEF Spec, Behave_As_Files, files!PSpec

(* "The GEOMETRY FOLLOWS THE FILE, on every attach" (devices.c:207).       *)
THEOREM LabelAlwaysFits == Spec => []LabelFits
<1>1. Init => LabelInv
  BY LabelStarts DEF Init
<1>2. LabelInv /\ [Next]_vars => LabelInv'
  <2> SUFFICES ASSUME LabelInv, [Next]_vars PROVE LabelInv'
    OBVIOUS
  <2>1. CASE UsesLabel
    BY <2>1, LabelStays DEF UsesLabel
  <2>2. CASE UNCHANGED disklabel
    BY <2>2 DEF disklabel, LabelInv, Cylinders
  <2> QED
    BY <2>1, <2>2 DEF Next, UsesAdaptor, UsesRing, UsesLog, UsesHostFiles, Boots, vars, files_
<1> QED
  BY <1>1, <1>2, LabelInvFits, PTL DEF Spec

LEMMA WindowsKept ==
  ASSUME FewWindows
  PROVE  Chained /\ [Next]_vars => Chained'
<1> SUFFICES ASSUME Chained, [Next]_vars PROVE Chained'
  OBVIOUS
<1>1. CASE UsesAdaptor
  BY <1>1, WindowsStep DEF UsesAdaptor
<1>2. CASE UNCHANGED adaptor
  BY <1>2 DEF adaptor, machine, Chained, InARow, Reasonable, Sane
<1> QED
  BY <1>1, <1>2 DEF Next, UsesRing, UsesLog, UsesHostFiles, UsesLabel, Boots, vars

(* "no window is ever in flight and the pool can be recycled freely"       *)
(* (cpu.c:1083), as long as no request needs more windows than there are.  *)
THEOREM WindowsNeverShared ==
  ASSUME FewWindows
  PROVE  Spec => []WindowsDistinct
<1>1. Init => Chained
  BY WindowsInit DEF Init
<1>2. Chained /\ [Next]_vars => Chained'
  BY WindowsKept
<1>3. Chained => WindowsDistinct
  BY DifferentWindows
<1> QED
  BY <1>1, <1>2, <1>3, PTL DEF Spec

LEMMA TransferKept ==
  ASSUME FitsBuffer
  PROVE  Transferred /\ [Next]_vars => Transferred' /\ (InPlace \/ UNCHANGED adaptor)
<1> SUFFICES ASSUME Transferred, [Next]_vars
             PROVE  Transferred' /\ (InPlace \/ UNCHANGED adaptor)
  OBVIOUS
<1>1. CASE UsesAdaptor
  BY <1>1, TransferSteps DEF UsesAdaptor
<1>2. CASE UNCHANGED adaptor
  <2>1. Completed => Completed'
    BY <1>2 DEF adaptor, Completed
  <2>2. Arrived => Arrived'
    BY <1>2 DEF adaptor, data, Arrived, BlockAt
  <2>3. Reasonable => Reasonable'
    BY <1>2 DEF adaptor, Reasonable, Sane
  <2> QED
    BY <1>2, <2>1, <2>2, <2>3 DEF adaptor, data, Transferred
<1> QED
  BY <1>1, <1>2 DEF Next, UsesRing, UsesLog, UsesHostFiles, UsesLabel, Boots, vars

(* When the driver goes on behind a wait, whichever of the four, the       *)
(* transfer has happened (devices.c:301-363), through windows of its own,  *)
(* and the register in the place of a lock is as it was, as long as a      *)
(* request fits the emulator's buffer and the windows there are.           *)
THEOREM TransfersHappen ==
  ASSUME FitsBuffer, FewWindows
  PROVE  Spec => []Delivered
<1>1. Init => Transferred /\ Chained /\ Untouched
  BY TransferInit, WindowsInit DEF Init, AdaptorInit, Untouched
<1>2. Transferred /\ [Next]_vars => Transferred'
  BY TransferKept
<1>3. Chained /\ [Next]_vars => Chained'
  BY WindowsKept
<1>4. Untouched /\ [Next]_vars => Untouched'
  BY UntouchedKept
<1>5. Transferred /\ Chained /\ Untouched => Delivered
  BY TransferDelivers
<1> QED
  BY <1>1, <1>2, <1>3, <1>4, <1>5, PTL DEF Spec

(* No wait of the driver is for ever: what its next step needs is there at *)
(* each point, whichever of the four waits it uses and whatever lock it    *)
(* slept with (cpu.c:1009-1101), and a request, once begun, is over after  *)
(* as many steps as Ahead says, with no assumption on the driver.          *)
THEOREM RequestsComeToAnEnd ==
  Spec => /\ [](CanGoOn /\ Ahead \in Nat)
          /\ [][UsesAdaptor => Nearer]_vars
<1>1. Init => OnItsWay
  BY WayStarts DEF Init
<1>2. OnItsWay /\ [Next]_vars => OnItsWay' /\ (UsesAdaptor => Nearer)
  <2> SUFFICES ASSUME OnItsWay, [Next]_vars
               PROVE  OnItsWay' /\ (UsesAdaptor => Nearer)
    OBVIOUS
  <2>1. UsesAdaptor => OnItsWay' /\ Nearer
    BY WaySteps DEF UsesAdaptor
  <2>2. CASE UNCHANGED adaptor
    <3>1. /\ sha_status' = sha_status /\ head' = head /\ windows' = windows
          /\ lock' = lock /\ block' = block /\ req' = req /\ pc' = pc
      BY <2>2 DEF adaptor, machine
    <3>2. (Completed => Completed') /\ (Reasonable => Reasonable')
      BY <3>1 DEF Completed, Reasonable, Sane
    <3>3. OnItsWay'
      BY <3>1, <3>2 DEF OnItsWay
    <3> QED
      BY <2>1, <3>3
  <2> QED
    BY <2>1, <2>2 DEF Next, UsesRing, UsesLog, UsesHostFiles, UsesLabel, Boots, vars
<1>3. OnItsWay => CanGoOn /\ Ahead \in Nat
  BY WayIsFree
<1> QED
  BY <1>1, <1>2, <1>3, PTL DEF Spec

(* Blocks that no request wrote stay what they were (devices.c:358-361).   *)
THEOREM WritesStayInPlace ==
  ASSUME FitsBuffer
  PROVE  Spec => WritesInPlace
<1>1. Init => Transferred
  BY TransferInit DEF Init
<1>2. Transferred /\ [Next]_vars => Transferred' /\ (InPlace \/ UNCHANGED adaptor)
  BY TransferKept
<1> QED
  BY <1>1, <1>2, PTL DEF Spec, WritesInPlace, InPlace

(* The kernel read out of the boot image is the file, byte for byte, for   *)
(* files up to the double indirect blocks (ffs.c:87-177).                  *)
THEOREM KernelAlwaysRead == Spec => []KernelIsRead
<1>1. Init => Prefix
  BY PrefixInit DEF Init
<1>2. Prefix /\ [Next]_vars => Prefix'
  <2> SUFFICES ASSUME Prefix, [Next]_vars PROVE Prefix'
    OBVIOUS
  <2>1. CASE Boots
    BY <2>1, BootNextKeeps DEF Boots
  <2>2. CASE UNCHANGED bootimage
    <3>1. /\ filesize' = filesize /\ holes' = holes /\ buf' = buf /\ path' = path
          /\ ino' = ino /\ done' = done
      BY <2>2 DEF bootimage
    <3>2. \A i \in 1 .. Len(buf) : Byte(i - 1)' = Byte(i - 1)
      BY <3>1 DEF Byte
    <3> QED
      BY <3>1, <3>2 DEF Prefix
  <2> QED
    BY <2>1, <2>2 DEF Next, UsesAdaptor, UsesRing, UsesLog, UsesHostFiles, UsesLabel, vars, files_
<1> QED
  BY <1>1, <1>2, PrefixIsAll, PTL DEF Spec

LEMMA RingKept == RingInv /\ [Next]_vars => RingInv'
<1> SUFFICES ASSUME RingInv, [Next]_vars PROVE RingInv'
  OBVIOUS
<1>1. CASE UsesRing
  BY <1>1, RingStays DEF UsesRing
<1>2. CASE UNCHANGED ringvars
  <2>1. /\ cons' = cons /\ prod' = prod /\ ring' = ring /\ draining' = draining
        /\ queued' = queued /\ drained' = drained
    BY <1>2 DEF ringvars
  <2>2. Used' = Used /\ \A i \in 1 .. Used : Place(i)' = Place(i)
    BY <2>1 DEF Used, Place
  <2> QED
    BY <2>1, <2>2 DEF RingInv
<1>3. CASE UsesLog
  <2>1. UNCHANGED ringvars
    BY <1>3 DEF UsesLog, LogNext, KPrint, Flush, ringvars
  <2> QED
    BY <1>2, <2>1
<1> QED
  BY <1>1, <1>2, <1>3
  DEF Next, UsesAdaptor, UsesHostFiles, UsesLabel, Boots, vars, frontend

LEMMA KeptLog == LogInv /\ [Next]_vars => LogInv'
<1> SUFFICES ASSUME LogInv, [Next]_vars PROVE LogInv'
  OBVIOUS
<1>1. CASE UsesLog
  BY <1>1, LogStays DEF UsesLog
<1>2. CASE UNCHANGED logvars
  BY <1>2 DEF logvars, LogInv
<1>3. CASE UsesRing
  <2>1. UNCHANGED logvars
    BY <1>3 DEF UsesRing, RingNext, KQueue, LoadIndex, DrainByte, DrainEnd
  <2> QED
    BY <1>2, <2>1
<1> QED
  BY <1>1, <1>2, <1>3
  DEF Next, UsesAdaptor, UsesHostFiles, UsesLabel, Boots, vars, frontend

(* The front end has had every character the kernel stored, once and in    *)
(* order, and the ring holds the rest, across its wrap (devices.c:93-100). *)
THEOREM RingKeepsOrder == Spec => []RingInOrder
<1>1. Init => RingInv
  BY RingStarts DEF Init
<1>2. RingInv /\ [Next]_vars => RingInv'
  BY RingKept
<1> QED
  BY <1>1, <1>2, RingInvOrder, PTL DEF Spec

(* Every letter printed to a stream is in its lines, in order: printed,    *)
(* skipped because the console had the line, or still being assembled, in  *)
(* a buffer it fits (kmsg.c:55-75); and a line of the log is skipped only  *)
(* if it is the last the console printed (kmsg.c:43).                      *)
THEOREM NothingIsLost == Spec => []NothingLost
<1>1. Init => RingInv /\ LogInv
  BY RingStarts, LogStarts DEF Init
<1>2. RingInv /\ [Next]_vars => RingInv'
  BY RingKept
<1>3. LogInv /\ [Next]_vars => LogInv'
  BY KeptLog
<1>4. RingInv /\ LogInv => NothingLost
  <2> SUFFICES ASSUME RingInv, LogInv PROVE NothingLost
    OBVIOUS
  <2>1. FrontEndTypeOK
    BY DEF RingInv, LogInv, Logged, FrontEndTypeOK
  <2> QED
    BY <2>1, LogKept DEF NothingLost
<1> QED
  BY <1>1, <1>2, <1>3, <1>4, PTL DEF Spec
=============================================================================
