--------------------------- MODULE BlockIO_proofs ---------------------------
(***************************************************************************)
(* What holds of the buffer cache and its images for any processes,        *)
(* buffers, blocks and values, as long as the guest does what is taken for *)
(* granted of it: the cache and the images together are one shared disk    *)
(* (Faithful), and a session that ends without a warning has left nothing  *)
(* behind in the cache (QuietEndIsClean).                                  *)
(*                                                                         *)
(* The inductive invariant, Inv, says of each buffer what its data may be  *)
(* taken for, given what its holder is doing (Sound).  Most steps put one  *)
(* buffer and one process in a new state: the lemmas about the operators   *)
(* Cached and ContentsOf are stated for such a change, with the states as  *)
(* parameters, and the lemma of an action finds the change that it makes.  *)
(***************************************************************************)
EXTENDS BlockIO, TLAPS

(* What the image i has for block k.                                       *)
Holds(i, k) == i[IF k[1] = "root" THEN "root_img" ELSE "disk_img"][k[2]]

(* What a buffer says its block holds, v being what the image has.         *)
Says(r, v) == IF "DONE" \in r.flags THEN r.data ELSE v

ContentsOf(bs, i) ==
  [k \in Blocks |->
     IF \E b \in Bufs : bs[b].blk = k /\ "DONE" \in bs[b].flags
       THEN bs[CHOOSE b \in {c \in Bufs : bs[c].blk = k} : TRUE].data
       ELSE Holds(i, k)]

(* A buffer's header and data, given what the image has for its block (v)  *)
(* and what the process that holds it is doing (at): the data of a clean   *)
(* buffer is the image's, a buffer without data is being filled, and only  *)
(* a block of the root is ever left for the driver to transfer.            *)
Sound(r, v, at) ==
  /\ r.blk = NoBlk => r.holder = "nobody" /\ r.flags = {}
  /\ r.blk # NoBlk =>
       /\ "DONE" \notin r.flags =>
            \/ at = "bread" /\ r.flags = {}
            \/ r.blk[1] = "root" /\ at = "biowait" /\ r.flags = {"READ"}
            \/ r.blk[1] = "root" /\ r.holder = "io" /\ r.flags = {"READ", "ASYNC"}
       /\ "DONE" \in r.flags => "ASYNC" \notin r.flags /\ r.holder # "io"
       /\ "DONE" \in r.flags /\ "DELWRI" \notin r.flags /\ at # "dirty" => r.data = v
       /\ r.blk[1] = "root" => "DELWRI" \notin r.flags /\ at # "dirty"

Unique(bs) == \A b, c \in Bufs : bs[b].blk = bs[c].blk /\ bs[b].blk # NoBlk => b = c

(* What the holder of a buffer is doing.                                   *)
At(bs, os, b) == IF bs[b].holder \in Procs THEN os[bs[b].holder].at ELSE "none"

Cached(bs, i, os) ==
  /\ Unique(bs)
  /\ \A b \in Bufs : bs[b].holder \in Procs =>
       os[bs[b].holder].at \in Holding /\ os[bs[b].holder].blk = bs[b].blk
  /\ \A p \in Procs : os[p].at \in Holding => \E b \in Bufs : bs[b].holder = p
  /\ \A b \in Bufs : Sound(bs[b], Holds(i, bs[b].blk), At(bs, os, b))

(* bs2 and os2 are bs and os, but for a buffer and for a process.          *)
Put(bs, bs2, b, r) ==
  bs2 \in [Bufs -> Buf] /\ bs2[b] = r /\ \A c \in Bufs : c # b => bs2[c] = bs[c]
Turns(os, os2, p, o) ==
  os2 \in [Procs -> Op] /\ os2[p] = o /\ \A q \in Procs : q # p => os2[q] = os[q]

Image == [Files -> [RootBlocks \cup SdBlocks -> Val]]

Typed ==
  /\ img \in Image
  /\ buf \in [Bufs -> Buf]
  /\ disk_wrote \in BOOLEAN /\ fs_synced \in BOOLEAN
  /\ op \in [Procs -> Op]
  /\ reg \in Val
  /\ ended \in {"no", "quiet", "warned"}

Asking == Holding \cup {"getblk"}

Wanted ==
  \A p \in Procs : op[p].blk \in (IF op[p].at \in Asking THEN Blocks ELSE {NoBlk})

(* The root comes first, and the raw disk is open only while nothing of    *)
(* the disk is cached or wanted.                                           *)
DiskUnused == /\ \A b \in Bufs : buf[b].blk[1] # "sd"
              /\ \A p \in Procs : op[p].blk[1] # "sd"

Devices ==
  /\ root_dev_vp \in {NoDev, "root"}
  /\ root_dev_vp = NoDev => DiskUnused
  /\ (\E p \in Procs : op[p].at = "raw") => DiskUnused

(* A flush comes last, and is over when nothing is left to write.          *)
Flushing == {"sync", "umount"}

Flushed ==
  /\ \A p \in Procs : op[p].at \in Flushing =>
       \A q \in Procs : q # p => op[q].at = "dead"
  /\ fs_synced => \A p \in Procs : op[p].at # "dirty"
  /\ fs_synced => \A b \in Bufs :
       "DELWRI" \in buf[b].flags => \E p \in Procs : op[p].at \in Flushing
  /\ ended # "no" => \A p \in Procs : op[p].at = "dead"
  /\ ended = "quiet" /\ disk_wrote => fs_synced

Inv == Typed /\ Wanted /\ Devices /\ Cached(buf, img, op) /\ Flushed

(***************************************************************************)
(* The operators on any buffers, images and processes                      *)
(***************************************************************************)

(* The parts of a block's name.                                            *)
LEMMA BlockNames ==
  /\ NoBlk \notin Blocks /\ NoBlk[1] = "none"
  /\ \A k \in Blocks : /\ \/ k[1] = "root" /\ k[2] \in RootBlocks
                          \/ k[1] = "sd" /\ k[2] \in SdBlocks
                       /\ k = <<k[1], k[2]>>
  /\ \A j \in SdBlocks : /\ <<"sd", j>> \in Blocks
                         /\ <<"sd", j>>[1] = "sd" /\ <<"sd", j>>[2] = j
<1>1. NoBlk \notin Blocks /\ NoBlk[1] = "none"
  BY DEF Blocks, NoBlk, NoDev
<1>2. ASSUME NEW k \in Blocks
      PROVE  /\ \/ k[1] = "root" /\ k[2] \in RootBlocks
                \/ k[1] = "sd" /\ k[2] \in SdBlocks
             /\ k = <<k[1], k[2]>>
  <2>1. CASE k \in {"root"} \X RootBlocks
    BY <2>1
  <2>2. CASE k \in {"sd"} \X SdBlocks
    BY <2>2
  <2> QED
    BY <2>1, <2>2 DEF Blocks
<1>3. ASSUME NEW j \in SdBlocks
      PROVE  <<"sd", j>> \in Blocks
  BY DEF Blocks
<1> QED
  BY <1>1, <1>2, <1>3

(* The image has a value for each block.                                   *)
LEMMA HoldsValue ==
  ASSUME NEW i \in Image, NEW k \in Blocks
  PROVE  Holds(i, k) \in Val
BY BlockNames DEF Holds, Image, Files

(* A block that is in the cache has the contents its buffer says.          *)
LEMMA Has ==
  ASSUME NEW bs, NEW i, Unique(bs), NEW k \in Blocks, NEW b \in Bufs, bs[b].blk = k
  PROVE  ContentsOf(bs, i)[k] = Says(bs[b], Holds(i, k))
<1>1. \A c \in Bufs : bs[c].blk = k => c = b
  BY BlockNames DEF Unique
<1>2. {c \in Bufs : bs[c].blk = k} = {b}
  BY <1>1
<1>3. (CHOOSE c \in {c \in Bufs : bs[c].blk = k} : TRUE) = b
  BY <1>2
<1>4. (\E c \in Bufs : bs[c].blk = k /\ "DONE" \in bs[c].flags) <=> "DONE" \in bs[b].flags
  BY <1>1
<1>5. ContentsOf(bs, i)[k] = IF \E c \in Bufs : bs[c].blk = k /\ "DONE" \in bs[c].flags
                               THEN bs[CHOOSE c \in {c \in Bufs : bs[c].blk = k} : TRUE].data
                               ELSE Holds(i, k)
  BY DEF ContentsOf
<1> QED
  BY <1>3, <1>4, <1>5 DEF Says

(* Another has those of the image.                                         *)
LEMMA HasNot ==
  ASSUME NEW bs, NEW i, NEW k \in Blocks, \A b \in Bufs : bs[b].blk # k
  PROVE  ContentsOf(bs, i)[k] = Holds(i, k)
BY DEF ContentsOf

(* A change of one buffer, and of the image where that buffer's block is,  *)
(* changes what that block holds and nothing else, as long as the block    *)
(* the buffer is taken from is clean.                                      *)
LEMMA OneBlock ==
  ASSUME NEW bs, NEW i, NEW bs2, NEW i2, NEW b \in Bufs, NEW r,
         bs2[b] = r, \A c \in Bufs : c # b => bs2[c] = bs[c],
         Unique(bs), Unique(bs2), r.blk \in Blocks,
         \A k \in Blocks : k # r.blk => Holds(i2, k) = Holds(i, k),
         bs[b].blk # r.blk /\ bs[b].blk \in Blocks =>
           Says(bs[b], Holds(i, bs[b].blk)) = Holds(i, bs[b].blk)
  PROVE  ContentsOf(bs2, i2) = [ContentsOf(bs, i) EXCEPT ![r.blk] = Says(r, Holds(i2, r.blk))]
<1> DEFINE new == [ContentsOf(bs, i) EXCEPT ![r.blk] = Says(r, Holds(i2, r.blk))]
<1>1. ContentsOf(bs2, i2)[r.blk] = Says(r, Holds(i2, r.blk))
  BY Has
<1>2. ASSUME NEW k \in Blocks, k # r.blk
      PROVE  ContentsOf(bs2, i2)[k] = ContentsOf(bs, i)[k]
  <2>1. CASE \E c \in Bufs : c # b /\ bs[c].blk = k
    <3>1. PICK c \in Bufs : c # b /\ bs[c].blk = k
      BY <2>1
    <3>2. bs2[c] = bs[c]
      BY <3>1
    <3>3. ContentsOf(bs, i)[k] = Says(bs[c], Holds(i, k))
      BY <3>1, Has
    <3>4. ContentsOf(bs2, i2)[k] = Says(bs2[c], Holds(i2, k))
      BY <3>1, <3>2, Has
    <3> QED
      BY <3>2, <3>3, <3>4, <1>2
  <2>2. CASE \A c \in Bufs : c # b => bs[c].blk # k
    <3>1. \A c \in Bufs : bs2[c].blk # k
      BY <2>2, <1>2
    <3>2. ContentsOf(bs2, i2)[k] = Holds(i2, k)
      BY <3>1, HasNot
    <3>3. ContentsOf(bs, i)[k] = Holds(i, k)
      <4>1. CASE bs[b].blk = k
        BY <4>1, <1>2, Has
      <4>2. CASE bs[b].blk # k
        BY <4>2, <2>2, HasNot
      <4> QED
        BY <4>1, <4>2
    <3> QED
      BY <3>2, <3>3, <1>2
  <2> QED
    BY <2>1, <2>2
<1>3. /\ ContentsOf(bs, i) = [k \in Blocks |-> ContentsOf(bs, i)[k]]
      /\ ContentsOf(bs2, i2) = [k \in Blocks |-> ContentsOf(bs2, i2)[k]]
  BY DEF ContentsOf
<1>4. new = [k \in Blocks |-> IF k = r.blk THEN Says(r, Holds(i2, r.blk))
                              ELSE ContentsOf(bs, i)[k]]
  BY <1>3
<1> QED
  BY <1>1, <1>2, <1>3, <1>4

(* A change that leaves what the block holds changes nothing.              *)
LEMMA NoBlock ==
  ASSUME NEW bs, NEW i, NEW k, NEW x, k \in Blocks => x = ContentsOf(bs, i)[k]
  PROVE  [ContentsOf(bs, i) EXCEPT ![k] = x] = ContentsOf(bs, i)
<1>1. ContentsOf(bs, i) = [j \in Blocks |-> ContentsOf(bs, i)[j]]
  BY DEF ContentsOf
<1> QED
  BY <1>1

(* A process puts one buffer in a new state and goes on to another: the    *)
(* buffer was its own or no process's, and is its own afterwards exactly   *)
(* if it holds one.                                                        *)
LEMMA Replace ==
  ASSUME NEW bs, NEW i, NEW os, NEW bs2, NEW i2, NEW os2,
         NEW p \in Procs, NEW b \in Bufs, NEW r,
         Cached(bs, i, os),
         bs2[b] = r, \A c \in Bufs : c # b => bs2[c] = bs[c],
         \A q \in Procs : q # p => os2[q] = os[q],
         \A c \in Bufs : bs[c].blk \in Blocks \cup {NoBlk},
         \A k \in Blocks : k # r.blk => Holds(i2, k) = Holds(i, k),
         \A c \in Bufs : c # b => bs[c].holder # p /\ (r.blk = NoBlk \/ bs[c].blk # r.blk),
         bs[b].holder \notin Procs \ {p}, r.holder \notin Procs \ {p},
         os2[p].at \in Holding <=> r.holder = p,
         r.holder = p => os2[p].blk = r.blk,
         Sound(r, Holds(i2, r.blk), IF r.holder = p THEN os2[p].at ELSE "none")
  PROVE  Cached(bs2, i2, os2)
<1>1. Unique(bs2)
  BY DEF Cached, Unique
<1>2. ASSUME NEW c \in Bufs, bs2[c].holder \in Procs
      PROVE  os2[bs2[c].holder].at \in Holding /\ os2[bs2[c].holder].blk = bs2[c].blk
  <2>1. CASE c = b
    BY <2>1, <1>2
  <2>2. CASE c # b
    BY <2>2, <1>2 DEF Cached
  <2> QED
    BY <2>1, <2>2
<1>3. ASSUME NEW q \in Procs, os2[q].at \in Holding
      PROVE  \E c \in Bufs : bs2[c].holder = q
  <2>1. CASE q = p
    BY <2>1, <1>3
  <2>2. CASE q # p
    <3>1. PICK c \in Bufs : bs[c].holder = q
      BY <2>2, <1>3 DEF Cached
    <3>2. c # b
      BY <3>1, <2>2
    <3> QED
      BY <3>1, <3>2
  <2> QED
    BY <2>1, <2>2
<1>4. ASSUME NEW c \in Bufs
      PROVE  Sound(bs2[c], Holds(i2, bs2[c].blk), At(bs2, os2, c))
  <2>1. CASE c = b
    <3>1. At(bs2, os2, c) = IF r.holder = p THEN os2[p].at ELSE "none"
      BY <2>1 DEF At
    <3> QED
      BY <3>1, <2>1
  <2>2. CASE c # b
    <3>1. bs2[c] = bs[c]
      BY <2>2
    <3>2. At(bs2, os2, c) = At(bs, os, c)
      BY <2>2, <3>1 DEF At
    <3>3. Sound(bs[c], Holds(i, bs[c].blk), At(bs, os, c))
      BY DEF Cached
    <3>4. CASE bs[c].blk = NoBlk
      BY <3>1, <3>3, <3>4 DEF Sound
    <3>5. CASE bs[c].blk # NoBlk
      <4>1. bs[c].blk \in Blocks /\ bs[c].blk # r.blk
        BY <2>2, <3>5
      <4>2. Holds(i2, bs[c].blk) = Holds(i, bs[c].blk)
        BY <4>1
      <4> QED
        BY <3>1, <3>2, <3>3, <4>2
    <3> QED
      BY <3>4, <3>5
  <2> QED
    BY <2>1, <2>2
<1> QED
  BY <1>1, <1>2, <1>3, <1>4 DEF Cached

(* No process's buffer changes, and none does anything else.               *)
LEMMA Swap ==
  ASSUME NEW bs, NEW i, NEW os, NEW bs2, NEW i2, NEW b \in Bufs, NEW r,
         Cached(bs, i, os),
         bs2[b] = r, \A c \in Bufs : c # b => bs2[c] = bs[c],
         \A c \in Bufs : bs[c].blk \in Blocks \cup {NoBlk},
         \A k \in Blocks : k # r.blk => Holds(i2, k) = Holds(i, k),
         \A c \in Bufs : c # b => r.blk = NoBlk \/ bs[c].blk # r.blk,
         bs[b].holder \notin Procs, r.holder \notin Procs,
         Sound(r, Holds(i2, r.blk), "none")
  PROVE  Cached(bs2, i2, os)
<1>1. Unique(bs2)
  BY DEF Cached, Unique
<1>2. \A c \in Bufs : bs2[c].holder \in Procs =>
        os[bs2[c].holder].at \in Holding /\ os[bs2[c].holder].blk = bs2[c].blk
  BY DEF Cached
<1>3. ASSUME NEW q \in Procs, os[q].at \in Holding
      PROVE  \E c \in Bufs : bs2[c].holder = q
  <2>1. PICK c \in Bufs : bs[c].holder = q
    BY <1>3 DEF Cached
  <2>2. c # b
    BY <2>1
  <2> QED
    BY <2>1, <2>2
<1>4. ASSUME NEW c \in Bufs
      PROVE  Sound(bs2[c], Holds(i2, bs2[c].blk), At(bs2, os, c))
  <2>1. CASE c = b
    <3>1. At(bs2, os, c) = "none"
      BY <2>1 DEF At
    <3> QED
      BY <3>1, <2>1
  <2>2. CASE c # b
    <3>1. bs2[c] = bs[c]
      BY <2>2
    <3>2. At(bs2, os, c) = At(bs, os, c)
      BY <2>2, <3>1 DEF At
    <3>3. Sound(bs[c], Holds(i, bs[c].blk), At(bs, os, c))
      BY DEF Cached
    <3>4. CASE bs[c].blk = NoBlk
      BY <3>1, <3>3, <3>4 DEF Sound
    <3>5. CASE bs[c].blk # NoBlk
      <4>1. bs[c].blk \in Blocks /\ bs[c].blk # r.blk
        BY <2>2, <3>5
      <4>2. Holds(i2, bs[c].blk) = Holds(i, bs[c].blk)
        BY <4>1
      <4> QED
        BY <3>1, <3>2, <3>3, <4>2
    <3> QED
      BY <3>4, <3>5
  <2> QED
    BY <2>1, <2>2
<1> QED
  BY <1>1, <1>2, <1>3, <1>4 DEF Cached

(* No buffer changes, and a process that holds none goes on without one.   *)
LEMMA NoBuffer ==
  ASSUME NEW bs, NEW i, NEW os, NEW os2, NEW p \in Procs,
         Cached(bs, i, os), os[p].at \notin Holding, os2[p].at \notin Holding,
         \A q \in Procs : q # p => os2[q] = os[q]
  PROVE  Cached(bs, i, os2)
<1>1. \A b \in Bufs : bs[b].holder # p
  BY DEF Cached
<1>2. \A b \in Bufs : At(bs, os2, b) = At(bs, os, b)
  BY <1>1 DEF At
<1>3. \A b \in Bufs : bs[b].holder \in Procs =>
        os2[bs[b].holder].at \in Holding /\ os2[bs[b].holder].blk = bs[b].blk
  BY <1>1 DEF Cached
<1>4. \A q \in Procs : os2[q].at \in Holding => \E b \in Bufs : bs[b].holder = q
  BY DEF Cached
<1> QED
  BY <1>2, <1>3, <1>4 DEF Cached

(***************************************************************************)
(* What the invariant says                                                 *)
(***************************************************************************)

(* A process that holds a buffer holds one, the one for its block.         *)
LEMMA MineIs ==
  ASSUME Inv, NEW p \in Procs, op[p].at \in Holding
  PROVE  /\ Mine(p) \in Bufs /\ buf[Mine(p)].holder = p
         /\ op[p].blk \in Blocks /\ buf[Mine(p)].blk = op[p].blk
         /\ At(buf, op, Mine(p)) = op[p].at
         /\ \A c \in Bufs : c # Mine(p) => buf[c].holder # p /\ buf[c].blk # op[p].blk
<1>1. \E b \in Bufs : buf[b].holder = p
  BY DEF Inv, Cached
<1>2. Mine(p) \in Bufs /\ buf[Mine(p)].holder = p
  BY <1>1 DEF Mine
<1>3. op[p].blk \in Blocks
  BY DEF Inv, Wanted, Asking
<1>4. \A c \in Bufs : buf[c].holder = p => buf[c].blk = op[p].blk
  BY DEF Inv, Cached
<1>5. \A c \in Bufs : buf[c].blk = op[p].blk => c = Mine(p)
  BY <1>2, <1>3, <1>4, BlockNames DEF Inv, Cached, Unique
<1>6. At(buf, op, Mine(p)) = op[p].at
  BY <1>2 DEF At
<1> QED
  BY <1>2, <1>3, <1>4, <1>5, <1>6

(* What the buffer a process holds may be, by what the process does.       *)
LEMMA MineSound ==
  ASSUME Inv, NEW p \in Procs, op[p].at \in Holding
  PROVE  LET r == buf[Mine(p)] IN
         /\ r \in Buf
         /\ op[p].at \in {"hold", "dirty", "release", "bwrite"} => "DONE" \in r.flags
         /\ op[p].at = "biowait" /\ "DONE" \notin r.flags =>
              r.blk[1] = "root" /\ r.flags = {"READ"}
         /\ op[p].at = "bread" /\ "DONE" \notin r.flags => r.flags = {}
         /\ "DONE" \in r.flags => "ASYNC" \notin r.flags
         /\ "DONE" \in r.flags /\ "DELWRI" \notin r.flags /\ op[p].at # "dirty" =>
              r.data = Holds(img, r.blk)
         /\ r.blk[1] = "root" => "DELWRI" \notin r.flags /\ op[p].at # "dirty"
<1>1. /\ Mine(p) \in Bufs /\ buf[Mine(p)].holder = p /\ buf[Mine(p)].blk \in Blocks
      /\ At(buf, op, Mine(p)) = op[p].at
  BY MineIs
<1>2. Sound(buf[Mine(p)], Holds(img, buf[Mine(p)].blk), op[p].at)
  BY <1>1 DEF Inv, Cached
<1>3. buf[Mine(p)].blk # NoBlk /\ p # "io"
  BY <1>1, BlockNames, BlockAssumption
<1>4. buf[Mine(p)] \in Buf
  BY <1>1 DEF Inv, Typed
<1> QED
  BY <1>1, <1>2, <1>3, <1>4 DEF Sound

(* What a buffer no process holds may be.                                  *)
LEMMA Unheld ==
  ASSUME Inv, NEW b \in Bufs, buf[b].holder \notin Procs
  PROVE  LET r == buf[b] IN
         /\ r \in Buf /\ r.blk \in Blocks \cup {NoBlk}
         /\ r.blk = NoBlk => r.flags = {} /\ r.holder = "nobody"
         /\ r.blk \in Blocks /\ "DONE" \notin r.flags =>
              r.blk[1] = "root" /\ r.holder = "io" /\ r.flags = {"READ", "ASYNC"}
         /\ "DONE" \in r.flags => r.holder = "nobody" /\ "ASYNC" \notin r.flags
         /\ r.blk \in Blocks /\ "DONE" \in r.flags /\ "DELWRI" \notin r.flags =>
              r.data = Holds(img, r.blk)
         /\ "DELWRI" \in r.flags => r.blk[1] = "sd" /\ r.blk \in Blocks /\ "DONE" \in r.flags
<1>1. At(buf, op, b) = "none"
  BY DEF At
<1>2. Sound(buf[b], Holds(img, buf[b].blk), "none")
  BY <1>1 DEF Inv, Cached
<1>3. /\ buf[b] \in Buf /\ buf[b].blk \in Blocks \cup {NoBlk}
      /\ buf[b].holder \in {"io", "nobody"}
  BY DEF Inv, Typed, Buf, Holder
<1> QED
  BY <1>2, <1>3, BlockNames DEF Sound

(* The device of a block that is used is known.                            *)
LEMMA Known ==
  ASSUME Inv, NEW k \in Blocks,
         (\E b \in Bufs : buf[b].blk = k) \/ \E p \in Procs : op[p].blk[1] = k[1]
  PROVE  root_dev_vp \in {NoDev, "root"} /\ (root_dev_vp = NoDev => k[1] = "root")
BY BlockNames DEF Inv, Devices, DiskUnused

(* No block is cached twice and no buffer has two holders.                 *)
LEMMA InvTypeOK ==
  ASSUME Inv
  PROVE  TypeOK
<1>1. root_dev_vp \in Devs \cup {NoDev}
  BY DEF Inv, Devices, Devs
<1>2. \A b, c \in Bufs : buf[b].blk = buf[c].blk /\ buf[b].blk # NoBlk => b = c
  BY DEF Inv, Cached, Unique
<1>3. ASSUME NEW p \in Procs
      PROVE  {b \in Bufs : buf[b].holder = p} =
               IF op[p].at \in Holding THEN Incore(op[p].blk) ELSE {}
  <2>1. CASE op[p].at \in Holding
    <3>1. \A c \in Bufs : buf[c].holder = p <=> buf[c].blk = op[p].blk
      BY <2>1, MineIs
    <3> QED
      BY <2>1, <3>1 DEF Incore
  <2>2. CASE op[p].at \notin Holding
    <3>1. \A c \in Bufs : buf[c].holder # p
      BY <2>2 DEF Inv, Cached
    <3> QED
      BY <2>2, <3>1
  <2> QED
    BY <2>1, <2>2
<1> QED
  BY <1>1, <1>2, <1>3 DEF Inv, Typed, Image, TypeOK

(* Once the processes are gone, a buffer that a session without a warning  *)
(* leaves is clean.                                                        *)
LEMMA InvQuiet ==
  ASSUME Inv
  PROVE  QuietEndIsClean
<1>1. ASSUME ended = "quiet", disk_wrote, NEW b \in Bufs, Unsaved(b)
      PROVE  FALSE
  <2>1. \A p \in Procs : op[p].at = "dead"
    BY <1>1 DEF Inv, Flushed
  <2>2. buf[b].holder \notin Procs
    BY <2>1 DEF Inv, Cached, Holding, Waiting
  <2>3. fs_synced
    BY <1>1 DEF Inv, Flushed
  <2>4. "DELWRI" \notin buf[b].flags
    BY <2>1, <2>3 DEF Inv, Flushed, Flushing
  <2>5. buf[b].blk[1] = "sd"
    BY <1>1 DEF Unsaved, OnDisk
  <2>6. buf[b].blk \in Blocks /\ "DONE" \in buf[b].flags
    BY <2>2, <2>5, Unheld, BlockNames
  <2>7. buf[b].data = Holds(img, buf[b].blk)
    BY <2>2, <2>4, <2>6, Unheld
  <2> QED
    BY <1>1, <2>5, <2>7 DEF Unsaved, Holds
<1> QED
  BY <1>1, InvTypeOK DEF QuietEndIsClean

(***************************************************************************)
(* Steps that change one buffer                                            *)
(***************************************************************************)

(* What such a step leaves of the invariant, the cache aside.              *)
LEMMA Moved ==
  ASSUME Inv, NEW p \in Procs, NEW b \in Bufs, NEW r \in Buf, NEW o \in Op,
         Put(buf, buf', b, r), Turns(op, op', p, o),
         img' \in Image, disk_wrote' \in BOOLEAN, root_dev_vp' \in {root_dev_vp, "root"},
         reg' = reg, fs_synced' = fs_synced, ended' = ended,
         op[p].at # "dead",
         r.blk[1] = "sd" => buf[b].blk[1] = "sd" \/ op[p].blk[1] = "sd",
         \/ o = op[p]
         \/ op[p].at \in Asking /\ o = Idle
         \/ op[p].at \in Asking /\ o.at \in Asking /\ o.blk = op[p].blk,
         o.at = "dirty" => ~fs_synced,
         "DELWRI" \in r.flags => "DELWRI" \in buf[b].flags \/ ~fs_synced
  PROVE  Typed' /\ Wanted' /\ Devices' /\ Flushed'
<1>1. Typed'
  <2>1. buf' \in [Bufs -> Buf] /\ op' \in [Procs -> Op]
    BY DEF Put, Turns
  <2>2. fs_synced' \in BOOLEAN
    BY DEF Inv, Typed
  <2>3. reg' \in Val /\ ended' \in {"no", "quiet", "warned"}
    BY DEF Inv, Typed
  <2> QED
    BY <2>1, <2>2, <2>3 DEF Typed
<1>2. op'[p] = o /\ \A q \in Procs : q # p => op'[q] = op[q]
  BY DEF Turns
<1>3. buf'[b] = r /\ \A c \in Bufs : c # b => buf'[c] = buf[c]
  BY DEF Put
<1>4. Wanted'
  <2>1. o.blk \in (IF o.at \in Asking THEN Blocks ELSE {NoBlk})
    BY DEF Inv, Wanted, Asking, Holding, Waiting, Idle
  <2> QED
    BY <1>2, <2>1 DEF Inv, Wanted
<1>5. Devices'
  <2>1. o.blk \in {op[p].blk, NoBlk}
    BY DEF Idle
  <2>2. DiskUnused => DiskUnused'
    BY <1>2, <1>3, <2>1, BlockNames DEF DiskUnused
  <2>3. o.at = "raw" => op[p].at = "raw"
    BY DEF Asking, Holding, Waiting, Idle
  <2>4. (\E q \in Procs : op'[q].at = "raw") => \E q \in Procs : op[q].at = "raw"
    BY <1>2, <2>3
  <2>5. (root_dev_vp' \in {NoDev, "root"}) /\ (root_dev_vp' = NoDev => root_dev_vp = NoDev)
    BY DEF Inv, Devices, NoDev
  <2>6. root_dev_vp' = NoDev => DiskUnused'
    BY <2>2, <2>5 DEF Inv, Devices
  <2>7. (\E q \in Procs : op'[q].at = "raw") => DiskUnused'
    BY <2>2, <2>4 DEF Inv, Devices
  <2> QED
    BY <2>5, <2>6, <2>7 DEF Devices
<1>6. Flushed'
  <2>1. o.at \in Flushing <=> op[p].at \in Flushing
    BY DEF Asking, Holding, Waiting, Flushing, Idle
  <2>2. \A q \in Procs : op'[q].at \in Flushing <=> op[q].at \in Flushing
    BY <1>2, <2>1
  <2>3. ASSUME NEW q \in Procs, op'[q].at \in Flushing, NEW q2 \in Procs, q2 # q
        PROVE  op'[q2].at = "dead"
    <3>1. op[q].at \in Flushing
      BY <2>2, <2>3
    <3>2. op[q2].at = "dead"
      BY <3>1, <2>3 DEF Inv, Flushed
    <3> QED
      BY <3>2, <1>2
  <2>4. fs_synced' => \A q \in Procs : op'[q].at # "dirty"
    BY <1>2 DEF Inv, Flushed
  <2>5. ASSUME fs_synced', NEW c \in Bufs, "DELWRI" \in buf'[c].flags
        PROVE  \E q \in Procs : op'[q].at \in Flushing
    <3>1. "DELWRI" \in buf[c].flags
      BY <1>3, <2>5
    <3>2. \E q \in Procs : op[q].at \in Flushing
      BY <2>5, <3>1 DEF Inv, Flushed
    <3> QED
      BY <2>2, <3>2
  <2>6. ended = "no"
    BY DEF Inv, Flushed, Typed
  <2> QED
    BY <2>3, <2>4, <2>5, <2>6 DEF Flushed
<1> QED
  BY <1>1, <1>4, <1>5, <1>6

(* The mapped contents are those of the cache and the images.              *)
LEMMA ContentsAre ==
  /\ Contents = ContentsOf(buf, img)
  /\ Contents' = ContentsOf(buf', img')
BY DEF Contents, ContentsOf, Incore, Holds

(* A process's own buffer, or one that becomes or was its own.             *)
LEMMA OwnStep ==
  ASSUME Inv, NEW p \in Procs, NEW b \in Bufs, NEW r \in Buf, NEW o \in Op,
         Put(buf, buf', b, r), Turns(op, op', p, o),
         img' \in Image, disk_wrote' \in BOOLEAN, root_dev_vp' \in {root_dev_vp, "root"},
         reg' = reg, fs_synced' = fs_synced, ended' = ended,
         r.blk = op[p].blk, op[p].at \in Asking,
         o = Idle \/ (o.at \in Asking /\ o.blk = op[p].blk),
         o.at = "dirty" => ~fs_synced,
         "DELWRI" \in r.flags => "DELWRI" \in buf[b].flags \/ ~fs_synced,
         \A k \in Blocks : k # r.blk => Holds(img', k) = Holds(img, k),
         \A c \in Bufs : c # b => buf[c].holder # p /\ buf[c].blk # r.blk,
         buf[b].holder \in {p, "nobody"}, r.holder \in {p, "io", "nobody"},
         o.at \in Holding <=> r.holder = p,
         buf[b].blk # r.blk => buf[b].holder = "nobody" /\ "DELWRI" \notin buf[b].flags,
         Sound(r, Holds(img', r.blk), IF r.holder = p THEN o.at ELSE "none")
  PROVE  /\ Inv'
         /\ Contents' = [Contents EXCEPT ![r.blk] = Says(r, Holds(img', r.blk))]
<1>1. r.blk \in Blocks
  BY DEF Inv, Wanted
<1>2. Typed' /\ Wanted' /\ Devices' /\ Flushed'
  <2>1. op[p].at # "dead"
    BY DEF Asking, Holding, Waiting
  <2> QED
    BY <2>1, Moved
<1>3. buf'[b] = r /\ \A c \in Bufs : c # b => buf'[c] = buf[c]
  BY DEF Put
<1>4. op'[p] = o /\ \A q \in Procs : q # p => op'[q] = op[q]
  BY DEF Turns
<1>5. \A c \in Bufs : buf[c].blk \in Blocks \cup {NoBlk}
  BY DEF Inv, Typed, Buf
<1>6. Cached(buf, img, op)
  BY DEF Inv
<1>7. Cached(buf', img', op')
  <2>1. buf[b].holder \notin Procs \ {p} /\ r.holder \notin Procs \ {p}
    BY BlockAssumption
  <2>2. op'[p].at \in Holding <=> r.holder = p
    BY <1>4
  <2>3. r.holder = p => op'[p].blk = r.blk
    BY <1>4, <2>2 DEF Idle, Holding, Waiting
  <2>4. Sound(r, Holds(img', r.blk), IF r.holder = p THEN op'[p].at ELSE "none")
    BY <1>4
  <2> QED
    <3>1. \A c \in Bufs : c # b => buf[c].holder # p /\ (r.blk = NoBlk \/ buf[c].blk # r.blk)
      OBVIOUS
    <3>2. \A c \in Bufs : c # b => buf'[c] = buf[c]
      BY <1>3
    <3>3. \A q \in Procs : q # p => op'[q] = op[q]
      BY <1>4
    <3>4. buf'[b] = r
      BY <1>3
    <3> QED
      BY <1>5, <1>6, <2>1, <2>2, <2>3, <2>4, <3>1, <3>2, <3>3, <3>4, Replace, SMTT(60)
<1>8. Inv'
  BY <1>2, <1>7 DEF Inv
<1>9. buf[b].blk # r.blk /\ buf[b].blk \in Blocks =>
        Says(buf[b], Holds(img, buf[b].blk)) = Holds(img, buf[b].blk)
  <2>1. HAVE buf[b].blk # r.blk /\ buf[b].blk \in Blocks
  <2>2. buf[b].holder \notin Procs /\ buf[b].holder = "nobody"
    BY <2>1, BlockAssumption
  <2> QED
    BY <2>1, <2>2, Unheld DEF Says
<1>10. Unique(buf) /\ Unique(buf')
  BY <1>6, <1>7 DEF Cached
<1>11. ContentsOf(buf', img') = [ContentsOf(buf, img) EXCEPT ![r.blk] = Says(r, Holds(img', r.blk))]
  BY <1>1, <1>3, <1>9, <1>10, OneBlock DEF Inv, Typed
<1> QED
  BY <1>8, <1>11, ContentsAre

(* A buffer that no process holds before or after, while p goes on as it   *)
(* is.                                                                     *)
LEMMA OtherStep ==
  ASSUME Inv, NEW p \in Procs, NEW b \in Bufs, NEW r \in Buf,
         Put(buf, buf', b, r), op' = op,
         img' \in Image, disk_wrote' \in BOOLEAN, root_dev_vp' \in {root_dev_vp, "root"},
         reg' = reg, fs_synced' = fs_synced, ended' = ended,
         op[p].at # "dead",
         r.blk \in Blocks,
         r.blk[1] = "sd" => buf[b].blk[1] = "sd" \/ op[p].blk[1] = "sd",
         "DELWRI" \notin r.flags,
         \A k \in Blocks : k # r.blk => Holds(img', k) = Holds(img, k),
         \A c \in Bufs : c # b => buf[c].blk # r.blk,
         buf[b].holder \in {"io", "nobody"}, r.holder \in {"io", "nobody"},
         buf[b].blk # r.blk => "DELWRI" \notin buf[b].flags,
         Sound(r, Holds(img', r.blk), "none")
  PROVE  /\ Inv'
         /\ Contents' = [Contents EXCEPT ![r.blk] = Says(r, Holds(img', r.blk))]
<1>1. Turns(op, op', p, op[p]) /\ op[p] \in Op
  BY DEF Inv, Typed, Turns
<1>2. Typed' /\ Wanted' /\ Devices' /\ Flushed'
  <2>1. op[p].at = "dirty" => ~fs_synced
    BY DEF Inv, Flushed
  <2> QED
    BY <1>1, <2>1, Moved
<1>3. buf'[b] = r /\ \A c \in Bufs : c # b => buf'[c] = buf[c]
  BY DEF Put
<1>4. \A c \in Bufs : buf[c].blk \in Blocks \cup {NoBlk}
  BY DEF Inv, Typed, Buf
<1>5. Cached(buf, img, op)
  BY DEF Inv
<1>6. buf[b].holder \notin Procs /\ r.holder \notin Procs
  BY BlockAssumption
<1>7. Cached(buf', img', op')
  <2>1. Cached(buf', img', op)
    BY <1>3, <1>4, <1>5, <1>6, Swap
  <2> QED
    BY <2>1
<1>8. Inv'
  BY <1>2, <1>7 DEF Inv
<1>9. buf[b].blk # r.blk /\ buf[b].blk \in Blocks =>
        Says(buf[b], Holds(img, buf[b].blk)) = Holds(img, buf[b].blk)
  BY <1>6, Unheld DEF Says
<1>10. Unique(buf) /\ Unique(buf')
  BY <1>5, <1>7 DEF Cached
<1>11. ContentsOf(buf', img') = [ContentsOf(buf, img) EXCEPT ![r.blk] = Says(r, Holds(img', r.blk))]
  BY <1>3, <1>9, <1>10, OneBlock DEF Inv, Typed
<1> QED
  BY <1>8, <1>11, ContentsAre

(* A process that holds no buffer is no buffer's holder.                   *)
LEMMA NotHolding ==
  ASSUME Inv, NEW p \in Procs, op[p].at \notin Holding
  PROVE  \A c \in Bufs : buf[c].holder # p
BY DEF Inv, Cached

(* A process goes on with the block it works on, or is done with it.       *)
LEMMA GoesOn ==
  ASSUME Inv, NEW p \in Procs
  PROVE  /\ \A at \in Asking :
              Goes(p, at) => Turns(op, op', p, [at |-> at, blk |-> op[p].blk])
         /\ Rests(p) => Turns(op, op', p, Idle)
         /\ \A at \in Asking : [at |-> at, blk |-> op[p].blk] \in Op
         /\ Idle \in Op
<1>1. op \in [Procs -> Op] /\ op[p].blk \in Blocks \cup {NoBlk}
  BY DEF Inv, Typed, Op
<1>2. \A at \in Asking : [at |-> at, blk |-> op[p].blk] \in Op
  BY <1>1 DEF Op, Asking
<1>3. Idle \in Op
  BY DEF Idle, Op
<1>4. ASSUME NEW at \in Asking, Goes(p, at)
      PROVE  Turns(op, op', p, [at |-> at, blk |-> op[p].blk])
  <2>1. [op[p] EXCEPT !.at = at] = [at |-> at, blk |-> op[p].blk]
    BY <1>1 DEF Op
  <2>2. op' = [op EXCEPT ![p] = [at |-> at, blk |-> op[p].blk]]
    BY <1>1, <1>4, <2>1 DEF Goes
  <2> QED
    BY <1>1, <1>2, <2>2 DEF Turns
<1>5. Rests(p) => Turns(op, op', p, Idle)
  BY <1>1, <1>3 DEF Rests, Turns
<1> QED
  BY <1>2, <1>3, <1>4, <1>5

(* A step that leaves the disk alone.                                      *)
LEMMA DiskKept ==
  ASSUME Inv, UNCHANGED disk
  PROVE  /\ img' \in Image /\ disk_wrote' \in BOOLEAN /\ root_dev_vp' \in {root_dev_vp, "root"}
         /\ img' = img /\ \A k \in Blocks : Holds(img', k) = Holds(img, k)
BY DEF Inv, Typed, disk

(* A step of a process and its buffer that leaves the disk alone.          *)
LEMMA OwnStill ==
  ASSUME Inv, NEW p \in Procs, NEW b \in Bufs, NEW r \in Buf, NEW o \in Op,
         Put(buf, buf', b, r), Turns(op, op', p, o),
         UNCHANGED disk, reg' = reg, fs_synced' = fs_synced, ended' = ended,
         r.blk = op[p].blk, op[p].at \in Asking,
         o = Idle \/ (o.at \in Asking /\ o.blk = op[p].blk),
         o.at = "dirty" => ~fs_synced,
         "DELWRI" \in r.flags => "DELWRI" \in buf[b].flags \/ ~fs_synced,
         \A c \in Bufs : c # b => buf[c].holder # p /\ buf[c].blk # r.blk,
         buf[b].holder \in {p, "nobody"}, r.holder \in {p, "io", "nobody"},
         o.at \in Holding <=> r.holder = p,
         buf[b].blk # r.blk => buf[b].holder = "nobody" /\ "DELWRI" \notin buf[b].flags,
         Sound(r, Holds(img, r.blk), IF r.holder = p THEN o.at ELSE "none")
  PROVE  /\ Inv'
         /\ Contents' = [Contents EXCEPT ![r.blk] = Says(r, Holds(img, r.blk))]
<1>1. /\ img' \in Image /\ disk_wrote' \in BOOLEAN /\ root_dev_vp' \in {root_dev_vp, "root"}
      /\ img' = img
  BY DiskKept
<1>2. r.blk \in Blocks
  BY DEF Inv, Wanted
<1>3. \A k \in Blocks : Holds(img', k) = Holds(img, k)
  BY DiskKept
<1>4. Sound(r, Holds(img', r.blk), IF r.holder = p THEN o.at ELSE "none")
  BY <1>2, <1>3
<1>5. Inv' /\ Contents' = [Contents EXCEPT ![r.blk] = Says(r, Holds(img', r.blk))]
  BY <1>1, <1>3, <1>4, OwnStep
<1> QED
  BY <1>2, <1>3, <1>5

(* Data that are there, and data that are not.                             *)
LEMMA SoundDone ==
  ASSUME NEW r, NEW v, NEW at, r.blk \in Blocks, r.holder # "io",
         "DONE" \in r.flags, "ASYNC" \notin r.flags,
         "DELWRI" \notin r.flags /\ at # "dirty" => r.data = v,
         r.blk[1] = "root" => "DELWRI" \notin r.flags /\ at # "dirty"
  PROVE  Sound(r, v, at)
BY BlockNames DEF Sound

LEMMA TakeStep ==
  ASSUME Inv, NEW p \in Procs, Take(p)
  PROVE  Inv' /\ Contents' = Contents
<1>1. PICK b \in Incore(op[p].blk) \cap Spare : buf' = [buf EXCEPT ![b].holder = p]
  BY DEF Take
<1> DEFINE r == [buf[b] EXCEPT !.holder = p]
           o == [at |-> "bread", blk |-> op[p].blk]
<1>2. /\ op[p].at = "getblk" /\ op[p].blk \in Blocks
      /\ b \in Bufs /\ buf[b].blk = op[p].blk /\ buf[b].holder = "nobody"
  BY <1>1 DEF Take, Incore, Spare, Inv, Wanted, Asking
<1>3. buf[b] \in Buf /\ buf[b].holder \notin Procs
  BY <1>2, BlockAssumption DEF Inv, Typed
<1>4. /\ r \in Buf /\ r.blk = op[p].blk /\ r.holder = p
      /\ r.flags = buf[b].flags /\ r.data = buf[b].data
  BY <1>2, <1>3 DEF Buf, Holder
<1>5. Put(buf, buf', b, r)
  BY <1>1, <1>2, <1>4 DEF Put, Inv, Typed
<1>6. o \in Op /\ Turns(op, op', p, o)
  BY GoesOn DEF Take, Asking, Holding
<1>7. \A c \in Bufs : c # b => buf[c].holder # p /\ buf[c].blk # r.blk
  BY <1>2, <1>4, NotHolding, BlockNames DEF Holding, Waiting, Inv, Cached, Unique
<1>8. Sound(r, Holds(img, r.blk), o.at)
  <2>1. /\ "DONE" \in buf[b].flags /\ "ASYNC" \notin buf[b].flags
        /\ "DELWRI" \notin buf[b].flags => buf[b].data = Holds(img, buf[b].blk)
        /\ "DELWRI" \in buf[b].flags => buf[b].blk[1] = "sd"
    BY <1>2, <1>3, Unheld
  <2>2. p # "io"
    BY BlockAssumption
  <2> QED
    BY <1>2, <1>4, <2>1, <2>2, SoundDone
<1>9. Says(r, Holds(img, r.blk)) = Contents[r.blk]
  BY <1>2, <1>4, Has, ContentsAre DEF Says, Inv, Cached
<1>10. /\ o.at \in Holding /\ o.at \in Asking /\ op[p].at \in Asking
       /\ o.blk = op[p].blk /\ o.at # "dirty"
  BY <1>2 DEF Asking, Holding
<1> HIDE DEF r, o
<1>11. reg' = reg /\ fs_synced' = fs_synced /\ ended' = ended /\ UNCHANGED disk
  BY DEF Take
<1>12. Inv' /\ Contents' = [Contents EXCEPT ![r.blk] = Says(r, Holds(img, r.blk))]
  BY <1>2, <1>4, <1>5, <1>6, <1>7, <1>8, <1>10, <1>11, OwnStill
<1> QED
  BY <1>9, <1>12, NoBlock, ContentsAre

LEMMA ReuseStep ==
  ASSUME Inv, NEW p \in Procs, Reuse(p)
  PROVE  Inv' /\ Contents' = Contents
<1>1. PICK b \in Spare :
        /\ "DELWRI" \notin buf[b].flags
        /\ buf' = [buf EXCEPT ![b] = [@ EXCEPT !.blk = op[p].blk, !.flags = {}, !.holder = p]]
  BY DEF Reuse
<1> DEFINE r == [buf[b] EXCEPT !.blk = op[p].blk, !.flags = {}, !.holder = p]
           o == [at |-> "bread", blk |-> op[p].blk]
<1>2. /\ op[p].at = "getblk" /\ op[p].blk \in Blocks
      /\ b \in Bufs /\ buf[b].holder = "nobody"
      /\ \A c \in Bufs : buf[c].blk # op[p].blk
      /\ "DELWRI" \notin buf[b].flags
  BY <1>1 DEF Reuse, Incore, Spare, Inv, Wanted, Asking
<1>3. buf[b] \in Buf /\ p # "io"
  BY <1>2, BlockAssumption DEF Inv, Typed
<1>4. r \in Buf /\ r.blk = op[p].blk /\ r.holder = p /\ r.flags = {}
  BY <1>2, <1>3 DEF Buf, Holder
<1>5. Put(buf, buf', b, r)
  <2>1. buf' = [buf EXCEPT ![b] = r]
    BY <1>1
  <2> QED
    BY <1>2, <1>4, <2>1 DEF Put, Inv, Typed
<1>6. o \in Op /\ Turns(op, op', p, o)
  BY GoesOn DEF Reuse, Asking, Holding
<1>7. \A c \in Bufs : c # b => buf[c].holder # p /\ buf[c].blk # r.blk
  <2>1. op[p].at \notin Holding
    BY <1>2 DEF Holding, Waiting
  <2> HIDE DEF r
  <2> QED
    BY <1>2, <1>4, <2>1, NotHolding
<1>8. Sound(r, Holds(img, r.blk), o.at)
  BY <1>2, <1>4, BlockNames DEF Sound
<1>9. Says(r, Holds(img, r.blk)) = Contents[r.blk]
  BY <1>2, <1>4, HasNot, ContentsAre DEF Says
<1>10. /\ o.at \in Holding /\ o.at \in Asking /\ op[p].at \in Asking
       /\ o.blk = op[p].blk /\ o.at # "dirty"
  BY <1>2 DEF Asking, Holding
<1> HIDE DEF r, o
<1>11. reg' = reg /\ fs_synced' = fs_synced /\ ended' = ended /\ UNCHANGED disk
  BY DEF Reuse
<1>12. Inv' /\ Contents' = [Contents EXCEPT ![r.blk] = Says(r, Holds(img, r.blk))]
  BY <1>2, <1>4, <1>5, <1>6, <1>7, <1>8, <1>10, <1>11, OwnStill
<1> QED
  BY <1>9, <1>12, NoBlock, ContentsAre

LEMMA ReleaseStep ==
  ASSUME Inv, NEW p \in Procs, Release(p)
  PROVE  Inv' /\ Contents' = Contents
<1> DEFINE b == Mine(p)
           r == [buf[b] EXCEPT !.holder = "nobody"]
<1>1. op[p].at \in {"hold", "release"} /\ op[p].at \in Holding /\ op[p].at \in Asking
  BY DEF Release, Holding, Asking
<1>2. /\ b \in Bufs /\ buf[b].holder = p /\ op[p].blk \in Blocks /\ buf[b].blk = op[p].blk
      /\ \A c \in Bufs : c # b => buf[c].holder # p /\ buf[c].blk # op[p].blk
  BY <1>1, MineIs
<1>3. /\ buf[b] \in Buf /\ p # "nobody"
      /\ "DONE" \in buf[b].flags /\ "ASYNC" \notin buf[b].flags
      /\ "DELWRI" \notin buf[b].flags => buf[b].data = Holds(img, buf[b].blk)
      /\ buf[b].blk[1] = "root" => "DELWRI" \notin buf[b].flags
  BY <1>1, MineSound, BlockAssumption
<1>4. /\ r \in Buf /\ r.blk = op[p].blk /\ r.holder = "nobody"
      /\ r.flags = buf[b].flags /\ r.data = buf[b].data
  BY <1>2, <1>3 DEF Buf, Holder
<1>5. Put(buf, buf', b, r)
  <2>1. buf' = [buf EXCEPT ![b] = r]
    BY DEF Release
  <2> QED
    BY <1>2, <1>4, <2>1 DEF Put, Inv, Typed
<1>6. Idle \in Op /\ Turns(op, op', p, Idle) /\ Idle.at = "idle" /\ Idle.at \notin Holding
  BY GoesOn DEF Release, Idle, Holding, Waiting
<1>7. Sound(r, Holds(img, r.blk), "none")
  BY <1>2, <1>3, <1>4, SoundDone
<1>8. Says(r, Holds(img, r.blk)) = Contents[r.blk]
  BY <1>2, <1>4, Has, ContentsAre DEF Says, Inv, Cached
<1> HIDE DEF b, r
<1>9. reg' = reg /\ fs_synced' = fs_synced /\ ended' = ended /\ UNCHANGED disk
  BY DEF Release
<1>10. Inv' /\ Contents' = [Contents EXCEPT ![r.blk] = Says(r, Holds(img, r.blk))]
  BY <1>1, <1>2, <1>3, <1>4, <1>5, <1>6, <1>7, <1>9, OwnStill
<1> QED
  BY <1>8, <1>10, NoBlock, ContentsAre

LEMMA DelayedWriteStep ==
  ASSUME Inv, NEW p \in Procs, DelayedWrite(p)
  PROVE  Inv' /\ Contents' = Contents
<1> DEFINE b == Mine(p)
           f == buf[b].flags \cup {"DELWRI", "DONE"}
           r == [buf[b] EXCEPT !.flags = f, !.holder = "nobody"]
<1>1. op[p].at = "dirty" /\ op[p].at \in Holding /\ op[p].at \in Asking
  BY DEF DelayedWrite, Holding, Asking
<1>2. /\ b \in Bufs /\ buf[b].holder = p /\ op[p].blk \in Blocks /\ buf[b].blk = op[p].blk
      /\ \A c \in Bufs : c # b => buf[c].holder # p /\ buf[c].blk # op[p].blk
  BY <1>1, MineIs
<1>3. /\ buf[b] \in Buf /\ p # "nobody"
      /\ "DONE" \in buf[b].flags /\ "ASYNC" \notin buf[b].flags
      /\ buf[b].blk[1] # "root"
  BY <1>1, MineSound, BlockAssumption
<1>4. /\ r \in Buf /\ r.blk = op[p].blk /\ r.holder = "nobody"
      /\ r.flags = f /\ r.data = buf[b].data
  <2>1. f \in SUBSET Flag
    BY <1>3 DEF Buf, Flag
  <2> HIDE DEF b, f
  <2> QED
    BY <1>2, <1>3, <2>1 DEF Buf, Holder
<1>5. Put(buf, buf', b, r)
  <2>1. buf \in [Bufs -> Buf]
    BY DEF Inv, Typed
  <2>2. buf' = [buf EXCEPT ![b] = r]
    BY <1>2, <2>1 DEF DelayedWrite
  <2> QED
    BY <1>2, <1>4, <2>1, <2>2 DEF Put
<1>6. Idle \in Op /\ Turns(op, op', p, Idle) /\ Idle.at = "idle" /\ Idle.at \notin Holding
  BY GoesOn DEF DelayedWrite, Idle, Holding, Waiting
<1>7. Sound(r, Holds(img, r.blk), "none")
  BY <1>2, <1>3, <1>4, SoundDone
<1>8. Says(r, Holds(img, r.blk)) = Contents[r.blk]
  BY <1>2, <1>3, <1>4, Has, ContentsAre DEF Says, Inv, Cached
<1>9. ~fs_synced
  BY <1>1 DEF Inv, Flushed
<1> HIDE DEF b, r
<1>10. reg' = reg /\ fs_synced' = fs_synced /\ ended' = ended /\ UNCHANGED disk
  BY DEF DelayedWrite
<1>11. Inv' /\ Contents' = [Contents EXCEPT ![r.blk] = Says(r, Holds(img, r.blk))]
  BY <1>1, <1>2, <1>3, <1>4, <1>5, <1>6, <1>7, <1>9, <1>10, OwnStill
<1> QED
  BY <1>8, <1>11, NoBlock, ContentsAre

LEMMA ModifyStep ==
  ASSUME Inv, NEW p \in Procs, Modify(p), "root_kept" \in Assumed, "sync_last" \in Assumed
  PROVE  Inv' /\ \E x \in Val : Contents' = [Contents EXCEPT ![op[p].blk] = x]
<1> DEFINE b == Mine(p)
<1>1. PICK x \in Val : buf' = [buf EXCEPT ![b].data = x]
  BY DEF Modify
<1> DEFINE r == [buf[b] EXCEPT !.data = x]
           o == [at |-> "dirty", blk |-> op[p].blk]
<1>2. op[p].at \in {"hold", "dirty"} /\ op[p].at \in Holding /\ op[p].at \in Asking
  BY DEF Modify, Holding, Asking
<1>3. /\ b \in Bufs /\ buf[b].holder = p /\ op[p].blk \in Blocks /\ buf[b].blk = op[p].blk
      /\ \A c \in Bufs : c # b => buf[c].holder # p /\ buf[c].blk # op[p].blk
  BY <1>2, MineIs
<1>4. /\ buf[b] \in Buf /\ p # "io"
      /\ "DONE" \in buf[b].flags /\ "ASYNC" \notin buf[b].flags
  BY <1>2, MineSound, BlockAssumption
<1>5. buf[b].blk[1] # "root" /\ ~fs_synced
  BY <1>3 DEF Modify
<1>6. /\ r \in Buf /\ r.blk = op[p].blk /\ r.holder = p
      /\ r.flags = buf[b].flags /\ r.data = x
  BY <1>3, <1>4 DEF Buf, Holder
<1>7. Put(buf, buf', b, r)
  BY <1>1, <1>3, <1>6 DEF Put, Inv, Typed
<1>8. o \in Op /\ Turns(op, op', p, o)
  BY GoesOn DEF Modify, Asking, Holding
<1>9. Sound(r, Holds(img, r.blk), o.at)
  BY <1>3, <1>4, <1>5, <1>6, SoundDone
<1>10. Says(r, Holds(img, r.blk)) = x
  BY <1>4, <1>6 DEF Says
<1>11. o.at \in Holding /\ o.at \in Asking /\ o.blk = op[p].blk
  BY DEF Asking, Holding
<1> HIDE DEF b, r, o
<1>12. reg' = reg /\ fs_synced' = fs_synced /\ ended' = ended /\ UNCHANGED disk
  BY DEF Modify
<1>13. Inv' /\ Contents' = [Contents EXCEPT ![r.blk] = Says(r, Holds(img, r.blk))]
  BY <1>2, <1>3, <1>5, <1>6, <1>7, <1>8, <1>9, <1>11, <1>12, OwnStill
<1> QED
  BY <1>6, <1>10, <1>13

(* A read takes the block from its device's image, and changes none.       *)
LEMMA ReadsIn ==
  ASSUME Inv, NEW r, r.blk \in Blocks, "READ" \in r.flags,
         root_dev_vp = NoDev => r.blk[1] = "root",
         Transfer(r)
  PROVE  /\ img' = img /\ disk_wrote' = disk_wrote /\ root_dev_vp' = "root"
         /\ Transferred(r) = [r EXCEPT !.data = Holds(img, r.blk)]
<1>1. root_dev_vp \in {NoDev, "root"} /\ r.blk[1] \in {"root", "sd"} /\ NoDev # "root"
  BY BlockNames DEF Inv, Devices, NoDev
<1>2. FileOf(r) = IF r.blk[1] = "root" THEN "root_img" ELSE "disk_img"
  BY <1>1 DEF FileOf, Dev, NoDev
<1>3. ~Writes(r)
  BY DEF Writes
<1>4. disk_wrote' = disk_wrote
  <2>1. disk_wrote' = (disk_wrote \/ Writes(r)) /\ disk_wrote \in BOOLEAN
    BY DEF Transfer, Inv, Typed
  <2> QED
    BY <1>3, <2>1, Zenon
<1>5. img' = img /\ root_dev_vp' = "root"
  BY <1>1, <1>3 DEF Transfer, Dev
<1>6. Transferred(r) = [r EXCEPT !.data = Holds(img, r.blk)]
  BY <1>2 DEF Transferred, Holds
<1> QED
  BY <1>4, <1>5, <1>6

LEMMA BreadStep ==
  ASSUME Inv, NEW p \in Procs, Bread(p), "sd" \in Door
  PROVE  Inv' /\ Contents' = Contents
<1> DEFINE b == Mine(p)
<1>1. op[p].at = "bread" /\ op[p].at \in Holding /\ op[p].at \in Asking
  BY DEF Bread, Holding, Asking
<1>2. /\ b \in Bufs /\ buf[b].holder = p /\ op[p].blk \in Blocks /\ buf[b].blk = op[p].blk
      /\ \A c \in Bufs : c # b => buf[c].holder # p /\ buf[c].blk # op[p].blk
  BY <1>1, MineIs
<1>3. /\ buf[b] \in Buf /\ p # "io"
      /\ "DONE" \notin buf[b].flags => buf[b].flags = {}
      /\ "DONE" \in buf[b].flags => "ASYNC" \notin buf[b].flags
      /\ "DONE" \in buf[b].flags /\ "DELWRI" \notin buf[b].flags =>
           buf[b].data = Holds(img, buf[b].blk)
      /\ buf[b].blk[1] = "root" => "DELWRI" \notin buf[b].flags
  BY <1>1, MineSound, BlockAssumption
<1>4. reg' = reg /\ fs_synced' = fs_synced /\ ended' = ended
  BY DEF Bread
<1>5. root_dev_vp = NoDev => op[p].blk[1] = "root"
  BY <1>2, Known
<1>6. CASE "DONE" \in buf[b].flags
  <2> DEFINE o == [at |-> "hold", blk |-> op[p].blk]
  <2>1. UNCHANGED disk /\ buf' = buf /\ Goes(p, "hold")
    BY <1>6 DEF Bread
  <2>2. Put(buf, buf', b, buf[b])
    BY <1>3, <2>1 DEF Put, Inv, Typed
  <2>3. o \in Op /\ Turns(op, op', p, o)
    BY <2>1, GoesOn DEF Asking, Holding
  <2>4. Sound(buf[b], Holds(img, buf[b].blk), o.at)
    BY <1>2, <1>3, <1>6, SoundDone
  <2>5. o.at \in Holding /\ o.at \in Asking /\ o.blk = op[p].blk /\ o.at # "dirty"
    BY DEF Asking, Holding
  <2>6. Says(buf[b], Holds(img, buf[b].blk)) = Contents[buf[b].blk]
    BY <1>2, Has, ContentsAre DEF Inv, Cached
  <2> HIDE DEF b, o
  <2>7. Inv' /\ Contents' = [Contents EXCEPT ![buf[b].blk] = Says(buf[b], Holds(img, buf[b].blk))]
    BY <1>1, <1>2, <1>3, <1>4, <2>1, <2>2, <2>3, <2>4, <2>5, OwnStill
  <2> QED
    BY <2>6, <2>7, NoBlock, ContentsAre
<1>7. CASE "DONE" \notin buf[b].flags
  <2> DEFINE o == [at |-> "biowait", blk |-> op[p].blk]
             r0 == [buf[b] EXCEPT !.flags = {"READ"}]
             v == Holds(img, op[p].blk)
  <2>1. Strategy(b, r0) /\ Goes(p, "biowait")
    BY <1>7 DEF Bread
  <2>2. o \in Op /\ Turns(op, op', p, o)
    BY <2>1, GoesOn DEF Asking, Holding, Waiting
  <2>3. o.at \in Holding /\ o.at \in Asking /\ o.blk = op[p].blk /\ o.at = "biowait"
    BY DEF Asking, Holding, Waiting
  <2>4. /\ r0 \in Buf /\ r0.blk = op[p].blk /\ r0.holder = p /\ r0.flags = {"READ"}
    BY <1>2, <1>3 DEF Buf, Flag
  <2>5. v \in Val /\ Contents[op[p].blk] = v
    BY <1>2, <1>7, HoldsValue, Has, ContentsAre DEF Inv, Typed, Cached, Says
  <2>6. CASE op[p].blk[1] \in Door
    <3> DEFINE r1 == [r0 EXCEPT !.data = v]
               f == r1.flags \cup {"DONE"}
               r == [r1 EXCEPT !.flags = f]
    <3>1. Complete(b, r0)
      BY <2>1, <2>4, <2>6 DEF Strategy, Dev
    <3> HIDE DEF b, o, v
    <3>2. /\ img' = img /\ disk_wrote' = disk_wrote /\ root_dev_vp' = "root"
          /\ Transferred(r0) = r1
      BY <1>2, <1>5, <2>4, <3>1, ReadsIn DEF Complete, v
    <3>3. r1 \in Buf /\ r1.blk = op[p].blk /\ r1.holder = p /\ r1.flags = {"READ"} /\ r1.data = v
      BY <2>4, <2>5 DEF Buf
    <3>4. buf' = [buf EXCEPT ![b] = r]
      <4>1. biodone(r1) = r
        BY <3>3 DEF biodone
      <4> HIDE DEF r0, r1, r
      <4> QED
        BY <3>1, <3>2, <4>1 DEF Complete
    <3>5. f \in SUBSET Flag /\ f = {"READ", "DONE"}
      BY <3>3 DEF Flag
    <3> HIDE DEF r1, f
    <3>6. r \in Buf /\ r.blk = op[p].blk /\ r.holder = p /\ r.flags = f /\ r.data = v
      BY <3>3, <3>5 DEF Buf
    <3>7. Put(buf, buf', b, r)
      BY <1>2, <3>4, <3>6 DEF Put, Inv, Typed
    <3> HIDE DEF r
    <3>8. Sound(r, v, o.at)
      BY <1>2, <1>3, <2>3, <3>5, <3>6, SoundDone
    <3>9. Says(r, v) = v
      BY <3>5, <3>6 DEF Says
    <3>10. img' \in Image /\ disk_wrote' \in BOOLEAN /\ root_dev_vp' \in {root_dev_vp, "root"}
      BY <3>2 DEF Inv, Typed
    <3>11. Inv' /\ Contents' = [Contents EXCEPT ![r.blk] = Says(r, Holds(img', r.blk))]
      BY <1>1, <1>2, <1>4, <2>2, <2>3, <3>2, <3>5, <3>6, <3>7, <3>8, <3>10, OwnStep DEF v
    <3> QED
      BY <2>5, <3>2, <3>6, <3>9, <3>11, NoBlock, ContentsAre DEF v
  <2>7. CASE op[p].blk[1] \notin Door
    <3>1. buf' = [buf EXCEPT ![b] = r0] /\ UNCHANGED disk
      BY <2>1, <2>4, <2>7 DEF Strategy, Dev, disk
    <3>2. op[p].blk[1] = "root"
      BY <1>2, <2>7, BlockNames
    <3>3. Put(buf, buf', b, r0)
      BY <1>2, <2>4, <3>1 DEF Put, Inv, Typed
    <3>4. Sound(r0, v, o.at)
      BY <1>2, <2>3, <2>4, <3>2, BlockNames DEF Sound
    <3>5. Says(r0, Holds(img, r0.blk)) = Contents[r0.blk]
      BY <2>4, <2>5 DEF Says
    <3>6. UNCHANGED disk
      BY <3>1
    <3> HIDE DEF b, o, r0
    <3>7. Inv' /\ Contents' = [Contents EXCEPT ![r0.blk] = Says(r0, Holds(img, r0.blk))]
      BY <1>1, <1>2, <1>4, <2>2, <2>3, <2>4, <3>3, <3>4, <3>6, OwnStill
    <3> QED
      BY <3>5, <3>7, NoBlock, ContentsAre
  <2> QED
    BY <2>6, <2>7
<1> QED
  BY <1>6, <1>7

LEMMA BiowaitStep ==
  ASSUME Inv, NEW p \in Procs, Biowait(p)
  PROVE  Inv' /\ Contents' = Contents
<1> DEFINE b == Mine(p)
           at == IF op[p].at = "bwrite" THEN "release" ELSE "hold"
           o == [at |-> at, blk |-> op[p].blk]
<1>1. op[p].at \in {"biowait", "bwrite"} /\ op[p].at \in Holding /\ op[p].at \in Asking
  BY DEF Biowait, Waiting, Holding, Asking
<1>2. /\ b \in Bufs /\ buf[b].holder = p /\ op[p].blk \in Blocks /\ buf[b].blk = op[p].blk
      /\ \A c \in Bufs : c # b => buf[c].holder # p /\ buf[c].blk # op[p].blk
  BY <1>1, MineIs
<1>3. /\ buf[b] \in Buf /\ p # "io"
      /\ "DONE" \notin buf[b].flags => op[p].at = "biowait" /\ buf[b].flags = {"READ"}
      /\ "DONE" \in buf[b].flags => "ASYNC" \notin buf[b].flags
      /\ "DONE" \in buf[b].flags /\ "DELWRI" \notin buf[b].flags =>
           buf[b].data = Holds(img, buf[b].blk)
      /\ buf[b].blk[1] = "root" => "DELWRI" \notin buf[b].flags
  BY <1>1, MineSound, BlockAssumption
<1>4. reg' = reg /\ fs_synced' = fs_synced /\ ended' = ended
  BY DEF Biowait
<1>5. at \in Asking /\ at \in Holding /\ at # "dirty"
  BY DEF Asking, Holding
<1>6. o \in Op /\ Turns(op, op', p, o)
  <2>1. Goes(p, at)
    BY DEF Biowait
  <2> HIDE DEF at
  <2> QED
    BY <1>5, <2>1, GoesOn
<1>7. o.at \in Holding /\ o.at \in Asking /\ o.blk = op[p].blk /\ o.at # "dirty"
  BY <1>5
<1> HIDE DEF o
<1>8. CASE "DONE" \in buf[b].flags
  <2>1. UNCHANGED disk /\ buf' = buf
    BY <1>8 DEF Biowait
  <2>2. Put(buf, buf', b, buf[b])
    BY <1>3, <2>1 DEF Put, Inv, Typed
  <2>3. Sound(buf[b], Holds(img, buf[b].blk), o.at)
    BY <1>2, <1>3, <1>7, <1>8, SoundDone
  <2>4. Says(buf[b], Holds(img, buf[b].blk)) = Contents[buf[b].blk]
    BY <1>2, Has, ContentsAre DEF Inv, Cached
  <2>5. UNCHANGED disk
    BY <2>1
  <2> HIDE DEF b
  <2>6. Inv' /\ Contents' = [Contents EXCEPT ![buf[b].blk] = Says(buf[b], Holds(img, buf[b].blk))]
    BY <1>1, <1>2, <1>3, <1>4, <1>6, <1>7, <2>2, <2>3, <2>5, OwnStill
  <2> QED
    BY <2>4, <2>6, NoBlock, ContentsAre
<1>9. CASE "DONE" \notin buf[b].flags
  <2> DEFINE v == Holds(img, op[p].blk)
             r1 == [buf[b] EXCEPT !.data = v]
             f == r1.flags \cup {"DONE"}
             r == [r1 EXCEPT !.flags = f]
  <2>1. root_dev_vp = NoDev => op[p].blk[1] = "root"
    BY <1>2, Known
  <2>2. v \in Val /\ Contents[op[p].blk] = v
    BY <1>2, <1>9, HoldsValue, Has, ContentsAre DEF Inv, Typed, Cached, Says
  <2>3. CompleteWait(b)
    BY <1>9 DEF Biowait
  <2> HIDE DEF b, v
  <2>4. /\ img' = img /\ disk_wrote' = disk_wrote /\ root_dev_vp' = "root"
        /\ Transferred(buf[b]) = r1
    BY <1>2, <1>3, <1>9, <2>1, <2>3, ReadsIn DEF CompleteWait, v
  <2>5. r1 \in Buf /\ r1.blk = op[p].blk /\ r1.holder = p /\ r1.flags = {"READ"} /\ r1.data = v
    BY <1>2, <1>3, <1>9, <2>2 DEF Buf
  <2>6. buf' = [buf EXCEPT ![b] = r]
    <3> HIDE DEF r1
    <3> QED
      BY <2>3, <2>4 DEF CompleteWait
  <2>7. f \in SUBSET Flag /\ f = {"READ", "DONE"}
    BY <2>5 DEF Flag
  <2> HIDE DEF r1, f
  <2>8. r \in Buf /\ r.blk = op[p].blk /\ r.holder = p /\ r.flags = f /\ r.data = v
    BY <2>5, <2>7 DEF Buf
  <2>9. Put(buf, buf', b, r)
    BY <1>2, <2>6, <2>8 DEF Put, Inv, Typed
  <2> HIDE DEF r
  <2>10. Sound(r, v, o.at)
    BY <1>2, <1>3, <1>7, <2>7, <2>8, SoundDone
  <2>11. Says(r, v) = v
    BY <2>7, <2>8 DEF Says
  <2>12. img' \in Image /\ disk_wrote' \in BOOLEAN /\ root_dev_vp' \in {root_dev_vp, "root"}
    BY <2>4 DEF Inv, Typed
  <2>13. Inv' /\ Contents' = [Contents EXCEPT ![r.blk] = Says(r, Holds(img', r.blk))]
    BY <1>1, <1>2, <1>4, <1>6, <1>7, <2>4, <2>7, <2>8, <2>9, <2>10, <2>12, OwnStep DEF v
  <2> QED
    BY <2>2, <2>4, <2>8, <2>11, <2>13, NoBlock, ContentsAre DEF v
<1> QED
  BY <1>8, <1>9

(* A write puts the block into its image.                                  *)
LEMMA WritesOut ==
  ASSUME Inv, NEW r, r.blk \in Blocks, r.blk[1] = "sd", "READ" \notin r.flags, r.data \in Val,
         root_dev_vp # NoDev,
         Transfer(r)
  PROVE  /\ img' \in Image /\ disk_wrote' \in BOOLEAN /\ root_dev_vp' = "root"
         /\ Holds(img', r.blk) = r.data
         /\ \A k \in Blocks : k # r.blk => Holds(img', k) = Holds(img, k)
         /\ Transferred(r) = r
<1>1. root_dev_vp = "root" /\ r.blk[2] \in SdBlocks /\ NoDev # "root"
  BY BlockNames DEF Inv, Devices, NoDev
<1>2. Writes(r)
  BY <1>1 DEF Writes, FileOf, Dev
<1>3. img' = [img EXCEPT !["disk_img"][r.blk[2]] = r.data]
  BY <1>2 DEF Transfer
<1>4. img \in Image
  BY DEF Inv, Typed
<1>5. /\ img' \in Image
      /\ img'["disk_img"][r.blk[2]] = r.data
      /\ img'["root_img"] = img["root_img"]
      /\ \A j \in SdBlocks : j # r.blk[2] => img'["disk_img"][j] = img["disk_img"][j]
  BY <1>1, <1>3, <1>4 DEF Image, Files
<1>6. \A k \in Blocks : k # r.blk => k[1] = "root" \/ (k[1] = "sd" /\ k[2] \in SdBlocks /\ k[2] # r.blk[2])
  BY BlockNames
<1>7. \A k \in Blocks : k # r.blk => Holds(img', k) = Holds(img, k)
  BY <1>5, <1>6 DEF Holds
<1>8. disk_wrote' \in BOOLEAN
  BY DEF Transfer
<1>9. Holds(img', r.blk) = r.data
  BY <1>5 DEF Holds
<1>10. root_dev_vp' = "root"
  BY <1>1 DEF Transfer
<1> QED
  BY <1>5, <1>7, <1>8, <1>9, <1>10 DEF Transferred

(* A write at the front door is complete when the driver returns.          *)
LEMMA SentOut ==
  ASSUME Inv, "sd" \in Door, NEW b \in Bufs, buf[b].blk \in Blocks, buf[b].blk[1] = "sd",
         NEW async \in {{}, {"ASYNC"}}, NEW h \in Holder,
         Strategy(b, Outgoing(buf[b], async, h))
  PROVE  /\ \E r \in Buf : /\ Put(buf, buf', b, r)
                           /\ r.blk = buf[b].blk /\ r.data = buf[b].data
                           /\ r.flags = {"DONE"}
                           /\ r.holder = IF async = {} THEN h ELSE "nobody"
         /\ img' \in Image /\ disk_wrote' \in BOOLEAN /\ root_dev_vp' = "root"
         /\ Holds(img', buf[b].blk) = buf[b].data
         /\ \A k \in Blocks : k # buf[b].blk => Holds(img', k) = Holds(img, k)
<1> DEFINE r0 == Outgoing(buf[b], async, h)
           f == (async \cup {"DONE"}) \ {"ASYNC"}
           h2 == IF async = {} THEN h ELSE "nobody"
           r == [r0 EXCEPT !.flags = f, !.holder = h2]
<1>1. buf[b] \in Buf
  BY DEF Inv, Typed
<1>2. async \in SUBSET Flag
  BY DEF Flag
<1>3. r0 \in Buf /\ r0.blk = buf[b].blk /\ r0.data = buf[b].data /\ r0.flags = async /\ r0.holder = h
  BY <1>1, <1>2 DEF Buf, Outgoing
<1>4. root_dev_vp # NoDev
  BY Known
<1>5. Complete(b, r0)
  BY <1>3 DEF Strategy, Dev
<1>6. /\ img' \in Image /\ disk_wrote' \in BOOLEAN /\ root_dev_vp' = "root"
      /\ Holds(img', r0.blk) = r0.data
      /\ \A k \in Blocks : k # r0.blk => Holds(img', k) = Holds(img, k)
      /\ Transferred(r0) = r0
  <2>1. r0.data \in Val /\ "READ" \notin r0.flags
    BY <1>3 DEF Buf
  <2> QED
    BY <1>3, <1>4, <1>5, <2>1, WritesOut DEF Complete
<1>7. f = {"DONE"} /\ f \in SUBSET Flag /\ h2 \in Holder
  BY DEF Flag, Holder
<1> HIDE DEF r0
<1>8. r \in Buf /\ r.blk = buf[b].blk /\ r.data = buf[b].data /\ r.flags = f /\ r.holder = h2
  <2> HIDE DEF f, h2
  <2> QED
    BY <1>3, <1>7 DEF Buf
<1>9. biodone(r0) = r
  <2>1. CASE async = {"ASYNC"}
    BY <1>3, <2>1 DEF biodone
  <2>2. CASE async = {}
    <3>1. biodone(r0) = [r0 EXCEPT !.flags = {"DONE"}]
      BY <1>3, <2>2 DEF biodone
    <3>2. r = [r0 EXCEPT !.flags = {"DONE"}, !.holder = r0.holder]
      BY <1>3, <1>7, <2>2
    <3> QED
      BY <1>3, <3>1, <3>2 DEF Buf
  <2> QED
    BY <2>1, <2>2
<1> HIDE DEF r, f, h2
<1>10. buf' = [buf EXCEPT ![b] = r]
  BY <1>5, <1>6, <1>9 DEF Complete
<1>11. Put(buf, buf', b, r)
  BY <1>8, <1>10 DEF Put, Inv, Typed
<1> QED
  BY <1>3, <1>6, <1>7, <1>8, <1>11 DEF h2

LEMMA BwriteStep ==
  ASSUME Inv, NEW p \in Procs, Bwrite(p), "sd" \in Door
  PROVE  Inv' /\ Contents' = Contents
<1>1. op[p].at = "dirty" /\ op[p].at \in Holding /\ op[p].at \in Asking
  BY DEF Bwrite, Holding, Asking
<1>2. PICK b \in Bufs :
        /\ b = Mine(p)
        /\ buf[b].holder = p /\ op[p].blk \in Blocks /\ buf[b].blk = op[p].blk
        /\ \A c \in Bufs : c # b => buf[c].holder # p /\ buf[c].blk # op[p].blk
  BY <1>1, MineIs
<1>3. "DONE" \in buf[b].flags /\ buf[b].blk[1] = "sd" /\ p # "io" /\ p # "nobody" /\ p \in Holder
  BY <1>1, <1>2, MineSound, BlockNames, BlockAssumption DEF Holder
<1>4. reg' = reg /\ fs_synced' = fs_synced /\ ended' = ended
  BY DEF Bwrite
<1>5. Contents[op[p].blk] = buf[b].data
  BY <1>2, <1>3, Has, ContentsAre DEF Says, Inv, Cached
<1>6. PICK async \in {{}, {"ASYNC"}}, h \in Holder :
        /\ Strategy(b, Outgoing(buf[b], async, h))
        /\ h = IF async = {} THEN p ELSE "io"
        /\ IF async = {} THEN Goes(p, "bwrite") ELSE Rests(p)
  <2>1. CASE Goes(p, "bwrite") /\ Strategy(Mine(p), Outgoing(buf[Mine(p)], {}, p))
    BY <1>2, <1>3, <2>1
  <2>2. CASE Rests(p) /\ Strategy(Mine(p), Outgoing(buf[Mine(p)], {"ASYNC"}, "io"))
    <3>1. "io" \in Holder /\ {"ASYNC"} # {}
      BY DEF Holder
    <3> QED
      BY <1>2, <2>2, <3>1
  <2> QED
    BY <2>1, <2>2 DEF Bwrite
<1> DEFINE h2 == IF async = {} THEN h ELSE "nobody"
           o == IF async = {} THEN [at |-> "bwrite", blk |-> op[p].blk] ELSE Idle
<1> HIDE DEF h2
<1>8. /\ \E r \in Buf : /\ Put(buf, buf', b, r)
                        /\ r.blk = buf[b].blk /\ r.data = buf[b].data
                        /\ r.flags = {"DONE"}
                        /\ r.holder = IF async = {} THEN h ELSE "nobody"
      /\ img' \in Image /\ disk_wrote' \in BOOLEAN /\ root_dev_vp' = "root"
      /\ Holds(img', buf[b].blk) = buf[b].data
      /\ \A k \in Blocks : k # buf[b].blk => Holds(img', k) = Holds(img, k)
  <2>1. Strategy(b, Outgoing(buf[b], async, h))
    BY <1>6
  <2>2. b \in Bufs /\ buf[b].blk \in Blocks /\ buf[b].blk[1] = "sd"
    BY <1>2, <1>3
  <2>3. CASE async = {}
    BY <2>1, <2>2, <2>3, SentOut
  <2>4. CASE async = {"ASYNC"}
    BY <2>1, <2>2, <2>4, SentOut
  <2> QED
    BY <2>3, <2>4
<1>9. PICK r \in Buf : /\ Put(buf, buf', b, r)
                       /\ r.blk = buf[b].blk /\ r.data = buf[b].data
                       /\ r.flags = {"DONE"}
                       /\ r.holder = h2
  BY <1>8 DEF h2
<1>10. o \in Op /\ Turns(op, op', p, o)
  <2>1. CASE async = {}
    BY <1>6, <2>1, GoesOn DEF Asking, Holding, Waiting
  <2>2. CASE async # {}
    BY <1>6, <2>2, GoesOn
  <2> QED
    BY <2>1, <2>2
<1>11. /\ o.at # "dirty" /\ h2 \in {p, "io", "nobody"}
       /\ o.at \in Holding <=> h2 = p
       /\ o = Idle \/ (o.at \in Asking /\ o.blk = op[p].blk)
  BY <1>3, <1>6 DEF Idle, Asking, Holding, Waiting, h2
<1>12. Sound(r, Holds(img', r.blk), IF r.holder = p THEN o.at ELSE "none")
  <2> DEFINE at == IF r.holder = p THEN o.at ELSE "none"
  <2>1. at # "dirty"
    BY <1>11
  <2> HIDE DEF at, o
  <2>2. r.blk \in Blocks /\ r.holder # "io" /\ r.data = Holds(img', r.blk)
    BY <1>2, <1>3, <1>6, <1>8, <1>9 DEF h2
  <2>3. Sound(r, Holds(img', r.blk), at)
    BY <1>9, <2>1, <2>2, SoundDone
  <2> QED
    BY <2>3 DEF at
<1>13. Says(r, Holds(img', r.blk)) = Contents[r.blk]
  BY <1>2, <1>5, <1>9 DEF Says
<1> HIDE DEF o, h2
<1>14. Inv' /\ Contents' = [Contents EXCEPT ![r.blk] = Says(r, Holds(img', r.blk))]
  BY <1>1, <1>2, <1>4, <1>8, <1>9, <1>10, <1>11, <1>12, OwnStep
<1> QED
  BY <1>13, <1>14, NoBlock, ContentsAre

LEMMA WriteOutStep ==
  ASSUME Inv, NEW p \in Procs, NEW b \in Bufs, WriteOut(b), "sd" \in Door,
         op[p].at # "dead", UNCHANGED <<fs_synced, op, reg, ended>>
  PROVE  Inv' /\ Contents' = Contents
<1>1. b \in Spare /\ "DELWRI" \in buf[b].flags /\ buf[b].holder = "nobody"
  BY DEF WriteOut, Spare
<1>2. buf[b].blk \in Blocks /\ buf[b].blk[1] = "sd" /\ "DONE" \in buf[b].flags
  BY <1>1, Unheld, BlockAssumption
<1>3. /\ \E r \in Buf : /\ Put(buf, buf', b, r)
                        /\ r.blk = buf[b].blk /\ r.data = buf[b].data
                        /\ r.flags = {"DONE"}
                        /\ r.holder = "nobody"
      /\ img' \in Image /\ disk_wrote' \in BOOLEAN /\ root_dev_vp' = "root"
      /\ Holds(img', buf[b].blk) = buf[b].data
      /\ \A k \in Blocks : k # buf[b].blk => Holds(img', k) = Holds(img, k)
  <2>1. {"ASYNC"} \in {{}, {"ASYNC"}} /\ "io" \in Holder /\ {"ASYNC"} # {}
    BY DEF Holder
  <2>2. Strategy(b, Outgoing(buf[b], {"ASYNC"}, "io"))
    BY DEF WriteOut
  <2> QED
    BY <1>2, <2>1, <2>2, SentOut
<1>4. PICK r \in Buf : /\ Put(buf, buf', b, r)
                       /\ r.blk = buf[b].blk /\ r.data = buf[b].data
                       /\ r.flags = {"DONE"}
                       /\ r.holder = "nobody"
  BY <1>3
<1>5. Sound(r, Holds(img', r.blk), "none")
  BY <1>2, <1>3, <1>4, SoundDone
<1>6. Says(r, Holds(img', r.blk)) = Contents[r.blk]
  BY <1>2, <1>4, Has, ContentsAre DEF Says, Inv, Cached
<1>7. \A c \in Bufs : c # b => buf[c].blk # r.blk
  BY <1>2, <1>4, BlockNames DEF Inv, Cached, Unique
<1>8. Inv' /\ Contents' = [Contents EXCEPT ![r.blk] = Says(r, Holds(img', r.blk))]
  BY <1>1, <1>2, <1>3, <1>4, <1>5, <1>7, OtherStep
<1> QED
  BY <1>6, <1>8, NoBlock, ContentsAre

(* An asynchronous read that is completed.                                 *)
LEMMA ReadIn ==
  ASSUME Inv, NEW p \in Procs, NEW b \in Bufs, NEW r0 \in Buf,
         Complete(b, r0),
         op[p].at # "dead", UNCHANGED <<fs_synced, op, reg, ended>>,
         r0.blk \in Blocks, r0.flags = {"READ", "ASYNC"},
         root_dev_vp = NoDev => r0.blk[1] = "root",
         r0.blk[1] = "sd" => buf[b].blk[1] = "sd" \/ op[p].blk[1] = "sd",
         \A c \in Bufs : c # b => buf[c].blk # r0.blk,
         buf[b].holder \in {"io", "nobody"},
         buf[b].blk # r0.blk => "DELWRI" \notin buf[b].flags,
         buf[b].blk = r0.blk => "DONE" \notin buf[b].flags
  PROVE  Inv' /\ Contents' = Contents
<1> DEFINE v == Holds(img, r0.blk)
           r1 == [r0 EXCEPT !.data = v]
           f == (r1.flags \cup {"DONE"}) \ {"ASYNC"}
           q == [r1 EXCEPT !.flags = f, !.holder = "nobody"]
<1>1. v \in Val /\ Contents[r0.blk] = v
  <2>1. CASE buf[b].blk = r0.blk
    BY <2>1, HoldsValue, Has, ContentsAre DEF Inv, Typed, Cached, Says
  <2>2. CASE buf[b].blk # r0.blk
    <3>1. \A c \in Bufs : buf[c].blk # r0.blk
      BY <2>2
    <3> QED
      BY <3>1, HoldsValue, HasNot, ContentsAre DEF Inv, Typed
  <2> QED
    BY <2>1, <2>2
<1> HIDE DEF v
<1>2. /\ img' = img /\ disk_wrote' = disk_wrote /\ root_dev_vp' = "root"
      /\ Transferred(r0) = r1
  BY ReadsIn DEF v, Complete
<1>3. r1 \in Buf /\ r1.blk = r0.blk /\ r1.flags = {"READ", "ASYNC"} /\ r1.data = v
  BY <1>1 DEF Buf
<1>4. biodone(r1) = q
  BY <1>3 DEF biodone
<1>5. f \in SUBSET Flag /\ f = {"READ", "DONE"}
  BY <1>3 DEF Flag
<1> HIDE DEF r1, f
<1>6. q \in Buf /\ q.blk = r0.blk /\ q.holder = "nobody" /\ q.flags = f /\ q.data = v
  BY <1>3, <1>5 DEF Buf, Holder
<1> HIDE DEF q
<1>7. Put(buf, buf', b, q)
  <2>1. buf' = [buf EXCEPT ![b] = q]
    BY <1>2, <1>4 DEF Complete
  <2> QED
    BY <1>6, <2>1 DEF Put, Inv, Typed
<1>8. PICK r \in Buf : /\ Put(buf, buf', b, r)
                        /\ r.blk = r0.blk /\ r.holder = "nobody" /\ r.flags = f /\ r.data = v
  BY <1>6, <1>7
<1>9. Sound(r, v, "none")
  BY <1>5, <1>8, SoundDone
<1>10. Says(r, v) = v
  BY <1>5, <1>8 DEF Says
<1>11. img' \in Image /\ disk_wrote' \in BOOLEAN /\ root_dev_vp' \in {root_dev_vp, "root"}
  BY <1>2 DEF Inv, Typed
<1>12. Inv' /\ Contents' = [Contents EXCEPT ![r.blk] = Says(r, Holds(img', r.blk))]
  <2>1. /\ r.blk \in Blocks /\ Holds(img', r.blk) = v /\ "DELWRI" \notin r.flags
        /\ \A k \in Blocks : k # r.blk => Holds(img', k) = Holds(img, k)
    BY <1>2, <1>5, <1>8 DEF v
  <2>2. reg' = reg /\ fs_synced' = fs_synced /\ ended' = ended /\ op' = op
    OBVIOUS
  <2>3. Sound(r, Holds(img', r.blk), "none")
    BY <1>9, <2>1
  <2> QED
    BY <1>8, <1>11, <2>1, <2>2, <2>3, OtherStep
<1>13. Says(r, Holds(img', r.blk)) = Contents[r.blk]
  BY <1>1, <1>2, <1>8, <1>10 DEF v
<1>14. Contents' = Contents
  <2> DEFINE x == Says(r, Holds(img', r.blk))
  <2>1. x = Contents[r.blk] /\ Contents' = [Contents EXCEPT ![r.blk] = x]
    BY <1>12, <1>13
  <2> HIDE DEF x
  <2>2. Contents = [k \in Blocks |-> Contents[k]]
    BY DEF Contents
  <2> QED
    BY <2>1, <2>2
<1> QED
  BY <1>12, <1>14

LEMMA GetblkSleepStep ==
  ASSUME Inv, NEW p \in Procs, GetblkSleep(p), "held_alone" \in Assumed
  PROVE  Inv' /\ Contents' = Contents
<1>1. PICK b \in Incore(op[p].blk) \ Spare : buf[b].holder = "io" /\ Complete(b, buf[b])
  BY DEF GetblkSleep
<1>2. /\ b \in Bufs /\ buf[b].blk = op[p].blk /\ op[p].blk \in Blocks /\ op[p].at # "dead"
  BY <1>1 DEF GetblkSleep, Incore, Inv, Wanted, Asking
<1>3. buf[b] \in Buf /\ "DONE" \notin buf[b].flags /\ buf[b].flags = {"READ", "ASYNC"}
  BY <1>1, <1>2, Unheld, BlockAssumption
<1>4. PICK r0 \in Buf : r0 = buf[b] /\ Complete(b, r0)
  BY <1>1, <1>3
<1>5. root_dev_vp = NoDev => r0.blk[1] = "root"
  BY <1>2, <1>4, Known
<1>6. \A c \in Bufs : c # b => buf[c].blk # r0.blk
  BY <1>2, <1>4, BlockNames DEF Inv, Cached, Unique
<1>7. UNCHANGED <<fs_synced, op, reg, ended>>
  BY DEF GetblkSleep
<1> QED
  BY <1>1, <1>2, <1>3, <1>4, <1>5, <1>6, <1>7, ReadIn

LEMMA ReadAheadStep ==
  ASSUME Inv, NEW p \in Procs, ReadAhead(p), "sd" \in Door
  PROVE  Inv' /\ Contents' = Contents
<1>1. PICK k \in Blocks, b \in Spare :
        /\ k[1] = op[p].blk[1] /\ Incore(k) = {}
        /\ "DELWRI" \notin buf[b].flags
        /\ Strategy(b, [buf[b] EXCEPT !.blk = k, !.flags = {"READ", "ASYNC"}, !.holder = "io"])
  BY DEF ReadAhead
<1> DEFINE q == [buf[b] EXCEPT !.blk = k, !.flags = {"READ", "ASYNC"}, !.holder = "io"]
<1>2. /\ b \in Bufs /\ buf[b].holder = "nobody" /\ \A c \in Bufs : buf[c].blk # k
      /\ "DELWRI" \notin buf[b].flags /\ k[1] = op[p].blk[1]
  BY <1>1 DEF Spare, Incore
<1>3. buf[b] \in Buf
  BY <1>2 DEF Inv, Typed
<1>4. q \in Buf /\ q.blk = k /\ q.holder = "io" /\ q.flags = {"READ", "ASYNC"}
  BY <1>3 DEF Buf, Holder, Flag
<1>5. PICK r0 \in Buf : /\ Strategy(b, r0)
                        /\ r0.blk = k /\ r0.holder = "io" /\ r0.flags = {"READ", "ASYNC"}
  BY <1>1, <1>4
<1>6. UNCHANGED <<fs_synced, op, reg, ended>> /\ op[p].at # "dead"
  BY DEF ReadAhead
<1>7. root_dev_vp = NoDev => r0.blk[1] = "root"
  BY <1>2, <1>5, Known
<1>8. CASE k[1] \in Door
  <2>1. Complete(b, r0)
    BY <1>5, <1>8 DEF Strategy, Dev
  <2> QED
    BY <1>2, <1>5, <1>6, <1>7, <2>1, ReadIn
<1>9. CASE k[1] \notin Door
  <2>1. buf' = [buf EXCEPT ![b] = r0] /\ UNCHANGED disk
    BY <1>5, <1>9 DEF Strategy, Dev, disk
  <2>2. k[1] = "root"
    BY <1>9, BlockNames
  <2>3. Put(buf, buf', b, r0)
    BY <1>2, <2>1 DEF Put, Inv, Typed
  <2>4. /\ img' \in Image /\ disk_wrote' \in BOOLEAN /\ root_dev_vp' \in {root_dev_vp, "root"}
        /\ img' = img /\ \A j \in Blocks : Holds(img', j) = Holds(img, j)
    BY <2>1, DiskKept
  <2>5. Sound(r0, Holds(img', r0.blk), "none")
    BY <1>5, <2>2, BlockNames DEF Sound
  <2>6. Says(r0, Holds(img', r0.blk)) = Contents[r0.blk]
    BY <1>2, <1>5, <2>4, HasNot, ContentsAre DEF Says
  <2>7. /\ reg' = reg /\ fs_synced' = fs_synced /\ ended' = ended /\ op' = op
        /\ r0.blk \in Blocks /\ "DELWRI" \notin r0.flags
        /\ \A c \in Bufs : c # b => buf[c].blk # r0.blk
    BY <1>2, <1>5, <1>6
  <2>8. Inv' /\ Contents' = [Contents EXCEPT ![r0.blk] = Says(r0, Holds(img', r0.blk))]
    BY <1>2, <1>5, <1>6, <2>2, <2>3, <2>4, <2>5, <2>7, OtherStep
  <2> QED
    BY <2>6, <2>8, NoBlock, ContentsAre
<1> QED
  BY <1>8, <1>9

(***************************************************************************)
(* Steps that change no buffer                                             *)
(***************************************************************************)

(* A process that works on no buffer starts or ends something else.        *)
LEMMA NoBufferStep ==
  ASSUME Inv, NEW p \in Procs, NEW o \in Op,
         op' = [op EXCEPT ![p] = o], op[p].at \notin Holding, o.at \notin Holding,
         UNCHANGED <<disk, buf, reg>>
  PROVE  /\ Cached(buf', img', op') /\ Contents' = Contents
         /\ op'[p] = o /\ \A q \in Procs : q # p => op'[q] = op[q]
         /\ img' \in Image /\ buf' \in [Bufs -> Buf] /\ op' \in [Procs -> Op]
         /\ reg' \in Val /\ disk_wrote' \in BOOLEAN
         /\ (o.blk \in IF o.at \in Asking THEN Blocks ELSE {NoBlk}) => Wanted'
<1>1. /\ op' \in [Procs -> Op] /\ op'[p] = o /\ \A q \in Procs : q # p => op'[q] = op[q]
  BY DEF Inv, Typed
<1>2. buf' = buf /\ img' = img /\ reg' = reg /\ disk_wrote' = disk_wrote
  BY DEF disk
<1>3. Cached(buf, img, op')
  BY <1>1, NoBuffer DEF Inv
<1>4. Cached(buf', img', op') /\ Contents' = Contents
  BY <1>2, <1>3, ContentsAre
<1>5. (o.blk \in IF o.at \in Asking THEN Blocks ELSE {NoBlk}) => Wanted'
  BY <1>1 DEF Inv, Wanted
<1>6. img' \in Image /\ buf' \in [Bufs -> Buf] /\ reg' \in Val
  BY <1>2 DEF Inv, Typed
<1>7. disk_wrote' \in BOOLEAN
  BY <1>2 DEF Inv, Typed
<1> QED
  BY <1>1, <1>4, <1>5, <1>6, <1>7

(* What such a step keeps of the invariant.                                *)
LEMMA NoBufferInv ==
  ASSUME Inv, NEW p \in Procs, NEW o \in Op,
         op' = [op EXCEPT ![p] = o], op[p].at \notin Holding, o.at \notin Holding,
         UNCHANGED <<disk, buf, reg, ended>>, fs_synced' \in BOOLEAN,
         op[p].at # "dead",
         o.blk \in IF o.at \in Asking THEN Blocks ELSE {NoBlk},
         o.blk[1] = "sd" => root_dev_vp # NoDev /\ \A q \in Procs : op[q].at # "raw",
         o.at = "raw" => DiskUnused,
         o.at \in Flushing => \A q \in Procs : q # p => op[q].at = "dead",
         op[p].at \in Flushing => o.at \in Flushing \/ \A b \in Bufs : "DELWRI" \notin buf[b].flags,
         fs_synced' => fs_synced \/ o.at \in Flushing
  PROVE  Inv' /\ Contents' = Contents
<1>1. /\ Cached(buf', img', op') /\ Contents' = Contents
      /\ op'[p] = o /\ \A q \in Procs : q # p => op'[q] = op[q]
      /\ img' \in Image /\ buf' \in [Bufs -> Buf] /\ op' \in [Procs -> Op]
      /\ reg' \in Val /\ disk_wrote' \in BOOLEAN
      /\ Wanted'
  BY NoBufferStep
<1>2. buf' = buf /\ root_dev_vp' = root_dev_vp /\ ended' = ended
  BY DEF disk
<1>3. ended = "no"
  BY DEF Inv, Flushed, Typed
<1>4. Typed'
  <2>1. ended' \in {"no", "quiet", "warned"}
    BY <1>2, <1>3
  <2> QED
    BY <1>1, <2>1 DEF Typed
<1>5. Devices'
  <2>1. root_dev_vp' \in {NoDev, "root"}
    BY <1>2 DEF Inv, Devices
  <2>2. DiskUnused /\ o.blk[1] # "sd" => DiskUnused'
    BY <1>1, <1>2 DEF DiskUnused
  <2>3. root_dev_vp' = NoDev => DiskUnused'
    BY <1>2, <2>2 DEF Inv, Devices
  <2>4. ASSUME NEW q \in Procs, op'[q].at = "raw"
        PROVE  DiskUnused'
    <3>1. CASE q = p
      <4>1. o.at = "raw" /\ o.blk = NoBlk
        BY <1>1, <2>4, <3>1 DEF Asking, Holding, Waiting
      <4> QED
        BY <4>1, <2>2, BlockNames
    <3>2. CASE q # p
      <4>1. op[q].at = "raw"
        BY <1>1, <2>4, <3>2
      <4> QED
        BY <4>1, <2>2 DEF Inv, Devices
    <3> QED
      BY <3>1, <3>2
  <2> QED
    BY <2>1, <2>3, <2>4 DEF Devices
<1>6. Flushed'
  <2>1. \A q \in Procs : q # p => op[q].at \notin Flushing
    BY DEF Inv, Flushed
  <2>2. ASSUME NEW q \in Procs, op'[q].at \in Flushing, NEW q2 \in Procs, q2 # q
        PROVE  op'[q2].at = "dead"
    BY <1>1, <2>1, <2>2
  <2>3. ASSUME fs_synced', NEW q \in Procs
        PROVE  op'[q].at # "dirty"
    <3>1. CASE q = p
      BY <1>1, <3>1 DEF Holding
    <3>2. CASE q # p
      BY <1>1, <2>3, <3>2 DEF Inv, Flushed
    <3> QED
      BY <3>1, <3>2
  <2>4. ASSUME fs_synced', NEW b \in Bufs, "DELWRI" \in buf'[b].flags
        PROVE  \E q \in Procs : op'[q].at \in Flushing
    <3>1. CASE o.at \in Flushing
      BY <1>1, <3>1
    <3>2. CASE o.at \notin Flushing
      <4>1. \E q \in Procs : op[q].at \in Flushing
        BY <1>2, <2>4, <3>2 DEF Inv, Flushed
      <4>2. op[p].at \in Flushing
        BY <4>1, <2>1
      <4> QED
        BY <4>2, <1>2, <2>4, <3>2
    <3> QED
      BY <3>1, <3>2
  <2> QED
    BY <1>2, <1>3, <2>2, <2>3, <2>4 DEF Flushed
<1> QED
  BY <1>1, <1>4, <1>5, <1>6 DEF Inv

(* When a flush is over, nothing is left to write.                         *)
LEMMA AllFlushed ==
  ASSUME Inv, NEW p \in Procs, op[p].at \in Flushing, \A b \in Bufs : ~Dirty(b)
  PROVE  /\ \A b \in Bufs : "DELWRI" \notin buf[b].flags
         /\ \A b \in Bufs : buf[b].holder \notin Procs
<1>1. \A q \in Procs : op[q].at \notin Holding
  BY DEF Inv, Flushed, Flushing, Holding, Waiting
<1>2. \A b \in Bufs : buf[b].holder \notin Procs
  BY <1>1 DEF Inv, Cached
<1>3. ASSUME NEW b \in Bufs, "DELWRI" \in buf[b].flags
      PROVE  FALSE
  <2>1. buf[b].holder = "nobody"
    BY <1>2, <1>3, Unheld
  <2> QED
    BY <1>3, <2>1 DEF Dirty, Spare
<1> QED
  BY <1>2, <1>3

(* What a process that is asked for nothing works on.                      *)
LEMMA AtRest ==
  ASSUME Inv, NEW p \in Procs, op[p].at \notin Asking
  PROVE  /\ op[p].blk = NoBlk /\ op[p].at \notin Holding
         /\ \A at : Goes(p, at) => op' = [op EXCEPT ![p] = [at |-> at, blk |-> NoBlk]]
<1>1. op \in [Procs -> Op] /\ op[p].blk = NoBlk /\ op[p].at \notin Holding
  BY DEF Inv, Typed, Wanted, Asking
<1>2. ASSUME NEW at, Goes(p, at)
      PROVE  op' = [op EXCEPT ![p] = [at |-> at, blk |-> NoBlk]]
  <2>1. [op[p] EXCEPT !.at = at] = [at |-> at, blk |-> op[p].blk]
    BY <1>1 DEF Op
  <2> QED
    BY <1>1, <1>2, <2>1 DEF Goes
<1> QED
  BY <1>1, <1>2

LEMMA AskStep ==
  ASSUME Inv, NEW p \in Procs, Ask(p), "root_first" \in Assumed, "raw_unmounted" \in Assumed
  PROVE  Inv' /\ Contents' = Contents
<1>1. PICK k \in Blocks :
        /\ root_dev_vp = NoDev => k[1] = "root"
        /\ k[1] = "sd" => \A q \in Procs : op[q].at # "raw"
        /\ op' = [op EXCEPT ![p] = [at |-> "getblk", blk |-> k]]
  BY DEF Ask
<1>2. PICK o \in Op : o = [at |-> "getblk", blk |-> k]
  BY DEF Op
<1>3. /\ o.at = "getblk" /\ o.at \notin Holding /\ o.at \in Asking /\ o.at \notin Flushing
      /\ op[p].at = "idle" /\ op[p].at \notin Holding /\ op[p].at \notin Flushing
      /\ o.blk = k
  BY <1>2 DEF Ask, Holding, Waiting, Asking, Flushing
<1>4. UNCHANGED <<disk, buf, reg, ended>> /\ fs_synced' = fs_synced
  BY DEF Ask
<1>5. fs_synced' \in BOOLEAN
  BY <1>4 DEF Inv, Typed
<1>6. op' = [op EXCEPT ![p] = o]
  BY <1>1, <1>2
<1> QED
  BY <1>1, <1>3, <1>4, <1>5, <1>6, NoBufferInv

LEMMA FlushStep ==
  ASSUME Inv, NEW p \in Procs, Flush(p), "sync_last" \in Assumed
  PROVE  Inv' /\ Contents' = Contents
<1>1. PICK call \in {"sync", "umount"} : Goes(p, call)
  BY DEF Flush
<1>2. /\ op[p].at = "idle" /\ op[p].at \notin Holding /\ op[p].at \notin Flushing
      /\ op[p].at \notin Asking
  BY DEF Flush, Holding, Waiting, Flushing, Asking
<1>3. PICK o \in Op : o = [at |-> call, blk |-> NoBlk]
  BY DEF Op
<1>4. op' = [op EXCEPT ![p] = o]
  BY <1>1, <1>2, <1>3, AtRest
<1>5. o.at \in Flushing /\ o.at \notin Holding /\ o.at \notin Asking /\ o.at # "raw" /\ o.blk = NoBlk
  BY <1>3 DEF Holding, Waiting, Flushing, Asking
<1>6. \A q \in Procs : q # p => op[q].at = "dead"
  BY DEF Flush, OthersGone
<1>7. UNCHANGED <<disk, buf, reg, ended>> /\ fs_synced' \in BOOLEAN
  BY DEF Flush
<1> QED
  BY <1>2, <1>4, <1>5, <1>6, <1>7, NoBufferInv, BlockNames

LEMMA SyncEndsStep ==
  ASSUME Inv, NEW p \in Procs, SyncEnds(p)
  PROVE  Inv' /\ Contents' = Contents
<1>1. op[p].at \in Flushing /\ op[p].at \notin Holding /\ op[p].at # "dead"
  BY DEF SyncEnds, Flushing, Holding, Waiting
<1>2. op' = [op EXCEPT ![p] = Idle]
  BY DEF SyncEnds, Rests
<1>3. /\ Idle \in Op /\ Idle.at \notin Holding /\ Idle.at \notin Asking /\ Idle.at \notin Flushing
      /\ Idle.blk = NoBlk /\ Idle.at # "raw"
  BY DEF Idle, Op, Holding, Waiting, Asking, Flushing
<1>4. \A b \in Bufs : "DELWRI" \notin buf[b].flags
  BY <1>1, AllFlushed DEF SyncEnds
<1>5. UNCHANGED <<disk, buf, reg, ended>> /\ fs_synced' = fs_synced
  BY DEF SyncEnds
<1>6. fs_synced' \in BOOLEAN
  BY <1>5 DEF Inv, Typed
<1> QED
  BY <1>1, <1>2, <1>3, <1>4, <1>5, <1>6, NoBufferInv, BlockNames

LEMMA RawOpenStep ==
  ASSUME Inv, NEW p \in Procs, RawOpen(p), "raw_unmounted" \in Assumed
  PROVE  Inv' /\ Contents' = Contents
<1>1. /\ op[p].at = "idle" /\ op[p].at \notin Holding /\ op[p].at \notin Flushing
      /\ op[p].at \notin Asking
  BY DEF RawOpen, Holding, Waiting, Flushing, Asking
<1>2. PICK o \in Op : o = [at |-> "raw", blk |-> NoBlk]
  BY DEF Op
<1>3. op' = [op EXCEPT ![p] = o]
  BY <1>1, <1>2, AtRest DEF RawOpen
<1>4. o.at \notin Flushing /\ o.at \notin Holding /\ o.at \notin Asking /\ o.blk = NoBlk
  BY <1>2 DEF Holding, Waiting, Flushing, Asking
<1>5. DiskUnused
  BY DEF RawOpen, InUse, OnDisk, DiskUnused
<1>6. UNCHANGED <<disk, buf, reg, ended>> /\ fs_synced' = fs_synced
  BY DEF RawOpen
<1>7. fs_synced' \in BOOLEAN
  BY <1>6 DEF Inv, Typed
<1> QED
  BY <1>1, <1>3, <1>4, <1>5, <1>6, <1>7, NoBufferInv, BlockNames

LEMMA RawCloseStep ==
  ASSUME Inv, NEW p \in Procs, RawClose(p)
  PROVE  Inv' /\ Contents' = Contents
<1>1. op[p].at \notin Flushing /\ op[p].at \notin Holding /\ op[p].at # "dead"
  BY DEF RawClose, Flushing, Holding, Waiting
<1>2. op' = [op EXCEPT ![p] = Idle]
  BY DEF RawClose, Rests
<1>3. /\ Idle \in Op /\ Idle.at \notin Holding /\ Idle.at \notin Asking /\ Idle.at \notin Flushing
      /\ Idle.blk = NoBlk /\ Idle.at # "raw"
  BY DEF Idle, Op, Holding, Waiting, Asking, Flushing
<1>4. UNCHANGED <<disk, buf, reg, ended>> /\ fs_synced' = fs_synced
  BY DEF RawClose
<1>5. fs_synced' \in BOOLEAN
  BY <1>4 DEF Inv, Typed
<1> QED
  BY <1>1, <1>2, <1>3, <1>4, <1>5, NoBufferInv, BlockNames

LEMMA ExitStep ==
  ASSUME Inv, NEW p \in Procs, Exit(p)
  PROVE  Inv' /\ Contents' = Contents
<1>1. /\ op[p].at = "idle" /\ op[p].at \notin Holding /\ op[p].at \notin Flushing
      /\ op[p].at \notin Asking
  BY DEF Exit, Holding, Waiting, Flushing, Asking
<1>2. PICK o \in Op : o = [at |-> "dead", blk |-> NoBlk]
  BY DEF Op
<1>3. op' = [op EXCEPT ![p] = o]
  BY <1>1, <1>2, AtRest DEF Exit
<1>4. /\ o.at \notin Flushing /\ o.at \notin Holding /\ o.at \notin Asking /\ o.blk = NoBlk
      /\ o.at # "raw"
  BY <1>2 DEF Holding, Waiting, Flushing, Asking
<1>5. UNCHANGED <<disk, buf, reg, ended>> /\ fs_synced' = fs_synced
  BY DEF Exit
<1>6. fs_synced' \in BOOLEAN
  BY <1>5 DEF Inv, Typed
<1> QED
  BY <1>1, <1>3, <1>4, <1>5, <1>6, NoBufferInv, BlockNames

LEMMA UmountEndsStep ==
  ASSUME Inv, NEW p \in Procs, UmountEnds(p)
  PROVE  Inv' /\ Contents' = Contents
<1>1. op[p].at \in Flushing /\ op[p].at # "dead"
  BY DEF UmountEnds, Flushing
<1>2. /\ \A q \in Procs : op[q].at \notin Holding
      /\ \A q \in Procs : q # p => op[q].at = "dead"
      /\ \A q \in Procs : op[q].blk = NoBlk
  BY <1>1 DEF Inv, Flushed, Flushing, Holding, Waiting, Wanted, Asking
<1>3. /\ \A b \in Bufs : "DELWRI" \notin buf[b].flags
      /\ \A b \in Bufs : buf[b].holder \notin Procs
  BY <1>1, AllFlushed DEF UmountEnds
<1>4. buf' = [b \in Bufs |-> IF OnDisk(b) THEN [buf[b] EXCEPT !.blk = NoBlk, !.flags = {}]
                             ELSE buf[b]]
  BY <1>2, BlockNames DEF UmountEnds
<1>5. /\ op' = [op EXCEPT ![p] = Idle]
      /\ img' = img /\ root_dev_vp' = root_dev_vp /\ reg' = reg /\ ended' = ended
      /\ disk_wrote' = disk_wrote /\ fs_synced' = fs_synced
  BY DEF UmountEnds, Rests, disk
<1>6. /\ op \in [Procs -> Op] /\ Idle \in Op
      /\ Idle.at = "idle" /\ Idle.blk = NoBlk
  BY DEF Inv, Typed, Idle, Op
<1>7. op' \in [Procs -> Op] /\ op'[p] = Idle /\ \A q \in Procs : q # p => op'[q] = op[q]
  BY <1>5, <1>6
<1>8. ASSUME NEW b \in Bufs, OnDisk(b)
      PROVE  /\ buf'[b] \in Buf /\ buf'[b].blk = NoBlk /\ buf'[b].flags = {}
             /\ buf'[b].holder = "nobody"
             /\ buf[b].blk \in Blocks /\ buf[b].blk[1] = "sd" /\ "DONE" \in buf[b].flags
             /\ buf[b].data = Holds(img, buf[b].blk)
  <2>1. buf[b] \in Buf /\ buf[b].blk[1] = "sd"
    BY <1>8 DEF Inv, Typed, OnDisk
  <2>2. /\ buf[b].blk \in Blocks /\ "DONE" \in buf[b].flags /\ buf[b].holder = "nobody"
        /\ buf[b].data = Holds(img, buf[b].blk)
    BY <1>3, <2>1, Unheld, BlockNames
  <2>3. buf'[b] = [buf[b] EXCEPT !.blk = NoBlk, !.flags = {}]
    BY <1>4, <1>8
  <2>4. /\ buf'[b] \in Buf /\ buf'[b].blk = NoBlk /\ buf'[b].flags = {}
        /\ buf'[b].holder = buf[b].holder
    BY <2>1, <2>3 DEF Buf
  <2> QED
    BY <2>1, <2>2, <2>4
<1>9. ASSUME NEW b \in Bufs, ~OnDisk(b)
      PROVE  buf'[b] = buf[b] /\ buf'[b] \in Buf
  BY <1>4, <1>9 DEF Inv, Typed
<1>10. buf' \in [Bufs -> Buf]
  <2>1. \A b \in Bufs : buf'[b] \in Buf
    BY <1>8, <1>9
  <2>2. buf' = [b \in Bufs |-> buf'[b]]
    BY <1>4
  <2> QED
    BY <2>1, <2>2
<1>11. Typed'
  <2>1. img' \in Image /\ reg' \in Val /\ ended' \in {"no", "quiet", "warned"}
    BY <1>5 DEF Inv, Typed
  <2>2. disk_wrote' \in BOOLEAN /\ fs_synced' \in BOOLEAN
    BY <1>5 DEF Inv, Typed
  <2> QED
    BY <1>7, <1>10, <2>1, <2>2 DEF Typed
<1>12. Wanted'
  BY <1>2, <1>6, <1>7, BlockNames DEF Wanted, Asking, Holding, Waiting
<1>13. Devices'
  <2>1. DiskUnused'
    BY <1>2, <1>6, <1>7, <1>8, <1>9, BlockNames DEF DiskUnused, OnDisk
  <2> QED
    BY <1>5, <2>1 DEF Inv, Devices
<1>14. Unique(buf')
  BY <1>8, <1>9 DEF Inv, Cached, Unique
<1>15. Cached(buf', img', op')
  <2>1. \A q \in Procs : op'[q].at \notin Holding
    BY <1>2, <1>6, <1>7 DEF Holding, Waiting
  <2>2. \A b \in Bufs : buf'[b].holder \notin Procs
    BY <1>3, <1>8, <1>9, BlockAssumption
  <2>3. ASSUME NEW b \in Bufs
        PROVE  Sound(buf'[b], Holds(img', buf'[b].blk), At(buf', op', b))
    <3>1. At(buf', op', b) = "none" /\ At(buf, op, b) = "none"
      BY <1>3, <2>2 DEF At
    <3>2. CASE OnDisk(b)
      BY <1>8, <3>2 DEF Sound
    <3>3. CASE ~OnDisk(b)
      <4>1. Sound(buf[b], Holds(img, buf[b].blk), "none")
        BY <3>1 DEF Inv, Cached
      <4> QED
        BY <1>5, <1>9, <3>1, <3>3, <4>1
    <3> QED
      BY <3>2, <3>3
  <2> QED
    BY <1>14, <2>1, <2>2, <2>3 DEF Cached
<1>16. Flushed'
  <2>1. ended' = "no"
    BY <1>1, <1>5 DEF Inv, Flushed, Typed
  <2>2. \A q \in Procs : op'[q].at \in {"idle", "dead"}
    BY <1>2, <1>6, <1>7
  <2>3. \A b \in Bufs : "DELWRI" \notin buf'[b].flags
    BY <1>3, <1>8, <1>9
  <2> QED
    BY <2>1, <2>2, <2>3 DEF Flushed, Flushing
<1>17. ASSUME NEW k \in Blocks
       PROVE  ContentsOf(buf', img')[k] = ContentsOf(buf, img)[k]
  <2>1. CASE \E b \in Bufs : OnDisk(b) /\ buf[b].blk = k
    <3>1. PICK b \in Bufs : OnDisk(b) /\ buf[b].blk = k
      BY <2>1
    <3>2. ContentsOf(buf, img)[k] = Holds(img, k)
      BY <1>8, <3>1, Has DEF Inv, Cached, Says
    <3>3. \A c \in Bufs : buf'[c].blk # k
      BY <1>8, <1>9, <3>1, BlockNames DEF OnDisk
    <3> QED
      BY <1>5, <3>2, <3>3, HasNot
  <2>2. CASE \E b \in Bufs : ~OnDisk(b) /\ buf[b].blk = k
    <3>1. PICK b \in Bufs : ~OnDisk(b) /\ buf[b].blk = k
      BY <2>2
    <3>2. ContentsOf(buf, img)[k] = Says(buf[b], Holds(img, k))
      BY <3>1, Has DEF Inv, Cached
    <3>3. buf'[b].blk = k
      BY <1>9, <3>1
    <3>4. ContentsOf(buf', img')[k] = Says(buf'[b], Holds(img', k))
      BY <1>14, <3>3, Has
    <3> QED
      BY <1>5, <1>9, <3>1, <3>2, <3>4
  <2>3. CASE \A b \in Bufs : buf[b].blk # k
    <3>1. \A c \in Bufs : buf'[c].blk # k
      BY <1>8, <1>9, <2>3, BlockNames
    <3> QED
      BY <1>5, <2>3, <3>1, HasNot
  <2> QED
    BY <2>1, <2>2, <2>3
<1>18. ContentsOf(buf', img') = ContentsOf(buf, img)
  <2>1. /\ ContentsOf(buf', img') = [k \in Blocks |-> ContentsOf(buf', img')[k]]
        /\ ContentsOf(buf, img) = [k \in Blocks |-> ContentsOf(buf, img)[k]]
    BY DEF ContentsOf
  <2> QED
    BY <1>17, <2>1
<1> QED
  BY <1>11, <1>12, <1>13, <1>15, <1>16, <1>18, ContentsAre DEF Inv

(* A read changes the register, and nothing else.                          *)
LEMMA ReadsStep ==
  ASSUME Inv, UNCHANGED <<disk, buf, fs_synced, op, ended>>, reg' \in Val
  PROVE  Inv' /\ Contents' = Contents
<1>1. /\ img' = img /\ root_dev_vp' = root_dev_vp /\ disk_wrote' = disk_wrote
      /\ buf' = buf /\ fs_synced' = fs_synced /\ op' = op /\ ended' = ended
  BY DEF disk
<1>2. Typed'
  <2>1. /\ img' \in Image /\ buf' \in [Bufs -> Buf] /\ op' \in [Procs -> Op]
        /\ ended' \in {"no", "quiet", "warned"}
    BY <1>1 DEF Inv, Typed
  <2>2. disk_wrote' \in BOOLEAN /\ fs_synced' \in BOOLEAN
    BY <1>1 DEF Inv, Typed
  <2> QED
    BY <2>1, <2>2 DEF Typed
<1>3. Wanted' /\ Devices'
  BY <1>1 DEF Inv, Wanted, Devices, DiskUnused
<1>4. Flushed'
  BY <1>1 DEF Inv, Flushed
<1>5. Cached(buf', img', op') /\ Contents' = Contents
  BY <1>1, ContentsAre DEF Inv
<1> QED
  BY <1>2, <1>3, <1>4, <1>5 DEF Inv

(* While the raw disk is open, it has its contents in the image.           *)
LEMMA RawContents ==
  ASSUME Inv, NEW p \in Procs, op[p].at = "raw"
  PROVE  /\ DiskUnused
         /\ \A j \in SdBlocks : Contents[<<"sd", j>>] = img["disk_img"][j]
<1>1. DiskUnused
  BY DEF Inv, Devices
<1>2. ASSUME NEW j \in SdBlocks
      PROVE  Contents[<<"sd", j>>] = img["disk_img"][j]
  <2> DEFINE k == <<"sd", j>>
  <2>1. k \in Blocks /\ k[1] = "sd" /\ k[2] = j
    BY BlockNames
  <2>2. \A b \in Bufs : buf[b].blk # k
    BY <1>1, <2>1 DEF DiskUnused
  <2> HIDE DEF k
  <2>3. ContentsOf(buf, img)[k] = Holds(img, k)
    BY <2>1, <2>2, HasNot
  <2>4. Contents[k] = img["disk_img"][j]
    BY <2>1, <2>3, ContentsAre DEF Holds
  <2> QED
    BY <2>4 DEF k
<1> QED
  BY <1>1, <1>2

LEMMA RawWriteStep ==
  ASSUME Inv, NEW p \in Procs, RawWrite(p)
  PROVE  /\ Inv'
         /\ \E j \in SdBlocks, x \in Val : Contents' = [Contents EXCEPT ![<<"sd", j>>] = x]
<1>1. PICK j \in SdBlocks, x \in Val : img' = [img EXCEPT !["disk_img"][j] = x]
  BY DEF RawWrite
<1>2. /\ root_dev_vp' = root_dev_vp /\ disk_wrote' = disk_wrote /\ reg' = reg
      /\ buf' = buf /\ fs_synced' = fs_synced /\ op' = op /\ ended' = ended
  BY DEF RawWrite
<1>3. DiskUnused
  BY RawContents DEF RawWrite
<1>4. img \in Image
  BY DEF Inv, Typed
<1>5. /\ img' \in Image
      /\ img'["disk_img"][j] = x
      /\ img'["root_img"] = img["root_img"]
      /\ \A l \in SdBlocks : l # j => img'["disk_img"][l] = img["disk_img"][l]
  BY <1>1, <1>4 DEF Image, Files
<1>6. Typed'
  <2>1. /\ buf' \in [Bufs -> Buf] /\ op' \in [Procs -> Op] /\ reg' \in Val
        /\ ended' \in {"no", "quiet", "warned"}
    BY <1>2 DEF Inv, Typed
  <2>2. disk_wrote' \in BOOLEAN /\ fs_synced' \in BOOLEAN
    BY <1>2 DEF Inv, Typed
  <2> QED
    BY <1>5, <2>1, <2>2 DEF Typed
<1>7. Wanted' /\ Devices'
  BY <1>2 DEF Inv, Wanted, Devices, DiskUnused
<1>8. Flushed'
  BY <1>2 DEF Inv, Flushed
<1>9. \A b \in Bufs : buf[b].blk \in Blocks => Holds(img', buf[b].blk) = Holds(img, buf[b].blk)
  BY <1>3, <1>5, BlockNames DEF DiskUnused, Holds
<1>10. Cached(buf', img', op')
  <2>1. ASSUME NEW b \in Bufs
        PROVE  Sound(buf'[b], Holds(img', buf'[b].blk), At(buf', op', b))
    <3>1. Sound(buf[b], Holds(img, buf[b].blk), At(buf, op, b))
      BY DEF Inv, Cached
    <3>2. At(buf', op', b) = At(buf, op, b)
      BY <1>2
    <3>3. CASE buf[b].blk \in Blocks
      BY <1>2, <1>9, <3>1, <3>2, <3>3
    <3>4. CASE buf[b].blk = NoBlk
      BY <1>2, <3>1, <3>2, <3>4 DEF Sound
    <3> QED
      BY <3>3, <3>4 DEF Inv, Typed, Buf
  <2> QED
    BY <1>2, <2>1 DEF Inv, Cached
<1> DEFINE k == <<"sd", j>>
<1>11. k \in Blocks /\ k[1] = "sd" /\ k[2] = j
  BY BlockNames
<1> HIDE DEF k
<1>12. \A b \in Bufs : buf[b].blk # k
  BY <1>3, <1>11 DEF DiskUnused
<1>13. ASSUME NEW l \in Blocks
       PROVE  ContentsOf(buf', img')[l] = IF l = k THEN x ELSE ContentsOf(buf, img)[l]
  <2>1. CASE l = k
    BY <1>2, <1>5, <1>11, <1>12, <2>1, HasNot DEF Holds
  <2>2. CASE l # k /\ \E b \in Bufs : buf[b].blk = l
    <3>1. PICK b \in Bufs : buf[b].blk = l
      BY <2>2
    <3>2. ContentsOf(buf, img)[l] = Says(buf[b], Holds(img, l))
      BY <3>1, Has DEF Inv, Cached
    <3>3. ContentsOf(buf', img')[l] = Says(buf[b], Holds(img', l))
      BY <1>2, <1>10, <3>1, Has DEF Cached
    <3> QED
      BY <1>9, <2>2, <3>1, <3>2, <3>3
  <2>3. CASE l # k /\ \A b \in Bufs : buf[b].blk # l
    <3>1. Holds(img', l) = Holds(img, l)
      <4>1. l[1] = "root" \/ (l[1] = "sd" /\ l[2] \in SdBlocks /\ l[2] # j)
        BY <2>3, BlockNames DEF k
      <4> QED
        BY <1>5, <4>1 DEF Holds
    <3> QED
      BY <1>2, <2>3, <3>1, HasNot
  <2> QED
    BY <2>1, <2>2, <2>3
<1>14. Contents' = [Contents EXCEPT ![k] = x]
  <2>1. /\ Contents' = [l \in Blocks |-> Contents'[l]]
        /\ Contents = [l \in Blocks |-> Contents[l]]
    BY DEF Contents
  <2>2. \A l \in Blocks : Contents'[l] = IF l = k THEN x ELSE Contents[l]
    BY <1>13, ContentsAre
  <2> QED
    BY <1>11, <2>1, <2>2
<1>15. Inv'
  BY <1>6, <1>7, <1>8, <1>10 DEF Inv
<1> QED
  BY <1>14, <1>15 DEF k

LEMMA EndStep ==
  ASSUME Inv, End
  PROVE  Inv' /\ Contents' = Contents
<1>1. /\ img' = img /\ root_dev_vp' = root_dev_vp /\ disk_wrote' = disk_wrote
      /\ buf' = buf /\ fs_synced' = fs_synced /\ op' = op /\ reg' = reg
      /\ \A p \in Procs : op[p].at = "dead"
      /\ ended' = IF disk_wrote /\ ~fs_synced THEN "warned" ELSE "quiet"
  BY DEF End, Warns, disk
<1>2. Typed'
  <2>1. /\ img' \in Image /\ buf' \in [Bufs -> Buf] /\ op' \in [Procs -> Op] /\ reg' \in Val
        /\ ended' \in {"no", "quiet", "warned"}
    BY <1>1 DEF Inv, Typed
  <2>2. disk_wrote' \in BOOLEAN /\ fs_synced' \in BOOLEAN
    BY <1>1 DEF Inv, Typed
  <2> QED
    BY <2>1, <2>2 DEF Typed
<1>3. Wanted' /\ Devices'
  BY <1>1 DEF Inv, Wanted, Devices, DiskUnused
<1>4. Flushed'
  <2>1. ended' = "quiet" /\ disk_wrote' => fs_synced'
    BY <1>1
  <2>2. /\ \A q \in Procs : op'[q].at = "dead"
        /\ fs_synced' => \A b \in Bufs :
             "DELWRI" \in buf'[b].flags => \E p \in Procs : op'[p].at \in Flushing
    BY <1>1 DEF Inv, Flushed
  <2> QED
    BY <2>1, <2>2 DEF Flushed, Flushing
<1>5. Cached(buf', img', op') /\ Contents' = Contents
  BY <1>1, ContentsAre DEF Inv
<1> QED
  BY <1>2, <1>3, <1>4, <1>5 DEF Inv

(***************************************************************************)
(* The shared disk                                                         *)
(***************************************************************************)
UsingOf(o) == CASE o.at \in {"hold", "dirty"} -> {o.blk}
                [] o.at = "raw" -> {"sd"} \X SdBlocks
                [] OTHER -> {}

(* What a process uses follows from what it does.                          *)
LEMMA UsingIs ==
  /\ Using = [p \in Procs |-> UsingOf(op[p])]
  /\ Using' = [p \in Procs |-> UsingOf(op'[p])]
BY DEF Using, UsingOf

(* A process that begins or ends its use of blocks, or that uses none, and *)
(* that changes none.                                                      *)
LEMMA UseStep ==
  ASSUME Inv, Inv', NEW p \in Procs, NEW o,
         op'[p] = o, \A q \in Procs : q # p => op'[q] = op[q],
         Contents' = Contents, reg' = reg,
         op[p].at \notin {"hold", "dirty", "raw"} \/ o.at \notin {"hold", "dirty", "raw"}
  PROVE  [Disk!SNext]_(Disk!svars)
<1>1. Using' = [Using EXCEPT ![p] = UsingOf(o)]
  BY UsingIs
<1>2. Using[p] = UsingOf(op[p])
  BY UsingIs
<1>3. UsingOf(o) \in SUBSET Blocks
  <2>1. o.at \in {"hold", "dirty"} => o.blk \in Blocks
    BY DEF Inv, Wanted, Asking, Holding
  <2> QED
    BY <2>1, BlockNames DEF UsingOf, Blocks
<1>4. CASE op[p].at \notin {"hold", "dirty", "raw"}
  <2>1. Using[p] = {}
    BY <1>2, <1>4 DEF UsingOf
  <2>2. Disk!Begin(p)
    BY <1>1, <1>3, <2>1 DEF Disk!Begin
  <2> QED
    BY <2>2 DEF Disk!SNext
<1>5. CASE o.at \notin {"hold", "dirty", "raw"}
  <2>1. UsingOf(o) = {}
    BY <1>5 DEF UsingOf
  <2>2. Disk!End(p)
    BY <1>1, <2>1 DEF Disk!End
  <2> QED
    BY <2>2 DEF Disk!SNext
<1> QED
  BY <1>4, <1>5

(* A step that no process takes, or of a process that goes on as it is.    *)
LEMMA StillStep ==
  ASSUME op' = op, Contents' = Contents, reg' = reg
  PROVE  [Disk!SNext]_(Disk!svars)
<1>1. Using' = Using
  BY UsingIs
<1> QED
  BY <1>1 DEF Disk!svars

(* The process and what it does next, for each of its steps.               *)
LEMMA GetsMaps ==
  ASSUME Inv, NEW p \in Procs, Gets(p)
  PROVE  Inv' /\ [Disk!SNext]_(Disk!svars)
<1>1. Inv' /\ Contents' = Contents
  BY TakeStep, ReuseStep DEF Gets
<1>2. Turns(op, op', p, [at |-> "bread", blk |-> op[p].blk])
  BY GoesOn DEF Gets, Take, Reuse, Asking, Holding
<1>3. reg' = reg /\ op[p].at = "getblk"
  BY DEF Gets, Take, Reuse
<1> QED
  BY <1>1, <1>2, <1>3, UseStep DEF Turns

LEMMA AwaitsMaps ==
  ASSUME Inv, NEW p \in Procs, Awaits(p), "held_alone" \in Assumed, "sd" \in Door
  PROVE  Inv' /\ [Disk!SNext]_(Disk!svars)
<1>1. CASE GetblkSleep(p)
  <2>1. op' = op /\ reg' = reg
    BY <1>1 DEF GetblkSleep
  <2> QED
    BY <1>1, <2>1, GetblkSleepStep, StillStep
<1>2. CASE Bread(p)
  <2>1. Inv' /\ Contents' = Contents
    BY <1>2, BreadStep
  <2>2. PICK at \in Asking : Goes(p, at)
    BY <1>2 DEF Bread, Asking, Holding, Waiting
  <2>3. Turns(op, op', p, [at |-> at, blk |-> op[p].blk])
    BY <2>2, GoesOn
  <2>4. reg' = reg /\ op[p].at = "bread"
    BY <1>2 DEF Bread
  <2> QED
    BY <2>1, <2>3, <2>4, UseStep DEF Turns
<1>3. CASE Biowait(p)
  <2>1. Inv' /\ Contents' = Contents
    BY <1>3, BiowaitStep
  <2>2. PICK at \in Asking : Goes(p, at)
    BY <1>3 DEF Biowait, Asking, Holding, Waiting
  <2>3. Turns(op, op', p, [at |-> at, blk |-> op[p].blk])
    BY <2>2, GoesOn
  <2>4. reg' = reg /\ op[p].at \in {"biowait", "bwrite"}
    BY <1>3 DEF Biowait, Waiting
  <2> QED
    BY <2>1, <2>3, <2>4, UseStep DEF Turns
<1> QED
  BY <1>1, <1>2, <1>3 DEF Awaits

LEMMA LetsGoMaps ==
  ASSUME Inv, NEW p \in Procs, LetsGo(p), "sd" \in Door
  PROVE  Inv' /\ [Disk!SNext]_(Disk!svars)
<1>1. Inv' /\ Contents' = Contents
  BY ReleaseStep, DelayedWriteStep, BwriteStep DEF LetsGo
<1>2. Idle.at = "idle" /\ reg' = reg
  BY DEF Idle, LetsGo, Release, DelayedWrite, Bwrite
<1>3. Rests(p) \/ Goes(p, "bwrite")
  BY DEF LetsGo, Release, DelayedWrite, Bwrite
<1>4. PICK o : Turns(op, op', p, o) /\ o.at \notin {"hold", "dirty", "raw"}
  <2>1. CASE Rests(p)
    BY <1>2, <2>1, GoesOn
  <2>2. CASE Goes(p, "bwrite")
    <3>1. "bwrite" \in Asking
      BY DEF Asking, Holding, Waiting
    <3>2. Turns(op, op', p, [at |-> "bwrite", blk |-> op[p].blk])
      BY <2>2, <3>1, GoesOn
    <3> QED
      BY <3>2
  <2> QED
    BY <1>3, <2>1, <2>2
<1> QED
  BY <1>1, <1>2, <1>4, UseStep DEF Turns

LEMMA UsesMaps ==
  ASSUME Inv, NEW p \in Procs, Uses(p), "root_kept" \in Assumed, "sync_last" \in Assumed,
         "sd" \in Door
  PROVE  Inv' /\ [Disk!SNext]_(Disk!svars)
<1>1. CASE ReadAhead(p)
  <2>1. op' = op /\ reg' = reg
    BY <1>1 DEF ReadAhead
  <2> QED
    BY <1>1, <2>1, ReadAheadStep, StillStep
<1>2. CASE Look(p)
  <2>1. /\ op[p].at = "hold" /\ op[p].at \in Holding /\ op' = op
        /\ reg' = buf[Mine(p)].data
        /\ UNCHANGED <<disk, buf, fs_synced, op, ended>>
    BY <1>2 DEF Look, Holding
  <2>2. /\ Mine(p) \in Bufs /\ op[p].blk \in Blocks /\ buf[Mine(p)].blk = op[p].blk
        /\ "DONE" \in buf[Mine(p)].flags /\ buf[Mine(p)].data \in Val
    BY <2>1, MineIs, MineSound DEF Buf
  <2>3. Inv' /\ Contents' = Contents
    BY <2>1, <2>2, ReadsStep
  <2>4. Contents[op[p].blk] = buf[Mine(p)].data
    BY <2>2, Has, ContentsAre DEF Inv, Cached, Says
  <2>5. Using' = Using /\ Using[p] = {op[p].blk}
    BY <2>1, UsingIs DEF UsingOf
  <2>6. Disk!Read(p)
    BY <2>1, <2>3, <2>4, <2>5 DEF Disk!Read
  <2> QED
    BY <2>3, <2>6 DEF Disk!SNext
<1>3. CASE Modify(p)
  <2>1. Inv' /\ \E x \in Val : Contents' = [Contents EXCEPT ![op[p].blk] = x]
    BY <1>3, ModifyStep
  <2>2. Turns(op, op', p, [at |-> "dirty", blk |-> op[p].blk])
    BY <1>3, GoesOn DEF Modify, Asking, Holding
  <2>3. op[p].at \in {"hold", "dirty"} /\ reg' = reg
    BY <1>3 DEF Modify
  <2>4. Using[p] = {op[p].blk} /\ Using'[p] = {op[p].blk}
    BY <2>2, <2>3, UsingIs DEF Turns, UsingOf
  <2>5. \A q \in Procs : Using'[q] = Using[q]
    BY <2>2, <2>4, UsingIs DEF Turns
  <2>6. Using' = Using
    BY <2>5, UsingIs
  <2>7. Disk!Write(p)
    BY <2>1, <2>3, <2>4, <2>6 DEF Disk!Write
  <2> QED
    BY <2>1, <2>7 DEF Disk!SNext
<1> QED
  BY <1>1, <1>2, <1>3 DEF Uses

LEMMA RawMaps ==
  ASSUME Inv, NEW p \in Procs, Raw(p), "raw_unmounted" \in Assumed
  PROVE  Inv' /\ [Disk!SNext]_(Disk!svars)
<1>1. CASE RawOpen(p)
  <2>1. Inv' /\ Contents' = Contents
    BY <1>1, RawOpenStep
  <2>2. op[p].at = "idle" /\ reg' = reg /\ Goes(p, "raw") /\ op \in [Procs -> Op]
    BY <1>1 DEF RawOpen, Inv, Typed
  <2>3. \A q \in Procs : q # p => op'[q] = op[q]
    BY <2>2 DEF Goes
  <2> QED
    BY <2>1, <2>2, <2>3, UseStep
<1>2. CASE RawClose(p)
  <2>1. Inv' /\ Contents' = Contents
    BY <1>2, RawCloseStep
  <2>2. reg' = reg /\ Turns(op, op', p, Idle) /\ Idle.at = "idle"
    BY <1>2, GoesOn DEF RawClose, Idle
  <2> QED
    BY <2>1, <2>2, UseStep DEF Turns
<1>3. CASE RawRead(p)
  <2>1. PICK j \in SdBlocks : reg' = img["disk_img"][j]
    BY <1>3 DEF RawRead
  <2>2. op[p].at = "raw" /\ op' = op /\ UNCHANGED <<disk, buf, fs_synced, op, ended>>
    BY <1>3 DEF RawRead
  <2>3. reg' \in Val
    BY <2>1 DEF Inv, Typed, Image, Files
  <2>4. Inv' /\ Contents' = Contents
    BY <2>2, <2>3, ReadsStep
  <2>5. Using' = Using /\ <<"sd", j>> \in Using[p]
    BY <2>2, UsingIs DEF UsingOf
  <2>6. Contents[<<"sd", j>>] = reg'
    BY <2>1, <2>2, RawContents
  <2>7. Disk!Read(p)
    BY <2>4, <2>5, <2>6 DEF Disk!Read
  <2> QED
    BY <2>4, <2>7 DEF Disk!SNext
<1>4. CASE RawWrite(p)
  <2>1. PICK j \in SdBlocks, x \in Val : Contents' = [Contents EXCEPT ![<<"sd", j>>] = x]
    BY <1>4, RawWriteStep
  <2>2. Inv'
    BY <1>4, RawWriteStep
  <2>3. op[p].at = "raw" /\ op' = op /\ reg' = reg
    BY <1>4 DEF RawWrite
  <2>4. Using' = Using /\ <<"sd", j>> \in Using[p]
    BY <2>3, UsingIs DEF UsingOf
  <2>5. Disk!Write(p)
    BY <2>1, <2>3, <2>4 DEF Disk!Write
  <2> QED
    BY <2>2, <2>5 DEF Disk!SNext
<1> QED
  BY <1>1, <1>2, <1>3, <1>4 DEF Raw

LEMMA OthersMap ==
  ASSUME Inv, NEW p \in Procs, Assumed = Assumptions, "sd" \in Door,
         Ask(p) \/ Evict(p) \/ Flush(p) \/ Flushes(p) \/ Exit(p)
  PROVE  Inv' /\ [Disk!SNext]_(Disk!svars)
<1>1. {"root_first", "raw_unmounted", "sync_last"} \subseteq Assumed
  BY DEF Assumptions
<1>2. CASE \E b \in Bufs : WriteOut(b) /\ UNCHANGED <<fs_synced, op, reg, ended>> /\ op[p].at # "dead"
  <2>1. Inv' /\ Contents' = Contents /\ op' = op /\ reg' = reg
    BY <1>2, WriteOutStep
  <2> QED
    BY <2>1, StillStep
<1>3. CASE Ask(p) \/ Flush(p) \/ SyncEnds(p) \/ UmountEnds(p) \/ Exit(p)
  <2>1. Inv' /\ Contents' = Contents
    BY <1>1, <1>3, AskStep, FlushStep, SyncEndsStep, UmountEndsStep, ExitStep
  <2>2. reg' = reg /\ op[p].at \notin {"hold", "dirty", "raw"}
    BY <1>3 DEF Ask, Flush, SyncEnds, UmountEnds, Exit
  <2>3. \E o : op' = [op EXCEPT ![p] = o]
    BY <1>3 DEF Ask, Flush, SyncEnds, UmountEnds, Exit, Goes, Rests
  <2>4. \A q \in Procs : q # p => op'[q] = op[q]
    BY <2>3 DEF Inv, Typed
  <2> QED
    BY <2>1, <2>2, <2>4, UseStep
<1> QED
  BY <1>2, <1>3 DEF Evict, Flushes, FlushOne

(***************************************************************************)
(* The theorems                                                            *)
(***************************************************************************)
LEMMA InvInit ==
  ASSUME Init
  PROVE  Inv /\ Disk!SInit
<1>1. PICK x \in Val :
        /\ img = [f \in Files |-> [j \in RootBlocks \cup SdBlocks |-> x]]
        /\ buf = [c \in Bufs |-> [blk |-> NoBlk, data |-> x, flags |-> {}, holder |-> "nobody"]]
        /\ reg = x
  BY DEF Init
<1>2. /\ op = [p \in Procs |-> Idle] /\ root_dev_vp = NoDev
      /\ disk_wrote = FALSE /\ fs_synced = FALSE /\ ended = "no"
  BY DEF Init
<1>3. \A p \in Procs : op[p].at = "idle" /\ op[p].blk = NoBlk
  BY <1>2 DEF Idle
<1>4. \A b \in Bufs : buf[b].blk = NoBlk /\ buf[b].flags = {} /\ buf[b].holder = "nobody"
  BY <1>1
<1>5. Typed
  <2>1. img \in Image /\ reg \in Val /\ ended \in {"no", "quiet", "warned"}
    BY <1>1, <1>2 DEF Image
  <2>2. op \in [Procs -> Op]
    BY <1>2 DEF Idle, Op
  <2>3. buf \in [Bufs -> Buf]
    BY <1>1 DEF Buf, Holder
  <2>4. disk_wrote \in BOOLEAN /\ fs_synced \in BOOLEAN
    BY <1>2
  <2> QED
    BY <2>1, <2>2, <2>3, <2>4 DEF Typed
<1>6. Wanted
  BY <1>3 DEF Wanted, Asking, Holding, Waiting
<1>7. Devices
  BY <1>2, <1>3, <1>4, BlockNames DEF Devices, DiskUnused
<1>8. Cached(buf, img, op)
  <2>1. \A b \in Bufs : buf[b].holder \notin Procs
    BY <1>4, BlockAssumption
  <2>2. \A b \in Bufs : Sound(buf[b], Holds(img, buf[b].blk), At(buf, op, b))
    BY <1>4 DEF Sound
  <2> QED
    BY <1>3, <1>4, <2>1, <2>2 DEF Cached, Unique, Holding, Waiting
<1>9. Flushed
  BY <1>2, <1>3 DEF Flushed, Flushing
<1>10. Disk!SInit
  <2>1. ASSUME NEW k \in Blocks
        PROVE  ContentsOf(buf, img)[k] = x
    <3>1. \A b \in Bufs : buf[b].blk # k
      BY <1>4, BlockNames
    <3>2. ContentsOf(buf, img)[k] = Holds(img, k)
      BY <3>1, HasNot
    <3> QED
      BY <1>1, <3>2, BlockNames DEF Holds, Files
  <2>2. Contents = [k \in Blocks |-> x]
    <3>1. ContentsOf(buf, img) = [k \in Blocks |-> ContentsOf(buf, img)[k]]
      BY DEF ContentsOf
    <3> QED
      BY <2>1, <3>1, ContentsAre
  <2>3. Using = [p \in Procs |-> {}]
    BY <1>3, UsingIs DEF UsingOf
  <2> QED
    BY <1>1, <2>2, <2>3 DEF Disk!SInit
<1> QED
  BY <1>5, <1>6, <1>7, <1>8, <1>9, <1>10 DEF Inv

LEMMA InvNext ==
  ASSUME Inv, [Next]_vars, Assumed = Assumptions, "sd" \in Door
  PROVE  Inv' /\ [Disk!SNext]_(Disk!svars)
<1>1. /\ {"root_first", "root_kept", "held_alone"} \subseteq Assumed
      /\ {"raw_unmounted", "sync_last"} \subseteq Assumed
  BY DEF Assumptions
<1>2. CASE End
  <2>1. op' = op /\ reg' = reg
    BY <1>2 DEF End
  <2> QED
    BY <1>2, <2>1, EndStep, StillStep
<1>3. CASE UNCHANGED vars
  <2>1. UNCHANGED <<disk, buf, fs_synced, op, ended>> /\ op' = op /\ reg' = reg
    BY <1>3 DEF vars, disk
  <2>2. reg' \in Val
    BY <2>1 DEF Inv, Typed
  <2> QED
    BY <2>1, <2>2, ReadsStep, StillStep
<1>4. ASSUME NEW p \in Procs, Step(p)
      PROVE  Inv' /\ [Disk!SNext]_(Disk!svars)
  BY <1>1, <1>4, GetsMaps, AwaitsMaps, UsesMaps, LetsGoMaps, RawMaps, OthersMap DEF Step
<1> QED
  BY <1>2, <1>3, <1>4 DEF Next

(* The cache and the images are one shared disk: a read returns what was   *)
(* last written to the block, whether that is in a buffer, on its way or   *)
(* in an image, and whichever intercept completed the transfers            *)
(* (cpu.c:1114-1228).  The drivers of the root's device may be intercepted *)
(* or not; the disk's is.                                                  *)
THEOREM OneDisk ==
  ASSUME Assumed = Assumptions, "sd" \in Door
  PROVE  Spec => Faithful
<1>1. Init => Inv /\ Disk!SInit
  BY InvInit
<1>2. Inv /\ [Next]_vars => Inv' /\ [Disk!SNext]_(Disk!svars)
  BY InvNext
<1> QED
  BY <1>1, <1>2, PTL DEF Spec, Faithful, Disk!SSpec

(* A session that wrote to the image and ends without the warning has left *)
(* no block behind in the cache (sysmode.c:212-233).                       *)
THEOREM NothingLeftBehind ==
  ASSUME Assumed = Assumptions, "sd" \in Door
  PROVE  Spec => []QuietEndIsClean
<1>1. Init => Inv
  BY InvInit
<1>2. Inv /\ [Next]_vars => Inv'
  BY InvNext
<1>3. Inv => QuietEndIsClean
  BY InvQuiet
<1> QED
  BY <1>1, <1>2, <1>3, PTL DEF Spec
=============================================================================
