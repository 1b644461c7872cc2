----------------------------- MODULE DiskLabel ------------------------------
(***************************************************************************)
(* The label in block 0 of the disk image, by which newfs learns how large *)
(* the disk is (sd_ensure_label, emu/devices.c).  The image may be given   *)
(* another size while the emulator does not run.  Sizes are in blocks.     *)
(***************************************************************************)
EXTENDS Naturals

CONSTANTS
  PerCyl,   \* blocks of a cylinder (16 heads by 63 sectors)
  MaxCyl,   \* the most cylinders a label can state (0xffff)
  MaxSize   \* bound: the largest image

ASSUME LabelAssumption == PerCyl \in Nat \ {0} /\ MaxCyl \in Nat \ {0} /\ MaxSize \in Nat

VARIABLES
  size,      \* of the image
  label,     \* the cylinders stated in block 0, 0 if it is not a label
  attached,  \* the emulator runs
  spoilt     \* the guest has written block 0 since

disklabel == <<size, label, attached, spoilt>>

LabelTypeOK ==
  /\ size \in 0 .. MaxSize /\ label \in 0 .. MaxCyl
  /\ attached \in BOOLEAN /\ spoilt \in BOOLEAN

LabelInit ==
  /\ size \in 0 .. MaxSize /\ label = 0 /\ attached = FALSE /\ spoilt = FALSE

Cylinders ==
  LET n == size \div PerCyl IN CASE n = 0 -> 1 [] n > MaxCyl -> MaxCyl [] OTHER -> n

(* At start-up the label is written unless it states this size already; an *)
(* empty image is left alone.                                              *)
Label_mut == IF size = 0 \/ label # 0 THEN label ELSE Cylinders
Label == IF size = 0 THEN label ELSE Cylinders

Attach ==
  /\ ~attached /\ attached' = TRUE /\ spoilt' = FALSE
  /\ label' = Label /\ UNCHANGED size

Detach == attached /\ attached' = FALSE /\ UNCHANGED <<size, label, spoilt>>

(* The guest writes something else over block 0.                           *)
KSpoil == attached /\ label' = 0 /\ spoilt' = TRUE /\ UNCHANGED <<size, attached>>

KResize ==
  /\ ~attached
  /\ \E n \in 0 .. MaxSize : size' = n /\ label' = IF n = 0 THEN 0 ELSE label
  /\ UNCHANGED <<attached, spoilt>>

LabelNext == Attach \/ Detach \/ KSpoil \/ KResize

(* "The GEOMETRY FOLLOWS THE FILE, on every attach" (devices.c:207): after *)
(* any resizing, every block the label announces is in the image, and less *)
(* than a cylinder of the image is out of reach, up to the largest a label *)
(* can state.  An image below a cylinder is announced as a whole one.      *)
LabelFits ==
  attached /\ ~spoilt /\ size >= PerCyl =>
    /\ label * PerCyl <= size
    /\ size - label * PerCyl < PerCyl \/ label = MaxCyl
=============================================================================
