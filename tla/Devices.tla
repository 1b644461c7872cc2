------------------------------ MODULE Devices -------------------------------
(***************************************************************************)
(* The devices and host files the emulator serves: the SCSI adaptor, the   *)
(* diagnostic ring of the front end, the boot log, the raw disk, /hosttar, *)
(* the disk's label, and the boot image.  A behaviour uses one of them.    *)
(***************************************************************************)
EXTENDS Adaptor, FrontEnd, HostFiles, DiskLabel, BootImage

CONSTANTS DiskCalls, HostCalls   \* Calls, by the file they are on

ASSUME DevicesAssumption == DiskCalls \subseteq Calls /\ HostCalls \subseteq Calls

VARIABLE device

files_ == <<hostfiles, disklabel, bootimage>>
vars == <<adaptor, frontend, hostfiles, disklabel, bootimage, device>>

Init ==
  /\ AdaptorInit /\ FrontEndInit /\ HostFilesInit
  /\ device \in {"adaptor", "ring", "log", "disk", "hosttar", "label", "boot"}
  /\ LabelInit /\ (device = "label" \/ size = 0)
  /\ BootInit /\ (device = "boot" \/ (filesize = 0 /\ path = << >>))

TypeOK ==
  /\ AdaptorTypeOK /\ FrontEndTypeOK /\ HostFilesTypeOK /\ LabelTypeOK /\ BootTypeOK

UsesAdaptor ==
  device = "adaptor" /\ AdaptorNext /\ UNCHANGED <<frontend, files_, device>>
UsesRing ==
  device = "ring" /\ RingNext /\ UNCHANGED <<adaptor, files_, device>>
UsesLog ==
  device = "log" /\ LogNext /\ UNCHANGED <<adaptor, files_, device>>
UsesHostFiles ==
  /\ device \in {"disk", "hosttar"}
  /\ HostFilesNext(IF device = "disk" THEN DiskCalls ELSE HostCalls)
  /\ UNCHANGED <<adaptor, frontend, disklabel, bootimage, device>>
UsesLabel ==
  device = "label" /\ LabelNext /\ UNCHANGED <<adaptor, frontend, hostfiles, bootimage, device>>
Boots ==
  device = "boot" /\ BootNext /\ UNCHANGED <<adaptor, frontend, hostfiles, disklabel, device>>

Next == UsesAdaptor \/ UsesRing \/ UsesLog \/ UsesHostFiles \/ UsesLabel \/ Boots

(* The driver gets on with a request it has begun, and a kernel waiting    *)
(* for the front end keeps loading the index.                              *)
Spec ==
  /\ Init /\ [][Next]_vars
  /\ WF_vars(UsesAdaptor)
  /\ WF_vars(device = "ring" /\ (LoadIndex \/ DrainByte \/ DrainEnd)
             /\ UNCHANGED <<adaptor, files_, device>>)

(* No wait is for ever: not for the adaptor to become ready, for a free    *)
(* slot, for a completion the emulator does not signal, or for a lock the  *)
(* driver holds itself (cpu.c:1009-1101); and no device leaves its types   *)
(* on the way.                                                             *)
RequestsEnd == []TypeOK /\ ((device = "adaptor" /\ pc # "idle") ~> (pc = "idle"))
=============================================================================
