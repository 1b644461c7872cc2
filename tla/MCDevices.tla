----------------------------- MODULE MCDevices ------------------------------
(***************************************************************************)
(* Two command slots and two windows, requests of up to two blocks on a    *)
(* disk of two, reaching behind its end; a ring of three bytes; lines of   *)
(* two letters.  Two processes with the same descriptor number for the raw *)
(* disk, of three sectors at most, or with two descriptors of /hosttar,    *)
(* two cells and one of padding, for opens that are not all closed.      *)
(* Cylinders of three blocks, of which a label can state three.  Two       *)
(* direct pointers and two in a pointer block.                             *)
(***************************************************************************)
EXTENDS Devices, TLC

MCAll == Assumptions

Call(op, file, whence, n, x) == [op |-> op, file |-> file, whence |-> whence, n |-> n, x |-> x]
MCDiskCalls ==
  {Call("open", "disk", "set", 0, 0), Call("close", "disk", "set", 0, 0),
   Call("read", "disk", "set", 2, 0), Call("write", "disk", "set", 1, 1),
   Call("lseek", "disk", "cur", -1, 0), Call("lseek", "disk", "end", 0, 0),
   Call("getblock", "disk", "set", 1, 0), Call("putblock", "disk", "set", 1, 0)}
MCHostCalls ==
  {Call("open", "host", "set", 0, 0), Call("close", "host", "set", 0, 0),
   Call("read", "host", "set", 2, 0),
   Call("lseek", "host", "cur", -1, 0), Call("lseek", "host", "end", 0, 0)}
MCCalls == MCDiskCalls \cup MCHostCalls
MCArchive == <<1, 1>>
MCImage == <<1>>

MCDirs ==
  (ROOT :> <<[name |-> "vmunix", ino |-> 0], [name |-> "dir", ino |-> 3],
             [name |-> "vmunix", ino |-> 4], [name |-> "dev", ino |-> 4]>>)
  @@ (3 :> <<[name |-> "vmunix", ino |-> 4]>>)
MCPaths ==
  {<<"vmunix">>, <<"dir", "vmunix">>, <<"dir">>, <<"vmunix", "dir">>, <<"none">>, << >>}
=============================================================================
