SPECIFICATION Spec
CONSTANTS
  p1 = p1
  p2 = p2
  p3 = p3
  Procs <- MCTriple
  First = p1
  InitPid = init
  NFds = 2
  NStd = 2
  FDSETS = 4
  Devices <- MCDisk
  Assumed <- MCAll
INVARIANT Routed
PROPERTY Isolated
CHECK_DEADLOCK FALSE
