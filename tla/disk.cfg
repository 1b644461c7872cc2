SPECIFICATION FairSpec
CONSTANTS
  p1 = p1
  p2 = p2
  b1 = b1
  b2 = b2
  Procs <- MCProcs
  Bufs <- MCBufs
  RootBlocks <- MCRoot
  SdBlocks <- MCSd
  Door <- MCDoor
  Val <- MCVal
  Assumed <- MCAll
INVARIANT QuietEndIsClean
PROPERTIES Faithful InputOutputEnds
CHECK_DEADLOCK FALSE
