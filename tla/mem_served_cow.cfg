SPECIFICATION Spec
CONSTANTS
  p1 = p1
  p2 = p2
  f1 = f1
  f2 = f2
  f3 = f3
  Procs <- MCProcs
  First = p1
  NPages = 2
  Frames <- MCFrames
  None = none
  Val <- MCVal
  TlbSize = 2
  Assumed <- MCShared
  MaxInput = 1
SYMMETRY MCSymmetry
PROPERTY Private
