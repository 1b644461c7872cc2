SPECIFICATION FairSpec
CONSTANTS
  t1 = t1
  t2 = t2
  d1 = d1
  d2 = d2
  CodeLen = 7
  Pages <- MCPages
  Code <- MCCode
  TextPage <- MCTextPage
  Wired <- MCSlotPages
  VBR = 100
  StoreMod = 2
  MaxDepth = 2
INVARIANTS ReturnPath AccessDescribed
PROPERTIES Transparent EveryExceptionEnds
