SPECIFICATION Spec
CONSTANTS
  t1 = t1
  t2 = t2
  d1 = d1
  d2 = d2
  CodeLen = 7
  Pages <- MCPages
  Code <- MCCode
  TextPage <- MCTextPage
  Wired <- MCNoPages
  VBR = 100
  StoreMod = 2
  MaxDepth = 1
PROPERTY Transparent
