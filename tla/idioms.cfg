SPECIFICATION Spec
CONSTANTS
  W = 12
  Programs <- MCPrograms
  Operands <- MCOperands
  Floats <- MCFloats
  NaN = NaN
  Now <- MCNow
INVARIANTS BranchesMeanRelations BitsMeanNumbers ArithmeticAgrees MemoryIsBigEndian
CHECK_DEADLOCK FALSE
