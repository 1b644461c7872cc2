------------------------------ MODULE MCIdioms ------------------------------
(***************************************************************************)
(* Words of twelve bits, bytes of three; operands with every sign and at   *)
(* every limit; fields of every kind of width and offset; floating-point   *)
(* numbers at and around halves, at the limits and behind them.            *)
(***************************************************************************)
EXTENDS Idioms, TLC

MCOperands == {WordOf(n) : n \in {0, 1, 2, 7, 77, 1365, 2047, 2048, 2049, 2730, 4088, 4095}}
MCHalves == {{}, {0}, {5}, {0, 2, 4}, Low}
MCFields == {0, 1, 3, 6, 11} \X {0, 1, 5, 6, 11}
MCFloats == {-8200, -8192, -11, -10, -6, -4, -2, -1, 0, 1, 2, 3, 5, 6, 10, 8188, 8191, NaN}
MCNow == WordOf(2901)
MCPrograms == UNION {
  CompareBranch, CompareHalf(MCHalves), BranchOnZero, ReadField(MCFields),
  ReplaceField(MCFields), Rotate, DivideAndRest, BuildConstant(MCHalves),
  EditHalves(MCHalves), Negate, Discard, FindHighest, ThroughMemory,
  ExchangeMemory, ReadTimer, FloatBranch, ToFloatAndBack, RoundFloat}

=============================================================================
