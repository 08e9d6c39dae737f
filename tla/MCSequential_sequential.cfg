SPECIFICATION SequentialSpec
CONSTANTS
  Idle = Idle
  RealOperands <- MCReals
  W = 6
  Junk = 43
  P = 3
  Bias = 3
  ExpMax = 18
  MaxBits = 30
  Operands <- MCOperands
  Counts <- MCCounts
INVARIANTS ArithmeticIsExact HopscotchIsExact
CHECK_DEADLOCK FALSE
