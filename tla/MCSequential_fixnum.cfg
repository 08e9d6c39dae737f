\* Rational arithmetic with ratios whose numerator or denominator is F + 1.
SPECIFICATION RationalSpec
CONSTANTS
  Idle = Idle
  RealOperands <- MCEdgeReals
  W = 6
  Junk = 43
  P = 3
  Bias = 3
  ExpMax = 18
  MaxBits = 30
  Operands <- MCOperands
  Counts <- MCCounts
INVARIANTS UnreachableIsNotReached
CHECK_DEADLOCK FALSE
