SPECIFICATION Spec
CONSTANTS
  Runners = {r1, r2}
  NumFiles = 3
  NumOperations = 2
  TableFile = 1
  Repeatable = {1, 3}
  SafeTransactions = FALSE
  NewestFirst = FALSE
  MaxFaults = 1
SYMMETRY Symmetry
INVARIANTS
  WholeUnlessFaulty
CHECK_DEADLOCK FALSE
