SPECIFICATION Spec
CONSTANTS
  Runners = {r1}
  NumFiles = 2
  NumOperations = 2
  TableFile = 1
  Repeatable = {}
  SafeTransactions = FALSE
  NewestFirst = TRUE
  MaxFaults = 1
INVARIANTS
  AllOrNothing
CHECK_DEADLOCK FALSE
