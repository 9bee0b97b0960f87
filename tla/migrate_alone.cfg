SPECIFICATION FairSpec
CONSTANTS
  Runners = {r1}
  NumFiles = 4
  NumOperations = 2
  TableFile = 2
  Repeatable = {1, 2, 3, 4}
  SafeTransactions = TRUE
  NewestFirst = TRUE
  MaxFaults = 2
INVARIANTS
  HistoryInv
  OnlyFilesAtRiskRunTwice
PROPERTIES
  KeepsHistory
  EveryRunIsRecorded
  EveryFileRuns
CHECK_DEADLOCK FALSE
