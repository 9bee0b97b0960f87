SPECIFICATION FairSpec
CONSTANTS
  default = default
  replica = replica
  users = users
  databases = databases
  Managers = {m1, m2}
  Databases <- TwoEngines
  Unnamed = Unnamed
  Unknown = Unknown
  Queries = {q1}
  App = App
  None = None
  Domains <- TwoDomains
  Database = databases
  Signals = {s1, s2}
INVARIANTS
  AnswersAreUsable
  OneAdapterUnderInit
  ExitIsGraceful
PROPERTIES
  InitServesQueries
  SignalsEndTheProcess
CHECK_DEADLOCK FALSE
