SPECIFICATION Spec
CONSTANTS
  users = users
  orders = orders
  mails = mails
  Root = users
  Joins <- MCJoins
  None = None
  MaxId = 6
  Matching = {1}
  Queries <- MCQueries
  Databases <- MCDatabases
INVARIANTS
  JoinsRelate
  CreatesAreWhole
  WritesAreAsked
