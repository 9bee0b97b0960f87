SPECIFICATION FairSpec
CONSTANTS
  user = user
  post = post
  tag = tag
  name = name
  author = author
  d1 = d1
  d2 = d2
  None = None
  Models = {user, post, tag}
  Fields = {name, author}
  Domains <- TwoDomains
  DomainOf <- Placed
  RelatedTo <- Foreign
  NewDefinitions <- AloneOrWritten
  MaxEdits = 3
  MaxFieldEdits = 1
  MaxRuns = 3
  MaxStops = 1
INVARIANTS
  UneditedModelsAreRecorded
  TablesAreMadeOnce
PROPERTIES
  RelatedModelsComeFirst
  NamesSettle
CHECK_DEADLOCK FALSE
