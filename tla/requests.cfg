SPECIFICATION ServerSpec
CONSTANTS
  users = users
  plain = plain
  profile = profile
  Routers = {users, plain, profile}
  PathOf <- MCPathOf
  NoRouter = NoRouter
  Methods = {"get"}
  BottomUp = TRUE
  MaxMiddlewares = 2
  MaxHandlers = 2
  DomainRouters <- MCDomainRouters
  Prefix <- MCPrefix
  NumRootMiddlewares = 2
  N = 4
INVARIANTS
  RoutesAreTheTree
  HandlerIsBehindItsRouters
  ErrorsAreHandledOnce
  ThePassedRespond
CHECK_DEADLOCK FALSE
