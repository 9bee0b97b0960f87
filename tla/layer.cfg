SPECIFICATION FairSpec
CONSTANTS
  users = users
  orders = orders
  mail = mail
  l1 = l1
  l2 = l2
  Emitters = {users, orders, mail}
  Layers = {l1, l2}
  Channels = {c1, c2}
  Emits = {e1}
  NoEmit = NoEmit
  None = None
  c1 = c1
  c2 = c2
  OptionsOf <- FewOptions
  LayerOf <- TwoProcesses
  Started = {users, mail}
  MaxDepartures = 1
  Wildcards = FALSE
INVARIANTS
  StayersAreCalled
  EventsStayOnTheirChannels
PROPERTIES
  ClosedLayersStayQuiet
  AnswersComeBack
CHECK_DEADLOCK FALSE
