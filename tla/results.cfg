SPECIFICATION FairSpec
CONSTANTS
  Emits = {e1, e2}
  Handlers = {h1, h2}
  h1 = h1
  h2 = h2
  Reach <- FewCopies
  Networked = {e2}
  NoEmit = NoEmit
INVARIANTS
  CalledOnce
  NeverMissed
  NoEntryAfterResults
PROPERTIES
  KeepsContract
  AnswersAreWhole
CHECK_DEADLOCK FALSE
