SPECIFICATION Spec
CONSTANTS
  Handlers = {h1, h2, h3}
  Groups = {g1, g2, g3}
  NoGroup = NoGroup
  NoKey = NoKey
  NoEmit = NoEmit
  Wildcards = FALSE
  ListenKeys <- OneKey
  Overlap <- AddsTogether
SYMMETRY Symmetry
INVARIANTS
  ListenersAreCalled
CHECK_DEADLOCK FALSE
