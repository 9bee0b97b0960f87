SPECIFICATION Spec
CONSTANTS
  Handlers = {h1, h2, h3, h4}
  Groups = {g1, g2, g3, g4}
  NoGroup = NoGroup
  NoKey = NoKey
  NoEmit = NoEmit
  Wildcards = TRUE
  ListenKeys <- MixedKeys
  Overlap <- AddsOrClears
SYMMETRY Symmetry
INVARIANTS
  RegistryInv
  EmitCallsExactlyTheWanted
  NothingLeftBehind
  UnsubscribeNeverThrows
PROPERTIES
  ImplementsSubscriptions
CHECK_DEADLOCK FALSE
