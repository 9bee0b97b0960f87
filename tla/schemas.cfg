SPECIFICATION Spec
CONSTANTS
  c1 = c1
  c2 = c2
  Calls = {c1, c2}
  Root = "root"
  Trees <- MCTrees
  AdapterHasUnion = FALSE
SYMMETRY Symmetry
INVARIANTS
  AcceptedIffValid
  FallbacksAreComplete
  InternalsAreInTheAnswer
