SPECIFICATION InferenceSpec
CONSTANT Setups <- MCSetups
CHECK_DEADLOCK FALSE
INVARIANTS
  VariableIndexIsExact
  CliquesAreMaximal
  TreeFollowsOrder
  EliminationKeepsProduct
  TreeIsSound
  ProductIsKept
  CachesAreFresh
  JointsAreDensities
PROPERTIES
  SlotsAreStable
  OnlyTheTopChanges
