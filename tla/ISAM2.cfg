SPECIFICATION LagSpec
CONSTANTS
  Setups <- MCSetups
  Lag = 2
CHECK_DEADLOCK FALSE
INVARIANTS
  StateIsSound
  TreeFollowsFactors
  LinearFactorsAreFresh
  MarginalsStayPut
  EstimateReachesAll
  MarginalizedAreLeaves
  WindowIsKept
