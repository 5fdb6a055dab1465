SPECIFICATION AccountingSpec
CHECK_DEADLOCK FALSE
SYMMETRY TaskSymmetry
CONSTANTS
  Buckets <- TwoWindows
  Metrics <- TokensOnly
  MetricOf <- MetricOfWindow
  PerSeconds <- SecondsOfWindow
  Configs <- ChangingConfigs
  StartConfig <- WithoutM
  Limits = {1}
  Tasks = {t1,t2}
  MaxIds = 2
  Usages <- JustTwo
  Actuals <- ZeroOrThree
  RefundedCap = 1
  MaxElapsed = 2
  MaxSkew = 1
  MaxStored = 20
  MaxGen = 1
  Replays = {}
  MaxTicks = 1
  t1 = t1
  t2 = t2
 
INVARIANT NothingLost
INVARIANT OpenChargesAreHeld
