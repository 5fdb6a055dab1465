SPECIFICATION Spec
CHECK_DEADLOCK FALSE
SYMMETRY TaskSymmetry
CONSTANTS
  Buckets <- TwoMetrics
  Metrics <- BothMetrics
  MetricOf <- MetricOfWindow
  PerSeconds <- SecondsOfWindow
  Configs <- ChangingMetrics
  StartConfig <- Full
  Limits = {1}
  Tasks = {t1,t2}
  MaxIds = 2
  Usages <- JustTwo
  Actuals <- JustZero
  RefundedCap = 1
  MaxElapsed = 1
  MaxSkew = 0
  MaxStored = 6
  MaxGen = 1
  Replays = {1}
  t1 = t1
  t2 = t2
INVARIANT TypeOK
INVARIANT DeliveredIsLive
INVARIANT NoOrphanCharge
INVARIANT MarkersDisjoint
PROPERTY ImplementsLedger
