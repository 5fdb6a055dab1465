SPECIFICATION AccountingSpec
CHECK_DEADLOCK FALSE
SYMMETRY TaskSymmetry
CONSTANTS
  Buckets <- TwoMetrics
  Metrics <- BothMetrics
  MetricOf <- MetricOfWindow
  PerSeconds <- SecondsOfWindow
  Configs <- ChangingMetrics
  StartConfig <- Full
  Limits = {}
  Tasks = {t1,t2}
  MaxIds = 2
  Usages <- OneOrTwo
  Actuals <- JustZero
  RefundedCap = 1
  MaxElapsed = 2
  MaxSkew = 0
  MaxStored = 20
  MaxGen = 2
  Replays = {}
  MaxTicks = 0
  t1 = t1
  t2 = t2
PROPERTY RefundsCreditOwnBucket
