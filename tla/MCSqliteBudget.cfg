SPECIFICATION AccountingSpec
CHECK_DEADLOCK FALSE
SYMMETRY EngineSymmetry
CONSTANTS
  Buckets <- Window
  Metrics <- TokensOnly
  MetricOf <- MetricOfWindow
  PerSeconds <- SecondsOfWindow
  Engines = {e1, e2}
  Deployments <- Shared
  MaxIds = 1
  BucketTTL = 4
  DedupTTL = 3
  Lifetime = 1
  PruneBatch = 1
  Tasks = {t1}
  Actuals <- JustZero
  Replays = {1}
  e1 = e1
  e2 = e2
  e3 = e3
  t1 = t1
INVARIANT OneSharedBudget
INVARIANT NeverMore
