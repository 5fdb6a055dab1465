SPECIFICATION Spec
CHECK_DEADLOCK FALSE
CONSTANTS
  Buckets <- TwoWindows
  Metrics <- TokensOnly
  MetricOf <- MetricOfWindow
  PerSeconds <- SecondsOfWindow
  Engines = {e1, e2, e3}
  Deployments <- Aged
  MaxIds = 1
  BucketTTL = 4
  DedupTTL = 3
  Lifetime = 1
  PruneBatch = 1
  Tasks = {t1}
  Actuals <- JustZero
  Replays = {}
  e1 = e1
  e2 = e2
  e3 = e3
  t1 = t1
INVARIANT DebtOutlivesIdleness
INVARIANT DrainsOnlyLosses
PROPERTY OverridesKeepTheirTerm
