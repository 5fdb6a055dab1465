SPECIFICATION Spec
CHECK_DEADLOCK FALSE
SYMMETRY TaskSymmetry
CONSTANTS
  Buckets <- Window
  Metrics <- TokensOnly
  MetricOf <- MetricOfWindow
  PerSeconds <- SecondsOfWindow
  Engines = {e1}
  Deployments <- Alone
  MaxIds = 2
  BucketTTL = 4
  DedupTTL = 3
  Lifetime = 1
  PruneBatch = 1
  Tasks = {t1, t2}
  Actuals <- JustZero
  Replays = {1}
  e1 = e1
  e2 = e2
  e3 = e3
  t1 = t1
  t2 = t2
INVARIANT TypeOK
INVARIANT DeliveredIsLive
INVARIANT NoOrphanCharge
PROPERTY ImplementsLedger
