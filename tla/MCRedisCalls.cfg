SPECIFICATION Spec
CHECK_DEADLOCK FALSE
SYMMETRY TaskSymmetry
CONSTANTS
  Buckets <- TwoWindows
  PerSeconds <- SecondsOf
  Procs <- AsyncAndSync
  Callers = {t1, t2, s1}
  Tasks = {t1, t2}
  Threads = {s1}
  ProcOf <- ProcOfCaller
  Configs = {}
  StartConfig <- One
  MaxIds = 2
  BucketTTL = 4
  DedupTTL = 3
  OverrideTTL = 3
  Lifetime = 1
  MaxTime = 0
  Usages = {1}
  Actuals = {0}
  Recovering = {1}
  Limits = {}
  Bounds <- Troubled
  MaxTries = 2
  MaxEvictions = 0
  t1 = t1
  t2 = t2
  s1 = s1
INVARIANT TypeOK
INVARIANT StaleWritesNeedAStall
INVARIANT DeliveredIsLive
INVARIANT NoOrphanCharge
INVARIANT CreditedOnce
PROPERTY ImplementsLedger
