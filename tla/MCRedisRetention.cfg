SPECIFICATION Spec
CHECK_DEADLOCK FALSE
CONSTANTS
  Buckets <- Window
  PerSeconds <- SecondsOf
  Procs <- JustAsync
  Callers = {t1}
  Tasks = {t1}
  Threads = {}
  ProcOf <- ProcOfCaller
  Configs <- Changing
  StartConfig <- Two
  MaxIds = 1
  BucketTTL = 4
  DedupTTL = 3
  OverrideTTL = 3
  Lifetime = 1
  MaxTime = 8
  Usages = {2}
  Actuals = {4}
  Recovering = {}
  Limits = {1}
  Bounds <- Mortal
  MaxTries = 1
  MaxEvictions = 1
  t1 = t1
 
 
INVARIANT ExpiryIsNotLoss
