SPECIFICATION FairSpec
CHECK_DEADLOCK FALSE
CONSTANTS
  Buckets = {"s"}
  Metrics <- TokensOnly
  MetricOf <- MetricOfWindow
  PerSeconds <- SecondsOfWindow
  Configs <- FixedConfig
  StartConfig <- Full
  Limits = {1}
  Tasks = {t1,t2}
  MaxIds = 2
  Usages <- JustTwo
  Actuals <- ZeroOrThree
  RefundedCap = 1
  MaxElapsed = 4
  MaxSkew = 1
  MaxStored = 4
  MaxGen = 1
  Replays = {}
  t1 = t1
  t2 = t2
PROPERTY CallsReturn
