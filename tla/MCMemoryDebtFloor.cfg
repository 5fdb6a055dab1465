SPECIFICATION Spec
CHECK_DEADLOCK FALSE
CONSTANTS
  Buckets <- OneWindow
  Metrics <- TokensOnly
  MetricOf <- MetricOfWindow
  PerSeconds <- SecondsOfWindow
  Configs <- FixedConfig
  StartConfig <- Full
  Limits = {1}
  Tasks = {t1}
  MaxIds = 3
  Usages <- JustThree
  Actuals <- ZeroOrThree
  RefundedCap = 1
  MaxElapsed = 2
  MaxSkew = 0
  MaxStored = 20
  MaxGen = 1
  Replays = {}
  t1 = t1
PROPERTY RecordingNeverCredits
