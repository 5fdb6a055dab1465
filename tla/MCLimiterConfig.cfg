SPECIFICATION Spec
CHECK_DEADLOCK FALSE
SYMMETRY CallerSymmetry
CONSTANTS
  None = None
  Callers = {t1, t2}
  Models = {m1, m2}
  Configs <- Quotas
  StartConfig <- Both
  Adjusted = {"s", "m"}
  Values = {4}
  MaxAliases = 2
  Instances <- Small
  t1 = t1
  t2 = t2
  m1 = m1
  m2 = m2
INVARIANT OneSignature
INVARIANT ServedInScope
INVARIANT ReservationsKeepBackend
INVARIANT LimitsInForce
