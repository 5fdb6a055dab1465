SPECIFICATION FairSpec
CHECK_DEADLOCK FALSE
CONSTANTS
  Rids = {1, 2, 3}
  Users = {u1, u2}
  Closers = {k1, k2}
  MaxInFlight = 2
  RefundedCap = 1
  Deployments <- All
  u1 = u1
  u2 = u2
  k1 = k1
  k2 = k2
INVARIANT TypeOK
INVARIANT ChargesAreTracked
INVARIANT InFlightIsCharged
INVARIANT RaisedIsRefunded
INVARIANT ClosedBackendIsIdle
INVARIANT CreditedOnce
INVARIANT SettledFreesSlot
INVARIANT SlotsWithinCap
PROPERTY CloseReturns
