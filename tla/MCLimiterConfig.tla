--------------------------- MODULE MCLimiterConfig ---------------------------
(* Small instances of LimiterConfig: windows "s" and "m". *)
EXTENDS LimiterConfig, TLC

Both == [s |-> 1, m |-> 2]
Higher == [s |-> 2, m |-> 3]
OnlyS == [s |-> 1]

Quotas == {Both, Higher, OnlyS}

Bounds(rollouts, builds, sets, faults, sweeps) ==
  [rollouts |-> rollouts, builds |-> builds, sets |-> sets, faults |-> faults,
   sweeps |-> sweeps]
Async(ms, bounds) == [limiter |-> "async", models |-> ms, left |-> bounds]
Sync(ms, bounds) == [limiter |-> "sync", models |-> ms, left |-> bounds]

Some == {CHOOSE m \in Models : TRUE}
Small == {Async(Some, Bounds(2, 3, 1, 1, 1)),
          Async(Models, Bounds(2, 2, 0, 0, 1)),
          Sync(Some, Bounds(1, 3, 1, 1, 1))}

CallerSymmetry == Permutations(Callers)

=============================================================================
