----------------------- MODULE SqliteAccountingProofs -----------------------
(***************************************************************************)
(* The processes that share a SQLite database share one budget, for every  *)
(* number of processes and calls, every quota, window and lifetime the     *)
(* builder accepts, and every clock correction.                            *)
(***************************************************************************)
EXTENDS SqliteAccounting, SqliteProofs

(* Every accounted step is a step of the backend. *)
LEMMA AccountedStep ==
  ASSUME Inv0, [AccountingNext]_allvars
  PROVE  [Next]_vars
<1>1. ASSUME NEW t \in Tasks, NEW e \in Engines,
             QuietTransaction(t, e) \/ AccountConsume(t, e) \/ AccountUndo(t, e)
               \/ AccountRefund(t, e)
      PROVE  Next
  BY <1>1 DEF QuietTransaction, AccountConsume, AccountUndo, AccountRefund,
              Transaction, Next
<1>2. ASSUME NEW t \in Tasks, NEW e \in Engines, QuietCall(t, e) PROVE Next
  BY <1>2 DEF QuietCall, Call, Next
<1>3. ASSUME NEW t \in Tasks, NEW e \in Engines, NEW r \in Ids, NEW u \in Usages,
             AccountRecord(t, e, r, u)
      PROVE  Next
  BY <1>3 DEF AccountRecord, Call, Next
<1>4. ASSUME NEW t \in Tasks, Outcome(t) PROVE Next
  BY <1>4 DEF Next
<1>5. ASSUME NEW e \in Fleet, AccountStart(e) \/ Close(e) \/ Crash(e) PROVE Next
  <2>1. StartConfig \in Configs
    BY DeploymentTypes DEF Inv0, StoreInv, StoreTypes, ClockTypes
  <2>2. Operate(e)
    BY <1>5, <2>1 DEF AccountStart, Operate
  <2> QED BY <2>2 DEF Next
<1>6. AccountLose => Next
  BY DEF AccountLose, Next
<1>7. AccountTick \/ (ClockSetBack /\ UNCHANGED calls) => Next
  BY DEF AccountTick, Next, Clock
<1>8. UNCHANGED allvars => UNCHANGED vars
  BY DEF allvars
<1> QED BY <1>1, <1>2, <1>3, <1>4, <1>5, <1>6, <1>7, <1>8 DEF AccountingNext

-----------------------------------------------------------------------------
(* Arithmetic of the refill *)

(* More time refills more. *)
LEMMA MoreRefill ==
  ASSUME NEW x \in Nat, NEW y \in Nat, NEW m \in Nat, x <= y
  PROVE  x * m \in Nat /\ y * m \in Nat /\ x * m <= y * m
<1>1. y - x \in Nat
  OBVIOUS
<1>2. (y - x) * m \in Nat
  BY <1>1
<1>3. y * m = x * m + (y - x) * m
  OBVIOUS
<1>4. x * m \in Nat /\ y * m \in Nat
  OBVIOUS
<1> QED BY <1>2, <1>3, <1>4

(* One second more of refill. *)
LEMMA OneMoreSecond ==
  ASSUME NEW x \in Nat, NEW m \in Nat
  PROVE  (x + 1) * m = x * m + m
OBVIOUS

(* The buckets of the fleet and what they may hold *)
LEMMA TrackedTypes ==
  ASSUME deployment \in Deployments
  PROVE  /\ Tracked \subseteq Buckets
         /\ \A b \in Tracked :
              /\ b \in Buckets
              /\ StartConfig[b] \in Nat \ {0} /\ PerSeconds[b] \in Nat \ {0}
              /\ Full(b) \in Nat
              /\ BucketTTL \in Nat /\ BucketTTL >= 2 * PerSeconds[b]
<1>1. IsQuota(StartConfig)
  BY DeploymentTypes
<1>2. Tracked \subseteq Buckets /\ \A b \in Tracked : StartConfig[b] \in Nat \ {0}
  BY <1>1 DEF IsQuota, Tracked
<1>3. \A b \in Tracked : /\ PerSeconds[b] \in Nat \ {0}
                         /\ BucketTTL \in Nat /\ BucketTTL >= 2 * PerSeconds[b]
  BY <1>2, StoreAssumption
<1>4. \A x, y \in Nat : x * y \in Nat
  OBVIOUS
<1> QED BY <1>2, <1>3, <1>4 DEF Full

(* What row rw of bucket b holds at second at *)
Value(b, rw, at) ==
  Capped(b, rw.cap + Greater(0, at - rw.last) * StartConfig[b])

(* The seconds that are left to a row *)
Left(rw, at) == Greater(0, rw.exp - at)

(* An amount is an integer and at most one full bucket. *)
LEMMA ValueType ==
  ASSUME deployment \in Deployments, NEW b \in Tracked, NEW rw \in Row,
         NEW at \in Nat
  PROVE  /\ Value(b, rw, at) \in Int /\ Value(b, rw, at) <= Full(b)
         /\ Left(rw, at) \in Nat
<1> DEFINE passed == Greater(0, at - rw.last)
<1>1. rw.cap \in Int /\ rw.last \in Nat /\ rw.exp \in Nat
  BY DEF Row
<1>2. passed \in Nat /\ Left(rw, at) \in Nat
  BY <1>1 DEF Greater, Left
<1>3. StartConfig[b] \in Nat /\ Full(b) \in Nat
  BY TrackedTypes
<1>4. Value(b, rw, at) = Lesser(Full(b), rw.cap + passed * StartConfig[b])
  BY DEF Value, Capped
<1> HIDE DEF passed
<1>5. passed * StartConfig[b] \in Nat
  BY <1>2, <1>3, MoreRefill
<1> QED BY <1>1, <1>2, <1>3, <1>4, <1>5 DEF Lesser

(* What the next second brings is what it brings to the eager bucket, less *)
(* only when the row is of the future.                                     *)
LEMMA NextValue ==
  ASSUME deployment \in Deployments, NEW b \in Tracked, NEW rw \in Row,
         NEW at \in Nat
  PROVE  LET refilled == Capped(b, Value(b, rw, at) + StartConfig[b]) IN
         /\ Value(b, rw, at + 1) <= refilled
         /\ rw.last <= at => Value(b, rw, at + 1) = refilled
<1> DEFINE m == StartConfig[b]
           full == Full(b)
           passed == Greater(0, at - rw.last)
           next == Greater(0, (at + 1) - rw.last)
           x == passed * m
           y == next * m
<1>1. rw.cap \in Int /\ rw.last \in Nat
  BY DEF Row
<1>2. /\ passed \in Nat /\ next \in Nat
      /\ next = passed \/ next = passed + 1
      /\ rw.last <= at => next = passed + 1
  BY <1>1 DEF Greater
<1>3. m \in Nat /\ full \in Nat
  BY TrackedTypes
<1>4. Value(b, rw, at) = Lesser(full, rw.cap + x)
  BY DEF Value, Capped
<1>5. Value(b, rw, at + 1) = Lesser(full, rw.cap + y)
  BY DEF Value, Capped
<1>6. Capped(b, Value(b, rw, at) + StartConfig[b])
         = Lesser(full, Value(b, rw, at) + m)
  BY DEF Capped
<1> HIDE DEF passed, next, m, full
<1>7. x \in Nat /\ y \in Nat
  BY <1>2, <1>3, MoreRefill
<1>8. y = x \/ y = x + m
  <2>1. (passed + 1) * m = x + m
    BY <1>2, <1>3, OneMoreSecond
  <2> QED BY <1>2, <2>1
<1>9. rw.last <= at => y = x + m
  <2>1. (passed + 1) * m = x + m
    BY <1>2, <1>3, OneMoreSecond
  <2> QED BY <1>2, <2>1
<1> HIDE DEF x, y
<1>10. Lesser(full, rw.cap + y) <= Lesser(full, Lesser(full, rw.cap + x) + m)
  BY <1>1, <1>3, <1>7, <1>8 DEF Lesser
<1>11. ASSUME rw.last <= at
      PROVE  Lesser(full, rw.cap + y) = Lesser(full, Lesser(full, rw.cap + x) + m)
  <2>1. y = x + m
    BY <1>9, <1>11
  <2> QED BY <1>1, <1>3, <1>7, <2>1 DEF Lesser
<1>12. LET refilled == Lesser(full, Lesser(full, rw.cap + x) + m) IN
       /\ Lesser(full, rw.cap + y) <= refilled
       /\ rw.last <= at => Lesser(full, rw.cap + y) = refilled
  BY <1>10, <1>11
<1> QED BY <1>4, <1>6, <1>5, <1>12

(* A second back takes, and never gives. *)
LEMMA EarlierValue ==
  ASSUME deployment \in Deployments, NEW b \in Tracked, NEW rw \in Row,
         NEW at \in Nat \ {0}
  PROVE  Value(b, rw, at - 1) <= Value(b, rw, at)
<1> DEFINE m == StartConfig[b]
           passed == Greater(0, at - rw.last)
           before == Greater(0, at - 1 - rw.last)
<1>1. rw.cap \in Int /\ rw.last \in Nat
  BY DEF Row
<1>2. passed \in Nat /\ before \in Nat /\ before <= passed
  BY <1>1 DEF Greater
<1>3. m \in Nat /\ Full(b) \in Nat
  BY TrackedTypes
<1>4. /\ Value(b, rw, at) = Lesser(Full(b), rw.cap + passed * m)
      /\ Value(b, rw, at - 1) = Lesser(Full(b), rw.cap + before * m)
  BY DEF Value, Capped
<1> HIDE DEF m, passed, before
<1>5. before * m \in Nat /\ passed * m \in Nat /\ before * m <= passed * m
  BY <1>2, <1>3, MoreRefill
<1> QED BY <1>1, <1>3, <1>4, <1>5 DEF Lesser

(* Whatever the eager bucket owes, a whole lifetime of rows pays it and    *)
(* fills the bucket: the builder asks for two windows.                     *)
LEMMA LifetimePays ==
  ASSUME deployment \in Deployments, NEW b \in Tracked, NEW at \in Nat,
         NEW exp \in Nat, exp >= at + BucketTTL,
         NEW amount \in Int, amount >= - Full(b)
  PROVE  amount + Greater(0, exp - at) * StartConfig[b] >= Full(b)
<1> DEFINE m == StartConfig[b]
           w == PerSeconds[b]
           left == Greater(0, exp - at)
<1>1. /\ m \in Nat /\ w \in Nat
      /\ BucketTTL \in Nat /\ BucketTTL >= 2 * w
  BY TrackedTypes
<1>2. left \in Nat /\ w + w <= left /\ w + w \in Nat
  BY <1>1 DEF Greater
<1>3. Full(b) = m * w
  BY DEF Full
<1> HIDE DEF m, w, left
<1>4. (w + w) * m \in Nat /\ left * m \in Nat /\ (w + w) * m <= left * m
  BY <1>1, <1>2, MoreRefill
<1>5. (w + w) * m = m * w + m * w
  BY <1>1
<1>6. m * w \in Nat
  BY <1>1
<1>7. amount + left * m >= Full(b)
  <2> DEFINE full == m * w  x == left * m
  <2>1. full \in Nat /\ x \in Nat /\ full + full <= x /\ Full(b) = full
    BY <1>3, <1>4, <1>5, <1>6
  <2> HIDE DEF full, x
  <2>2. amount + x >= full
    BY <2>1
  <2> QED BY <2>1, <2>2 DEF x
<1> QED BY <1>7 DEF m, left

-----------------------------------------------------------------------------
(* What an engine finds in a bucket whose limit never changed *)

(* Engine e serves bucket b with the quota of the fleet. *)
ServesPlain(e, b) == Serves(e, b) /\ b \in Tracked /\ Conf(e) = StartConfig

(* A row without an override *)
PlainRow(rw) == rw \in Row /\ rw.over.max = 0

(* A row with a state, and one that an engine finds without *)
Used(rw) == rw.exists /\ ~ rw.fresh
Stateless(rw) == ~ Used(rw) \/ rw.exp <= now

(* The limit in force is the configured one. *)
LEMMA PlainRead ==
  ASSUME NEW e, NEW b, ServesPlain(e, b), NEW rw, PlainRow(rw)
  PROVE  /\ EffectiveMax(e, b, rw) = StartConfig[b]
         /\ Amount(e, b, rw) = IF rw.fresh THEN Full(b) ELSE Value(b, rw, now)
<1>1. EffectiveMax(e, b, rw) = StartConfig[b]
  BY DEF EffectiveMax, OverrideLive, ServesPlain, PlainRow
<1>2. Amount(e, b, rw) =
        IF rw.fresh THEN EffectiveMax(e, b, rw) * PerSeconds[b]
        ELSE Lesser(EffectiveMax(e, b, rw) * PerSeconds[b],
                    rw.cap + Greater(0, now - rw.last) * EffectiveMax(e, b, rw))
  BY DEF Amount, View, calculate_capacity, Uncapped, TimePassed
<1>3. Value(b, rw, now) =
        Lesser(StartConfig[b] * PerSeconds[b],
               rw.cap + Greater(0, now - rw.last) * StartConfig[b])
  BY DEF Value, Capped, Full
<1> QED BY <1>1, <1>2, <1>3 DEF Full

(* A row that was written now, or that is of the future, has not refilled. *)
LEMMA ValueNow ==
  ASSUME deployment \in Deployments, now \in Nat, NEW b \in Tracked,
         NEW rw \in Row, rw.last >= now
  PROVE  Value(b, rw, now) = Capped(b, rw.cap)
<1>1. rw.cap \in Int /\ rw.last \in Nat /\ StartConfig[b] \in Nat
  BY TrackedTypes DEF Row
<1>2. Greater(0, now - rw.last) = 0
  BY <1>1 DEF Greater
<1>3. 0 * StartConfig[b] = 0 /\ rw.cap + 0 = rw.cap
  BY <1>1
<1> QED BY <1>2, <1>3 DEF Value

(* Loading a row that has no override *)
LEMMA PlainLoad ==
  ASSUME deployment \in Deployments, NEW e, NEW b, ServesPlain(e, b),
         NEW rw, PlainRow(rw)
  PROVE  LET new == Load(e, b, rw) IN
         /\ PlainRow(new) /\ new.exists
         /\ Stateless(rw) /\ Suspected(e, b) =>
              /\ ~ new.fresh /\ new.exp >= now + BucketTTL
              /\ Value(b, new, now) = 0
         /\ Stateless(rw) /\ ~ Suspected(e, b) => new.fresh
         /\ ~ Stateless(rw) =>
              /\ ~ new.fresh
              /\ Value(b, new, now) = Value(b, rw, now)
              /\ new.exp >= rw.exp \/ new.exp >= now + BucketTTL
              /\ rw.last <= now => new.last <= now
<1> DEFINE kept == Surviving(rw)
           drained == DrainLost(e, b, kept)
           repaired == RepairFuture(drained)
           loaded == ExtendDebt(e, b, repaired)
<1>0. /\ now \in Nat /\ BucketTTL \in Nat /\ b \in Tracked /\ Serves(e, b)
      /\ now + BucketTTL \in Nat
  BY StoreAssumption DEF Serves, ServesPlain
<1>1. /\ kept \in Row /\ kept.exists /\ kept.over.max = 0
      /\ Stateless(rw) => kept.fresh
      /\ ~ Stateless(rw) => kept = rw
  <2>1. /\ NewRow \in Row /\ NewRow.exists /\ NewRow.fresh
        /\ NewRow.over.max = 0
    BY <1>0, NewRowType DEF NewRow, Absent, NoOverride
  <2>2. rw \in Row /\ rw.over.max = 0 /\ rw.exp \in Nat
    BY DEF PlainRow, Row
  <2>3. ~ OverrideLive(rw)
    BY <2>2 DEF OverrideLive
  <2>4. CASE ~ rw.exists \/ Expired(rw)
    <3>1. kept = NewRow
      BY <2>3, <2>4 DEF Surviving, Prunable
    <3> QED BY <1>0, <2>1, <2>2, <2>4, <3>1 DEF Stateless, Used, Expired
  <2>5. CASE rw.exists /\ ~ Expired(rw)
    <3>1. kept = rw
      BY <2>5 DEF Surviving, Prunable
    <3> QED BY <1>0, <2>2, <2>5, <3>1 DEF Stateless, Used, Expired
  <2> QED BY <2>4, <2>5
<1>2. EndOverride(e, b, kept) = kept
  BY <1>1 DEF EndOverride
<1>3. Load(e, b, rw) = loaded
  BY <1>2 DEF Load
<1> HIDE DEF kept
<1>4. /\ drained \in Row /\ drained.exists /\ drained.over.max = 0
      /\ kept.fresh /\ Suspected(e, b) =>
           /\ ~ drained.fresh /\ drained.cap = 0 /\ drained.last = now
           /\ drained.exp >= now + BucketTTL
      /\ ~ (kept.fresh /\ Suspected(e, b)) => drained = kept
  <2>1. drained \in Row /\ drained.exists
    BY <1>0, <1>1, DrainLostRow DEF Repairs
  <2> QED BY <1>0, <1>1, <2>1 DEF DrainLost, Row
<1> HIDE DEF drained
<1>5. /\ repaired \in Row /\ repaired.exists /\ repaired.over.max = 0
      /\ repaired.fresh = drained.fresh
  <2>1. repaired \in Row /\ repaired.exists /\ repaired.fresh = drained.fresh
    BY <1>0, <1>4, RepairFutureRow DEF Repairs
  <2> QED BY <1>4, <2>1 DEF RepairFuture, Row
<1>6. /\ repaired.cap = drained.cap
      /\ drained.last <= now => repaired = drained
      /\ repaired = drained \/ repaired.exp >= now + BucketTTL
      /\ repaired = drained \/ (drained.last >= now /\ repaired.last = now)
  BY <1>0, <1>4 DEF RepairFuture, Row
<1> HIDE DEF repaired
<1>7. /\ loaded \in Row /\ loaded.exists = repaired.exists
      /\ loaded.fresh = repaired.fresh /\ loaded.over = repaired.over
      /\ loaded.exp >= repaired.exp
  BY <1>0, <1>5, ExtendDebtRow
<1>8. loaded.cap = repaired.cap /\ loaded.last = repaired.last
  BY <1>5 DEF ExtendDebt, Row
<1> HIDE DEF loaded
<1>9. PlainRow(loaded) /\ loaded.exists
  BY <1>5, <1>7 DEF PlainRow
<1>10. Value(b, loaded, now) = Value(b, drained, now)
  <2>1. CASE repaired = drained
    BY <1>8, <2>1 DEF Value
  <2>2. CASE drained.last >= now /\ repaired.last = now
    <3>1. loaded.last >= now /\ loaded.cap = drained.cap
      BY <1>0, <1>6, <1>8, <2>2
    <3>2. Value(b, loaded, now) = Capped(b, loaded.cap)
      BY <1>0, <1>7, <3>1, ValueNow
    <3>3. Value(b, drained, now) = Capped(b, drained.cap)
      BY <1>0, <1>4, <2>2, ValueNow
    <3> QED BY <3>1, <3>2, <3>3
  <2> QED BY <1>6, <2>1, <2>2
<1>11. /\ loaded.exp \in Nat /\ repaired.exp \in Nat /\ drained.exp \in Nat
  BY <1>4, <1>5, <1>7 DEF Row
<1>12. ASSUME Stateless(rw), Suspected(e, b)
       PROVE  /\ ~ loaded.fresh /\ loaded.exp >= now + BucketTTL
              /\ Value(b, loaded, now) = 0
  <2>1. /\ ~ drained.fresh /\ drained.cap = 0 /\ drained.last = now
        /\ drained.exp >= now + BucketTTL
    BY <1>1, <1>4, <1>12
  <2>2. ~ loaded.fresh /\ loaded.exp >= now + BucketTTL
    BY <1>0, <1>5, <1>6, <1>7, <1>11, <2>1
  <2>3. Value(b, drained, now) = Capped(b, 0)
    BY <1>0, <1>4, <2>1, ValueNow
  <2>4. Full(b) \in Nat
    BY <1>0, TrackedTypes
  <2>5. Capped(b, 0) = 0
    BY <2>4 DEF Capped, Lesser
  <2> QED BY <1>10, <2>2, <2>3, <2>5
<1>13. ASSUME Stateless(rw), ~ Suspected(e, b)
       PROVE  loaded.fresh
  BY <1>1, <1>4, <1>5, <1>7, <1>13
<1>14. ASSUME ~ Stateless(rw)
       PROVE  /\ ~ loaded.fresh
              /\ Value(b, loaded, now) = Value(b, rw, now)
              /\ loaded.exp >= rw.exp \/ loaded.exp >= now + BucketTTL
              /\ rw.last <= now => loaded.last <= now
  <2>1. kept = rw /\ ~ rw.fresh
    BY <1>1, <1>14 DEF Stateless, Used
  <2>2. drained = rw
    BY <1>4, <2>1
  <2>3. ~ loaded.fresh
    BY <1>5, <1>7, <2>1, <2>2
  <2>4. loaded.exp >= rw.exp \/ loaded.exp >= now + BucketTTL
    BY <1>0, <1>6, <1>7, <1>11, <2>2
  <2> QED BY <1>6, <1>8, <1>10, <2>2, <2>3, <2>4
<1>15. /\ PlainRow(loaded) /\ loaded.exists
       /\ Stateless(rw) /\ Suspected(e, b) =>
            /\ ~ loaded.fresh /\ loaded.exp >= now + BucketTTL
            /\ Value(b, loaded, now) = 0
       /\ Stateless(rw) /\ ~ Suspected(e, b) => loaded.fresh
       /\ ~ Stateless(rw) =>
            /\ ~ loaded.fresh
            /\ Value(b, loaded, now) = Value(b, rw, now)
            /\ loaded.exp >= rw.exp \/ loaded.exp >= now + BucketTTL
            /\ rw.last <= now => loaded.last <= now
  BY <1>9, <1>12, <1>13, <1>14
<1> QED BY <1>3, <1>15

(* Pruning takes nothing an engine would have found. *)
LEMMA PrunedLoad ==
  ASSUME NEW e, NEW b \in Buckets, PlainRow(row[b]), NEW p \in Prunings
  PROVE  Load(e, b, PrunedRow(p, b)) = Load(e, b, row[b])
<1>1. CASE b \in p.rows
  <2>1. Expired(row[b]) /\ ~ OverrideLive(row[b])
    BY <1>1, PruneSets DEF Prunable
  <2>2. PrunedRow(p, b) = Absent /\ ~ Absent.exists
    BY <1>1 DEF PrunedRow, Absent
  <2>3. Surviving(PrunedRow(p, b)) = NewRow /\ Surviving(row[b]) = NewRow
    BY <2>1, <2>2 DEF Surviving, Prunable
  <2> QED BY <2>3 DEF Load
<1>2. CASE b \notin p.rows
  BY <1>2 DEF PrunedRow
<1> QED BY <1>1, <1>2

(* What an engine finds: the value of a row that lasts; of one that does   *)
(* not a full bucket, unless it can prove that it lost a state.            *)
LEMMA HoldsValue ==
  ASSUME deployment \in Deployments, NEW e, NEW b, ServesPlain(e, b),
         PlainRow(row[b])
  PROVE  Holds(e, b) = IF Stateless(row[b])
                         THEN IF Suspected(e, b) THEN 0 ELSE Full(b)
                         ELSE Value(b, row[b], now)
<1> DEFINE new == Load(e, b, row[b])
<1>1. /\ PlainRow(new)
      /\ Stateless(row[b]) /\ Suspected(e, b) =>
           ~ new.fresh /\ Value(b, new, now) = 0
      /\ Stateless(row[b]) /\ ~ Suspected(e, b) => new.fresh
      /\ ~ Stateless(row[b]) =>
           ~ new.fresh /\ Value(b, new, now) = Value(b, row[b], now)
  BY PlainLoad
<1>2. Holds(e, b) = Amount(e, b, new)
  BY DEF Holds
<1> HIDE DEF new
<1>3. Amount(e, b, new) = IF new.fresh THEN Full(b) ELSE Value(b, new, now)
  BY <1>1, PlainRead
<1> QED BY <1>1, <1>2, <1>3

(* A transaction sees what its engine would have found, pruned or not. *)
LEMMA SeenHolds ==
  ASSUME deployment \in Deployments, NEW e, NEW b, ServesPlain(e, b),
         PlainRow(row[b]), NEW p \in Prunings
  PROVE  /\ Loaded(e, p)[b] = Load(e, b, row[b])
         /\ Seen(e, p, b) = Holds(e, b)
         /\ SeenMax(e, p, b) = StartConfig[b]
         /\ SeenMax(e, p, b) * PerSeconds[b] = Full(b)
<1>1. b \in Buckets /\ b \in Mine(e)
  BY DEF ServesPlain, Serves, Mine, Tracked
<1>2. Loaded(e, p)[b] = Load(e, b, row[b])
  BY <1>1, PrunedLoad DEF Loaded
<1>3. PlainRow(Load(e, b, row[b]))
  BY PlainLoad
<1>4. SeenMax(e, p, b) = StartConfig[b]
  BY <1>2, <1>3, PlainRead DEF SeenMax
<1>5. Seen(e, p, b) = Holds(e, b)
  BY <1>2 DEF Seen, Holds
<1> QED BY <1>2, <1>4, <1>5 DEF Full

-----------------------------------------------------------------------------
(* The inductive invariant *)

(* All engines have the quota of the fleet, no row has an override, and    *)
(* every reservation charged all buckets.                                  *)
PlainEngines == \A e \in Engines : Up(e) => Conf(e) = StartConfig
PlainRows ==
  \A b \in Tracked : PlainRow(row[b]) /\ (row[b].exists \/ row[b].fresh)
PlainMarks == \A r \in Ids : marker[r].exp # 0 => marker[r].scope = Tracked

(* A bucket with a state: the eager bucket holds at least the same, and is *)
(* full again when the row ends.                                           *)
Backed(b) ==
  /\ Value(b, row[b], now) <= ideal[b]
  /\ ideal[b] + Left(row[b], now) * StartConfig[b] >= Full(b)

(* A bucket without: the eager bucket is full.  Only after a loss it may   *)
(* be less, and then every engine can prove the loss.                      *)
Unspent(b) ==
  /\ ideal[b] >= 0
  /\ losses = 0 => ideal[b] = Full(b)
  /\ \A e \in Engines : Up(e) => Suspected(e, b) \/ ideal[b] = Full(b)

(* While the clock runs forward and the database stays, the two agree. *)
Exact(b) ==
  losses = 0 /\ skewed = 0 /\ Used(row[b]) =>
    Value(b, row[b], now) = ideal[b] /\ row[b].last <= now

Account(b) ==
  /\ ideal[b] \in Int /\ - Full(b) <= ideal[b] /\ ideal[b] <= Full(b)
  /\ IF Used(row[b]) THEN Backed(b) ELSE Unspent(b)
  /\ Exact(b)

BudgetInv ==
  /\ PlainEngines /\ PlainRows /\ PlainMarks
  /\ \A b \in Tracked : Account(b)

(* The deployment never changes, nor do the quotas of the fleet. *)
LEMMA SameQuota ==
  ASSUME deployment' = deployment
  PROVE  /\ StartConfig' = StartConfig /\ Tracked' = Tracked
         /\ \A b : Full(b)' = Full(b)
<1>1. StartConfig' = StartConfig
  BY DEF StartConfig
<1> QED BY <1>1 DEF Tracked, Full

(* The account of a bucket after a step. *)
LEMMA NextAccount ==
  ASSUME deployment' = deployment, NEW b
  PROVE  Account(b)' <=>
           /\ ideal'[b] \in Int /\ - Full(b) <= ideal'[b] /\ ideal'[b] <= Full(b)
           /\ IF Used(row'[b])
                THEN /\ Value(b, row'[b], now') <= ideal'[b]
                     /\ ideal'[b] + Left(row'[b], now') * StartConfig[b] >= Full(b)
                ELSE /\ ideal'[b] >= 0
                     /\ losses' = 0 => ideal'[b] = Full(b)
                     /\ \A e \in Engines :
                          engine'[e].status = "up" =>
                            now' < engine'[e].confirmed[b] \/ ideal'[b] = Full(b)
           /\ losses' = 0 /\ skewed' = 0 /\ Used(row'[b]) =>
                Value(b, row'[b], now') = ideal'[b] /\ row'[b].last <= now'
<1>1. StartConfig' = StartConfig /\ Full(b)' = Full(b)
  BY SameQuota
<1>2. Value(b, row[b], now)' = Value(b, row'[b], now')
  BY <1>1 DEF Value, Capped
<1>3. Left(row[b], now)' = Left(row'[b], now') /\ Used(row[b])' = Used(row'[b])
  BY DEF Left, Used
<1>4. Backed(b)' <=>
        /\ Value(b, row'[b], now') <= ideal'[b]
        /\ ideal'[b] + Left(row'[b], now') * StartConfig[b] >= Full(b)
  BY <1>1, <1>2, <1>3 DEF Backed
<1>5. Unspent(b)' <=>
        /\ ideal'[b] >= 0
        /\ losses' = 0 => ideal'[b] = Full(b)
        /\ \A e \in Engines :
             engine'[e].status = "up" =>
               now' < engine'[e].confirmed[b] \/ ideal'[b] = Full(b)
  BY <1>1 DEF Unspent, Up, Suspected
<1>6. Exact(b)' <=>
        (losses' = 0 /\ skewed' = 0 /\ Used(row'[b]) =>
           Value(b, row'[b], now') = ideal'[b] /\ row'[b].last <= now')
  BY <1>1, <1>2, <1>3 DEF Exact
<1> QED BY <1>1, <1>3, <1>4, <1>5, <1>6 DEF Account

(* Types of what the invariant speaks about *)
LEMMA BudgetTypes ==
  ASSUME Inv0, BudgetInv
  PROVE  /\ deployment \in Deployments /\ now \in Nat /\ now >= 1
         /\ losses \in Nat /\ skewed \in Nat
         /\ \A e \in Engines : Up(e) =>
              /\ Mine(e) = Tracked
              /\ \A b \in Tracked : ServesPlain(e, b)
         /\ \A b \in Tracked :
              /\ b \in Buckets /\ PlainRow(row[b]) /\ Account(b)
              /\ \A e \in Engines : engine[e].confirmed[b] \in Nat
<1>1. deployment \in Deployments /\ now \in 1..MaxTime /\ skewed \in 0..MaxSkew
      /\ losses \in 0..MaxLosses
  BY DEF Inv0, StoreInv, StoreTypes, ClockTypes, CallTypes
<1>2. now \in Nat /\ now >= 1 /\ losses \in Nat /\ skewed \in Nat
  BY <1>1, DeploymentTypes
<1>3. ASSUME NEW e \in Engines, Up(e)
      PROVE  Mine(e) = Tracked /\ \A b \in Tracked : ServesPlain(e, b)
  <2>1. Conf(e) = StartConfig
    BY <1>3 DEF BudgetInv, PlainEngines
  <2>2. Mine(e) = Tracked
    BY <2>1 DEF Mine, Tracked
  <2>3. \A b \in Mine(e) : Serves(e, b)
    BY ServesMine DEF Inv0, StoreInv
  <2> QED BY <2>1, <2>2, <2>3 DEF ServesPlain
<1>4. ASSUME NEW b \in Tracked
      PROVE  /\ b \in Buckets /\ PlainRow(row[b]) /\ Account(b)
             /\ \A e \in Engines : engine[e].confirmed[b] \in Nat
  <2>1. b \in Buckets
    BY <1>1, TrackedTypes
  <2>2. \A e \in Engines : engine[e].confirmed[b] \in Nat
    BY <2>1 DEF Inv0, StoreInv, StoreTypes, EngineTypes, IsEngine
  <2> QED BY <2>1, <2>2 DEF BudgetInv, PlainRows
<1> QED BY <1>1, <1>2, <1>3, <1>4

(* A row that ended has been paid, and one that an engine can prove lost   *)
(* is lost.                                                                *)
LEMMA StatelessBucket ==
  ASSUME Inv0, BudgetInv, NEW b \in Tracked, Stateless(row[b])
  PROVE  /\ ideal[b] \in Int /\ 0 <= ideal[b] /\ ideal[b] <= Full(b)
         /\ losses = 0 => ideal[b] = Full(b)
         /\ \A e \in Engines : Up(e) => Suspected(e, b) \/ ideal[b] = Full(b)
         /\ losses = 0 /\ skewed = 0 => \A e \in Engines : ~ Suspected(e, b)
<1>1. /\ deployment \in Deployments /\ now \in Nat /\ b \in Buckets
      /\ row[b] \in Row /\ row[b].exp \in Nat
      /\ \A e \in Engines : engine[e].confirmed[b] \in Nat
  BY BudgetTypes DEF PlainRow, Row
<1>2. Full(b) \in Nat /\ StartConfig[b] \in Nat
  BY <1>1, TrackedTypes
<1>3. /\ ideal[b] \in Int /\ ideal[b] <= Full(b)
      /\ IF Used(row[b]) THEN Backed(b) ELSE Unspent(b)
  BY BudgetTypes DEF Account
<1>4. ASSUME losses = 0, skewed = 0, NEW e \in Engines, Suspected(e, b)
      PROVE  FALSE
  <2>1. Evident(row[b], engine[e].confirmed[b])
    BY <1>1, <1>4 DEF Inv0, StoreInv, EvidenceHolds, Suspected
  <2>2. Used(row[b]) /\ row[b].exp > now
    BY <1>1, <1>4, <2>1 DEF Evident, Used, Suspected
  <2> QED BY <1>1, <2>2 DEF Stateless
<1>5. /\ 0 <= ideal[b]
      /\ losses = 0 => ideal[b] = Full(b)
      /\ \A e \in Engines : Up(e) => Suspected(e, b) \/ ideal[b] = Full(b)
  <2>1. CASE ~ Used(row[b])
    BY <1>2, <1>3, <2>1 DEF Unspent
  <2>2. CASE Used(row[b])
    <3>1. Left(row[b], now) = 0
      BY <1>1, <2>2 DEF Stateless, Left, Greater
    <3>2. 0 * StartConfig[b] = 0
      BY <1>2
    <3>3. ideal[b] + 0 >= Full(b)
      BY <1>3, <2>2, <3>1, <3>2 DEF Backed
    <3>4. ideal[b] = Full(b)
      BY <1>2, <1>3, <3>3
    <3> QED BY <1>2, <3>4
  <2> QED BY <2>1, <2>2
<1> QED BY <1>3, <1>4, <1>5

(* No engine finds more than the eager bucket holds, and all find the same *)
(* while the clock runs forward and the database stays.                    *)
LEMMA HoldsBound ==
  ASSUME Inv0, BudgetInv, NEW e \in Engines, Up(e), NEW b \in Tracked
  PROVE  /\ Holds(e, b) \in Int /\ Holds(e, b) <= ideal[b]
         /\ losses = 0 /\ skewed = 0 => Holds(e, b) = ideal[b]
<1>1. /\ deployment \in Deployments /\ now \in Nat
      /\ ServesPlain(e, b) /\ PlainRow(row[b]) /\ Account(b)
  BY BudgetTypes
<1>2. Holds(e, b) = IF Stateless(row[b])
                      THEN IF Suspected(e, b) THEN 0 ELSE Full(b)
                      ELSE Value(b, row[b], now)
  BY <1>1, HoldsValue
<1>3. Full(b) \in Nat /\ Value(b, row[b], now) \in Int
  BY <1>1, TrackedTypes, ValueType DEF PlainRow
<1>4. CASE Stateless(row[b])
  <2>1. /\ 0 <= ideal[b]
        /\ losses = 0 => ideal[b] = Full(b)
        /\ Suspected(e, b) \/ ideal[b] = Full(b)
        /\ losses = 0 /\ skewed = 0 => ~ Suspected(e, b)
    BY <1>4, StatelessBucket
  <2> QED BY <1>2, <1>3, <1>4, <2>1
<1>5. CASE ~ Stateless(row[b])
  <2>1. Used(row[b])
    BY <1>5 DEF Stateless
  <2>2. Value(b, row[b], now) <= ideal[b]
    BY <1>1, <2>1 DEF Account, Backed
  <2>3. losses = 0 /\ skewed = 0 => Value(b, row[b], now) = ideal[b]
    BY <1>1, <2>1 DEF Account, Exact
  <2> QED BY <1>2, <1>3, <1>5, <2>2, <2>3
<1> QED BY <1>4, <1>5

-----------------------------------------------------------------------------
(* The account of one bucket in each kind of step *)

(* A bucket without a state after the step: the eager one is full unless   *)
(* there was a loss, and then too once an engine cannot prove it.          *)
LEMMA FreshAccount ==
  ASSUME deployment \in Deployments, deployment' = deployment, losses' \in Nat,
         NEW b \in Tracked, row'[b].fresh,
         NEW amount \in Int, 0 <= amount, amount <= Full(b),
         losses' = 0 => amount = Full(b),
         ideal'[b] = IF TakenForNew(b)' THEN Full(b) ELSE amount
  PROVE  Account(b)'
<1>1. Full(b) \in Nat
  BY TrackedTypes
<1>2. ~ Used(row'[b])
  BY DEF Used
<1>3. /\ ideal'[b] \in Int /\ 0 <= ideal'[b] /\ ideal'[b] <= Full(b)
      /\ losses' = 0 => ideal'[b] = Full(b)
  BY <1>1
<1>4. ASSUME NEW e \in Engines, engine'[e].status = "up",
             ~ now' < engine'[e].confirmed[b]
      PROVE  ideal'[b] = Full(b)
  <2>1. CASE losses' = 0
    BY <1>3, <2>1
  <2>2. CASE losses' > 0
    <3>1. TakenForNew(b)'
      BY <1>4, <2>2 DEF TakenForNew, Up, Suspected
    <3> QED BY <3>1
  <2> QED BY <2>1, <2>2
<1>5. - Full(b) <= ideal'[b]
  BY <1>1, <1>3
<1> QED BY <1>2, <1>3, <1>4, <1>5, NextAccount

(* A write: the row holds what was written, and lasts until it is paid.    *)
LEMMA WrittenAccount ==
  ASSUME Inv0, BudgetInv, NEW e \in Engines, Up(e), NEW p \in Prunings,
         NEW b \in Tracked, NEW v \in Int, NEW amount \in Int,
         - Full(b) <= amount, amount <= Full(b),
         v <= amount, losses = 0 /\ skewed = 0 => v = amount,
         row'[b] = Write(e, b, Loaded(e, p)[b], v),
         ideal'[b] = IF TakenForNew(b)' THEN Full(b) ELSE amount,
         UNCHANGED <<clock, losses>>
  PROVE  /\ PlainRow(row'[b]) /\ row'[b].exists
         /\ Account(b)'
<1> DEFINE rw == Loaded(e, p)[b]
<1>1. /\ deployment \in Deployments /\ now \in Nat
      /\ ServesPlain(e, b) /\ PlainRow(row[b])
  BY BudgetTypes
<1>2. PlainRow(rw) /\ rw.exists /\ Serves(e, b)
  BY <1>1, SeenHolds, PlainLoad DEF ServesPlain
<1> HIDE DEF rw
<1>3. /\ Write(e, b, rw, v) \in Row
      /\ Write(e, b, rw, v).over = rw.over
      /\ Evident(Write(e, b, rw, v), now + BucketTTL)
  BY <1>2, WrittenRow DEF PlainRow
<1>4. row'[b] = Write(e, b, rw, v)
  BY DEF rw
<1>5. row'[b].cap = v /\ row'[b].last = now
  BY <1>2, <1>4 DEF Write, PlainRow, Row
<1>6. PlainRow(row'[b]) /\ row'[b].exists
  BY <1>2, <1>3, <1>4 DEF PlainRow, Evident
<1>7. /\ deployment' = deployment /\ now' = now /\ skewed' = skewed
      /\ losses' = losses
  BY DEF clock
<1>8. Used(row'[b]) /\ row'[b].exp >= now + BucketTTL
  BY <1>3, <1>4 DEF Evident, Used
<1>9. ideal'[b] = amount
  <2>1. ~ TakenForNew(b)'
    BY <1>8 DEF TakenForNew, Used
  <2> QED BY <2>1
<1>10. Full(b) \in Nat
  BY <1>1, TrackedTypes
<1>11. Value(b, row'[b], now) = Capped(b, v)
  BY <1>1, <1>5, <1>6, ValueNow DEF PlainRow
<1>12. /\ Value(b, row'[b], now) <= amount
       /\ losses = 0 /\ skewed = 0 => Value(b, row'[b], now) = amount
  BY <1>10, <1>11 DEF Capped, Lesser
<1>13. row'[b].exp \in Nat
  BY <1>6 DEF PlainRow, Row
<1>14. amount + Left(row'[b], now) * StartConfig[b] >= Full(b)
  BY <1>1, <1>8, <1>13, LifetimePays DEF Left
<1>15. row'[b].last <= now
  BY <1>1, <1>5
<1>16. Account(b)'
  BY <1>7, <1>8, <1>9, <1>12, <1>14, <1>15, NextAccount
<1> QED BY <1>6, <1>16

(* What loading repairs changes no account. *)
LEMMA LoadedAccount ==
  ASSUME Inv0, BudgetInv, NEW e \in Engines, Up(e), NEW p \in Prunings,
         NEW b \in Tracked,
         row'[b] = Loaded(e, p)[b], ideal'[b] = ideal[b],
         \A f \in Engines : engine'[f].status = engine[f].status,
         \A f \in Engines : \/ engine'[f].confirmed = engine[f].confirmed
                            \/ f = e,
         UNCHANGED <<clock, losses>>
  PROVE  /\ PlainRow(row'[b]) /\ row'[b].exists
         /\ Account(b)'
<1> DEFINE new == row'[b]  rw == row[b]
<1>1. /\ deployment \in Deployments /\ now \in Nat
      /\ ServesPlain(e, b) /\ PlainRow(rw) /\ Account(b)
      /\ BucketTTL \in Nat
  BY BudgetTypes, TrackedTypes
<1>2. new = Load(e, b, rw)
  BY <1>1, SeenHolds
<1>3. /\ PlainRow(new) /\ new.exists
      /\ Stateless(rw) /\ Suspected(e, b) =>
           /\ ~ new.fresh /\ new.exp >= now + BucketTTL
           /\ Value(b, new, now) = 0
      /\ Stateless(rw) /\ ~ Suspected(e, b) => new.fresh
      /\ ~ Stateless(rw) =>
           /\ ~ new.fresh
           /\ Value(b, new, now) = Value(b, rw, now)
           /\ new.exp >= rw.exp \/ new.exp >= now + BucketTTL
           /\ rw.last <= now => new.last <= now
  BY <1>1, <1>2, PlainLoad
<1>4. /\ deployment' = deployment /\ now' = now /\ skewed' = skewed
      /\ losses' = losses
  BY DEF clock
<1>5. /\ Full(b) \in Nat /\ StartConfig[b] \in Nat
      /\ new.exp \in Nat /\ rw.exp \in Nat
      /\ ideal[b] \in Int /\ - Full(b) <= ideal[b] /\ ideal[b] <= Full(b)
  BY <1>1, <1>3, TrackedTypes DEF PlainRow, Row, Account
<1>6. ASSUME Stateless(rw)
      PROVE  /\ 0 <= ideal[b]
             /\ losses = 0 => ideal[b] = Full(b)
             /\ Suspected(e, b) \/ ideal[b] = Full(b)
             /\ losses = 0 /\ skewed = 0 => ~ Suspected(e, b)
  BY <1>6, StatelessBucket
<1> HIDE DEF new, rw
<1>7. ASSUME IF Used(new)
                THEN /\ Value(b, new, now) <= ideal[b]
                     /\ ideal[b] + Left(new, now) * StartConfig[b] >= Full(b)
                     /\ losses = 0 /\ skewed = 0 => Value(b, new, now) = ideal[b]
                                                    /\ new.last <= now
                ELSE ideal[b] = Full(b)
       PROVE  Account(b)'
  <2>1. new = row'[b] /\ ideal'[b] = ideal[b]
    BY DEF new
  <2> QED BY <1>4, <1>5, <1>7, <2>1, NextAccount
<1>8. ASSUME Stateless(rw), Suspected(e, b) PROVE Account(b)'
  <2>1. Used(new)
    BY <1>3, <1>8 DEF Used
  <2>2. ideal[b] + Left(new, now) * StartConfig[b] >= Full(b)
    BY <1>1, <1>3, <1>5, <1>8, LifetimePays DEF Left
  <2>3. Value(b, new, now) <= ideal[b]
    BY <1>3, <1>6, <1>8
  <2>4. ~ (losses = 0 /\ skewed = 0)
    BY <1>6, <1>8
  <2> QED BY <1>7, <2>1, <2>2, <2>3, <2>4
<1>9. ASSUME Stateless(rw), ~ Suspected(e, b) PROVE Account(b)'
  <2>1. ~ Used(new)
    BY <1>3, <1>9 DEF Used
  <2>2. ideal[b] = Full(b)
    BY <1>6, <1>9
  <2> QED BY <1>7, <2>1, <2>2
<1>10. ASSUME ~ Stateless(rw) PROVE Account(b)'
  <2>1. Used(new) /\ Used(rw)
    BY <1>3, <1>10 DEF Used, Stateless
  <2>2. /\ Value(b, rw, now) <= ideal[b]
        /\ ideal[b] + Left(rw, now) * StartConfig[b] >= Full(b)
        /\ losses = 0 /\ skewed = 0 => Value(b, rw, now) = ideal[b]
                                       /\ rw.last <= now
    BY <1>1, <2>1 DEF Account, Backed, Exact, rw
  <2>3. ideal[b] + Left(new, now) * StartConfig[b] >= Full(b)
    <3>1. CASE new.exp >= now + BucketTTL
      BY <1>1, <1>5, <3>1, LifetimePays DEF Left
    <3>2. CASE new.exp >= rw.exp
      <4> DEFINE x == Left(rw, now)  y == Left(new, now)
      <4>1. x \in Nat /\ y \in Nat /\ x <= y
        BY <1>1, <1>5, <3>2 DEF Left, Greater
      <4> HIDE DEF x, y
      <4>2. /\ x * StartConfig[b] \in Nat /\ y * StartConfig[b] \in Nat
            /\ x * StartConfig[b] <= y * StartConfig[b]
        BY <1>5, <4>1, MoreRefill
      <4>3. ideal[b] + x * StartConfig[b] >= Full(b)
        BY <2>2 DEF x
      <4>4. ideal[b] + y * StartConfig[b] >= Full(b)
        BY <1>5, <4>2, <4>3
      <4> QED BY <4>4 DEF y
    <3> QED BY <1>3, <1>10, <3>1, <3>2
  <2>4. /\ Value(b, new, now) <= ideal[b]
        /\ losses = 0 /\ skewed = 0 => Value(b, new, now) = ideal[b]
                                       /\ new.last <= now
    BY <1>3, <1>10, <2>2
  <2> QED BY <1>7, <2>1, <2>3, <2>4
<1>11. Account(b)'
  BY <1>8, <1>9, <1>10
<1> QED BY <1>3, <1>11 DEF new

(* A step that leaves the row alone while engines go, if any. *)
LEMMA StayingAccount ==
  ASSUME BudgetInv, NEW b \in Tracked,
         row'[b] = row[b], ideal'[b] = ideal[b],
         \A f \in Engines : engine'[f].status = "up" =>
           Up(f) /\ engine'[f].confirmed[b] = engine[f].confirmed[b],
         UNCHANGED <<clock, losses>>
  PROVE  Account(b)'
<1>1. Account(b)
  BY DEF BudgetInv
<1>2. /\ deployment' = deployment /\ now' = now /\ skewed' = skewed
      /\ losses' = losses
  BY DEF clock
<1> QED BY <1>1, <1>2, NextAccount
        DEF Account, Backed, Unspent, Exact, Suspected

-----------------------------------------------------------------------------
(* The invariant in every step *)

(* What every step does to the accounts *)
BudgetKept ==
  /\ PlainEngines' /\ PlainRows'
  /\ \A b \in Tracked : Account(b)'

(* Engines keep their quotas, or come with the quota of the fleet. *)
LEMMA EnginesStayPlain ==
  ASSUME BudgetInv, deployment' = deployment,
         \A f \in Engines : engine'[f].status = "up" =>
           \/ engine'[f].conf = StartConfig
           \/ Up(f) /\ engine'[f].conf = engine[f].conf
  PROVE  PlainEngines'
<1>1. StartConfig' = StartConfig
  BY SameQuota
<1> QED BY <1>1 DEF BudgetInv, PlainEngines, Up, Conf

(* Rows after a step. *)
LEMMA RowsStayPlain ==
  ASSUME deployment' = deployment,
         \A b \in Tracked : PlainRow(row'[b]) /\ (row'[b].exists \/ row'[b].fresh)
  PROVE  PlainRows'
<1>1. Tracked' = Tracked
  BY SameQuota
<1> QED BY <1>1 DEF PlainRows, PlainRow

(* A commit changes nothing of the engines but the evidence of its own. *)
LEMMA CommittedEngines ==
  ASSUME Inv0, BudgetInv, NEW e \in Engines, NEW p, NEW bs, NEW rows,
         Commit(e, p, bs, rows)
  PROVE  /\ PlainEngines' /\ UNCHANGED clock /\ deployment' = deployment
         /\ \A f \in Engines : engine'[f].status = engine[f].status
         /\ \A f \in Engines : \/ engine'[f].confirmed = engine[f].confirmed
                               \/ f = e
<1>1. /\ engine' = [engine EXCEPT ![e].confirmed = Confirmed(e, p, bs)]
      /\ UNCHANGED clock /\ deployment' = deployment
  BY DEF Commit, clock
<1>2. /\ engine = [f \in Engines |-> engine[f]]
      /\ \A f \in Engines : IsEngine(f, engine[f])
  BY DEF Inv0, StoreInv, StoreTypes, EngineTypes
<1>3. \A f \in Engines \ {e} : engine'[f] = engine[f]
  BY <1>1, <1>2
<1>4. engine'[e] = [engine[e] EXCEPT !.confirmed = Confirmed(e, p, bs)]
  BY <1>1, <1>2
<1>5. engine'[e].status = engine[e].status /\ engine'[e].conf = engine[e].conf
  BY <1>2, <1>4 DEF IsEngine
<1>6. PlainEngines'
  BY <1>1, <1>3, <1>5, EnginesStayPlain DEF Up
<1> QED BY <1>1, <1>3, <1>5, <1>6

(* Transactions that write amounts back to all buckets. *)
LEMMA TransactionAccounted ==
  ASSUME Inv0, BudgetInv, NEW e \in Engines, Up(e), NEW p \in Prunings,
         NEW v, NEW amount,
         \A b \in Tracked :
           /\ v[b] \in Int /\ amount[b] \in Int
           /\ - Full(b) <= amount[b] /\ amount[b] <= Full(b)
           /\ v[b] <= amount[b]
           /\ losses = 0 /\ skewed = 0 => v[b] = amount[b]
           /\ ideal'[b] = IF TakenForNew(b)' THEN Full(b) ELSE amount[b],
         Commit(e, p, Mine(e), WrittenRows(e, p, Mine(e), v)),
         losses' = losses
  PROVE  BudgetKept
<1>1. Mine(e) = Tracked /\ \A b \in Tracked : b \in Buckets
  BY BudgetTypes
<1>2. PlainEngines' /\ UNCHANGED clock /\ deployment' = deployment
  BY CommittedEngines
<1>3. row' = WrittenRows(e, p, Mine(e), v)
  BY DEF Commit
<1>4. \A b \in Tracked : row'[b] = Write(e, b, Loaded(e, p)[b], v[b])
  BY <1>1, <1>3 DEF WrittenRows
<1>5. \A b \in Tracked : PlainRow(row'[b]) /\ row'[b].exists /\ Account(b)'
  <2> SUFFICES ASSUME NEW b \in Tracked
               PROVE  PlainRow(row'[b]) /\ row'[b].exists /\ Account(b)'
    OBVIOUS
  <2> DEFINE x == v[b]  y == amount[b]
  <2>1. /\ x \in Int /\ y \in Int
        /\ - Full(b) <= y /\ y <= Full(b)
        /\ x <= y
        /\ losses = 0 /\ skewed = 0 => x = y
        /\ ideal'[b] = IF TakenForNew(b)' THEN Full(b) ELSE y
        /\ row'[b] = Write(e, b, Loaded(e, p)[b], x)
    BY <1>4
  <2> HIDE DEF x, y
  <2> QED BY <1>2, <2>1, WrittenAccount
<1> QED BY <1>2, <1>5, RowsStayPlain DEF BudgetKept

(* Transactions that commit what loading repaired. *)
LEMMA LoadAccounted ==
  ASSUME Inv0, BudgetInv, NEW e \in Engines, Up(e), NEW p \in Prunings, NEW r,
         LoadOnly(e, p, r), Quiet, losses' = losses
  PROVE  BudgetKept
<1>1. Commit(e, p, {}, Loaded(e, p)) /\ row' = Loaded(e, p)
  BY DEF LoadOnly, Commit
<1>2. /\ PlainEngines' /\ UNCHANGED clock /\ deployment' = deployment
      /\ \A f \in Engines : engine'[f].status = engine[f].status
      /\ \A f \in Engines : \/ engine'[f].confirmed = engine[f].confirmed
                            \/ f = e
  BY <1>1, CommittedEngines
<1>3. \A b \in Tracked : row'[b] = Loaded(e, p)[b] /\ ideal'[b] = ideal[b]
  BY <1>1 DEF Quiet
<1>4. \A b \in Tracked : PlainRow(row'[b]) /\ row'[b].exists /\ Account(b)'
  BY <1>2, <1>3, LoadedAccount
<1> QED BY <1>2, <1>4, RowsStayPlain DEF BudgetKept

(* Steps without a transaction: engines may go. *)
LEMMA StayAccounted ==
  ASSUME Inv0, BudgetInv, UNCHANGED <<clock, row, losses>>, Quiet,
         \A f \in Engines : engine'[f].status = "up" => engine'[f] = engine[f]
  PROVE  BudgetKept
<1>1. deployment' = deployment
  BY DEF clock
<1>2. PlainEngines'
  BY <1>1, EnginesStayPlain DEF Up
<1>3. \A b \in Tracked : row'[b] = row[b] /\ ideal'[b] = ideal[b]
  BY DEF Quiet
<1>4. \A b \in Tracked : Account(b)'
  BY <1>3, StayingAccount DEF Up
<1>5. PlainRows'
  BY <1>1, RowsStayPlain DEF BudgetInv, PlainRows
<1> QED BY <1>2, <1>4, <1>5 DEF BudgetKept

(* The second by which a row is nearer to its end has refilled. *)
LEMMA SecondPaid ==
  ASSUME NEW full \in Nat, NEW m \in Nat, NEW x \in Nat, NEW y \in Nat,
         x = y + 1 \/ (x = 0 /\ y = 0),
         NEW i \in Int, NEW amount \in Int, i <= amount,
         amount = full \/ amount = i + m,
         i + x * m >= full
  PROVE  amount + y * m >= full
<1> DEFINE z == y * m
<1>1. z \in Nat /\ (y + 1) * m = z + m /\ 0 * m = 0
  BY MoreRefill, OneMoreSecond
<1>2. CASE x = 0 /\ y = 0
  BY <1>1, <1>2
<1>3. CASE x = y + 1
  <2>1. i + (z + m) >= full
    BY <1>1, <1>3
  <2> HIDE DEF z
  <2>2. amount + z >= full
    BY <1>1, <2>1
  <2> QED BY <2>2 DEF z
<1> QED BY <1>2, <1>3

(* A second passes. *)
LEMMA TickAccounted ==
  ASSUME Inv0, BudgetInv, AccountTick
  PROVE  BudgetKept
<1>1. /\ now' = now + 1 /\ losses' = losses
      /\ UNCHANGED <<deployment, skewed, row, engine>>
  BY DEF AccountTick, Tick, calls
<1>2. /\ deployment \in Deployments /\ now \in Nat /\ losses \in Nat
      /\ \A b \in Tracked :
           /\ b \in Buckets /\ PlainRow(row[b]) /\ Account(b)
           /\ \A e \in Engines : engine[e].confirmed[b] \in Nat
  BY BudgetTypes
<1>3. PlainEngines' /\ PlainRows'
  <2>1. PlainEngines'
    BY <1>1, EnginesStayPlain DEF Up
  <2> QED BY <1>1, <2>1, RowsStayPlain DEF BudgetInv, PlainRows
<1>4. ASSUME NEW b \in Tracked PROVE Account(b)'
  <2> DEFINE m == StartConfig[b]  full == Full(b)
             amount == Capped(b, ideal[b] + m)
             rw == row[b]
  <2>1. ideal'[b] = IF TakenForNew(b)' THEN full ELSE amount
    BY <1>4 DEF AccountTick, Post
  <2>2. /\ m \in Nat /\ full \in Nat
        /\ ideal[b] \in Int /\ - full <= ideal[b] /\ ideal[b] <= full
        /\ IF Used(rw) THEN Backed(b) ELSE Unspent(b)
        /\ Exact(b)
    BY <1>2, <1>4, TrackedTypes DEF Account
  <2>3. /\ amount \in Int /\ - full <= amount /\ amount <= full
        /\ ideal[b] <= amount
        /\ ideal[b] = full => amount = full
        /\ amount = full \/ amount = ideal[b] + m
        /\ \A x \in Int : x <= ideal[b] => Capped(b, x + m) <= amount
    BY <2>2 DEF Capped, Lesser
  <2>4. /\ rw \in Row /\ rw.last \in Nat /\ rw.exp \in Nat
        /\ row'[b] = rw
        /\ rw.exists \/ rw.fresh
    BY <1>1, <1>2, <1>4 DEF PlainRow, Row, BudgetInv, PlainRows
  <2>5. CASE Used(rw)
    <3>1. ideal'[b] = amount
      <4>1. ~ TakenForNew(b)'
        BY <2>4, <2>5 DEF TakenForNew, Used
      <4> QED BY <2>1, <4>1
    <3>2. /\ Value(b, rw, now) <= ideal[b]
          /\ ideal[b] + Left(rw, now) * m >= full
          /\ losses = 0 /\ skewed = 0 =>
               Value(b, rw, now) = ideal[b] /\ rw.last <= now
      BY <2>2, <2>5 DEF Backed, Exact
    <3>3. /\ Value(b, rw, now) \in Int /\ Value(b, rw, now + 1) \in Int
          /\ Value(b, rw, now + 1) <= Capped(b, Value(b, rw, now) + m)
          /\ rw.last <= now =>
               Value(b, rw, now + 1) = Capped(b, Value(b, rw, now) + m)
      <4>1. now + 1 \in Nat
        BY <1>2
      <4>2. Value(b, rw, now) \in Int /\ Value(b, rw, now + 1) \in Int
        BY <1>2, <2>4, <4>1, ValueType
      <4> QED BY <1>2, <2>4, <4>2, NextValue
    <3>4. Value(b, rw, now + 1) <= amount
      <4>1. Capped(b, Value(b, rw, now) + m) <= amount
        BY <2>3, <3>2, <3>3
      <4>2. Capped(b, Value(b, rw, now) + m) \in Int
        BY <2>2, <3>3 DEF Capped, Lesser
      <4> HIDE DEF amount
      <4> QED BY <2>3, <3>3, <4>1, <4>2
    <3>5. losses = 0 /\ skewed = 0 => Value(b, rw, now + 1) = amount
      BY <3>2, <3>3
    <3>6. amount + Left(rw, now + 1) * m >= full
      <4> DEFINE x == Left(rw, now)  y == Left(rw, now + 1)
      <4>1. /\ x \in Nat /\ y \in Nat
            /\ x = y + 1 \/ (x = 0 /\ y = 0)
        BY <1>2, <2>4 DEF Left, Greater
      <4>2. ideal[b] + x * m >= full
        BY <3>2
      <4> HIDE DEF amount, x, y, full, m
      <4>3. amount + y * m >= full
        BY <2>2, <2>3, <4>1, <4>2, SecondPaid
      <4> QED BY <4>3 DEF y, m, full
    <3>7. rw.last <= now => rw.last <= now + 1
      BY <1>2, <2>4
    <3> HIDE DEF amount
    <3> QED BY <1>1, <2>3, <2>4, <2>5, <3>1, <3>2, <3>4, <3>5, <3>6, <3>7,
               NextAccount
  <2>6. CASE ~ Used(rw)
    <3>1. row'[b].fresh
      BY <2>4, <2>6 DEF Used
    <3>2. 0 <= amount /\ (losses = 0 => amount = full)
      BY <2>2, <2>3, <2>6 DEF Unspent
    <3> HIDE DEF amount
    <3> QED BY <1>1, <1>2, <2>1, <2>3, <3>1, <3>2, FreshAccount
  <2> QED BY <2>5, <2>6
<1> QED BY <1>3, <1>4 DEF BudgetKept

(* The clock is set back: nothing gains. *)
LEMMA SetBackAccounted ==
  ASSUME Inv0, BudgetInv, ClockSetBack, UNCHANGED calls, Quiet
  PROVE  BudgetKept
<1>1. /\ now > 1 /\ now' = now - 1 /\ losses' = losses /\ skewed' = skewed + 1
      /\ UNCHANGED <<deployment, row, engine, ideal>>
  BY DEF ClockSetBack, calls, Quiet
<1>2. /\ deployment \in Deployments /\ now \in Nat /\ skewed \in Nat
      /\ \A b \in Tracked :
           /\ PlainRow(row[b]) /\ Account(b)
           /\ \A e \in Engines : engine[e].confirmed[b] \in Nat
  BY BudgetTypes
<1>3. PlainEngines' /\ PlainRows'
  <2>1. PlainEngines'
    BY <1>1, EnginesStayPlain DEF Up
  <2> QED BY <1>1, <2>1, RowsStayPlain DEF BudgetInv, PlainRows
<1>4. ASSUME NEW b \in Tracked PROVE Account(b)'
  <2> DEFINE rw == row[b]  m == StartConfig[b]  full == Full(b)
             x == Left(rw, now)  y == Left(rw, now - 1)
  <2>1. /\ m \in Nat /\ full \in Nat
        /\ ideal[b] \in Int /\ - full <= ideal[b] /\ ideal[b] <= full
        /\ IF Used(rw) THEN Backed(b) ELSE Unspent(b)
    BY <1>2, <1>4, TrackedTypes DEF Account
  <2>2. /\ rw \in Row /\ rw.exp \in Nat
        /\ row'[b] = rw /\ ideal'[b] = ideal[b]
    BY <1>1, <1>2, <1>4 DEF PlainRow, Row
  <2>3. /\ Value(b, rw, now - 1) <= Value(b, rw, now)
        /\ Value(b, rw, now - 1) \in Int /\ Value(b, rw, now) \in Int
    <3>1. now \in Nat \ {0} /\ now - 1 \in Nat
      BY <1>1, <1>2
    <3>2. Value(b, rw, now - 1) <= Value(b, rw, now)
      BY <1>2, <2>2, <3>1, EarlierValue
    <3> QED BY <1>2, <2>2, <3>1, <3>2, ValueType
  <2>4. x \in Nat /\ y \in Nat /\ x <= y
    BY <1>1, <1>2, <2>2 DEF Left, Greater
  <2>5. x * m \in Nat /\ y * m \in Nat /\ x * m <= y * m
    <3> HIDE DEF x, y, m
    <3> QED BY <2>1, <2>4, MoreRefill
  <2>6. skewed' # 0
    BY <1>1, <1>2
  <2>7. CASE Used(rw)
    <3>1. Value(b, rw, now) <= ideal[b] /\ ideal[b] + x * m >= full
      BY <2>1, <2>7 DEF Backed
    <3>2. Value(b, rw, now - 1) <= ideal[b]
      BY <2>1, <2>3, <3>1
    <3>3. ideal[b] + Left(rw, now - 1) * StartConfig[b] >= Full(b)
      <4> DEFINE u == x * m  v == y * m
      <4>1. u \in Nat /\ v \in Nat /\ u <= v /\ ideal[b] + u >= full
        BY <2>5, <3>1
      <4> HIDE DEF u, v
      <4>2. ideal[b] + v >= full
        BY <2>1, <4>1
      <4> QED BY <4>2 DEF v
    <3> QED BY <1>1, <2>1, <2>2, <2>6, <2>7, <3>2, <3>3, NextAccount
  <2>8. CASE ~ Used(rw)
    <3>1. \A e \in Engines : engine'[e].status = "up" =>
            now' < engine'[e].confirmed[b] \/ ideal[b] = full
      BY <1>1, <1>2, <2>1, <2>8 DEF Unspent, Up, Suspected
    <3>2. ideal[b] >= 0 /\ (losses = 0 => ideal[b] = full)
      BY <2>1, <2>8 DEF Unspent
    <3> QED BY <1>1, <2>1, <2>2, <2>8, <3>1, <3>2, NextAccount
  <2> QED BY <2>7, <2>8
<1> QED BY <1>3, <1>4 DEF BudgetKept

(* The database is lost: what an engine cannot prove is new. *)
LEMMA LoseAccounted ==
  ASSUME Inv0, BudgetInv, AccountLose
  PROVE  BudgetKept
<1>1. /\ losses' = losses + 1 /\ row' = [b \in Buckets |-> Absent]
      /\ UNCHANGED <<deployment, now, skewed, engine>>
  BY DEF AccountLose, Lose, LoseStore, clock
<1>2. /\ deployment \in Deployments /\ now \in Nat /\ losses \in Nat
      /\ \A b \in Tracked : b \in Buckets /\ Account(b)
  BY BudgetTypes
<1>3. losses' \in Nat /\ losses' # 0
  BY <1>1, <1>2
<1>4. PlainRow(Absent) /\ Absent.fresh
  BY <1>2, NewRowType DEF Absent, NoOverride, PlainRow
<1>5. \A b \in Tracked : row'[b] = Absent
  BY <1>1, <1>2
<1>6. PlainEngines' /\ PlainRows'
  <2>1. PlainEngines'
    BY <1>1, EnginesStayPlain DEF Up
  <2> QED BY <1>1, <1>4, <1>5, <2>1, RowsStayPlain
<1>7. ASSUME NEW b \in Tracked PROVE Account(b)'
  <2> DEFINE amount == Greater(0, ideal[b])
  <2>1. ideal'[b] = IF TakenForNew(b)' THEN Full(b) ELSE amount
    BY <1>7 DEF AccountLose, Post
  <2>2. amount \in Int /\ 0 <= amount /\ amount <= Full(b)
    BY <1>2, TrackedTypes DEF Account, Greater
  <2> HIDE DEF amount
  <2> QED BY <1>1, <1>2, <1>3, <1>4, <1>5, <2>1, <2>2, FreshAccount
<1> QED BY <1>6, <1>7 DEF BudgetKept

(* A process starts: the buckets it finds without state are full. *)
LEMMA StartAccounted ==
  ASSUME Inv0, BudgetInv, NEW e \in Engines, AccountStart(e)
  PROVE  BudgetKept
<1> DEFINE g == [Down EXCEPT !.status = "up", !.conf = StartConfig]
<1>1. PICK p \in Prunings :
        /\ engine[e].status = "down" /\ row' = Opened(p, StartConfig)
        /\ engine' = [engine EXCEPT ![e] = g]
        /\ UNCHANGED clock
  BY DEF AccountStart, StartProcess, Start, Open
<1>2. losses' = losses /\ deployment' = deployment /\ now' = now
  BY <1>1 DEF AccountStart, StartProcess, calls, clock
<1>3. /\ deployment \in Deployments /\ now \in Nat /\ losses \in Nat
      /\ \A b \in Tracked : b \in Buckets /\ PlainRow(row[b]) /\ Account(b)
  BY BudgetTypes
<1>4. /\ engine'[e] = g
      /\ \A f \in Engines \ {e} : engine'[f] = engine[f]
  BY <1>1 DEF Inv0, StoreInv, StoreTypes, EngineTypes
<1>5. /\ g.status = "up" /\ g.conf = StartConfig
      /\ \A b \in Buckets : g.confirmed[b] = 0
  BY DEF Down
<1> HIDE DEF g
<1>6. PlainRow(NewRow) /\ NewRow.exists /\ NewRow.fresh
  BY <1>3, NewRowType DEF NewRow, Absent, NoOverride, PlainRow
<1>7. \A b \in Tracked :
        row'[b] = IF b \in p.rows \/ ~ row[b].exists THEN NewRow ELSE row[b]
  <2> SUFFICES ASSUME NEW b \in Tracked
               PROVE  row'[b] = IF b \in p.rows \/ ~ row[b].exists THEN NewRow
                                ELSE row[b]
    OBVIOUS
  <2>1. b \in Buckets /\ b \in DOMAIN StartConfig
    BY <1>3 DEF Tracked
  <2>2. row'[b] = IF ~ PrunedRow(p, b).exists THEN NewRow ELSE PrunedRow(p, b)
    BY <1>1, <2>1 DEF Opened
  <2> QED BY <2>2 DEF PrunedRow, Absent
<1>8. PlainEngines' /\ PlainRows'
  <2>1. PlainEngines'
    BY <1>2, <1>4, <1>5, EnginesStayPlain DEF Up
  <2> QED BY <1>2, <1>3, <1>6, <1>7, <2>1, RowsStayPlain
          DEF BudgetInv, PlainRows
<1>9. ASSUME NEW b \in Tracked PROVE Account(b)'
  <2>1. ideal'[b] = IF TakenForNew(b)' THEN Full(b) ELSE ideal[b]
    BY <1>9 DEF AccountStart, Post
  <2>2. CASE Used(row'[b])
    <3>1. row'[b] = row[b]
      BY <1>6, <1>7, <2>2 DEF Used
    <3>2. ideal'[b] = ideal[b]
      <4>1. ~ TakenForNew(b)'
        BY <2>2 DEF TakenForNew, Used
      <4> QED BY <2>1, <4>1
    <3>3. skewed' = skewed
      BY <1>1 DEF clock
    <3> QED BY <1>2, <1>3, <2>2, <3>1, <3>2, <3>3, NextAccount
            DEF Account, Backed, Exact
  <2>3. CASE ~ Used(row'[b])
    <3>1. row'[b].fresh
      BY <1>6, <1>7, <2>3 DEF Used
    <3>2. Stateless(row[b])
      <4>1. CASE b \in p.rows
        BY <4>1, PruneSets DEF Prunable, Expired, Stateless
      <4>2. CASE b \notin p.rows
        BY <1>7, <2>3, <4>2 DEF Stateless, Used
      <4> QED BY <4>1, <4>2
    <3>3. /\ ideal[b] \in Int /\ 0 <= ideal[b] /\ ideal[b] <= Full(b)
          /\ losses = 0 => ideal[b] = Full(b)
      BY <3>2, StatelessBucket
    <3> QED BY <1>2, <1>3, <2>1, <3>1, <3>3, FreshAccount
  <2> QED BY <2>2, <2>3
<1> QED BY <1>8, <1>9 DEF BudgetKept

(* Marks fade, or name all buckets. *)
LEMMA MarksStayPlain ==
  ASSUME BudgetInv, deployment' = deployment,
         \A i \in Ids : Fades(i) \/ marker'[i].exp = 0
                                 \/ marker'[i].scope = Tracked
  PROVE  PlainMarks'
<1>1. Tracked' = Tracked
  BY SameQuota
<1>2. \A i \in Ids : Fades(i) => marker'[i] = marker[i] \/ marker'[i].exp = 0
  BY DEF Fades, NoMarker
<1> QED BY <1>1, <1>2 DEF BudgetInv, PlainMarks

(* What a transaction of call t on engine e relies on *)
LEMMA CallFacts ==
  ASSUME Inv0, BudgetInv, NEW t \in Tasks, NEW pc, pc # "idle", NEW e \in Engines,
         At(t, pc, e)
  PROVE  /\ Up(e) /\ task[t].id \in Ids
         /\ task[t].usage \in [Metrics -> Nat]
         /\ Mine(e) = Tracked
<1>1. task[t].pc # "idle" /\ Up(e)
  BY DEF At
<1>2. task[t].id \in Ids /\ task[t].usage \in [Metrics -> Nat]
  BY <1>1, CallFields DEF Inv0
<1> QED BY <1>1, <1>2, BudgetTypes

(* What a transaction finds in a bucket *)
LEMMA SeenBound ==
  ASSUME Inv0, BudgetInv, NEW e \in Engines, Up(e), NEW p \in Prunings,
         NEW b \in Tracked
  PROVE  /\ Seen(e, p, b) \in Int /\ Seen(e, p, b) <= ideal[b]
         /\ losses = 0 /\ skewed = 0 => Seen(e, p, b) = ideal[b]
         /\ SeenMax(e, p, b) * PerSeconds[b] = Full(b)
         /\ Full(b) \in Nat
         /\ ideal[b] \in Int /\ - Full(b) <= ideal[b] /\ ideal[b] <= Full(b)
         /\ \A u \in [Metrics -> Nat] : Take(b, u) \in Nat
<1>1. /\ deployment \in Deployments /\ ServesPlain(e, b) /\ PlainRow(row[b])
      /\ Account(b) /\ b \in Mine(e)
  BY BudgetTypes
<1>2. Seen(e, p, b) = Holds(e, b) /\ SeenMax(e, p, b) * PerSeconds[b] = Full(b)
  BY <1>1, SeenHolds
<1>3. \A u \in [Metrics -> Nat] : Take(b, u) \in Nat
  BY <1>1, SeenType DEF Inv0
<1>4. Full(b) \in Nat
  BY <1>1, TrackedTypes
<1> QED BY <1>1, <1>2, <1>3, <1>4, HoldsBound DEF Account

(* await_for_capacity charges. *)
LEMMA ConsumeAccounted ==
  ASSUME Inv0, BudgetInv, NEW t \in Tasks, NEW e \in Engines,
         AccountConsume(t, e)
  PROVE  BudgetKept /\ PlainMarks'
<1> DEFINE r == task[t].id  u == task[t].usage
           amount == [b \in Tracked |-> ideal[b] - Take(b, u)]
<1>1. At(t, "try", e) /\ losses' = losses
  BY DEF AccountConsume, TryConsume
<1>2. Up(e) /\ r \in Ids /\ u \in [Metrics -> Nat] /\ Mine(e) = Tracked
  BY <1>1, CallFacts
<1>3. PICK p \in Prunings : TryCharge(e, p, r, u)
  BY DEF AccountConsume, TryConsume
<1> DEFINE left == [b \in Mine(e) |-> Seen(e, p, b) - Take(b, u)]
<1>4. /\ \A b \in Mine(e) : Take(b, u) <= Seen(e, p, b)
      /\ Charge(e, p, r, u, left)
  BY <1>3 DEF TryCharge, Sufficient
<1>5. Commit(e, p, Mine(e), WrittenRows(e, p, Mine(e), left))
  BY <1>4 DEF Charge
<1>6. \A b \in Tracked :
        /\ left[b] = Seen(e, p, b) - Take(b, u)
        /\ amount[b] = ideal[b] - Take(b, u)
        /\ ideal'[b] = IF TakenForNew(b)' THEN Full(b) ELSE amount[b]
  BY <1>2 DEF AccountConsume, Post
<1> HIDE DEF left, amount
<1>7. \A b \in Tracked :
        /\ left[b] \in Int /\ amount[b] \in Int
        /\ - Full(b) <= amount[b] /\ amount[b] <= Full(b)
        /\ left[b] <= amount[b]
        /\ losses = 0 /\ skewed = 0 => left[b] = amount[b]
        /\ ideal'[b] = IF TakenForNew(b)' THEN Full(b) ELSE amount[b]
  BY <1>2, <1>4, <1>6, SeenBound
<1>8. BudgetKept
  BY <1>1, <1>2, <1>5, <1>7, TransactionAccounted
<1>9. OthersFade(r) /\ marker'[r] = NewMarker(e, u)
  BY <1>1, <1>2, <1>3, TryChargeKeeps DEF Inv0
<1>10. deployment' = deployment
  BY <1>5, CommittedEngines
<1>11. PlainMarks'
  BY <1>2, <1>9, <1>10, MarksStayPlain DEF OthersFade, NewMarker
<1> QED BY <1>8, <1>11

(* Its cleanup gives back. *)
LEMMA UndoAccounted ==
  ASSUME Inv0, BudgetInv, NEW t \in Tasks, NEW e \in Engines, AccountUndo(t, e)
  PROVE  BudgetKept /\ PlainMarks'
<1> DEFINE r == task[t].id  u == task[t].usage
           amount == [b \in Tracked |-> Capped(b, ideal[b] + Take(b, u))]
<1>1. At(t, "undo", e) /\ losses' = losses
  BY DEF AccountUndo, Undo
<1>2. Up(e) /\ r \in Ids /\ u \in [Metrics -> Nat] /\ Mine(e) = Tracked
  BY <1>1, CallFacts
<1>3. PICK p \in Prunings : Cleanup(e, p, r, u)
  BY DEF AccountUndo, Undo
<1> DEFINE back == [b \in Mine(e) |-> Lesser(Seen(e, p, b) + Take(b, u),
                                             SeenMax(e, p, b) * PerSeconds[b])]
<1>4. Commit(e, p, Mine(e), WrittenRows(e, p, Mine(e), back))
  BY <1>3 DEF Cleanup
<1>5. \A b \in Tracked :
        /\ back[b] = Lesser(Seen(e, p, b) + Take(b, u),
                            SeenMax(e, p, b) * PerSeconds[b])
        /\ amount[b] = Lesser(Full(b), ideal[b] + Take(b, u))
        /\ ideal'[b] = IF TakenForNew(b)' THEN Full(b) ELSE amount[b]
  BY <1>2 DEF AccountUndo, Post, Capped
<1> HIDE DEF back, amount
<1>6. \A b \in Tracked :
        /\ back[b] \in Int /\ amount[b] \in Int
        /\ - Full(b) <= amount[b] /\ amount[b] <= Full(b)
        /\ back[b] <= amount[b]
        /\ losses = 0 /\ skewed = 0 => back[b] = amount[b]
        /\ ideal'[b] = IF TakenForNew(b)' THEN Full(b) ELSE amount[b]
  BY <1>2, <1>5, SeenBound DEF Lesser
<1>7. BudgetKept
  BY <1>1, <1>2, <1>4, <1>6, TransactionAccounted
<1>8. OthersFade(r) /\ marker'[r].exp = 0
  BY <1>1, <1>2, <1>3, CleanupKeeps DEF Inv0, NoMarker
<1>9. deployment' = deployment
  BY <1>4, CommittedEngines
<1>10. PlainMarks'
  BY <1>8, <1>9, MarksStayPlain DEF OthersFade
<1> QED BY <1>7, <1>10

(* A transaction that charges nothing. *)
LEMMA QuietLoad ==
  ASSUME Inv0, BudgetInv, NEW e \in Engines, Up(e), NEW p \in Prunings,
         NEW r \in Ids, LoadOnly(e, p, r), Quiet, losses' = losses
  PROVE  BudgetKept /\ PlainMarks'
<1>1. BudgetKept
  BY LoadAccounted
<1>2. MarksFade
  BY LoadOnlyKeeps DEF Inv0
<1>3. deployment' = deployment
  BY DEF LoadOnly, Commit, clock
<1>4. PlainMarks'
  BY <1>2, <1>3, MarksStayPlain DEF MarksFade
<1> QED BY <1>1, <1>4

(* No transaction at all. *)
LEMMA QuietStore ==
  ASSUME Inv0, BudgetInv, UNCHANGED <<store, losses>>, Quiet
  PROVE  BudgetKept /\ PlainMarks'
<1>1. UNCHANGED <<clock, row, marker, tombstone, engine, losses, deployment>>
  BY DEF store, clock
<1>2. BudgetKept
  BY <1>1, StayAccounted
<1>3. Tracked' = Tracked
  BY <1>1, SameQuota
<1>4. PlainMarks'
  BY <1>1, <1>3 DEF BudgetInv, PlainMarks
<1> QED BY <1>2, <1>4

(* consume_capacity charges into debt, to one window at most. *)
LEMMA RecordAccounted ==
  ASSUME Inv0, BudgetInv, NEW t \in Tasks, NEW e \in Engines, NEW r \in Ids,
         NEW u \in Usages, AccountRecord(t, e, r, u)
  PROVE  BudgetKept /\ PlainMarks'
<1> DEFINE amount == [b \in Tracked |-> Greater(- Full(b), ideal[b] - Take(b, u))]
<1>1. Up(e) /\ losses' = losses
  BY DEF AccountRecord, Record
<1>2. u \in [Metrics -> Nat] /\ Mine(e) = Tracked
  BY <1>1, BudgetTypes, DeploymentTypes
<1>3. PICK p \in Prunings : IF IsReplay(e, r, u) THEN LoadOnly(e, p, r)
                            ELSE RecordCharge(e, p, r, u)
  BY DEF AccountRecord, Record
<1>4. CASE IsReplay(e, r, u)
  BY <1>1, <1>3, <1>4, QuietLoad DEF AccountRecord
<1>5. CASE ~ IsReplay(e, r, u)
  <2> DEFINE left == [b \in Mine(e) |->
                        Greater(- SeenMax(e, p, b) * PerSeconds[b],
                                Seen(e, p, b) - Take(b, u))]
  <2>1. RecordCharge(e, p, r, u)
    BY <1>3, <1>5
  <2>2. Commit(e, p, Mine(e), WrittenRows(e, p, Mine(e), left))
    BY <2>1 DEF RecordCharge, Charge
  <2>3. \A b \in Tracked :
          /\ left[b] = Greater(- SeenMax(e, p, b) * PerSeconds[b],
                               Seen(e, p, b) - Take(b, u))
          /\ amount[b] = Greater(- Full(b), ideal[b] - Take(b, u))
          /\ ideal'[b] = IF TakenForNew(b)' THEN Full(b) ELSE amount[b]
    BY <1>2, <1>5 DEF AccountRecord, Post
  <2>4. \A b \in Tracked : - SeenMax(e, p, b) * PerSeconds[b] = - Full(b)
    BY <1>1, SeenBound
  <2> HIDE DEF left, amount
  <2>5. \A b \in Tracked :
          /\ left[b] \in Int /\ amount[b] \in Int
          /\ - Full(b) <= amount[b] /\ amount[b] <= Full(b)
          /\ left[b] <= amount[b]
          /\ losses = 0 /\ skewed = 0 => left[b] = amount[b]
          /\ ideal'[b] = IF TakenForNew(b)' THEN Full(b) ELSE amount[b]
    BY <1>1, <1>2, <2>3, <2>4, SeenBound DEF Greater
  <2>6. BudgetKept
    BY <1>1, <1>2, <2>2, <2>5, TransactionAccounted
  <2>7. OthersFade(r) /\ marker'[r] = NewMarker(e, u)
    BY <1>1, <1>2, <2>1, TryChargeKeeps DEF Inv0
  <2>8. deployment' = deployment
    BY <2>2, CommittedEngines
  <2>9. PlainMarks'
    BY <1>2, <2>7, <2>8, MarksStayPlain DEF OthersFade, NewMarker
  <2> QED BY <2>6, <2>9
<1> QED BY <1>4, <1>5

(* A refund credits all buckets of its reservation. *)
LEMMA RefundAccounted ==
  ASSUME Inv0, BudgetInv, NEW t \in Tasks, NEW e \in Engines,
         AccountRefund(t, e)
  PROVE  BudgetKept /\ PlainMarks'
<1> DEFINE r == task[t].id  actual == task[t].usage
           scope == held[r].scope  u == held[r].usage
           back(b) == Take(b, u) - Take(b, actual)
           amount == [b \in Tracked |->
             Greater(- Full(b),
                     Capped(b, ideal[b] + Greater(back(b), - Full(b))))]
<1>1. At(t, "refund", e) /\ losses' = losses
  BY DEF AccountRefund, RefundCommit
<1>2. Up(e) /\ r \in Ids /\ actual \in [Metrics -> Nat] /\ Mine(e) = Tracked
  BY <1>1, CallFacts
<1>3. u \in [Metrics -> Nat]
  BY <1>2 DEF Inv0, CallTypes, Known
<1>4. PICK p \in Prunings : Refund(e, p, r, scope, u, actual)
  BY DEF AccountRefund, RefundCommit
<1>5. scope \cap Mine(e) = Mine(e)
  <2>1. marker[r].exp > now /\ marker[r].scope = scope
    BY <1>4 DEF Refund, Refundable, LiveMarker
  <2>2. marker[r].exp # 0
    BY <2>1, BudgetTypes
  <2>3. scope = Tracked
    BY <1>2, <2>1, <2>2 DEF BudgetInv, PlainMarks
  <2> QED BY <1>2, <2>3
<1> DEFINE credited == [b \in Mine(e) |-> CreditedAmount(e, p, b, back(b))]
<1>6. Commit(e, p, Mine(e), WrittenRows(e, p, Mine(e), credited))
  BY <1>4, <1>5 DEF Refund
<1>7. \A b \in Tracked :
        /\ credited[b] = CreditedAmount(e, p, b, back(b))
        /\ amount[b] = Greater(- Full(b),
                         Capped(b, ideal[b] + Greater(back(b), - Full(b))))
        /\ ideal'[b] = IF TakenForNew(b)' THEN Full(b) ELSE amount[b]
  BY <1>2 DEF AccountRefund, Post
<1>8. \A b \in Tracked : back(b) \in Int
  <2> SUFFICES ASSUME NEW b \in Tracked PROVE back(b) \in Int
    OBVIOUS
  <2>1. Take(b, u) \in Int /\ Take(b, actual) \in Int
    BY <1>2, <1>3, SeenBound
  <2> QED BY <2>1
<1> HIDE DEF credited, amount, back
<1>9. ASSUME NEW b \in Tracked
      PROVE  /\ credited[b] \in Int /\ amount[b] \in Int
             /\ - Full(b) <= amount[b] /\ amount[b] <= Full(b)
             /\ credited[b] <= amount[b]
             /\ losses = 0 /\ skewed = 0 => credited[b] = amount[b]
             /\ ideal'[b] = IF TakenForNew(b)' THEN Full(b) ELSE amount[b]
  <2> DEFINE full == Full(b)  add == Greater(back(b), - full)
  <2>1. /\ Seen(e, p, b) \in Int /\ Seen(e, p, b) <= ideal[b]
        /\ losses = 0 /\ skewed = 0 => Seen(e, p, b) = ideal[b]
        /\ SeenMax(e, p, b) * PerSeconds[b] = full
        /\ full \in Nat /\ ideal[b] \in Int
    BY <1>2, SeenBound
  <2>2. add \in Int
    BY <1>8, <2>1 DEF Greater
  <2>3. credited[b] = Greater(- full, Lesser(Seen(e, p, b) + add, full))
    BY <1>7, <2>1 DEF CreditedAmount
  <2>4. amount[b] = Greater(- full, Lesser(full, ideal[b] + add))
    BY <1>7 DEF Capped
  <2>5. ideal'[b] = IF TakenForNew(b)' THEN full ELSE amount[b]
    BY <1>7
  <2> HIDE DEF add, full
  <2>6. /\ credited[b] \in Int /\ amount[b] \in Int
        /\ - full <= amount[b] /\ amount[b] <= full
        /\ credited[b] <= amount[b]
        /\ losses = 0 /\ skewed = 0 => credited[b] = amount[b]
    BY <2>1, <2>2, <2>3, <2>4 DEF Greater, Lesser
  <2> QED BY <2>5, <2>6 DEF full
<1>10. BudgetKept
  BY <1>1, <1>2, <1>6, <1>9, TransactionAccounted
<1>11. OthersFade(r) /\ marker'[r].exp = 0
  BY <1>1, <1>2, <1>3, <1>4, RefundKeeps DEF Inv0, NoMarker
<1>12. deployment' = deployment
  BY <1>6, CommittedEngines
<1>13. PlainMarks'
  BY <1>11, <1>12, MarksStayPlain DEF OthersFade
<1> QED BY <1>10, <1>13

(* A transaction that charges nothing, or is rolled back. *)
LEMMA QuietTransactionAccounted ==
  ASSUME Inv0, BudgetInv, NEW t \in Tasks, NEW e \in Engines,
         QuietTransaction(t, e), Quiet
  PROVE  BudgetKept /\ PlainMarks'
<1> DEFINE r == task[t].id
<1>1. ASSUME NEW p \in Prunings, NEW pc, pc # "idle", At(t, pc, e),
             LoadOnly(e, p, r), losses' = losses
      PROVE  BudgetKept /\ PlainMarks'
  <2>1. Up(e) /\ r \in Ids
    BY <1>1, CallFacts
  <2> HIDE DEF r
  <2> QED BY <1>1, <2>1, QuietLoad
<1>2. CASE TryReplay(t, e)
  <2>1. PICK p \in Prunings : LoadOnly(e, p, r)
    BY <1>2 DEF TryReplay
  <2> QED BY <1>1, <1>2, <2>1 DEF TryReplay
<1>3. CASE TryWait(t, e)
  <2>1. PICK p \in Prunings : LoadOnly(e, p, r)
    BY <1>3 DEF TryWait
  <2> QED BY <1>1, <1>3, <2>1 DEF TryWait
<1>4. CASE TryReject(t, e) \/ RefundReject(t, e)
  <2>1. UNCHANGED <<store, losses>>
    BY <1>4 DEF TryReject, RefundReject, Rollback
  <2> QED BY <2>1, QuietStore
<1> QED BY <1>2, <1>3, <1>4 DEF QuietTransaction

(* What callers and callbacks do touches no table. *)
LEMMA QuietCallAccounted ==
  ASSUME Inv0, BudgetInv, NEW t \in Tasks, Quiet,
         Outcome(t) \/ \E e \in Engines : QuietCall(t, e)
  PROVE  BudgetKept /\ PlainMarks'
<1>1. ASSUME Outcome(t) PROVE UNCHANGED <<store, losses>>
  BY <1>1 DEF Outcome, GiveUp, CallbacksReturn, Interrupt, InterruptClosed,
              UndoFails, RecordReturns, Rollback
<1>2. ASSUME NEW e \in Engines, QuietCall(t, e) PROVE UNCHANGED <<store, losses>>
  BY <1>2 DEF QuietCall, AwaitCall, RefundCall
<1> QED BY <1>1, <1>2, QuietStore

(* Engines that close or die take no capacity with them. *)
LEMMA GoneAccounted ==
  ASSUME Inv0, BudgetInv, NEW e \in Engines, Close(e) \/ Crash(e), Quiet
  PROVE  BudgetKept /\ PlainMarks'
<1>1. UNCHANGED <<clock, row, marker, losses>>
  BY DEF Close, Crash, calls
<1>2. engine = [f \in Engines |-> engine[f]]
  BY DEF Inv0, StoreInv, StoreTypes, EngineTypes
<1>3. \A f \in Engines : engine'[f].status = "up" => engine'[f] = engine[f]
  <2>1. CASE Close(e)
    <3>1. /\ engine'[e].status = "closed"
          /\ \A f \in Engines \ {e} : engine'[f] = engine[f]
      BY <1>2, <2>1 DEF Close, Down
    <3> QED BY <3>1
  <2>2. CASE Crash(e)
    <3>1. \A f \in Engines : engine'[f] = Down \/ engine'[f] = engine[f]
      BY <2>2 DEF Crash
    <3>2. Down.status # "up"
      BY DEF Down
    <3> QED BY <3>1, <3>2
  <2> QED BY <2>1, <2>2
<1>4. BudgetKept
  BY <1>1, <1>3, StayAccounted
<1>5. deployment' = deployment
  BY <1>1 DEF clock
<1>6. PlainMarks'
  BY <1>1, <1>5, SameQuota DEF BudgetInv, PlainMarks
<1> QED BY <1>4, <1>6

(* Opening prunes marks, time and a loss forge none. *)
LEMMA WorldMarksStayPlain ==
  ASSUME Inv0, BudgetInv,
         \/ \E e \in Engines : AccountStart(e)
         \/ AccountLose \/ AccountTick \/ ClockSetBack
  PROVE  PlainMarks'
<1>1. ASSUME NEW e \in Engines, AccountStart(e) PROVE PlainMarks'
  <2>1. PICK p \in Prunings : PruneMarkers(p) /\ deployment' = deployment
    BY <1>1 DEF AccountStart, StartProcess, Start, Open, clock
  <2>2. MarksFade
    BY <2>1, PruneMarkersFacts DEF Inv0, StoreInv
  <2> QED BY <2>1, <2>2, MarksStayPlain DEF MarksFade
<1>2. ASSUME AccountLose PROVE PlainMarks'
  <2>1. /\ deployment' = deployment
        /\ \A i \in Ids : marker'[i].exp = 0
    BY <1>2 DEF AccountLose, Lose, LoseStore, clock, NoMarker
  <2> QED BY <2>1, MarksStayPlain
<1>3. ASSUME AccountTick \/ ClockSetBack PROVE PlainMarks'
  <2>1. deployment' = deployment /\ marker' = marker
    BY <1>3 DEF AccountTick, Tick, ClockSetBack
  <2> QED BY <2>1, SameQuota DEF BudgetInv, PlainMarks
<1> QED BY <1>1, <1>2, <1>3

(* The budget stays accounted for in every step. *)
LEMMA BudgetStep ==
  ASSUME Inv0, BudgetInv, [AccountingNext]_allvars
  PROVE  BudgetInv'
<1>1. BudgetKept /\ PlainMarks'
  <2>1. ASSUME NEW t \in Tasks, Outcome(t) /\ Quiet
        PROVE  BudgetKept /\ PlainMarks'
    BY <2>1, QuietCallAccounted
  <2>2. ASSUME NEW t \in Tasks, NEW e \in Engines,
               \/ (QuietTransaction(t, e) \/ QuietCall(t, e)) /\ Quiet
               \/ AccountConsume(t, e) \/ AccountUndo(t, e)
               \/ AccountRefund(t, e)
               \/ \E r \in Ids, u \in Usages : AccountRecord(t, e, r, u)
        PROVE  BudgetKept /\ PlainMarks'
    BY <2>2, QuietTransactionAccounted, QuietCallAccounted, ConsumeAccounted,
       UndoAccounted, RefundAccounted, RecordAccounted
  <2>3. ASSUME NEW e \in Fleet,
               AccountStart(e) \/ ((Close(e) \/ Crash(e)) /\ Quiet)
        PROVE  BudgetKept /\ PlainMarks'
    <3>1. e \in Engines
      BY DeploymentTypes DEF Inv0, StoreInv, StoreTypes, ClockTypes
    <3> QED BY <2>3, <3>1, StartAccounted, GoneAccounted, WorldMarksStayPlain
  <2>4. ASSUME \/ AccountLose \/ AccountTick
               \/ ClockSetBack /\ UNCHANGED calls /\ Quiet
        PROVE  BudgetKept /\ PlainMarks'
    BY <2>4, LoseAccounted, TickAccounted, SetBackAccounted,
       WorldMarksStayPlain
  <2>5. ASSUME UNCHANGED allvars PROVE BudgetKept /\ PlainMarks'
    <3>1. UNCHANGED <<store, losses>> /\ Quiet
      BY <2>5 DEF allvars, vars, calls, Quiet
    <3> QED BY <3>1, QuietStore
  <2> QED BY <2>1, <2>2, <2>3, <2>4, <2>5 DEF AccountingNext
<1>2. deployment' = deployment
  <2>1. [Next]_vars
    BY AccountedStep
  <2>2. CASE Next
    BY <2>2, NextKind DEF Called, Steady, Operated, Died, Lose, LoseStore,
       Clock, Tick, ClockSetBack, clock
  <2>3. CASE UNCHANGED vars
    BY <2>3 DEF vars, store, clock
  <2> QED BY <2>1, <2>2, <2>3
<1>3. Tracked' = Tracked
  BY <1>2, SameQuota
<1> QED BY <1>1, <1>3 DEF BudgetInv, BudgetKept

(* The first engines open on an empty database, with full buckets. *)
LEMMA BudgetInit ==
  ASSUME AccountingInit
  PROVE  Inv0 /\ BudgetInv
<1>1. Inv0
  BY InitTypes DEF AccountingInit
<1>2. /\ deployment \in Deployments /\ losses = 0 /\ now = 1
      /\ row = [b \in Buckets |-> IF b \in Tracked THEN NewRow ELSE Absent]
      /\ marker = [r \in Ids |-> NoMarker]
      /\ engine = [e \in Engines |->
                     IF e \in Initial THEN [Down EXCEPT !.status = "up",
                                                        !.conf = StartConfig]
                     ELSE Down]
      /\ ideal = [b \in Tracked |-> Full(b)]
  BY DEF AccountingInit, Init, StoreInit, Tracked
<1>3. now \in Nat /\ PlainRow(NewRow) /\ NewRow.exists /\ NewRow.fresh
  <2>1. now \in Nat
    BY <1>2
  <2> QED BY <2>1, NewRowType DEF NewRow, Absent, NoOverride, PlainRow
<1>4. \A b \in Tracked : row[b] = NewRow /\ ideal[b] = Full(b)
  BY <1>2, TrackedTypes
<1>5. PlainEngines
  BY <1>2 DEF PlainEngines, Up, Conf, Down
<1>6. PlainRows
  BY <1>3, <1>4 DEF PlainRows
<1>7. PlainMarks
  BY <1>2 DEF PlainMarks, NoMarker
<1>8. ASSUME NEW b \in Tracked PROVE Account(b)
  <2>1. Full(b) \in Nat /\ ~ Used(row[b]) /\ ideal[b] = Full(b)
    BY <1>2, <1>3, <1>4, TrackedTypes DEF Used
  <2> QED BY <2>1 DEF Account, Unspent, Exact
<1> QED BY <1>1, <1>5, <1>6, <1>7, <1>8 DEF BudgetInv

-----------------------------------------------------------------------------
(* The theorems *)

(* The budget is accounted for in every reachable state. *)
LEMMA BudgetAccounted == AccountingSpec => [](Inv0 /\ BudgetInv)
<1>1. AccountingInit => Inv0 /\ BudgetInv
  BY BudgetInit
<1>2. Inv0 /\ BudgetInv /\ [AccountingNext]_allvars => Inv0' /\ BudgetInv'
  BY AccountedStep, StepKeepsTypes, BudgetStep
<1> QED BY <1>1, <1>2, PTL DEF AccountingSpec

(* Rows, lifetimes, pruning, repairs of a clock that was set back, crashes *)
(* and lost databases never make capacity: no engine finds more in a       *)
(* bucket than one eager bucket, which knows none of them, holds.          *)
THEOREM ExpiryMakesNoCapacity == AccountingSpec => []NeverMore
<1>1. Inv0 /\ BudgetInv => NeverMore
  BY HoldsBound DEF NeverMore
<1> QED BY <1>1, BudgetAccounted, PTL

(* While the clock runs forward and the database stays, all engines of all *)
(* processes find exactly what that one bucket holds: they share one       *)
(* budget, and lazy refill loses none of it.                               *)
THEOREM ProcessesShareOneBudget == AccountingSpec => []OneSharedBudget
<1>1. Inv0 /\ BudgetInv => OneSharedBudget
  BY HoldsBound DEF OneSharedBudget
<1> QED BY <1>1, BudgetAccounted, PTL

=============================================================================
