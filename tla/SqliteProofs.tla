---------------------------- MODULE SqliteProofs ----------------------------
(***************************************************************************)
(* Proofs about the backends that share a SQLite database, for every       *)
(* number of processes, calls, ids and buckets, whatever their quotas and  *)
(* lifetimes.                                                              *)
(***************************************************************************)
EXTENDS SqliteBackend, TLAPS

-----------------------------------------------------------------------------
(* Loading and writing one bucket row *)

(* The quotient of naturals rounded up is a natural. *)
LEMMA CeilDivType ==
  ASSUME NEW a \in Nat, NEW n \in Nat \ {0}
  PROVE  CeilDiv(a, n) \in Nat
<1>1. a + n - 1 \in Nat
  OBVIOUS
<1>2. \A x \in Nat : x \div n \in Nat
  OBVIOUS
<1> QED BY <1>1, <1>2 DEF CeilDiv

(* The evidence of a state ends before the state itself may. *)
LEMMA NineTenths ==
  /\ CeilDiv(9 * BucketTTL, 10) \in Nat
  /\ CeilDiv(9 * BucketTTL, 10) <= BucketTTL
BY StoreAssumption DEF CeilDiv

(* Engine e has bucket b. *)
Serves(e, b) ==
  /\ e \in Engines /\ b \in Buckets
  /\ Conf(e)[b] \in Nat \ {0}
  /\ now \in Nat

(* The limit in force is positive. *)
LEMMA EffectiveMaxType ==
  ASSUME NEW e, NEW b, Serves(e, b), NEW rw \in Row
  PROVE  EffectiveMax(e, b, rw) \in Nat \ {0}
BY DEF Serves, EffectiveMax, Anchored, OverrideLive, Row, Override

(* No debt shortens the life of a row. *)
LEMMA DebtTTLType ==
  ASSUME NEW b \in Buckets, NEW amount \in Int, NEW max \in Nat \ {0},
         NEW configured \in Nat \ {0}
  PROVE  /\ debt_ttl_seconds(b, amount, max, configured) \in Nat
         /\ debt_ttl_seconds(b, amount, max, configured) >= BucketTTL
<1>1. BucketTTL \in Nat /\ PerSeconds[b] \in Nat
  BY StoreAssumption
<1>2. CASE amount >= 0
  BY <1>1, <1>2 DEF debt_ttl_seconds
<1>3. CASE ~ amount >= 0
  <2> DEFINE paid == CeilDiv(- amount, Lesser(max, configured))
  <2>1. - amount \in Nat /\ Lesser(max, configured) \in Nat \ {0}
    BY <1>3 DEF Lesser
  <2>2. paid \in Nat
    BY <2>1, CeilDivType
  <2>3. debt_ttl_seconds(b, amount, max, configured)
          = Greater(BucketTTL, PerSeconds[b] + paid)
    BY <1>3 DEF debt_ttl_seconds
  <2> HIDE DEF paid
  <2> QED BY <1>1, <2>2, <2>3 DEF Greater
<1> QED BY <1>2, <1>3

(* The amounts an engine reads *)
LEMMA AmountType ==
  ASSUME NEW e, NEW b, Serves(e, b), NEW rw \in Row
  PROVE  /\ Amount(e, b, rw) \in Int
         /\ Uncapped(View(e, b, rw)) \in Int
         /\ EffectiveMax(e, b, rw) * PerSeconds[b] \in Nat
<1> DEFINE max == EffectiveMax(e, b, rw)  passed == Greater(0, now - rw.last)
<1>1. /\ max \in Nat /\ PerSeconds[b] \in Nat /\ now \in Nat
      /\ rw.cap \in Int /\ rw.last \in Nat
  BY EffectiveMaxType, StoreAssumption DEF Serves, Row
<1>2. passed \in Nat
  BY <1>1 DEF Greater
<1>3. \A x, y \in Nat : x * y \in Nat
  OBVIOUS
<1>4. max * PerSeconds[b] \in Nat /\ passed * max \in Nat
  BY <1>1, <1>2, <1>3
<1>5. /\ Uncapped(View(e, b, rw)) = rw.cap + passed * max
      /\ Amount(e, b, rw) =
           IF rw.fresh THEN max * PerSeconds[b]
           ELSE Lesser(max * PerSeconds[b], rw.cap + passed * max)
  BY DEF Uncapped, View, TimePassed, Amount, calculate_capacity
<1> HIDE DEF max, passed
<1> QED BY <1>1, <1>4, <1>5 DEF Lesser, max

(* A row with a state that lasts until then *)
Evident(rw, until) == rw.exists /\ ~ rw.fresh /\ rw.exp >= until

(* What every repair of a row that is there keeps *)
Repairs(rw, new) ==
  /\ new \in Row
  /\ new.exists
  /\ OverrideLive(rw) => new.over = rw.over
  /\ ~ rw.fresh => ~ new.fresh
  /\ new = rw \/ new.exp = now + BucketTTL

(* Rows stay rows when fields of them are written. *)
LEMMA RowAmount ==
  ASSUME NEW rw \in Row, NEW fresh \in BOOLEAN, NEW cap \in Int, NEW last \in Nat
  PROVE  [rw EXCEPT !.fresh = fresh, !.cap = cap, !.last = last] \in Row
BY DEF Row

(* A row that gets a state is a row. *)
LEMMA RowState ==
  ASSUME NEW rw \in Row, NEW fresh \in BOOLEAN, NEW cap \in Int,
         NEW last \in Nat, NEW exp \in Nat
  PROVE  [rw EXCEPT !.fresh = fresh, !.cap = cap, !.last = last, !.exp = exp]
           \in Row
BY DEF Row

(* So is a row whose override is over, with the refill it brought. *)
LEMMA RowIntegrated ==
  ASSUME NEW rw \in Row, NEW cap \in Int, NEW last \in Nat
  PROVE  [rw EXCEPT !.cap = cap, !.last = last] \in Row
BY DEF Row

(* Its state may be written back at another second, *)
LEMMA RowAnchored ==
  ASSUME NEW rw \in Row, NEW last \in Nat, NEW exp \in Nat
  PROVE  [rw EXCEPT !.last = last, !.exp = exp] \in Row
BY DEF Row

(* its override and its end replaced. *)
LEMMA RowOverride ==
  ASSUME NEW rw \in Row, NEW over \in Override, NEW exp \in Nat
  PROVE  [rw EXCEPT !.over = over, !.exp = exp] \in Row
BY DEF Row

(* The rows of INSERT OR IGNORE and of a table without the row. *)
LEMMA NewRowType ==
  ASSUME now \in Nat
  PROVE  /\ NewRow \in Row /\ NewRow.exists /\ Absent \in Row
         /\ NoOverride \in Override
<1>1. NoOverride \in Override
  BY DEF NoOverride, Override
<1>2. now + BucketTTL \in Nat
  BY StoreAssumption
<1>3. Absent \in Row
  BY <1>1 DEF Absent, Row
<1>4. NewRow \in Row /\ NewRow.exists
  BY <1>2, <1>3 DEF NewRow, Row
<1> QED BY <1>1, <1>3, <1>4

(* What loading does, step by step. A row that expired loses its state, not *)
(* a live override; ...                                                     *)
LEMMA SurvivingRow ==
  ASSUME NEW rw \in Row, now \in Nat
  PROVE  /\ Surviving(rw) \in Row
         /\ Surviving(rw).exists
         /\ OverrideLive(rw) /\ rw.exists => Surviving(rw).over = rw.over
         /\ rw.exists /\ rw.exp > now => Surviving(rw) = rw
<1>1. NewRow \in Row /\ NewRow.exists
  BY NewRowType
<1>2. [rw EXCEPT !.fresh = TRUE, !.cap = 0, !.last = 0] \in Row
  <2>1. TRUE \in BOOLEAN /\ 0 \in Int /\ 0 \in Nat
    OBVIOUS
  <2> QED BY <2>1, RowAmount
<1> QED BY <1>1, <1>2 DEF Surviving, Expired, Prunable, Row

(* ... an override that is over is integrated and removed; ... *)
LEMMA EndOverrideRow ==
  ASSUME NEW e, NEW b, Serves(e, b), NEW rw \in Row, rw.exists
  PROVE  Repairs(rw, EndOverride(e, b, rw))
<1> DEFINE ended == [rw EXCEPT !.over = NoOverride, !.exp = now + BucketTTL]
           cap == rw.cap + (rw.over.until - rw.last) * rw.over.max
           integrated == [ended EXCEPT !.cap = cap, !.last = rw.over.until]
<1>1. BucketTTL \in Nat /\ now \in Nat
  BY StoreAssumption DEF Serves
<1>2. ended \in Row /\ ended.exists /\ ended.exp = now + BucketTTL
      /\ ended.fresh = rw.fresh
  <2>1. now + BucketTTL \in Nat
    BY <1>1
  <2>2. ended \in Row
    BY <2>1, NewRowType, RowOverride DEF Serves
  <2> QED BY <2>2 DEF Row
<1>3. \A x \in Int, y \in Nat : x * y \in Int
  OBVIOUS
<1>4. /\ rw.over.until \in Nat /\ rw.last \in Nat /\ rw.over.max \in Nat
      /\ rw.cap \in Int
  BY DEF Row, Override
<1>5. cap \in Int
  BY <1>3, <1>4
<1>6. \/ EndOverride(e, b, rw) = rw
      \/ ~ OverrideLive(rw) /\ EndOverride(e, b, rw) \in {ended, integrated}
  BY DEF EndOverride
<1> HIDE DEF cap, ended
<1>7. integrated \in Row /\ integrated.exists
      /\ integrated.exp = now + BucketTTL /\ integrated.fresh = rw.fresh
  BY <1>2, <1>4, <1>5 DEF Row
<1> HIDE DEF integrated
<1> QED BY <1>2, <1>6, <1>7 DEF Repairs

(* ... a state that this engine committed and that is gone is drained; ... *)
LEMMA DrainLostRow ==
  ASSUME NEW e, NEW b, Serves(e, b), NEW rw \in Row, rw.exists
  PROVE  /\ Repairs(rw, DrainLost(e, b, rw))
         /\ DrainLost(e, b, rw) # rw => ~ DrainLost(e, b, rw).fresh
<1> DEFINE drained == [rw EXCEPT !.fresh = FALSE, !.cap = 0, !.last = now,
                                 !.exp = now + BucketTTL]
<1>1. now \in Nat /\ now + BucketTTL \in Nat
  BY StoreAssumption DEF Serves
<1>2. drained \in Row
  <2>1. FALSE \in BOOLEAN /\ 0 \in Int
    OBVIOUS
  <2> QED BY <1>1, <2>1, RowState
<1>3. DrainLost(e, b, rw) = rw \/ DrainLost(e, b, rw) = drained
  BY DEF DrainLost
<1> QED BY <1>1, <1>2, <1>3 DEF Repairs, Row

(* ... a state of the future is moved to the present; ... *)
LEMMA RepairFutureRow ==
  ASSUME NEW rw \in Row, rw.exists, now \in Nat
  PROVE  /\ Repairs(rw, RepairFuture(rw))
         /\ RepairFuture(rw) # rw => ~ RepairFuture(rw).fresh
         /\ RepairFuture(rw).fresh = rw.fresh
<1> DEFINE repaired == [rw EXCEPT !.last = now, !.exp = now + BucketTTL]
<1>1. now + BucketTTL \in Nat
  BY StoreAssumption
<1>2. repaired \in Row
  BY <1>1, RowAnchored
<1>3. \/ RepairFuture(rw) = rw
      \/ RepairFuture(rw) = repaired /\ ~ rw.fresh
  BY Zenon DEF RepairFuture
<1> QED BY <1>1, <1>2, <1>3 DEF Repairs, Row

(* ... and debt only prolongs a row. *)
LEMMA ExtendDebtRow ==
  ASSUME NEW e, NEW b, Serves(e, b), NEW rw \in Row
  PROVE  /\ ExtendDebt(e, b, rw) \in Row
         /\ ExtendDebt(e, b, rw).exists = rw.exists
         /\ ExtendDebt(e, b, rw).fresh = rw.fresh
         /\ ExtendDebt(e, b, rw).over = rw.over
         /\ ExtendDebt(e, b, rw).exp >= rw.exp
<1> DEFINE ttl == debt_ttl_seconds(b, Amount(e, b, rw), EffectiveMax(e, b, rw),
                                   Conf(e)[b])
           exp == Greater(rw.exp, now + ttl)
<1>1. ttl \in Nat
  BY AmountType, EffectiveMaxType, DebtTTLType DEF Serves
<1>2. now \in Nat /\ rw.exp \in Nat
  BY DEF Serves, Row
<1> HIDE DEF ttl
<1>3. exp \in Nat /\ exp >= rw.exp
  BY <1>1, <1>2 DEF Greater
<1>4. ExtendDebt(e, b, rw) \in {rw, [rw EXCEPT !.exp = exp]}
  BY DEF ExtendDebt, ttl
<1> HIDE DEF exp
<1> QED BY <1>2, <1>3, <1>4 DEF Row

(* What an engine finds when it loads a row: a complete state that was not *)
(* due to end is still there, a live override too; and when it wrote a     *)
(* state itself, that one lasts for the whole lifetime of rows.            *)
LEMMA LoadedRow ==
  ASSUME NEW e, NEW b, Serves(e, b), NEW rw \in Row
  PROVE  /\ Load(e, b, rw) \in Row
         /\ Load(e, b, rw).exists
         /\ OverrideLive(rw) /\ rw.exists => Load(e, b, rw).over = rw.over
         /\ \A until \in Nat :
              /\ Evident(rw, until) /\ until > now /\ until <= now + BucketTTL
              => Evident(Load(e, b, rw), until)
         /\ LoadWrites(e, b, rw) => Evident(Load(e, b, rw), now + BucketTTL)
<1> DEFINE kept == Surviving(rw)
           ended == EndOverride(e, b, kept)
           drained == DrainLost(e, b, ended)
           repaired == RepairFuture(drained)
           loaded == ExtendDebt(e, b, repaired)
<1>0. now \in Nat /\ BucketTTL \in Nat
  BY StoreAssumption DEF Serves
<1>1. /\ kept \in Row /\ kept.exists
      /\ OverrideLive(rw) /\ rw.exists => kept.over = rw.over
      /\ rw.exists /\ rw.exp > now => kept = rw
  BY <1>0, SurvivingRow
<1> HIDE DEF kept
<1>2. Repairs(kept, ended)
  BY <1>1, EndOverrideRow
<1> HIDE DEF ended
<1>3. Repairs(ended, drained) /\ drained # ended => ~ drained.fresh
  BY <1>2, DrainLostRow DEF Repairs
<1>3a. Repairs(ended, drained)
  BY <1>2, DrainLostRow DEF Repairs
<1> HIDE DEF drained
<1>4. Repairs(drained, repaired)
  BY <1>0, <1>3a, RepairFutureRow DEF Repairs
<1>5. /\ repaired # drained => ~ repaired.fresh
      /\ repaired.fresh = drained.fresh
  BY <1>0, <1>3a, RepairFutureRow DEF Repairs
<1> HIDE DEF repaired
<1>6. /\ loaded \in Row /\ loaded.exists = repaired.exists
      /\ loaded.fresh = repaired.fresh /\ loaded.over = repaired.over
      /\ loaded.exp >= repaired.exp
  BY <1>4, ExtendDebtRow DEF Repairs
<1>7. Load(e, b, rw) = loaded
  BY DEF Load, kept, ended, drained, repaired
<1>8. LoadWrites(e, b, rw) <=> \/ ended # kept /\ ~ ended.fresh
                               \/ drained # ended
                               \/ repaired # drained
  BY DEF LoadWrites, kept, ended, drained, repaired
<1> HIDE DEF loaded
<1>9. loaded.exists
  BY <1>4, <1>6 DEF Repairs
<1>10. ASSUME OverrideLive(rw), rw.exists
       PROVE  loaded.over = rw.over
  <2>1. kept.over = rw.over /\ OverrideLive(kept)
    BY <1>1, <1>10 DEF OverrideLive
  <2>2. ended.over = rw.over /\ OverrideLive(ended)
    BY <1>2, <2>1 DEF Repairs, OverrideLive
  <2>3. drained.over = rw.over /\ OverrideLive(drained)
    BY <1>3a, <2>2 DEF Repairs, OverrideLive
  <2> QED BY <1>4, <1>6, <2>3 DEF Repairs
<1>11. ASSUME NEW until \in Nat, Evident(rw, until), until > now,
              until <= now + BucketTTL
       PROVE  Evident(loaded, until)
  <2>0. rw.exp \in Nat
    BY DEF Row
  <2>1. kept = rw
    BY <1>0, <1>1, <1>11, <2>0 DEF Evident
  <2>2. Evident(ended, until)
    BY <1>0, <1>2, <1>11, <2>1 DEF Repairs, Evident
  <2>3. Evident(drained, until)
    BY <1>0, <1>3a, <1>11, <2>2 DEF Repairs, Evident
  <2>4. Evident(repaired, until)
    BY <1>0, <1>4, <1>11, <2>3 DEF Repairs, Evident
  <2>5. repaired.exp \in Nat /\ loaded.exp \in Nat
    BY <1>4, <1>6 DEF Repairs, Row
  <2> QED BY <1>6, <1>9, <1>11, <2>4, <2>5 DEF Evident
<1>12. ASSUME LoadWrites(e, b, rw)
       PROVE  Evident(loaded, now + BucketTTL)
  <2>1. repaired.exp = now + BucketTTL
    BY <1>2, <1>3a, <1>4, <1>8, <1>12 DEF Repairs
  <2>2. ~ repaired.fresh
    BY <1>3, <1>3a, <1>4, <1>5, <1>8, <1>12 DEF Repairs
  <2>3. repaired.exp \in Nat /\ loaded.exp \in Nat
    BY <1>4, <1>6 DEF Repairs, Row
  <2> QED BY <1>6, <1>9, <2>1, <2>2, <2>3 DEF Evident
<1> QED BY <1>6, <1>7, <1>9, <1>10, <1>11, <1>12

(* What a write leaves behind *)
LEMMA WrittenRow ==
  ASSUME NEW e, NEW b, Serves(e, b), NEW rw \in Row, rw.exists,
         NEW amount \in Int
  PROVE  /\ Write(e, b, rw, amount) \in Row
         /\ Write(e, b, rw, amount).over = rw.over
         /\ Evident(Write(e, b, rw, amount), now + BucketTTL)
<1> DEFINE ttl == debt_ttl_seconds(b, amount, EffectiveMax(e, b, rw),
                                   Conf(e)[b])
<1>1. ttl \in Nat /\ ttl >= BucketTTL
  BY EffectiveMaxType, DebtTTLType DEF Serves
<1>2. now \in Nat /\ BucketTTL \in Nat
  BY StoreAssumption DEF Serves
<1>3. Write(e, b, rw, amount) =
        [rw EXCEPT !.fresh = FALSE, !.cap = amount, !.last = now,
                   !.exp = now + ttl]
  BY DEF Write
<1> HIDE DEF ttl
<1>4. now + ttl \in Nat /\ FALSE \in BOOLEAN
  BY <1>1, <1>2
<1>5. [rw EXCEPT !.fresh = FALSE, !.cap = amount, !.last = now,
                 !.exp = now + ttl] \in Row
  BY <1>2, <1>4, RowState, Zenon
<1>6. Write(e, b, rw, amount) \in Row
  BY <1>3, <1>5
<1> QED BY <1>1, <1>2, <1>3, <1>6 DEF Evident, Row

-----------------------------------------------------------------------------
(* One transaction: what it does to the rows and to its engine's evidence *)

(* The parts of TypeOK *)
ClockTypes ==
  /\ deployment \in Deployments
  /\ now \in 1..MaxTime
  /\ skewed \in 0..MaxSkew

RowTypes == row \in [Buckets -> Row]

MarkTypes == marker \in [Ids -> Marker] /\ tombstone \in [Ids -> Nat]

IsEngine(e, g) ==
  /\ g \in [status : {"down", "spare", "up", "closed"}, conf : {g.conf},
            confirmed : [Buckets -> Nat], next : SUBSET (Engines \ {e}),
            cleared : BOOLEAN]
  /\ IsQuota(g.conf)

EngineTypes ==
  /\ engine = [e \in Engines |-> engine[e]]
  /\ \A e \in Engines : IsEngine(e, engine[e])

StoreTypes == ClockTypes /\ RowTypes /\ MarkTypes /\ EngineTypes

Known == [status : Status, exp : Nat, scope : SUBSET Buckets,
          usage : [Metrics -> Nat]]

CallTypes ==
  /\ task \in [Tasks -> Task]
  /\ \A t \in Tasks : task[t].pc # "idle" => task[t].id \in Ids
  /\ issued \in 0..MaxIds
  /\ held \in [Ids -> Known]
  /\ crashes \in 0..MaxCrashes
  /\ losses \in 0..MaxLosses

(* The type invariant in the parts the steps disturb one by one. *)
LEMMA TypeParts == TypeOK <=> StoreTypes /\ CallTypes
<1> DEFINE copy == [e \in Engines |->
                      [status |-> engine[e].status, conf |-> Conf(e),
                       confirmed |-> engine[e].confirmed,
                       next |-> engine[e].next, cleared |-> engine[e].cleared]]
           typed == \A e \in Engines :
                      /\ engine[e].status \in {"down", "spare", "up", "closed"}
                      /\ IsQuota(Conf(e))
                      /\ engine[e].confirmed \in [Buckets -> Nat]
                      /\ engine[e].next \subseteq Engines \ {e}
                      /\ engine[e].cleared \in BOOLEAN
<1>1. ASSUME engine = copy, typed PROVE EngineTypes
  <2>1. engine = [e \in Engines |-> engine[e]]
    BY <1>1
  <2>2. ASSUME NEW e \in Engines PROVE IsEngine(e, engine[e])
    <3>1. engine[e] = [status |-> engine[e].status, conf |-> Conf(e),
                       confirmed |-> engine[e].confirmed,
                       next |-> engine[e].next, cleared |-> engine[e].cleared]
      BY <1>1
    <3> QED BY <1>1, <3>1 DEF IsEngine, Conf
  <2> QED BY <2>1, <2>2 DEF EngineTypes
<1>2. ASSUME EngineTypes PROVE engine = copy /\ typed
  <2>1. \A e \in Engines : engine[e] = copy[e]
    BY <1>2 DEF EngineTypes, IsEngine, Conf
  <2>2. engine = copy
    BY <1>2, <2>1 DEF EngineTypes
  <2>3. typed
    BY <1>2 DEF EngineTypes, IsEngine, Conf
  <2> QED BY <2>2, <2>3
<1>3. EngineTypes <=> engine = copy /\ typed
  BY <1>1, <1>2
<1> HIDE DEF copy, typed
<1>4. TypeOK <=> /\ ClockTypes /\ RowTypes /\ MarkTypes /\ CallTypes
                 /\ engine = copy /\ typed
  BY DEF TypeOK, StoreTypeOK, ClockTypes, RowTypes, MarkTypes, CallTypes, Known,
         copy, typed
<1> QED BY <1>3, <1>4 DEF StoreTypes

(* What the deployment of a behaviour brings with it *)
LEMMA DeploymentTypes ==
  ASSUME deployment \in Deployments
  PROVE  /\ Fleet \subseteq Engines /\ Initial \subseteq Fleet
         /\ \A c \in Configs : IsQuota(c)
         /\ StartConfig \in Configs
         /\ OverrideTTL \in Nat \ {0} /\ MaxTime \in Nat \ {0}
         /\ MaxSkew \in Nat /\ MaxCrashes \in Nat /\ MaxLosses \in Nat
         /\ Usages \subseteq [Metrics -> Nat]
         /\ Limits \subseteq Nat \ {0}
BY StoreAssumption, CallsAssumption
DEF Fleet, Initial, Configs, StartConfig, OverrideTTL, MaxTime, MaxSkew,
    MaxCrashes, MaxLosses, Usages, Limits

(* An engine serves the buckets of its configuration. *)
LEMMA ServesMine ==
  ASSUME StoreTypes, NEW e \in Engines
  PROVE  /\ Mine(e) \subseteq Buckets
         /\ \A b \in Mine(e) : Serves(e, b)
         /\ now \in Nat /\ now >= 1
         /\ Conf(e) \in [Mine(e) -> Nat \ {0}]
<1>1. IsQuota(Conf(e)) /\ now \in 1..MaxTime
  BY DEF StoreTypes, EngineTypes, ClockTypes, IsEngine, Conf
<1>2. MaxTime \in Nat
  BY DeploymentTypes DEF StoreTypes, ClockTypes
<1> QED BY <1>1, <1>2 DEF IsQuota, Mine, Serves

(* Only what has expired is pruned. *)
LEMMA PruneSets ==
  ASSUME NEW p \in Prunings
  PROVE  /\ \A b \in p.rows : b \in Buckets /\ Prunable(row[b])
         /\ \A r \in p.markers : r \in Ids /\ marker[r].exp \in 1..now
         /\ \A r \in p.tombs : r \in Ids /\ tombstone[r] \in 1..now
BY DEF Prunings, Batch

(* A row that is not there has no override. *)
RowsSound == \A b \in Buckets : row[b].exists \/ row[b].over.max = 0

(* Pruning takes neither a live override nor a state that some engine has   *)
(* evidence of.                                                             *)
LEMMA PrunedRowFacts ==
  ASSUME StoreTypes, RowsSound, NEW p \in Prunings, NEW b \in Buckets
  PROVE  /\ PrunedRow(p, b) \in Row
         /\ PrunedRow(p, b).exists \/ PrunedRow(p, b).over.max = 0
         /\ OverrideLive(row[b]) => PrunedRow(p, b) = row[b]
         /\ \A until \in Nat : Evident(row[b], until) /\ until > now
                                 => PrunedRow(p, b) = row[b]
<1>1. row[b] \in Row /\ now \in Nat /\ Absent \in Row
  <2>1. now \in Nat
    BY DeploymentTypes DEF StoreTypes, ClockTypes
  <2> QED BY <2>1, NewRowType DEF StoreTypes, RowTypes
<1>2. b \in p.rows => Prunable(row[b])
  BY PruneSets
<1>3. row[b].exp \in Nat
  BY <1>1 DEF Row
<1> QED BY <1>1, <1>2, <1>3 DEF PrunedRow, Prunable, Expired, Evident, RowsSound,
                               Absent, NoOverride

(* What engine e finds in a transaction *)
LEMMA LoadedFacts ==
  ASSUME StoreTypes, RowsSound, NEW e \in Engines, NEW p \in Prunings,
         NEW b \in Buckets
  PROVE  /\ Loaded(e, p)[b] \in Row
         /\ Loaded(e, p)[b].exists \/ Loaded(e, p)[b].over.max = 0
         /\ b \in Mine(e) => Loaded(e, p)[b].exists
         /\ OverrideLive(row[b]) => Loaded(e, p)[b].over = row[b].over
         /\ \A until \in Nat :
              Evident(row[b], until) /\ until > now /\ until <= now + BucketTTL
                => Evident(Loaded(e, p)[b], until)
         /\ b \in Mine(e) /\ LoadWrites(e, b, PrunedRow(p, b))
              => Evident(Loaded(e, p)[b], now + BucketTTL)
<1> DEFINE rw == PrunedRow(p, b)
<1>1. /\ rw \in Row
      /\ rw.exists \/ rw.over.max = 0
      /\ OverrideLive(row[b]) => rw = row[b]
      /\ \A until \in Nat : Evident(row[b], until) /\ until > now => rw = row[b]
  BY PrunedRowFacts
<1>2. OverrideLive(row[b]) => row[b].exists
  BY DEF RowsSound, OverrideLive
<1>3. Loaded(e, p)[b] = IF b \in Mine(e) THEN Load(e, b, rw) ELSE rw
  BY DEF Loaded
<1> HIDE DEF rw
<1>4. CASE b \in Mine(e)
  <2>1. Serves(e, b)
    BY <1>4, ServesMine
  <2>2. /\ Load(e, b, rw) \in Row
        /\ Load(e, b, rw).exists
        /\ OverrideLive(rw) /\ rw.exists => Load(e, b, rw).over = rw.over
        /\ \A until \in Nat :
             Evident(rw, until) /\ until > now /\ until <= now + BucketTTL
               => Evident(Load(e, b, rw), until)
        /\ LoadWrites(e, b, rw) => Evident(Load(e, b, rw), now + BucketTTL)
    BY <1>1, <2>1, LoadedRow
  <2> QED BY <1>1, <1>2, <1>3, <1>4, <2>2 DEF rw
<1>5. CASE b \notin Mine(e)
  BY <1>1, <1>3, <1>5
<1> QED BY <1>4, <1>5

(* A transaction of engine e after pruning p, in which the operation wrote *)
(* the states of the buckets bs: the other rows are as they were loaded,   *)
(* unless e changed the limit of a row that has no state.                  *)
Transacts(e, p, bs) ==
  /\ row' \in [Buckets -> Row]
  /\ \A b \in Buckets :
       /\ row'[b].exists \/ row'[b].over.max = 0
       /\ \/ row'[b] = Loaded(e, p)[b]
          \/ Evident(row'[b], now + BucketTTL)
          \/ b \notin bs /\ b \in Mine(e) /\ Loaded(e, p)[b].fresh
  /\ \A b \in bs : Evident(row'[b], now + BucketTTL)
  /\ \A f \in Engines : engine'[f].confirmed = IF f = e THEN Confirmed(e, p, bs)
                                               ELSE engine[f].confirmed

(* Evidence of a state is sound: while it lasts, the row has a state.      *)
EvidenceHolds ==
  losses = 0 /\ skewed = 0 =>
  \A e \in Engines, b \in Buckets :
    /\ engine[e].confirmed[b] <= now + BucketTTL
    /\ now < engine[e].confirmed[b] => Evident(row[b], engine[e].confirmed[b])

(* Evidence is a second of the clock. *)
LEMMA ConfirmedType ==
  ASSUME StoreTypes, NEW e \in Engines, NEW p, NEW bs
  PROVE  Confirmed(e, p, bs) \in [Buckets -> Nat]
<1>1. now \in Nat /\ engine[e].confirmed \in [Buckets -> Nat]
  BY ServesMine DEF StoreTypes, EngineTypes, IsEngine
<1>2. now + CeilDiv(9 * BucketTTL, 10) \in Nat
  BY <1>1, NineTenths
<1> QED BY <1>1, <1>2 DEF Confirmed

(* COMMIT and _state_confirmed_until go together: what a transaction takes  *)
(* for evidence is in the rows it wrote.                                    *)
LEMMA TransactionKeepsEvidence ==
  ASSUME StoreTypes, RowsSound, EvidenceHolds, NEW e \in Engines,
         NEW p \in Prunings, NEW bs \in SUBSET Buckets, Transacts(e, p, bs),
         UNCHANGED <<clock, losses>>
  PROVE  RowTypes' /\ RowsSound' /\ EvidenceHolds'
<1>1. RowTypes' /\ RowsSound'
  BY DEF Transacts, RowTypes, RowsSound
<1>2. now' = now /\ skewed' = skewed /\ losses' = losses
  BY DEF clock
<1>3. now \in Nat /\ BucketTTL \in Nat
  BY StoreAssumption, ServesMine
<1>4. ASSUME losses = 0, skewed = 0, NEW f \in Engines, NEW b \in Buckets
      PROVE  /\ engine'[f].confirmed[b] <= now + BucketTTL
             /\ now < engine'[f].confirmed[b]
                  => Evident(row'[b], engine'[f].confirmed[b])
  <2> DEFINE was == engine[f].confirmed[b]
             rw == row[b]  new == row'[b]  loaded == Loaded(e, p)[b]
             until == now + CeilDiv(9 * BucketTTL, 10)
  <2>1. /\ was \in Nat /\ was <= now + BucketTTL
        /\ now < was => Evident(rw, was)
    BY <1>4 DEF EvidenceHolds, StoreTypes, EngineTypes, IsEngine
  <2>2. until \in Nat /\ until <= now + BucketTTL /\ now + BucketTTL \in Nat
    BY <1>3, NineTenths
  <2>3. new \in Row /\ loaded \in Row /\ new.exp \in Nat
    BY LoadedFacts DEF Transacts, Row
  <2>4. /\ \/ new = loaded
           \/ Evident(new, now + BucketTTL)
           \/ b \notin bs /\ loaded.fresh
        /\ b \in bs => Evident(new, now + BucketTTL)
    BY Zenon DEF Transacts
  <2>5. /\ \A u \in Nat : Evident(rw, u) /\ u > now /\ u <= now + BucketTTL
                            => Evident(loaded, u)
        /\ b \in Mine(e) /\ LoadWrites(e, b, PrunedRow(p, b))
             => Evident(loaded, now + BucketTTL)
    BY LoadedFacts
  <2>6. \/ engine'[f].confirmed[b] = was
        \/ /\ engine'[f].confirmed[b] = until
           /\ b \in bs \/ (b \in Mine(e) /\ LoadWrites(e, b, PrunedRow(p, b)))
    <3>1. engine'[f].confirmed = IF f = e THEN Confirmed(e, p, bs)
                                 ELSE engine[f].confirmed
      BY Zenon DEF Transacts
    <3>2. Confirmed(e, p, bs)[b] =
            IF b \in bs \/ (b \in Mine(e) /\ LoadWrites(e, b, PrunedRow(p, b)))
              THEN until ELSE engine[e].confirmed[b]
      BY DEF Confirmed
    <3> HIDE DEF until
    <3>3. CASE f = e
      BY <3>1, <3>2, <3>3
    <3>4. CASE f # e
      BY <3>1, <3>4
    <3> QED BY <3>3, <3>4
  <2> HIDE DEF was, rw, new, loaded, until
  <2>7. ASSUME now < was PROVE Evident(new, was)
    <3>1. Evident(loaded, was)
      BY <2>1, <2>5, <2>7
    <3> QED BY <1>3, <2>1, <2>2, <2>3, <2>4, <3>1 DEF Evident
  <2>8. ASSUME b \in bs \/ (b \in Mine(e) /\ LoadWrites(e, b, PrunedRow(p, b)))
        PROVE  Evident(new, until)
    <3>1. Evident(new, now + BucketTTL)
      BY <2>4, <2>5, <2>8 DEF Evident
    <3> QED BY <1>3, <2>2, <2>3, <3>1 DEF Evident
  <2>9. CASE engine'[f].confirmed[b] = was
    BY <2>1, <2>7, <2>9 DEF new
  <2>10. CASE /\ engine'[f].confirmed[b] = until
              /\ b \in bs \/ (b \in Mine(e) /\ LoadWrites(e, b, PrunedRow(p, b)))
    BY <2>2, <2>8, <2>10 DEF new
  <2> QED BY <2>6, <2>9, <2>10
<1>5. EvidenceHolds'
  BY <1>2, <1>4 DEF EvidenceHolds
<1> QED BY <1>1, <1>5

(* The rows of a transaction that writes amounts back *)
LEMMA WrittenFacts ==
  ASSUME StoreTypes, RowsSound, NEW e \in Engines, NEW p \in Prunings,
         NEW bs \in SUBSET Mine(e), NEW amount, \A b \in bs : amount[b] \in Int,
         NEW b \in Buckets
  PROVE  LET new == WrittenRows(e, p, bs, amount)[b] IN
         /\ new \in Row
         /\ new.exists \/ new.over.max = 0
         /\ OverrideLive(row[b]) => new.over = row[b].over
         /\ b \in bs => Evident(new, now + BucketTTL)
         /\ b \notin bs => new = Loaded(e, p)[b]
<1> DEFINE loaded == Loaded(e, p)[b]
<1>1. /\ loaded \in Row
      /\ loaded.exists \/ loaded.over.max = 0
      /\ b \in Mine(e) => loaded.exists
      /\ OverrideLive(row[b]) => loaded.over = row[b].over
  BY LoadedFacts
<1>2. WrittenRows(e, p, bs, amount)[b] =
        IF b \in bs THEN Write(e, b, loaded, amount[b]) ELSE loaded
  BY DEF WrittenRows
<1> HIDE DEF loaded
<1>3. CASE b \in bs
  <2>1. Serves(e, b) /\ loaded.exists /\ amount[b] \in Int
    BY <1>1, <1>3, ServesMine
  <2>2. LET new == Write(e, b, loaded, amount[b]) IN
        /\ new \in Row
        /\ new.over = loaded.over
        /\ Evident(new, now + BucketTTL)
    BY <1>1, <2>1, WrittenRow
  <2> QED BY <1>1, <1>2, <1>3, <2>2 DEF Evident
<1>4. CASE b \notin bs
  BY <1>1, <1>2, <1>4 DEF loaded
<1> QED BY <1>3, <1>4

(* Live overrides stay. *)
OverridesStay ==
  \A b \in Buckets : OverrideLive(row[b]) => row'[b].over = row[b].over

(* A transaction changes the evidence of its engine and nothing else of the *)
(* engines.                                                                 *)
LEMMA EngineWith ==
  ASSUME EngineTypes, NEW e \in Engines, NEW confirmed \in [Buckets -> Nat],
         engine' = [engine EXCEPT ![e].confirmed = confirmed]
  PROVE  /\ EngineTypes'
         /\ \A f \in Engines : engine'[f].confirmed = IF f = e THEN confirmed
                                                      ELSE engine[f].confirmed
<1>1. /\ engine' = [f \in Engines |-> engine'[f]]
      /\ \A f \in Engines : engine'[f] =
           IF f = e THEN [engine[e] EXCEPT !.confirmed = confirmed]
           ELSE engine[f]
  BY DEF EngineTypes
<1>2. IsEngine(e, engine[e])
  BY DEF EngineTypes
<1>3. LET g == [engine[e] EXCEPT !.confirmed = confirmed] IN
      g.confirmed = confirmed /\ IsEngine(e, g)
  BY <1>2 DEF IsEngine
<1> QED BY <1>1, <1>3 DEF EngineTypes

(* A limit configured for b, before or after the step *)
Configured(b, value) ==
  \E g \in Engines : \/ b \in Mine(g) /\ Conf(g)[b] = value
                     \/ b \in Mine(g)' /\ Conf(g)'[b] = value

(* What a transaction of engine e makes of a row it has loaded: nothing    *)
(* more, another amount, a runtime override or another configured limit.   *)
Rewritten(e, p, b) ==
  \/ row'[b] = Loaded(e, p)[b]
  \/ \E amount \in Int : row'[b] = Write(e, b, Loaded(e, p)[b], amount)
  \/ \E value \in Nat \ {0} :
       row'[b] = Relimit(e, p, b, [max |-> value, until |-> now + OverrideTTL,
                                   anchor |-> Conf(e)[b]], value, Conf(e)[b])
  \/ \E value \in Nat \ {0} :
       Configured(b, value) /\ row'[b] = Relimit(e, p, b, NoOverride, value, value)

(* A row changes only so, or loses its state. *)
RowMoves(b) ==
  \/ row'[b] = row[b]
  \/ row'[b].fresh
  \/ \E e \in Engines, p \in Prunings : b \in Mine(e) /\ Rewritten(e, p, b)

(* What a step keeps of the rows when it ends no override *)
RowsKept == OverridesStay /\ \A b \in Buckets : RowMoves(b)

(* A row pruned or loaded *)
LEMMA LoadedMoves ==
  ASSUME NEW e \in Engines, NEW p \in Prunings, NEW b \in Buckets
  PROVE  /\ row'[b] = PrunedRow(p, b) => RowMoves(b)
         /\ row'[b] = Loaded(e, p)[b] => RowMoves(b)
<1>1. row'[b] = PrunedRow(p, b) => RowMoves(b)
  BY DEF PrunedRow, Absent, RowMoves
<1>2. CASE b \in Mine(e)
  BY <1>1, <1>2 DEF RowMoves, Rewritten
<1>3. CASE b \notin Mine(e)
  BY <1>1, <1>3 DEF Loaded
<1> QED BY <1>1, <1>2, <1>3

(* Amounts written back by try_consume, consume, refund and cleanup. *)
LEMMA CommitFacts ==
  ASSUME StoreTypes, RowsSound, NEW e \in Engines, NEW p \in Prunings,
         NEW bs \in SUBSET Mine(e), NEW amount, \A b \in bs : amount[b] \in Int,
         Commit(e, p, bs, WrittenRows(e, p, bs, amount))
  PROVE  Transacts(e, p, bs) /\ RowsKept /\ EngineTypes'
<1>1. /\ row' = WrittenRows(e, p, bs, amount)
      /\ engine' = [engine EXCEPT ![e].confirmed = Confirmed(e, p, bs)]
  BY DEF Commit
<1>2. /\ EngineTypes'
      /\ \A f \in Engines : engine'[f].confirmed =
           IF f = e THEN Confirmed(e, p, bs) ELSE engine[f].confirmed
  BY <1>1, ConfirmedType, EngineWith DEF StoreTypes
<1>3. \A b \in Buckets :
        /\ row'[b] \in Row
        /\ row'[b].exists \/ row'[b].over.max = 0
        /\ OverrideLive(row[b]) => row'[b].over = row[b].over
        /\ b \in bs => Evident(row'[b], now + BucketTTL)
        /\ b \notin bs => row'[b] = Loaded(e, p)[b]
  BY <1>1, WrittenFacts
<1>4. row' \in [Buckets -> Row] /\ bs \subseteq Buckets
  BY <1>1, <1>3, ServesMine DEF WrittenRows
<1>5. ASSUME NEW b \in Buckets PROVE RowMoves(b)
  <2>1. CASE b \in bs
    <3>1. row'[b] = Write(e, b, Loaded(e, p)[b], amount[b])
      BY <1>1, <2>1 DEF WrittenRows
    <3> QED BY <2>1, <3>1 DEF RowMoves, Rewritten
  <2>2. CASE b \notin bs
    BY <1>3, <2>2, LoadedMoves
  <2> QED BY <2>1, <2>2
<1> QED BY <1>2, <1>3, <1>4, <1>5 DEF Transacts, RowsKept, OverridesStay

(* A row whose limit changes keeps its state for a whole lifetime, or goes *)
(* on without one.                                                         *)
LEMMA RelimitedRow ==
  ASSUME StoreTypes, RowsSound, NEW e \in Engines, NEW p \in Prunings,
         NEW b \in Mine(e), NEW over \in Override, NEW max \in Nat \ {0},
         NEW configured \in Nat \ {0}
  PROVE  LET new == Relimit(e, p, b, over, max, configured) IN
         /\ new \in Row
         /\ new.exists
         /\ ~ Loaded(e, p)[b].fresh => Evident(new, now + BucketTTL)
<1> DEFINE rw == Loaded(e, p)[b]
           amount == SeenUncapped(e, p, b)
           kept == IF rw.fresh THEN rw ELSE Write(e, b, rw, amount)
           ttl == debt_ttl_seconds(b, amount, max, configured)
           new == [kept EXCEPT !.over = over, !.exp = now + ttl]
<1>1. Serves(e, b) /\ now \in Nat /\ b \in Buckets /\ BucketTTL \in Nat
  BY ServesMine, StoreAssumption
<1>2. rw \in Row /\ rw.exists
  BY <1>1, LoadedFacts
<1>3. amount \in Int
  <2>1. amount = IF rw.fresh THEN EffectiveMax(e, b, rw) * PerSeconds[b]
                 ELSE Uncapped(View(e, b, rw))
    BY DEF SeenUncapped, SeenMax
  <2>2. /\ Uncapped(View(e, b, rw)) \in Int
        /\ EffectiveMax(e, b, rw) * PerSeconds[b] \in Nat
    BY <1>1, <1>2, AmountType
  <2> HIDE DEF rw, amount
  <2> QED BY <2>1, <2>2
<1>4. ttl \in Nat /\ ttl >= BucketTTL
  BY <1>1, <1>3, DebtTTLType
<1>5. new = Relimit(e, p, b, over, max, configured)
  BY DEF Relimit
<1> HIDE DEF amount, ttl, rw
<1>6. kept \in Row /\ kept.exists /\ kept.fresh = rw.fresh
  <2> DEFINE written == Write(e, b, rw, amount)
  <2>1. written \in Row /\ Evident(written, now + BucketTTL)
    BY <1>1, <1>2, <1>3, WrittenRow
  <2> HIDE DEF written
  <2>2. CASE rw.fresh
    BY <1>2, <2>2
  <2>3. CASE ~ rw.fresh
    <3>1. kept = written
      BY <2>3 DEF written
    <3> HIDE DEF kept
    <3> QED BY <1>2, <2>1, <2>3, <3>1 DEF Evident, Row
  <2> QED BY <2>2, <2>3
<1>7. now + ttl \in Nat
  BY <1>1, <1>4
<1> HIDE DEF kept
<1>8. new \in Row
  BY <1>6, <1>7, RowOverride
<1>9. new.exists /\ new.fresh = rw.fresh /\ new.exp = now + ttl
  BY <1>6 DEF Row
<1>10. ~ rw.fresh => Evident(new, now + BucketTTL)
  BY <1>1, <1>4, <1>9 DEF Evident
<1> HIDE DEF new
<1> QED BY <1>5, <1>8, <1>9, <1>10 DEF rw

(* The rows of a transaction that changes the limits of the buckets bs *)
Relimits(e, p, bs, over, max, configured) ==
  row' = [b \in Buckets |->
            IF b \in bs THEN Relimit(e, p, b, over, max[b], configured[b])
            ELSE Loaded(e, p)[b]]

(* The transactions that change limits. *)
LEMMA RelimitFacts ==
  ASSUME StoreTypes, RowsSound, NEW e \in Engines, NEW p \in Prunings,
         NEW bs \in SUBSET Mine(e), NEW over \in Override, NEW max, NEW configured,
         \A b \in bs : max[b] \in Nat \ {0} /\ configured[b] \in Nat \ {0},
         Relimits(e, p, bs, over, max, configured),
         \A f \in Engines : engine'[f].confirmed =
           IF f = e THEN Confirmed(e, p, Anchors(e, p, bs))
           ELSE engine[f].confirmed
  PROVE  /\ Transacts(e, p, Anchors(e, p, bs))
         /\ \A b \in Buckets \ bs :
              /\ OverrideLive(row[b]) => row'[b].over = row[b].over
              /\ RowMoves(b)
<1>1. bs \subseteq Buckets
  BY ServesMine
<1>2. \A b \in Buckets :
        /\ Loaded(e, p)[b] \in Row
        /\ Loaded(e, p)[b].exists \/ Loaded(e, p)[b].over.max = 0
        /\ OverrideLive(row[b]) => Loaded(e, p)[b].over = row[b].over
  BY LoadedFacts
<1>3. \A b \in bs :
        /\ row'[b] \in Row
        /\ row'[b].exists
        /\ ~ Loaded(e, p)[b].fresh => Evident(row'[b], now + BucketTTL)
  <2> SUFFICES ASSUME NEW b \in bs
               PROVE  /\ row'[b] \in Row
                      /\ row'[b].exists
                      /\ ~ Loaded(e, p)[b].fresh
                           => Evident(row'[b], now + BucketTTL)
    OBVIOUS
  <2>1. row'[b] = Relimit(e, p, b, over, max[b], configured[b])
    BY <1>1 DEF Relimits
  <2> QED BY <2>1, RelimitedRow
<1>4. \A b \in Buckets \ bs : row'[b] = Loaded(e, p)[b]
  BY DEF Relimits
<1>5. row' \in [Buckets -> Row]
  BY <1>2, <1>3, <1>4 DEF Relimits
<1>6. Anchors(e, p, bs) = {b \in bs : ~ Loaded(e, p)[b].fresh}
  BY DEF Anchors
<1>7. \A b \in Buckets : \/ row'[b] = Loaded(e, p)[b]
                         \/ Evident(row'[b], now + BucketTTL)
                         \/ /\ b \notin Anchors(e, p, bs)
                            /\ b \in Mine(e) /\ Loaded(e, p)[b].fresh
  BY <1>3, <1>4, <1>6
<1>8. \A b \in Anchors(e, p, bs) : Evident(row'[b], now + BucketTTL)
  BY <1>3, <1>6
<1>9. \A b \in Buckets : row'[b].exists \/ row'[b].over.max = 0
  BY <1>2, <1>3, <1>4
<1>10. \A b \in Buckets \ bs : RowMoves(b)
  BY <1>4, LoadedMoves
<1> QED BY <1>2, <1>4, <1>5, <1>7, <1>8, <1>9, <1>10 DEF Transacts

(* Engines come and go: none gains evidence that no engine had. *)
Inherits ==
  \A f \in Engines, b \in Buckets :
    \/ engine'[f].confirmed[b] = 0
    \/ \E g \in Engines : engine'[f].confirmed[b] = engine[g].confirmed[b]

(* Evidence stays sound when engines are opened and closed and one inherits *)
(* from another.                                                            *)
LEMMA InheritedEvidence ==
  ASSUME StoreTypes, RowsSound, EvidenceHolds, Inherits,
         \/ row' = row
         \/ \E p \in Prunings : \E conf : row' = Opened(p, conf),
         UNCHANGED <<clock, losses>>
  PROVE  RowTypes' /\ RowsSound' /\ EvidenceHolds' /\ RowsKept
<1>1. now' = now /\ skewed' = skewed /\ losses' = losses
  BY DEF clock
<1>2. now \in Nat /\ BucketTTL \in Nat
  BY StoreAssumption, DeploymentTypes DEF StoreTypes, ClockTypes
<1>3. /\ row' \in [Buckets -> Row]
      /\ \A b \in Buckets :
           /\ row'[b].exists \/ row'[b].over.max = 0
           /\ OverrideLive(row[b]) => row'[b].over = row[b].over
           /\ \A until \in Nat : Evident(row[b], until) /\ until > now
                                   => Evident(row'[b], until)
  <2>1. CASE row' = row
    BY <2>1 DEF StoreTypes, RowTypes, RowsSound
  <2>2. CASE \E p \in Prunings : \E conf : row' = Opened(p, conf)
    <3>0. PICK p \in Prunings : \E conf : row' = Opened(p, conf)
      BY <2>2
    <3>1. PICK conf : row' = Opened(p, conf)
      BY <3>0
    <3>2. NewRow \in Row /\ NewRow.exists
      BY <1>2, NewRowType
    <3>3. \A b \in Buckets :
            /\ PrunedRow(p, b) \in Row
            /\ PrunedRow(p, b).exists \/ PrunedRow(p, b).over.max = 0
            /\ OverrideLive(row[b]) => PrunedRow(p, b) = row[b]
            /\ \A until \in Nat : Evident(row[b], until) /\ until > now
                                    => PrunedRow(p, b) = row[b]
      BY PrunedRowFacts
    <3>4. \A b \in Buckets :
            \/ row'[b] = PrunedRow(p, b)
            \/ row'[b] = NewRow /\ ~ PrunedRow(p, b).exists
      BY <3>1 DEF Opened
    <3>5. row' \in [Buckets -> Row]
      BY <3>1, <3>2, <3>3, <3>4 DEF Opened
    <3>6. \A b \in Buckets : OverrideLive(row[b]) => row[b].exists
      BY DEF RowsSound, OverrideLive
    <3> QED BY <3>2, <3>3, <3>4, <3>5, <3>6 DEF Evident
  <2> QED BY <2>1, <2>2
<1>4. RowTypes' /\ RowsSound' /\ RowsKept
  <2>1. \A b \in Buckets : RowMoves(b)
    <3>1. CASE row' = row
      BY <3>1 DEF RowMoves
    <3>2. ASSUME NEW p \in Prunings, NEW conf, row' = Opened(p, conf),
                 NEW b \in Buckets
          PROVE  RowMoves(b)
      <4>1. row'[b] = NewRow \/ row'[b] = PrunedRow(p, b)
        BY <3>2 DEF Opened
      <4>2. NewRow.fresh /\ (b \in p.rows => PrunedRow(p, b).fresh)
            /\ (b \notin p.rows => PrunedRow(p, b) = row[b])
        BY DEF NewRow, Absent, PrunedRow
      <4> QED BY <4>1, <4>2 DEF RowMoves
    <3> QED BY <3>1, <3>2
  <2> QED BY <1>3, <2>1 DEF RowTypes, RowsSound, RowsKept, OverridesStay
<1>5. ASSUME losses = 0, skewed = 0, NEW f \in Engines, NEW b \in Buckets
      PROVE  /\ engine'[f].confirmed[b] <= now + BucketTTL
             /\ now < engine'[f].confirmed[b]
                  => Evident(row'[b], engine'[f].confirmed[b])
  <2>1. CASE engine'[f].confirmed[b] = 0
    BY <1>2, <2>1
  <2>2. CASE \E g \in Engines : engine'[f].confirmed[b] = engine[g].confirmed[b]
    <3>1. PICK g \in Engines : engine'[f].confirmed[b] = engine[g].confirmed[b]
      BY <2>2
    <3>2. engine[g].confirmed[b] \in Nat
      BY DEF StoreTypes, EngineTypes, IsEngine
    <3> QED BY <1>3, <1>5, <3>1, <3>2 DEF EvidenceHolds
  <2> QED BY <2>1, <2>2 DEF Inherits
<1>6. EvidenceHolds'
  BY <1>1, <1>5 DEF EvidenceHolds
<1> QED BY <1>4, <1>6

-----------------------------------------------------------------------------
(* The store in every step *)

StoreInv == StoreTypes /\ RowsSound /\ EvidenceHolds

(* Nothing happens to id i but pruning of what has expired. *)
Fades(i) ==
  /\ \/ marker'[i] = marker[i]
     \/ marker'[i] = NoMarker /\ marker[i].exp <= now
  /\ \/ tombstone'[i] = tombstone[i]
     \/ tombstone'[i] = 0 /\ tombstone[i] <= now

MarksFade == \A i \in Ids : Fades(i)
OthersFade(r) == \A i \in Ids \ {r} : Fades(i)

(* The clock in a step that takes no time. *)
LEMMA ClockStays == ASSUME ClockTypes, UNCHANGED clock PROVE ClockTypes'
BY DEF ClockTypes, clock, MaxTime, MaxSkew

(* No marker, and the two lifetimes of bookkeeping. *)
LEMMA MarkerConstants ==
  /\ NoMarker \in Marker /\ NoMarker.exp = 0
  /\ DedupTTL \in Nat /\ Lifetime \in Nat \ {0}
BY StoreAssumption DEF NoMarker, Marker

(* Pruning of markers and tombstones. *)
LEMMA PrunedMarks ==
  ASSUME StoreTypes, NEW p \in Prunings, NEW i \in Ids
  PROVE  /\ PrunedMarker(p, i) \in Marker /\ PrunedTombstone(p, i) \in Nat
         /\ \/ PrunedMarker(p, i) = marker[i]
            \/ PrunedMarker(p, i) = NoMarker /\ marker[i].exp <= now
         /\ \/ PrunedTombstone(p, i) = tombstone[i]
            \/ PrunedTombstone(p, i) = 0 /\ tombstone[i] <= now
<1>1. now \in Nat
  BY DeploymentTypes DEF StoreTypes, ClockTypes
<1>2. marker[i] \in Marker /\ tombstone[i] \in Nat
  BY DEF StoreTypes, MarkTypes
<1>3. /\ i \in p.markers => marker[i].exp \in 1..now
      /\ i \in p.tombs => tombstone[i] \in 1..now
  BY PruneSets
<1> QED BY <1>1, <1>2, <1>3, MarkerConstants
        DEF PrunedMarker, PrunedTombstone

(* A transaction that rewrites the marks of one id. *)
LEMMA BookkeepFacts ==
  ASSUME StoreTypes, NEW p \in Prunings, NEW r \in Ids, NEW mk \in Marker,
         NEW tomb \in Nat, Bookkeep(p, r, mk, tomb)
  PROVE  /\ MarkTypes' /\ OthersFade(r)
         /\ marker'[r] = mk /\ tombstone'[r] = tomb
<1>1. \A i \in Ids :
        /\ marker'[i] = IF i = r THEN mk ELSE PrunedMarker(p, i)
        /\ tombstone'[i] = IF i = r THEN tomb ELSE PrunedTombstone(p, i)
  BY DEF Bookkeep
<1>2. MarkTypes'
  BY <1>1, PrunedMarks DEF Bookkeep, MarkTypes
<1>3. OthersFade(r)
  BY <1>1, PrunedMarks DEF OthersFade, Fades
<1> QED BY <1>1, <1>2, <1>3

(* A transaction that only prunes marks. *)
LEMMA PruneMarkersFacts ==
  ASSUME StoreTypes, NEW p \in Prunings, PruneMarkers(p)
  PROVE  MarkTypes' /\ MarksFade
<1>1. \A i \in Ids : /\ marker'[i] = PrunedMarker(p, i)
                     /\ tombstone'[i] = PrunedTombstone(p, i)
  BY DEF PruneMarkers
<1>2. MarkTypes'
  BY <1>1, PrunedMarks DEF PruneMarkers, MarkTypes
<1>3. MarksFade
  BY <1>1, PrunedMarks DEF MarksFade, Fades
<1> QED BY <1>2, <1>3

(* A step that leaves the marks alone. *)
LEMMA UntouchedMarks ==
  ASSUME StoreTypes, UNCHANGED <<marker, tombstone>>
  PROVE  MarkTypes' /\ MarksFade
BY DEF StoreTypes, MarkTypes, MarksFade, Fades

(* A transaction that wrote the amounts of the buckets bs *)
LEMMA CommitKeeps ==
  ASSUME StoreInv, NEW e \in Engines, NEW p \in Prunings,
         NEW bs \in SUBSET Mine(e), NEW amount, \A b \in bs : amount[b] \in Int,
         Commit(e, p, bs, WrittenRows(e, p, bs, amount)), MarkTypes',
         losses' = losses
  PROVE  StoreInv' /\ RowsKept
<1>1. Transacts(e, p, bs) /\ RowsKept /\ EngineTypes'
  BY CommitFacts DEF StoreInv
<1>2. UNCHANGED clock /\ bs \in SUBSET Buckets
  BY ServesMine DEF Commit, StoreInv
<1>3. RowTypes' /\ RowsSound' /\ EvidenceHolds'
  BY <1>1, <1>2, TransactionKeepsEvidence DEF StoreInv
<1>4. ClockTypes'
  BY <1>2, ClockStays DEF StoreInv, StoreTypes
<1> QED BY <1>1, <1>3, <1>4 DEF StoreInv, StoreTypes

(* A replay or a wait: the repairs of loading are committed. *)
LEMMA LoadOnlyKeeps ==
  ASSUME StoreInv, NEW e \in Engines, NEW p \in Prunings, NEW r \in Ids,
         LoadOnly(e, p, r), losses' = losses
  PROVE  /\ StoreInv' /\ RowsKept
         /\ MarksFade
         /\ LiveMarker(r) => marker'[r] = marker[r]
<1> DEFINE mk == IF LiveMarker(r) THEN marker[r] ELSE NoMarker
           tomb == IF Tombstoned(r) THEN tombstone[r] ELSE 0
<1>1. Commit(e, p, {}, Loaded(e, p)) /\ Bookkeep(p, r, mk, tomb)
  BY DEF LoadOnly
<1>2. Loaded(e, p) = WrittenRows(e, p, {}, [b \in {} |-> 0])
  BY DEF WrittenRows, Loaded
<1>3. /\ mk \in Marker /\ tomb \in Nat
      /\ \/ mk = marker[r]
         \/ mk = NoMarker /\ marker[r].exp <= now
      /\ \/ tomb = tombstone[r]
         \/ tomb = 0 /\ tombstone[r] <= now
      /\ LiveMarker(r) => mk = marker[r]
  <2>1. marker[r] \in Marker /\ tombstone[r] \in Nat /\ now \in Nat
    BY DeploymentTypes DEF StoreInv, StoreTypes, MarkTypes, ClockTypes
  <2>2. marker[r].exp \in Nat
    BY <2>1 DEF Marker
  <2>3. CASE LiveMarker(r)
    BY <2>1, <2>3 DEF Tombstoned
  <2>4. CASE ~ LiveMarker(r)
    BY <2>1, <2>2, <2>4, MarkerConstants DEF LiveMarker, Tombstoned
  <2> QED BY <2>3, <2>4
<1> HIDE DEF mk, tomb
<1>4. /\ MarkTypes' /\ OthersFade(r)
      /\ marker'[r] = mk /\ tombstone'[r] = tomb
  BY <1>1, <1>3, BookkeepFacts DEF StoreInv
<1>5. MarksFade
  BY <1>3, <1>4 DEF MarksFade, OthersFade, Fades
<1>6. {} \in SUBSET Mine(e)
  OBVIOUS
<1>7. StoreInv' /\ RowsKept
  BY <1>1, <1>2, <1>4, <1>6, CommitKeeps
<1> QED BY <1>3, <1>4, <1>5, <1>7

(* The amounts a transaction reads *)
LEMMA SeenType ==
  ASSUME StoreInv, NEW e \in Engines, NEW p \in Prunings, NEW b \in Mine(e),
         NEW u \in [Metrics -> Nat]
  PROVE  /\ Seen(e, p, b) \in Int
         /\ SeenMax(e, p, b) * PerSeconds[b] \in Nat
         /\ Take(b, u) \in Nat
<1>1. Serves(e, b) /\ b \in Buckets
  BY ServesMine DEF StoreInv
<1>2. Loaded(e, p)[b] \in Row
  BY <1>1, LoadedFacts DEF StoreInv
<1>3. Seen(e, p, b) \in Int /\ SeenMax(e, p, b) * PerSeconds[b] \in Nat
  BY <1>1, <1>2, AmountType DEF Seen, SeenMax
<1>4. u[MetricOf[b]] \in Nat /\ PerSeconds[b] \in Nat
  BY <1>1, StoreAssumption
<1>5. \A x, y \in Nat : x * y \in Nat
  OBVIOUS
<1>6. Take(b, u) \in Nat
  BY <1>4, <1>5 DEF Take
<1> QED BY <1>3, <1>6

(* A charge writes all buckets of its engine and one marker. *)
LEMMA ChargeKeeps ==
  ASSUME StoreInv, NEW e \in Engines, NEW p \in Prunings, NEW r \in Ids,
         NEW u \in [Metrics -> Nat],
         NEW amount, \A b \in Mine(e) : amount[b] \in Int,
         Charge(e, p, r, u, amount), losses' = losses
  PROVE  /\ StoreInv' /\ RowsKept
         /\ OthersFade(r)
         /\ marker'[r] = NewMarker(e, u) /\ tombstone'[r] = 0
<1>1. /\ Commit(e, p, Mine(e), WrittenRows(e, p, Mine(e), amount))
      /\ Bookkeep(p, r, NewMarker(e, u), 0)
  BY DEF Charge
<1>2. NewMarker(e, u) \in Marker
  <2>1. now + Lifetime \in Nat /\ Mine(e) \in SUBSET Buckets
    BY ServesMine, MarkerConstants DEF StoreInv
  <2> QED BY <2>1 DEF NewMarker, Marker
<1>3. /\ MarkTypes' /\ OthersFade(r)
      /\ marker'[r] = NewMarker(e, u) /\ tombstone'[r] = 0
  BY <1>1, <1>2, BookkeepFacts DEF StoreInv
<1>4. Mine(e) \in SUBSET Mine(e)
  OBVIOUS
<1> QED BY <1>1, <1>3, <1>4, CommitKeeps

(* try_consume and consume charge an id that is neither marked nor          *)
(* tombstoned.                                                              *)
LEMMA TryChargeKeeps ==
  ASSUME StoreInv, NEW e \in Engines, NEW p \in Prunings, NEW r \in Ids,
         NEW u \in [Metrics -> Nat],
         TryCharge(e, p, r, u) \/ RecordCharge(e, p, r, u), losses' = losses
  PROVE  /\ StoreInv' /\ RowsKept
         /\ ~ LiveMarker(r) /\ ~ Tombstoned(r)
         /\ OthersFade(r)
         /\ marker'[r] = NewMarker(e, u) /\ tombstone'[r] = 0
<1>1. ~ LiveMarker(r) /\ ~ Tombstoned(r)
  BY DEF TryCharge, RecordCharge, IsDuplicate
<1>2. \A b \in Mine(e) : /\ Seen(e, p, b) \in Int
                         /\ SeenMax(e, p, b) * PerSeconds[b] \in Nat
                         /\ Take(b, u) \in Nat
  BY SeenType
<1>3. CASE TryCharge(e, p, r, u)
  <2> DEFINE left == [b \in Mine(e) |-> Seen(e, p, b) - Take(b, u)]
  <2>1. \A b \in Mine(e) : left[b] \in Int
    BY <1>2
  <2>2. Charge(e, p, r, u, left)
    BY <1>3 DEF TryCharge
  <2> HIDE DEF left
  <2> QED BY <1>1, <2>1, <2>2, ChargeKeeps
<1>4. CASE RecordCharge(e, p, r, u)
  <2> DEFINE left == [b \in Mine(e) |->
                        Greater(- SeenMax(e, p, b) * PerSeconds[b],
                                Seen(e, p, b) - Take(b, u))]
  <2>1. \A b \in Mine(e) : left[b] \in Int
    <3> SUFFICES ASSUME NEW b \in Mine(e) PROVE left[b] \in Int
      OBVIOUS
    <3>1. Seen(e, p, b) - Take(b, u) \in Int
      BY <1>2
    <3>2. \A x, y \in Int : x * y \in Int
      OBVIOUS
    <3>3. Serves(e, b) /\ Loaded(e, p)[b] \in Row
      BY ServesMine, LoadedFacts DEF StoreInv
    <3>4. SeenMax(e, p, b) \in Int /\ - SeenMax(e, p, b) \in Int
      BY <3>3, EffectiveMaxType DEF SeenMax
    <3>5. PerSeconds[b] \in Int
      BY <3>3, StoreAssumption DEF Serves
    <3>6. - SeenMax(e, p, b) * PerSeconds[b] \in Int
      BY <3>2, <3>4, <3>5
    <3> QED BY <3>1, <3>6 DEF Greater
  <2>2. Charge(e, p, r, u, left)
    BY <1>4 DEF RecordCharge
  <2> HIDE DEF left
  <2> QED BY <1>1, <2>1, <2>2, ChargeKeeps
<1> QED BY <1>3, <1>4

(* A refund consumes a live marker and leaves a tombstone. *)
LEMMA RefundKeeps ==
  ASSUME StoreInv, NEW e \in Engines, NEW p \in Prunings, NEW r \in Ids,
         NEW scope, NEW u \in [Metrics -> Nat], NEW actual \in [Metrics -> Nat],
         Refund(e, p, r, scope, u, actual), losses' = losses
  PROVE  /\ StoreInv' /\ RowsKept
         /\ LiveMarker(r)
         /\ OthersFade(r)
         /\ marker'[r] = NoMarker /\ tombstone'[r] = now + DedupTTL
<1> DEFINE kept == scope \cap Mine(e)
           credited == [b \in kept |->
                          CreditedAmount(e, p, b, Take(b, u) - Take(b, actual))]
<1>1. /\ LiveMarker(r)
      /\ Commit(e, p, kept, WrittenRows(e, p, kept, credited))
      /\ Bookkeep(p, r, NoMarker, now + DedupTTL)
  BY DEF Refund, Refundable
<1>2. kept \in SUBSET Mine(e)
  OBVIOUS
<1>3. \A b \in kept : credited[b] \in Int
  <2> SUFFICES ASSUME NEW b \in kept PROVE credited[b] \in Int
    OBVIOUS
  <2> DEFINE full == SeenMax(e, p, b) * PerSeconds[b]
             back == Take(b, u) - Take(b, actual)
  <2>1. /\ Seen(e, p, b) \in Int /\ full \in Int
        /\ Take(b, u) \in Int /\ Take(b, actual) \in Int
    BY SeenType
  <2>2. credited[b] = Greater(- full,
                              Lesser(Seen(e, p, b) + Greater(back, - full), full))
    BY DEF CreditedAmount
  <2>3. back \in Int /\ - full \in Int
    BY <2>1
  <2> HIDE DEF full, back
  <2>4. Greater(back, - full) \in Int
    BY <2>3 DEF Greater
  <2> QED BY <2>1, <2>2, <2>3, <2>4 DEF Greater, Lesser
<1> HIDE DEF kept, credited
<1>4. now + DedupTTL \in Nat /\ NoMarker \in Marker
  BY ServesMine, MarkerConstants DEF StoreInv
<1>5. /\ MarkTypes' /\ OthersFade(r)
      /\ marker'[r] = NoMarker /\ tombstone'[r] = now + DedupTTL
  BY <1>1, <1>4, BookkeepFacts DEF StoreInv
<1> QED BY <1>1, <1>2, <1>3, <1>5, CommitKeeps

(* A cleanup consumes a marker, live or not, and leaves no tombstone. *)
LEMMA CleanupKeeps ==
  ASSUME StoreInv, NEW e \in Engines, NEW p \in Prunings, NEW r \in Ids,
         NEW u \in [Metrics -> Nat], Cleanup(e, p, r, u), losses' = losses
  PROVE  /\ StoreInv' /\ RowsKept
         /\ marker[r].exp # 0
         /\ OthersFade(r)
         /\ marker'[r] = NoMarker
         /\ \/ tombstone'[r] = tombstone[r]
            \/ tombstone'[r] = 0 /\ tombstone[r] <= now
<1> DEFINE back == [b \in Mine(e) |-> Lesser(Seen(e, p, b) + Take(b, u),
                                             SeenMax(e, p, b) * PerSeconds[b])]
<1>1. /\ CleanupPossible(p, r)
      /\ Commit(e, p, Mine(e), WrittenRows(e, p, Mine(e), back))
      /\ Bookkeep(p, r, NoMarker, PrunedTombstone(p, r))
  BY DEF Cleanup
<1>2. \A b \in Mine(e) : back[b] \in Int
  BY SeenType DEF Lesser
<1> HIDE DEF back
<1>3. /\ PrunedMarker(p, r) = marker[r] \/ PrunedMarker(p, r) = NoMarker
      /\ PrunedTombstone(p, r) \in Nat
      /\ \/ PrunedTombstone(p, r) = tombstone[r]
         \/ PrunedTombstone(p, r) = 0 /\ tombstone[r] <= now
  BY PrunedMarks DEF StoreInv
<1>4. marker[r].exp # 0
  BY <1>1, <1>3, MarkerConstants DEF CleanupPossible
<1>5. /\ MarkTypes' /\ OthersFade(r)
      /\ marker'[r] = NoMarker /\ tombstone'[r] = PrunedTombstone(p, r)
  BY <1>1, <1>3, MarkerConstants, BookkeepFacts DEF StoreInv
<1>6. Mine(e) \in SUBSET Mine(e)
  OBVIOUS
<1> QED BY <1>1, <1>2, <1>3, <1>4, <1>5, <1>6, CommitKeeps

-----------------------------------------------------------------------------
(* Changes of limits *)

(* Limits change in the store. *)
LEMMA RelimitKeeps ==
  ASSUME StoreInv, NEW e \in Engines, NEW p \in Prunings,
         NEW bs \in SUBSET Mine(e), NEW over \in Override, NEW max, NEW configured,
         \A b \in bs : max[b] \in Nat \ {0} /\ configured[b] \in Nat \ {0},
         Relimits(e, p, bs, over, max, configured),
         EngineTypes',
         \A f \in Engines : engine'[f].confirmed =
           IF f = e THEN Confirmed(e, p, Anchors(e, p, bs))
           ELSE engine[f].confirmed,
         PruneMarkers(p), UNCHANGED <<clock, losses>>
  PROVE  /\ StoreInv' /\ MarksFade
         /\ \A b \in Buckets \ bs :
              /\ OverrideLive(row[b]) => row'[b].over = row[b].over
              /\ RowMoves(b)
<1>1. /\ Transacts(e, p, Anchors(e, p, bs))
      /\ \A b \in Buckets \ bs :
           /\ OverrideLive(row[b]) => row'[b].over = row[b].over
           /\ RowMoves(b)
  BY RelimitFacts DEF StoreInv
<1>2. Anchors(e, p, bs) \in SUBSET Buckets
  BY ServesMine DEF Anchors, StoreInv
<1>3. RowTypes' /\ RowsSound' /\ EvidenceHolds'
  BY <1>1, <1>2, TransactionKeepsEvidence DEF StoreInv
<1>4. MarkTypes' /\ MarksFade
  BY PruneMarkersFacts DEF StoreInv
<1>5. ClockTypes'
  BY ClockStays DEF StoreInv, StoreTypes
<1> QED BY <1>1, <1>3, <1>4, <1>5 DEF StoreInv, StoreTypes

(* set_max_override ends at most the override it replaces. *)
LEMMA SetMaxKeeps ==
  ASSUME StoreInv, NEW e \in Engines, NEW b, NEW value \in Limits,
         SetMax(e, b, value)
  PROVE  /\ StoreInv' /\ MarksFade
         /\ \A c \in Buckets \ {b} :
              OverrideLive(row[c]) => row'[c].over = row[c].over
         /\ \A c \in Buckets : RowMoves(c)
<1>1. PICK p \in Prunings : set_max_override(e, p, b, value)
  BY DEF SetMax
<1> DEFINE over == [max |-> value, until |-> now + OverrideTTL,
                    anchor |-> Conf(e)[b]]
           bs == Anchors(e, p, {b})
           maxes == [x \in {b} |-> value]
           configured == [x \in {b} |-> Conf(e)[b]]
<1>2. /\ row' = [Loaded(e, p) EXCEPT
                   ![b] = Relimit(e, p, b, over, value, Conf(e)[b])]
      /\ engine' = [engine EXCEPT ![e].confirmed = Confirmed(e, p, bs)]
      /\ UNCHANGED clock /\ PruneMarkers(p)
  BY <1>1 DEF set_max_override, Commit
<1>3. b \in Mine(e) /\ losses' = losses
  BY DEF SetMax, calls
<1>4. Serves(e, b) /\ b \in Buckets
  BY <1>3, ServesMine DEF StoreInv
<1>5. value \in Nat \ {0} /\ OverrideTTL \in Nat
  BY DeploymentTypes DEF StoreInv, StoreTypes, ClockTypes
<1>6. over \in Override
  <2>1. now + OverrideTTL \in Nat /\ Conf(e)[b] \in Nat
    BY <1>4, <1>5 DEF Serves
  <2> QED BY <1>5, <2>1 DEF Override
<1> HIDE DEF over, bs
<1>7. Relimits(e, p, {b}, over, maxes, configured)
  BY <1>2, <1>4 DEF Relimits, Loaded
<1>8. \A c \in {b} : maxes[c] \in Nat \ {0} /\ configured[c] \in Nat \ {0}
  BY <1>4, <1>5 DEF Serves
<1> HIDE DEF maxes, configured
<1>9. /\ EngineTypes'
      /\ \A f \in Engines : engine'[f].confirmed =
           IF f = e THEN Confirmed(e, p, bs) ELSE engine[f].confirmed
  BY <1>2, ConfirmedType, EngineWith DEF StoreInv, StoreTypes
<1>10. {b} \in SUBSET Mine(e)
  BY <1>3
<1>11. UNCHANGED <<clock, losses>>
  BY <1>2, <1>3
<1>12. RowMoves(b)
  <2>1. row'[b] = Relimit(e, p, b, over, value, Conf(e)[b])
    BY <1>2, <1>4 DEF Loaded
  <2> QED BY <1>3, <1>5, <2>1 DEF RowMoves, Rewritten, over
<1>13. /\ StoreInv' /\ MarksFade
       /\ \A c \in Buckets \ {b} :
            /\ OverrideLive(row[c]) => row'[c].over = row[c].over
            /\ RowMoves(c)
  BY <1>2, <1>6, <1>7, <1>8, <1>9, <1>10, <1>11, RelimitKeeps DEF bs
<1> QED BY <1>12, <1>13

(* apply_configured_max_capacity ends the override of its bucket. *)
LEMMA ApplyConfiguredKeeps ==
  ASSUME StoreInv, NEW e \in Engines, NEW b, NEW value \in Nat \ {0},
         ApplyConfigured(e, b, value)
  PROVE  /\ StoreInv' /\ MarksFade
         /\ engine'[e].conf[b] = value
         /\ \A c \in Buckets \ {b} :
              OverrideLive(row[c]) => row'[c].over = row[c].over
         /\ \A c \in Buckets : RowMoves(c)
<1>1. PICK p \in Prunings : apply_configured_max_capacity(e, p, b, value)
  BY DEF ApplyConfigured
<1> DEFINE bs == Anchors(e, p, {b})
           confirmed == Confirmed(e, p, bs)
           maxes == [x \in {b} |-> value]
           g == [engine[e] EXCEPT !.confirmed = confirmed, !.conf[b] = value]
<1>2. /\ row' = [Loaded(e, p) EXCEPT
                   ![b] = Relimit(e, p, b, NoOverride, value, value)]
      /\ engine' = [engine EXCEPT ![e].confirmed = confirmed,
                                  ![e].conf[b] = value]
      /\ UNCHANGED clock /\ PruneMarkers(p)
  BY <1>1 DEF apply_configured_max_capacity
<1>3. b \in Mine(e) /\ losses' = losses
  BY DEF ApplyConfigured, calls
<1>4. Serves(e, b) /\ b \in Buckets
  BY <1>3, ServesMine DEF StoreInv
<1>5. NoOverride \in Override
  BY <1>4, NewRowType DEF Serves
<1>6. Relimits(e, p, {b}, NoOverride, maxes, maxes)
  BY <1>2, <1>4 DEF Relimits, Loaded
<1>7. \A c \in {b} : maxes[c] \in Nat \ {0} /\ maxes[c] \in Nat \ {0}
  OBVIOUS
<1> HIDE DEF maxes
<1>8. confirmed \in [Buckets -> Nat]
  BY ConfirmedType DEF StoreInv
<1> HIDE DEF confirmed
<1>9. IsEngine(e, engine[e]) /\ engine = [f \in Engines |-> engine[f]]
  BY DEF StoreInv, StoreTypes, EngineTypes
<1>10. /\ IsEngine(e, g)
       /\ g.confirmed = confirmed /\ g.conf[b] = value
       /\ DOMAIN g.conf = Mine(e)
  <2> DEFINE quota == [engine[e].conf EXCEPT ![b] = value]
  <2>1. /\ engine[e].conf \in [Mine(e) -> Nat \ {0}]
        /\ Mine(e) \subseteq Buckets
    BY ServesMine DEF StoreInv, Conf
  <2>2. /\ quota \in [Mine(e) -> Nat \ {0}] /\ quota[b] = value
        /\ DOMAIN quota = Mine(e)
    BY <1>3, <2>1
  <2>3. IsQuota(quota)
    BY <2>1, <2>2 DEF IsQuota
  <2>4. g = [engine[e] EXCEPT !.confirmed = confirmed, !.conf = quota]
    BY <1>9 DEF IsEngine
  <2> HIDE DEF quota, g
  <2> QED BY <1>8, <1>9, <2>2, <2>3, <2>4 DEF IsEngine
<1>11. /\ engine' = [f \in Engines |-> engine'[f]]
       /\ \A f \in Engines : engine'[f] = IF f = e THEN g ELSE engine[f]
  BY <1>2, <1>9
<1> HIDE DEF g
<1>12. EngineTypes'
  BY <1>10, <1>11 DEF EngineTypes, StoreInv, StoreTypes
<1>13. \A f \in Engines : engine'[f].confirmed =
         IF f = e THEN Confirmed(e, p, bs) ELSE engine[f].confirmed
  BY <1>10, <1>11 DEF confirmed
<1>14. {b} \in SUBSET Mine(e) /\ engine'[e].conf[b] = value
  BY <1>3, <1>10, <1>11
<1>15. UNCHANGED <<clock, losses>>
  BY <1>2, <1>3
<1> HIDE DEF bs
<1>16. RowMoves(b)
  <2>1. row'[b] = Relimit(e, p, b, NoOverride, value, value)
    BY <1>2, <1>4 DEF Loaded
  <2>2. b \in Mine(e)'
    BY <1>3, <1>10, <1>11 DEF Mine, Conf
  <2>3. Configured(b, value)
    BY <1>14, <2>2 DEF Configured, Conf
  <2> QED BY <1>3, <2>1, <2>3 DEF RowMoves, Rewritten
<1>17. /\ StoreInv' /\ MarksFade
       /\ \A c \in Buckets \ {b} :
            /\ OverrideLive(row[c]) => row'[c].over = row[c].over
            /\ RowMoves(c)
  BY <1>2, <1>5, <1>6, <1>7, <1>12, <1>13, <1>14, <1>15, RelimitKeeps DEF bs
<1> QED BY <1>14, <1>16, <1>17

(* The mark that the overrides are gone. *)
LEMMA EngineCleared ==
  ASSUME NEW e, NEW g, IsEngine(e, g), NEW cleared \in BOOLEAN,
         NEW confirmed \in [Buckets -> Nat]
  PROVE  /\ LET h == [g EXCEPT !.cleared = cleared] IN
              IsEngine(e, h) /\ h.confirmed = g.confirmed
         /\ LET h == [g EXCEPT !.cleared = cleared, !.confirmed = confirmed] IN
              IsEngine(e, h) /\ h.confirmed = confirmed
BY DEF IsEngine

(* Before a replacement the overrides of the buckets that change are       *)
(* dropped, or nothing but a flag of the engine changes.                   *)
LEMMA ClearOverridesKeeps ==
  ASSUME StoreInv, NEW e \in Engines, ClearOverrides(e), losses' = losses
  PROVE  StoreInv' /\ MarksFade /\ \A b \in Buckets : RowMoves(b)
<1>1. PICK f \in engine[e].next, p \in Prunings :
        /\ IF Dropped(e, f) = {}
             THEN UNCHANGED <<row, marker, tombstone>>
                  /\ engine' = [engine EXCEPT ![e].cleared = TRUE]
             ELSE /\ row' = [b \in Buckets |->
                               IF b \in Dropped(e, f)
                                 THEN Relimit(e, p, b, NoOverride,
                                              NextLimit(e, f, b),
                                              NextLimit(e, f, b))
                                 ELSE Loaded(e, p)[b]]
                  /\ engine' = [engine EXCEPT
                       ![e].cleared = TRUE,
                       ![e].confirmed = Confirmed(e, p,
                                            Anchors(e, p, Dropped(e, f)))]
                  /\ PruneMarkers(p)
        /\ UNCHANGED clock
  BY Zenon DEF ClearOverrides
<1> DEFINE bs == Dropped(e, f)
           limits == [b \in bs |-> NextLimit(e, f, b)]
           confirmed == Confirmed(e, p, Anchors(e, p, bs))
<1>2. /\ f \in Engines /\ IsEngine(e, engine[e])
      /\ engine = [g \in Engines |-> engine[g]]
      /\ \A g \in Engines : IsEngine(g, engine[g])
  BY DEF StoreInv, StoreTypes, EngineTypes, IsEngine
<1>3. bs \in SUBSET Mine(e)
  BY DEF Dropped
<1>4. \A b \in bs : limits[b] \in Nat \ {0}
  <2>1. \A b \in Mine(e) : Conf(e)[b] \in Nat \ {0}
    BY ServesMine DEF Serves, StoreInv
  <2>2. \A b \in Mine(f) : Conf(f)[b] \in Nat \ {0}
    BY <1>2, ServesMine DEF Serves, StoreInv
  <2> QED BY <1>3, <2>1, <2>2 DEF NextLimit
<1>5. NoOverride \in Override
  BY ServesMine, NewRowType DEF StoreInv
<1>6. confirmed \in [Buckets -> Nat]
  BY ConfirmedType DEF StoreInv
<1>7. ClockTypes' /\ now' = now /\ skewed' = skewed
  BY <1>1, ClockStays DEF StoreInv, StoreTypes, clock
<1>8. CASE bs = {}
  <2>1. /\ UNCHANGED <<row, marker, tombstone>>
        /\ engine' = [engine EXCEPT ![e].cleared = TRUE]
    BY <1>1, <1>8
  <2>2. LET g == [engine[e] EXCEPT !.cleared = TRUE] IN
        IsEngine(e, g) /\ g.confirmed = engine[e].confirmed
    BY <1>2, <1>6, EngineCleared, TRUE \in BOOLEAN
  <2>3. /\ engine' = [g \in Engines |-> engine'[g]]
        /\ \A g \in Engines : engine'[g] =
             IF g = e THEN [engine[e] EXCEPT !.cleared = TRUE] ELSE engine[g]
    BY <1>2, <2>1
  <2>4. EngineTypes'
    BY <1>2, <2>2, <2>3 DEF EngineTypes
  <2>5. Inherits
    BY <2>2, <2>3 DEF Inherits
  <2>6. UNCHANGED <<clock, losses>>
    BY <1>1
  <2>7. RowTypes' /\ RowsSound' /\ EvidenceHolds'
    BY <2>1, <2>5, <2>6, InheritedEvidence DEF StoreInv
  <2>8. MarkTypes' /\ MarksFade
    BY <2>1, UntouchedMarks DEF StoreInv
  <2>9. \A b \in Buckets : RowMoves(b)
    BY <2>1 DEF RowMoves
  <2> QED BY <1>7, <2>4, <2>7, <2>8, <2>9 DEF StoreInv, StoreTypes
<1>9. CASE bs # {}
  <2>1. /\ row' = [b \in Buckets |->
                     IF b \in bs THEN Relimit(e, p, b, NoOverride,
                                              NextLimit(e, f, b),
                                              NextLimit(e, f, b))
                     ELSE Loaded(e, p)[b]]
        /\ engine' = [engine EXCEPT ![e].cleared = TRUE,
                                    ![e].confirmed = confirmed]
        /\ PruneMarkers(p)
    BY <1>1, <1>9
  <2>2. Relimits(e, p, bs, NoOverride, limits, limits)
    BY <2>1 DEF Relimits
  <2> DEFINE h == [engine[e] EXCEPT !.cleared = TRUE, !.confirmed = confirmed]
  <2> HIDE DEF confirmed, bs, limits
  <2>3. IsEngine(e, h) /\ h.confirmed = confirmed
    <3>1. IsEngine(e, engine[e]) /\ TRUE \in BOOLEAN
      BY <1>2
    <3>2. h.confirmed = confirmed /\ h.conf = engine[e].conf
      BY <3>1 DEF IsEngine
    <3> QED BY <1>6, <3>1, <3>2 DEF IsEngine
  <2>4. /\ engine' = [g \in Engines |-> engine'[g]]
        /\ \A g \in Engines : engine'[g] = IF g = e THEN h ELSE engine[g]
    BY <1>2, <2>1
  <2> HIDE DEF h
  <2>5. EngineTypes'
    BY <1>2, <2>3, <2>4 DEF EngineTypes
  <2>6. \A g \in Engines : engine'[g].confirmed =
          IF g = e THEN Confirmed(e, p, Anchors(e, p, bs))
          ELSE engine[g].confirmed
    BY <2>3, <2>4 DEF confirmed
  <2>7. UNCHANGED <<clock, losses>>
    BY <1>1
  <2>8. \A b \in bs : RowMoves(b)
    <3> SUFFICES ASSUME NEW b \in bs PROVE RowMoves(b)
      OBVIOUS
    <3> DEFINE value == NextLimit(e, f, b)
    <3>1. b \in Mine(e) /\ b \in Buckets
      BY <1>3, ServesMine DEF StoreInv
    <3>2. row'[b] = Relimit(e, p, b, NoOverride, value, value)
      BY <2>1, <3>1
    <3>3. value \in Nat \ {0}
      BY <1>4 DEF limits
    <3>4. Configured(b, value)
      BY <1>2, <3>1 DEF Configured, NextLimit
    <3> HIDE DEF value
    <3> QED BY <3>1, <3>2, <3>3, <3>4 DEF RowMoves, Rewritten
  <2>9. /\ StoreInv' /\ MarksFade
        /\ \A b \in Buckets \ bs : RowMoves(b)
    BY <1>3, <1>4, <1>5, <2>1, <2>2, <2>5, <2>6, <2>7, RelimitKeeps
  <2> QED BY <2>8, <2>9
<1> QED BY <1>8, <1>9

-----------------------------------------------------------------------------
(* Engines and processes *)

(* An engine before it is opened or after it is closed. *)
LEMMA DownIsEngine ==
  ASSUME NEW e, NEW conf, IsQuota(conf),
         NEW status \in {"down", "spare", "up", "closed"}
  PROVE  /\ IsEngine(e, Down) /\ \A b \in Buckets : Down.confirmed[b] = 0
         /\ LET g == [Down EXCEPT !.status = status, !.conf = conf] IN
              IsEngine(e, g) /\ g.confirmed = Down.confirmed
         /\ LET g == [Down EXCEPT !.status = status] IN
              IsEngine(e, g) /\ g.confirmed = Down.confirmed
<1>1. IsQuota([b \in {} |-> 0])
  BY DEF IsQuota
<1>2. Down.confirmed \in [Buckets -> Nat]
  BY DEF Down
<1>3. IsEngine(e, Down) /\ \A b \in Buckets : Down.confirmed[b] = 0
  BY <1>1 DEF IsEngine, Down
<1>4. LET g == [Down EXCEPT !.status = status, !.conf = conf] IN
      IsEngine(e, g) /\ g.confirmed = Down.confirmed
  BY <1>3 DEF IsEngine
<1>5. LET g == [Down EXCEPT !.status = status] IN
      IsEngine(e, g) /\ g.confirmed = Down.confirmed
  BY <1>3 DEF IsEngine
<1> QED BY <1>3, <1>4, <1>5

(* Engines change without evidence that no engine had. *)
LEMMA EnginesKeep ==
  ASSUME StoreInv, EngineTypes', Inherits,
         \/ UNCHANGED <<row, marker, tombstone>>
         \/ \E p \in Prunings : \E conf : row' = Opened(p, conf) /\ PruneMarkers(p),
         UNCHANGED <<clock, losses>>
  PROVE  StoreInv' /\ MarksFade /\ RowsKept
<1>1. RowTypes' /\ RowsSound' /\ EvidenceHolds' /\ RowsKept
  BY InheritedEvidence DEF StoreInv
<1>2. MarkTypes' /\ MarksFade
  BY PruneMarkersFacts, UntouchedMarks DEF StoreInv
<1>3. ClockTypes'
  BY ClockStays DEF StoreInv, StoreTypes
<1> QED BY <1>1, <1>2, <1>3 DEF StoreInv, StoreTypes

(* A process starts. *)
LEMMA StartKeeps ==
  ASSUME StoreInv, NEW e \in Engines, NEW conf \in Configs, Start(e, conf),
         losses' = losses
  PROVE  StoreInv' /\ MarksFade /\ RowsKept
<1> DEFINE g == [Down EXCEPT !.status = "up", !.conf = conf]
<1>1. PICK p \in Prunings : Open(e, p, conf, "up")
  BY DEF Start
<1>2. IsQuota(conf)
  BY DeploymentTypes DEF StoreInv, StoreTypes, ClockTypes
<1>3. /\ IsEngine(e, g)
      /\ \A b \in Buckets : g.confirmed[b] = 0
  BY <1>2, DownIsEngine
<1>4. /\ row' = Opened(p, conf) /\ PruneMarkers(p) /\ UNCHANGED clock
      /\ engine' = [engine EXCEPT ![e] = g]
  BY <1>1 DEF Open
<1>5. /\ engine' = [f \in Engines |-> engine'[f]]
      /\ \A f \in Engines : engine'[f] = IF f = e THEN g ELSE engine[f]
  BY <1>4 DEF StoreInv, StoreTypes, EngineTypes
<1> HIDE DEF g
<1>6. EngineTypes' /\ Inherits
  BY <1>3, <1>5 DEF StoreInv, StoreTypes, EngineTypes, Inherits
<1> QED BY <1>4, <1>6, EnginesKeep

(* A limiter builds the engine that is to replace its own. *)
LEMMA BuildNextKeeps ==
  ASSUME StoreInv, NEW e \in Engines, NEW f \in Engines, NEW conf \in Configs,
         BuildNext(e, f, conf), losses' = losses
  PROVE  StoreInv' /\ MarksFade /\ RowsKept
<1> DEFINE g == [Down EXCEPT !.status = "spare", !.conf = conf]
           h == [engine[e] EXCEPT !.next = {f}, !.cleared = FALSE]
<1>1. PICK p \in Prunings :
        /\ row' = Opened(p, conf)
        /\ engine' = [engine EXCEPT ![f] = [Down EXCEPT !.status = "spare",
                                                        !.conf = conf],
                                    ![e].next = {f},
                                    ![e].cleared = FALSE]
        /\ PruneMarkers(p)
  BY Zenon DEF BuildNext
<1>2. e # f /\ UNCHANGED clock
  BY DEF BuildNext
<1>3. IsQuota(conf)
  BY DeploymentTypes DEF StoreInv, StoreTypes, ClockTypes
<1>4. /\ IsEngine(f, g)
      /\ \A b \in Buckets : g.confirmed[b] = 0
  BY <1>3, DownIsEngine
<1>5. /\ engine = [d \in Engines |-> engine[d]]
      /\ \A d \in Engines : IsEngine(d, engine[d])
  BY DEF StoreInv, StoreTypes, EngineTypes
<1>6. /\ IsEngine(e, h)
      /\ h.confirmed = engine[e].confirmed
  <2>1. IsEngine(e, engine[e]) /\ {f} \in SUBSET (Engines \ {e})
        /\ FALSE \in BOOLEAN
    BY <1>2, <1>5
  <2>2. h.confirmed = engine[e].confirmed /\ h.conf = engine[e].conf
    BY <2>1 DEF IsEngine
  <2> QED BY <2>1, <2>2 DEF IsEngine
<1>7. /\ engine' = [d \in Engines |-> engine'[d]]
      /\ \A d \in Engines : engine'[d] = IF d = e THEN h ELSE
                                         IF d = f THEN g ELSE engine[d]
  BY <1>1, <1>2, <1>5
<1> HIDE DEF g, h
<1>8. EngineTypes' /\ Inherits
  BY <1>4, <1>5, <1>6, <1>7 DEF EngineTypes, Inherits
<1> QED BY <1>1, <1>2, <1>8, EnginesKeep

(* The new engine inherits the evidence of the old one. *)
LEMMA ReplaceKeeps ==
  ASSUME StoreInv, NEW e \in Engines, Replace(e), losses' = losses
  PROVE  StoreInv' /\ MarksFade /\ RowsKept
<1> DEFINE g == [Down EXCEPT !.status = "closed"]
           inherited(f) == [b \in Buckets |->
                              IF b \in Mine(e) \cap Mine(f)
                                THEN engine[e].confirmed[b]
                                ELSE engine[f].confirmed[b]]
           h(f) == [engine[f] EXCEPT !.status = "up", !.confirmed = inherited(f)]
<1>1. PICK f \in engine[e].next :
        engine' = [engine EXCEPT
          ![e] = [Down EXCEPT !.status = "closed"],
          ![f].status = "up",
          ![f].confirmed = [b \in Buckets |->
                              IF b \in Mine(e) \cap Mine(f)
                                THEN engine[e].confirmed[b] ELSE @[b]]]
  BY Zenon DEF Replace
<1>2. UNCHANGED <<clock, row, marker, tombstone>>
  BY DEF Replace
<1>3. /\ engine = [d \in Engines |-> engine[d]]
      /\ \A d \in Engines : IsEngine(d, engine[d])
  BY DEF StoreInv, StoreTypes, EngineTypes
<1>4. f \in Engines /\ f # e
  BY <1>3 DEF IsEngine
<1>5. /\ IsEngine(e, g)
      /\ \A b \in Buckets : g.confirmed[b] = 0
  <2>1. IsQuota(engine[e].conf)
    BY <1>3 DEF IsEngine
  <2> QED BY <2>1, DownIsEngine
<1>6. inherited(f) \in [Buckets -> Nat]
  BY <1>3, <1>4 DEF IsEngine
<1>7. /\ engine' = [d \in Engines |-> engine'[d]]
      /\ \A d \in Engines : engine'[d] = IF d = f THEN h(f) ELSE
                                         IF d = e THEN g ELSE engine[d]
  BY <1>1, <1>3, <1>4
<1>8. \A b \in Buckets : inherited(f)[b] \in {engine[e].confirmed[b],
                                              engine[f].confirmed[b]}
  OBVIOUS
<1> DEFINE confirmed == inherited(f)
           hf == [engine[f] EXCEPT !.status = "up", !.confirmed = confirmed]
<1>9. hf = h(f) /\ confirmed = inherited(f)
  OBVIOUS
<1> HIDE DEF confirmed, inherited, h, g
<1>10. IsEngine(f, hf) /\ hf.confirmed = confirmed
  <2>1. IsEngine(f, engine[f]) /\ "up" \in {"down", "spare", "up", "closed"}
    BY <1>3, <1>4
  <2>2. hf.confirmed = confirmed /\ hf.conf = engine[f].conf
    BY <2>1 DEF IsEngine
  <2> QED BY <1>6, <1>9, <2>1, <2>2 DEF IsEngine
<1> HIDE DEF hf
<1>11. EngineTypes'
  BY <1>3, <1>5, <1>7, <1>9, <1>10 DEF EngineTypes
<1>12. Inherits
  BY <1>4, <1>5, <1>7, <1>8, <1>9, <1>10 DEF Inherits
<1> QED BY <1>2, <1>11, <1>12, EnginesKeep

(* An engine that is gone or closed keeps no evidence. *)
LEMMA EnginesGone ==
  ASSUME StoreInv, NEW es, NEW g, \A e \in Engines : IsEngine(e, g),
         \A b \in Buckets : g.confirmed[b] = 0,
         engine' = [e \in Engines |-> IF e \in es THEN g ELSE engine[e]],
         UNCHANGED <<clock, row, marker, tombstone, losses>>
  PROVE  StoreInv' /\ MarksFade /\ RowsKept
<1>1. \A e \in Engines : IsEngine(e, engine[e])
  BY DEF StoreInv, StoreTypes, EngineTypes
<1>2. EngineTypes' /\ Inherits
  BY <1>1 DEF EngineTypes, Inherits
<1> QED BY <1>2, EnginesKeep

(* An engine is closed. *)
LEMMA CloseKeeps ==
  ASSUME StoreInv, NEW e \in Engines, Close(e)
  PROVE  StoreInv' /\ MarksFade /\ RowsKept
<1> DEFINE g == [Down EXCEPT !.status = "closed"]
<1>1. IsQuota(engine[e].conf)
  BY DEF StoreInv, StoreTypes, EngineTypes, IsEngine
<1>2. /\ \A f \in Engines : IsEngine(f, g)
      /\ \A b \in Buckets : g.confirmed[b] = 0
  BY <1>1, DownIsEngine
<1>3. /\ engine' = [engine EXCEPT ![e] = g]
      /\ UNCHANGED <<clock, row, marker, tombstone, losses>>
  BY DEF Close, calls
<1>4. engine' = [f \in Engines |-> IF f \in {e} THEN g ELSE engine[f]]
  BY <1>3 DEF StoreInv, StoreTypes, EngineTypes
<1> HIDE DEF g
<1> QED BY <1>2, <1>3, <1>4, EnginesGone

(* A process dies with its engines. *)
LEMMA CrashKeeps ==
  ASSUME StoreInv, NEW e \in Engines, Crash(e)
  PROVE  StoreInv' /\ MarksFade /\ RowsKept
<1>1. IsQuota(engine[e].conf)
  BY DEF StoreInv, StoreTypes, EngineTypes, IsEngine
<1>2. /\ \A f \in Engines : IsEngine(f, Down)
      /\ \A b \in Buckets : Down.confirmed[b] = 0
  BY <1>1, DownIsEngine
<1>3. /\ engine' = [f \in Engines |-> IF f \in {e} \cup engine[e].next THEN Down
                                      ELSE engine[f]]
      /\ UNCHANGED <<clock, row, marker, tombstone, losses>>
  BY DEF Crash
<1> QED BY <1>2, <1>3, EnginesGone

(* Nothing of the store changes. *)
LEMMA StoreStays ==
  ASSUME StoreInv, UNCHANGED <<store, losses>>
  PROVE  StoreInv' /\ MarksFade /\ RowsKept
<1>1. UNCHANGED <<clock, row, marker, tombstone, engine, losses>>
  BY DEF store
<1>2. EngineTypes' /\ Inherits
  BY <1>1 DEF EngineTypes, Inherits, StoreInv, StoreTypes
<1> QED BY <1>1, <1>2, EnginesKeep

(* The database is lost. *)
LEMMA LoseKeeps ==
  ASSUME StoreInv, Lose, losses \in Nat
  PROVE  StoreInv' /\ losses' # 0
<1>1. /\ losses' = losses + 1
      /\ row' = [b \in Buckets |-> Absent]
      /\ marker' = [r \in Ids |-> NoMarker]
      /\ tombstone' = [r \in Ids |-> 0]
      /\ UNCHANGED <<clock, engine>>
  BY DEF Lose, LoseStore
<1>2. losses' # 0
  BY <1>1
<1>3. Absent \in Row /\ Absent.over.max = 0
  BY NewRowType, DeploymentTypes
  DEF StoreInv, StoreTypes, ClockTypes, Absent, NoOverride
<1>4. RowTypes' /\ RowsSound' /\ MarkTypes'
  BY <1>1, <1>3, MarkerConstants DEF RowTypes, RowsSound, MarkTypes
<1>5. ClockTypes' /\ EngineTypes'
  BY <1>1, ClockStays DEF StoreInv, StoreTypes, EngineTypes
<1>6. EvidenceHolds'
  BY <1>2 DEF EvidenceHolds
<1> QED BY <1>2, <1>4, <1>5, <1>6 DEF StoreInv, StoreTypes

(* A second passes, or the clock is set back. *)
LEMMA ClockKeeps ==
  ASSUME StoreInv, Tick \/ ClockSetBack, losses' = losses
  PROVE  StoreInv' /\ UNCHANGED <<row, marker, tombstone>>
         /\ \/ Tick /\ now' = now + 1 /\ skewed' = skewed
            \/ skewed' # 0
<1>1. /\ deployment \in Deployments /\ now \in Nat /\ skewed \in Nat
      /\ now <= MaxTime /\ now >= 1
      /\ MaxTime \in Nat /\ MaxSkew \in Nat /\ skewed <= MaxSkew
  BY DeploymentTypes DEF StoreInv, StoreTypes, ClockTypes
<1>2. UNCHANGED <<deployment, row, marker, tombstone, engine>>
  BY DEF Tick, ClockSetBack
<1>3. MaxTime' = MaxTime /\ MaxSkew' = MaxSkew
  BY <1>2 DEF MaxTime, MaxSkew
<1>4. RowTypes' /\ RowsSound' /\ MarkTypes' /\ EngineTypes'
  BY <1>2 DEF StoreInv, StoreTypes, RowTypes, RowsSound, MarkTypes, EngineTypes
<1>5. CASE Tick
  <2>1. now < MaxTime /\ now' = now + 1 /\ skewed' = skewed
    BY <1>5 DEF Tick
  <2>2. ClockTypes'
    BY <1>1, <1>2, <1>3, <2>1 DEF ClockTypes
  <2>3. EvidenceHolds'
    <3>1. \A e \in Engines, b \in Buckets : engine[e].confirmed[b] \in Nat
      BY DEF StoreInv, StoreTypes, EngineTypes, IsEngine
    <3>2. BucketTTL \in Nat
      BY StoreAssumption
    <3> QED BY <1>1, <1>2, <2>1, <3>1, <3>2 DEF EvidenceHolds, StoreInv
  <2> QED BY <1>2, <1>4, <1>5, <2>1, <2>2, <2>3 DEF StoreInv, StoreTypes
<1>6. CASE ClockSetBack
  <2>1. /\ skewed < MaxSkew /\ now > 1
        /\ now' = now - 1 /\ skewed' = skewed + 1
    BY <1>6 DEF ClockSetBack
  <2>2. ClockTypes' /\ skewed' # 0
    BY <1>1, <1>2, <1>3, <2>1 DEF ClockTypes
  <2>3. EvidenceHolds'
    BY <2>2 DEF EvidenceHolds
  <2> QED BY <1>2, <1>4, <2>2, <2>3 DEF StoreInv, StoreTypes
<1> QED BY <1>5, <1>6

-----------------------------------------------------------------------------
(* The kinds of steps: what a step does to one call, to what is known of   *)
(* its reservation, and to the marks on its id.                            *)

Inv0 == StoreInv /\ CallTypes

(* The record of call t becomes rec. *)
Writes(t, rec) ==
  /\ rec \in Task
  /\ rec.pc # "idle" => rec.id \in Ids
  /\ task' = [task EXCEPT ![t] = rec]

Knows(r, k) == k \in Known /\ held' = [held EXCEPT ![r] = k]

(* Id r is charged. *)
Charges(r) ==
  /\ ~ LiveMarker(r) /\ ~ Tombstoned(r)
  /\ OthersFade(r)
  /\ marker'[r].exp = now + Lifetime
  /\ tombstone'[r] = 0

Untouched == UNCHANGED <<task, issued, held>> /\ MarksFade

Begins(t, r) ==
  /\ task[t].pc = "idle" /\ TakesId(r)
  /\ \E rec : Writes(t, rec) /\ rec.pc = "try" /\ rec.id = r
  /\ held' = held /\ MarksFade

Ends(t) ==
  /\ task[t].pc = "try"
  /\ Writes(t, Idle)
  /\ UNCHANGED <<issued, held>> /\ MarksFade

Repeats(t, r) ==
  /\ task[t].pc = "try" /\ task[t].id = r
  /\ Writes(t, Idle)
  /\ \E k : Knows(r, k) /\ k.status = "held" /\ k.exp = marker[r].exp
  /\ issued' = issued /\ MarksFade /\ marker'[r] = marker[r]

Consumes(t, r) ==
  /\ task[t].pc = "try" /\ task[t].id = r
  /\ \E rec : Writes(t, rec) /\ rec.pc = "callbacks" /\ rec.id = r
  /\ \E k : Knows(r, k) /\ k.status = "no" /\ k.exp = now + Lifetime
  /\ issued' = issued /\ Charges(r)

Records(t, r) ==
  /\ task[t].pc = "idle" /\ TakesId(r)
  /\ \E rec : Writes(t, rec) /\ rec.pc = "record" /\ rec.id = r
  /\ \E k : /\ Knows(r, k) /\ k.status = "no"
            /\ \/ Charges(r) /\ k.exp = now + Lifetime
               \/ MarksFade /\ marker'[r] = marker[r] /\ k.exp = marker[r].exp

Answers(t, r) ==
  /\ task[t].pc \in {"callbacks", "undo", "record"} /\ task[t].id = r
  /\ Writes(t, Idle)
  /\ \E k : /\ Knows(r, k) /\ k.exp = held[r].exp /\ k.status # "no"
            /\ k.status = "held" => task[t].pc \in {"callbacks", "record"}
  /\ issued' = issued /\ MarksFade

Turns(t, r) ==
  /\ task[t].pc = "callbacks" /\ task[t].id = r
  /\ \E rec : Writes(t, rec) /\ rec.pc = "undo" /\ rec.id = r
  /\ UNCHANGED <<issued, held>> /\ MarksFade

Undoes(t, r) ==
  /\ task[t].pc = "undo" /\ task[t].id = r
  /\ Writes(t, Idle)
  /\ UNCHANGED <<issued, held>>
  /\ OthersFade(r)
  /\ marker[r].exp # 0 /\ marker'[r] = NoMarker
  /\ \/ tombstone'[r] = tombstone[r]
     \/ tombstone'[r] = 0 /\ tombstone[r] <= now

Asks(t, r) ==
  /\ task[t].pc = "idle"
  /\ held[r].status \in {"held", "unsure", "closed"}
  /\ \E rec : Writes(t, rec) /\ rec.pc = "refund" /\ rec.id = r
  /\ UNCHANGED <<issued, held>> /\ MarksFade

Refunds(t, r) ==
  /\ task[t].pc = "refund" /\ task[t].id = r
  /\ Writes(t, Idle)
  /\ \E k : Knows(r, k) /\ k.status \in {"closed", "unsure"}
  /\ issued' = issued
  /\ LiveMarker(r) /\ OthersFade(r)
  /\ marker'[r] = NoMarker /\ tombstone'[r] = now + DedupTTL

Rejects(t, r) ==
  /\ task[t].pc = "refund" /\ task[t].id = r
  /\ Writes(t, Idle)
  /\ held' = held \/ \E k : Knows(r, k) /\ k.status = "closed"
  /\ issued' = issued /\ MarksFade

Dies(mine) ==
  /\ task' = [t \in Tasks |-> IF t \in mine THEN Idle ELSE task[t]]
  /\ held' = [r \in Ids |->
                IF \E t \in mine : task[t].id = r /\ task[t].pc # "try"
                  THEN [held[r] EXCEPT !.status = "crashed"] ELSE held[r]]
  /\ issued' = issued /\ MarksFade

CallKind(t, r) ==
  \/ Begins(t, r) \/ Ends(t) \/ Repeats(t, r) \/ Consumes(t, r)
  \/ Records(t, r) \/ Answers(t, r) \/ Turns(t, r) \/ Undoes(t, r)
  \/ Asks(t, r) \/ Refunds(t, r) \/ Rejects(t, r)

-----------------------------------------------------------------------------
(* Each action is a step of its kind. *)

(* The record of no call. *)
LEMMA IdleTask == Idle \in Task /\ Idle.pc = "idle" /\ Idle.id = 0
BY StoreAssumption DEF Idle, Task, PCs, NoUsage

(* A call past its start names a reservation and a usage. *)
LEMMA CallFields ==
  ASSUME CallTypes, NEW t \in Tasks
  PROVE  /\ task[t] \in Task
         /\ task[t].pc # "idle" => task[t].id \in Ids
         /\ task[t].usage \in [Metrics -> Nat]
BY DEF CallTypes, Task

(* A call that goes on *)
LEMMA Goes ==
  ASSUME CallTypes, NEW t \in Tasks, NEW pc \in PCs, Go(t, pc),
         task[t].pc # "idle"
  PROVE  \E rec : Writes(t, rec) /\ rec.pc = pc /\ rec.id = task[t].id
<1> DEFINE rec == [task[t] EXCEPT !.pc = pc]
<1>1. task[t] \in Task /\ task[t].id \in Ids
  BY CallFields
<1>2. rec \in Task /\ rec.pc = pc /\ rec.id = task[t].id
  BY <1>1 DEF Task
<1>3. task' = [task EXCEPT ![t] = rec]
  BY DEF Go
<1> HIDE DEF rec
<1> QED BY <1>1, <1>2, <1>3 DEF Writes

(* A call that is over *)
LEMMA IsDone ==
  ASSUME NEW t \in Tasks, Done(t)
  PROVE  Writes(t, Idle)
BY IdleTask DEF Done, Writes

(* A caller learns of its reservation. *)
LEMMA Answered ==
  ASSUME CallTypes, NEW r \in Ids, NEW status \in Status, Answer(r, status)
  PROVE  \E k : Knows(r, k) /\ k.status = status /\ k.exp = held[r].exp
<1> DEFINE k == [held[r] EXCEPT !.status = status]
<1>1. held[r] \in Known
  BY DEF CallTypes
<1>2. k \in Known /\ k.status = status /\ k.exp = held[r].exp
  BY <1>1 DEF Known
<1>3. held' = [held EXCEPT ![r] = k]
  BY DEF Answer
<1> HIDE DEF k
<1> QED BY <1>2, <1>3 DEF Knows

Enters(t, pc, e, r, u) ==
  task' = [task EXCEPT ![t] = [pc |-> pc, engine |-> {e}, id |-> r,
                               usage |-> u]]

(* A call that starts. *)
LEMMA NewTask ==
  ASSUME NEW t \in Tasks, NEW e \in Engines, NEW r \in Ids,
         NEW u \in [Metrics -> Nat], NEW pc \in PCs, Enters(t, pc, e, r, u)
  PROVE  \E rec : Writes(t, rec) /\ rec.pc = pc /\ rec.id = r
<1> DEFINE rec == [pc |-> pc, engine |-> {e}, id |-> r, usage |-> u]
<1>1. r \in 0..MaxIds
  BY StoreAssumption DEF Ids
<1>2. rec \in Task /\ rec.pc = pc /\ rec.id = r
  BY <1>1 DEF Task
<1>3. task' = [task EXCEPT ![t] = rec]
  BY DEF Enters
<1> HIDE DEF rec
<1> QED BY <1>2, <1>3 DEF Writes

(* The caller's copy of a charge. *)
LEMMA NewReservation ==
  ASSUME StoreInv, NEW e \in Engines, NEW u \in [Metrics -> Nat]
  PROVE  /\ Reservation(e, u) \in Known
         /\ Reservation(e, u).status = "no"
         /\ Reservation(e, u).exp = now + Lifetime
<1>1. now + Lifetime \in Nat /\ Mine(e) \subseteq Buckets
  BY ServesMine, MarkerConstants DEF StoreInv
<1> QED BY <1>1 DEF Reservation, Known, Status

(* What every step but those of the clock and of the store's owner keeps *)
Steady ==
  /\ StoreInv' /\ RowsKept
  /\ UNCHANGED <<deployment, now, skewed, losses, crashes>>

(* A step that leaves the store alone. *)
LEMMA StaysSteady ==
  ASSUME Inv0, UNCHANGED <<store, losses, crashes>>
  PROVE  Steady /\ MarksFade
<1>1. StoreInv' /\ MarksFade /\ RowsKept
  BY StoreStays DEF Inv0
<1> QED BY <1>1 DEF Steady, store, clock

(* await_for_capacity begins. *)
LEMMA AwaitCallKind ==
  ASSUME Inv0, NEW t \in Tasks, NEW e \in Engines, NEW r \in Ids,
         NEW u \in Usages, AwaitCall(t, e, r, u)
  PROVE  Steady /\ Begins(t, r)
<1>1. /\ task[t].pc = "idle" /\ TakesId(r)
      /\ Enters(t, "try", e, r, u)
      /\ UNCHANGED <<store, held, crashes, losses>>
  BY DEF AwaitCall, Enters
<1>2. u \in [Metrics -> Nat] /\ "try" \in PCs
  BY DeploymentTypes DEF Inv0, StoreInv, StoreTypes, ClockTypes, PCs
<1>3. \E rec : Writes(t, rec) /\ rec.pc = "try" /\ rec.id = r
  BY <1>1, <1>2, NewTask
<1>4. Steady /\ MarksFade
  BY <1>1, StaysSteady
<1> QED BY <1>1, <1>3, <1>4 DEF Begins

(* It finds its own marker. *)
LEMMA TryReplayKind ==
  ASSUME Inv0, NEW t \in Tasks, NEW e \in Engines, TryReplay(t, e)
  PROVE  Steady /\ Repeats(t, task[t].id)
<1> DEFINE r == task[t].id
           k == [exp |-> marker[r].exp, status |-> "held", scope |-> Mine(e),
                 usage |-> task[t].usage]
<1>1. /\ task[t].pc = "try" /\ LiveMarker(r)
      /\ \E p \in Prunings : LoadOnly(e, p, r)
      /\ held' = [held EXCEPT ![r] = k]
      /\ Done(t)
      /\ UNCHANGED <<issued, crashes, losses>>
  BY DEF TryReplay, At, IsReplay
<1>2. r \in Ids /\ task[t].usage \in [Metrics -> Nat]
  BY <1>1, CallFields DEF Inv0
<1>3. PICK p \in Prunings : LoadOnly(e, p, r)
  BY <1>1
<1>4. StoreInv' /\ RowsKept /\ MarksFade /\ marker'[r] = marker[r]
  BY <1>1, <1>2, <1>3, LoadOnlyKeeps DEF Inv0
<1>5. UNCHANGED clock
  BY <1>3 DEF LoadOnly, Commit
<1>6. marker[r] \in Marker /\ Mine(e) \subseteq Buckets
  BY <1>2, ServesMine DEF Inv0, StoreInv, StoreTypes, MarkTypes
<1>7. k \in Known /\ k.status = "held" /\ k.exp = marker[r].exp
  BY <1>2, <1>6 DEF Known, Status, Marker
<1>8. Writes(t, Idle)
  BY <1>1, IsDone
<1> HIDE DEF k
<1>9. Repeats(t, r)
  BY <1>1, <1>4, <1>7, <1>8 DEF Repeats, Knows
<1> QED BY <1>1, <1>4, <1>5, <1>9 DEF Steady, clock

(* It ends before any charge. *)
LEMMA TryEnds ==
  ASSUME Inv0, NEW t \in Tasks, task[t].pc = "try", Done(t),
         UNCHANGED <<store, issued, held, crashes, losses>>
  PROVE  Steady /\ Ends(t)
<1>1. Steady /\ MarksFade
  BY StaysSteady
<1> QED BY <1>1, IsDone DEF Ends

(* It is a duplicate, or asks for more than any limit. *)
LEMMA TryRejectKind ==
  ASSUME Inv0, NEW t \in Tasks, NEW e \in Engines, TryReject(t, e)
  PROVE  Steady /\ Ends(t)
<1>1. /\ task[t].pc = "try" /\ Done(t)
      /\ UNCHANGED <<store, issued, held, crashes, losses>>
  BY DEF TryReject, At, Rollback
<1> QED BY <1>1, TryEnds

(* It is cancelled or out of time before the charge. *)
LEMMA GiveUpKind ==
  ASSUME Inv0, NEW t \in Tasks, GiveUp(t)
  PROVE  Steady /\ Ends(t)
<1>1. /\ task[t].pc = "try" /\ Done(t)
      /\ UNCHANGED <<store, issued, held, crashes, losses>>
  BY DEF GiveUp
<1> QED BY <1>1, TryEnds

(* It has to wait. *)
LEMMA TryWaitKind ==
  ASSUME Inv0, NEW t \in Tasks, NEW e \in Engines, TryWait(t, e)
  PROVE  Steady /\ Untouched
<1> DEFINE r == task[t].id
<1>1. /\ task[t].pc = "try"
      /\ UNCHANGED <<task, issued, held, crashes, losses>>
  BY DEF TryWait, At
<1>2. PICK p \in Prunings : LoadOnly(e, p, r)
  BY DEF TryWait
<1>3. r \in Ids
  BY <1>1, CallFields DEF Inv0
<1>4. StoreInv' /\ RowsKept /\ MarksFade
  BY <1>1, <1>2, <1>3, LoadOnlyKeeps DEF Inv0
<1>5. UNCHANGED clock
  BY <1>2 DEF LoadOnly, Commit
<1> QED BY <1>1, <1>4, <1>5 DEF Steady, Untouched, clock

(* It charges. *)
LEMMA TryConsumeKind ==
  ASSUME Inv0, NEW t \in Tasks, NEW e \in Engines, TryConsume(t, e)
  PROVE  Steady /\ Consumes(t, task[t].id)
<1> DEFINE r == task[t].id  u == task[t].usage
           k == Reservation(e, u)
<1>1. /\ task[t].pc = "try"
      /\ held' = [held EXCEPT ![r] = k]
      /\ Go(t, "callbacks")
      /\ UNCHANGED <<issued, crashes, losses>>
  BY DEF TryConsume, At
<1>2. r \in Ids /\ u \in [Metrics -> Nat]
  BY <1>1, CallFields DEF Inv0
<1>3. PICK p \in Prunings : TryCharge(e, p, r, u)
  BY DEF TryConsume
<1>4. /\ StoreInv' /\ RowsKept
      /\ ~ LiveMarker(r) /\ ~ Tombstoned(r)
      /\ OthersFade(r)
      /\ marker'[r] = NewMarker(e, u) /\ tombstone'[r] = 0
  BY <1>1, <1>2, <1>3, TryChargeKeeps DEF Inv0
<1>5. UNCHANGED clock
  BY <1>3 DEF TryCharge, Charge, Commit
<1>6. Charges(r)
  BY <1>4 DEF Charges, NewMarker
<1>7. k \in Known /\ k.status = "no" /\ k.exp = now + Lifetime
  BY <1>2, NewReservation DEF Inv0
<1>8. \E rec : Writes(t, rec) /\ rec.pc = "callbacks" /\ rec.id = r
  <2>1. "callbacks" \in PCs
    BY DEF PCs
  <2> QED BY <1>1, <2>1, Goes DEF Inv0
<1> HIDE DEF k
<1>9. \E x : Knows(r, x) /\ x.status = "no" /\ x.exp = now + Lifetime
  BY <1>1, <1>7 DEF Knows
<1>10. Consumes(t, r)
  BY <1>1, <1>6, <1>8, <1>9 DEF Consumes
<1> QED BY <1>1, <1>4, <1>5, <1>10 DEF Steady, clock

(* A call past its charge ends with a status for the caller. *)
LEMMA TaskAnswers ==
  ASSUME Inv0, NEW t \in Tasks, task[t].pc \in {"callbacks", "undo", "record"},
         NEW status \in Status \ {"no"}, Answer(task[t].id, status), Done(t),
         status = "held" => task[t].pc \in {"callbacks", "record"},
         UNCHANGED <<store, issued, crashes, losses>>
  PROVE  Steady /\ Answers(t, task[t].id)
<1>1. Steady /\ MarksFade
  BY StaysSteady
<1>2. task[t].id \in Ids
  BY CallFields DEF Inv0
<1>3. \E k : Knows(task[t].id, k) /\ k.status = status
             /\ k.exp = held[task[t].id].exp
  BY <1>2, Answered DEF Inv0
<1>4. status # "no"
  OBVIOUS
<1> QED BY <1>1, <1>3, <1>4, IsDone DEF Answers

(* The reservation is delivered. *)
LEMMA CallbacksReturnKind ==
  ASSUME Inv0, NEW t \in Tasks, CallbacksReturn(t)
  PROVE  Steady /\ Answers(t, task[t].id)
<1>1. /\ task[t].pc = "callbacks" /\ Answer(task[t].id, "held") /\ Done(t)
      /\ UNCHANGED <<store, issued, crashes, losses>>
  BY DEF CallbacksReturn
<1>2. "held" \in Status \ {"no"}
  BY DEF Status
<1> QED BY <1>1, <1>2, TaskAnswers

(* The cleanup cannot be submitted any more. *)
LEMMA InterruptClosedKind ==
  ASSUME Inv0, NEW t \in Tasks, InterruptClosed(t)
  PROVE  Steady /\ Answers(t, task[t].id)
<1>1. /\ task[t].pc = "callbacks" /\ Answer(task[t].id, "dropped") /\ Done(t)
      /\ UNCHANGED <<store, issued, crashes, losses>>
  BY DEF InterruptClosed
<1>2. "dropped" \in Status \ {"no"} /\ "dropped" # "held"
  BY DEF Status
<1> QED BY <1>1, <1>2, TaskAnswers

(* The cleanup raised. *)
LEMMA UndoFailsKind ==
  ASSUME Inv0, NEW t \in Tasks, UndoFails(t)
  PROVE  Steady /\ Answers(t, task[t].id)
<1>1. /\ task[t].pc = "undo" /\ Answer(task[t].id, "failed") /\ Done(t)
      /\ UNCHANGED <<store, issued, crashes, losses>>
  BY DEF UndoFails, Rollback
<1>2. "failed" \in Status \ {"no"} /\ "failed" # "held"
  BY DEF Status
<1> QED BY <1>1, <1>2, TaskAnswers

(* consume_capacity returns, or its answer is lost. *)
LEMMA RecordReturnsKind ==
  ASSUME Inv0, NEW t \in Tasks, RecordReturns(t)
  PROVE  Steady /\ Answers(t, task[t].id)
<1>1. /\ task[t].pc = "record" /\ Done(t)
      /\ UNCHANGED <<store, issued, crashes, losses>>
  BY DEF RecordReturns
<1>2. PICK status \in {"held", "unsure"} : Answer(task[t].id, status)
  BY DEF RecordReturns
<1>3. status \in Status \ {"no"}
  BY DEF Status
<1> QED BY <1>1, <1>2, <1>3, TaskAnswers

(* A call is cancelled past its charge. *)
LEMMA InterruptKind ==
  ASSUME Inv0, NEW t \in Tasks, Interrupt(t)
  PROVE  Steady /\ Turns(t, task[t].id)
<1>1. /\ task[t].pc = "callbacks" /\ Go(t, "undo")
      /\ UNCHANGED <<store, issued, held, crashes, losses>>
  BY DEF Interrupt
<1>2. Steady /\ MarksFade
  BY <1>1, StaysSteady
<1>3. "undo" \in PCs
  BY DEF PCs
<1>4. \E rec : Writes(t, rec) /\ rec.pc = "undo" /\ rec.id = task[t].id
  BY <1>1, <1>3, Goes DEF Inv0
<1> QED BY <1>1, <1>2, <1>4 DEF Turns

(* Its cleanup commits. *)
LEMMA UndoKind ==
  ASSUME Inv0, NEW t \in Tasks, NEW e \in Engines, Undo(t, e)
  PROVE  Steady /\ Undoes(t, task[t].id)
<1> DEFINE r == task[t].id  u == task[t].usage
<1>1. /\ task[t].pc = "undo" /\ Done(t)
      /\ UNCHANGED <<issued, held, crashes, losses>>
  BY DEF Undo, At
<1>2. r \in Ids /\ u \in [Metrics -> Nat]
  BY <1>1, CallFields DEF Inv0
<1>3. PICK p \in Prunings : Cleanup(e, p, r, u)
  BY DEF Undo
<1>4. /\ StoreInv' /\ RowsKept
      /\ marker[r].exp # 0
      /\ OthersFade(r)
      /\ marker'[r] = NoMarker
      /\ \/ tombstone'[r] = tombstone[r]
         \/ tombstone'[r] = 0 /\ tombstone[r] <= now
  BY <1>1, <1>2, <1>3, CleanupKeeps DEF Inv0
<1>5. UNCHANGED clock
  BY <1>3 DEF Cleanup, Commit
<1>6. Undoes(t, r)
  BY <1>1, <1>4, IsDone DEF Undoes
<1> QED BY <1>1, <1>4, <1>5, <1>6 DEF Steady, clock

(* consume_capacity charges, or finds its own marker. *)
LEMMA RecordKind ==
  ASSUME Inv0, NEW t \in Tasks, NEW e \in Engines, NEW r \in Ids,
         NEW u \in Usages, Record(t, e, r, u)
  PROVE  Steady /\ Records(t, r)
<1> DEFINE k == Reservation(e, u)
           seen == [Reservation(e, u) EXCEPT !.exp = marker[r].exp]
<1>1. /\ task[t].pc = "idle" /\ TakesId(r)
      /\ Enters(t, "record", e, r, u)
      /\ UNCHANGED <<crashes, losses>>
  BY DEF Record, Enters
<1>2. u \in [Metrics -> Nat] /\ "record" \in PCs
  BY DeploymentTypes DEF Inv0, StoreInv, StoreTypes, ClockTypes, PCs
<1>3. \E rec : Writes(t, rec) /\ rec.pc = "record" /\ rec.id = r
  BY <1>1, <1>2, NewTask
<1>4. k \in Known /\ k.status = "no" /\ k.exp = now + Lifetime
  BY <1>2, NewReservation DEF Inv0
<1>5. PICK p \in Prunings :
        \/ /\ IsReplay(e, r, u) /\ LoadOnly(e, p, r)
           /\ held' = [held EXCEPT ![r] = seen]
        \/ RecordCharge(e, p, r, u) /\ held' = [held EXCEPT ![r] = k]
  BY DEF Record
<1> HIDE DEF k
<1>6. CASE /\ IsReplay(e, r, u) /\ LoadOnly(e, p, r)
           /\ held' = [held EXCEPT ![r] = seen]
  <2>1. /\ StoreInv' /\ RowsKept /\ MarksFade
        /\ marker'[r] = marker[r]
    BY <1>1, <1>6, LoadOnlyKeeps DEF Inv0, IsReplay
  <2>2. UNCHANGED clock
    BY <1>6 DEF LoadOnly, Commit
  <2>3. marker[r].exp \in Nat
    BY DEF Inv0, StoreInv, StoreTypes, MarkTypes, Marker
  <2>4. seen = [k EXCEPT !.exp = marker[r].exp]
    BY DEF k
  <2>5. seen \in Known /\ seen.status = "no" /\ seen.exp = marker[r].exp
    BY <1>4, <2>3, <2>4 DEF Known
  <2> HIDE DEF seen
  <2>6. \E x : Knows(r, x) /\ x.status = "no" /\ x.exp = marker[r].exp
    BY <1>6, <2>5 DEF Knows
  <2>7. Records(t, r)
    BY <1>1, <1>3, <2>1, <2>6 DEF Records
  <2> QED BY <1>1, <2>1, <2>2, <2>7 DEF Steady, clock
<1>7. CASE RecordCharge(e, p, r, u) /\ held' = [held EXCEPT ![r] = k]
  <2>1. /\ StoreInv' /\ RowsKept
        /\ ~ LiveMarker(r) /\ ~ Tombstoned(r)
        /\ OthersFade(r)
        /\ marker'[r] = NewMarker(e, u) /\ tombstone'[r] = 0
    BY <1>1, <1>2, <1>7, TryChargeKeeps DEF Inv0
  <2>2. UNCHANGED clock
    BY <1>7 DEF RecordCharge, Charge, Commit
  <2>3. Charges(r)
    BY <2>1 DEF Charges, NewMarker
  <2>4. \E x : Knows(r, x) /\ x.status = "no" /\ x.exp = now + Lifetime
    BY <1>4, <1>7 DEF Knows
  <2>5. Records(t, r)
    BY <1>1, <1>3, <2>3, <2>4 DEF Records
  <2> QED BY <1>1, <2>1, <2>2, <2>5 DEF Steady, clock
<1> QED BY <1>5, <1>6, <1>7

(* A refund is queued. *)
LEMMA RefundCallKind ==
  ASSUME Inv0, NEW t \in Tasks, NEW e \in Engines, NEW r \in Ids,
         NEW actual \in Actuals, RefundCall(t, e, r, actual)
  PROVE  Steady /\ Asks(t, r)
<1>1. /\ task[t].pc = "idle"
      /\ held[r].status \in {"held", "unsure", "closed"}
      /\ Enters(t, "refund", e, r, actual)
      /\ UNCHANGED <<store, issued, held, crashes, losses>>
  BY DEF RefundCall, Enters
<1>2. actual \in [Metrics -> Nat] /\ "refund" \in PCs
  BY CallsAssumption DEF PCs
<1>3. \E rec : Writes(t, rec) /\ rec.pc = "refund" /\ rec.id = r
  BY <1>1, <1>2, NewTask
<1>4. Steady /\ MarksFade
  BY <1>1, StaysSteady
<1> QED BY <1>1, <1>3, <1>4 DEF Asks

(* It commits. *)
LEMMA RefundCommitKind ==
  ASSUME Inv0, NEW t \in Tasks, NEW e \in Engines, RefundCommit(t, e)
  PROVE  Steady /\ Refunds(t, task[t].id)
<1> DEFINE r == task[t].id  actual == task[t].usage
<1>1. /\ task[t].pc = "refund" /\ Done(t)
      /\ UNCHANGED <<issued, crashes, losses>>
  BY DEF RefundCommit, At
<1>2. r \in Ids /\ actual \in [Metrics -> Nat]
  BY <1>1, CallFields DEF Inv0
<1>3. PICK p \in Prunings :
        Refund(e, p, r, held[r].scope, held[r].usage, actual)
  BY DEF RefundCommit
<1>4. PICK status \in {"closed", "unsure"} : Answer(r, status)
  BY DEF RefundCommit
<1>5. held[r].usage \in [Metrics -> Nat]
  BY <1>2 DEF Inv0, CallTypes, Known
<1>6. /\ StoreInv' /\ RowsKept
      /\ LiveMarker(r) /\ OthersFade(r)
      /\ marker'[r] = NoMarker /\ tombstone'[r] = now + DedupTTL
  BY <1>1, <1>2, <1>3, <1>5, RefundKeeps DEF Inv0
<1>7. UNCHANGED clock
  BY <1>3 DEF Refund, Commit
<1>8. status \in Status
  BY DEF Status
<1>9. \E k : Knows(r, k) /\ k.status = status
  BY <1>2, <1>4, <1>8, Answered DEF Inv0
<1>10. Refunds(t, r)
  BY <1>1, <1>6, <1>9, IsDone DEF Refunds
<1> QED BY <1>1, <1>6, <1>7, <1>10 DEF Steady, clock

(* It raises. *)
LEMMA RefundRejectKind ==
  ASSUME Inv0, NEW t \in Tasks, NEW e \in Engines, RefundReject(t, e)
  PROVE  Steady /\ Rejects(t, task[t].id)
<1> DEFINE r == task[t].id
<1>1. /\ task[t].pc = "refund" /\ Done(t)
      /\ held' = held \/ Answer(r, "closed")
      /\ UNCHANGED <<store, issued, crashes, losses>>
  BY DEF RefundReject, At, Rollback, Answer
<1>2. r \in Ids /\ "closed" \in Status
  BY <1>1, CallFields DEF Inv0, Status
<1>3. Steady /\ MarksFade
  BY <1>1, StaysSteady
<1>4. ASSUME Answer(r, "closed") PROVE \E k : Knows(r, k) /\ k.status = "closed"
  BY <1>2, <1>4, Answered DEF Inv0
<1> QED BY <1>1, <1>3, <1>4, IsDone DEF Rejects

(* A process dies with its calls. *)
LEMMA CrashKind ==
  ASSUME Inv0, NEW e \in Engines, Crash(e)
  PROVE  /\ StoreInv' /\ RowsKept
         /\ UNCHANGED <<deployment, now, skewed, losses>>
         /\ crashes < MaxCrashes /\ crashes' = crashes + 1
         /\ \E mine \in SUBSET Tasks : Dies(mine)
<1> DEFINE mine == {t \in Tasks : task[t].engine = {e}}
<1>1. StoreInv' /\ MarksFade /\ RowsKept
  BY CrashKeeps DEF Inv0
<1>2. /\ task' = [t \in Tasks |-> IF t \in mine THEN Idle ELSE task[t]]
      /\ held' = [r \in Ids |->
                    IF \E t \in mine : task[t].id = r /\ task[t].pc # "try"
                      THEN [held[r] EXCEPT !.status = "crashed"] ELSE held[r]]
      /\ UNCHANGED <<clock, issued, losses>>
      /\ crashes < MaxCrashes /\ crashes' = crashes + 1
  BY DEF Crash
<1>3. mine \in SUBSET Tasks
  OBVIOUS
<1> HIDE DEF mine
<1> QED BY <1>1, <1>2, <1>3 DEF Dies, clock

(* What an operator may do besides: nothing happens to the calls, and only *)
(* an action on the limits of a bucket ends its override.                  *)
Operated ==
  /\ StoreInv' /\ Untouched
  /\ UNCHANGED <<deployment, now, skewed, losses, crashes>>
  /\ \A b \in Buckets : RowMoves(b)
  /\ \A b \in Buckets : OverrideLive(row[b]) /\ row'[b].over # row[b].over =>
       \E e \in Engines : \/ \E value \in Limits : SetMax(e, b, value)
                          \/ ApplyConfigured(e, b, engine'[e].conf[b])
                          \/ ClearOverrides(e)

(* set_max_capacity sets a runtime override. *)
LEMMA SetMaxKind ==
  ASSUME Inv0, NEW e \in Engines, NEW b \in Buckets, NEW value \in Limits,
         SetMax(e, b, value)
  PROVE  Operated
<1>1. /\ StoreInv' /\ MarksFade
      /\ \A c \in Buckets \ {b} :
           OverrideLive(row[c]) => row'[c].over = row[c].over
      /\ \A c \in Buckets : RowMoves(c)
  BY SetMaxKeeps DEF Inv0
<1>2. UNCHANGED clock /\ UNCHANGED calls
  BY DEF SetMax, set_max_override, Commit
<1> QED BY <1>1, <1>2 DEF Operated, Untouched, clock, calls

(* A changed limit is applied in place. *)
LEMMA ApplyConfiguredKind ==
  ASSUME Inv0, NEW e \in Engines, NEW b \in Buckets, NEW value \in Nat \ {0},
         ApplyConfigured(e, b, value)
  PROVE  Operated
<1>1. /\ StoreInv' /\ MarksFade
      /\ engine'[e].conf[b] = value
      /\ \A c \in Buckets \ {b} :
           OverrideLive(row[c]) => row'[c].over = row[c].over
      /\ \A c \in Buckets : RowMoves(c)
  BY ApplyConfiguredKeeps DEF Inv0
<1>2. UNCHANGED clock /\ UNCHANGED calls
  BY DEF ApplyConfigured, apply_configured_max_capacity
<1>3. ApplyConfigured(e, b, engine'[e].conf[b])
  BY <1>1
<1> QED BY <1>1, <1>2, <1>3 DEF Operated, Untouched, clock, calls

(* What leaves calls and overrides alone is an operator's step too. *)
LEMMA StayOperated ==
  ASSUME StoreInv', MarksFade, RowsKept, UNCHANGED clock, UNCHANGED calls
  PROVE  Operated
BY DEF Operated, Untouched, RowsKept, OverridesStay, clock, calls

(* The steps of a replacement. *)
LEMMA ReconfigureKind ==
  ASSUME Inv0, NEW e \in Engines, Reconfigure(e)
  PROVE  Operated
<1>1. UNCHANGED calls /\ losses' = losses
  BY DEF Reconfigure, calls
<1>2. ASSUME NEW f \in Fleet, NEW conf \in Configs, BuildNext(e, f, conf)
      PROVE  Operated
  <2>1. f \in Engines
    BY DeploymentTypes DEF Inv0, StoreInv, StoreTypes, ClockTypes
  <2>2. StoreInv' /\ MarksFade /\ RowsKept
    BY <1>1, <1>2, <2>1, BuildNextKeeps DEF Inv0
  <2>3. UNCHANGED clock
    BY <1>2 DEF BuildNext
  <2> QED BY <1>1, <2>2, <2>3, StayOperated
<1>3. CASE ClearOverrides(e)
  <2>1. StoreInv' /\ MarksFade /\ \A b \in Buckets : RowMoves(b)
    BY <1>1, <1>3, ClearOverridesKeeps DEF Inv0
  <2>2. UNCHANGED clock
    BY <1>3 DEF ClearOverrides
  <2> QED BY <1>1, <1>3, <2>1, <2>2 DEF Operated, Untouched, clock, calls
<1>4. CASE Replace(e)
  <2>1. StoreInv' /\ MarksFade /\ RowsKept
    BY <1>1, <1>4, ReplaceKeeps DEF Inv0
  <2>2. UNCHANGED clock
    BY <1>4 DEF Replace
  <2> QED BY <1>1, <2>1, <2>2, StayOperated
<1> QED BY <1>2, <1>3, <1>4 DEF Reconfigure

(* A process starts. *)
LEMMA StartProcessKind ==
  ASSUME Inv0, NEW e \in Engines, NEW conf \in Configs, StartProcess(e, conf)
  PROVE  Operated
<1>1. UNCHANGED calls /\ losses' = losses /\ Start(e, conf)
  BY DEF StartProcess, calls
<1>2. StoreInv' /\ MarksFade /\ RowsKept
  BY <1>1, StartKeeps DEF Inv0
<1>3. UNCHANGED clock
  BY <1>1 DEF Start, Open
<1> QED BY <1>1, <1>2, <1>3, StayOperated

(* An engine is closed. *)
LEMMA CloseKind ==
  ASSUME Inv0, NEW e \in Engines, Close(e)
  PROVE  Operated
<1>1. UNCHANGED calls /\ UNCHANGED clock
  BY DEF Close, calls
<1>2. StoreInv' /\ MarksFade /\ RowsKept
  BY CloseKeeps DEF Inv0
<1> QED BY <1>1, <1>2, StayOperated

Called == Steady /\ \E t \in Tasks : \E r \in Ids : CallKind(t, r)

Died ==
  /\ StoreInv' /\ RowsKept
  /\ UNCHANGED <<deployment, now, skewed, losses>>
  /\ crashes < MaxCrashes /\ crashes' = crashes + 1
  /\ \E mine \in SUBSET Tasks : Dies(mine)

(* The outcomes of calls. *)
LEMMA OutcomeKind ==
  ASSUME Inv0, NEW t \in Tasks, Outcome(t)
  PROVE  Called
<1> DEFINE r == task[t].id
<1>1. ASSUME task[t].pc # "idle", Steady, CallKind(t, r) PROVE Called
  <2>1. r \in Ids
    BY <1>1, CallFields DEF Inv0
  <2> QED BY <1>1, <2>1 DEF Called
<1>2. CASE GiveUp(t)
  BY <1>1, <1>2, GiveUpKind DEF CallKind, Ends
<1>3. CASE CallbacksReturn(t)
  BY <1>1, <1>3, CallbacksReturnKind DEF CallKind, Answers
<1>4. CASE Interrupt(t)
  BY <1>1, <1>4, InterruptKind DEF CallKind, Turns
<1>5. CASE InterruptClosed(t)
  BY <1>1, <1>5, InterruptClosedKind DEF CallKind, Answers
<1>6. CASE UndoFails(t)
  BY <1>1, <1>6, UndoFailsKind DEF CallKind, Answers
<1>7. CASE RecordReturns(t)
  BY <1>1, <1>7, RecordReturnsKind DEF CallKind, Answers
<1> QED BY <1>2, <1>3, <1>4, <1>5, <1>6, <1>7 DEF Outcome

(* The transactions of calls. *)
LEMMA TransactionKind ==
  ASSUME Inv0, NEW t \in Tasks, NEW e \in Engines, Transaction(t, e)
  PROVE  Called \/ (Steady /\ Untouched)
<1> DEFINE r == task[t].id
<1>1. ASSUME task[t].pc # "idle", Steady, CallKind(t, r) PROVE Called
  <2>1. r \in Ids
    BY <1>1, CallFields DEF Inv0
  <2> QED BY <1>1, <2>1 DEF Called
<1>2. CASE TryReplay(t, e)
  BY <1>1, <1>2, TryReplayKind DEF CallKind, Repeats
<1>3. CASE TryReject(t, e)
  BY <1>1, <1>3, TryRejectKind DEF CallKind, Ends
<1>4. CASE TryConsume(t, e)
  BY <1>1, <1>4, TryConsumeKind DEF CallKind, Consumes
<1>5. CASE TryWait(t, e)
  BY <1>5, TryWaitKind
<1>6. CASE Undo(t, e)
  BY <1>1, <1>6, UndoKind DEF CallKind, Undoes
<1>7. CASE RefundCommit(t, e)
  BY <1>1, <1>7, RefundCommitKind DEF CallKind, Refunds
<1>8. CASE RefundReject(t, e)
  BY <1>1, <1>8, RefundRejectKind DEF CallKind, Rejects
<1> QED BY <1>2, <1>3, <1>4, <1>5, <1>6, <1>7, <1>8 DEF Transaction

(* The starts of calls. *)
LEMMA NewCallKind ==
  ASSUME Inv0, NEW t \in Tasks, NEW e \in Engines, Call(t, e)
  PROVE  Called
<1>1. PICK r \in Ids :
        \/ \E u \in Usages : AwaitCall(t, e, r, u) \/ Record(t, e, r, u)
        \/ \E a \in Actuals : RefundCall(t, e, r, a)
  BY DEF Call
<1>2. ASSUME NEW u \in Usages, AwaitCall(t, e, r, u) PROVE Called
  BY <1>2, AwaitCallKind DEF Called, CallKind
<1>3. ASSUME NEW u \in Usages, Record(t, e, r, u) PROVE Called
  BY <1>3, RecordKind DEF Called, CallKind
<1>4. ASSUME NEW a \in Actuals, RefundCall(t, e, r, a) PROVE Called
  BY <1>4, RefundCallKind DEF Called, CallKind
<1> QED BY <1>1, <1>2, <1>3, <1>4

(* The steps of operators, and crashes. *)
LEMMA OperateKind ==
  ASSUME Inv0, NEW e \in Engines, Operate(e)
  PROVE  Operated \/ Died
<1>1. ASSUME NEW b \in Buckets, NEW value \in Limits, SetMax(e, b, value)
      PROVE  Operated
  BY <1>1, SetMaxKind
<1>2. ASSUME NEW conf \in Configs, NEW b \in DOMAIN conf,
             ApplyConfigured(e, b, conf[b])
      PROVE  Operated
  <2>1. b \in Buckets /\ conf[b] \in Nat \ {0}
    BY DeploymentTypes DEF Inv0, StoreInv, StoreTypes, ClockTypes, IsQuota
  <2> QED BY <1>2, <2>1, ApplyConfiguredKind
<1>3. CASE Reconfigure(e)
  BY <1>3, ReconfigureKind
<1>4. ASSUME NEW conf \in Configs, StartProcess(e, conf) PROVE Operated
  BY <1>4, StartProcessKind
<1>5. CASE Close(e)
  BY <1>5, CloseKind
<1>6. CASE Crash(e)
  BY <1>6, CrashKind DEF Died
<1> QED BY <1>1, <1>2, <1>3, <1>4, <1>5, <1>6 DEF Operate

(* The step of any actor is of one of these kinds. *)
LEMMA NextKind ==
  ASSUME Inv0, Next
  PROVE  Called \/ (Steady /\ Untouched) \/ Operated \/ Died \/ Lose \/ Clock
<1>1. ASSUME NEW t \in Tasks, Outcome(t) PROVE Called
  BY <1>1, OutcomeKind
<1>2. ASSUME NEW t \in Tasks, NEW e \in Engines, Transaction(t, e)
      PROVE  Called \/ (Steady /\ Untouched)
  BY <1>2, TransactionKind
<1>3. ASSUME NEW t \in Tasks, NEW e \in Engines, Call(t, e) PROVE Called
  BY <1>3, NewCallKind
<1>4. ASSUME NEW e \in Fleet, Operate(e) PROVE Operated \/ Died
  <2>1. e \in Engines
    BY DeploymentTypes DEF Inv0, StoreInv, StoreTypes, ClockTypes
  <2> QED BY <1>4, <2>1, OperateKind
<1> QED BY <1>1, <1>2, <1>3, <1>4 DEF Next

-----------------------------------------------------------------------------
(* Types *)

(* What a call does to the state of the calls, kinds apart *)
LEMMA CallShape ==
  ASSUME NEW t \in Tasks, NEW r \in Ids, CallKind(t, r)
  PROVE  /\ \E rec : Writes(t, rec)
         /\ held' = held \/ \E k : Knows(r, k)
         /\ issued' = issued \/ TakesId(r)
<1>1. CASE Begins(t, r) \/ Ends(t) \/ Repeats(t, r) \/ Consumes(t, r)
  BY <1>1 DEF Begins, Ends, Repeats, Consumes
<1>2. CASE Records(t, r) \/ Answers(t, r) \/ Turns(t, r) \/ Undoes(t, r)
  BY <1>2 DEF Records, Answers, Turns, Undoes
<1>3. CASE Asks(t, r) \/ Refunds(t, r) \/ Rejects(t, r)
  BY <1>3 DEF Asks, Refunds, Rejects
<1> QED BY <1>1, <1>2, <1>3 DEF CallKind

(* Calls keep the types. *)
LEMMA CalledTypes ==
  ASSUME Inv0, Called
  PROVE  CallTypes'
<1>1. PICK t \in Tasks, r \in Ids : CallKind(t, r)
  BY DEF Called
<1>2. PICK rec : Writes(t, rec)
  BY <1>1, CallShape
<1>3. UNCHANGED <<deployment, crashes, losses>>
  BY DEF Called, Steady
<1>4. /\ task' \in [Tasks -> Task]
      /\ \A s \in Tasks : task'[s].pc # "idle" => task'[s].id \in Ids
  BY <1>2 DEF Inv0, CallTypes, Writes
<1>5. held' \in [Ids -> Known]
  BY <1>1, CallShape DEF Inv0, CallTypes, Knows
<1>6. issued' \in 0..MaxIds
  <2>1. MaxIds \in Nat /\ r \in 1..MaxIds /\ issued \in 0..MaxIds
    BY StoreAssumption DEF Ids, Inv0, CallTypes
  <2>2. issued' = issued \/ issued' = issued \/ issued' = r
    BY <1>1, CallShape DEF TakesId, Greater
  <2> QED BY <2>1, <2>2
<1>7. MaxCrashes' = MaxCrashes /\ MaxLosses' = MaxLosses
  BY <1>3 DEF MaxCrashes, MaxLosses
<1> QED BY <1>3, <1>4, <1>5, <1>6, <1>7 DEF Inv0, CallTypes

(* A crash keeps them. *)
LEMMA DiedTypes ==
  ASSUME Inv0, Died
  PROVE  CallTypes'
<1>1. PICK mine \in SUBSET Tasks : Dies(mine)
  BY DEF Died
<1>2. /\ UNCHANGED <<deployment, losses>>
      /\ crashes < MaxCrashes /\ crashes' = crashes + 1
  BY DEF Died
<1>3. /\ task' \in [Tasks -> Task]
      /\ \A s \in Tasks : task'[s].pc # "idle" => task'[s].id \in Ids
  BY <1>1, IdleTask DEF Inv0, CallTypes, Dies
<1>4. held' \in [Ids -> Known]
  <2>1. \A r \in Ids : held[r] \in Known
                       /\ [held[r] EXCEPT !.status = "crashed"] \in Known
    BY DEF Inv0, CallTypes, Known, Status
  <2> QED BY <1>1, <2>1 DEF Dies
<1>5. issued' = issued
  BY <1>1 DEF Dies
<1>6. MaxCrashes' = MaxCrashes /\ MaxLosses' = MaxLosses
  BY <1>2 DEF MaxCrashes, MaxLosses
<1>7. MaxCrashes \in Nat /\ crashes \in 0..MaxCrashes
  BY DeploymentTypes
  DEF Inv0, CallTypes, StoreInv, StoreTypes, ClockTypes
<1>8. crashes' \in 0..MaxCrashes
  BY <1>2, <1>7
<1> QED BY <1>2, <1>3, <1>4, <1>5, <1>6, <1>8 DEF Inv0, CallTypes

(* So does a step that leaves the calls alone. *)
LEMMA QuietTypes ==
  ASSUME CallTypes, UNCHANGED <<task, issued, held, deployment, crashes>>,
         losses' \in 0..MaxLosses
  PROVE  CallTypes'
BY DEF CallTypes, MaxCrashes, MaxLosses

(* A lost database is counted. *)
LEMMA LoseTypes ==
  ASSUME Inv0, Lose
  PROVE  Inv0' /\ losses' # 0
<1>1. losses \in 0..MaxLosses /\ MaxLosses \in Nat
  BY DeploymentTypes
  DEF Inv0, CallTypes, StoreInv, StoreTypes, ClockTypes
<1>2. StoreInv' /\ losses' # 0
  BY <1>1, LoseKeeps DEF Inv0
<1>3. /\ UNCHANGED <<task, issued, held, deployment, crashes>>
      /\ losses < MaxLosses /\ losses' = losses + 1
  BY DEF Lose, LoseStore, clock
<1>4. CallTypes'
  BY <1>1, <1>3, QuietTypes DEF Inv0
<1> QED BY <1>2, <1>4 DEF Inv0

(* The clock keeps the types, and nothing else moves with it. *)
LEMMA ClockTypesKept ==
  ASSUME Inv0, Clock
  PROVE  /\ Inv0' /\ UNCHANGED <<row, marker, tombstone, calls>>
         /\ \/ now' = now + 1 /\ skewed' = skewed
            \/ skewed' # 0
<1>1. UNCHANGED calls /\ (Tick \/ ClockSetBack)
  BY DEF Clock
<1>2. /\ StoreInv' /\ UNCHANGED <<row, marker, tombstone>>
      /\ \/ now' = now + 1 /\ skewed' = skewed
         \/ skewed' # 0
  BY <1>1, ClockKeeps DEF Inv0, calls
<1>3. UNCHANGED <<task, issued, held, deployment, crashes, losses>>
  BY <1>1 DEF calls, Tick, ClockSetBack
<1>4. CallTypes'
  BY <1>3, QuietTypes DEF Inv0, CallTypes
<1> QED BY <1>1, <1>2, <1>4 DEF Inv0

(* Every step keeps the types and the invariant of the store. *)
LEMMA StepKeepsTypes ==
  ASSUME Inv0, [Next]_vars
  PROVE  Inv0'
<1>1. CASE Called
  BY <1>1, CalledTypes DEF Inv0, Called, Steady
<1>2. CASE Steady /\ Untouched
  <2>1. UNCHANGED <<task, issued, held, deployment, crashes, losses>>
    BY <1>2 DEF Steady, Untouched
  <2>2. CallTypes'
    BY <2>1, QuietTypes DEF Inv0, CallTypes
  <2> QED BY <1>2, <2>2 DEF Inv0, Steady
<1>3. CASE Operated
  <2>1. UNCHANGED <<task, issued, held, deployment, crashes, losses>>
    BY <1>3 DEF Operated, Untouched
  <2>2. CallTypes'
    BY <2>1, QuietTypes DEF Inv0, CallTypes
  <2> QED BY <1>3, <2>2 DEF Inv0, Operated
<1>4. CASE Died
  BY <1>4, DiedTypes DEF Inv0, Died
<1>5. CASE Lose
  BY <1>5, LoseTypes
<1>6. CASE Clock
  BY <1>6, ClockTypesKept
<1>7. CASE UNCHANGED vars
  <2>1. UNCHANGED <<store, task, issued, held, crashes, losses>>
    BY <1>7 DEF vars, calls
  <2>2. StoreInv'
    BY <2>1, StoreStays DEF Inv0
  <2>3. deployment' = deployment
    BY <2>1 DEF store, clock
  <2>4. CallTypes'
    BY <2>1, <2>3, QuietTypes DEF Inv0, CallTypes
  <2> QED BY <2>2, <2>4 DEF Inv0
<1> QED BY <1>1, <1>2, <1>3, <1>4, <1>5, <1>6, <1>7, NextKind

(* They hold of a store just created. *)
LEMMA InitTypes ==
  ASSUME Init
  PROVE  Inv0
<1>1. /\ deployment \in Deployments /\ now = 1 /\ skewed = 0
      /\ row = [b \in Buckets |-> IF b \in DOMAIN StartConfig THEN NewRow
                                  ELSE Absent]
      /\ marker = [r \in Ids |-> NoMarker]
      /\ tombstone = [r \in Ids |-> 0]
      /\ engine = [e \in Engines |->
                     IF e \in Initial THEN [Down EXCEPT !.status = "up",
                                                        !.conf = StartConfig]
                     ELSE Down]
  BY DEF Init, StoreInit
<1>2. /\ IsQuota(StartConfig)
      /\ MaxTime \in Nat \ {0} /\ MaxSkew \in Nat
      /\ MaxCrashes \in Nat /\ MaxLosses \in Nat
  BY <1>1, DeploymentTypes
<1>3. ClockTypes
  BY <1>1, <1>2 DEF ClockTypes
<1>4. RowTypes /\ RowsSound
  <2>1. now \in Nat
    BY <1>1
  <2>2. NewRow \in Row /\ NewRow.exists /\ Absent \in Row /\ Absent.over.max = 0
    BY <2>1, NewRowType DEF Absent, NoOverride
  <2> QED BY <1>1, <2>2 DEF RowTypes, RowsSound
<1>5. MarkTypes
  BY <1>1, MarkerConstants DEF MarkTypes
<1>6. EngineTypes /\ EvidenceHolds
  <2> DEFINE g == [Down EXCEPT !.status = "up", !.conf = StartConfig]
  <2>1. \A e \in Engines : /\ IsEngine(e, g) /\ IsEngine(e, Down)
                           /\ \A b \in Buckets : /\ g.confirmed[b] = 0
                                                 /\ Down.confirmed[b] = 0
    BY <1>2, DownIsEngine
  <2>2. engine = [e \in Engines |-> IF e \in Initial THEN g ELSE Down]
    BY <1>1
  <2> HIDE DEF g
  <2>3. EngineTypes
    BY <2>1, <2>2 DEF EngineTypes
  <2>4. \A e \in Engines, b \in Buckets : engine[e].confirmed[b] = 0
    BY <2>1, <2>2
  <2>5. BucketTTL \in Nat
    BY StoreAssumption
  <2> QED BY <1>1, <2>3, <2>4, <2>5 DEF EvidenceHolds
<1>7. CallTypes
  <2>1. /\ task = [t \in Tasks |-> Idle] /\ issued = 0
        /\ held = [r \in Ids |-> Unknown]
        /\ crashes = 0 /\ losses = 0
    BY DEF Init
  <2>2. Unknown \in Known /\ MaxIds \in Nat
    BY StoreAssumption DEF Unknown, Known, Status, NoUsage
  <2> QED BY <1>2, <2>1, <2>2, IdleTask DEF CallTypes
<1> QED BY <1>3, <1>4, <1>5, <1>6, <1>7 DEF Inv0, StoreInv, StoreTypes

(* The tables hold rows the schema allows, limits stay positive, and calls *)
(* past their start know their reservation.                                *)
THEOREM StoreAndCallsTyped == Spec => []TypeOK
<1>1. Init => Inv0
  BY InitTypes
<1>2. Inv0 /\ [Next]_vars => Inv0'
  BY StepKeepsTypes
<1>3. Inv0 => TypeOK
  BY TypeParts DEF Inv0, StoreInv
<1> QED BY <1>1, <1>2, <1>3, PTL DEF Spec

(* An engine suspects a loss only when there was one. *)
THEOREM IdlenessNeverDrains == Spec => []DrainsOnlyLosses
<1>1. ASSUME Inv0 PROVE DrainsOnlyLosses
  <2> SUFFICES ASSUME losses = 0, skewed = 0, NEW e \in Engines, NEW b \in Buckets,
                      Suspected(e, b)
               PROVE  ~ EndOverride(e, b, Surviving(row[b])).fresh
    BY DEF DrainsOnlyLosses
  <2>1. now \in Nat /\ row[b] \in Row /\ engine[e].confirmed[b] \in Nat
    BY <1>1, ServesMine
    DEF Inv0, StoreInv, StoreTypes, RowTypes, EngineTypes, IsEngine
  <2>2. Evident(row[b], engine[e].confirmed[b]) /\ now < engine[e].confirmed[b]
    BY <1>1 DEF Inv0, StoreInv, EvidenceHolds, Suspected
  <2>3. row[b].exists /\ ~ row[b].fresh /\ ~ Expired(row[b])
    BY <2>1, <2>2 DEF Evident, Row, Expired
  <2>4. Surviving(row[b]) = row[b]
    BY <2>3 DEF Surviving, Prunable
  <2> QED BY <2>1, <2>3, <2>4 DEF EndOverride, Row
<1>2. Init => Inv0
  BY InitTypes
<1>3. Inv0 /\ [Next]_vars => Inv0'
  BY StepKeepsTypes
<1> QED BY <1>1, <1>2, <1>3, PTL DEF Spec

(* A runtime override lasts its fixed lifetime. *)
THEOREM OverridesLastTheirTerm == Spec => OverridesKeepTheirTerm
<1> DEFINE Kept ==
      \A b \in Buckets : OverrideLive(row[b]) /\ row'[b].over # row[b].over =>
         \/ \E e \in Engines : \/ \E value \in Limits : SetMax(e, b, value)
                               \/ ApplyConfigured(e, b, engine'[e].conf[b])
                               \/ ClearOverrides(e)
         \/ losses' # losses
<1>1. ASSUME Inv0, [Next]_vars PROVE Kept
  <2>1. CASE Called
    BY <2>1 DEF Called, Steady, RowsKept, OverridesStay
  <2>2. CASE Steady /\ Untouched
    BY <2>2 DEF Steady, RowsKept, OverridesStay
  <2>3. CASE Operated
    BY <2>3 DEF Operated
  <2>4. CASE Died
    BY <2>4 DEF Died, RowsKept, OverridesStay
  <2>5. CASE Lose
    <3>1. losses \in Nat
      BY <1>1, DeploymentTypes
      DEF Inv0, CallTypes, StoreInv, StoreTypes, ClockTypes
    <3> QED BY <2>5, <3>1 DEF Lose
  <2>6. CASE Clock
    BY <1>1, <2>6, ClockTypesKept
  <2>7. CASE UNCHANGED vars
    BY <2>7 DEF vars, store
  <2> QED BY <1>1, <2>1, <2>2, <2>3, <2>4, <2>5, <2>6, <2>7, NextKind
<1>2. Init => Inv0
  BY InitTypes
<1>3. Inv0 /\ [Next]_vars => Inv0'
  BY StepKeepsTypes
<1>4. Inv0 /\ [Next]_vars => [Kept]_vars
  BY <1>1
<1> QED BY <1>2, <1>3, <1>4, PTL DEF Spec, OverridesKeepTheirTerm

-----------------------------------------------------------------------------
(* Delivery: who may act on a reservation, and what its marker says *)

Owning == {"try", "callbacks", "undo", "record"}
Owns(t, r) == task[t].id = r /\ task[t].pc \in Owning
Charging(t, r) == task[t].id = r /\ task[t].pc \in {"callbacks", "record"}
Answerable(t, r) ==
  task[t].id = r /\ task[t].pc \in {"callbacks", "undo", "record"}

(* The invariant of one id: one call at most acquires it, and until that   *)
(* call returns callers know nothing of it, so no refund of it is asked    *)
(* for; ...                                                                *)
OwnerInv(r) ==
  /\ \A s, t \in Tasks : Owns(s, r) /\ Owns(t, r) => s = t
  /\ \A t \in Tasks : Owns(t, r) => held[r].status = "no"
  /\ \A t \in Tasks : task[t].pc = "refund" /\ task[t].id = r
                        => held[r].status # "no"

(* ... and from the charge to the refund its marker lasts as long as the   *)
(* caller was told, when the store is not lost nor the clock set back.     *)
Lasts(r) == marker[r].exp = held[r].exp \/ held[r].exp <= now

MarkerInv(r) ==
  losses = 0 /\ skewed = 0 =>
    /\ held[r].status = "held" => Lasts(r)
    /\ \A t \in Tasks : Charging(t, r) => Lasts(r)

UnissuedUnused ==
  \A r \in Ids : r > issued => /\ held[r].status = "no"
                               /\ \A t \in Tasks : task[t].id # r

(* A call that is over keeps no id. *)
IdleNameless == \A t \in Tasks : task[t].pc = "idle" => task[t].id = 0

(* A charge whose caller does not know of it is in the hands of a call. *)
Accounted(r) ==
  marker[r].exp # 0 /\ held[r].status = "no" => \E t \in Tasks : Answerable(t, r)

Exclusive(r) == marker[r].exp = 0 \/ tombstone[r] = 0

(* One call changes, ... *)
LEMMA WritesFacts ==
  ASSUME CallTypes, NEW t \in Tasks, NEW rec, Writes(t, rec)
  PROVE  \A s \in Tasks : task'[s] = IF s = t THEN rec ELSE task[s]
BY DEF CallTypes, Writes

(* ... and what is known of one reservation. *)
LEMMA KnowsFacts ==
  ASSUME CallTypes, NEW r \in Ids, NEW k, Knows(r, k)
  PROVE  \A i \in Ids : held'[i] = IF i = r THEN k ELSE held[i]
BY DEF CallTypes, Knows

(* A step that does not concern id r *)
Apart(r) ==
  /\ Fades(r) /\ held'[r] = held[r]
  /\ \A s \in Tasks : task'[s].id = r => task'[s] = task[s]
  /\ \A s \in Tasks : Answerable(s, r) => task'[s] = task[s]

(* Such a step leaves alone the calls on other ids. *)
LEMMA WritesApart ==
  ASSUME CallTypes, NEW t \in Tasks, NEW rec, NEW r \in Ids,
         Writes(t, rec), rec.id # r, ~ Answerable(t, r)
  PROVE  /\ \A s \in Tasks : task'[s].id = r => task'[s] = task[s]
         /\ \A s \in Tasks : Answerable(s, r) => task'[s] = task[s]
BY WritesFacts

(* No reservation has the id of a call that is over. *)
LEMMA IdsArePositive == \A r \in Ids : r \in Nat /\ r # 0 /\ Idle.id # r
BY StoreAssumption, IdleTask DEF Ids

(* Steps of the call on id q are apart from the other ids. *)
LEMMA OtherIds ==
  ASSUME CallTypes, NEW t \in Tasks, NEW q \in Ids, CallKind(t, q),
         NEW r \in Ids \ {q}
  PROVE  Apart(r)
<1>1. MarksFade \/ OthersFade(q) => Fades(r)
  BY DEF MarksFade, OthersFade
<1>2. ASSUME NEW k, Knows(q, k) PROVE held'[r] = held[r]
  BY <1>2, KnowsFacts
<1>3. held' = held => held'[r] = held[r]
  OBVIOUS
<1>4. ASSUME NEW rec, Writes(t, rec), rec.id # r, ~ Answerable(t, r),
             Fades(r), held'[r] = held[r]
      PROVE  Apart(r)
  BY <1>4, WritesApart DEF Apart
<1>5. Idle.id # r
  BY IdsArePositive
<1>6. CASE Begins(t, q)
  BY <1>1, <1>3, <1>4, <1>6 DEF Begins, Answerable
<1>7. CASE Ends(t)
  BY <1>1, <1>3, <1>4, <1>5, <1>7 DEF Ends, Answerable
<1>8. CASE Repeats(t, q)
  BY <1>1, <1>2, <1>4, <1>5, <1>8 DEF Repeats, Answerable
<1>9. CASE Consumes(t, q)
  BY <1>1, <1>2, <1>4, <1>9 DEF Consumes, Charges, Answerable
<1>10. CASE Records(t, q)
  <2>1. PICK rec : Writes(t, rec) /\ rec.pc = "record" /\ rec.id = q
    BY <1>10 DEF Records
  <2>2. PICK k : Knows(q, k) /\ (Charges(q) \/ MarksFade)
    BY <1>10 DEF Records
  <2>3. Fades(r) /\ held'[r] = held[r]
    BY <1>1, <1>2, <2>2 DEF Charges
  <2>4. ~ Answerable(t, r)
    BY <1>10 DEF Records, Answerable
  <2> QED BY <1>4, <2>1, <2>3, <2>4
<1>11. CASE Answers(t, q)
  BY <1>1, <1>2, <1>4, <1>5, <1>11 DEF Answers, Answerable
<1>12. CASE Turns(t, q)
  BY <1>1, <1>3, <1>4, <1>12 DEF Turns, Answerable
<1>13. CASE Undoes(t, q)
  BY <1>1, <1>3, <1>4, <1>5, <1>13 DEF Undoes, Answerable
<1>14. CASE Asks(t, q)
  BY <1>1, <1>3, <1>4, <1>14 DEF Asks, Answerable
<1>15. CASE Refunds(t, q)
  BY <1>1, <1>2, <1>4, <1>5, <1>15 DEF Refunds, Answerable
<1>16. CASE Rejects(t, q)
  BY <1>1, <1>2, <1>3, <1>4, <1>5, <1>16 DEF Rejects, Answerable
<1> QED BY <1>6, <1>7, <1>8, <1>9, <1>10, <1>11, <1>12, <1>13, <1>14, <1>15,
           <1>16 DEF CallKind

(* What is apart from an id keeps its invariant. *)
LEMMA ApartKeeps ==
  ASSUME Inv0, NEW r \in Ids, Apart(r), now' = now, skewed' = skewed,
         losses' = losses
  PROVE  /\ OwnerInv(r) => OwnerInv(r)'
         /\ MarkerInv(r) => MarkerInv(r)'
         /\ Accounted(r) => Accounted(r)'
         /\ Exclusive(r) => Exclusive(r)'
<1>1. NoMarker.exp = 0
  BY MarkerConstants
<1>2. OwnerInv(r) => OwnerInv(r)'
  BY DEF OwnerInv, Apart, Owns
<1>3. MarkerInv(r) => MarkerInv(r)'
  <2>1. Lasts(r) => Lasts(r)'
    BY DEF Lasts, Apart, Fades
  <2> QED BY <2>1 DEF MarkerInv, Apart, Charging
<1>4. Accounted(r) => Accounted(r)'
  BY <1>1 DEF Accounted, Apart, Fades, Answerable
<1>5. Exclusive(r) => Exclusive(r)'
  BY <1>1 DEF Exclusive, Apart, Fades
<1> QED BY <1>2, <1>3, <1>4, <1>5

(* A step that leaves the calls alone concerns no id. *)
LEMMA QuietIsApart ==
  ASSUME Untouched, NEW r \in Ids
  PROVE  Apart(r)
BY DEF Untouched, MarksFade, Apart

(* A crash tells callers of the calls it took with it. *)
LEMMA DiesKeeps ==
  ASSUME Inv0, IdleNameless, NEW mine \in SUBSET Tasks, Dies(mine), NEW r \in Ids,
         now' = now, skewed' = skewed, losses' = losses
  PROVE  /\ OwnerInv(r) => OwnerInv(r)'
         /\ MarkerInv(r) => MarkerInv(r)'
         /\ Accounted(r) => Accounted(r)'
         /\ Exclusive(r) => Exclusive(r)'
<1>1. NoMarker.exp = 0 /\ Idle.id # r
  BY MarkerConstants, IdsArePositive
<1>2. \A s \in Tasks : task'[s] = IF s \in mine THEN Idle ELSE task[s]
  BY DEF Dies
<1>3. held[r] \in Known
  BY DEF Inv0, CallTypes
<1>4. \/ /\ \E t \in mine : task[t].id = r /\ task[t].pc # "try"
         /\ held'[r].status = "crashed" /\ held'[r].exp = held[r].exp
      \/ /\ ~ \E t \in mine : task[t].id = r /\ task[t].pc # "try"
         /\ held'[r] = held[r]
  BY <1>3 DEF Dies, Known
<1>5. Fades(r)
  BY DEF Dies, MarksFade
<1>6. Idle.pc = "idle"
  BY IdleTask
<1>7. OwnerInv(r) => OwnerInv(r)'
  <2> SUFFICES ASSUME OwnerInv(r) PROVE OwnerInv(r)'
    OBVIOUS
  <2>1. \A s \in Tasks : Owns(s, r)' => s \notin mine /\ Owns(s, r)
    BY <1>1, <1>2 DEF Owns
  <2>2. \A s \in Tasks : task'[s].pc = "refund" /\ task'[s].id = r
                           => s \notin mine /\ task'[s] = task[s]
    BY <1>1, <1>2
  <2>3. ASSUME NEW s \in Tasks, Owns(s, r)' PROVE held'[r].status = "no"
    <3>1. s \notin mine /\ Owns(s, r) /\ held[r].status = "no"
      BY <2>1, <2>3 DEF OwnerInv
    <3>2. ASSUME NEW t \in mine, task[t].id = r, task[t].pc # "try" PROVE FALSE
      <4>1. t \in Tasks /\ task[t].pc \in PCs /\ t # s
        BY <3>1 DEF Inv0, CallTypes, Task
      <4>2. task[t].pc # "idle" /\ task[t].pc # "refund"
        BY <3>1, <3>2, <4>1, IdsArePositive DEF IdleNameless, OwnerInv
      <4>3. Owns(t, r)
        BY <3>2, <4>1, <4>2 DEF PCs, Owns, Owning
      <4> QED BY <3>1, <4>1, <4>3 DEF OwnerInv
    <3> QED BY <1>4, <3>1, <3>2
  <2>4. held'[r].status = "no" => held[r].status = "no"
    BY <1>4
  <2> QED BY <2>1, <2>2, <2>3, <2>4 DEF OwnerInv
<1>8. MarkerInv(r) => MarkerInv(r)'
  <2>1. Lasts(r) => Lasts(r)'
    BY <1>4, <1>5 DEF Lasts, Fades
  <2>2. held'[r].status = "held" => held[r].status = "held"
    BY <1>4
  <2>3. \A s \in Tasks : Charging(s, r)' => Charging(s, r)
    BY <1>1, <1>2 DEF Charging
  <2> QED BY <2>1, <2>2, <2>3 DEF MarkerInv
<1>9. Accounted(r) => Accounted(r)'
  <2> SUFFICES ASSUME Accounted(r), marker'[r].exp # 0, held'[r].status = "no"
               PROVE  \E t \in Tasks : Answerable(t, r)'
    BY DEF Accounted
  <2>1. marker[r].exp # 0 /\ held[r].status = "no"
        /\ ~ \E t \in mine : task[t].id = r /\ task[t].pc # "try"
    BY <1>1, <1>4, <1>5 DEF Fades
  <2>2. PICK t \in Tasks : Answerable(t, r)
    BY <2>1 DEF Accounted
  <2>3. t \notin mine
    BY <2>1, <2>2 DEF Answerable
  <2> QED BY <1>2, <2>2, <2>3 DEF Answerable
<1>10. Exclusive(r) => Exclusive(r)'
  BY <1>1, <1>5 DEF Exclusive, Fades
<1> QED BY <1>7, <1>8, <1>9, <1>10

(* Steps on an id that callers use once: *)
LEMMA BeginsKeeps ==
  ASSUME Inv0, NEW t \in Tasks, NEW r \in Ids \ Replays, Begins(t, r),
         UnissuedUnused, OwnerInv(r), MarkerInv(r),
         UNCHANGED <<now, skewed, losses>>
  PROVE  OwnerInv(r)' /\ MarkerInv(r)'
<1>1. r = issued + 1 /\ issued \in Nat
  BY StoreAssumption DEF Begins, TakesId, Inv0, CallTypes
<1>2. held[r].status = "no" /\ \A s \in Tasks : task[s].id # r
  BY <1>1 DEF UnissuedUnused
<1>3. PICK rec : Writes(t, rec) /\ rec.pc = "try" /\ rec.id = r
  BY DEF Begins
<1>4. \A s \in Tasks : task'[s] = IF s = t THEN rec ELSE task[s]
  BY <1>3, WritesFacts DEF Inv0
<1>5. held' = held
  BY DEF Begins
<1>6. OwnerInv(r)'
  BY <1>2, <1>3, <1>4, <1>5 DEF OwnerInv, Owns, Owning
<1>7. MarkerInv(r)'
  BY <1>2, <1>3, <1>4, <1>5 DEF MarkerInv, Charging
<1> QED BY <1>6, <1>7

(* consume_capacity takes a fresh id, charges it and tells nobody yet. *)
LEMMA RecordsKeeps ==
  ASSUME Inv0, NEW t \in Tasks, NEW r \in Ids \ Replays, Records(t, r),
         UnissuedUnused, OwnerInv(r), MarkerInv(r),
         UNCHANGED <<now, skewed, losses>>
  PROVE  OwnerInv(r)' /\ MarkerInv(r)'
<1>1. r = issued + 1 /\ issued \in Nat
  BY StoreAssumption DEF Records, TakesId, Inv0, CallTypes
<1>2. \A s \in Tasks : task[s].id # r
  BY <1>1 DEF UnissuedUnused
<1>3. PICK rec : Writes(t, rec) /\ rec.pc = "record" /\ rec.id = r
  BY DEF Records
<1>4. \A s \in Tasks : task'[s] = IF s = t THEN rec ELSE task[s]
  BY <1>3, WritesFacts DEF Inv0
<1>5. PICK k : /\ Knows(r, k) /\ k.status = "no"
               /\ \/ Charges(r) /\ k.exp = now + Lifetime
                  \/ MarksFade /\ marker'[r] = marker[r] /\ k.exp = marker[r].exp
  BY DEF Records
<1>6. held'[r] = k
  BY <1>5, KnowsFacts DEF Inv0
<1>7. OwnerInv(r)'
  BY <1>2, <1>3, <1>4, <1>5, <1>6 DEF OwnerInv, Owns, Owning
<1>8. Lasts(r)'
  BY <1>5, <1>6 DEF Lasts, Charges
<1> QED BY <1>7, <1>8 DEF MarkerInv

(* A replay delivers what its marker says. *)
LEMMA RepeatsKeeps ==
  ASSUME Inv0, NEW t \in Tasks, NEW r \in Ids \ Replays, Repeats(t, r),
         OwnerInv(r), UNCHANGED <<now, skewed, losses>>
  PROVE  OwnerInv(r)' /\ MarkerInv(r)'
<1>1. Owns(t, r) /\ Writes(t, Idle) /\ marker'[r] = marker[r]
  BY DEF Repeats, Owns, Owning
<1>2. \A s \in Tasks : task'[s] = IF s = t THEN Idle ELSE task[s]
  BY <1>1, WritesFacts DEF Inv0
<1>3. PICK k : Knows(r, k) /\ k.status = "held" /\ k.exp = marker[r].exp
  BY DEF Repeats
<1>4. held'[r] = k
  BY <1>3, KnowsFacts DEF Inv0
<1>5. \A s \in Tasks : ~ Owns(s, r)'
  BY <1>1, <1>2, IdsArePositive DEF OwnerInv, Owns
<1>6. OwnerInv(r)'
  BY <1>3, <1>4, <1>5 DEF OwnerInv
<1>7. Lasts(r)'
  BY <1>1, <1>3, <1>4 DEF Lasts
<1> QED BY <1>6, <1>7 DEF MarkerInv

(* The charge writes the marker and the caller's copy in one step. *)
LEMMA ConsumesKeeps ==
  ASSUME Inv0, NEW t \in Tasks, NEW r \in Ids \ Replays, Consumes(t, r),
         OwnerInv(r), UNCHANGED <<now, skewed, losses>>
  PROVE  OwnerInv(r)' /\ MarkerInv(r)'
<1>1. Owns(t, r) /\ Charges(r)
  BY DEF Consumes, Owns, Owning
<1>2. PICK rec : Writes(t, rec) /\ rec.pc = "callbacks" /\ rec.id = r
  BY DEF Consumes
<1>3. \A s \in Tasks : task'[s] = IF s = t THEN rec ELSE task[s]
  BY <1>2, WritesFacts DEF Inv0
<1>4. PICK k : Knows(r, k) /\ k.status = "no" /\ k.exp = now + Lifetime
  BY DEF Consumes
<1>5. held'[r] = k
  BY <1>4, KnowsFacts DEF Inv0
<1>6. \A s \in Tasks : Owns(s, r)' => s = t
  BY <1>1, <1>3 DEF OwnerInv, Owns
<1>7. \A s \in Tasks : ~ (task'[s].pc = "refund" /\ task'[s].id = r)
  BY <1>1, <1>2, <1>3 DEF OwnerInv
<1>8. OwnerInv(r)'
  BY <1>4, <1>5, <1>6, <1>7 DEF OwnerInv
<1>9. Lasts(r)'
  BY <1>1, <1>4, <1>5 DEF Lasts, Charges
<1> QED BY <1>8, <1>9 DEF MarkerInv

(* The end of the call that owns an id *)
LEMMA OwnerLeaves ==
  ASSUME Inv0, NEW t \in Tasks, NEW r \in Ids \ Replays, Owns(t, r),
         Writes(t, Idle), OwnerInv(r)
  PROVE  /\ \A s \in Tasks : ~ Owns(s, r)'
         /\ \A s \in Tasks : ~ (task'[s].pc = "refund" /\ task'[s].id = r)
<1>1. \A s \in Tasks : task'[s] = IF s = t THEN Idle ELSE task[s]
  BY WritesFacts DEF Inv0
<1> QED BY <1>1, IdsArePositive DEF OwnerInv, Owns

(* The call delivers, or reports a failure, and is gone. *)
LEMMA AnswersKeeps ==
  ASSUME Inv0, NEW t \in Tasks, NEW r \in Ids \ Replays, Answers(t, r),
         OwnerInv(r), MarkerInv(r), UNCHANGED <<now, skewed, losses>>
  PROVE  OwnerInv(r)' /\ MarkerInv(r)'
<1>1. Owns(t, r) /\ Writes(t, Idle) /\ Fades(r)
  BY DEF Answers, Owns, Owning, MarksFade
<1>2. PICK k : /\ Knows(r, k) /\ k.exp = held[r].exp /\ k.status # "no"
               /\ k.status = "held" => task[t].pc \in {"callbacks", "record"}
  BY DEF Answers
<1>3. held'[r] = k
  BY <1>2, KnowsFacts DEF Inv0
<1>4. \A s \in Tasks : ~ Owns(s, r)'
  BY <1>1, OwnerLeaves
<1>5. OwnerInv(r)'
  BY <1>2, <1>3, <1>4 DEF OwnerInv
<1>6. Lasts(r) => Lasts(r)'
  BY <1>1, <1>2, <1>3 DEF Lasts, Fades
<1>7. \A s \in Tasks : ~ Charging(s, r)'
  BY <1>4 DEF Charging, Owns, Owning
<1>8. k.status = "held" => Charging(t, r)
  BY <1>1, <1>2 DEF Charging, Owns
<1>9. MarkerInv(r)'
  BY <1>3, <1>6, <1>7, <1>8 DEF MarkerInv
<1> QED BY <1>5, <1>9

(* A call that ends before its charge had nothing. *)
LEMMA EndsKeeps ==
  ASSUME Inv0, NEW t \in Tasks, Ends(t), NEW r \in Ids,
         OwnerInv(r), MarkerInv(r), UNCHANGED <<now, skewed, losses>>
  PROVE  OwnerInv(r)' /\ MarkerInv(r)'
<1>1. Writes(t, Idle) /\ Fades(r) /\ held' = held /\ task[t].pc = "try"
  BY DEF Ends, MarksFade
<1>2. \A s \in Tasks : task'[s].id = r => task'[s] = task[s]
  BY <1>1, WritesFacts, IdsArePositive DEF Inv0
<1>3. ~ Answerable(t, r)
  BY <1>1 DEF Answerable
<1>4. \A s \in Tasks : Answerable(s, r) => task'[s] = task[s]
  BY <1>1, <1>3, WritesFacts DEF Inv0
<1>5. Apart(r)
  BY <1>1, <1>2, <1>4 DEF Apart
<1> QED BY <1>5, ApartKeeps

(* A cancelled call will deliver no more. *)
LEMMA TurnsKeeps ==
  ASSUME Inv0, NEW t \in Tasks, NEW r \in Ids \ Replays, Turns(t, r),
         OwnerInv(r), MarkerInv(r), UNCHANGED <<now, skewed, losses>>
  PROVE  OwnerInv(r)' /\ MarkerInv(r)'
<1>1. Owns(t, r) /\ held' = held /\ Fades(r)
  BY DEF Turns, Owns, Owning, MarksFade
<1>2. PICK rec : Writes(t, rec) /\ rec.pc = "undo" /\ rec.id = r
  BY DEF Turns
<1>3. \A s \in Tasks : task'[s] = IF s = t THEN rec ELSE task[s]
  BY <1>2, WritesFacts DEF Inv0
<1>4. \A s \in Tasks : Owns(s, r)' => s = t
  BY <1>1, <1>3 DEF OwnerInv, Owns
<1>5. held[r].status = "no"
  BY <1>1 DEF OwnerInv
<1>6. \A s \in Tasks : ~ (task'[s].pc = "refund" /\ task'[s].id = r)
  BY <1>2, <1>3, <1>5 DEF OwnerInv
<1>7. OwnerInv(r)'
  BY <1>1, <1>4, <1>5, <1>6 DEF OwnerInv
<1>8. \A s \in Tasks : ~ Charging(s, r)'
  BY <1>2, <1>3, <1>4 DEF Charging, Owns, Owning
<1> QED BY <1>1, <1>5, <1>7, <1>8 DEF MarkerInv

(* It takes its marker away, and nobody was told. *)
LEMMA UndoesKeeps ==
  ASSUME Inv0, NEW t \in Tasks, NEW r \in Ids \ Replays, Undoes(t, r),
         OwnerInv(r), UNCHANGED <<now, skewed, losses>>
  PROVE  OwnerInv(r)' /\ MarkerInv(r)'
<1>1. Owns(t, r) /\ Writes(t, Idle) /\ held' = held
  BY DEF Undoes, Owns, Owning
<1>2. /\ \A s \in Tasks : ~ Owns(s, r)'
      /\ \A s \in Tasks : ~ (task'[s].pc = "refund" /\ task'[s].id = r)
  BY <1>1, OwnerLeaves
<1>3. held[r].status = "no"
  BY <1>1 DEF OwnerInv
<1>4. \A s \in Tasks : ~ Charging(s, r)'
  BY <1>2 DEF Charging, Owns, Owning
<1> QED BY <1>1, <1>2, <1>3, <1>4 DEF OwnerInv, MarkerInv

(* A refund is asked for once the acquire has returned. *)
LEMMA AsksKeeps ==
  ASSUME Inv0, NEW t \in Tasks, NEW r \in Ids \ Replays, Asks(t, r),
         OwnerInv(r), MarkerInv(r), UNCHANGED <<now, skewed, losses>>
  PROVE  OwnerInv(r)' /\ MarkerInv(r)'
<1>1. /\ held' = held /\ Fades(r)
      /\ held[r].status \in {"held", "unsure", "closed"}
  BY DEF Asks, MarksFade
<1>2. PICK rec : Writes(t, rec) /\ rec.pc = "refund" /\ rec.id = r
  BY DEF Asks
<1>3. \A s \in Tasks : task'[s] = IF s = t THEN rec ELSE task[s]
  BY <1>2, WritesFacts DEF Inv0
<1>4. \A s \in Tasks : ~ Owns(s, r)'
  BY <1>1, <1>2, <1>3 DEF OwnerInv, Owns, Owning
<1>5. OwnerInv(r)'
  BY <1>1, <1>4 DEF OwnerInv
<1>6. \A s \in Tasks : ~ Charging(s, r)'
  BY <1>4 DEF Charging, Owns, Owning
<1>7. Lasts(r) => Lasts(r)'
  BY <1>1 DEF Lasts, Fades
<1> QED BY <1>1, <1>5, <1>6, <1>7 DEF MarkerInv

(* A call that refunds leaves no owner behind. *)
LEMMA RefundLeaves ==
  ASSUME Inv0, NEW t \in Tasks, NEW r \in Ids \ Replays, OwnerInv(r),
         task[t].pc = "refund", task[t].id = r, Writes(t, Idle)
  PROVE  \A s \in Tasks : ~ Owns(s, r)'
<1>1. \A s \in Tasks : task'[s] = IF s = t THEN Idle ELSE task[s]
  BY WritesFacts DEF Inv0
<1> QED BY <1>1, IdsArePositive DEF OwnerInv, Owns

(* The refund takes the marker away, and the caller knows. *)
LEMMA RefundsKeeps ==
  ASSUME Inv0, NEW t \in Tasks, NEW r \in Ids \ Replays, Refunds(t, r),
         OwnerInv(r), UNCHANGED <<now, skewed, losses>>
  PROVE  OwnerInv(r)' /\ MarkerInv(r)'
<1>1. PICK k : Knows(r, k) /\ k.status \in {"closed", "unsure"}
  BY DEF Refunds
<1>2. held'[r] = k
  BY <1>1, KnowsFacts DEF Inv0
<1>3. \A s \in Tasks : ~ Owns(s, r)'
  BY RefundLeaves DEF Refunds
<1>4. \A s \in Tasks : ~ Charging(s, r)'
  BY <1>3 DEF Charging, Owns, Owning
<1> QED BY <1>1, <1>2, <1>3, <1>4 DEF OwnerInv, MarkerInv

(* A refund that was rejected changes at most what its caller knows. *)
LEMMA RejectsKeeps ==
  ASSUME Inv0, NEW t \in Tasks, NEW r \in Ids \ Replays, Rejects(t, r),
         OwnerInv(r), MarkerInv(r), UNCHANGED <<now, skewed, losses>>
  PROVE  OwnerInv(r)' /\ MarkerInv(r)'
<1>1. /\ task[t].pc = "refund" /\ task[t].id = r /\ Fades(r)
  BY DEF Rejects, MarksFade
<1>2. held'[r] = held[r] \/ held'[r].status = "closed"
  BY KnowsFacts DEF Rejects, Inv0
<1>3. \A s \in Tasks : ~ Owns(s, r)'
  BY RefundLeaves DEF Rejects
<1>4. held[r].status # "no"
  BY <1>1 DEF OwnerInv
<1>5. \A s \in Tasks : ~ Charging(s, r)'
  BY <1>3 DEF Charging, Owns, Owning
<1>6. held'[r] = held[r] /\ Lasts(r) => Lasts(r)'
  BY <1>1 DEF Lasts, Fades
<1>7. OwnerInv(r)'
  BY <1>2, <1>3, <1>4 DEF OwnerInv
<1> QED BY <1>2, <1>5, <1>6, <1>7 DEF MarkerInv

(* Every step of a call keeps the invariant of its id. *)
LEMMA OneIdKeeps ==
  ASSUME Inv0, NEW t \in Tasks, NEW r \in Ids \ Replays, CallKind(t, r),
         UnissuedUnused, OwnerInv(r), MarkerInv(r),
         UNCHANGED <<now, skewed, losses>>
  PROVE  OwnerInv(r)' /\ MarkerInv(r)'
<1>1. CASE Begins(t, r) \/ Ends(t) \/ Repeats(t, r) \/ Consumes(t, r)
  BY <1>1, BeginsKeeps, EndsKeeps, RepeatsKeeps, ConsumesKeeps
<1>2. CASE Records(t, r) \/ Answers(t, r) \/ Turns(t, r) \/ Undoes(t, r)
  BY <1>2, RecordsKeeps, AnswersKeeps, TurnsKeeps, UndoesKeeps
<1>3. CASE Asks(t, r) \/ Refunds(t, r) \/ Rejects(t, r)
  BY <1>3, AsksKeeps, RefundsKeeps, RejectsKeeps
<1> QED BY <1>1, <1>2, <1>3 DEF CallKind

(* Handing out an id. *)
LEMMA IssuedGrows ==
  ASSUME Inv0, NEW r \in Ids, TakesId(r)
  PROVE  r <= issued' /\ issued <= issued' /\ issued' \in Nat
BY StoreAssumption DEF TakesId, Greater, Inv0, CallTypes, Ids

(* A call that is under way has an id that was handed out. *)
LEMMA InProgressIssued ==
  ASSUME Inv0, UnissuedUnused, NEW t \in Tasks, task[t].id \in Ids
  PROVE  task[t].id <= issued
BY StoreAssumption DEF UnissuedUnused, Inv0, CallTypes, Ids

(* What ids a step of a call touches *)
LEMMA CallIds ==
  ASSUME Inv0, UnissuedUnused, NEW t \in Tasks, NEW r \in Ids, CallKind(t, r)
  PROVE  /\ issued <= issued' /\ issued' \in Nat
         /\ held' = held \/ r <= issued'
         /\ \E rec : /\ Writes(t, rec)
                     /\ \/ rec = Idle
                        \/ rec.id = r /\ rec.pc # "idle" /\ r <= issued'
<1>1. issued \in Nat
  BY StoreAssumption DEF Inv0, CallTypes
<1>2. task[t].id = r => r <= issued
  BY InProgressIssued
<1>3. CASE Begins(t, r)
  BY <1>3, IssuedGrows DEF Begins
<1>4. CASE Ends(t)
  BY <1>1, <1>4 DEF Ends
<1>5. CASE Repeats(t, r) \/ Consumes(t, r)
  BY <1>1, <1>2, <1>5 DEF Repeats, Consumes
<1>6. CASE Records(t, r)
  BY <1>6, IssuedGrows DEF Records
<1>7. CASE Answers(t, r) \/ Turns(t, r) \/ Undoes(t, r)
  BY <1>1, <1>2, <1>7 DEF Answers, Turns, Undoes
<1>8. CASE Asks(t, r)
  <2>1. r <= issued
    BY <1>1, <1>8, IdsArePositive DEF Asks, UnissuedUnused
  <2> QED BY <1>1, <1>8, <2>1 DEF Asks
<1>9. CASE Refunds(t, r) \/ Rejects(t, r)
  BY <1>1, <1>2, <1>9 DEF Refunds, Rejects
<1> QED BY <1>3, <1>4, <1>5, <1>6, <1>7, <1>8, <1>9 DEF CallKind

(* Calls leave ids that were not handed out alone. *)
LEMMA CallKeepsIds ==
  ASSUME Inv0, UnissuedUnused, IdleNameless,
         NEW t \in Tasks, NEW r \in Ids, CallKind(t, r)
  PROVE  UnissuedUnused' /\ IdleNameless'
<1>1. PICK rec : /\ Writes(t, rec)
                 /\ \/ rec = Idle
                    \/ rec.id = r /\ rec.pc # "idle" /\ r <= issued'
  BY CallIds
<1>2. \A s \in Tasks : task'[s] = IF s = t THEN rec ELSE task[s]
  BY <1>1, WritesFacts DEF Inv0
<1>3. /\ issued <= issued' /\ issued' \in Nat /\ issued \in Nat
      /\ held' = held \/ r <= issued'
  BY CallIds, StoreAssumption DEF Inv0, CallTypes
<1>4. IdleNameless'
  BY <1>1, <1>2, IdleTask DEF IdleNameless
<1>5. ASSUME NEW i \in Ids, i > issued'
      PROVE  held'[i].status = "no" /\ \A s \in Tasks : task'[s].id # i
  <2>1. i \in Nat /\ i > issued /\ i # 0 /\ Idle.id # i
    BY <1>3, <1>5, IdsArePositive
  <2>2. held[i].status = "no" /\ \A s \in Tasks : task[s].id # i
    BY <2>1 DEF UnissuedUnused
  <2>3. r <= issued' => r # i
    BY <1>3, <1>5, <2>1
  <2>4. held'[i] = held[i]
    <3>1. CASE held' = held
      BY <3>1
    <3>2. CASE r <= issued'
      <4>1. held' = held \/ \E k : Knows(r, k)
        BY CallShape
      <4> QED BY <2>3, <3>2, <4>1, KnowsFacts DEF Inv0
    <3> QED BY <1>3, <3>1, <3>2
  <2> QED BY <1>1, <1>2, <2>1, <2>2, <2>3, <2>4
<1>6. UnissuedUnused'
  BY <1>5 DEF UnissuedUnused
<1> QED BY <1>4, <1>6

(* So does a crash. *)
LEMMA DiesKeepsIds ==
  ASSUME Inv0, UnissuedUnused, IdleNameless,
         NEW mine \in SUBSET Tasks, Dies(mine)
  PROVE  UnissuedUnused' /\ IdleNameless'
<1>1. /\ \A s \in Tasks : task'[s] = IF s \in mine THEN Idle ELSE task[s]
      /\ issued' = issued
  BY DEF Dies
<1>2. IdleNameless'
  BY <1>1, IdleTask DEF IdleNameless
<1>3. \A i \in Ids : (\A s \in Tasks : task[s].id # i) => held'[i] = held[i]
  BY DEF Dies
<1>4. UnissuedUnused'
  BY <1>1, <1>3, IdsArePositive DEF UnissuedUnused
<1> QED BY <1>2, <1>4

-----------------------------------------------------------------------------
(* A delivered reservation stays refundable. *)

DeliveryInv ==
  /\ Inv0 /\ UnissuedUnused /\ IdleNameless
  /\ \A r \in Ids \ Replays : OwnerInv(r) /\ MarkerInv(r)

(* The delivery invariant holds before the first call. *)
LEMMA DeliveryInit == Init => DeliveryInv
<1> SUFFICES ASSUME Init PROVE DeliveryInv
  OBVIOUS
<1>1. Inv0
  BY InitTypes
<1>2. /\ \A t \in Tasks : task[t].id = 0 /\ task[t].pc = "idle"
      /\ \A r \in Ids : held[r].status = "no"
  BY IdleTask DEF Init, Unknown
<1>3. UnissuedUnused /\ IdleNameless
  BY <1>2, IdsArePositive DEF UnissuedUnused, IdleNameless
<1>4. ASSUME NEW r \in Ids PROVE OwnerInv(r) /\ MarkerInv(r)
  BY <1>2 DEF OwnerInv, MarkerInv, Owns, Owning, Charging
<1> QED BY <1>1, <1>3, <1>4 DEF DeliveryInv

(* Time that passes and a store that is lost *)
LEMMA WorldKeepsDelivery ==
  ASSUME DeliveryInv, Inv0', UNCHANGED <<task, issued, held>>,
         \/ losses' # 0 \/ skewed' # 0
         \/ /\ UNCHANGED <<losses, skewed, marker>>
            /\ now' = now + 1
  PROVE  DeliveryInv'
<1>1. UnissuedUnused' /\ IdleNameless'
  BY DEF DeliveryInv, UnissuedUnused, IdleNameless
<1>2. ASSUME NEW r \in Ids \ Replays PROVE OwnerInv(r)' /\ MarkerInv(r)'
  <2>1. OwnerInv(r) /\ MarkerInv(r)
    BY DEF DeliveryInv
  <2>2. OwnerInv(r)'
    BY <2>1 DEF OwnerInv, Owns
  <2>3. CASE losses' # 0 \/ skewed' # 0
    BY <2>2, <2>3 DEF MarkerInv
  <2>4. CASE UNCHANGED <<losses, skewed, marker>> /\ now' = now + 1
    <3>1. now \in Nat /\ held[r].exp \in Nat
      BY DeploymentTypes
      DEF DeliveryInv, Inv0, StoreInv, StoreTypes, ClockTypes, CallTypes, Known
    <3>2. Lasts(r) => Lasts(r)'
      BY <2>4, <3>1 DEF Lasts
    <3> QED BY <2>1, <2>2, <2>4, <3>2 DEF MarkerInv, Charging
  <2> QED BY <2>3, <2>4
<1> QED BY <1>1, <1>2 DEF DeliveryInv

(* Every step keeps it. *)
LEMMA DeliveryStep ==
  ASSUME DeliveryInv, [Next]_vars
  PROVE  DeliveryInv'
<1>0. Inv0 /\ Inv0'
  BY StepKeepsTypes DEF DeliveryInv
<1>1. ASSUME Untouched, UNCHANGED <<now, skewed, losses>> PROVE DeliveryInv'
  <2>1. UnissuedUnused' /\ IdleNameless'
    BY <1>1 DEF DeliveryInv, UnissuedUnused, IdleNameless, Untouched
  <2>2. ASSUME NEW r \in Ids \ Replays PROVE OwnerInv(r)' /\ MarkerInv(r)'
    <3>1. Apart(r)
      BY <1>1, QuietIsApart
    <3> QED BY <1>0, <1>1, <3>1, ApartKeeps DEF DeliveryInv
  <2> QED BY <1>0, <2>1, <2>2 DEF DeliveryInv
<1>2. CASE Called
  <2>1. PICK t \in Tasks, q \in Ids : CallKind(t, q)
    BY <1>2 DEF Called
  <2>2. UNCHANGED <<now, skewed, losses>>
    BY <1>2 DEF Called, Steady
  <2>3. UnissuedUnused' /\ IdleNameless'
    BY <1>0, <2>1, CallKeepsIds DEF DeliveryInv
  <2>4. ASSUME NEW r \in Ids \ Replays PROVE OwnerInv(r)' /\ MarkerInv(r)'
    <3>1. UnissuedUnused /\ OwnerInv(r) /\ MarkerInv(r)
      BY DEF DeliveryInv
    <3>2. CASE r = q
      BY <1>0, <2>1, <2>2, <3>1, <3>2, OneIdKeeps
    <3>3. CASE r # q
      <4>1. Apart(r)
        BY <1>0, <2>1, <3>3, OtherIds DEF Inv0
      <4> QED BY <1>0, <2>2, <3>1, <4>1, ApartKeeps
    <3> QED BY <3>2, <3>3
  <2> QED BY <1>0, <2>3, <2>4 DEF DeliveryInv
<1>3. CASE Steady /\ Untouched
  BY <1>1, <1>3 DEF Steady
<1>4. CASE Operated
  BY <1>1, <1>4 DEF Operated
<1>5. CASE Died
  <2>1. PICK mine \in SUBSET Tasks : Dies(mine)
    BY <1>5 DEF Died
  <2>2. UNCHANGED <<now, skewed, losses>>
    BY <1>5 DEF Died
  <2>3. UnissuedUnused' /\ IdleNameless'
    BY <1>0, <2>1, DiesKeepsIds DEF DeliveryInv
  <2>4. ASSUME NEW r \in Ids \ Replays PROVE OwnerInv(r)' /\ MarkerInv(r)'
    BY <1>0, <2>1, <2>2, DiesKeeps DEF DeliveryInv
  <2> QED BY <1>0, <2>3, <2>4 DEF DeliveryInv
<1>6. CASE Lose
  <2>1. losses' # 0 /\ UNCHANGED <<task, issued, held>>
    BY <1>0, <1>6, LoseTypes DEF Lose
  <2> QED BY <1>0, <2>1, WorldKeepsDelivery
<1>7. CASE Clock
  <2>1. /\ UNCHANGED <<task, issued, held, losses, marker>>
        /\ \/ now' = now + 1 /\ skewed' = skewed
           \/ skewed' # 0
    BY <1>0, <1>7, ClockTypesKept DEF calls
  <2> QED BY <1>0, <2>1, WorldKeepsDelivery
<1>8. CASE UNCHANGED vars
  BY <1>1, <1>8 DEF vars, store, clock, calls, Untouched, MarksFade, Fades
<1> QED BY <1>0, <1>2, <1>3, <1>4, <1>5, <1>6, <1>7, <1>8, NextKind

(* A reservation in a caller's hands can be refunded in any process for    *)
(* its whole lifetime.                                                     *)
THEOREM DeliveredStaysLive == Spec => []DeliveredIsLive
<1>1. DeliveryInv => DeliveredIsLive
  <2> SUFFICES ASSUME DeliveryInv, losses = 0, skewed = 0, NEW r \in Ids \ Replays,
                      held[r].status = "held", now < held[r].exp
               PROVE  LiveMarker(r)
    BY DEF DeliveredIsLive
  <2>1. Lasts(r)
    BY DEF DeliveryInv, MarkerInv
  <2>2. now \in Nat /\ held[r].exp \in Nat
    BY DeploymentTypes
    DEF DeliveryInv, Inv0, StoreInv, StoreTypes, ClockTypes, CallTypes, Known
  <2> QED BY <2>1, <2>2 DEF Lasts, LiveMarker
<1>2. DeliveryInv /\ [Next]_vars => DeliveryInv'
  BY DeliveryStep
<1> QED BY <1>1, <1>2, DeliveryInit, PTL DEF Spec

-----------------------------------------------------------------------------
(* No charge is orphaned, and an id is charged or settled but never both. *)

BookInv ==
  /\ Inv0 /\ IdleNameless /\ UnissuedUnused
  /\ \A r \in Ids : Accounted(r) /\ Exclusive(r)

(* Every step of a call keeps the charge of its id accounted for. *)
LEMMA OneIdAccounted ==
  ASSUME Inv0, NEW t \in Tasks, NEW r \in Ids, CallKind(t, r), Accounted(r)
  PROVE  Accounted(r)'
<1>1. NoMarker.exp = 0
  BY MarkerConstants
<1>2. MarksFade /\ marker'[r].exp # 0 => marker[r].exp # 0
  BY <1>1 DEF MarksFade, Fades
<1>3. ASSUME NEW rec, Writes(t, rec), ~ Answerable(t, r), held' = held, MarksFade
      PROVE  Accounted(r)'
  <2>1. \A s \in Tasks : task'[s] = IF s = t THEN rec ELSE task[s]
    BY <1>3, WritesFacts DEF Inv0
  <2> QED BY <1>2, <1>3, <2>1 DEF Accounted, Answerable
<1>4. ASSUME NEW rec, Writes(t, rec), rec.id = r,
             rec.pc \in {"callbacks", "undo", "record"}
      PROVE  Accounted(r)'
  <2>1. task'[t] = rec
    BY <1>4, WritesFacts DEF Inv0
  <2> QED BY <1>4, <2>1 DEF Accounted, Answerable
<1>5. ASSUME NEW k, Knows(r, k), k.status # "no" PROVE Accounted(r)'
  <2>1. held'[r] = k
    BY <1>5, KnowsFacts DEF Inv0
  <2> QED BY <1>5, <2>1 DEF Accounted
<1>6. CASE Begins(t, r)
  BY <1>3, <1>6 DEF Begins, Answerable
<1>7. CASE Ends(t)
  BY <1>3, <1>7 DEF Ends, Answerable
<1>8. CASE Repeats(t, r)
  BY <1>5, <1>8 DEF Repeats
<1>9. CASE Consumes(t, r)
  BY <1>4, <1>9 DEF Consumes
<1>10. CASE Records(t, r)
  BY <1>4, <1>10 DEF Records
<1>11. CASE Answers(t, r)
  BY <1>5, <1>11 DEF Answers
<1>12. CASE Turns(t, r)
  BY <1>4, <1>12 DEF Turns
<1>13. CASE Undoes(t, r)
  BY <1>1, <1>13 DEF Undoes, Accounted
<1>14. CASE Asks(t, r)
  BY <1>3, <1>14 DEF Asks, Answerable
<1>15. CASE Refunds(t, r)
  BY <1>1, <1>15 DEF Refunds, Accounted
<1>16. CASE Rejects(t, r)
  BY <1>3, <1>5, <1>16 DEF Rejects, Answerable
<1> QED BY <1>6, <1>7, <1>8, <1>9, <1>10, <1>11, <1>12, <1>13, <1>14, <1>15,
           <1>16 DEF CallKind

(* How the marks of an id move: they fade, or the id is charged, undone or *)
(* refunded.                                                               *)
Undone(r) ==
  /\ OthersFade(r) /\ marker[r].exp # 0 /\ marker'[r] = NoMarker
  /\ \/ tombstone'[r] = tombstone[r]
     \/ tombstone'[r] = 0 /\ tombstone[r] <= now
Refunded(r) ==
  /\ LiveMarker(r) /\ OthersFade(r)
  /\ marker'[r] = NoMarker /\ tombstone'[r] = now + DedupTTL

(* Every step of a call moves the marks of its id in one of these ways. *)
LEMMA MarksMove ==
  ASSUME NEW t \in Tasks, NEW r \in Ids, CallKind(t, r)
  PROVE  MarksFade \/ Charges(r) \/ Undone(r) \/ Refunded(r)
<1>1. CASE Begins(t, r) \/ Ends(t) \/ Repeats(t, r) \/ Consumes(t, r)
  BY <1>1 DEF Begins, Ends, Repeats, Consumes
<1>2. CASE Records(t, r) \/ Answers(t, r) \/ Turns(t, r) \/ Undoes(t, r)
  BY <1>2 DEF Records, Answers, Turns, Undoes, Undone
<1>3. CASE Asks(t, r) \/ Refunds(t, r) \/ Rejects(t, r)
  BY <1>3 DEF Asks, Refunds, Rejects, Refunded
<1> QED BY <1>1, <1>2, <1>3 DEF CallKind

(* None leaves an id with a marker and a tombstone. *)
LEMMA OneIdExclusive ==
  ASSUME NEW t \in Tasks, NEW r \in Ids, CallKind(t, r), Exclusive(r)
  PROVE  Exclusive(r)'
<1>1. NoMarker.exp = 0
  BY MarkerConstants
<1>2. CASE MarksFade
  BY <1>1, <1>2 DEF MarksFade, Fades, Exclusive
<1>3. CASE Charges(r) \/ Undone(r) \/ Refunded(r)
  BY <1>1, <1>3 DEF Charges, Undone, Refunded, Exclusive
<1> QED BY <1>2, <1>3, MarksMove

(* An empty store has no marks. *)
LEMMA BookInit == Init => BookInv
<1>1. Init => \A r \in Ids : marker[r] = NoMarker
  BY DEF Init, StoreInit
<1>2. Init => \A r \in Ids : Accounted(r) /\ Exclusive(r)
  BY <1>1, MarkerConstants DEF Accounted, Exclusive
<1> QED BY <1>2, DeliveryInit DEF BookInv, DeliveryInv

(* Every step keeps the invariant of the marks. *)
LEMMA BookStep ==
  ASSUME BookInv, [Next]_vars
  PROVE  BookInv'
<1>0. Inv0 /\ Inv0'
  BY StepKeepsTypes DEF BookInv
<1>1. ASSUME Untouched, UNCHANGED <<now, skewed, losses>> PROVE BookInv'
  <2>1. UnissuedUnused' /\ IdleNameless'
    BY <1>1 DEF BookInv, UnissuedUnused, IdleNameless, Untouched
  <2>2. ASSUME NEW r \in Ids PROVE Accounted(r)' /\ Exclusive(r)'
    <3>1. Apart(r)
      BY <1>1, QuietIsApart
    <3> QED BY <1>0, <1>1, <3>1, ApartKeeps DEF BookInv
  <2> QED BY <1>0, <2>1, <2>2 DEF BookInv
<1>2. CASE Called
  <2>1. PICK t \in Tasks, q \in Ids : CallKind(t, q)
    BY <1>2 DEF Called
  <2>2. UNCHANGED <<now, skewed, losses>>
    BY <1>2 DEF Called, Steady
  <2>3. UnissuedUnused' /\ IdleNameless'
    BY <1>0, <2>1, CallKeepsIds DEF BookInv
  <2>4. ASSUME NEW r \in Ids PROVE Accounted(r)' /\ Exclusive(r)'
    <3>1. Accounted(r) /\ Exclusive(r)
      BY DEF BookInv
    <3>2. CASE r = q
      BY <1>0, <2>1, <3>1, <3>2, OneIdAccounted, OneIdExclusive
    <3>3. CASE r # q
      <4>1. Apart(r)
        BY <1>0, <2>1, <3>3, OtherIds DEF Inv0
      <4> QED BY <1>0, <2>2, <3>1, <4>1, ApartKeeps
    <3> QED BY <3>2, <3>3
  <2> QED BY <1>0, <2>3, <2>4 DEF BookInv
<1>3. CASE Steady /\ Untouched
  BY <1>1, <1>3 DEF Steady
<1>4. CASE Operated
  BY <1>1, <1>4 DEF Operated
<1>5. CASE Died
  <2>1. PICK mine \in SUBSET Tasks : Dies(mine)
    BY <1>5 DEF Died
  <2>2. UNCHANGED <<now, skewed, losses>>
    BY <1>5 DEF Died
  <2>3. UnissuedUnused' /\ IdleNameless'
    BY <1>0, <2>1, DiesKeepsIds DEF BookInv
  <2>4. ASSUME NEW r \in Ids PROVE Accounted(r)' /\ Exclusive(r)'
    BY <1>0, <2>1, <2>2, DiesKeeps DEF BookInv
  <2> QED BY <1>0, <2>3, <2>4 DEF BookInv
<1>6. CASE Lose
  <2>1. /\ \A r \in Ids : marker'[r] = NoMarker
        /\ UNCHANGED <<task, issued, held>>
    BY <1>6 DEF Lose, LoseStore
  <2>2. \A r \in Ids : Accounted(r)' /\ Exclusive(r)'
    BY <2>1, MarkerConstants DEF Accounted, Exclusive
  <2>3. UnissuedUnused' /\ IdleNameless'
    BY <2>1 DEF BookInv, UnissuedUnused, IdleNameless
  <2> QED BY <1>0, <2>2, <2>3 DEF BookInv
<1>7. CASE Clock
  <2>1. UNCHANGED <<task, issued, held, marker, tombstone>>
    BY <1>0, <1>7, ClockTypesKept DEF calls
  <2>2. UnissuedUnused' /\ IdleNameless'
    BY <2>1 DEF BookInv, UnissuedUnused, IdleNameless
  <2>3. \A r \in Ids : Accounted(r)' /\ Exclusive(r)'
    BY <2>1 DEF BookInv, Accounted, Exclusive, Answerable
  <2> QED BY <1>0, <2>2, <2>3 DEF BookInv
<1>8. CASE UNCHANGED vars
  BY <1>1, <1>8 DEF vars, store, clock, calls, Untouched, MarksFade, Fades
<1> QED BY <1>0, <1>2, <1>3, <1>4, <1>5, <1>6, <1>7, <1>8, NextKind

(* No charge is orphaned by a process that lives and whose backend is not  *)
(* closed under its calls.                                                 *)
THEOREM NoChargeOrphaned == Spec => []NoOrphanCharge
<1>1. BookInv => NoOrphanCharge
  BY DEF BookInv, Accounted, Answerable, NoOrphanCharge
<1>2. BookInv /\ [Next]_vars => BookInv'
  BY BookStep
<1> QED BY <1>1, <1>2, BookInit, PTL DEF Spec

-----------------------------------------------------------------------------
(* The tables implement the abstract ledger. *)

(* The ledger the two tables stand for *)
Book == [r \in Ids |-> LedgerStatus(r)]

(* The entry of an id before and after a step. *)
LEMMA BookEntry ==
  ASSUME NEW r \in Ids
  PROVE  /\ Book[r] = IF marker[r].exp > now THEN "live"
                      ELSE IF tombstone[r] > now THEN "settled" ELSE "absent"
         /\ Book'[r] = IF marker'[r].exp > now' THEN "live"
                       ELSE IF tombstone'[r] > now' THEN "settled" ELSE "absent"
BY DEF Book, LedgerStatus, LiveMarker, Tombstoned

(* Pruning shows in no entry. *)
LEMMA FadedEntry ==
  ASSUME Inv0, NEW r \in Ids, Fades(r), now' = now
  PROVE  Book'[r] = Book[r]
<1>1. now \in Nat /\ NoMarker.exp = 0
  BY MarkerConstants, DeploymentTypes DEF Inv0, StoreInv, StoreTypes, ClockTypes
<1>2. marker[r].exp \in Nat /\ tombstone[r] \in Nat
  BY DEF Inv0, StoreInv, StoreTypes, MarkTypes, Marker
<1> QED BY <1>1, <1>2, BookEntry DEF Fades

(* Pruning of the whole book. *)
LEMMA FadedBook ==
  ASSUME Inv0, MarksFade, now' = now
  PROVE  Book' = Book
<1>1. \A r \in Ids : Book'[r] = Book[r]
  BY FadedEntry DEF MarksFade
<1> QED BY <1>1 DEF Book

(* A step on the marks of id r: the other entries stay. *)
LEMMA MovedBook ==
  ASSUME Inv0, NEW r \in Ids, OthersFade(r), now' = now, NEW entry, Book'[r] = entry
  PROVE  /\ \A i \in Ids : Book'[i] = IF i = r THEN entry ELSE Book[i]
         /\ Book' = [Book EXCEPT ![r] = entry]
<1>1. \A i \in Ids : Book'[i] = IF i = r THEN entry ELSE Book[i]
  BY FadedEntry DEF OthersFade
<1>2. Book' = [Book EXCEPT ![r] = entry]
  BY <1>1 DEF Book
<1> QED BY <1>1, <1>2

(* A step of a call is one step of the ledger or none. *)
LEMMA CallMovesBook ==
  ASSUME BookInv, NEW t \in Tasks, NEW r \in Ids, CallKind(t, r), now' = now
  PROVE  Ledger!Next \/ Book' = Book
<1>1. Inv0 /\ Exclusive(r)
  BY DEF BookInv
<1>2. /\ now \in Nat /\ now >= 1 /\ NoMarker.exp = 0
      /\ marker[r].exp \in Nat /\ tombstone[r] \in Nat
  BY <1>1, MarkerConstants, DeploymentTypes
  DEF Inv0, StoreInv, StoreTypes, ClockTypes, MarkTypes, Marker
<1>3. CASE MarksFade
  BY <1>1, <1>3, FadedBook
<1>4. CASE Charges(r)
  <2>1. Book[r] = "absent"
    BY <1>4, BookEntry DEF Charges, LiveMarker, Tombstoned
  <2>2. Lifetime \in Nat \ {0}
    BY MarkerConstants
  <2>3. Book'[r] = "live"
    BY <1>2, <1>4, <2>2, BookEntry DEF Charges
  <2>4. Book' = [Book EXCEPT ![r] = "live"]
    BY <1>1, <1>4, <2>3, MovedBook DEF Charges
  <2>5. Ledger!Issue(r)
    BY <2>1, <2>4 DEF Ledger!Issue, Book
  <2> QED BY <2>5 DEF Ledger!Next
<1>5. CASE Undone(r)
  <2>1. tombstone[r] = 0 /\ tombstone'[r] = 0
    BY <1>1, <1>5 DEF Undone, Exclusive
  <2>2. Book'[r] = "absent"
    BY <1>2, <1>5, <2>1, BookEntry DEF Undone
  <2>3. Book' = [Book EXCEPT ![r] = "absent"]
    BY <1>1, <1>5, <2>2, MovedBook DEF Undone
  <2>4. CASE marker[r].exp > now
    <3>1. Ledger!Undo(r)
      BY <2>3, <2>4, BookEntry DEF Ledger!Undo, Book
    <3> QED BY <3>1 DEF Ledger!Next
  <2>5. CASE ~ (marker[r].exp > now)
    <3>1. Book[r] = "absent"
      BY <1>2, <2>1, <2>5, BookEntry
    <3> QED BY <2>3, <3>1 DEF Book
  <2> QED BY <2>4, <2>5
<1>6. CASE Refunded(r)
  <2>1. Book[r] = "live"
    BY <1>6, BookEntry DEF Refunded, LiveMarker
  <2>2. now + DedupTTL > now
    BY <1>2, StoreAssumption
  <2>3. Book'[r] = "settled"
    BY <1>2, <1>6, <2>2, BookEntry DEF Refunded
  <2>4. \A i \in Ids : Book'[i] = IF i = r THEN "settled" ELSE Book[i]
    BY <1>1, <1>6, <2>3, MovedBook DEF Refunded
  <2>5. Book' = [i \in Ids |-> IF i \in {} THEN "absent"
                               ELSE IF i = r THEN "settled" ELSE Book[i]]
    BY <2>4 DEF Book
  <2>6. Ledger!Settle(r, {})
    BY <2>1, <2>5 DEF Ledger!Settle, Book
  <2> QED BY <2>6 DEF Ledger!Next
<1> QED BY <1>3, <1>4, <1>5, <1>6, MarksMove

(* Ids whose entry is gone *)
LEMMA ForgottenBook ==
  ASSUME \A r \in Ids : Book'[r] = Book[r] \/ Book'[r] = "absent"
  PROVE  Ledger!Next
<1> DEFINE old == {r \in Ids : Book[r] # "absent" /\ Book'[r] = "absent"}
<1>1. old \in SUBSET Ids /\ \A r \in old : Book[r] # "absent"
  OBVIOUS
<1>2. \A r \in Ids : Book'[r] = IF r \in old THEN "absent" ELSE Book[r]
  OBVIOUS
<1> HIDE DEF old
<1>3. Book' = [r \in Ids |-> IF r \in old THEN "absent" ELSE Book[r]]
  BY <1>2 DEF Book
<1>4. Ledger!Forget(old)
  BY <1>1, <1>3 DEF Ledger!Forget, Book
<1> QED BY <1>1, <1>4 DEF Ledger!Next

(* Every step that does not set the clock back is one step of the ledger or *)
(* none.                                                                    *)
LEMMA LedgerStep ==
  ASSUME BookInv, [Next]_vars, skewed' = 0
  PROVE  Ledger!Next \/ Book' = Book
<1>0. Inv0
  BY DEF BookInv
<1>1. ASSUME Untouched, now' = now PROVE Book' = Book
  BY <1>0, <1>1, FadedBook DEF Untouched
<1>2. CASE Called
  BY <1>2, CallMovesBook DEF Called, Steady
<1>3. CASE Steady /\ Untouched
  BY <1>1, <1>3 DEF Steady
<1>4. CASE Operated
  BY <1>1, <1>4 DEF Operated
<1>5. CASE Died
  BY <1>0, <1>5, FadedBook DEF Died, Dies
<1>6. CASE Lose
  <2>1. /\ \A r \in Ids : marker'[r] = NoMarker /\ tombstone'[r] = 0
        /\ now' = now /\ now \in Nat
    BY <1>0, <1>6, DeploymentTypes
    DEF Lose, LoseStore, clock, Inv0, StoreInv, StoreTypes, ClockTypes
  <2>2. \A r \in Ids : Book'[r] = "absent"
    BY <2>1, MarkerConstants, BookEntry
  <2> QED BY <2>2, ForgottenBook
<1>7. CASE Clock
  <2>1. UNCHANGED <<marker, tombstone>> /\ now' = now + 1
    BY <1>0, <1>7, ClockTypesKept
  <2>2. now \in Nat
    BY <1>0, DeploymentTypes DEF Inv0, StoreInv, StoreTypes, ClockTypes
  <2>3. ASSUME NEW r \in Ids PROVE Book'[r] = Book[r] \/ Book'[r] = "absent"
    <3>1. marker[r].exp \in Nat /\ tombstone[r] \in Nat
          /\ (marker[r].exp = 0 \/ tombstone[r] = 0)
      BY DEF BookInv, Exclusive, Inv0, StoreInv, StoreTypes, MarkTypes, Marker
    <3> QED BY <2>1, <2>2, <3>1, BookEntry
  <2> QED BY <2>3, ForgottenBook
<1>8. CASE UNCHANGED vars
  BY <1>8 DEF vars, store, clock, Book, LedgerStatus, LiveMarker, Tombstoned
<1> QED BY <1>0, <1>2, <1>3, <1>4, <1>5, <1>6, <1>7, <1>8, NextKind

(* Markers and tombstones of all processes together take only the steps of *)
(* the abstract ledger, as long as the clock is not set back: then an      *)
(* expired row that was not pruned yet is valid again.                     *)
THEOREM SqliteImplementsLedger == Spec /\ [](skewed = 0) => ImplementsLedger
<1>1. Init => Ledger!Init
  <2> SUFFICES ASSUME Init PROVE Ledger!Init
    OBVIOUS
  <2>1. /\ now = 1
        /\ \A r \in Ids : marker[r] = NoMarker /\ tombstone[r] = 0
    BY DEF Init, StoreInit
  <2>2. \A r \in Ids : LedgerStatus(r) = "absent"
    BY <2>1, MarkerConstants DEF LedgerStatus, LiveMarker, Tombstoned
  <2> QED BY <2>2 DEF Ledger!Init
<1>2. BookInv /\ [Next]_vars => BookInv'
  BY BookStep
<1>3. BookInv /\ [Next]_vars /\ (skewed = 0)'
        => [Ledger!Next]_([r \in Ids |-> LedgerStatus(r)])
  BY LedgerStep DEF Book
<1> QED BY <1>1, <1>2, <1>3, BookInit, PTL
        DEF Spec, ImplementsLedger, Ledger!Spec

-----------------------------------------------------------------------------
(* Debt and the life of a row *)

(* The slower of the rates at which a row refills under the limit k *)
Slow(rw, k) ==
  IF rw.over.max # 0 /\ rw.over.anchor = k THEN Lesser(rw.over.max, k) ELSE k

(* At that rate the state is a window above zero when the row expires, and *)
(* its override was not over when the state was written.                   *)
Pays(rw, b, k) ==
  ~ rw.fresh =>
    /\ rw.over.max # 0 => rw.last < rw.over.until
    /\ rw.last + PerSeconds[b] <= rw.exp
    /\ 0 <= rw.cap + (rw.exp - rw.last - PerSeconds[b]) * Slow(rw, k)

(* A product grows with its factors. *)
LEMMA ProductGrows ==
  ASSUME NEW x \in Nat, NEW y \in Nat, NEW s \in Nat, NEW r \in Nat,
         x <= y, s <= r
  PROVE  x * s \in Nat /\ y * r \in Nat /\ x * s <= y * r
<1>1. PICK d \in Nat : y = x + d
  <2>1. y - x \in Nat /\ y = x + (y - x)
    OBVIOUS
  <2> QED BY <2>1
<1>2. PICK e \in Nat : r = s + e
  <2>1. r - s \in Nat /\ r = s + (r - s)
    OBVIOUS
  <2> QED BY <2>1
<1>3. y * r = x * s + x * e + d * s + d * e
  BY <1>1, <1>2
<1>4. \A a, b \in Nat : a * b \in Nat
  OBVIOUS
<1>5. x * s \in Nat /\ x * e \in Nat /\ d * s \in Nat /\ d * e \in Nat
  BY <1>4
<1> QED BY <1>3, <1>5

(* A quotient rounded up makes up for what it divides. *)
LEMMA CeilDivCovers ==
  ASSUME NEW a \in Nat, NEW n \in Nat \ {0}
  PROVE  CeilDiv(a, n) \in Nat /\ a <= CeilDiv(a, n) * n
<1> DEFINE x == a + n - 1  q == x \div n
<1>1. CeilDiv(a, n) = q /\ CeilDiv(a, n) \in Nat /\ x \in Nat
  BY CeilDivType DEF CeilDiv
<1> HIDE DEF x
<1>2. q \in Nat /\ x < n * q + n
  <2>1. n > 0 /\ n \in Nat
    OBVIOUS
  <2> QED BY <1>1, <2>1, SMTT(30)
<1> HIDE DEF q
<1>3. n * q = q * n /\ q * n \in Nat
  BY <1>2
<1> QED BY <1>1, <1>2, <1>3 DEF x

(* Two windows fit into the life of a row. *)
LEMMA Windows ==
  ASSUME NEW b \in Buckets
  PROVE  /\ PerSeconds[b] \in Nat \ {0} /\ BucketTTL \in Nat
         /\ BucketTTL - PerSeconds[b] \in Nat
<1>1. /\ PerSeconds[b] \in Nat \ {0} /\ BucketTTL \in Nat
      /\ BucketTTL >= 2 * PerSeconds[b]
  BY StoreAssumption
<1> QED BY <1>1

(* debt_ttl_seconds lasts until the debt is paid at the slower limit and a *)
(* window is filled.                                                       *)
LEMMA DebtPaid ==
  ASSUME NEW b \in Buckets, NEW amount \in Int, NEW max \in Nat \ {0},
         NEW configured \in Nat \ {0}
  PROVE  LET ttl == debt_ttl_seconds(b, amount, max, configured)
             rest == ttl - PerSeconds[b] IN
         /\ ttl \in Nat /\ ttl >= BucketTTL /\ rest \in Nat
         /\ Lesser(max, configured) \in Nat \ {0}
         /\ 0 <= amount + rest * Lesser(max, configured)
<1> DEFINE ttl == debt_ttl_seconds(b, amount, max, configured)
           rest == ttl - PerSeconds[b]
           low == Lesser(max, configured)
<1>1. /\ PerSeconds[b] \in Nat \ {0} /\ BucketTTL \in Nat
      /\ BucketTTL - PerSeconds[b] \in Nat
  BY Windows
<1>2. ttl \in Nat /\ ttl >= BucketTTL
  BY DebtTTLType
<1>3. low \in Nat \ {0}
  BY DEF Lesser
<1>4. amount < 0 => LET paid == CeilDiv(- amount, low) IN
                    paid \in Nat /\ - amount <= paid * low
                    /\ ttl >= PerSeconds[b] + paid
  <2> SUFFICES ASSUME amount < 0
               PROVE  LET paid == CeilDiv(- amount, low) IN
                      paid \in Nat /\ - amount <= paid * low
                      /\ ttl >= PerSeconds[b] + paid
    OBVIOUS
  <2> DEFINE paid == CeilDiv(- amount, low)
  <2>1. - amount \in Nat
    OBVIOUS
  <2>2. paid \in Nat /\ - amount <= paid * low
    BY <1>3, <2>1, CeilDivCovers
  <2>3. ttl = Greater(BucketTTL, PerSeconds[b] + paid)
    BY DEF debt_ttl_seconds
  <2> HIDE DEF paid, ttl, low
  <2>4. ttl >= PerSeconds[b] + paid
    BY <1>1, <2>2, <2>3 DEF Greater
  <2> QED BY <2>2, <2>4 DEF paid
<1> HIDE DEF ttl, low
<1>5. rest \in Nat
  BY <1>1, <1>2
<1>6. 0 <= amount + rest * low
  <2>1. CASE amount >= 0
    <3>1. \A x, y \in Nat : x * y \in Nat
      OBVIOUS
    <3>2. rest * low \in Nat
      BY <1>3, <1>5, <3>1
    <3> HIDE DEF rest
    <3> QED BY <2>1, <3>2
  <2>2. CASE amount < 0
    <3> DEFINE paid == CeilDiv(- amount, low)
    <3>1. paid \in Nat /\ - amount <= paid * low /\ ttl >= PerSeconds[b] + paid
      BY <1>4, <2>2
    <3> HIDE DEF paid
    <3>2. paid <= rest
      BY <1>1, <1>2, <3>1
    <3> HIDE DEF rest
    <3>3. paid * low \in Nat /\ rest * low \in Nat /\ paid * low <= rest * low
      BY <1>3, <1>5, <3>1, <3>2, ProductGrows
    <3> QED BY <3>1, <3>3
  <2> QED BY <2>1, <2>2
<1> QED BY <1>2, <1>3, <1>5, <1>6 DEF ttl, low

(* What pays goes on paying when the row lives longer. *)
LEMMA PaysLonger ==
  ASSUME NEW b \in Buckets, NEW k \in Nat \ {0}, NEW rw \in Row, Pays(rw, b, k),
         NEW new \in Row, new.fresh = rw.fresh, new.cap = rw.cap,
         new.last = rw.last, new.over = rw.over, rw.exp <= new.exp
  PROVE  Pays(new, b, k)
<1> SUFFICES ASSUME ~ rw.fresh PROVE Pays(new, b, k)
  BY DEF Pays
<1> DEFINE x == rw.exp - rw.last - PerSeconds[b]
           y == new.exp - rw.last - PerSeconds[b]
           s == Slow(rw, k)
<1>1. /\ PerSeconds[b] \in Nat /\ rw.exp \in Nat /\ rw.last \in Nat
      /\ rw.cap \in Int /\ new.exp \in Nat /\ rw.over \in Override
  BY Windows DEF Row
<1>2. s \in Nat /\ Slow(new, k) = s
  BY <1>1 DEF Slow, Lesser, Override
<1>3. /\ rw.over.max # 0 => rw.last < rw.over.until
      /\ rw.last + PerSeconds[b] <= rw.exp
      /\ 0 <= rw.cap + x * s
  BY DEF Pays
<1>4. x \in Nat /\ y \in Nat /\ x <= y /\ rw.last + PerSeconds[b] <= new.exp
  BY <1>1, <1>3
<1>5. Pays(new, b, k) <=> /\ rw.over.max # 0 => rw.last < rw.over.until
                          /\ rw.last + PerSeconds[b] <= new.exp
                          /\ 0 <= rw.cap + y * s
  BY <1>2 DEF Pays
<1> HIDE DEF x, y, s
<1>6. x * s \in Nat /\ y * s \in Nat /\ x * s <= y * s
  BY <1>2, <1>4, ProductGrows
<1>7. 0 <= rw.cap + y * s
  BY <1>1, <1>3, <1>6
<1> QED BY <1>3, <1>4, <1>5, <1>7

(* No override is over. *)
Current(rw) == rw.over.max = 0 \/ OverrideLive(rw)

(* A row just touched: it lives for the whole lifetime of rows, and only   *)
(* one rate applied since its state was written.                           *)
Renewed(rw) ==
  /\ rw.exp = now + BucketTTL
  /\ rw.last <= now
  /\ rw.over.max # 0 => rw.last = now

(* The rate in force is no slower than the slower limit. *)
LEMMA SlowerRate ==
  ASSUME NEW e, NEW b, Serves(e, b), NEW rw \in Row
  PROVE  /\ Slow(rw, Conf(e)[b]) \in Nat \ {0}
         /\ Slow(rw, Conf(e)[b]) <= EffectiveMax(e, b, rw)
         /\ Current(rw) => Slow(rw, Conf(e)[b])
                             = Lesser(EffectiveMax(e, b, rw), Conf(e)[b])
         /\ rw.over.max = 0 => Slow(rw, Conf(e)[b]) = EffectiveMax(e, b, rw)
<1>1. Conf(e)[b] \in Nat \ {0} /\ rw.over.max \in Nat
  BY DEF Serves, Row, Override
<1> QED BY <1>1 DEF Slow, EffectiveMax, Anchored, OverrideLive, Current, Lesser

(* The extension of the deadline at every read is enough for a row just    *)
(* touched.                                                                *)
LEMMA ExtendedPays ==
  ASSUME NEW e, NEW b, Serves(e, b), NEW rw \in Row, Current(rw), Renewed(rw)
  PROVE  Pays(ExtendDebt(e, b, rw), b, Conf(e)[b])
<1> DEFINE k == Conf(e)[b]
           max == EffectiveMax(e, b, rw)
           s == Slow(rw, k)
           d == now - rw.last
           a == Amount(e, b, rw)
           u == rw.cap + d * max
           per == PerSeconds[b]
           new == ExtendDebt(e, b, rw)
           ttl == debt_ttl_seconds(b, a, max, k)
<1>0. b \in Buckets
  BY DEF Serves
<1>1. /\ k \in Nat \ {0} /\ max \in Nat \ {0} /\ now \in Nat
      /\ rw.cap \in Int /\ rw.last \in Nat /\ rw.exp \in Nat
      /\ rw.over \in Override
      /\ per \in Nat \ {0} /\ BucketTTL \in Nat /\ BucketTTL - per \in Nat
  BY EffectiveMaxType, Windows DEF Serves, Row
<1>2. /\ s \in Nat \ {0} /\ s = Lesser(max, k)
      /\ rw.over.max = 0 => s = max
  BY SlowerRate
<1>3. d \in Nat /\ (rw.over.max # 0 => d = 0 /\ rw.last = now)
  BY <1>1 DEF Renewed
<1>4. ~ rw.fresh => a = Lesser(max * per, u)
  <2>1. Greater(0, d) = d
    BY <1>3 DEF Greater
  <2>2. Uncapped(View(e, b, rw)) = rw.cap + Greater(0, d) * max
    BY DEF Uncapped, TimePassed, View
  <2> QED BY <2>1, <2>2 DEF Amount, calculate_capacity, View
<1>5. a \in Int
  BY AmountType
<1>6. \A x, y \in Nat : x * y \in Nat
  OBVIOUS
<1>7. d * max \in Nat /\ max * per \in Nat /\ d * s \in Nat
  BY <1>1, <1>2, <1>3, <1>6
<1>8. d * max = d * s
  BY <1>1, <1>2, <1>3
<1>9. rw.over.max # 0 => rw.last < rw.over.until
  BY <1>3 DEF Current, OverrideLive
<1>10. /\ new = IF a >= 0 THEN rw
                ELSE [rw EXCEPT !.exp = Greater(rw.exp, now + ttl)]
  BY DEF ExtendDebt
<1>11. LET low == Lesser(max, k) IN
       ttl \in Nat /\ ttl - per \in Nat /\ 0 <= a + (ttl - per) * low
  <2> HIDE DEF a, max, k
  <2> QED BY <1>0, <1>1, <1>5, DebtPaid
<1>12. ASSUME NEW x \in Nat, NEW y \in Nat, y = d + x, ~ rw.fresh,
              0 <= u + x * s
       PROVE  0 <= rw.cap + y * s
  <2>1. y * s = d * s + x * s
    BY <1>2, <1>3, <1>12
  <2>2. x * s \in Nat
    BY <1>2, <1>6
  <2> HIDE DEF d, s
  <2> QED BY <1>1, <1>7, <1>8, <1>12, <2>1, <2>2
<1>13. CASE a >= 0
  <2>1. new = rw
    BY <1>10, <1>13
  <2> SUFFICES ASSUME ~ rw.fresh PROVE Pays(rw, b, k)
    BY <2>1 DEF Pays
  <2> DEFINE x == BucketTTL - per  y == rw.exp - rw.last - per
  <2>2. x \in Nat /\ y \in Nat /\ y = d + x /\ rw.last + per <= rw.exp
    BY <1>1, <1>3 DEF Renewed
  <2>3. u >= 0
    BY <1>1, <1>4, <1>7, <1>13 DEF Lesser
  <2>4. x * s \in Nat
    BY <1>2, <1>6, <2>2
  <2>5. Pays(rw, b, k) <=> /\ rw.over.max # 0 => rw.last < rw.over.until
                           /\ rw.last + per <= rw.exp
                           /\ 0 <= rw.cap + y * s
    BY DEF Pays
  <2> HIDE DEF x, y, s, u, d
  <2>6. 0 <= u + x * s
    <3>1. u \in Int
      BY <1>1, <1>7 DEF u
    <3> QED BY <2>3, <2>4, <3>1
  <2>7. 0 <= rw.cap + y * s
    BY <1>12, <2>2, <2>6
  <2> QED BY <1>9, <2>2, <2>5, <2>7
<1>14. CASE a < 0
  <2> DEFINE exp == Greater(rw.exp, now + ttl)
             x == exp - now - per  y == exp - rw.last - per
  <2>1. new = [rw EXCEPT !.exp = exp]
    BY <1>5, <1>10, <1>14
  <2>2. exp \in Nat /\ exp >= now + ttl /\ exp >= rw.exp
    BY <1>1, <1>11 DEF Greater
  <2> HIDE DEF exp, ttl
  <2>3. new.exp = exp /\ new.fresh = rw.fresh /\ new.over = rw.over
        /\ new.cap = rw.cap /\ new.last = rw.last
    BY <2>1 DEF Row
  <2> SUFFICES Pays(new, b, k)
    OBVIOUS
  <2> HIDE DEF new
  <2> SUFFICES ASSUME ~ rw.fresh PROVE Pays(new, b, k)
    <3>1. new.fresh => Pays(new, b, k)
      BY Zenon DEF Pays
    <3> QED BY <2>3, <3>1
  <2>4. x \in Nat /\ y \in Nat /\ y = d + x /\ rw.last + per <= exp
        /\ ttl - per <= x
    BY <1>1, <1>3, <1>11, <2>2 DEF Renewed
  <2>5. a = u
    BY <1>1, <1>4, <1>7, <1>14 DEF Lesser
  <2>6. Slow(new, k) = s
    BY <2>3 DEF Slow
  <2>7. Pays(new, b, k) <=> /\ rw.over.max # 0 => rw.last < rw.over.until
                            /\ rw.last + per <= exp
                            /\ 0 <= rw.cap + y * s
    BY <2>3, <2>6 DEF Pays
  <2> HIDE DEF x, y, s, u, d, a
  <2>8. /\ (ttl - per) * s \in Nat /\ x * s \in Nat
        /\ (ttl - per) * s <= x * s
    BY <1>2, <1>11, <2>4, ProductGrows
  <2>9. 0 <= u + x * s
    BY <1>2, <1>5, <1>11, <2>5, <2>8
  <2>10. 0 <= rw.cap + y * s
    BY <1>12, <2>4, <2>9
  <2> QED BY <1>9, <2>4, <2>7, <2>10
<1> QED BY <1>5, <1>13, <1>14

(* An override that is over leaves a row just touched, at the one rate     *)
(* that applied since; other rows are as they were.                        *)
LEMMA EndedPays ==
  ASSUME NEW e, NEW b, Serves(e, b), NEW rw \in Row, rw.exists,
         Pays(rw, b, Conf(e)[b])
  PROVE  LET ended == EndOverride(e, b, rw) IN
         /\ Current(ended)
         /\ \/ Pays(ended, b, Conf(e)[b])
            \/ Renewed(ended)
<1> DEFINE k == Conf(e)[b]
           ended == [rw EXCEPT !.over = NoOverride, !.exp = now + BucketTTL]
           cap == rw.cap + (rw.over.until - rw.last) * rw.over.max
           integrated == [ended EXCEPT !.cap = cap, !.last = rw.over.until]
           new == EndOverride(e, b, rw)
<1>1. /\ now \in Nat /\ rw.last \in Nat /\ rw.over.until \in Nat
      /\ rw.over.max \in Nat
  BY DEF Serves, Row, Override
<1>2. CASE rw.over.max = 0 \/ OverrideLive(rw)
  <2>1. new = rw
    BY <1>2 DEF EndOverride
  <2> HIDE DEF new
  <2> SUFFICES Current(new) /\ (Pays(new, b, k) \/ Renewed(new))
    BY DEF new
  <2> QED BY <1>2, <2>1 DEF Current
<1>3. CASE ~ (rw.over.max = 0 \/ OverrideLive(rw))
  <2>1. rw.over.max # 0 /\ rw.over.until <= now
    BY <1>1, <1>3 DEF OverrideLive
  <2>2. ~ rw.fresh => rw.last < rw.over.until
    BY <2>1 DEF Pays
  <2>3. new = IF Anchored(e, b, rw) /\ ~ rw.fresh /\ rw.last < rw.over.until
                THEN integrated ELSE ended
    BY <1>3 DEF EndOverride
  <2>4. /\ ended.over.max = 0 /\ ended.exp = now + BucketTTL
        /\ ended.last = rw.last /\ ended.fresh = rw.fresh
    BY DEF NoOverride, Row
  <2>5. /\ integrated.over.max = 0 /\ integrated.exp = now + BucketTTL
        /\ integrated.last = rw.over.until
    BY DEF NoOverride, Row
  <2> SUFFICES Current(new) /\ (Pays(new, b, k) \/ Renewed(new))
    OBVIOUS
  <2> HIDE DEF new, ended, integrated
  <2>6. Current(new)
    BY <2>3, <2>4, <2>5 DEF Current
  <2>7. CASE new = integrated
    BY <2>1, <2>5, <2>6, <2>7 DEF Renewed
  <2>8. CASE new = ended /\ ~ rw.fresh
    <3>1. ended.last <= now
      BY <1>1, <2>1, <2>2, <2>4, <2>8
    <3> QED BY <2>4, <2>6, <2>8, <3>1 DEF Renewed
  <2>9. CASE new = ended /\ rw.fresh
    <3>1. Pays(new, b, k)
      BY <2>4, <2>9 DEF Pays
    <3> QED BY <2>6, <3>1
  <2> QED BY <2>3, <2>7, <2>8, <2>9
<1> QED BY <1>2, <1>3

(* What pays when an engine loads it pays as the transaction leaves it,    *)
(* and any override in it lives.                                           *)
LEMMA LoadedPays ==
  ASSUME NEW e, NEW b, Serves(e, b), NEW rw \in Row, Pays(rw, b, Conf(e)[b])
  PROVE  /\ Pays(Load(e, b, rw), b, Conf(e)[b])
         /\ Current(Load(e, b, rw))
<1> DEFINE k == Conf(e)[b]
           kept == Surviving(rw)
           ended == EndOverride(e, b, kept)
           drained == DrainLost(e, b, ended)
           repaired == RepairFuture(drained)
           loaded == ExtendDebt(e, b, repaired)
           Paying(x) == Current(x) /\ (Pays(x, b, k) \/ Renewed(x))
<1>0. /\ now \in Nat /\ BucketTTL \in Nat /\ k \in Nat \ {0}
      /\ b \in Buckets
  BY StoreAssumption DEF Serves
<1>1. /\ kept \in Row /\ kept.exists
      /\ kept = rw \/ kept.fresh
  <2>1. kept \in Row /\ kept.exists
    BY <1>0, SurvivingRow
  <2>2. NewRow.fresh /\ [rw EXCEPT !.fresh = TRUE, !.cap = 0, !.last = 0].fresh
    BY DEF NewRow, Absent, Row
  <2> QED BY <2>1, <2>2 DEF Surviving
<1>2. Pays(kept, b, k)
  <2> HIDE DEF kept
  <2>1. kept.fresh => Pays(kept, b, k)
    BY DEF Pays
  <2> QED BY <1>1, <2>1
<1> HIDE DEF kept
<1>3. Paying(ended)
  BY <1>1, <1>2, EndedPays
<1>4. Repairs(kept, ended)
  BY <1>1, EndOverrideRow
<1> HIDE DEF ended
<1>5. Repairs(ended, drained) /\ Paying(drained)
  <2>1. Repairs(ended, drained)
    BY <1>4, DrainLostRow DEF Repairs
  <2> DEFINE new == [ended EXCEPT !.fresh = FALSE, !.cap = 0, !.last = now,
                                  !.exp = now + BucketTTL]
  <2>2. drained = ended \/ drained = new
    BY DEF DrainLost
  <2>3. /\ new.over = ended.over /\ new.last = now
        /\ new.exp = now + BucketTTL
    BY <1>4 DEF Repairs, Row
  <2> HIDE DEF new, drained
  <2>4. Paying(new)
    BY <1>0, <1>3, <2>3 DEF Current, OverrideLive, Renewed
  <2> QED BY <1>3, <2>1, <2>2, <2>4
<1> HIDE DEF drained
<1>6. Repairs(drained, repaired) /\ Paying(repaired)
  <2>1. Repairs(drained, repaired)
    BY <1>0, <1>5, RepairFutureRow DEF Repairs
  <2> DEFINE new == [drained EXCEPT !.last = now, !.exp = now + BucketTTL]
  <2>2. repaired = drained \/ repaired = new
    BY DEF RepairFuture
  <2>3. /\ new.over = drained.over /\ new.last = now
        /\ new.exp = now + BucketTTL
    BY <1>5 DEF Repairs, Row
  <2> HIDE DEF new, repaired
  <2>4. Paying(new)
    BY <1>0, <1>5, <2>3 DEF Current, OverrideLive, Renewed
  <2> QED BY <1>5, <2>1, <2>2, <2>4
<1> HIDE DEF repaired
<1>7. /\ loaded \in Row /\ loaded.fresh = repaired.fresh
      /\ loaded.over = repaired.over /\ loaded.exp >= repaired.exp
  BY <1>6, ExtendDebtRow DEF Repairs
<1>8. loaded.cap = repaired.cap /\ loaded.last = repaired.last
  BY <1>6 DEF ExtendDebt, Repairs, Row
<1>9. Load(e, b, rw) = loaded
  BY DEF Load, kept, ended, drained, repaired
<1>10. Renewed(repaired) => Pays(loaded, b, k)
  BY <1>6, ExtendedPays DEF Repairs
<1> HIDE DEF loaded
<1>11. Pays(repaired, b, k) => Pays(loaded, b, k)
  <2>1. repaired \in Row /\ repaired.exp \in Nat /\ loaded.exp \in Nat
    BY <1>6, <1>7 DEF Repairs, Row
  <2>2. repaired.exp <= loaded.exp
    BY <1>7, <2>1
  <2> HIDE DEF k
  <2> QED BY <1>0, <1>7, <1>8, <2>1, <2>2, PaysLonger
<1>12. Current(loaded)
  BY <1>6, <1>7 DEF Current, OverrideLive
<1> QED BY <1>6, <1>9, <1>10, <1>11, <1>12

(* A state written now pays when it lives as long as debt_ttl_seconds says *)
(* for the limits in force.                                                *)
LEMMA WrittenPays ==
  ASSUME NEW b \in Buckets, now \in Nat, NEW k \in Nat \ {0},
         NEW max \in Nat \ {0}, NEW rw \in Row, NEW amount \in Int,
         rw.cap = amount, rw.last = now,
         rw.exp = now + debt_ttl_seconds(b, amount, max, k),
         rw.over.max # 0 => rw.over.until > now,
         Slow(rw, k) = Lesser(max, k)
  PROVE  Pays(rw, b, k)
<1> DEFINE ttl == debt_ttl_seconds(b, amount, max, k)
           low == Lesser(max, k)
<1>1. /\ ttl \in Nat /\ ttl - PerSeconds[b] \in Nat
      /\ 0 <= amount + (ttl - PerSeconds[b]) * low
  BY DebtPaid
<1>2. PerSeconds[b] \in Nat /\ rw.over.until \in Nat
  BY Windows DEF Row, Override
<1>3. Pays(rw, b, k) <=>
        (~ rw.fresh =>
           /\ rw.over.max # 0 => rw.last < rw.over.until
           /\ rw.last + PerSeconds[b] <= rw.exp
           /\ 0 <= rw.cap + (rw.exp - rw.last - PerSeconds[b]) * low)
  BY DEF Pays
<1> HIDE DEF ttl, low
<1>4. rw.exp - rw.last - PerSeconds[b] = ttl - PerSeconds[b]
  BY <1>1, <1>2 DEF ttl
<1>5. rw.last + PerSeconds[b] <= rw.exp
  BY <1>1, <1>2 DEF ttl
<1> QED BY <1>1, <1>2, <1>3, <1>4, <1>5

(* So it does under another limit. *)
LEMMA RelimitedPays ==
  ASSUME StoreTypes, RowsSound, NEW e \in Engines, NEW p \in Prunings,
         NEW b \in Mine(e), NEW over \in Override, NEW max \in Nat \ {0},
         NEW k \in Nat \ {0},
         over.max # 0 => over.until > now,
         Lesser(max, k) = IF over.max # 0 /\ over.anchor = k
                            THEN Lesser(over.max, k) ELSE k
  PROVE  Pays(Relimit(e, p, b, over, max, k), b, k)
<1> DEFINE rw == Loaded(e, p)[b]
           amount == SeenUncapped(e, p, b)
           kept == IF rw.fresh THEN rw ELSE Write(e, b, rw, amount)
           ttl == debt_ttl_seconds(b, amount, max, k)
           new == Relimit(e, p, b, over, max, k)
<1>1. Serves(e, b) /\ now \in Nat /\ b \in Buckets
  BY ServesMine
<1>2. rw \in Row /\ new \in Row
  BY <1>1, LoadedFacts, RelimitedRow
<1>3. new = [kept EXCEPT !.over = over, !.exp = now + ttl]
  BY DEF Relimit
<1> SUFFICES Pays(new, b, k)
  OBVIOUS
<1>4. CASE rw.fresh
  <2>1. kept = rw
    BY <1>4
  <2> HIDE DEF kept
  <2>2. new.fresh
    BY <1>2, <1>3, <1>4, <2>1 DEF Row
  <2> HIDE DEF new
  <2> QED BY <2>2 DEF Pays
<1>5. CASE ~ rw.fresh
  <2>1. amount = Uncapped(View(e, b, rw))
    BY <1>5 DEF SeenUncapped
  <2>2. amount \in Int
    BY <1>1, <1>2, <2>1, AmountType
  <2>3. kept = Write(e, b, rw, amount)
    BY <1>5
  <2>4. kept.cap = amount /\ kept.last = now /\ kept \in Row
    <3>1. rw.exists
      BY <1>1, LoadedFacts
    <3>2. kept \in Row
      BY <1>1, <1>2, <2>2, <2>3, <3>1, WrittenRow
    <3>3. Write(e, b, rw, amount).cap = amount
          /\ Write(e, b, rw, amount).last = now
      BY <1>2 DEF Write, Row
    <3> QED BY <2>3, <3>2, <3>3
  <2> HIDE DEF kept, amount, new, rw
  <2>5. /\ new.cap = amount /\ new.last = now /\ new.over = over
        /\ new.exp = now + ttl
    BY <1>3, <2>4 DEF Row
  <2>6. Slow(new, k) = Lesser(max, k)
    BY <2>5 DEF Slow
  <2>7. new.exp = now + debt_ttl_seconds(b, amount, max, k)
    BY <2>5
  <2>8. new.over.max # 0 => new.over.until > now
    BY <2>5
  <2> QED BY <1>1, <1>2, <2>2, <2>5, <2>6, <2>7, <2>8, WrittenPays
<1> QED BY <1>4, <1>5

-----------------------------------------------------------------------------
(* One limit for every bucket *)

VARIABLE agreed  \* the limit configured for a bucket, in whatever process

(* The processes that have a bucket configure it alike, ... *)
Concord ==
  /\ agreed \in [Buckets -> Nat \ {0}]
  /\ \A e \in Engines : \A b \in Mine(e) : Conf(e)[b] = agreed[b]

(* ... now and later: a limit changes only where it is applied to the row. *)
Announced ==
  \A b \in Buckets : agreed'[b] # agreed[b] =>
    \E e \in Fleet : ApplyConfigured(e, b, agreed'[b])

(* Every state pays at the slower of its limits before its row expires. *)
Solvent == \A b \in Buckets : Pays(row[b], b, agreed[b])

(* What a transaction finds, pays. *)
LEMMA FoundPays ==
  ASSUME StoreTypes, RowsSound, Concord, Solvent, NEW e \in Engines,
         NEW p \in Prunings, NEW b \in Mine(e)
  PROVE  /\ Serves(e, b) /\ Conf(e)[b] = agreed[b]
         /\ Loaded(e, p)[b] \in Row /\ Loaded(e, p)[b].exists
         /\ Current(Loaded(e, p)[b])
         /\ Pays(Loaded(e, p)[b], b, agreed[b])
<1>1. Serves(e, b) /\ Conf(e)[b] = agreed[b] /\ b \in Buckets
  BY ServesMine DEF Concord
<1>2. PrunedRow(p, b) \in Row
  BY <1>1, PrunedRowFacts
<1>3. Pays(PrunedRow(p, b), b, agreed[b])
  <2>1. CASE b \in p.rows
    <3>1. PrunedRow(p, b).fresh
      BY <2>1 DEF PrunedRow, Absent
    <3> QED BY <3>1 DEF Pays
  <2>2. CASE b \notin p.rows
    <3>1. PrunedRow(p, b) = row[b]
      BY <2>2 DEF PrunedRow
    <3> QED BY <1>1, <3>1 DEF Solvent
  <2> QED BY <2>1, <2>2
<1>4. Loaded(e, p)[b] = Load(e, b, PrunedRow(p, b))
  BY <1>1 DEF Loaded
<1>5. /\ Current(Load(e, b, PrunedRow(p, b)))
      /\ Pays(Load(e, b, PrunedRow(p, b)), b, agreed[b])
  BY <1>1, <1>2, <1>3, LoadedPays
<1>6. Loaded(e, p)[b] \in Row /\ Loaded(e, p)[b].exists
  BY <1>1, LoadedFacts
<1> QED BY <1>1, <1>4, <1>5, <1>6

(* What it leaves pays too, as long as the limit is the agreed one. *)
LEMMA RewrittenPays ==
  ASSUME StoreTypes, RowsSound, Concord, Concord', Solvent, NEW e \in Engines,
         NEW p \in Prunings, NEW b \in Mine(e), Rewritten(e, p, b),
         agreed'[b] = agreed[b]
  PROVE  Pays(row'[b], b, agreed[b])
<1> DEFINE k == agreed[b]  rw == Loaded(e, p)[b]
<1>1. /\ Serves(e, b) /\ Conf(e)[b] = k
      /\ rw \in Row /\ rw.exists /\ Current(rw) /\ Pays(rw, b, k)
  BY FoundPays
<1>2. b \in Buckets /\ now \in Nat /\ k \in Nat \ {0}
  BY <1>1 DEF Serves
<1>3. CASE row'[b] = rw
  BY <1>1, <1>3
<1>4. ASSUME NEW amount \in Int, row'[b] = Write(e, b, rw, amount)
      PROVE  Pays(row'[b], b, k)
  <2> DEFINE max == EffectiveMax(e, b, rw)  new == Write(e, b, rw, amount)
  <2>1. max \in Nat \ {0} /\ new \in Row /\ new.over = rw.over
    BY <1>1, <1>4, EffectiveMaxType, WrittenRow
  <2>2. Slow(rw, k) = Lesser(max, k)
    BY <1>1, SlowerRate
  <2>3. Slow(new, k) = Lesser(max, k)
    BY <2>1, <2>2 DEF Slow
  <2>4. new.cap = amount /\ new.last = now
        /\ new.exp = now + debt_ttl_seconds(b, amount, max, k)
    BY <1>1 DEF Write, Row
  <2>5. new.over.max # 0 => new.over.until > now
    BY <1>1, <2>1 DEF Current, OverrideLive
  <2> HIDE DEF max, new, k
  <2>6. Pays(new, b, k)
    BY <1>2, <1>4, <2>1, <2>3, <2>4, <2>5, WrittenPays
  <2> QED BY <1>4, <2>6 DEF new
<1>5. ASSUME NEW value \in Nat \ {0},
             row'[b] = Relimit(e, p, b, [max |-> value, until |-> now + OverrideTTL,
                                         anchor |-> Conf(e)[b]], value, Conf(e)[b])
      PROVE  Pays(row'[b], b, k)
  <2> DEFINE over == [max |-> value, until |-> now + OverrideTTL, anchor |-> k]
  <2>1. OverrideTTL \in Nat \ {0}
    BY DeploymentTypes DEF StoreTypes, ClockTypes
  <2>2. /\ over \in Override /\ over.until > now
        /\ over.max = value /\ over.anchor = k
    BY <1>2, <2>1 DEF Override
  <2>3. row'[b] = Relimit(e, p, b, over, value, k)
    BY <1>1, <1>5
  <2> HIDE DEF over, k
  <2> QED BY <1>2, <1>5, <2>2, <2>3, RelimitedPays
<1>6. ASSUME NEW value \in Nat \ {0}, Configured(b, value),
             row'[b] = Relimit(e, p, b, NoOverride, value, value)
      PROVE  Pays(row'[b], b, k)
  <2>1. value = k
    BY <1>6 DEF Configured, Concord
  <2>2. NoOverride \in Override /\ NoOverride.max = 0
    BY <1>2, NewRowType DEF NoOverride
  <2>3. Lesser(k, k) = k
    BY DEF Lesser
  <2>4. row'[b] = Relimit(e, p, b, NoOverride, k, k)
    BY <1>6, <2>1
  <2> HIDE DEF k
  <2> QED BY <1>2, <2>2, <2>3, <2>4, RelimitedPays
<1> QED BY <1>3, <1>4, <1>5, <1>6 DEF Rewritten

(* A new limit starts with a row that pays under it. *)
LEMMA AnnouncedPays ==
  ASSUME Inv0, StoreTypes', Concord', NEW b \in Buckets, NEW e \in Fleet,
         ApplyConfigured(e, b, agreed'[b])
  PROVE  Pays(row'[b], b, agreed'[b])
<1> DEFINE k == agreed'[b]
<1>1. e \in Engines /\ b \in Mine(e) /\ StoreTypes /\ RowsSound
  BY DeploymentTypes DEF Inv0, StoreInv, StoreTypes, ClockTypes, ApplyConfigured
<1>2. PICK p \in Prunings : apply_configured_max_capacity(e, p, b, k)
  BY DEF ApplyConfigured
<1>3. row'[b] = Relimit(e, p, b, NoOverride, k, k)
  BY <1>2 DEF apply_configured_max_capacity, Loaded
<1>4. k \in Nat \ {0}
  BY DEF Concord
<1>5. NoOverride \in Override /\ NoOverride.max = 0
  BY <1>1, ServesMine, NewRowType DEF NoOverride
<1>6. Lesser(k, k) = k
  BY DEF Lesser
<1> HIDE DEF k
<1>7. Pays(row'[b], b, k)
  BY <1>1, <1>3, <1>4, <1>5, <1>6, RelimitedPays
<1> QED BY <1>7 DEF k

(* The row of a bucket in every step *)
LEMMA StepPays ==
  ASSUME Inv0, [Next]_vars, Concord, Concord', Solvent,
         [Announced]_<<vars, agreed>>
  PROVE  Solvent'
<1>1. Inv0' /\ StoreTypes' /\ StoreTypes /\ RowsSound
  BY StepKeepsTypes DEF Inv0, StoreInv
<1>2. ASSUME NEW b \in Buckets, agreed'[b] # agreed[b]
      PROVE  Pays(row'[b], b, agreed'[b])
  <2>1. Announced
    BY <1>2
  <2>2. PICK e \in Fleet : ApplyConfigured(e, b, agreed'[b])
    BY <1>2, <2>1 DEF Announced
  <2> QED BY <1>1, <2>2, AnnouncedPays
<1>3. \A b \in Buckets : RowMoves(b)
  <2>1. CASE Called \/ (Steady /\ Untouched) \/ Died
    BY <2>1 DEF Called, Steady, Died, RowsKept
  <2>2. CASE Operated
    BY <2>2 DEF Operated
  <2>3. CASE Lose
    BY <2>3 DEF Lose, LoseStore, Absent, RowMoves
  <2>4. CASE Clock \/ UNCHANGED vars
    BY <2>4 DEF Clock, Tick, ClockSetBack, vars, store, RowMoves
  <2> QED BY <2>1, <2>2, <2>3, <2>4, NextKind
<1>4. ASSUME NEW b \in Buckets, agreed'[b] = agreed[b]
      PROVE  Pays(row'[b], b, agreed'[b])
  <2>1. CASE row'[b] = row[b]
    <3>1. Pays(row[b], b, agreed[b])
      BY DEF Solvent
    <3> QED BY <1>4, <2>1, <3>1
  <2>2. CASE row'[b].fresh
    BY <2>2 DEF Pays
  <2>3. ASSUME NEW e \in Engines, NEW p \in Prunings, b \in Mine(e),
               Rewritten(e, p, b)
        PROVE  Pays(row'[b], b, agreed'[b])
    <3>1. Pays(row'[b], b, agreed[b])
      BY <1>1, <1>4, <2>3, RewrittenPays
    <3> QED BY <1>4, <3>1
  <2> QED BY <1>3, <2>1, <2>2, <2>3 DEF RowMoves
<1>5. \A b \in Buckets : Pays(row'[b], b, agreed'[b])
  BY <1>2, <1>4
<1> QED BY <1>5 DEF Solvent, Pays, Slow

(* A row that is given up was worth at least the full bucket that replaces *)
(* it, at the lower of its limits.                                         *)
LEMMA SolventForgivesNothing ==
  ASSUME Inv0, Concord, Solvent
  PROVE  DebtOutlivesIdleness
<1> SUFFICES ASSUME NEW e \in Engines, NEW b \in Buckets, b \in Mine(e),
                    Expired(row[b]), ~ row[b].fresh
             PROVE  Unexpired(e, b) >= SlowerFull(e, b)
  BY DEF DebtOutlivesIdleness
<1> DEFINE rw == row[b]  k == agreed[b]  s == Slow(rw, k)
           max == EffectiveMax(e, b, rw)
           per == PerSeconds[b]
           x == rw.exp - rw.last - per
           d == now - rw.last
<1>1. Serves(e, b) /\ Conf(e)[b] = k /\ rw \in Row
  BY ServesMine DEF Concord, Inv0, StoreInv, StoreTypes, RowTypes
<1>2. /\ now \in Nat /\ rw.last \in Nat /\ rw.exp \in Nat /\ rw.cap \in Int
      /\ rw.over.until \in Nat /\ rw.over.max \in Nat
      /\ per \in Nat \ {0} /\ k \in Nat \ {0} /\ max \in Nat \ {0}
  BY <1>1, Windows, EffectiveMaxType DEF Serves, Row, Override
<1>3. /\ rw.over.max # 0 => rw.last < rw.over.until
      /\ rw.last + per <= rw.exp
      /\ 0 <= rw.cap + x * s
      /\ rw.exp <= now
  BY DEF Solvent, Pays, Expired
<1>4. s \in Nat \ {0} /\ s <= max /\ s <= k
  BY <1>1, <1>2, SlowerRate DEF Slow, Lesser
<1>5. SlowerFull(e, b) = per * s
  BY <1>1 DEF SlowerFull, Anchored, Slow
<1>6. x \in Nat /\ d \in Nat /\ x + per <= d
  BY <1>2, <1>3
<1>7. /\ (x + per) * s \in Nat /\ d * s \in Nat
      /\ (x + per) * s <= d * s
  <2> HIDE DEF x, d, s, per
  <2>1. x + per \in Nat
    BY <1>2, <1>6
  <2> QED BY <1>4, <1>6, <2>1, ProductGrows
<1>8. per * s <= rw.cap + d * s /\ per * s \in Nat
  <2> HIDE DEF x, d, s, per, rw
  <2>1. (x + per) * s = x * s + per * s
    BY <1>2, <1>4, <1>6
  <2>2. \A i, j \in Nat : i * j \in Nat
    OBVIOUS
  <2>3. x * s \in Nat /\ per * s \in Nat
    BY <1>2, <1>4, <1>6, <2>2
  <2> QED BY <1>2, <1>3, <1>7, <2>1, <2>3
<1> DEFINE new == EndOverride(e, b, rw)
<1>9. \A i : i.last <= now /\ i.last \in Nat =>
        Uncapped(View(e, b, i)) = i.cap + (now - i.last) * EffectiveMax(e, b, i)
  BY <1>2 DEF Uncapped, View, TimePassed, Greater
<1>10. CASE rw.over.max = 0 \/ OverrideLive(rw)
  <2>1. new = rw
    BY <1>10 DEF EndOverride
  <2>2. Unexpired(e, b) = rw.cap + d * max
    BY <1>2, <1>6, <1>9, <2>1 DEF Unexpired
  <2> HIDE DEF d, s, max, rw
  <2>3. d * s \in Nat /\ d * max \in Nat /\ d * s <= d * max
    BY <1>2, <1>4, <1>6, ProductGrows
  <2> HIDE DEF per
  <2> QED BY <1>2, <1>5, <1>8, <2>2, <2>3
<1>11. CASE ~ (rw.over.max = 0 \/ OverrideLive(rw))
  <2> DEFINE ended == [rw EXCEPT !.over = NoOverride, !.exp = now + BucketTTL]
             c == rw.over.until - rw.last  m == rw.over.max
             f == now - rw.over.until
             integrated == [ended EXCEPT !.cap = @ + c * m,
                                         !.last = rw.over.until]
  <2>1. rw.over.max # 0 /\ rw.over.until <= now /\ rw.last < rw.over.until
    BY <1>2, <1>3, <1>11 DEF OverrideLive
  <2>2. new = IF Anchored(e, b, rw) THEN integrated ELSE ended
    BY <1>11, <2>1 DEF EndOverride
  <2>3. /\ ended.cap = rw.cap /\ ended.last = rw.last /\ ended.over.max = 0
        /\ EffectiveMax(e, b, ended) = k
    BY <1>1 DEF Row, NoOverride, EffectiveMax, OverrideLive
  <2>4. /\ integrated.cap = rw.cap + c * m /\ integrated.last = rw.over.until
        /\ EffectiveMax(e, b, integrated) = k
    BY <1>1 DEF Row, NoOverride, EffectiveMax, OverrideLive
  <2>5. CASE ~ Anchored(e, b, rw)
    <3>0. new = ended
      BY <2>2, <2>5
    <3>1. Unexpired(e, b) = rw.cap + d * k
      <4> HIDE DEF ended, new
      <4>1. Uncapped(View(e, b, ended)) = rw.cap + d * k
        BY <1>2, <1>3, <1>9, <2>1, <2>3
      <4> QED BY <3>0, <4>1 DEF Unexpired, new
    <3> HIDE DEF d, s, k, rw
    <3>2. d * s \in Nat /\ d * k \in Nat /\ d * s <= d * k
      BY <1>2, <1>4, <1>6, ProductGrows
    <3> HIDE DEF per
    <3> QED BY <1>2, <1>5, <1>8, <3>1, <3>2
  <2>6. CASE Anchored(e, b, rw)
    <3>1. new = integrated
      BY <2>2, <2>6
    <3> HIDE DEF integrated
    <3>2. Unexpired(e, b) = rw.cap + c * m + f * k
      BY <1>2, <1>9, <2>1, <2>4, <3>1 DEF Unexpired
    <3>3. c \in Nat /\ f \in Nat /\ d = c + f /\ m \in Nat /\ s <= m
      BY <1>1, <1>2, <2>1, <2>6 DEF Anchored, Slow, Lesser
    <3> HIDE DEF d, s, k, rw, c, f, m
    <3>4. /\ c * s \in Nat /\ c * m \in Nat /\ c * s <= c * m
          /\ f * s \in Nat /\ f * k \in Nat /\ f * s <= f * k
      BY <1>2, <1>4, <3>3, ProductGrows
    <3>5. d * s = c * s + f * s
      BY <1>4, <3>3
    <3> HIDE DEF per
    <3> QED BY <1>2, <1>5, <1>8, <3>2, <3>4, <3>5
  <2> QED BY <2>5, <2>6
<1> QED BY <1>10, <1>11

(* Expiry forgives no debt: however a lowered limit or an override left a  *)
(* bucket, debt_ttl_seconds at every write and the extension at every read *)
(* keep its row until refill alone has paid the debt and a full window, as *)
(* long as the processes configure its limit alike.                        *)
THEOREM DebtOutlastsItsRow ==
  Spec /\ []Concord /\ [][Announced]_<<vars, agreed>> => []DebtOutlivesIdleness
<1>1. Init => Inv0 /\ Solvent
  <2>1. ASSUME Init PROVE Solvent
    <3>1. \A b \in Buckets : row[b].fresh
      BY <2>1 DEF Init, StoreInit, NewRow, Absent
    <3> QED BY <3>1 DEF Solvent, Pays
  <2> QED BY <2>1, InitTypes
<1>2. /\ Inv0 /\ Solvent /\ Concord /\ Concord' /\ [Next]_vars
      /\ [Announced]_<<vars, agreed>>
      => Inv0' /\ Solvent'
  BY StepKeepsTypes, StepPays
<1>3. Inv0 /\ Solvent /\ Concord => DebtOutlivesIdleness
  BY SolventForgivesNothing
<1> QED BY <1>1, <1>2, <1>3, PTL DEF Spec

=============================================================================
