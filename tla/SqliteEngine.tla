---------------------------- MODULE SqliteEngine ----------------------------
(***************************************************************************)
(* The SQLite store of one model family and the transactions of the        *)
(* engines that share it (token_throttle/_limiter_backends/_sqlite/        *)
(* _engine.py).  An engine belongs to one process and holds one            *)
(* connection.                                                             *)
(*                                                                         *)
(* Every operation of the code is one BEGIN IMMEDIATE ... COMMIT, so it is *)
(* one step here; the clock is read inside it.  A transaction that raises  *)
(* is rolled back, pruning and repairs included: a rejected operation, a   *)
(* busy database and a crash in the middle change nothing.                 *)
(*                                                                         *)
(* Time is the wall clock in whole seconds.  Amounts are scaled by the     *)
(* window of the bucket as in Capacity.                                    *)
(***************************************************************************)
EXTENDS Capacity, FiniteSets

CONSTANTS
  Buckets,      \* bucket ids (metric, per_seconds)
  Metrics,      \* metric names
  MetricOf,     \* the metric of a bucket id
  PerSeconds,   \* the window of a bucket id
  Engines,      \* engines that may be opened on the database
  Deployments,  \* how the database is used: a record of the operators below
  MaxIds,       \* bound: reservation ids handed out
  BucketTTL,    \* bucket_ttl_seconds
  DedupTTL,     \* refund_dedup_ttl_seconds
  Lifetime,     \* reservation_lifetime_seconds
  PruneBatch    \* prune_batch_size

(* Configured quotas: a positive limit for some of the buckets *)
IsQuota(c) == DOMAIN c \subseteq Buckets /\ c \in [DOMAIN c -> Nat \ {0}]

(* What SqliteBackendBuilder validates before it opens a database: a row   *)
(* outlives two windows, and both lifetimes of bookkeeping are more than   *)
(* twice the lifetime of a reservation.                                    *)
ASSUME StoreAssumption ==
  /\ MetricOf \in [Buckets -> Metrics]
  /\ PerSeconds \in [Buckets -> Nat \ {0}]
  /\ \A d \in Deployments :
       /\ d.engines \subseteq Engines
       /\ \A c \in d.configs : IsQuota(c)
       /\ d.override_ttl \in Nat \ {0}
       /\ d.last_second \in Nat \ {0}
       /\ d.skew \in Nat
  /\ MaxIds \in Nat \ {0}
  /\ Lifetime \in Nat \ {0}
  /\ BucketTTL \in Nat /\ BucketTTL > 2 * Lifetime
  /\ DedupTTL \in Nat /\ DedupTTL > 2 * Lifetime
  /\ \A b \in Buckets : BucketTTL >= 2 * PerSeconds[b]
  /\ PruneBatch \in Nat \ {0}

VARIABLES
  deployment, \* the one that runs: chosen at the start, never changed
  now,        \* time.time()
  skewed,     \* seconds the clock was set back so far
  row,        \* table buckets
  marker,     \* table acquire_markers
  tombstone,  \* table refund_tombstones: expires_at, 0 when there is no row
  engine      \* the engines: configuration and _state_confirmed_until

clock == <<deployment, now, skewed>>
store == <<clock, row, marker, tombstone, engine>>

Fleet == deployment.engines              \* engines that may be opened
Configs == deployment.configs            \* configured quotas: bucket -> limit
OverrideTTL == deployment.override_ttl   \* override_ttl_seconds
MaxTime == deployment.last_second        \* bound: last second of the clock
MaxSkew == deployment.skew               \* bound: seconds it is set back in all

Ids == 1..MaxIds
NoOverride == [max |-> 0, until |-> 0, anchor |-> 0]
Absent == [exists |-> FALSE, fresh |-> TRUE, cap |-> 0, last |-> 0,
           over |-> NoOverride, exp |-> 0]
NoMarker == [exp |-> 0, scope |-> {}, usage |-> [m \in Metrics |-> 0]]

(* An engine is not there, prepared to replace another, in use or closed. *)
Down == [status |-> "down", conf |-> [b \in {} |-> 0],
         confirmed |-> [b \in Buckets |-> 0], next |-> {}, cleared |-> FALSE]

Override == [max : Nat, until : Nat, anchor : Nat]
Row == [exists : BOOLEAN, fresh : BOOLEAN, cap : Int, last : Nat,
        over : Override, exp : Nat]
Marker == [exp : Nat, scope : SUBSET Buckets, usage : [Metrics -> Nat]]

Conf(e) == engine[e].conf
Mine(e) == DOMAIN Conf(e)
Up(e) == engine[e].status = "up"

-----------------------------------------------------------------------------
(* Pruning: at most a batch of the expired rows of each table.  The tables *)
(* are shared with other families, whose rows may fill the batch.          *)

Batch(S) == {T \in SUBSET S : Cardinality(T) <= PruneBatch}

OverrideLive(rw) == rw.over.max # 0 /\ rw.over.until > now
Expired(rw) == rw.exists /\ rw.exp <= now

(* Mistake: a bucket row taken with its override *)
PrunableIdle(rw) == Expired(rw)

(* A bucket row stays while its runtime override lives. *)
Prunable(rw) == Expired(rw) /\ ~ OverrideLive(rw)

(* Mistake: a marker deleted in its last second *)
PruningsEarly ==
  [markers : Batch({r \in Ids : marker[r].exp \in 1..(now + 1)}),
   tombs : Batch({r \in Ids : tombstone[r] \in 1..now}),
   rows : Batch({b \in Buckets : Prunable(row[b])})]

(* What one pass of _prune may delete *)
Prunings ==
  [markers : Batch({r \in Ids : marker[r].exp \in 1..now}),
   tombs : Batch({r \in Ids : tombstone[r] \in 1..now}),
   rows : Batch({b \in Buckets : Prunable(row[b])})]

PrunedRow(p, b) == IF b \in p.rows THEN Absent ELSE row[b]
PrunedMarker(p, r) == IF r \in p.markers THEN NoMarker ELSE marker[r]
PrunedTombstone(p, r) == IF r \in p.tombs THEN 0 ELSE tombstone[r]

-----------------------------------------------------------------------------
(* How long an idle bucket row is kept *)

CeilDiv(a, n) == (a + n - 1) \div n

(* Mistake: debt kept no longer than any other amount *)
debt_ttl_flat(b, amount, max, configured) == BucketTTL

(* debt_ttl_seconds: until refill at the slower of the two limits has paid *)
(* the debt and filled one window.                                         *)
debt_ttl_seconds(b, amount, max, configured) ==
  IF amount >= 0 THEN BucketTTL
  ELSE Greater(BucketTTL,
               PerSeconds[b] + CeilDiv(- amount, Lesser(max, configured)))

-----------------------------------------------------------------------------
(* _load_states, one bucket: each step takes the row and returns it as the *)
(* transaction leaves it.                                                  *)

NewRow == [Absent EXCEPT !.exists = TRUE, !.exp = now + BucketTTL]

Anchored(e, b, rw) == rw.over.max # 0 /\ rw.over.anchor = Conf(e)[b]

(* A live override counts only under the limit it was set under. *)
EffectiveMax(e, b, rw) ==
  IF OverrideLive(rw) /\ Anchored(e, b, rw) THEN rw.over.max ELSE Conf(e)[b]

(* An expired row loses its amount; a live override survives it. *)
Surviving(rw) ==
  IF ~ rw.exists \/ Prunable(rw) THEN NewRow
  ELSE IF Expired(rw) THEN [rw EXCEPT !.fresh = TRUE, !.cap = 0, !.last = 0]
  ELSE rw

(* An override past its end is integrated, uncapped, up to its end and     *)
(* removed.                                                                *)
EndOverride(e, b, rw) ==
  LET integrate == /\ Anchored(e, b, rw) /\ ~ rw.fresh
                   /\ rw.last < rw.over.until
      ended == [rw EXCEPT !.over = NoOverride, !.exp = now + BucketTTL]
  IN IF rw.over.max = 0 \/ OverrideLive(rw) THEN rw
     ELSE IF ~ integrate THEN ended
     ELSE [ended EXCEPT !.cap = @ + (rw.over.until - rw.last) * rw.over.max,
                        !.last = rw.over.until]

(* _state_loss_suspected: this engine committed state for the bucket not   *)
(* long ago.                                                               *)
Suspected(e, b) == now < engine[e].confirmed[b]

(* Mistake: a missing state taken for a first use *)
TrustAbsence(e, b, rw) == rw

DrainLost(e, b, rw) ==
  IF rw.fresh /\ Suspected(e, b)
    THEN [rw EXCEPT !.fresh = FALSE, !.cap = 0, !.last = now,
                    !.exp = now + BucketTTL]
    ELSE rw

RepairFuture(rw) ==
  IF ~ rw.fresh /\ rw.last > now + 1
    THEN [rw EXCEPT !.last = now, !.exp = now + BucketTTL]
    ELSE rw

(* The bucket as Capacity reads it *)
View(e, b, rw) == [fresh |-> rw.fresh, cap |-> rw.cap,
                   elapsed |-> now - rw.last, max |-> EffectiveMax(e, b, rw)]

Amount(e, b, rw) == calculate_capacity(View(e, b, rw), PerSeconds[b])

ExtendDebt(e, b, rw) ==
  IF Amount(e, b, rw) >= 0 THEN rw
  ELSE [rw EXCEPT !.exp = Greater(@, now + debt_ttl_seconds(b,
                      Amount(e, b, rw), EffectiveMax(e, b, rw), Conf(e)[b]))]

Load(e, b, rw) ==
  ExtendDebt(e, b,
    RepairFuture(DrainLost(e, b, EndOverride(e, b, Surviving(rw)))))

(* Whether loading the row wrote a complete state of it *)
LoadWrites(e, b, rw) ==
  LET kept == Surviving(rw)
      ended == EndOverride(e, b, kept)
      drained == DrainLost(e, b, ended)
  IN \/ ended # kept /\ ~ ended.fresh
     \/ drained # ended
     \/ RepairFuture(drained) # drained

(* Mistake: a row kept for one window *)
WriteBriefly(e, b, rw, amount) ==
  [rw EXCEPT !.fresh = FALSE, !.cap = amount, !.last = now,
             !.exp = now + PerSeconds[b]]

(* _write_capacities, one bucket *)
Write(e, b, rw, amount) ==
  [rw EXCEPT !.fresh = FALSE, !.cap = amount, !.last = now,
             !.exp = now + debt_ttl_seconds(b, amount,
                                            EffectiveMax(e, b, rw),
                                            Conf(e)[b])]

-----------------------------------------------------------------------------
(* A transaction of engine e *)

Loaded(e, p) == [b \in Buckets |-> IF b \in Mine(e)
                                     THEN Load(e, b, PrunedRow(p, b))
                                     ELSE PrunedRow(p, b)]
Seen(e, p, b) == Amount(e, b, Loaded(e, p)[b])
SeenMax(e, p, b) == EffectiveMax(e, b, Loaded(e, p)[b])
SeenUncapped(e, p, b) ==
  IF Loaded(e, p)[b].fresh THEN SeenMax(e, p, b) * PerSeconds[b]
  ELSE Uncapped(View(e, b, Loaded(e, p)[b]))

(* Rows loaded, those of bs written with their new amounts *)
WrittenRows(e, p, bs, amount) ==
  [b \in Buckets |-> IF b \in bs THEN Write(e, b, Loaded(e, p)[b], amount[b])
                                 ELSE Loaded(e, p)[b]]

(* Mistake: proof of a state as long as its row may live, and longer *)
ConfirmedTooLong(e, p, bs) ==
  [b \in Buckets |->
     IF b \in bs \/ (b \in Mine(e) /\ LoadWrites(e, b, PrunedRow(p, b)))
       THEN now + CeilDiv(11 * BucketTTL, 10)
       ELSE engine[e].confirmed[b]]

(* COMMIT: the states written, by the load or by the operation itself, are *)
(* evidence for 90% of the row lifetime.                                   *)
Confirmed(e, p, bs) ==
  [b \in Buckets |->
     IF b \in bs \/ (b \in Mine(e) /\ LoadWrites(e, b, PrunedRow(p, b)))
       THEN now + CeilDiv(9 * BucketTTL, 10)
       ELSE engine[e].confirmed[b]]

Commit(e, p, bs, rows) ==
  /\ row' = rows
  /\ engine' = [engine EXCEPT ![e].confirmed = Confirmed(e, p, bs)]
  /\ UNCHANGED clock

Bookkeep(p, r, mk, tomb) ==
  /\ marker' = [i \in Ids |-> IF i = r THEN mk ELSE PrunedMarker(p, i)]
  /\ tombstone' = [i \in Ids |-> IF i = r THEN tomb ELSE PrunedTombstone(p, i)]

PruneMarkers(p) ==
  /\ marker' = [r \in Ids |-> PrunedMarker(p, r)]
  /\ tombstone' = [r \in Ids |-> PrunedTombstone(p, r)]

Rollback == UNCHANGED store

-----------------------------------------------------------------------------
(* _raise_if_duplicate_acquire *)

LiveMarker(r) == marker[r].exp > now
Tombstoned(r) == tombstone[r] > now

IsReplay(e, r, u) ==
  LiveMarker(r) /\ marker[r].scope = Mine(e) /\ marker[r].usage = u

(* Mistake: only open reservations block their id *)
IsDuplicateOpen(e, r, u) == LiveMarker(r) /\ ~ IsReplay(e, r, u)

IsDuplicate(e, r, u) ==
  \/ LiveMarker(r) /\ ~ IsReplay(e, r, u)
  \/ ~ LiveMarker(r) /\ Tombstoned(r)

NewMarker(e, u) == [exp |-> now + Lifetime, scope |-> Mine(e), usage |-> u]

Take(b, u) == u[MetricOf[b]] * PerSeconds[b]

Impossible(e, p, u) ==
  \E b \in Mine(e) : u[MetricOf[b]] > SeenMax(e, p, b)
Sufficient(e, p, u) == \A b \in Mine(e) : Take(b, u) <= Seen(e, p, b)

(* A replay and a wait commit what loading repaired, and the removal of    *)
(* rows of the id that were past their end.                                *)
LoadOnly(e, p, r) ==
  /\ Commit(e, p, {}, Loaded(e, p))
  /\ Bookkeep(p, r, IF LiveMarker(r) THEN marker[r] ELSE NoMarker,
                    IF Tombstoned(r) THEN tombstone[r] ELSE 0)

(* try_consume and consume: all buckets are written back, the marker is    *)
(* inserted in the same transaction.                                       *)
Charge(e, p, r, u, amount) ==
  /\ Commit(e, p, Mine(e), WrittenRows(e, p, Mine(e), amount))
  /\ Bookkeep(p, r, NewMarker(e, u), 0)

TryCharge(e, p, r, u) ==
  LET left == [b \in Mine(e) |-> Seen(e, p, b) - Take(b, u)] IN
  /\ ~ IsReplay(e, r, u) /\ ~ IsDuplicate(e, r, u)
  /\ ~ Impossible(e, p, u) /\ Sufficient(e, p, u)
  /\ Charge(e, p, r, u, left)

RecordCharge(e, p, r, u) ==
  LET left == [b \in Mine(e) |-> Greater(- SeenMax(e, p, b) * PerSeconds[b],
                                         Seen(e, p, b) - Take(b, u))]
  IN /\ ~ IsReplay(e, r, u) /\ ~ IsDuplicate(e, r, u)
     /\ Charge(e, p, r, u, left)

(* refund with marker authority: of the reservation given by its scope     *)
(* and usage, into the buckets of it the engine still has.                 *)
Refundable(r, scope, u) ==
  /\ ~ Tombstoned(r) /\ LiveMarker(r)
  /\ marker[r].scope = scope /\ marker[r].usage = u

CreditedAmount(e, p, b, back) ==
  LET full == SeenMax(e, p, b) * PerSeconds[b] IN
  Greater(- full, Lesser(Seen(e, p, b) + Greater(back, - full), full))

Refund(e, p, r, scope, u, actual) ==
  LET kept == scope \cap Mine(e)
      credited == [b \in kept |-> CreditedAmount(e, p, b, Take(b, u)
                                                          - Take(b, actual))]
  IN
  /\ Refundable(r, scope, u)
  /\ Commit(e, p, kept, WrittenRows(e, p, kept, credited))
  /\ Bookkeep(p, r, NoMarker, now + DedupTTL)

(* cleanup_consumption asks only whether the marker row is there, live or  *)
(* expired.                                                                *)
CleanupPossible(p, r) == PrunedMarker(p, r).exp # 0

Cleanup(e, p, r, u) ==
  LET back == [b \in Mine(e) |-> Lesser(Seen(e, p, b) + Take(b, u),
                                        SeenMax(e, p, b) * PerSeconds[b])]
  IN /\ CleanupPossible(p, r)
     /\ Commit(e, p, Mine(e), WrittenRows(e, p, Mine(e), back))
     /\ Bookkeep(p, r, NoMarker, PrunedTombstone(p, r))

-----------------------------------------------------------------------------
(* Limits.  The amount accrued so far is written uncapped at the old rate, *)
(* then the row takes its override; a fresh row stays fresh.               *)

Relimit(e, p, b, over, max, configured) ==
  LET rw == Loaded(e, p)[b]
      kept == IF rw.fresh THEN rw ELSE Write(e, b, rw, SeenUncapped(e, p, b))
  IN [kept EXCEPT !.over = over,
                  !.exp = now + debt_ttl_seconds(b, SeenUncapped(e, p, b),
                                                 max, configured)]

Anchors(e, p, bs) == {b \in bs : ~ Loaded(e, p)[b].fresh}

set_max_override(e, p, b, value) ==
  LET over == [max |-> value, until |-> now + OverrideTTL,
               anchor |-> Conf(e)[b]]
  IN /\ Commit(e, p, Anchors(e, p, {b}),
               [Loaded(e, p) EXCEPT ![b] = Relimit(e, p, b, over, value,
                                                   Conf(e)[b])])
     /\ PruneMarkers(p)

apply_configured_max_capacity(e, p, b, value) ==
  /\ row' = [Loaded(e, p) EXCEPT ![b] = Relimit(e, p, b, NoOverride, value,
                                                value)]
  /\ engine' = [engine EXCEPT
                  ![e].confirmed = Confirmed(e, p, Anchors(e, p, {b})),
                  ![e].conf[b] = value]
  /\ UNCHANGED clock
  /\ PruneMarkers(p)

-----------------------------------------------------------------------------
(* Opening, replacing and losing engines *)

(* initialize_buckets: INSERT OR IGNORE of a row without state *)
Opened(p, conf) == [b \in Buckets |->
                      IF b \in DOMAIN conf /\ ~ PrunedRow(p, b).exists
                        THEN NewRow ELSE PrunedRow(p, b)]

Open(e, p, conf, status) ==
  /\ engine[e].status = "down"
  /\ row' = Opened(p, conf)
  /\ engine' = [engine EXCEPT ![e] = [Down EXCEPT !.status = status,
                                                  !.conf = conf]]
  /\ UNCHANGED clock
  /\ PruneMarkers(p)

(* A process starts and builds its backend. *)
Start(e, conf) ==
  \E p \in Prunings : Open(e, p, conf, "up")

(* The limiter of engine e builds another backend for a new quota set.     *)
BuildNext(e, f, conf) ==
  /\ Up(e) /\ engine[e].next = {} /\ e # f
  /\ conf # Conf(e)
  /\ \A g \in Engines : f \notin engine[g].next
  /\ \E p \in Prunings :
       /\ engine[f].status = "down"
       /\ row' = Opened(p, conf)
       /\ engine' = [engine EXCEPT ![f] = [Down EXCEPT !.status = "spare",
                                                       !.conf = conf],
                                   ![e].next = {f},
                                   ![e].cleared = FALSE]
       /\ PruneMarkers(p)
  /\ UNCHANGED clock

Dropped(e, f) == {b \in Mine(e) : b \in Mine(f) => Conf(f)[b] # Conf(e)[b]}
NextLimit(e, f, b) == IF b \in Mine(f) THEN Conf(f)[b] ELSE Conf(e)[b]

(* prepare_reconfigured_backend, first the old engine drops the overrides  *)
(* of the buckets that go or change their limit (skipped when there is     *)
(* none), ...                                                              *)
ClearOverrides(e) ==
  \E f \in engine[e].next, p \in Prunings :
    /\ Up(e) /\ ~ engine[e].cleared
    /\ IF Dropped(e, f) = {}
         THEN UNCHANGED <<row, marker, tombstone>>
              /\ engine' = [engine EXCEPT ![e].cleared = TRUE]
         ELSE /\ row' = [b \in Buckets |->
                           IF b \in Dropped(e, f)
                             THEN Relimit(e, p, b, NoOverride,
                                          NextLimit(e, f, b),
                                          NextLimit(e, f, b))
                             ELSE Loaded(e, p)[b]]
              /\ engine' = [engine EXCEPT
                   ![e].cleared = TRUE,
                   ![e].confirmed = Confirmed(e, p,
                                        Anchors(e, p, Dropped(e, f)))]
              /\ PruneMarkers(p)
    /\ UNCHANGED clock

(* ... then the new one inherits its evidence for the buckets that stay,   *)
(* and the old one is closed.  The old engine's worker finishes what was   *)
(* queued before the close.                                                *)
Replace(e) ==
  \E f \in engine[e].next :
    /\ Up(e) /\ engine[e].cleared
    /\ engine' = [engine EXCEPT
         ![e] = [Down EXCEPT !.status = "closed"],
         ![f].status = "up",
         ![f].confirmed = [b \in Buckets |->
                             IF b \in Mine(e) \cap Mine(f)
                               THEN engine[e].confirmed[b] ELSE @[b]]]
    /\ UNCHANGED <<clock, row, marker, tombstone>>

(* The files are deleted or replaced under running engines. *)
LoseStore ==
  /\ row' = [b \in Buckets |-> Absent]
  /\ marker' = [r \in Ids |-> NoMarker]
  /\ tombstone' = [r \in Ids |-> 0]
  /\ UNCHANGED <<clock, engine>>

Tick ==
  /\ now < MaxTime
  /\ now' = now + 1
  /\ UNCHANGED <<deployment, skewed, row, marker, tombstone, engine>>

ClockSetBack ==
  /\ skewed < MaxSkew /\ now > 1
  /\ now' = now - 1
  /\ skewed' = skewed + 1
  /\ UNCHANGED <<deployment, row, marker, tombstone, engine>>

(* The engines of initial have just been opened on an empty database. *)
StoreInit(initial, conf) ==
  /\ deployment \in Deployments
  /\ now = 1
  /\ skewed = 0
  /\ row = [b \in Buckets |-> IF b \in DOMAIN conf THEN NewRow ELSE Absent]
  /\ marker = [r \in Ids |-> NoMarker]
  /\ tombstone = [r \in Ids |-> 0]
  /\ engine = [e \in Engines |-> IF e \in initial
                                   THEN [Down EXCEPT !.status = "up",
                                                     !.conf = conf]
                                   ELSE Down]

StoreTypeOK ==
  /\ deployment \in Deployments
  /\ now \in 1..MaxTime
  /\ skewed \in 0..MaxSkew
  /\ row \in [Buckets -> Row]
  /\ marker \in [Ids -> Marker]
  /\ tombstone \in [Ids -> Nat]
  /\ engine = [e \in Engines |->
                 [status |-> engine[e].status, conf |-> Conf(e),
                  confirmed |-> engine[e].confirmed, next |-> engine[e].next,
                  cleared |-> engine[e].cleared]]
  /\ \A e \in Engines :
       /\ engine[e].status \in {"down", "spare", "up", "closed"}
       /\ IsQuota(Conf(e))
       /\ engine[e].confirmed \in [Buckets -> Nat]
       /\ engine[e].next \subseteq Engines \ {e}
       /\ engine[e].cleared \in BOOLEAN

=============================================================================
