----------------------------- MODULE RedisStore -----------------------------
(***************************************************************************)
(* The Redis keys of one model family and what the commands and Lua        *)
(* scripts of token_throttle/_limiter_backends/_redis do to them.  A       *)
(* script and a MULTI pipeline are atomic; what runs between two of them   *)
(* is up to the clients (RedisBackend, SyncRedisBackend).                  *)
(*                                                                         *)
(* A bucket has a pair of state keys (last_checked and capacity), a        *)
(* runtime override, the history of that override, which outlives it, and  *)
(* a lock.  A reservation has an acquire marker and a refund tombstone.    *)
(* Time is the server's clock in whole seconds, amounts are scaled by the  *)
(* window of the bucket as in Capacity.                                    *)
(***************************************************************************)
EXTENDS Capacity, FiniteSets

CONSTANTS
  Buckets,      \* buckets, as numbers in the order of their Redis keys
  PerSeconds,   \* the window of a bucket
  Procs,        \* processes that share the store
  Callers,      \* calls that may run at a time, in all processes
  Configs,      \* configured quotas: bucket -> limit
  StartConfig,  \* the quotas every process starts with
  MaxIds,       \* bound: reservation ids handed out
  BucketTTL,    \* bucket_ttl_seconds
  DedupTTL,     \* refund_dedup_ttl_seconds
  OverrideTTL,  \* override_ttl_seconds
  Lifetime,     \* reservation_lifetime_seconds
  MaxTime       \* bound: last second of the server's clock

(* RedisBackendBuilder validates the lifetimes before it builds a backend: *)
(* state outlives two windows, and state and tombstones outlive twice the  *)
(* lifetime of a reservation.                                              *)
ASSUME RedisAssumption ==
  /\ Buckets \subseteq Nat
  /\ PerSeconds \in [Buckets -> Nat \ {0}]
  /\ \A c \in Configs \cup {StartConfig} :
       DOMAIN c \subseteq Buckets /\ \A b \in DOMAIN c : c[b] \in Nat \ {0}
  /\ MaxIds \in Nat \ {0}
  /\ Lifetime \in Nat \ {0}
  /\ OverrideTTL \in Nat \ {0}
  /\ BucketTTL \in Nat /\ BucketTTL > 2 * Lifetime
  /\ DedupTTL \in Nat /\ DedupTTL > 2 * Lifetime
  /\ \A b \in Buckets : BucketTTL >= 2 * PerSeconds[b]
  /\ MaxTime \in Nat

VARIABLES
  now,        \* TIME
  state,      \* last_checked and capacity of each bucket
  over,       \* max_capacity_override of each bucket
  hist,       \* override_expiry of each bucket
  lock,       \* lock of each bucket: the callers that hold it, at most one
  marker,     \* acquired markers
  tombstone,  \* refund tombstones
  proc        \* the bucket objects of each process

keys == <<state, over, hist>>
ids == <<marker, tombstone>>
store == <<now, keys, lock, ids, proc>>

Ids == 1..MaxIds
Pair == {"last_checked", "capacity"}

(* A key whose deadline exp has come is gone; 0 is the deadline of a key   *)
(* that was never there or was deleted.                                    *)
Alive(k) == k.exp > now

NoState == [keys |-> {}, cap |-> 0, last |-> 0, exp |-> 0]
NoOver == [max |-> 0, anchor |-> 0, exp |-> 0]
NoHist == [max |-> 0, anchor |-> 0, until |-> 0, exp |-> 0]
NoMarker == [usage |-> 0, exp |-> 0]
NoTombstone == [token |-> {}, exp |-> 0]

(* A RedisBucket object of a process: the limit it was configured with,    *)
(* and when this process last found the state of the bucket complete       *)
(* (_state_confirmed_at_server_time).                                      *)
NewBucketOf(limit) == [conf |-> limit, confirmed |-> {}]
BucketsOf(config) == [b \in DOMAIN config |-> NewBucketOf(config[b])]

StoreInit ==
  /\ now = 0
  /\ state = [b \in Buckets |-> NoState]
  /\ over = [b \in Buckets |-> NoOver]
  /\ hist = [b \in Buckets |-> NoHist]
  /\ lock = [b \in Buckets |-> {}]
  /\ marker = [r \in Ids |-> NoMarker]
  /\ tombstone = [r \in Ids |-> NoTombstone]
  /\ proc = [p \in Procs |-> BucketsOf(StartConfig)]

(* sorted_buckets of a process *)
Mine(p) == DOMAIN proc[p]

Full(b, max) == max * PerSeconds[b]
Latest(S) == CHOOSE x \in S : \A y \in S : y <= x

-----------------------------------------------------------------------------
(* Overrides *)

(* _deserialize_max_capacity_override: an override counts only under the   *)
(* configured limit it was set under; 0 stands for none.                   *)
Override(k, b) ==
  IF Alive(over[b]) /\ over[b].anchor = k.conf THEN over[b].max ELSE 0

EffectiveMax(k, b) ==
  IF Override(k, b) # 0 THEN Override(k, b) ELSE k.conf

(* accrue_with_expiry: an override that has ended since last_checked, by   *)
(* the history h, set the rate until its end.  Not capped.                 *)
Accrue(k, b, st, h) ==
  IF h.exp = 0 \/ Override(k, b) # 0 \/ h.anchor # k.conf \/ now < h.until
    THEN st.cap + Greater(0, now - st.last) * EffectiveMax(k, b)
    ELSE st.cap + Greater(0, h.until - st.last) * h.max
                + Greater(0, now - Greater(st.last, h.until)) * k.conf

History(b) == IF Alive(hist[b]) THEN hist[b] ELSE NoHist

(* RETAIN_EXPIRY: the history lives at least as long as the state, whose   *)
(* deadline is exp, and until the deadline least.                          *)
Retained(h, least, exp) ==
  IF h.exp = 0 THEN NoHist ELSE [h EXCEPT !.exp = Latest({@, least, exp})]

(* WRITE_OVERRIDE, for a new override and to refresh one *)
OverrideOf(k, b, max) ==
  [max |-> max, anchor |-> k.conf, exp |-> now + OverrideTTL]
HistoryOf(k, b, max, exp) ==
  [max |-> max, anchor |-> k.conf, until |-> now + OverrideTTL,
   exp |-> Latest({now + BucketTTL, now + OverrideTTL, History(b).exp, exp})]

-----------------------------------------------------------------------------
(* Retention of the state keys *)

CeilDiv(a, n) == (a + n - 1) \div n

(* Mistake: debt kept no longer than any other amount *)
FlatTTL(b, amount, max) == BucketTTL

(* debt_ttl_seconds: until refill at the rate of max has paid the debt and *)
(* filled a window.                                                        *)
DebtTTL(b, amount, max) ==
  IF amount >= 0 THEN BucketTTL
  ELSE Greater(BucketTTL, PerSeconds[b] + CeilDiv(- amount, max))

(* RedisBucket.capacity_ttl, at the slower of the two limits *)
CapacityTTL(k, b, amount, max) == DebtTTL(b, amount, Lesser(max, k.conf))

(* REFRESH_STATE_TTL_SCRIPT on the keys of the pair that are there: never  *)
(* a shorter life.                                                         *)
Refreshed(k, b) ==
  LET st == state[b]
      ttl == IF "capacity" \in st.keys
               THEN CapacityTTL(k, b, st.cap, k.conf) ELSE BucketTTL
  IN [st EXCEPT !.exp = Greater(@, now + ttl)]

(* RedisBucket.set_capacity and the writes of both scripts: an amount of   *)
(* the time its call read the clock.                                       *)
Written(k, b, amount, time, max) ==
  [keys |-> Pair, cap |-> amount, last |-> time,
   exp |-> now + CapacityTTL(k, b, amount, max)]

-----------------------------------------------------------------------------
(* Reading the buckets of a process: _get_capacities_unsafe *)

Present(b) == IF Alive(state[b]) THEN state[b].keys ELSE {}

(* Mistake: proof as long as the deadline of the keys, and longer *)
SuspectedTooLong(k, b) ==
  \E t \in k.confirmed : (now - t) * 10 < BucketTTL * 11

(* state_loss_suspected *)
Suspected(k, b) ==
  \E t \in k.confirmed : (now - t) * 10 < BucketTTL * 9

Complete(b) == Present(b) = Pair
FreshStart(k, b) == Present(b) = {} /\ ~ Suspected(k, b)

(* _normalize_bucket_state_pair and the repair pipeline: half a pair, or a *)
(* pair gone too early, is replaced by an empty bucket.                    *)
Lost(k, b) == ~ Complete(b) /\ ~ FreshStart(k, b)

(* The pair as the read leaves it *)
Found(k, b) ==
  IF Complete(b) THEN Refreshed(k, b)
  ELSE IF Lost(k, b) THEN Written(k, b, 0, now, EffectiveMax(k, b))
  ELSE NoState

(* calculate_with_expiry *)
Amount(k, b) ==
  LET max == EffectiveMax(k, b) IN
  IF FreshStart(k, b) THEN Full(b, max)
  ELSE IF Lost(k, b) THEN 0
  ELSE Lesser(Full(b, max), Accrue(k, b, state[b], History(b)))

(* _refresh_max_capacity_override_ttl *)
FoundOver(k, b) ==
  IF Override(k, b) = 0 THEN over[b] ELSE OverrideOf(k, b, Override(k, b))

(* Mistake: the history of an ended override left to its own deadline *)
FoundHistUnkept(k, b) ==
  IF Override(k, b) = 0 THEN History(b)
  ELSE HistoryOf(k, b, Override(k, b), Found(k, b).exp)

FoundHist(k, b) ==
  IF Override(k, b) = 0
    THEN Retained(History(b), now + BucketTTL, Found(k, b).exp)
    ELSE HistoryOf(k, b, Override(k, b), Found(k, b).exp)

Read(p) ==
  /\ state' = [b \in Buckets |-> IF b \in Mine(p) THEN Found(proc[p][b], b)
                                 ELSE state[b]]
  /\ over' = [b \in Buckets |-> IF b \in Mine(p) THEN FoundOver(proc[p][b], b)
                                ELSE over[b]]
  /\ hist' = [b \in Buckets |-> IF b \in Mine(p) THEN FoundHist(proc[p][b], b)
                                ELSE hist[b]]
  /\ proc' = [proc EXCEPT ![p] =
                [b \in Mine(p) |-> IF FreshStart(@[b], b) THEN @[b]
                                   ELSE [@[b] EXCEPT !.confirmed = {now}]]]

(* What a call carries from its read to its write *)
Reading(p) ==
  [time |-> now,
   amount |-> [b \in Mine(p) |-> Amount(proc[p][b], b)],
   max |-> [b \in Mine(p) |-> EffectiveMax(proc[p][b], b)]]

NoReading == [time |-> 0, amount |-> [b \in {} |-> 0], max |-> [b \in {} |-> 0]]

-----------------------------------------------------------------------------
(* Writing what a call computed from a reading *)

(* The buckets of amount take it; their history is retained first.         *)
(* Nothing here asks whether the caller still holds the locks.             *)
WriteState(p, amount, rd) ==
  /\ state' = [b \in Buckets |->
                 IF b \in DOMAIN amount
                   THEN Written(proc[p][b], b, amount[b], rd.time, rd.max[b])
                   ELSE state[b]]
  /\ hist' = [b \in Buckets |->
                IF b \in DOMAIN amount
                  THEN Retained(History(b), Latest({now + BucketTTL,
                                                    state[b].exp}),
                                state'[b].exp)
                  ELSE hist[b]]
  /\ UNCHANGED over

(* _confirm_written_state, with the time of the reading *)
Confirm(p, bs, time) ==
  proc' = [proc EXCEPT ![p] =
             [b \in Mine(p) |-> IF b \in bs
                                  THEN [@[b] EXCEPT !.confirmed = {time}]
                                  ELSE @[b]]]

LiveMarker(r) == Alive(marker[r])
Tombstoned(r) == Alive(tombstone[r])

(* Mistake: an id is free again as soon as its marker is gone *)
AcquireStatusOpen(r, u) ==
  IF LiveMarker(r) THEN IF marker[r].usage = u THEN "replayed" ELSE "duplicate"
  ELSE "ok"

(* What _ACQUIRE_MARKER_SET_SCRIPT answers *)
AcquireStatus(r, u) ==
  IF LiveMarker(r) THEN IF marker[r].usage = u THEN "replayed" ELSE "duplicate"
  ELSE IF Tombstoned(r) THEN "duplicate" ELSE "ok"

(* and what it does then: the amounts and the marker, or nothing *)
AcquireScript(p, r, u, amount, rd) ==
  IF AcquireStatus(r, u) # "ok" THEN UNCHANGED <<keys, ids>>
  ELSE /\ WriteState(p, amount, rd)
       /\ marker' = [marker EXCEPT ![r] = [usage |-> u,
                                           exp |-> now + Lifetime]]
       /\ UNCHANGED tombstone

(* Mistake: the marker is not asked for *)
RefundStatusUnclaimed(r, u, token) ==
  IF Tombstoned(r) /\ tombstone[r].token = token THEN "replayed" ELSE "ok"

(* What _REFUND_WITH_MARKER_SCRIPT answers an attempt whose token is token *)
RefundStatus(r, u, token) ==
  IF LiveMarker(r)
    THEN IF marker[r].usage # u THEN "mismatch"
         ELSE IF Tombstoned(r) THEN "incoherent" ELSE "ok"
    ELSE IF ~ Tombstoned(r) THEN "unknown"
         ELSE IF tombstone[r].token = token THEN "replayed" ELSE "duplicate"

RefundScript(p, r, u, token, amount, rd) ==
  IF RefundStatus(r, u, token) # "ok" THEN UNCHANGED <<keys, ids>>
  ELSE /\ WriteState(p, amount, rd)
       /\ marker' = [marker EXCEPT ![r] = NoMarker]
       /\ tombstone' = [tombstone EXCEPT ![r] = [token |-> token,
                                                 exp |-> now + DedupTTL]]

(* The pipeline that undoes a charge without a tombstone *)
UndoPipeline(p, r, amount, rd) ==
  /\ WriteState(p, amount, rd)
  /\ marker' = [marker EXCEPT ![r] = NoMarker]
  /\ UNCHANGED tombstone

(* _bucket_capacity_state_matches: the amounts are as the attempt wrote    *)
(* them.                                                                   *)
StateMatches(amount) ==
  \A b \in DOMAIN amount : "capacity" \in Present(b) /\ state[b].cap = amount[b]

(* _acquire_marker_commit_matches, _refund_terminal_state_matches *)
AcquireLanded(r, u, amount) ==
  /\ LiveMarker(r) /\ marker[r].usage = u
  /\ StateMatches(amount)
RefundLanded(r, amount) ==
  /\ Tombstoned(r) /\ ~ LiveMarker(r)
  /\ StateMatches(amount)

-----------------------------------------------------------------------------
(* Limits and configuration, under the locks of all buckets *)

(* BucketSnapshotPlan: what the old rate has made of the pair by now,      *)
(* uncapped; lost state counts as empty.                                   *)
Projected(k, b) ==
  IF Lost(k, b) THEN 0 ELSE Accrue(k, b, state[b], History(b))

(* _snapshot_bucket_state: the projection is written with now, and kept    *)
(* long enough for either limit.                                           *)
Anchored(k, b, max) ==
  IF FreshStart(k, b) THEN NoState
  ELSE Written(k, b, Projected(k, b), now, Lesser(max, EffectiveMax(k, b)))

Proven(k, b) == IF FreshStart(k, b) THEN k ELSE [k EXCEPT !.confirmed = {now}]

Unlocked == \A b \in Buckets : lock[b] = {}

(* set_max_capacity *)
SetMax(p, b, value) ==
  LET k == proc[p][b] IN
  /\ Unlocked
  /\ state' = [state EXCEPT ![b] = Anchored(k, b, value)]
  /\ over' = [over EXCEPT ![b] = OverrideOf(k, b, value)]
  /\ hist' = [hist EXCEPT ![b] = HistoryOf(k, b, value, state'[b].exp)]
  /\ proc' = [proc EXCEPT ![p][b] = Proven(k, b)]
  /\ UNCHANGED <<now, lock, ids>>

(* apply_configured_max_capacity: the override goes with its history. *)
ApplyConfigured(p, b, value) ==
  LET k == proc[p][b] IN
  /\ Unlocked
  /\ state' = [state EXCEPT ![b] = Anchored(k, b, value)]
  /\ over' = [over EXCEPT ![b] = NoOver]
  /\ hist' = [hist EXCEPT ![b] = NoHist]
  /\ proc' = [proc EXCEPT ![p][b] = [Proven(k, b) EXCEPT !.conf = value]]
  /\ UNCHANGED <<now, lock, ids>>

(* install_reconfigured_state: new bucket objects take over the evidence   *)
(* of the ones they replace.                                               *)
Installed(p, config, b) ==
  IF b \in Mine(p)
    THEN [Proven(proc[p][b], b) EXCEPT !.conf = config[b]]
    ELSE NewBucketOf(config[b])

(* prepare_reconfigured_backend: every bucket, removed, kept or new, is    *)
(* anchored before a limit changes; the overrides of removed buckets and   *)
(* of buckets with a new limit are cleared.                                *)
Reconfigure(p, config) ==
  LET kept == Mine(p) \cap DOMAIN config
      cleared == {b \in Mine(p) : b \notin kept \/ config[b] # proc[p][b].conf}
      old(b) == IF b \in Mine(p) THEN proc[p][b] ELSE NewBucketOf(config[b])
      max(b) == IF b \in DOMAIN config THEN config[b]
                ELSE EffectiveMax(old(b), b)
      touched == Mine(p) \cup DOMAIN config
      anchor(b) == Anchored(old(b), b, max(b))
  IN
  /\ Unlocked
  /\ state' = [b \in Buckets |-> IF b \in touched THEN anchor(b) ELSE state[b]]
  /\ over' = [b \in Buckets |-> IF b \in cleared THEN NoOver
                                ELSE IF b \in touched THEN FoundOver(old(b), b)
                                ELSE over[b]]
  /\ hist' = [b \in Buckets |->
                IF b \in cleared THEN NoHist
                ELSE IF b \notin touched THEN hist[b]
                ELSE IF Override(old(b), b) = 0
                  THEN Retained(History(b), now + BucketTTL, anchor(b).exp)
                  ELSE HistoryOf(old(b), b, Override(old(b), b), anchor(b).exp)]
  /\ proc' = [proc EXCEPT ![p] = [b \in DOMAIN config |->
                                    Installed(p, config, b)]]
  /\ UNCHANGED <<now, lock, ids>>

-----------------------------------------------------------------------------
(* The server *)

Tick ==
  /\ now < MaxTime
  /\ now' = now + 1
  /\ UNCHANGED <<keys, lock, ids, proc>>

(* Eviction takes some keys of one bucket's state. *)
Evict(b, ks) ==
  /\ ks # {} /\ ks \subseteq Present(b)
  /\ state' = [state EXCEPT ![b].keys = @ \ ks]
  /\ UNCHANGED <<now, over, hist, lock, ids, proc>>

StoreTypeOK ==
  /\ now \in 0..MaxTime
  /\ state \in [Buckets -> [keys : SUBSET Pair, cap : Int, last : Nat,
                            exp : Nat]]
  /\ over \in [Buckets -> [max : Nat, anchor : Nat, exp : Nat]]
  /\ hist \in [Buckets -> [max : Nat, anchor : Nat, until : Nat, exp : Nat]]
  /\ \A b \in Buckets : lock[b] \subseteq Callers /\ Cardinality(lock[b]) <= 1
  /\ marker \in [Ids -> [usage : Nat, exp : Nat]]
  /\ \A r \in Ids : Cardinality(tombstone[r].token) <= 1
  /\ \A p \in Procs : \A b \in Mine(p) :
       proc[p][b].conf \in Nat \ {0} /\ proc[p][b].confirmed \subseteq 0..now

=============================================================================
