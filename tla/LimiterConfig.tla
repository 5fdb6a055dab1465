---------------------------- MODULE LimiterConfig ----------------------------
(***************************************************************************)
(* What a limiter remembers of one model family, and how a callable config *)
(* and set_max_capacity change it: the registry of the models that share   *)
(* the family, the cached backend, the snapshot of its quotas and the      *)
(* table of runtime overrides.                                             *)
(*                                                                         *)
(* The limiter is RateLimiter (token_throttle/_rate_limiter.py) or         *)
(* SyncRateLimiter (_sync_rate_limiter.py).  They run the same code; a     *)
(* thread of the latter may be overtaken at any step, a task of the former *)
(* gives way only where it awaits the backend or _lock.                    *)
(*                                                                         *)
(* The backend is external: the limit each of its buckets works with.  The *)
(* charges and refunds in it are the subject of the backend modules, the   *)
(* lifecycle of a reservation that of RateLimiter.                         *)
(***************************************************************************)
EXTENDS Integers, FiniteSets, Functions

CONSTANTS
  None,        \* no row, no holder
  Callers,     \* tasks or threads that use the limiter
  Models,      \* model names that resolve to the family
  Configs,     \* the quotas the callable config may return: bucket -> limit
  StartConfig,
  Adjusted,    \* the buckets and the limits set_max_capacity is called with
  Values,
  MaxAliases,  \* max_model_aliases
  Instances    \* limiters, the models they see, and bounds: rollouts of the
               \* config, backends built or built again, set_max_capacity
               \* calls, calls of the backend that raise, evictions

ASSUME ConfigAssumption ==
  /\ None \notin Callers /\ None \notin Models /\ None \notin Configs
  /\ None \notin {"acquire", "refund", "set_max", "scanned"}
  /\ IsFiniteSet(Models)
  /\ StartConfig \in Configs
  /\ Values \subseteq Nat
  /\ MaxAliases \in Nat
  /\ Instances \subseteq [limiter : {"async", "sync"}, models : SUBSET Models,
       left : [rollouts : Nat, builds : Nat, sets : Nat, faults : Nat,
               sweeps : Nat]]

VARIABLES
  limiter,        \* which limiter this is; it stays that
  models,         \* the models it is called with; they stay these
  source,         \* what the callable config returns for a model now
  validated,      \* _model_name_to_validated_signature
  counts,         \* _model_family_signature_counts of the family
  aliases,        \* _model_family_alias_counts of the family
  representative, \* _model_family_to_model_name of the family
  backend,        \* _model_family_to_backend: identity and limits
  quotas,         \* _model_family_to_quotas
  overrides,      \* _model_family_to_runtime_max_capacity of the family
  lock,           \* the holder of _lock
  call,           \* where a caller is
  sweep,          \* clear_unused_model_families, between its scan and its end
  left,           \* what is left of the bounds
  torn,           \* history: buckets a raising call left between two limits
  overtaken       \* history: what an eviction took away from under a call

worldVars == <<limiter, models, source>>
registryVars == <<validated, counts, aliases, representative>>
backendVars == <<backend, quotas, overrides, torn>>
sweepVars == <<sweep, overtaken>>
vars == <<worldVars, registryVars, backendVars, lock, call, left,
                 sweepVars>>

Buckets == UNION {DOMAIN c : c \in Configs}
Empty == [b \in {} |-> 0]
NoBackend == [gen |-> 0, epoch |-> 0, limit |-> Empty]
NoCall == [pc |-> "idle", kind |-> None, model |-> None, cfg |-> None,
           gen |-> 0, epoch |-> 0, base |-> 0, old |-> None, todo |-> {},
           bucket |-> None, value |-> 0]

Init ==
  /\ \E i \in Instances :
       limiter = i.limiter /\ models = i.models /\ left = i.left
  /\ source = [m \in Models |-> StartConfig]
  /\ validated = [m \in Models |-> None]
  /\ counts = [c \in Configs |-> 0]
  /\ aliases = 0
  /\ representative = None
  /\ backend = NoBackend
  /\ quotas = None
  /\ overrides = Empty
  /\ lock = None
  /\ call = [t \in Callers |-> NoCall]
  /\ sweep = None
  /\ torn = {}
  /\ overtaken = {}

Goto(t, pc) == call' = [call EXCEPT ![t].pc = pc]
Spend(what) == left[what] > 0 /\ left' = [left EXCEPT ![what] = @ - 1]

(* The calls in _pending_acquire_reservations, and with those whose        *)
(* reservation is in flight the rows of _in_flight_reservation_family      *)
Pending ==
  {t \in Callers : call[t].kind = "acquire" /\ call[t].pc # "resolved"}
InFlight == Pending \cup {t \in Callers : call[t].kind = "refund"}

(* Calls between two awaits: on an event loop nobody else runs *)
Running == {t \in Callers : call[t].pc \in {"begun", "probing"}}
MayRun(who) == limiter = "sync" \/ (Running \subseteq who /\ sweep = None)
At(t, pc) == call[t].pc = pc /\ MayRun({t})

(* The callable config is the user's.  It may answer for one model before  *)
(* it does for another.                                                    *)
Rollout(ms, c) ==
  /\ MayRun({})
  /\ Spend("rollouts")
  /\ \E m \in ms : source[m] # c
  /\ source' = [m \in Models |-> IF m \in ms THEN c ELSE source[m]]
  /\ UNCHANGED <<limiter, models, registryVars, backendVars, lock, call,
                 sweepVars>>

-----------------------------------------------------------------------------
(* The models of a family *)

(* The counts once the model's previous signature is taken back *)
Without(m) ==
  [c \in Configs |-> IF c = validated[m] /\ counts[c] > 0
                     THEN counts[c] - 1 ELSE counts[c]]

Conflicts(m, cfg) == {c \in Configs : Without(m)[c] > 0 /\ c # cfg}

(* The family's representative has moved to the same config *)
Follows(m, cfg) ==
  /\ representative \notin {None, m}
  /\ source[representative] = cfg

(* _enforce_new_alias_cap *)
HasRoom(m) ==
  \/ validated[m] # None
  \/ Cardinality({n \in Models : validated[n] # None}) < MaxAliases

Known(m, cfg) == validated[m] = cfg

Accepts(m, cfg) ==
  \/ Known(m, cfg)
  \/ (Conflicts(m, cfg) = {} \/ Follows(m, cfg)) /\ HasRoom(m)

(* Mistake: the family's other signature stays counted when it moves *)
RecountedBeside(m, cfg) ==
  LET base == Without(m)
      already == validated[m] # None /\ counts[validated[m]] = 0
  IN IF already THEN base ELSE [base EXCEPT ![cfg] = @ + 1]

Recounted(m, cfg) ==
  LET reset == Conflicts(m, cfg) # {}
      base == IF reset THEN [c \in Configs |-> IF c = cfg THEN aliases ELSE 0]
                       ELSE Without(m)
      already == /\ validated[m] # None
                 /\ reset \/ counts[validated[m]] = 0
  IN IF already THEN base ELSE [base EXCEPT ![cfg] = @ + 1]

(* _validate_shared_model_family_config, once it accepts *)
Register(m, cfg) ==
  /\ IF Known(m, cfg) THEN UNCHANGED <<validated, counts, aliases>>
     ELSE /\ sweep = None
          /\ validated' = [validated EXCEPT ![m] = cfg]
          /\ counts' = Recounted(m, cfg)
          /\ aliases' = aliases + (IF validated[m] = None THEN 1 ELSE 0)
  /\ UNCHANGED representative

-----------------------------------------------------------------------------
(* How a call comes to its backend *)

(* acquire_capacity, record_usage: the config is read and tried against    *)
(* the registry; the usage is counted only then                            *)
Resolve(t, m) ==
  /\ At(t, "idle")
  /\ Accepts(m, source[m])
  /\ call' = [call EXCEPT ![t] = [NoCall EXCEPT !.pc = "resolved",
                 !.kind = "acquire", !.model = m, !.cfg = source[m]]]
  /\ UNCHANGED <<worldVars, registryVars, backendVars, lock, left, sweepVars>>

(* _begin_pending_acquire *)
BeginPending(t) ==
  /\ At(t, "resolved")
  /\ Goto(t, "begun")
  /\ UNCHANGED <<worldVars, registryVars, backendVars, lock, left, sweepVars>>

(* The registry takes the model, and _get_backend reads the backend *)
Validate(t) ==
  /\ At(t, "begun")
  /\ Accepts(call[t].model, call[t].cfg)
  /\ Register(call[t].model, call[t].cfg)
  /\ call' = [call EXCEPT ![t].pc = "probing", ![t].gen = backend.gen,
                          ![t].epoch = backend.epoch]
  /\ UNCHANGED <<worldVars, backendVars, lock, left, sweepVars>>

(* The config conflicts by now: _rollback_pending_acquire *)
Conflict(t) ==
  /\ At(t, "begun")
  /\ sweep = None
  /\ ~Accepts(call[t].model, call[t].cfg)
  /\ call' = [call EXCEPT ![t] = NoCall]
  /\ UNCHANGED <<worldVars, registryVars, backendVars, lock, left, sweepVars>>

Warm(t) == call[t].gen # 0 /\ quotas = call[t].cfg

(* What a call does once it has its backend *)
Onward(t) == IF call[t].kind = "set_max" THEN "writing" ELSE "serving"

(* A call with a reservation to refund.  It credits whatever backend the   *)
(* family has then.                                                        *)
Holding(t, pc) == [NoCall EXCEPT !.pc = pc, !.kind = "refund",
                                 !.model = call[t].model,
                                 !.epoch = call[t].epoch]

(* A call with its backend in hand *)
With(t, b) ==
  IF call[t].kind = "refund" THEN Holding(t, "crediting")
  ELSE [call[t] EXCEPT !.pc = Onward(t), !.gen = b.gen, !.epoch = b.epoch,
                       !.base = 0, !.old = None, !.todo = {}]

(* The unlocked path of _get_backend *)
Reuse(t) ==
  /\ At(t, "probing")
  /\ Warm(t)
  /\ call' = [call EXCEPT ![t] = With(t, [gen |-> call[t].gen,
                                          epoch |-> call[t].epoch])]
  /\ UNCHANGED <<worldVars, registryVars, backendVars, lock, left, sweepVars>>

Miss(t) ==
  /\ At(t, "probing")
  /\ ~Warm(t)
  /\ Goto(t, "locking")
  /\ UNCHANGED <<worldVars, registryVars, backendVars, lock, left, sweepVars>>

(* Within the lock of _get_backend or set_max_capacity *)
Locking(t) == At(t, "locking") /\ lock = None

(* set_max_capacity keeps the lock *)
Obtained(t, b) ==
  /\ call' = [call EXCEPT ![t] = With(t, b)]
  /\ lock' = IF call[t].kind = "set_max" THEN t ELSE None

(* A call whose way to a backend raised: an acquire is rolled back, a      *)
(* refund goes on with what is cached                                      *)
Raised(t) ==
  /\ call' = [call EXCEPT ![t] = IF @.kind = "refund"
                                 THEN Holding(t, "crediting") ELSE NoCall]
  /\ lock' = None

(* The lock is kept over a call of the backend; old_snapshot is local *)
Enter(t, pc, todo) ==
  /\ call' = [call EXCEPT ![t].pc = pc, ![t].gen = backend.gen,
                          ![t].base = backend.epoch, ![t].old = quotas,
                          ![t].todo = todo]
  /\ lock' = t

StartBuild(t) ==
  /\ Locking(t) /\ backend = NoBackend /\ call[t].kind # "set_max"
  /\ Enter(t, "building", {})
  /\ UNCHANGED <<worldVars, registryVars, backendVars, left, sweepVars>>

(* Backends are named by what is left of the bound *)
NextGen == left.builds

FinishBuild(t) ==
  /\ At(t, "building")
  /\ Spend("builds")
  /\ backend' = [gen |-> NextGen, epoch |-> NextGen, limit |-> call[t].cfg]
  /\ quotas' = call[t].cfg
  /\ torn' = {}
  /\ Obtained(t, backend')
  /\ UNCHANGED <<worldVars, registryVars, overrides, sweepVars>>

FailBuild(t) ==
  /\ At(t, "building")
  /\ Spend("faults")
  /\ Raised(t)
  /\ UNCHANGED <<worldVars, registryVars, backendVars, sweepVars>>

-----------------------------------------------------------------------------
(* _sync_backend_quotas *)

Synchronized(t) ==
  /\ Locking(t) /\ backend # NoBackend
  /\ call[t].cfg = quotas
  /\ Obtained(t, backend)
  /\ UNCHANGED <<worldVars, registryVars, backendVars, left, sweepVars>>

SetChanges(t) ==
  Locking(t) /\ backend # NoBackend /\ DOMAIN call[t].cfg # DOMAIN quotas

(* Mistake: the delivered reservations are looked at instead *)
OthersDelivered(t) == (InFlight \ Pending) \ {t}

OthersPending(t) == Pending \ {t}

RefuseRebuild(t) ==
  /\ SetChanges(t)
  /\ OthersPending(t) # {}
  /\ Raised(t)
  /\ UNCHANGED <<worldVars, registryVars, backendVars, left, sweepVars>>

(* The snapshot goes, so that later calls come to the lock *)
StartRebuild(t) ==
  /\ SetChanges(t)
  /\ OthersPending(t) = {}
  /\ quotas' = None
  /\ Enter(t, "rebuilding", {})
  /\ UNCHANGED <<worldVars, registryVars, backend, overrides, torn, left,
                 sweepVars>>

(* Overrides of buckets whose configured limit does not change *)
Surviving(t) ==
  {b \in DOMAIN overrides \cap DOMAIN call[t].cfg \cap DOMAIN call[t].old :
     call[t].cfg[b] = call[t].old[b]}

(* _restore_runtime_max_capacity *)
Restored(t) == Restrict(overrides, Surviving(t))

(* _cfg_with_preserved_runtime_max_capacity *)
Preserved(t) ==
  [b \in DOMAIN call[t].cfg |->
     IF b \in Surviving(t) THEN overrides[b] ELSE call[t].cfg[b]]

(* The backend is built with the preserved limits, takes over the state of *)
(* the old one and has the surviving overrides restored.                   *)
FinishRebuild(t) ==
  /\ At(t, "rebuilding")
  /\ Spend("builds")
  /\ overrides' = Restored(t)
  /\ backend' = [gen |-> NextGen, epoch |-> call[t].base,
                 limit |-> Preserved(t)]
  /\ quotas' = call[t].cfg
  /\ torn' = {}
  /\ Obtained(t, backend')
  /\ UNCHANGED <<worldVars, registryVars, sweepVars>>

FailRebuild(t) ==
  /\ At(t, "rebuilding")
  /\ Spend("faults")
  /\ quotas' = call[t].old
  /\ Raised(t)
  /\ UNCHANGED <<worldVars, registryVars, backend, overrides, torn, sweepVars>>

Changed(t, old) == {b \in DOMAIN old : call[t].cfg[b] # old[b]}

StartApplying(t) ==
  /\ Locking(t) /\ backend # NoBackend
  /\ call[t].cfg # quotas /\ DOMAIN call[t].cfg = DOMAIN quotas
  /\ Enter(t, "applying", Changed(t, quotas))
  /\ UNCHANGED <<worldVars, registryVars, backendVars, left, sweepVars>>

(* A backend that was evicted meanwhile is written to all the same *)
Limited(t, b, value) ==
  IF backend.gen = call[t].gen THEN [backend EXCEPT !.limit[b] = value]
  ELSE backend

(* apply_configured_max_capacity of one bucket *)
ApplyLimit(t, b) ==
  /\ At(t, "applying") /\ b \in call[t].todo
  /\ backend' = Limited(t, b, call[t].cfg[b])
  /\ call' = [call EXCEPT ![t].todo = @ \ {b}]
  /\ UNCHANGED <<worldVars, registryVars, quotas, overrides, torn, lock, left,
                 sweepVars>>

(* Mistake: the overrides of the buckets that changed stay in the table *)
FinishApplyingOnly(t) ==
  /\ At(t, "applying") /\ call[t].todo = {}
  /\ quotas' = call[t].cfg
  /\ torn' = torn \ Changed(t, call[t].old)
  /\ Obtained(t, [gen |-> call[t].gen, epoch |-> call[t].base])
  /\ UNCHANGED <<worldVars, registryVars, backend, overrides, left, sweepVars>>

FinishApplying(t) ==
  /\ At(t, "applying") /\ call[t].todo = {}
  /\ overrides' = Restrict(overrides,
                           DOMAIN overrides \ Changed(t, call[t].old))
  /\ quotas' = call[t].cfg
  /\ torn' = torn \ Changed(t, call[t].old)
  /\ Obtained(t, [gen |-> call[t].gen, epoch |-> call[t].base])
  /\ UNCHANGED <<worldVars, registryVars, backend, left, sweepVars>>

FailApplying(t) ==
  /\ At(t, "applying") /\ call[t].todo # {}
  /\ Spend("faults")
  /\ torn' = torn \cup (Changed(t, call[t].old) \ call[t].todo)
  /\ Raised(t)
  /\ UNCHANGED <<worldVars, registryVars, backend, quotas, overrides,
                 sweepVars>>

-----------------------------------------------------------------------------
(* set_max_capacity *)

SetMax(t, m, b, value) ==
  /\ At(t, "idle")
  /\ Spend("sets")
  /\ Accepts(m, source[m]) /\ Register(m, source[m])
  /\ call' = [call EXCEPT ![t] =
       [NoCall EXCEPT !.pc = "locking", !.kind = "set_max", !.model = m,
                      !.cfg = source[m], !.bucket = b, !.value = value]]
  /\ UNCHANGED <<worldVars, backendVars, lock, sweepVars>>

NothingToSet(t) ==
  /\ Locking(t) /\ backend = NoBackend /\ call[t].kind = "set_max"
  /\ Raised(t)
  /\ UNCHANGED <<worldVars, registryVars, backendVars, left, sweepVars>>

(* _commit_runtime_max_capacity *)
Remember(t) ==
  /\ representative' = call[t].model
  /\ overrides' = [b \in DOMAIN overrides \cup {call[t].bucket} |->
                     IF b = call[t].bucket THEN call[t].value
                     ELSE overrides[b]]

(* The write is done, and seen to be: by its return, or by the reader that *)
(* looks again after it raised or was cancelled                            *)
WriteMax(t) ==
  /\ At(t, "writing") /\ call[t].bucket \in DOMAIN call[t].cfg
  /\ backend' = Limited(t, call[t].bucket, call[t].value)
  /\ torn' = torn \ {call[t].bucket}
  /\ Remember(t)
  /\ call' = [call EXCEPT ![t] = NoCall] /\ lock' = None
  /\ UNCHANGED <<worldVars, validated, counts, aliases, quotas, left,
                 sweepVars>>

(* It raises; if it was done all the same, the reader raised too *)
FailWrite(t, done) ==
  /\ At(t, "writing") /\ call[t].bucket \in DOMAIN call[t].cfg
  /\ Spend("faults")
  /\ backend' = IF done THEN Limited(t, call[t].bucket, call[t].value)
                ELSE backend
  /\ torn' = IF done THEN torn \cup {call[t].bucket} ELSE torn
  /\ call' = [call EXCEPT ![t] = NoCall] /\ lock' = None
  /\ UNCHANGED <<worldVars, registryVars, quotas, overrides, sweepVars>>

(* The backend has no such bucket *)
UnknownBucket(t) ==
  /\ At(t, "writing") /\ call[t].bucket \notin DOMAIN call[t].cfg
  /\ call' = [call EXCEPT ![t] = NoCall] /\ lock' = None
  /\ UNCHANGED <<worldVars, registryVars, backendVars, left, sweepVars>>

-----------------------------------------------------------------------------
(* What becomes of a reservation *)

(* await_for_capacity returns: _finalize_pending_acquire *)
Deliver(t) ==
  /\ At(t, "serving")
  /\ call' = [call EXCEPT ![t] = Holding(t, "held")]
  /\ representative' = call[t].model
  /\ UNCHANGED <<worldVars, validated, counts, aliases, backendVars, lock,
                 left, sweepVars>>

(* It raises: _rollback_pending_acquire *)
GiveUp(t) ==
  /\ At(t, "serving")
  /\ call' = [call EXCEPT ![t] = NoCall]
  /\ UNCHANGED <<worldVars, registryVars, backendVars, lock, left, sweepVars>>

(* refund_capacity: _refresh_backend_for_reservation reads the config *)
Refresh(t) ==
  /\ At(t, "held")
  /\ call' = [call EXCEPT ![t].pc = "probing",
                          ![t].cfg = source[call[t].model],
                          ![t].gen = backend.gen]
  /\ UNCHANGED <<worldVars, registryVars, backendVars, lock, left, sweepVars>>

(* The backend has its credit: _commit_refund_state *)
Credit(t) ==
  /\ At(t, "crediting")
  /\ call' = [call EXCEPT ![t] = NoCall]
  /\ UNCHANGED <<worldVars, registryVars, backendVars, lock, left, sweepVars>>

-----------------------------------------------------------------------------
(* clear_unused_model_families, with nothing unused for too short a time *)

(* Mistake: reservations already delivered do not count *)
ScanPending ==
  /\ MayRun({}) /\ sweep = None /\ Spend("sweeps")
  /\ Pending = {}
  /\ sweep' = "scanned"
  /\ UNCHANGED <<worldVars, registryVars, backendVars, lock, call, overtaken>>

(* The family is idle: nothing of it is in flight *)
Scan ==
  /\ MayRun({}) /\ sweep = None /\ Spend("sweeps")
  /\ InFlight = {}
  /\ sweep' = "scanned"
  /\ UNCHANGED <<worldVars, registryVars, backendVars, lock, call, overtaken>>

(* Its rows go.  RateLimiter does both in one step; the threads of         *)
(* SyncRateLimiter may have begun an acquire in between.  Neither takes    *)
(* _lock.                                                                  *)
Evict ==
  /\ sweep = "scanned"
  /\ sweep' = None
  /\ validated' = [m \in Models |-> None]
  /\ counts' = [c \in Configs |-> 0]
  /\ aliases' = 0
  /\ representative' = None
  /\ backend' = NoBackend
  /\ quotas' = None
  /\ overrides' = Empty
  /\ torn' = {}
  /\ overtaken' = overtaken
        \cup (IF InFlight # {} THEN {"acquire"} ELSE {})
        \cup (IF \E t \in Callers : lock = t /\ call[t].kind = "set_max"
              THEN {"set_max"} ELSE {})
  /\ UNCHANGED <<worldVars, lock, call, left>>

-----------------------------------------------------------------------------
Step(t) ==
  \/ \E m \in models : Resolve(t, m)
  \/ BeginPending(t) \/ Validate(t) \/ Conflict(t)
  \/ Reuse(t) \/ Miss(t) \/ StartBuild(t) \/ FinishBuild(t) \/ FailBuild(t)
  \/ Synchronized(t)
  \/ RefuseRebuild(t) \/ StartRebuild(t) \/ FinishRebuild(t) \/ FailRebuild(t)
  \/ StartApplying(t) \/ (\E b \in Buckets : ApplyLimit(t, b))
  \/ FinishApplying(t) \/ FailApplying(t)
  \/ \E m \in models, b \in Adjusted, value \in Values : SetMax(t, m, b, value)
  \/ NothingToSet(t) \/ WriteMax(t) \/ UnknownBucket(t)
  \/ \E done \in BOOLEAN : FailWrite(t, done)
  \/ Deliver(t) \/ GiveUp(t) \/ Refresh(t) \/ Credit(t)

Next ==
  \/ \E t \in Callers : Step(t)
  \/ \E ms \in SUBSET models, c \in Configs : Rollout(ms, c)
  \/ Scan \/ Evict

Spec == Init /\ [][Next]_vars

-----------------------------------------------------------------------------
(* The registry knows a family by one signature, that of the last model it *)
(* took, and counts every alias of the family under it, however often the  *)
(* models change their configs, one after another or together              *)
(* (_validate_shared_model_family_config).                                 *)
OneSignature ==
  /\ aliases = Cardinality({m \in Models : validated[m] # None})
  /\ aliases > 0 => \E m \in Models : /\ validated[m] # None
                                      /\ counts[validated[m]] = aliases
  /\ \A c, d \in Configs : counts[c] > 0 /\ counts[d] > 0 => c = d

(* An acquire in its backend has the family's backend, with the buckets    *)
(* its reservation was scoped to: no other call rebuilds it for another    *)
(* set of buckets until the acquire is over (the guard of                  *)
(* _sync_backend_quotas).                                                  *)
Served(t) ==
  call[t].gen = backend.gen /\ DOMAIN backend.limit = DOMAIN call[t].cfg

ServedInScope ==
  limiter = "async" => \A t \in Callers : call[t].pc = "serving" => Served(t)

(* A reservation in flight keeps its backend: a rebuild carries it on, and *)
(* clear_unused_model_families leaves it alone.                            *)
ReservationsKeepBackend ==
  limiter = "async" =>
    \A t \in Callers : call[t].kind = "refund" => call[t].epoch = backend.epoch

(* Whenever nobody holds _lock, a bucket works with the limit the limiter  *)
(* remembers for it: its runtime override, or else the snapshot.  Excepted *)
(* are the buckets of a refresh that raised half-way, an override written  *)
(* by a call that raised, and evictions during set_max_capacity.           *)
LimitsInForce ==
  lock = None /\ backend # NoBackend /\ overtaken = {} =>
    \A b \in DOMAIN quotas \ torn :
      backend.limit[b] = IF b \in DOMAIN overrides THEN overrides[b]
                         ELSE quotas[b]

=============================================================================
