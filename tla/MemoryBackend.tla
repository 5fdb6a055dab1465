--------------------------- MODULE MemoryBackend ---------------------------
(***************************************************************************)
(* The in-memory backend of one model family, in both its forms: tasks of  *)
(* MemoryBackend (token_throttle/_limiter_backends/_memory/_backend.py)    *)
(* and threads of SyncMemoryBackend (_sync_backend.py), which run the same *)
(* critical sections under one condition variable.                         *)
(*                                                                         *)
(* A task here is one call of await_for_capacity, consume_capacity,        *)
(* refund_capacity_for_buckets or set_max_capacity.  Each critical section *)
(* is one step.  A thread may be switched out between what a call does     *)
(* before it takes the lock and the section itself, so those are two       *)
(* steps; an asyncio task is not (nobody ever suspends with the condition  *)
(* locked, so "async with self._condition" never suspends either), and its *)
(* behaviours are those of the model in which the two steps are adjacent.  *)
(* An asyncio task suspended on the condition or in a callback may be      *)
(* cancelled there; a callback of a thread may raise.                      *)
(*                                                                         *)
(* A wait on the condition ends by notify_all or by the poll timeout of at *)
(* most MAX_CROSS_WORKER_POLL seconds, so Wake is always possible and the  *)
(* notification changes when a waiter looks again, never whether.          *)
(*                                                                         *)
(* A deadline is measured by time.monotonic(), whose readings say nothing  *)
(* about time.time(): a call may have one, and may find it passed at any   *)
(* of the points where the code looks.                                     *)
(***************************************************************************)
EXTENDS Capacity, Sequences, Functions

CONSTANTS
  Buckets,      \* bucket ids (metric, per_seconds)
  Metrics,      \* metric names
  MetricOf,     \* the metric of a bucket id
  PerSeconds,   \* the window of a bucket id
  Configs,      \* quota sets a callable config may return: bucket id -> limit
  StartConfig,  \* the quota set the backend is built with
  Limits,       \* values passed to set_max_capacity
  Tasks,        \* concurrent calls
  MaxIds,       \* bound: reservation ids handed out
  Usages,       \* usages callers ask for: metric -> tokens
  Actuals,      \* actual usages callers report: metric -> tokens
  RefundedCap,  \* REFUNDED_RESERVATION_IDS_CAP
  MaxElapsed,   \* bound: seconds a bucket is left untouched
  MaxSkew,      \* bound: seconds the wall clock may be set back
  MaxStored,    \* bound: capacity kept in a bucket when its limit changes
  MaxGen,       \* bound: times a bucket id is built anew
  Replays       \* reservation ids that callers use more than once

ASSUME ShapeAssumption ==
  /\ MetricOf \in [Buckets -> Metrics]
  /\ PerSeconds \in [Buckets -> Nat \ {0}]
  /\ \A c \in Configs : /\ DOMAIN c \subseteq Buckets
                        /\ \A b \in DOMAIN c : c[b] \in Nat \ {0}
  /\ StartConfig \in Configs
  /\ Limits \subseteq Nat \ {0}
  /\ Usages \subseteq [Metrics -> Nat]
  /\ Actuals \subseteq [Metrics -> Nat]

ASSUME BoundAssumption ==
  /\ MaxIds \in Nat \ {0}
  /\ RefundedCap \in Nat \ {0}
  /\ MaxElapsed \in Nat
  /\ MaxSkew \in Nat
  /\ MaxStored \in Nat
  /\ MaxGen \in Nat \ {0}
  /\ Replays \subseteq Nat

VARIABLES
  bucket,    \* the MemoryBucket objects now installed
  active,    \* ids of the installed buckets
  gen,       \* which object an id names: counts the objects built for it
  live,      \* _acquired_reservation_ids
  value,     \* _acquired_reservation_values, as the caller's copy too
  refunded,  \* _refunded_reservation_id_order, oldest first
  waiters,   \* keys of _diagnostic_waiters
  task,      \* the calls in progress
  issued,    \* reservation ids handed out so far (uuid4 in the limiter)
  held,      \* the caller's view: "no", "held" or "closed"
  recorded   \* ids charged by consume_capacity

vars == <<bucket, active, gen, live, value, refunded, waiters, task, issued,
          held, recorded>>

Ids == 1..MaxIds
NoId == 0
NoUsage == [m \in Metrics |-> 0]
NoValue == [scope |-> {}, usage |-> NoUsage, keys |-> {}]

(* Where a call is: queueing for the condition ("try"), in the             *)
(* on_wait_start callback, on the condition, in the finally block that     *)
(* drops the waiter row, in the callbacks after consumption, in the        *)
(* shielded cleanup, past a consume_capacity, about to commit a refund or  *)
(* a new limit.                                                            *)
PCs == {"idle", "try", "wait_start", "waiting", "unregister", "callbacks",
        "undo", "record", "refund", "set_max"}

Task == [pc : PCs, id : Ids \cup {NoId}, usage : [Metrics -> Nat],
         keys : SUBSET Metrics, reg : BOOLEAN,
         out : {"none", "consumed", "replayed", "failed"},
         objs : SUBSET (Buckets \X Nat), scope : SUBSET Buckets,
         limit : Nat]

Idle == [pc |-> "idle", id |-> NoId, usage |-> NoUsage, keys |-> {},
         reg |-> FALSE, out |-> "none", objs |-> {}, scope |-> {}, limit |-> 0]

Value == [scope : SUBSET Buckets, usage : [Metrics -> Nat],
          keys : SUBSET Metrics]

-----------------------------------------------------------------------------
(* Reads made under the condition *)

ActiveMetrics == {MetricOf[b] : b \in active}

Avail(b) == calculate_capacity(bucket[b], PerSeconds[b])

Scaled(b, tokens) == tokens * PerSeconds[b]

(* What a usage takes from bucket b: nothing when it does not name b's     *)
(* metric.                                                                 *)
Take(b, usage, keys) ==
  IF MetricOf[b] \in keys THEN Scaled(b, usage[MetricOf[b]]) ELSE 0

MarkerValue(t) == [scope |-> active, usage |-> task[t].usage,
                   keys |-> task[t].keys]

(* _is_replayed_acquire *)
IsReplay(r, v) == r \in live /\ value[r] = v
(* Mistake: forgetting the ids that were refunded *)
IsDuplicateOpen(r, v) == r \in live /\ value[r] # v
IsDuplicate(r, v) == \/ r \in live /\ value[r] # v
                     \/ r \notin live /\ r \in Range(refunded)

(* Mistake: trusting a request that was checked when the call began *)
ImpossibleMetric(t) == ~ (task[t].keys \subseteq ActiveMetrics)

(* The checks of _try_consume_locked *)
ImpossibleUsage(t) ==
  \/ ~ (task[t].keys \subseteq ActiveMetrics)
  \/ \E b \in active : /\ MetricOf[b] \in task[t].keys
                       /\ task[t].usage[MetricOf[b]] > bucket[b].max

Sufficient(t) ==
  \A b \in active : MetricOf[b] \in task[t].keys =>
                      Take(b, task[t].usage, task[t].keys) <= Avail(b)

-----------------------------------------------------------------------------
Init ==
  /\ active = DOMAIN StartConfig
  /\ bucket = [b \in Buckets |-> IF b \in DOMAIN StartConfig
                                   THEN NewBucket(StartConfig[b])
                                   ELSE NewBucket(1)]
  /\ gen = [b \in Buckets |-> IF b \in DOMAIN StartConfig THEN 1 ELSE 0]
  /\ live = {}
  /\ value = [r \in Ids |-> NoValue]
  /\ refunded = <<>>
  /\ waiters = {}
  /\ task = [t \in Tasks |-> Idle]
  /\ issued = 0
  /\ held = [r \in Ids |-> "no"]
  /\ recorded = {}

(* A caller takes a new id, or presents an old one again. *)
TakesId(r) ==
  /\ r = issued + 1 \/ (r \in Replays /\ r <= issued)
  /\ issued' = Greater(issued, r)

(* await_for_capacity *)
AwaitCall(t, r, u) ==
  /\ task[t].pc = "idle"
  /\ TakesId(r)
  /\ task' = [task EXCEPT ![t] = [Idle EXCEPT !.pc = "try", !.id = r,
                                              !.usage = u,
                                              !.keys = ActiveMetrics]]
  /\ UNCHANGED <<bucket, active, gen, live, value, refunded, waiters, held,
                 recorded>>

(* Mistake: a finally block that forgets whose row it drops *)
LeavingNameless(t, out) ==
  IF task[t].reg THEN [Idle EXCEPT !.pc = "unregister", !.out = out] ELSE Idle

(* How a call ends: through the finally block when it registered a waiter, *)
(* else at once.                                                           *)
Leaving(t, out) ==
  IF task[t].reg THEN [task[t] EXCEPT !.pc = "unregister", !.out = out]
  ELSE Idle

Raise(t) ==
  /\ task' = [task EXCEPT ![t] = Leaving(t, "failed")]
  /\ UNCHANGED <<bucket, active, gen, live, value, refunded, waiters, issued,
                 held, recorded>>

(* An identical replay of a live reservation succeeds without consuming.   *)
TryReplay(t) ==
  LET r == task[t].id IN
  /\ task[t].pc = "try"
  /\ IsReplay(r, MarkerValue(t))
  /\ task' = [task EXCEPT ![t] = Leaving(t, "replayed")]
  /\ held' = IF task[t].reg THEN held ELSE [held EXCEPT ![r] = "held"]
  /\ UNCHANGED <<bucket, active, gen, live, value, refunded, waiters, issued,
                 recorded>>

TryReject(t) ==
  /\ task[t].pc = "try"
  /\ ~ IsReplay(task[t].id, MarkerValue(t))
  /\ IsDuplicate(task[t].id, MarkerValue(t)) \/ ImpossibleUsage(t)
  /\ Raise(t)

Tryable(t) == /\ task[t].pc = "try"
              /\ ~ IsReplay(task[t].id, MarkerValue(t))
              /\ ~ IsDuplicate(task[t].id, MarkerValue(t))
              /\ ~ ImpossibleUsage(t)

(* Every installed bucket is written back, those the usage does not name   *)
(* too; the reservation is recorded in the same critical section.          *)
ConsumedBucket(t, b) ==
  set_capacity(bucket[b], Avail(b) - Take(b, task[t].usage, task[t].keys),
               FALSE)

TryConsume(t) ==
  LET r == task[t].id IN
  /\ Tryable(t)
  /\ Sufficient(t)
  /\ live' = live \cup {r}
  /\ value' = [value EXCEPT ![r] = MarkerValue(t)]
  /\ bucket' = [b \in Buckets |-> IF b \in active THEN ConsumedBucket(t, b)
                                                   ELSE bucket[b]]
  /\ task' = [task EXCEPT ![t] =
       [@ EXCEPT !.pc = IF task[t].reg THEN "unregister" ELSE "callbacks",
                 !.out = "consumed",
                 !.objs = {<<b, gen[b]>> : b \in active}]]
  /\ held' = [held EXCEPT ![r] = "no"]
  /\ UNCHANGED <<active, gen, refunded, waiters, issued, recorded>>

(* Not enough: the call registers as a waiter, gives up when its deadline  *)
(* has passed, fires on_wait_start outside the condition the first time    *)
(* and waits on the condition afterwards.                                  *)
TryWait(t) ==
  /\ Tryable(t)
  /\ ~ Sufficient(t)
  /\ waiters' = waiters \cup {task[t].id}
  /\ \/ task' = [task EXCEPT ![t] =
          [@ EXCEPT !.reg = TRUE,
                    !.pc = IF task[t].reg THEN "waiting" ELSE "wait_start"]]
     \/ task' = [task EXCEPT ![t] =
          [@ EXCEPT !.reg = TRUE, !.pc = "unregister", !.out = "failed"]]
  /\ UNCHANGED <<bucket, active, gen, live, value, refunded, issued, held,
                 recorded>>

Resume(t, from) ==
  /\ task[t].pc = from
  /\ task' = [task EXCEPT ![t] = [@ EXCEPT !.pc = "try"]]
  /\ UNCHANGED <<bucket, active, gen, live, value, refunded, waiters, issued,
                 held, recorded>>

WaitStartReturns(t) == Resume(t, "wait_start")
Wake(t) == Resume(t, "waiting")

(* A cancellation, or the callback's deadline, before anything is consumed *)
Interrupt(t) ==
  /\ task[t].pc \in {"wait_start", "waiting"}
  /\ Raise(t)

(* The finally block drops the waiter row under the condition. *)
Unregister(t) ==
  LET r == task[t].id IN
  /\ task[t].pc = "unregister"
  /\ waiters' = waiters \ {r}
  /\ task' = [task EXCEPT ![t] =
                IF task[t].out = "consumed"
                  THEN [task[t] EXCEPT !.pc = "callbacks", !.reg = FALSE]
                  ELSE Idle]
  /\ held' = IF task[t].out = "replayed" THEN [held EXCEPT ![r] = "held"]
                                         ELSE held
  /\ UNCHANGED <<bucket, active, gen, live, value, refunded, issued, recorded>>

(* Mistake: the cleanup in a finally block instead of an except block *)
CallbacksReturnUndone(t) ==
  /\ task[t].pc = "callbacks"
  /\ held' = [held EXCEPT ![task[t].id] = "held"]
  /\ task' = [task EXCEPT ![t] = [@ EXCEPT !.pc = "undo"]]
  /\ UNCHANGED <<bucket, active, gen, live, value, refunded, waiters, issued,
                 recorded>>

(* The callbacks return and the caller gets its reservation. *)
CallbacksReturn(t) ==
  /\ task[t].pc = "callbacks"
  /\ held' = [held EXCEPT ![task[t].id] = "held"]
  /\ task' = [task EXCEPT ![t] = Idle]
  /\ UNCHANGED <<bucket, active, gen, live, value, refunded, waiters, issued,
                 recorded>>

(* Mistake: no cleanup *)
InterruptCallbacksOnly(t) ==
  /\ task[t].pc = "callbacks"
  /\ task' = [task EXCEPT ![t] = Idle]
  /\ UNCHANGED <<bucket, active, gen, live, value, refunded, waiters, issued,
                 held, recorded>>

(* A cancellation or critical exception inside a callback starts the       *)
(* shielded cleanup, which later cancellations cannot stop.                *)
InterruptCallbacks(t) ==
  /\ task[t].pc = "callbacks"
  /\ task' = [task EXCEPT ![t] = [@ EXCEPT !.pc = "undo"]]
  /\ UNCHANGED <<bucket, active, gen, live, value, refunded, waiters, issued,
                 held, recorded>>

(* Mistake: the cleanup forgets the id and keeps the tokens *)
UndoneMarkerOnly(t, b) == set_capacity(bucket[b], Avail(b), TRUE)

(* _refund_cancelled_consumption works on the bucket objects captured when *)
(* the capacity was consumed; an object no longer installed is unreachable *)
(* for everybody else.                                                     *)
UndoneBucket(t, b) ==
  LET take == Take(b, task[t].usage, task[t].keys) IN
  set_capacity(bucket[b],
               IF MetricOf[b] \in task[t].keys
                 THEN Lesser(Avail(b) + take, Scaled(b, bucket[b].max))
                 ELSE Avail(b),
               TRUE)

(* Objects a call captured that are still the installed ones *)
Reachable(t) == {b \in active : <<b, gen[b]>> \in task[t].objs}

Undo(t) ==
  /\ task[t].pc = "undo"
  /\ bucket' = [b \in Buckets |->
                  IF b \in Reachable(t) THEN UndoneBucket(t, b)
                                        ELSE bucket[b]]
  /\ live' = live \ {task[t].id}
  /\ task' = [task EXCEPT ![t] = Idle]
  /\ UNCHANGED <<active, gen, value, refunded, waiters, issued, held, recorded>>

-----------------------------------------------------------------------------
(* consume_capacity, the speedometer: never waits, floors at -max_capacity *)

RecordedBucket(b, u, keys) ==
  set_capacity(bucket[b],
               IF MetricOf[b] \in keys
                 THEN Greater(Avail(b) - Take(b, u, keys),
                              - Scaled(b, bucket[b].max))
                 ELSE Avail(b),
               TRUE)

Record(t, r, u) ==
  LET v == [scope |-> active, usage |-> u, keys |-> ActiveMetrics] IN
  /\ task[t].pc = "idle"
  /\ TakesId(r)
  /\ ~ IsDuplicate(r, v)
  /\ IF IsReplay(r, v)
       THEN UNCHANGED <<bucket, live, value, held, recorded>>
       ELSE /\ bucket' = [b \in Buckets |->
                            IF b \in active
                              THEN RecordedBucket(b, u, ActiveMetrics)
                              ELSE bucket[b]]
            /\ live' = live \cup {r}
            /\ value' = [value EXCEPT ![r] = v]
            /\ held' = [held EXCEPT ![r] = "no"]
            /\ recorded' = recorded \cup {r}
  /\ task' = [task EXCEPT ![t] = [Idle EXCEPT !.pc = "record", !.id = r]]
  /\ UNCHANGED <<active, gen, refunded, waiters>>

(* Cancelled callbacks keep the consumption: only the caller's answer is   *)
(* lost.                                                                   *)
RecordReturns(t) ==
  /\ task[t].pc = "record"
  /\ held' \in {held, [held EXCEPT ![task[t].id] = "held"]}
  /\ task' = [task EXCEPT ![t] = Idle]
  /\ UNCHANGED <<bucket, active, gen, live, value, refunded, waiters, issued,
                 recorded>>

-----------------------------------------------------------------------------
(* refund_capacity_for_buckets: the bucket scope is validated against the  *)
(* installed buckets before the condition is taken, so it may be stale at  *)
(* the commit.                                                             *)

RefundCall(t, r, actual) ==
  /\ task[t].pc = "idle"
  /\ held[r] # "no"
  /\ {MetricOf[b] : b \in value[r].scope \cap active} \subseteq value[r].keys
  /\ task' = [task EXCEPT ![t] = [Idle EXCEPT
                !.pc = "refund", !.id = r, !.usage = actual,
                !.keys = value[r].keys,
                !.scope = value[r].scope \cap active]]
  /\ UNCHANGED <<bucket, active, gen, live, value, refunded, waiters, issued,
                 held, recorded>>

RefundAmount(t, b) ==
  Take(b, value[task[t].id].usage, task[t].keys)
    - Take(b, task[t].usage, task[t].keys)

RefundedBucket(t, b) ==
  LET full == Scaled(b, bucket[b].max) IN
  set_capacity(bucket[b],
               Greater(- full, Lesser(Avail(b) + Greater(RefundAmount(t, b),
                                                         - full),
                                      full)),
               TRUE)

(* Mistake: one id too many *)
RememberOneMore(r) ==
  LET longer == IF r \in Range(refunded) THEN refunded ELSE Append(refunded, r)
  IN IF Len(longer) > RefundedCap + 1 THEN Tail(longer) ELSE longer

(* _remember_refunded_reservation_id: FIFO, the oldest beyond the cap go. *)
Remember(r) ==
  LET longer == IF r \in Range(refunded) THEN refunded ELSE Append(refunded, r)
  IN IF Len(longer) > RefundedCap THEN Tail(longer) ELSE longer

(* Mistake: a refund that does not look whether its charge is still open *)
RefundCommitTwice(t) ==
  LET r == task[t].id IN
  /\ task[t].pc = "refund"
  /\ bucket' = [b \in Buckets |-> IF b \in active \cap task[t].scope
                                    THEN RefundedBucket(t, b) ELSE bucket[b]]
  /\ live' = live \ {r}
  /\ refunded' = Remember(r)
  /\ held' = [held EXCEPT ![r] = "closed"]
  /\ task' = [task EXCEPT ![t] = Idle]
  /\ UNCHANGED <<active, gen, value, waiters, issued, recorded>>

RefundCommit(t) ==
  LET r == task[t].id IN
  /\ task[t].pc = "refund"
  /\ r \in live
  /\ bucket' = [b \in Buckets |-> IF b \in active \cap task[t].scope
                                    THEN RefundedBucket(t, b) ELSE bucket[b]]
  /\ live' = live \ {r}
  /\ refunded' = Remember(r)
  /\ held' = [held EXCEPT ![r] = "closed"]
  /\ task' = [task EXCEPT ![t] = Idle]
  /\ UNCHANGED <<active, gen, value, waiters, issued, recorded>>

(* DuplicateRefundError or UnknownReservationError *)
RefundReject(t) ==
  /\ task[t].pc = "refund"
  /\ task[t].id \notin live
  /\ task' = [task EXCEPT ![t] = Idle]
  /\ UNCHANGED <<bucket, active, gen, live, value, refunded, waiters, issued,
                 held, recorded>>

-----------------------------------------------------------------------------
(* set_max_capacity looks its bucket up before it takes the lock. *)

SetMaxCall(t, b, limit) ==
  /\ task[t].pc = "idle"
  /\ b \in active
  /\ task' = [task EXCEPT ![t] = [Idle EXCEPT !.pc = "set_max",
                                              !.objs = {<<b, gen[b]>>},
                                              !.limit = limit]]
  /\ UNCHANGED <<bucket, active, gen, live, value, refunded, waiters, issued,
                 held, recorded>>

SetMaxCommit(t) ==
  /\ task[t].pc = "set_max"
  /\ \A b \in Reachable(t) : Uncapped(bucket[b]) <= MaxStored
  /\ bucket' = [b \in Buckets |->
                  IF b \in Reachable(t)
                    THEN set_max_capacity(bucket[b], task[t].limit)
                    ELSE bucket[b]]
  /\ task' = [task EXCEPT ![t] = Idle]
  /\ UNCHANGED <<active, gen, live, value, refunded, waiters, issued, held,
                 recorded>>

(* prepare_reconfigured_backend: an id that stays keeps its object and     *)
(* takes the new limit, a new id gets a new object, and an id that goes    *)
(* leaves the registry, so coming back it is built anew.                   *)
Reconfigure(cfg) ==
  /\ DOMAIN cfg # active
  /\ \A b \in DOMAIN cfg \ active : gen[b] < MaxGen
  /\ \A b \in DOMAIN cfg \cap active : Uncapped(bucket[b]) <= MaxStored
  /\ bucket' = [b \in Buckets |->
                  IF b \notin DOMAIN cfg THEN NewBucket(1)
                  ELSE IF b \in active THEN set_max_capacity(bucket[b], cfg[b])
                  ELSE NewBucket(cfg[b])]
  /\ gen' = [b \in Buckets |-> IF b \in DOMAIN cfg \ active THEN gen[b] + 1
                                                            ELSE gen[b]]
  /\ active' = DOMAIN cfg
  /\ UNCHANGED <<live, value, refunded, waiters, task, issued, held, recorded>>

(* time.time() moves on a second, or is set back by an NTP correction.     *)
Shift(seconds) ==
  bucket' = [b \in Buckets |->
               IF b \in active /\ ~ bucket[b].fresh
                 THEN [bucket[b] EXCEPT !.elapsed =
                         Greater(- MaxSkew, Lesser(MaxElapsed, @ + seconds))]
                 ELSE bucket[b]]

Tick ==
  /\ \E b \in active : ~ bucket[b].fresh /\ bucket[b].elapsed < MaxElapsed
  /\ Shift(1)
  /\ UNCHANGED <<active, gen, live, value, refunded, waiters, task, issued,
                 held, recorded>>

ClockSetBack ==
  /\ \E b \in active : ~ bucket[b].fresh /\ bucket[b].elapsed > - MaxSkew
  /\ MaxSkew > 0
  /\ Shift(-1)
  /\ UNCHANGED <<active, gen, live, value, refunded, waiters, task, issued,
                 held, recorded>>

-----------------------------------------------------------------------------
Progress(t) ==
  \/ TryReplay(t) \/ TryReject(t) \/ TryConsume(t) \/ TryWait(t)
  \/ WaitStartReturns(t) \/ Wake(t) \/ Unregister(t) \/ CallbacksReturn(t)
  \/ Undo(t) \/ RecordReturns(t) \/ RefundCommit(t) \/ RefundReject(t)
  \/ SetMaxCommit(t)

Cancellation(t) ==
  Interrupt(t) \/ InterruptCallbacks(t)

Call(t) ==
  \/ \E r \in Ids :
       \/ \E u \in Usages : AwaitCall(t, r, u) \/ Record(t, r, u)
       \/ \E a \in Actuals : RefundCall(t, r, a)
  \/ \E b \in Buckets, limit \in Limits : SetMaxCall(t, b, limit)

Next ==
  \/ \E t \in Tasks : Progress(t) \/ Cancellation(t) \/ Call(t)
  \/ \E cfg \in Configs : Reconfigure(cfg)
  \/ Tick
  \/ ClockSetBack

Spec == Init /\ [][Next]_vars

(* A running call is scheduled again and the clock goes on.  Callers need  *)
(* not call, and nothing forces a cancellation, a limit change or a clock  *)
(* correction, of which there are only finitely many.                      *)
FairSpec ==
  /\ Spec
  /\ \A t \in Tasks : WF_vars(Progress(t))
  /\ WF_vars(Tick)
  /\ <>[][~ ClockSetBack]_vars

-----------------------------------------------------------------------------
(* Properties *)

CallsTyped ==
  /\ task \in [Tasks -> Task]
  /\ \A t \in Tasks :
       /\ task[t].pc \notin {"idle", "set_max"} => task[t].id \in Ids
       /\ task[t].pc = "set_max" => task[t].limit \in Limits

(* Buckets keep positive limits through every change of the limit, calls   *)
(* past their start know their id, and the marker tables, the FIFO and the *)
(* waiter rows hold ids that were handed out.                              *)
TypeOK ==
  /\ bucket \in [Buckets -> BucketState]
  /\ active \subseteq Buckets
  /\ gen \in [Buckets -> Nat]
  /\ live \subseteq Ids
  /\ value \in [Ids -> Value]
  /\ refunded \in Seq(Ids)
  /\ waiters \subseteq Ids
  /\ CallsTyped
  /\ issued \in 0..MaxIds
  /\ held \in [Ids -> {"no", "held", "closed"}]
  /\ recorded \subseteq Ids

(* The statuses of the abstract ledger, read off the marker tables *)
LedgerStatus(r) == IF r \in live THEN "live"
                   ELSE IF r \in Range(refunded) THEN "settled" ELSE "absent"

Ledger == INSTANCE ReservationLedger
            WITH Ids <- Ids, Expiry <- FALSE,
                 ledger <- [r \in Ids |-> LedgerStatus(r)]

(* Whatever is replayed, cancelled, reconfigured or evicted, the marker    *)
(* tables of the memory backend only take the steps of the abstract        *)
(* ledger: an id is charged once, settled once by a refund of a charge     *)
(* that is still open, and blocked until the FIFO of refunded ids drops    *)
(* it.                                                                     *)
ImplementsLedger == Ledger!Spec

(* An id is in the table of open charges or in the FIFO of refunded ids,   *)
(* never in both; the FIFO holds each id once and stays within             *)
(* REFUNDED_RESERVATION_IDS_CAP, although ids evicted from it may be       *)
(* issued and refunded again.                                              *)
MarkersDisjoint ==
  /\ live \cap Range(refunded) = {}
  /\ Len(refunded) <= RefundedCap
  /\ \A i, j \in 1..Len(refunded) : refunded[i] = refunded[j] => i = j

(* A reservation a caller was given is one the backend will accept a       *)
(* refund for: no interleaving of cancellations, cleanups and refunds of   *)
(* other calls removes its marker.  Ids that callers use twice are         *)
(* excluded: a replay shares the fate of the call it repeats.              *)
DeliveredIsLive == \A r \in Ids \ Replays : held[r] = "held" => r \in live

(* No charge is orphaned by await_for_capacity: an id that is charged is   *)
(* either in its caller's hands, or its call is still running and will     *)
(* deliver it or undo it, or it was recorded by consume_capacity, whose    *)
(* cancelled callers keep the charge by design.                            *)
NoOrphanCharge ==
  \A r \in live : \/ held[r] = "held"
                  \/ r \in recorded
                  \/ \E t \in Tasks : /\ task[t].id = r
                                      /\ task[t].out = "consumed"

(* Recording usage takes capacity, or takes nothing when the bucket is at  *)
(* its floor: after consume_capacity no installed bucket holds more than   *)
(* it did before.                                                          *)
RecordingNeverCredits ==
  [][\A t \in Tasks, r \in Ids, u \in Usages :
       Record(t, r, u) => \A b \in active : Avail(b)' <= Avail(b)]_vars

(* A call of await_for_capacity never hangs: refill outlasts the deepest   *)
(* debt and requests no limit can ever satisfy are rejected, also after    *)
(* the limits changed under a waiting call.                                *)
CallsReturn ==
  \A t \in Tasks : task[t].pc = "try" ~> task[t].pc = "idle"

=============================================================================
