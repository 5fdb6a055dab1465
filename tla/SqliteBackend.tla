--------------------------- MODULE SqliteBackend ---------------------------
(***************************************************************************)
(* Calls of SqliteBackend (token_throttle/_limiter_backends/_sqlite/       *)
(* _backend.py) and SyncSqliteBackend (_sync_backend.py) in the processes  *)
(* that share one database.                                                *)
(*                                                                         *)
(* A call hands each transaction to its engine's single worker and waits   *)
(* for it.  Cancelling the caller never leaves a transaction half known: a *)
(* queued one is withdrawn, a running one is awaited and, when it charged, *)
(* undone.  So a cancellation is a step before the transaction or a step   *)
(* after it.  A busy database makes a call try again or raise, with        *)
(* nothing changed.                                                        *)
(***************************************************************************)
EXTENDS SqliteEngine

CONSTANTS
  Tasks,        \* concurrent calls
  Actuals,      \* actual usages callers report: metric -> tokens
  Replays       \* reservation ids that callers use more than once

ASSUME CallsAssumption ==
  /\ \A d \in Deployments : /\ d.usages \subseteq [Metrics -> Nat]
                            /\ d.limits \subseteq Nat \ {0}
                            /\ d.initial \subseteq d.engines
                            /\ d.start \in d.configs
                            /\ d.crashes \in Nat
                            /\ d.losses \in Nat
  /\ Actuals \subseteq [Metrics -> Nat]
  /\ Replays \subseteq Nat

VARIABLES
  task,     \* the calls in progress
  issued,   \* reservation ids handed out so far
  held,     \* what callers know of a reservation
  crashes,  \* processes that died so far
  losses    \* databases lost so far

calls == <<task, issued, held, crashes, losses>>
vars == <<store, calls>>

Usages == deployment.usages        \* usages callers ask for
Limits == deployment.limits        \* values passed to set_max_capacity
Initial == deployment.initial      \* engines running at the start
StartConfig == deployment.start    \* their quotas
MaxCrashes == deployment.crashes   \* bound: processes that die
MaxLosses == deployment.losses     \* bound: times the database is lost

(* Waiting for capacity ("try": between or in attempts), in the callbacks  *)
(* after consumption, in the cleanup, past a consume_capacity, a refund    *)
(* queued on the worker.                                                   *)
PCs == {"idle", "try", "callbacks", "undo", "record", "refund"}

NoUsage == [m \in Metrics |-> 0]
Idle == [pc |-> "idle", engine |-> {}, id |-> 0, usage |-> NoUsage]
Task == [pc : PCs, engine : SUBSET Engines, id : 0..MaxIds,
         usage : [Metrics -> Nat]]

(* A reservation is unknown to callers, in a caller's hands, refunded,     *)
(* left with a lost answer, reported as a charge that could not be undone  *)
(* (AcquireRefundFailedError), dropped by a call whose backend was closed  *)
(* under it, or gone with its process.                                     *)
Status == {"no", "held", "closed", "unsure", "failed", "dropped", "crashed"}

(* The caller's copy of the reservation *)
Unknown == [status |-> "no", exp |-> 0, scope |-> {}, usage |-> NoUsage]
Reservation(e, u) == [status |-> "no", exp |-> now + Lifetime,
                      scope |-> Mine(e), usage |-> u]

Init ==
  /\ StoreInit(Initial, StartConfig)
  /\ task = [t \in Tasks |-> Idle]
  /\ issued = 0
  /\ held = [r \in Ids |-> Unknown]
  /\ crashes = 0
  /\ losses = 0

Go(t, pc) == task' = [task EXCEPT ![t].pc = pc]
Done(t) == task' = [task EXCEPT ![t] = Idle]
Answer(r, status) == held' = [held EXCEPT ![r].status = status]

(* A call at pc whose engine e still serves transactions *)
At(t, pc, e) == task[t].pc = pc /\ task[t].engine = {e} /\ Up(e)

TakesId(r) ==
  /\ r = issued + 1 \/ (r \in Replays /\ r <= issued)
  /\ issued' = Greater(issued, r)

-----------------------------------------------------------------------------
(* await_for_capacity *)

AwaitCall(t, e, r, u) ==
  /\ task[t].pc = "idle" /\ Up(e)
  /\ TakesId(r)
  /\ task' = [task EXCEPT ![t] = [pc |-> "try", engine |-> {e}, id |-> r,
                                  usage |-> u]]
  /\ UNCHANGED <<store, held, crashes, losses>>

TryReplay(t, e) ==
  LET r == task[t].id IN
  /\ At(t, "try", e)
  /\ IsReplay(e, r, task[t].usage)
  /\ \E p \in Prunings : LoadOnly(e, p, r)
  /\ held' = [held EXCEPT ![r] = [exp |-> marker[r].exp, status |-> "held",
                                  scope |-> Mine(e), usage |-> task[t].usage]]
  /\ Done(t)
  /\ UNCHANGED <<issued, crashes, losses>>

TryReject(t, e) ==
  LET r == task[t].id  u == task[t].usage IN
  /\ At(t, "try", e)
  /\ ~ IsReplay(e, r, u)
  /\ IsDuplicate(e, r, u) \/ \E p \in Prunings : Impossible(e, p, u)
  /\ Rollback
  /\ Done(t)
  /\ UNCHANGED <<issued, held, crashes, losses>>

TryConsume(t, e) ==
  LET r == task[t].id  u == task[t].usage IN
  /\ At(t, "try", e)
  /\ \E p \in Prunings : TryCharge(e, p, r, u)
  /\ held' = [held EXCEPT ![r] = Reservation(e, u)]
  /\ Go(t, "callbacks")
  /\ UNCHANGED <<issued, crashes, losses>>

(* Not enough: the repairs are committed and the call tries again after a  *)
(* sleep of at most MAX_CROSS_WORKER_POLL seconds.                         *)
TryWait(t, e) ==
  LET r == task[t].id  u == task[t].usage IN
  /\ At(t, "try", e)
  /\ ~ IsReplay(e, r, u) /\ ~ IsDuplicate(e, r, u)
  /\ \E p \in Prunings :
       /\ ~ Impossible(e, p, u) /\ ~ Sufficient(e, p, u)
       /\ LoadOnly(e, p, r)
  /\ UNCHANGED <<task, issued, held, crashes, losses>>

(* The deadline passes, the caller is cancelled, a callback raises or the  *)
(* backend was closed before a transaction that charges: nothing is left.  *)
GiveUp(t) ==
  /\ task[t].pc = "try"
  /\ Done(t)
  /\ UNCHANGED <<store, issued, held, crashes, losses>>

CallbacksReturn(t) ==
  /\ task[t].pc = "callbacks"
  /\ Answer(task[t].id, "held")
  /\ Done(t)
  /\ UNCHANGED <<store, issued, crashes, losses>>

(* Mistakes: an interrupted call that forgets its reservation, and one     *)
(* that leaves its charge behind                                           *)
InterruptNameless(t) ==
  /\ task[t].pc = "callbacks"
  /\ task' = [task EXCEPT ![t] = [@ EXCEPT !.pc = "undo", !.id = 0]]
  /\ UNCHANGED <<store, issued, held, crashes, losses>>

InterruptSilently(t) ==
  /\ task[t].pc = "callbacks"
  /\ Done(t)
  /\ UNCHANGED <<store, issued, held, crashes, losses>>

(* Cancelled in the transaction that charged, or in the callbacks *)
Interrupt(t) ==
  /\ task[t].pc = "callbacks"
  /\ Go(t, "undo")
  /\ UNCHANGED <<store, issued, held, crashes, losses>>

(* Cancelled in the transaction that charged while close() shut the worker *)
(* down: the cleanup cannot be submitted, and the call raises that error   *)
(* without recording a failure.                                            *)
InterruptClosed(t) ==
  /\ task[t].pc = "callbacks"
  /\ \A e \in task[t].engine : ~ Up(e)
  /\ Answer(task[t].id, "dropped")
  /\ Done(t)
  /\ UNCHANGED <<store, issued, crashes, losses>>

Undo(t, e) ==
  /\ At(t, "undo", e)
  /\ \E p \in Prunings : Cleanup(e, p, task[t].id, task[t].usage)
  /\ Done(t)
  /\ UNCHANGED <<issued, held, crashes, losses>>

(* The cleanup raised: the database stayed busy, the backend was closed,   *)
(* or the marker outlived its lifetime and was pruned.  The failure is     *)
(* recorded for the limiter, which reports it.                             *)
UndoFails(t) ==
  /\ task[t].pc = "undo"
  /\ Rollback
  /\ Answer(task[t].id, "failed")
  /\ Done(t)
  /\ UNCHANGED <<issued, crashes, losses>>

-----------------------------------------------------------------------------
(* consume_capacity; a cancelled caller's charge stands. *)

Record(t, e, r, u) ==
  /\ task[t].pc = "idle" /\ Up(e)
  /\ TakesId(r)
  /\ ~ IsDuplicate(e, r, u)
  /\ \E p \in Prunings :
       IF IsReplay(e, r, u)
         THEN /\ LoadOnly(e, p, r)
              /\ held' = [held EXCEPT ![r] =
                   [Reservation(e, u) EXCEPT !.exp = marker[r].exp]]
         ELSE /\ RecordCharge(e, p, r, u)
              /\ held' = [held EXCEPT ![r] = Reservation(e, u)]
  /\ task' = [task EXCEPT ![t] = [pc |-> "record", engine |-> {e}, id |-> r,
                                  usage |-> u]]
  /\ UNCHANGED <<crashes, losses>>

RecordReturns(t) ==
  /\ task[t].pc = "record"
  /\ \E status \in {"held", "unsure"} : Answer(task[t].id, status)
  /\ Done(t)
  /\ UNCHANGED <<store, issued, crashes, losses>>

-----------------------------------------------------------------------------
(* refund_capacity_for_buckets: queued when called, never withdrawn *)

RefundCall(t, e, r, actual) ==
  /\ task[t].pc = "idle" /\ Up(e)
  /\ held[r].status \in {"held", "unsure", "closed"}
  /\ task' = [task EXCEPT ![t] = [pc |-> "refund", engine |-> {e}, id |-> r,
                                  usage |-> actual]]
  /\ UNCHANGED <<store, issued, held, crashes, losses>>

(* The caller learns of it, or was cancelled while it waited. *)
RefundCommit(t, e) ==
  LET r == task[t].id IN
  /\ At(t, "refund", e)
  /\ \E p \in Prunings : Refund(e, p, r, held[r].scope, held[r].usage,
                                task[t].usage)
  /\ \E status \in {"closed", "unsure"} : Answer(r, status)
  /\ Done(t)
  /\ UNCHANGED <<issued, crashes, losses>>

(* DuplicateRefundError, UnknownReservationError or a busy database *)
RefundReject(t, e) ==
  LET r == task[t].id IN
  /\ At(t, "refund", e)
  /\ Rollback
  /\ held' = IF Refundable(r, held[r].scope, held[r].usage) THEN held
             ELSE [held EXCEPT ![r].status = "closed"]
  /\ Done(t)
  /\ UNCHANGED <<issued, crashes, losses>>

-----------------------------------------------------------------------------
(* Limits, configuration, processes *)

SetMax(e, b, value) ==
  /\ Up(e) /\ b \in Mine(e)
  /\ \E p \in Prunings : set_max_override(e, p, b, value)
  /\ UNCHANGED calls

ApplyConfigured(e, b, value) ==
  /\ Up(e) /\ b \in Mine(e) /\ value # Conf(e)[b]
  /\ engine[e].next = {}
  /\ \E p \in Prunings : apply_configured_max_capacity(e, p, b, value)
  /\ UNCHANGED calls

Settled(e) == \A t \in Tasks : task[t].engine = {e} => task[t].pc # "refund"

Reconfigure(e) ==
  /\ \/ \E f \in Fleet, conf \in Configs : BuildNext(e, f, conf)
     \/ ClearOverrides(e)
     \/ Settled(e) /\ Replace(e)
  /\ UNCHANGED calls

StartProcess(e, conf) == Start(e, conf) /\ UNCHANGED calls

(* aclose, after the drain of the limiter or its timeout *)
Close(e) ==
  /\ Up(e) /\ engine[e].next = {} /\ Settled(e)
  /\ engine' = [engine EXCEPT ![e] = [Down EXCEPT !.status = "closed"]]
  /\ UNCHANGED <<clock, row, marker, tombstone, calls>>

(* The process of an engine dies with its calls; what was committed stays. *)
Crash(e) ==
  LET mine == {t \in Tasks : task[t].engine = {e}} IN
  /\ crashes < MaxCrashes
  /\ Up(e)
  /\ crashes' = crashes + 1
  /\ engine' = [f \in Engines |-> IF f \in {e} \cup engine[e].next THEN Down
                                  ELSE engine[f]]
  /\ task' = [t \in Tasks |-> IF t \in mine THEN Idle ELSE task[t]]
  /\ held' = [r \in Ids |->
                IF \E t \in mine : task[t].id = r /\ task[t].pc # "try"
                  THEN [held[r] EXCEPT !.status = "crashed"] ELSE held[r]]
  /\ UNCHANGED <<clock, row, marker, tombstone, issued, losses>>

Lose ==
  /\ losses < MaxLosses
  /\ losses' = losses + 1
  /\ LoseStore
  /\ UNCHANGED <<task, issued, held, crashes>>

-----------------------------------------------------------------------------
Transaction(t, e) ==
  \/ TryReplay(t, e) \/ TryReject(t, e) \/ TryConsume(t, e) \/ TryWait(t, e)
  \/ Undo(t, e) \/ RefundCommit(t, e) \/ RefundReject(t, e)

Outcome(t) ==
  \/ GiveUp(t) \/ CallbacksReturn(t) \/ Interrupt(t) \/ InterruptClosed(t)
  \/ UndoFails(t) \/ RecordReturns(t)

Call(t, e) ==
  \E r \in Ids :
    \/ \E u \in Usages : AwaitCall(t, e, r, u) \/ Record(t, e, r, u)
    \/ \E a \in Actuals : RefundCall(t, e, r, a)

Operate(e) ==
  \/ \E b \in Buckets, value \in Limits : SetMax(e, b, value)
  \/ \E conf \in Configs :
       \E b \in DOMAIN conf : ApplyConfigured(e, b, conf[b])
  \/ Reconfigure(e)
  \/ \E conf \in Configs : StartProcess(e, conf)
  \/ Close(e)
  \/ Crash(e)

Clock == (Tick \/ ClockSetBack) /\ UNCHANGED calls

Next ==
  \/ \E t \in Tasks : Outcome(t) \/ \E e \in Engines : Transaction(t, e)
                                                       \/ Call(t, e)
  \/ \E e \in Fleet : Operate(e)
  \/ Lose
  \/ Clock

Spec == Init /\ [][Next]_vars

-----------------------------------------------------------------------------
(* Properties *)

(* The tables hold rows the schema allows, limits stay positive, and calls *)
(* past their start know their reservation.                                *)
TypeOK ==
  /\ StoreTypeOK
  /\ task \in [Tasks -> Task]
  /\ \A t \in Tasks : task[t].pc # "idle" => task[t].id \in Ids
  /\ issued \in 0..MaxIds
  /\ held \in [Ids -> [status : Status, exp : Nat, scope : SUBSET Buckets,
                       usage : [Metrics -> Nat]]]
  /\ crashes \in 0..MaxCrashes
  /\ losses \in 0..MaxLosses

LedgerStatus(r) == IF LiveMarker(r) THEN "live"
                   ELSE IF Tombstoned(r) THEN "settled" ELSE "absent"

Ledger == INSTANCE ReservationLedger
            WITH Ids <- Ids, Expiry <- TRUE,
                 ledger <- [r \in Ids |-> LedgerStatus(r)]

(* Markers and tombstones of all processes together, pruned late or not,   *)
(* take only the steps of the abstract ledger: one charge for an id, one   *)
(* settlement of a charge that is open, and no new charge until the        *)
(* tombstone has expired.                                                  *)
ImplementsLedger == Ledger!Spec

(* A reservation in a caller's hands can be refunded in any process for    *)
(* its whole lifetime: no pruning, crash, cleanup or replaced engine       *)
(* removes its marker; only a lost database does, or a clock set back      *)
(* after its end.  Ids that callers use twice are excluded: a replay       *)
(* shares the fate of the call it repeats.                                 *)
DeliveredIsLive ==
  losses = 0 /\ skewed = 0 =>
  \A r \in Ids \ Replays : held[r].status = "held" /\ now < held[r].exp =>
                            LiveMarker(r)

(* No charge is orphaned by a process that lives and whose backend is not  *)
(* closed under its calls: a marker has a caller who knows of it, a call   *)
(* that will deliver or undo it, or a reported failure.                    *)
NoOrphanCharge ==
  \A r \in Ids : marker[r].exp # 0 /\ held[r].status = "no" =>
    \E t \in Tasks : /\ task[t].id = r
                     /\ task[t].pc \in {"callbacks", "undo", "record"}

(* Refill of a row had it not expired: at the override's rate while it     *)
(* lasted, at the configured rate after it.                                *)
Unexpired(e, b) ==
  Uncapped(View(e, b, EndOverride(e, b, row[b])))

SlowerFull(e, b) ==
  PerSeconds[b] * (IF Anchored(e, b, row[b])
                     THEN Lesser(row[b].over.max, Conf(e)[b]) ELSE Conf(e)[b])

(* Expiry forgives no debt: a row is given up for a fresh, full bucket     *)
(* only when refill alone would have brought it to the lower of its two    *)
(* limits, however deep a lowered limit left it in debt (debt_ttl_seconds, *)
(* and the extension of the row's deadline on every read).                 *)
DebtOutlivesIdleness ==
  \A e \in Engines, b \in Buckets :
    Up(e) /\ b \in Mine(e) /\ Expired(row[b]) /\ ~ row[b].fresh =>
      Unexpired(e, b) >= SlowerFull(e, b)

(* A runtime override lasts its fixed lifetime: neither idleness of the    *)
(* bucket nor traffic ends it early or prolongs it; only an operator's new *)
(* limit or configuration does.                                            *)
OverridesKeepTheirTerm ==
  [][\A b \in Buckets :
       OverrideLive(row[b]) /\ row'[b].over # row[b].over =>
         \/ \E e \in Engines : \/ \E value \in Limits : SetMax(e, b, value)
                               \/ ApplyConfigured(e, b, engine'[e].conf[b])
                               \/ ClearOverrides(e)
         \/ losses' # losses]_vars

(* An engine suspects a loss only when there was one: a row that expired   *)
(* by the rules of any engine is past the proof of every engine            *)
(* (_state_confirmed_until), so ordinary idleness never drains a bucket.   *)
(* A clock that was set back can make an engine drain.                     *)
DrainsOnlyLosses ==
  losses = 0 /\ skewed = 0 =>
  \A e \in Engines, b \in Buckets :
    Up(e) /\ b \in Mine(e) /\ Suspected(e, b) =>
      ~ EndOverride(e, b, Surviving(row[b])).fresh

=============================================================================
