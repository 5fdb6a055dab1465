----------------------------- MODULE RateLimiter -----------------------------
(***************************************************************************)
(* The lifecycle of reservations in RateLimiter                            *)
(* (token_throttle/_rate_limiter.py) and SyncRateLimiter                   *)
(* (_sync_rate_limiter.py): acquire_capacity and record_usage,             *)
(* refund_capacity, aclose or close, clear_unused_model_families, for one  *)
(* limited model family.                                                   *)
(*                                                                         *)
(* RateLimiter runs on one event loop.  _acquire_guard and                 *)
(* _refund_state_lock are never held across a suspension, so a section     *)
(* under them is part of the step around it; a step ends where the code    *)
(* awaits something that may suspend: the backend, a shielded task, a      *)
(* per-reservation refund lock, a lifecycle callback, a drain.             *)
(* SyncRateLimiter does the same in threads: its sections under a guard    *)
(* are the same steps, nobody is cancelled, a lock goes to any of those    *)
(* who wait for it, and other threads write to a backend at any time.      *)
(*                                                                         *)
(* Every acquire draws a fresh uuid4, so an acquire call is named by its   *)
(* reservation id.  The backend is external here: its marker of an id, a   *)
(* charge and a credit.  How much capacity moves is MemoryBackend's        *)
(* subject.                                                                *)
(***************************************************************************)
EXTENDS Integers, Sequences, FiniteSets, SequencesExt

CONSTANTS
  Rids,          \* reservation ids, one per acquire or record call
  Users,         \* concurrent refund_capacity calls of callers
  Closers,       \* concurrent aclose calls
  MaxInFlight,   \* max_in_flight_reservations
  RefundedCap,   \* _refunded_ids_cap
  Deployments    \* limiters, backends and callers a run looks at

(* rids, users, closers: the calls that may be made                        *)
(* blocking: the ids drawn by acquire_capacity, not record_usage           *)
(* authority: supports_acquire_marker_authority of the backend             *)
(* probe: whether the limiter can see that a refund was written            *)
(* lost_replies: whether a backend refund may be written and then raise    *)
(* expiring: whether max_reservation_lifetime_seconds is set               *)
(* drain_timeout: whether close_drain_timeout_seconds is set               *)
(* threads: whether the limiter is a SyncRateLimiter                       *)
Deployment ==
  [rids : SUBSET Rids, blocking : SUBSET Rids, users : SUBSET Users,
   closers : SUBSET Closers, authority : BOOLEAN, probe : BOOLEAN,
   lost_replies : BOOLEAN, expiring : BOOLEAN, drain_timeout : BOOLEAN,
   threads : BOOLEAN]

ASSUME LimiterAssumption ==
  /\ IsFiniteSet(Rids) /\ Rids # {}
  /\ Rids \cap Users = {}
  /\ MaxInFlight \in Nat \ {0}
  /\ RefundedCap \in Nat \ {0}
  /\ Deployments \subseteq Deployment

VARIABLES
  deployment,      \* what is deployed; it stays that
  acquire,         \* where the acquire or record call of an id is
  cancelled,       \* ids whose caller was cancelled while the backend worked
  pending,         \* _pending_acquire_reservations
  in_flight,       \* _in_flight_reservation_ids
  cleanup,         \* _acquire_delivery_cleanup_reservations
  pending_drained, \* the event _pending_drained
  refund,          \* the running refund calls
  refund_state,    \* _refunded_reservation_ids, an ordered dict: the states
  refund_order,    \* and the order of insertion
  in_progress,     \* _refund_in_progress
  refund_lock,     \* _refund_locks: the holder and the waiters of an id
  closing,         \* _closing
  closed,          \* _closed
  close_drained,   \* _close_drained
  closer,          \* where an aclose call is
  draining,        \* refund calls an aclose call still waits for
  family,          \* the family's row in _model_family_to_backend
  backend_open,    \* the builder's resources
  marker,          \* the backend's marker of an id
  credits,         \* history: refunds of an id the backend has credited
  given_up         \* history: ids the limiter drops with their charge

Blocking == deployment.blocking
Authority == deployment.authority
Probe == deployment.probe
LostReplies == deployment.lost_replies
Expiring == deployment.expiring
DrainTimeout == deployment.drain_timeout
Threads == deployment.threads

acquireVars == <<acquire, cancelled>>
slotVars == <<pending, in_flight, cleanup, pending_drained>>
refundVars == <<refund, refund_state, refund_order, in_progress, refund_lock>>
closeVars == <<closing, closed, close_drained, closer, draining, backend_open>>
ledgerVars == <<marker, credits>>
vars == <<deployment, acquireVars, slotVars, refundVars, closeVars, family, ledgerVars,
          given_up>>

(* An undelivered acquire refunds itself in a task of its own, named by    *)
(* its id.                                                                 *)
Refunds == Rids \cup Users

Acquire == {"new", "starting", "backend", "charged", "refused", "stuck",
            "finalizing", "event", "undelivered", "refunding", "returned",
            "recovered", "raised"}
Refund == [pc : {"idle", "entry", "queued", "refresh", "backend", "written",
                 "duplicate", "unknown", "committed", "done", "failed"},
           id : Rids, allow_closed : BOOLEAN, ok : BOOLEAN,
           touched : BOOLEAN]

NoRefund == [pc |-> "idle", id |-> CHOOSE r \in Rids : TRUE,
             allow_closed |-> FALSE, ok |-> FALSE, touched |-> FALSE]

Init ==
  /\ deployment \in Deployments
  /\ acquire = [r \in Rids |-> "new"]
  /\ cancelled = {}
  /\ pending = {} /\ in_flight = {} /\ cleanup = {}
  /\ pending_drained = TRUE
  /\ refund = [c \in Refunds |-> NoRefund]
  /\ refund_state = [r \in Rids |-> "missing"]
  /\ refund_order = <<>>
  /\ in_progress = {}
  /\ refund_lock = [r \in Rids |-> <<>>]
  /\ closing = FALSE /\ closed = FALSE /\ close_drained = FALSE
  /\ closer = [k \in Closers |-> "idle"]
  /\ draining = [k \in Closers |-> {}]
  /\ family = FALSE
  /\ backend_open = TRUE
  /\ marker = [r \in Rids |-> "absent"]
  /\ credits = [r \in Rids |-> 0]
  /\ given_up = {}

-----------------------------------------------------------------------------
(* Reservation slots *)

Drained(p, c) == p = {} /\ c = {}

(* Ids that occupy a slot; also the keys of _in_flight_reservation_family *)
Occupied == pending \cup in_flight

(* _finalize_pending_acquire *)
FinalizeSlots(r) ==
  /\ pending' = pending \ {r}
  /\ in_flight' = in_flight \cup {r}
  /\ pending_drained' = Drained(pending \ {r}, cleanup)
  /\ UNCHANGED cleanup

(* _rollback_pending_acquire *)
RollbackSlots(r) ==
  /\ pending' = pending \ {r}
  /\ pending_drained' = Drained(pending \ {r}, cleanup)
  /\ UNCHANGED <<in_flight, cleanup>>

(* _begin_acquire_delivery_cleanup *)
BeginCleanup(r) ==
  /\ cleanup' = cleanup \cup {r}
  /\ pending_drained' = FALSE
  /\ UNCHANGED <<pending, in_flight>>

(* Mistake: the event is not looked at again *)
EndCleanupSilently(r) ==
  /\ cleanup' = cleanup \ {r}
  /\ UNCHANGED <<pending, in_flight, pending_drained>>

(* _end_acquire_delivery_cleanup *)
EndCleanup(r) ==
  /\ cleanup' = cleanup \ {r}
  /\ pending_drained' = Drained(pending, cleanup \ {r})
  /\ UNCHANGED <<pending, in_flight>>

(* _forget_in_flight_reservation *)
ForgetSlots(r) ==
  /\ pending' = pending \ {r}
  /\ in_flight' = in_flight \ {r}
  /\ cleanup' = cleanup \ {r}
  /\ UNCHANGED pending_drained

-----------------------------------------------------------------------------
(* acquire_capacity and record_usage *)

Move(r, to) == acquire' = [acquire EXCEPT ![r] = to]

(* Mistake: slots counted when they are delivered only *)
HasSlotForDelivered == Cardinality(in_flight) < MaxInFlight
HasSlot == Cardinality(in_flight) + Cardinality(pending) < MaxInFlight

(* _begin_pending_acquire; the event is cleared before the cap is checked *)
AcquireCall(r) ==
  /\ r \in deployment.rids /\ acquire[r] = "new"
  /\ ~ closed /\ ~ closing
  /\ pending_drained' = FALSE
  /\ \/ HasSlot /\ Move(r, "starting") /\ pending' = pending \cup {r}
     \/ ~ HasSlot /\ Move(r, "raised") /\ UNCHANGED pending
  /\ UNCHANGED <<deployment, cancelled, in_flight, cleanup, refundVars, closeVars, family,
                 ledgerVars, given_up>>

(* The family's backend is found or built, and its task started. *)
AcquireSend(r) ==
  /\ acquire[r] = "starting"
  /\ Move(r, "backend")
  /\ family' = TRUE
  /\ UNCHANGED <<deployment, cancelled, slotVars, refundVars, closeVars, ledgerVars,
                 given_up>>

(* A conflicting config, a failed build or a cancellation before the       *)
(* backend was asked                                                       *)
AcquireAbort(r) ==
  /\ acquire[r] = "starting"
  /\ RollbackSlots(r)
  /\ Move(r, "raised")
  /\ UNCHANGED <<deployment, cancelled, refundVars, closeVars, family, ledgerVars,
                 given_up>>

(* A write to the buckets shows to the refunds of other threads that have  *)
(* taken their signature: they cannot tell it from their own.              *)
Mistakable(d) == Threads /\ Probe /\ refund[d].pc \in {"backend", "unknown"}
Touched(c) ==
  [d \in Refunds |-> IF d # c /\ Mistakable(d)
                     THEN [refund[d] EXCEPT !.touched = TRUE] ELSE refund[d]]

BackendCharges(r) ==
  /\ acquire[r] = "backend"
  /\ marker' = [marker EXCEPT ![r] = "live"]
  /\ Move(r, "charged")
  /\ refund' = Touched(r)
  /\ UNCHANGED <<deployment, cancelled, slotVars, refund_state, refund_order,
                 in_progress, refund_lock, closeVars, family, credits, given_up>>

(* A rejection, a timeout, or a cancellation the backend cleaned up after *)
BackendRefuses(r) ==
  /\ acquire[r] = "backend"
  /\ Move(r, "refused")
  /\ UNCHANGED <<deployment, cancelled, slotVars, refundVars, closeVars, family,
                 ledgerVars, given_up>>

(* The backend charged, was interrupted, and its own cleanup failed: it    *)
(* leaves the failure in the _AcquireRecovery of the call.                 *)
BackendCleanupFails(r) ==
  /\ acquire[r] = "backend"
  /\ r \in Blocking
  /\ marker' = [marker EXCEPT ![r] = "live"]
  /\ Move(r, "stuck")
  /\ refund' = Touched(r)
  /\ UNCHANGED <<deployment, cancelled, slotVars, refund_state, refund_order,
                 in_progress, refund_lock, closeVars, family, credits, given_up>>

(* The caller is cancelled; the backend task is cancelled with it and may  *)
(* have finished or may still succeed.                                     *)
CancelAcquire(r) ==
  /\ ~ Threads
  /\ acquire[r] \in {"backend", "charged"}
  /\ r \notin cancelled
  /\ cancelled' = cancelled \cup {r}
  /\ UNCHANGED <<deployment, acquire, slotVars, refundVars, closeVars, family, ledgerVars,
                 given_up>>

(* _deliver_backend_cleanup_failure: AcquireRefundFailedError hands the    *)
(* reservation to the caller.                                              *)
DeliverRecovery(r) ==
  /\ acquire[r] = "stuck"
  /\ FinalizeSlots(r)
  /\ Move(r, "recovered")
  /\ UNCHANGED <<deployment, cancelled, refundVars, closeVars, family, ledgerVars,
                 given_up>>

AcquireRefused(r) ==
  /\ acquire[r] = "refused"
  /\ RollbackSlots(r)
  /\ Move(r, "raised")
  /\ UNCHANGED <<deployment, cancelled, refundVars, closeVars, family, ledgerVars,
                 given_up>>

BeginDelivery(r) ==
  /\ acquire[r] = "charged"
  /\ BeginCleanup(r)
  /\ Move(r, "finalizing")
  /\ UNCHANGED <<deployment, cancelled, refundVars, closeVars, family, ledgerVars,
                 given_up>>

(* Mistake: a cancelled acquire is rolled back although it was charged *)
FinalizeOnlyLive(r) ==
  /\ acquire[r] = "finalizing"
  /\ IF r \in cancelled
       THEN /\ pending' = pending \ {r}
            /\ cleanup' = cleanup \ {r}
            /\ pending_drained' = Drained(pending \ {r}, cleanup \ {r})
            /\ UNCHANGED in_flight
            /\ Move(r, "raised")
       ELSE /\ FinalizeSlots(r)
            /\ Move(r, "event")
  /\ UNCHANGED <<deployment, cancelled, refundVars, closeVars, family, ledgerVars,
                 given_up>>

(* The shielded _finalize_pending_acquire.  A cancelled record_usage ends  *)
(* here and keeps its slot; a cancelled acquire goes on to give its charge *)
(* back.                                                                   *)
Finalize(r) ==
  LET over == r \in cancelled /\ r \notin Blocking IN
  /\ acquire[r] = "finalizing"
  /\ pending' = pending \ {r}
  /\ in_flight' = in_flight \cup {r}
  /\ cleanup' = IF over THEN cleanup \ {r} ELSE cleanup
  /\ pending_drained' = Drained(pending \ {r}, cleanup')
  /\ Move(r, IF over THEN "raised"
             ELSE IF r \in cancelled THEN "undelivered" ELSE "event")
  /\ UNCHANGED <<deployment, cancelled, refundVars, closeVars, family, ledgerVars,
                 given_up>>

(* The lifecycle callback returns and so does the call. *)
Deliver(r) ==
  /\ acquire[r] = "event"
  /\ EndCleanup(r)
  /\ Move(r, "returned")
  /\ UNCHANGED <<deployment, cancelled, refundVars, closeVars, family, ledgerVars,
                 given_up>>

(* Mistake: an interrupted acquire treated as a delivered one *)
InterruptDeliveryRaises(r) ==
  /\ acquire[r] = "event"
  /\ EndCleanup(r)
  /\ Move(r, "raised")
  /\ UNCHANGED <<deployment, cancelled, refundVars, closeVars, family, ledgerVars,
                 given_up>>

(* Cancelled while finalizing or in the lifecycle callback, whose critical *)
(* exceptions do the same: record_usage forgets the reservation and keeps  *)
(* the charge.                                                             *)
InterruptDelivery(r) ==
  /\ acquire[r] = "event"
  /\ IF r \in Blocking
       THEN Move(r, "undelivered") /\ UNCHANGED <<slotVars, given_up>>
       ELSE /\ Move(r, "raised")
            /\ in_flight' = in_flight \ {r}
            /\ pending' = pending \ {r}
            /\ cleanup' = cleanup \ {r}
            /\ pending_drained' = Drained(pending', cleanup')
            /\ given_up' = given_up \cup {r}
  /\ UNCHANGED <<deployment, cancelled, refundVars, closeVars, family, ledgerVars>>

(* _refund_undelivered_acquire: a task of its own, which looks at _closed  *)
(* again when it starts unless the limiter is closed already.  In threads, *)
(* _finalize_and_refund_undelivered_acquire, which finalizes once more.    *)
Undeliver(r) ==
  /\ acquire[r] = "undelivered"
  /\ Move(r, "refunding")
  /\ refund' = [refund EXCEPT ![r] = [NoRefund EXCEPT !.pc = "entry", !.id = r,
                                                      !.allow_closed = closed]]
  /\ IF Threads THEN FinalizeSlots(r) ELSE UNCHANGED slotVars
  /\ UNCHANGED <<deployment, cancelled, refund_state, refund_order, in_progress,
                 refund_lock, closeVars, family, ledgerVars, given_up>>

(* Refunded, the interruption goes on to the caller; a failed refund is    *)
(* delivered with the reservation in AcquireRefundFailedError, unless it   *)
(* failed critically.                                                      *)
UndeliverEnds(r) ==
  /\ acquire[r] = "refunding"
  /\ \/ refund[r].pc = "done" /\ Move(r, "raised") /\ UNCHANGED given_up
     \/ refund[r].pc = "failed" /\ Move(r, "recovered") /\ UNCHANGED given_up
     \/ /\ refund[r].pc = "failed"
        /\ Move(r, "raised")
        /\ given_up' = given_up \cup {r}
  /\ EndCleanup(r)
  /\ refund' = [refund EXCEPT ![r] = NoRefund]
  /\ UNCHANGED <<deployment, cancelled, refund_state, refund_order, in_progress,
                 refund_lock, closeVars, family, ledgerVars>>

-----------------------------------------------------------------------------
(* refund_capacity *)

At(c, pc) == refund[c].pc = pc

(* An ordered dict without key x, a queue that x has left: x is in it once *)
(* at most.                                                                *)
Without(s, x) ==
  IF x \in ToSet(s) THEN RemoveAt(s, CHOOSE i \in 1..Len(s) : s[i] = x) ELSE s

(* Tasks of undelivered acquires report to the acquire; callers are gone.  *)
Over(c, ok) ==
  IF c \in Rids THEN [refund[c] EXCEPT !.pc = IF ok THEN "done" ELSE "failed",
                                       !.touched = FALSE]
  ELSE NoRefund

(* An asyncio.Lock is handed on in turn.  Threads may get in before others *)
(* that wait, and before one that has not locked yet.                      *)
Turns(queue) ==
  IF ~ Threads THEN {Len(queue) + 1}
  ELSE {i \in 1..Len(queue) + 1 : i = 1 => queue = <<>> \/ At(Head(queue), "queued")}

Queue(c, r, allow) ==
  /\ \E i \in Turns(refund_lock[r]) :
       refund_lock' = [refund_lock EXCEPT ![r] = InsertAt(@, i, c)]
  /\ refund' = [refund EXCEPT ![c] = [NoRefund EXCEPT !.pc = "queued", !.id = r,
                                                      !.allow_closed = allow]]

(* Release of the lock, or of the place in its queue, and of its reference *)
Leave(c, ok) ==
  LET r == refund[c].id IN
  /\ refund_lock' = [refund_lock EXCEPT ![r] = Without(@, c)]
  /\ refund' = [refund EXCEPT ![c] = Over(c, ok)]

(* By the wall clock, which may be set back, the reservation has outlived  *)
(* max_reservation_lifetime_seconds.                                       *)
Expire(r) ==
  /\ Expiring
  /\ ForgetSlots(r)
  /\ given_up' = given_up \cup {r}

RefundCall(c, r) ==
  /\ c \in deployment.users
  /\ At(c, "idle")
  /\ acquire[r] \in {"returned", "recovered"}
  /\ ~ closed
  /\ \/ Queue(c, r, FALSE) /\ UNCHANGED <<slotVars, given_up>>
     \/ Expire(r) /\ UNCHANGED <<refund, refund_lock>>
  /\ UNCHANGED <<deployment, acquireVars, refund_state, refund_order, in_progress,
                 closeVars, family, ledgerVars>>

(* The task of an undelivered acquire starts. *)
RefundEnter(c) ==
  LET r == refund[c].id IN
  /\ At(c, "entry")
  /\ \/ /\ refund[c].allow_closed \/ ~ closed
        /\ Queue(c, r, refund[c].allow_closed)
        /\ UNCHANGED <<slotVars, given_up>>
     \/ /\ ~ refund[c].allow_closed /\ closed
        /\ Leave(c, FALSE)
        /\ UNCHANGED <<slotVars, given_up>>
     \/ /\ ~ refund[c].allow_closed /\ ~ closed
        /\ Expire(r)
        /\ Leave(c, FALSE)
  /\ UNCHANGED <<deployment, acquireVars, refund_state, refund_order, in_progress,
                 closeVars, family, ledgerVars>>

(* A caller is cancelled while it waits for the lock. *)
RefundGiveUp(c) ==
  /\ ~ Threads
  /\ c \in deployment.users
  /\ At(c, "queued")
  /\ Leave(c, FALSE)
  /\ UNCHANGED <<deployment, acquireVars, slotVars, refund_state, refund_order,
                 in_progress, closeVars, family, ledgerVars, given_up>>

(* Mistake: one entry too many *)
RememberOneMore(r, state) ==
  LET order == Append(Without(refund_order, r), r)
      evicted == IF Len(order) > RefundedCap + 1 THEN {Head(order)} ELSE {}
  IN /\ refund_order' = IF evicted = {} THEN order ELSE Tail(order)
     /\ refund_state' = [s \in Rids |-> IF s \in evicted THEN "missing"
                                        ELSE IF s = r THEN state
                                        ELSE refund_state[s]]

(* _remember_refund_state: the last entry of the ordered dict; beyond the  *)
(* cap the oldest goes, whatever its state.                                *)
Remember(r, state) ==
  LET order == Append(Without(refund_order, r), r)
      evicted == IF Len(order) > RefundedCap THEN {Head(order)} ELSE {}
  IN /\ refund_order' = IF evicted = {} THEN order ELSE Tail(order)
     /\ refund_state' = [s \in Rids |-> IF s \in evicted THEN "missing"
                                        ELSE IF s = r THEN state
                                        ELSE refund_state[s]]

(* _clear_refund_state_if_pending *)
ClearPending(r) ==
  IF refund_state[r] = "pending"
    THEN /\ refund_state' = [refund_state EXCEPT ![r] = "missing"]
         /\ refund_order' = Without(refund_order, r)
    ELSE UNCHANGED <<refund_state, refund_order>>

(* _mark_refund_state_failed *)
MarkFailed(r) ==
  IF refund_state[r] = "pending" THEN Remember(r, "failed")
  ELSE UNCHANGED <<refund_state, refund_order>>

Refundable(r) == refund_state[r] # "committed" /\ r \notin in_progress

Holds(c) == At(c, "queued") /\ Head(refund_lock[refund[c].id]) = c

(* The lock is held: the state is checked and set to pending. *)
RefundStart(c) ==
  LET r == refund[c].id
      admitted == (refund[c].allow_closed \/ ~ closed) /\ Refundable(r)
  IN
  /\ Holds(c)
  /\ IF admitted
       THEN /\ Remember(r, "pending")
            /\ in_progress' = in_progress \cup {r}
            /\ refund' = [refund EXCEPT ![c] = [@ EXCEPT !.pc = "refresh"]]
            /\ UNCHANGED refund_lock
       ELSE /\ Leave(c, FALSE)
            /\ UNCHANGED <<refund_state, refund_order, in_progress>>
  /\ UNCHANGED <<deployment, acquireVars, slotVars, closeVars, family, ledgerVars,
                 given_up>>

(* The end of a refund that holds the lock *)
Finish(c, ok) ==
  /\ in_progress' = in_progress \ {refund[c].id}
  /\ Leave(c, ok)

(* The refreshed config reroutes the model or makes it unlimited, or the   *)
(* caller is cancelled: the backend was not asked.                         *)
RefundRefreshFails(c) ==
  /\ At(c, "refresh")
  /\ ClearPending(refund[c].id)
  /\ Finish(c, FALSE)
  /\ UNCHANGED <<deployment, acquireVars, slotVars, closeVars, family, ledgerVars,
                 given_up>>

(* Mistake: the backend asked about ids the limiter does not know *)
KnownAnyway(r) == TRUE
Known(r) == Authority \/ r \in in_flight

RefundSend(c) ==
  LET r == refund[c].id IN
  /\ At(c, "refresh")
  /\ IF Known(r)
       THEN /\ refund' = [refund EXCEPT ![c] = [@ EXCEPT !.pc = "backend"]]
            /\ family' = TRUE
            /\ UNCHANGED <<refund_state, refund_order, in_progress,
                           refund_lock>>
       ELSE /\ ClearPending(r)
            /\ Finish(c, FALSE)
            /\ UNCHANGED family
  /\ UNCHANGED <<deployment, acquireVars, slotVars, closeVars, ledgerVars, given_up>>

(* refund_capacity_for_buckets of the backend: one with marker authority   *)
(* credits a live marker and rejects every other id.                       *)
BackendRefunds(c) ==
  LET r == refund[c].id
      answer == IF marker[r] = "live" \/ ~ Authority THEN "written"
                ELSE IF marker[r] = "settled" THEN "duplicate" ELSE "unknown"
  IN
  /\ At(c, "backend")
  /\ IF answer = "written"
       THEN /\ marker' = [marker EXCEPT ![r] = "settled"]
            /\ credits' = [credits EXCEPT ![r] = @ + 1]
            /\ refund' = [Touched(c) EXCEPT ![c].pc = answer]
       ELSE /\ refund' = [refund EXCEPT ![c].pc = answer]
            /\ UNCHANGED ledgerVars
  /\ UNCHANGED <<deployment, acquireVars, slotVars, refund_state, refund_order,
                 in_progress, refund_lock, closeVars, family, given_up>>

(* The backend failed, or the call was cancelled, before it wrote. *)
RefundErrors(c) ==
  /\ At(c, "backend")
  /\ ~ refund[c].touched
  /\ MarkFailed(refund[c].id)
  /\ Finish(c, FALSE)
  /\ UNCHANGED <<deployment, acquireVars, slotVars, closeVars, family, ledgerVars,
                 given_up>>

(* UnknownReservationError; some backends say the id can be forgotten. *)
RefundUnknown(c) ==
  LET r == refund[c].id IN
  /\ At(c, "unknown")
  /\ ~ refund[c].touched
  /\ ClearPending(r)
  /\ UNCHANGED slotVars \/ ForgetSlots(r)
  /\ Finish(c, FALSE)
  /\ UNCHANGED <<deployment, acquireVars, closeVars, family, ledgerVars, given_up>>

(* The backend raised without writing, but another thread has written: the *)
(* limiter takes that for its own write, commits and gives up the charge.  *)
RefundMisread(c) ==
  LET r == refund[c].id IN
  /\ At(c, "backend") \/ At(c, "unknown")
  /\ refund[c].touched
  /\ Remember(r, "committed")
  /\ ForgetSlots(r)
  /\ given_up' = given_up \cup {r}
  /\ Finish(c, FALSE)
  /\ UNCHANGED <<deployment, acquireVars, closeVars, family, ledgerVars>>

(* The backend wrote and then raised, or its answer was lost, and nothing  *)
(* shows the limiter that it wrote.                                        *)
RefundReplyLost(c) ==
  /\ LostReplies /\ ~ Probe
  /\ At(c, "written")
  /\ MarkFailed(refund[c].id)
  /\ Finish(c, FALSE)
  /\ UNCHANGED <<deployment, acquireVars, slotVars, closeVars, family, ledgerVars,
                 given_up>>

(* Mistake: the slot is kept *)
RefundCommitStateOnly(c) ==
  /\ At(c, "written") \/ At(c, "duplicate")
  /\ Remember(refund[c].id, "committed")
  /\ refund' = [refund EXCEPT ![c] =
                  [@ EXCEPT !.pc = "committed", !.ok = At(c, "written"),
                            !.touched = FALSE]]
  /\ UNCHANGED <<deployment, acquireVars, slotVars, in_progress, refund_lock, closeVars,
                 family, ledgerVars, given_up>>

(* The shielded _commit_refund_state, after success, after                 *)
(* DuplicateRefundError, and after an error when the probe shows the write *)
RefundCommit(c) ==
  LET r == refund[c].id IN
  /\ At(c, "written") \/ At(c, "duplicate")
  /\ Remember(r, "committed")
  /\ ForgetSlots(r)
  /\ refund' = [refund EXCEPT ![c] =
                  [@ EXCEPT !.pc = "committed", !.ok = At(c, "written"),
                            !.touched = FALSE]]
  /\ UNCHANGED <<deployment, acquireVars, in_progress, refund_lock, closeVars, family,
                 ledgerVars, given_up>>

(* The lifecycle callback may raise; a limiter that then sees the written  *)
(* buckets commits once more.                                              *)
RefundReturns(c) ==
  LET r == refund[c].id
      again == Probe /\ refund[c].ok
  IN
  /\ At(c, "committed")
  /\ \/ /\ Finish(c, refund[c].ok)
        /\ UNCHANGED <<slotVars, refund_state, refund_order>>
     \/ /\ Finish(c, FALSE)
        /\ IF again THEN Remember(r, "committed") /\ ForgetSlots(r)
                    ELSE UNCHANGED <<slotVars, refund_state, refund_order>>
  /\ UNCHANGED <<deployment, acquireVars, closeVars, family, ledgerVars, given_up>>

-----------------------------------------------------------------------------
(* aclose, close *)

(* The limiter's tables are emptied; lock objects live on in their users.  *)
ClearRetained ==
  /\ pending' = {} /\ in_flight' = {} /\ cleanup' = {}
  /\ refund_state' = [r \in Rids |-> "missing"]
  /\ refund_order' = <<>>
  /\ in_progress' = {}
  /\ family' = FALSE
  /\ UNCHANGED <<pending_drained, refund, refund_lock>>

Go(k, to) == closer' = [closer EXCEPT ![k] = to]

CloseCall(k) ==
  /\ k \in deployment.closers /\ closer[k] = "idle"
  /\ ~ (closed /\ close_drained)
  /\ closing' = ~ closed
  /\ pending_drained' = Drained(pending, cleanup)
  /\ Go(k, "acquires")
  /\ UNCHANGED <<deployment, acquireVars, pending, in_flight, cleanup, refundVars, closed,
                 close_drained, draining, backend_open, family, ledgerVars,
                 given_up>>

AcquiresDrained(k) ==
  /\ closer[k] = "acquires"
  /\ pending_drained
  /\ Go(k, "lifecycle")
  /\ UNCHANGED <<deployment, acquireVars, slotVars, refundVars, closing, closed,
                 close_drained, draining, backend_open, family, ledgerVars,
                 given_up>>

(* Refund calls that hold or await a per-reservation lock *)
Locked == UNION {ToSet(refund_lock[r]) : r \in Rids}

LifecycleFree == \A k \in Closers : closer[k] \notin {"refunds", "backend"}

(* Mistake: the refunds are not waited for *)
CloseMarkAtOnce(k) ==
  /\ closer[k] = "lifecycle"
  /\ LifecycleFree
  /\ ~ close_drained
  /\ closed' = TRUE
  /\ closing' = FALSE
  /\ draining' = [draining EXCEPT ![k] = {}]
  /\ Go(k, "refunds")
  /\ UNCHANGED <<deployment, acquireVars, slotVars, refundVars, close_drained,
                 backend_open, family, ledgerVars, given_up>>

(* Under _lifecycle_lock the limiter is marked closed and the locks of     *)
(* running refunds are collected.                                          *)
CloseMark(k) ==
  /\ closer[k] = "lifecycle"
  /\ LifecycleFree
  /\ ~ close_drained
  /\ closed' = TRUE
  /\ closing' = FALSE
  /\ draining' = [draining EXCEPT ![k] = Locked]
  /\ Go(k, "refunds")
  /\ UNCHANGED <<deployment, acquireVars, slotVars, refundVars, close_drained,
                 backend_open, family, ledgerVars, given_up>>

(* Another aclose got here first. *)
CloseAgain(k) ==
  /\ closer[k] = "lifecycle"
  /\ LifecycleFree
  /\ close_drained
  /\ ClearRetained
  /\ Go(k, "idle")
  /\ UNCHANGED <<deployment, acquireVars, closing, closed, close_drained, draining,
                 backend_open, ledgerVars, given_up>>

(* Each collected lock is acquired once its holder and the calls queued    *)
(* before the closer have left it; in threads, once nobody holds it.       *)
RefundsDrained(k) ==
  /\ closer[k] = "refunds"
  /\ \A c \in draining[k] \cap Locked : Threads /\ At(c, "queued")
  /\ close_drained' = TRUE
  /\ draining' = [draining EXCEPT ![k] = {}]
  /\ Go(k, "backend")
  /\ UNCHANGED <<deployment, acquireVars, slotVars, refundVars, closing, closed,
                 backend_open, family, ledgerVars, given_up>>

(* The builder's shielded aclose; if it raises nothing is cleared. *)
CloseBackend(k) ==
  /\ closer[k] = "backend"
  /\ backend_open' = FALSE
  /\ ClearRetained \/ UNCHANGED <<slotVars, refundVars, family>>
  /\ Go(k, "idle")
  /\ UNCHANGED <<deployment, acquireVars, closing, closed, close_drained, draining,
                 ledgerVars, given_up>>

(* A drain outlasts close_drain_timeout_seconds, or the task is cancelled  *)
(* while another aclose holds _lifecycle_lock: closed, not drained.        *)
CloseFails(k) ==
  /\ \/ DrainTimeout /\ closer[k] \in {"acquires", "refunds"}
     \/ ~ Threads /\ closer[k] = "lifecycle" /\ ~ LifecycleFree
  /\ closed' = TRUE
  /\ closing' = FALSE
  /\ draining' = [draining EXCEPT ![k] = {}]
  /\ Go(k, "idle")
  /\ UNCHANGED <<deployment, acquireVars, slotVars, refundVars, close_drained,
                 backend_open, family, ledgerVars, given_up>>

(* Mistake: families with open reservations evicted too *)
ClearUnusedAnyway ==
  /\ family
  /\ family' = FALSE
  /\ marker' = [r \in Rids |-> "absent"]
  /\ UNCHANGED <<deployment, acquireVars, slotVars, refundVars, closeVars, credits,
                 given_up>>

(* clear_unused_model_families: an idle family without open reservations   *)
(* loses its backend; a memory backend takes its markers with it.  What    *)
(* threads do in the middle of it is LimiterConfig's subject.              *)
ClearUnused ==
  /\ ~ Threads
  /\ family
  /\ Occupied = {}
  /\ family' = FALSE
  /\ marker' = [r \in Rids |-> "absent"]
  /\ UNCHANGED <<deployment, acquireVars, slotVars, refundVars, closeVars, credits,
                 given_up>>

-----------------------------------------------------------------------------
AcquireStep(r) ==
  \/ AcquireSend(r) \/ AcquireAbort(r)
  \/ BackendCharges(r) \/ BackendRefuses(r) \/ BackendCleanupFails(r)
  \/ DeliverRecovery(r) \/ AcquireRefused(r) \/ BeginDelivery(r)
  \/ Finalize(r) \/ Deliver(r) \/ InterruptDelivery(r) \/ Undeliver(r)
  \/ UndeliverEnds(r)

RefundStep(c) ==
  \/ RefundEnter(c) \/ RefundStart(c) \/ RefundRefreshFails(c)
  \/ RefundSend(c) \/ BackendRefunds(c) \/ RefundErrors(c)
  \/ RefundUnknown(c) \/ RefundMisread(c) \/ RefundReplyLost(c)
  \/ RefundCommit(c)
  \/ RefundReturns(c)

CloseStep(k) ==
  \/ AcquiresDrained(k) \/ CloseMark(k) \/ CloseAgain(k)
  \/ RefundsDrained(k) \/ CloseBackend(k)

Next ==
  \/ \E r \in Rids : AcquireCall(r) \/ AcquireStep(r) \/ CancelAcquire(r)
  \/ \E c \in Refunds : RefundStep(c) \/ RefundGiveUp(c)
  \/ \E c \in Refunds, r \in Rids : RefundCall(c, r)
  \/ \E k \in Closers : CloseCall(k) \/ CloseStep(k) \/ CloseFails(k)
  \/ ClearUnused

Spec == Init /\ [][Next]_vars

(* Every task or thread that can run runs, and the backend answers         *)
(* (MemoryBackend!CallsReturn).  Nobody has to call, cancel or time out.   *)
FairSpec ==
  /\ Spec
  /\ \A r \in Rids : WF_vars(AcquireStep(r))
  /\ \A c \in Refunds : WF_vars(RefundStep(c))
  /\ \A k \in Closers : WF_vars(CloseStep(k))

-----------------------------------------------------------------------------
(* Properties *)

(* Every table of the limiter holds what its code puts there; the bounded  *)
(* table of refund states has one place in its order for each known id and *)
(* never more ids than its cap.                                            *)
TypeOK ==
  /\ acquire \in [Rids -> Acquire]
  /\ cancelled \subseteq Rids
  /\ pending \subseteq Rids /\ in_flight \subseteq Rids /\ cleanup \subseteq Rids
  /\ pending_drained \in BOOLEAN
  /\ refund \in [Refunds -> Refund]
  /\ refund_state \in [Rids -> {"missing", "pending", "committed", "failed"}]
  /\ refund_order \in Seq(Rids)
  /\ ToSet(refund_order) = {r \in Rids : refund_state[r] # "missing"}
  /\ Len(refund_order) <= RefundedCap
  /\ in_progress \subseteq Rids
  /\ refund_lock \in [Rids -> Seq(Refunds)]
  /\ {closing, closed, close_drained, family, backend_open} \subseteq BOOLEAN
  /\ closer \in [Closers -> {"idle", "acquires", "lifecycle", "refunds",
                             "backend"}]
  /\ draining \in [Closers -> SUBSET Refunds]
  /\ marker \in [Rids -> {"absent", "live", "settled"}]
  /\ credits \in [Rids -> Nat]
  /\ given_up \subseteq Rids

(* Every open charge in the backend has a slot in the limiter, pending or  *)
(* in flight, however its acquire was cancelled and its refund failed; the *)
(* exceptions are the charges the code drops (an interrupted record_usage, *)
(* an expired reservation, a failed refund that a thread misread) and      *)
(* those left behind by a finished close.                                  *)
ChargesAreTracked ==
  \A r \in Rids : marker[r] = "live" =>
    r \in Occupied \/ r \in given_up \/ close_drained

(* A reservation in flight is one the backend has charged: no slot is      *)
(* taken for a charge that was refused, and no backend is evicted under    *)
(* its reservations.                                                       *)
InFlightIsCharged == \A r \in in_flight : marker[r] # "absent"

(* An acquire_capacity that raised, without handing its reservation to the *)
(* caller, has given its charge back, whenever the cancellation came; only *)
(* a refund that failed critically leaves it.                              *)
RaisedIsRefunded ==
  \A r \in Blocking : acquire[r] = "raised" /\ marker[r] = "live" =>
    r \in given_up

(* A reservation is credited at most once, whatever concurrent refunds,    *)
(* retries after failures and evictions from the bounded table of refund   *)
(* states; without marker authority of the backend the limiter alone       *)
(* guarantees it.                                                          *)
CreditedOnce == \A r \in Rids : credits[r] <= 1

(* A credited reservation leaves its slot with the refund that credited    *)
(* it, whatever happened to that refund's caller, unless the backend's     *)
(* answer was lost and nothing shows the write: no reservation that was    *)
(* refunded is held in flight for ever.                                    *)
SettledFreesSlot ==
  ~ LostReplies \/ Probe =>
    \A r \in in_flight : marker[r] = "settled" =>
      \E c \in Refunds : refund[c].id = r /\ refund[c].pc = "written"

(* Pending and delivered reservations together stay within                 *)
(* max_in_flight_reservations, also while cleanups and refunds are running *)
SlotsWithinCap == Cardinality(Occupied) <= MaxInFlight

(* The builder's resources are released only when no acquire and no refund *)
(* of this limiter is using the backend, also when a drain timed out and   *)
(* close was called again.                                                 *)
ClosedBackendIsIdle ==
  ~ backend_open =>
    /\ \A r \in Rids : acquire[r] \notin {"starting", "backend"}
    /\ \A c \in Refunds : refund[c].pc \notin {"refresh", "backend"}

(* aclose returns, without any timeout: the drain event is set when the    *)
(* last acquire and its delivery cleanup have ended.                       *)
CloseReturns ==
  ~ DrainTimeout => \A k \in Closers : closer[k] # "idle" ~> closer[k] = "idle"

=============================================================================
