---------------------------- MODULE RedisBackend ----------------------------
(***************************************************************************)
(* Calls of RedisBackend (token_throttle/_limiter_backends/_redis/         *)
(* _backend.py), as tasks of an asyncio process.                           *)
(*                                                                         *)
(* A cancelled call gives up before its script is sent.  After that it     *)
(* waits for the answer (the write task is shielded) and an acquire then   *)
(* undoes its charge, in the background when that takes too long.          *)
(***************************************************************************)
EXTENDS RedisCalls

CONSTANTS
  Tasks,      \* the callers of the asynchronous process
  Recovering  \* ids acquired by a limiter, which can recover a failed cleanup

ASSUME TasksAssumption == Tasks \subseteq Callers /\ Recovering \subseteq Nat

-----------------------------------------------------------------------------
(* Calls begin *)

AwaitCall(t, r, u) ==
  /\ At(t, "idle")
  /\ TakesId(r)
  /\ call' = [call EXCEPT ![t] = Begin("acquire", r, u, 0, {})]
  /\ UNCHANGED store

RecordCall(t, r, u) ==
  /\ At(t, "idle")
  /\ TakesId(r)
  /\ call' = [call EXCEPT ![t] = Begin("record", r, u, 0, {})]
  /\ UNCHANGED store

(* A refund carries the usage of the reservation and the token of this     *)
(* attempt.                                                                *)
RefundCall(t, r, actual) ==
  /\ At(t, "idle")
  /\ held[r].status \in {"held", "unsure", "closed", "failed"}
  /\ held[r].owner = {P(t)} /\ held[r].tries < MaxTries
  /\ held' = [held EXCEPT ![r].tries = @ + 1]
  /\ call' = [call EXCEPT ![t] = Begin("refund", r, held[r].usage, actual,
                                       {held[r].tries})]
  /\ UNCHANGED <<store, bounded>>

-----------------------------------------------------------------------------
(* The locked section *)

TaskLocks(t) == \E b \in Buckets : Lock(t, b)

(* What a call does that lost or never got its locks: an acquire tries     *)
(* again, the cleanup records its failure, the others raise                *)
(* BackendLockContentionError.                                             *)
ContentionOutcome(t) ==
  /\ call' = [call EXCEPT ![t] = IF call[t].op = "acquire" THEN Again(t)
                                 ELSE Idle]
  /\ held' = IF Runs(t, "undo", call[t].pc) /\ held[call[t].id].status # "closed"
               THEN [held EXCEPT ![call[t].id].status = "failed"] ELSE held

(* _lock found a lock it waited for too long, or one of its own lapsed. *)
Contend(t) ==
  /\ At(t, "lock")
  /\ Mistrusted(t) \/ \E b \in NextLock(t) : lock[b] # {}
  /\ ContentionOutcome(t)
  /\ lock' = Released(t)
  /\ UNCHANGED <<now, keys, ids, proc, bounded>>

(* The read decides whether the call goes on to write. *)
ReadAndCompute(t) ==
  LET rd == Reading(P(t)) IN
  /\ At(t, "read")
  /\ call[t].op = "acquire" => /\ ~ Impossible(call[t].usage, rd)
                               /\ Sufficient(call[t].usage, rd)
  /\ Read(P(t))
  /\ call' = [call EXCEPT ![t].pc = "extend", ![t].rd = rd,
                          ![t].amount = Computed(t, rd)]
  /\ UNCHANGED <<now, lock, ids, held, bounded>>

(* Too little for now: the call sleeps at most MAX_CROSS_WORKER_POLL and   *)
(* tries again.                                                            *)
ReadAndWait(t) ==
  LET rd == Reading(P(t)) IN
  /\ Runs(t, "acquire", "read")
  /\ ~ Impossible(call[t].usage, rd) /\ ~ Sufficient(call[t].usage, rd)
  /\ Read(P(t))
  /\ call' = [call EXCEPT ![t] = Again(t)]
  /\ lock' = Released(t)
  /\ UNCHANGED <<now, ids, held, bounded>>

ReadAndReject(t) ==
  /\ Runs(t, "acquire", "read")
  /\ Impossible(call[t].usage, Reading(P(t)))
  /\ Read(P(t))
  /\ Done(t)
  /\ lock' = Released(t)
  /\ UNCHANGED <<now, ids, held, bounded>>

(* Mistake: the locks are extended without asking whose they are *)
ExtendBlindly(t) ==
  /\ At(t, "extend")
  /\ Go(t, "write")
  /\ UNCHANGED <<store, held, bounded>>

(* _extend_locks: reacquire every lock that is still its own. *)
Extend(t) ==
  /\ At(t, "extend")
  /\ Owned(t)
  /\ Go(t, "write")
  /\ UNCHANGED <<store, held, bounded>>

ExtendFails(t) ==
  /\ At(t, "extend")
  /\ Mistrusted(t)
  /\ ContentionOutcome(t)
  /\ lock' = Released(t)
  /\ UNCHANGED <<now, keys, ids, proc, bounded>>

(* Cancelled or out of time before the write.  A release that fails leaves *)
(* the locks to their expiry.                                              *)
GiveUp(t) ==
  /\ call[t].pc \in {"lock", "read", "extend"}
  /\ call[t].op # "undo"
  /\ Done(t)
  /\ \/ lock' = Released(t) /\ UNCHANGED bounded
     \/ call[t].locks # {} /\ UNCHANGED lock /\ Fault
  /\ UNCHANGED <<now, keys, ids, proc, held>>

-----------------------------------------------------------------------------
(* The write *)

(* _refund_cancelled_consumption: of a limiter's acquire through the       *)
(* refund script, so that it and a recovery by the client claim the same   *)
(* marker.                                                                 *)
RunCleanup(t, resent) ==
  IF call[t].id \in Recovering THEN RunRefund(t, resent)
  ELSE RunUndo(t, resent)

Run(t, resent) ==
  CASE call[t].op \in {"acquire", "record"} -> RunCharge(t, resent)
    [] call[t].op = "refund" -> RunRefund(t, resent)
    [] call[t].op = "undo" -> RunCleanup(t, resent)

Send(t) ==
  /\ At(t, "write")
  /\ Run(t, FALSE)
  /\ UNCHANGED bounded

(* redis-py sends a command again when no reply came. *)
Resend(t) ==
  /\ At(t, "sent")
  /\ Fault
  /\ Run(t, TRUE)

(* The request, or the last reply, is lost: RedisError. *)
NoReply(t) ==
  /\ call[t].pc \in {"write", "sent"}
  /\ Fault
  /\ Go(t, "check")
  /\ UNCHANGED <<store, held>>

Landed(t) ==
  LET k == call[t] IN
  CASE k.op \in {"acquire", "record"} -> AcquireLanded(k.id, k.usage, k.amount)
    [] k.op = "refund" -> RefundLanded(k.id, k.amount)
    [] k.op = "undo" -> /\ k.id \in Recovering
                        /\ RefundLanded(k.id, k.amount)

Succeeds(t) == call[t].answer \in {"ok", "replayed"}

-----------------------------------------------------------------------------
(* Outcomes *)

(* The cleanup of an interrupted acquire is an attempt with its own token. *)
BeginUndo(t) ==
  LET k == call[t] IN
  /\ call' = [call EXCEPT ![t] = Begin("undo", k.id, k.usage, 0,
                                       {held[k.id].tries})]
  /\ held' = [held EXCEPT ![k.id].tries = @ + 1]

(* What the call does with its result: ok or the answer of the script. *)
Conclude(t, ok) ==
  LET k == call[t]  r == k.id IN
  CASE k.op = "acquire" /\ ok -> Go(t, "callbacks") /\ UNCHANGED held
    [] k.op = "record" /\ ok -> Done(t) /\ Answer(r, "held")
    [] k.op = "refund" -> /\ Done(t)
                          /\ IF ok \/ k.answer \in {"duplicate", "unknown"}
                               THEN Answer(r, "closed") ELSE UNCHANGED held
    [] k.op = "undo" -> /\ Done(t)
                        /\ IF ok THEN Answer(r, "undone")
                           ELSE IF held[r].status = "closed" THEN UNCHANGED held
                           ELSE Answer(r, "failed")
    [] OTHER -> Done(t) /\ UNCHANGED held

Reply(t) ==
  /\ At(t, "sent")
  /\ Conclude(t, Succeeds(t))
  /\ lock' = Released(t)
  /\ IF call[t].answer = "ok"
       THEN Confirm(P(t), DOMAIN call[t].amount, call[t].rd.time)
       ELSE UNCHANGED proc
  /\ UNCHANGED <<now, keys, ids, bounded>>

(* After a RedisError the backend looks for the traces of its own write. *)
CheckLanded(t) ==
  /\ At(t, "check")
  /\ Landed(t)
  /\ Conclude(t, TRUE)
  /\ lock' = Released(t)
  /\ UNCHANGED <<now, keys, ids, proc, bounded>>

(* They are not there, others have written since, or the look fails too. *)
CheckRaises(t) ==
  LET k == call[t]  r == k.id IN
  /\ At(t, "check")
  /\ IF Landed(t) THEN Fault ELSE UNCHANGED bounded
  /\ Done(t)
  /\ held' = CASE k.op = "refund" -> [held EXCEPT ![r].status = "unsure"]
               [] k.op = "undo" -> [held EXCEPT ![r].status = "failed"]
               [] OTHER -> IF LiveMarker(r) /\ held[r].status = "no"
                             THEN [held EXCEPT ![r].status = "unanswered"]
                             ELSE held
  /\ lock' = Released(t)
  /\ UNCHANGED <<now, keys, ids, proc>>

(* Mistake: a charge that landed is not undone *)
InterruptSentSilently(t) ==
  /\ Runs(t, "acquire", "sent")
  /\ Done(t)
  /\ UNCHANGED held
  /\ lock' = Released(t)
  /\ UNCHANGED <<now, keys, ids, proc, bounded>>

(* An acquire cancelled while its script runs waits for the answer.  It    *)
(* undoes a charge it made; an answer that the id is charged already, by   *)
(* these arguments, it takes for the charge of an earlier call.  A         *)
(* recorded usage stands; the cancellation is then suppressed.             *)
InterruptSent(t) ==
  LET k == call[t] IN
  /\ At(t, "sent")
  /\ k.op = "acquire" \/ (k.op = "record" /\ k.answer # "ok")
  /\ IF k.answer = "ok" THEN BeginUndo(t)
     ELSE /\ Done(t)
          /\ IF k.resent /\ k.answer = "replayed" /\ held[k.id].status = "no"
               THEN Answer(k.id, "resent") ELSE UNCHANGED held
  /\ lock' = Released(t)
  /\ UNCHANGED <<now, keys, ids, proc, bounded>>

(* Mistake: the acquire is undone although it is delivered *)
CallbacksReturnUndone(t) ==
  LET k == call[t] IN
  /\ At(t, "callbacks")
  /\ held' = [held EXCEPT ![k.id].status = "held", ![k.id].tries = @ + 1]
  /\ call' = [call EXCEPT ![t] = Begin("undo", k.id, k.usage, 0,
                                       {held[k.id].tries})]
  /\ UNCHANGED <<store, bounded>>

CallbacksReturn(t) ==
  /\ At(t, "callbacks")
  /\ Answer(call[t].id, "held")
  /\ Done(t)
  /\ UNCHANGED <<store, bounded>>

(* Cancelled in the callbacks after the locks were released *)
Interrupt(t) ==
  /\ At(t, "callbacks")
  /\ BeginUndo(t)
  /\ UNCHANGED <<store, bounded>>

(* LOCK_CANCEL_REFUND_TIMEOUT_SECONDS are over: the client gets the        *)
(* failure, with its reservation, while the cleanup goes on.               *)
CleanupDrainEnds(t) ==
  LET r == call[t].id IN
  /\ call[t].op = "undo" /\ r \in Recovering
  /\ held[r].status = "no"
  /\ Answer(r, "failed")
  /\ UNCHANGED <<store, call, bounded>>

-----------------------------------------------------------------------------
TaskStep(t) ==
  \/ \E r \in Ids : \/ \E u \in Usages : AwaitCall(t, r, u) \/ RecordCall(t, r, u)
                    \/ \E a \in Actuals : RefundCall(t, r, a)
  \/ TaskLocks(t) \/ Contend(t)
  \/ ReadAndCompute(t) \/ ReadAndWait(t) \/ ReadAndReject(t)
  \/ Extend(t) \/ ExtendFails(t) \/ GiveUp(t)
  \/ Send(t) \/ Resend(t) \/ NoReply(t)
  \/ Reply(t) \/ CheckLanded(t) \/ CheckRaises(t)
  \/ InterruptSent(t) \/ CallbacksReturn(t) \/ Interrupt(t)
  \/ CleanupDrainEnds(t)

=============================================================================
