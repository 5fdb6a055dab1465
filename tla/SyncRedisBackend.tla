-------------------------- MODULE SyncRedisBackend --------------------------
(***************************************************************************)
(* Calls of SyncRedisBackend (token_throttle/_limiter_backends/_redis/     *)
(* _sync_backend.py), as threads of a process.                             *)
(*                                                                         *)
(* Nothing shields a call here: a signal (KeyboardInterrupt, SystemExit)   *)
(* may raise between any two statements.  The call releases its locks,     *)
(* and an acquire whose charge it knows of is undone, by a pipeline that   *)
(* leaves no tombstone.                                                    *)
(***************************************************************************)
EXTENDS RedisCalls

CONSTANT Threads  \* the callers of the synchronous process

ASSUME ThreadsAssumption == Threads \subseteq Callers

-----------------------------------------------------------------------------
WaitCall(s, r, u) ==
  /\ At(s, "idle")
  /\ TakesId(r)
  /\ call' = [call EXCEPT ![s] = Begin("acquire", r, u, 0, {})]
  /\ UNCHANGED store

SyncRecordCall(s, r, u) ==
  /\ At(s, "idle")
  /\ TakesId(r)
  /\ call' = [call EXCEPT ![s] = Begin("record", r, u, 0, {})]
  /\ UNCHANGED store

SyncRefundCall(s, r, actual) ==
  /\ At(s, "idle")
  /\ held[r].status \in {"held", "unsure", "closed", "failed"}
  /\ held[r].owner = {P(s)} /\ held[r].tries < MaxTries
  /\ held' = [held EXCEPT ![r].tries = @ + 1]
  /\ call' = [call EXCEPT ![s] = Begin("refund", r, held[r].usage, actual,
                                       {held[r].tries})]
  /\ UNCHANGED <<store, bounded>>

-----------------------------------------------------------------------------
ThreadLocks(s) == \E b \in Buckets : Lock(s, b)

(* A call without its locks: an acquire tries again, the cleanup records   *)
(* its failure, the others raise.                                          *)
WithoutLocks(s) ==
  /\ lock' = Released(s)
  /\ CASE call[s].op = "acquire" -> /\ call' = [call EXCEPT ![s] = Again(s)]
                                    /\ UNCHANGED held
       [] call[s].op = "undo" -> Done(s) /\ Answer(call[s].id, "failed")
       [] OTHER -> Done(s) /\ UNCHANGED held
  /\ UNCHANGED <<now, keys, ids, proc, bounded>>

SyncContend(s) ==
  /\ At(s, "lock")
  /\ Mistrusted(s) \/ \E b \in NextLock(s) : lock[b] # {}
  /\ WithoutLocks(s)

SyncExtend(s) ==
  /\ At(s, "extend")
  /\ Owned(s)
  /\ Go(s, "write")
  /\ UNCHANGED <<store, held, bounded>>

SyncExtendFails(s) == At(s, "extend") /\ Mistrusted(s) /\ WithoutLocks(s)

(* The read under the locks, and what it decides for an acquire *)
SyncRead(s) ==
  LET rd == Reading(P(s))
      tries == call[s].op = "acquire"
  IN
  /\ At(s, "read")
  /\ Read(P(s))
  /\ IF tries /\ (Impossible(call[s].usage, rd) \/ ~ Sufficient(call[s].usage, rd))
       THEN /\ lock' = Released(s)
            /\ call' = [call EXCEPT ![s] = IF Impossible(call[s].usage, rd)
                                             THEN Idle ELSE Again(s)]
       ELSE /\ UNCHANGED lock
            /\ call' = [call EXCEPT ![s].pc = "extend", ![s].rd = rd,
                                    ![s].amount = Computed(s, rd)]
  /\ UNCHANGED <<now, ids, held, bounded>>

-----------------------------------------------------------------------------
SyncRun(s, resent) ==
  CASE call[s].op \in {"acquire", "record"} -> RunCharge(s, resent)
    [] call[s].op = "refund" -> RunRefund(s, resent)
    [] call[s].op = "undo" -> RunUndo(s, resent)

SyncSend(s) == At(s, "write") /\ SyncRun(s, FALSE) /\ UNCHANGED bounded

SyncResend(s) == At(s, "sent") /\ Fault /\ SyncRun(s, TRUE)

SyncNoReply(s) ==
  /\ call[s].pc \in {"write", "sent"}
  /\ Fault
  /\ Go(s, "check")
  /\ UNCHANGED <<store, held>>

SyncConclude(s, ok) ==
  LET k == call[s] IN
  /\ lock' = Released(s)
  /\ CASE k.op = "acquire" /\ ok -> Go(s, "callbacks") /\ UNCHANGED held
       [] k.op = "record" /\ ok -> Done(s) /\ Answer(k.id, "held")
       [] k.op = "refund" /\ (ok \/ k.answer \in {"duplicate", "unknown"}) ->
            Done(s) /\ Answer(k.id, "closed")
       [] k.op = "undo" -> Done(s) /\ Answer(k.id, "undone")
       [] OTHER -> Done(s) /\ UNCHANGED held
  /\ UNCHANGED <<now, keys, ids>>

SyncReply(s) ==
  /\ At(s, "sent")
  /\ SyncConclude(s, call[s].answer \in {"ok", "replayed"})
  /\ IF call[s].answer = "ok"
       THEN Confirm(P(s), DOMAIN call[s].amount, call[s].rd.time)
       ELSE UNCHANGED proc
  /\ UNCHANGED bounded

SyncLanded(s) ==
  LET k == call[s] IN
  CASE k.op \in {"acquire", "record"} -> AcquireLanded(k.id, k.usage, k.amount)
    [] k.op = "refund" -> RefundLanded(k.id, k.amount)
    [] k.op = "undo" -> FALSE

SyncCheckLanded(s) ==
  /\ At(s, "check") /\ SyncLanded(s)
  /\ SyncConclude(s, TRUE)
  /\ UNCHANGED <<proc, bounded>>

(* How a call ends that raises after its script may have run *)
LeftBehind(s, why) ==
  LET k == call[s] IN
  held' = CASE k.op = "refund" -> [held EXCEPT ![k.id].status = "unsure"]
            [] k.op = "undo" -> [held EXCEPT ![k.id].status = "failed"]
            [] OTHER -> IF LiveMarker(k.id) /\ held[k.id].status = "no"
                          THEN [held EXCEPT ![k.id].status = why] ELSE held

SyncCheckRaises(s) ==
  /\ At(s, "check")
  /\ IF SyncLanded(s) THEN Fault ELSE UNCHANGED bounded
  /\ LeftBehind(s, "unanswered")
  /\ Done(s)
  /\ lock' = Released(s)
  /\ UNCHANGED <<now, keys, ids, proc>>

-----------------------------------------------------------------------------
(* Signals *)

(* Before the script, and in it, before the call knows the answer *)
Signal(s) ==
  /\ call[s].pc \in {"lock", "read", "extend", "write", "sent"}
  /\ IF call[s].pc = "sent" THEN LeftBehind(s, "signalled")
     ELSE IF call[s].op = "undo" THEN Answer(call[s].id, "failed")
     ELSE UNCHANGED held
  /\ Done(s)
  /\ lock' = Released(s)
  /\ UNCHANGED <<now, keys, ids, proc, bounded>>

(* In a callback: the acquire undoes its charge. *)
SignalInCallback(s) ==
  LET k == call[s] IN
  /\ At(s, "callbacks")
  /\ call' = [call EXCEPT ![s] = Begin("undo", k.id, k.usage, 0, {})]
  /\ UNCHANGED <<store, held, bounded>>

SyncCallbacksReturn(s) ==
  /\ At(s, "callbacks")
  /\ Answer(call[s].id, "held")
  /\ Done(s)
  /\ UNCHANGED <<store, bounded>>

-----------------------------------------------------------------------------
ThreadStep(s) ==
  \/ \E r \in Ids : \/ \E u \in Usages : WaitCall(s, r, u) \/ SyncRecordCall(s, r, u)
                    \/ \E a \in Actuals : SyncRefundCall(s, r, a)
  \/ ThreadLocks(s) \/ SyncContend(s)
  \/ SyncRead(s) \/ SyncExtend(s) \/ SyncExtendFails(s)
  \/ SyncSend(s) \/ SyncResend(s) \/ SyncNoReply(s)
  \/ SyncReply(s) \/ SyncCheckLanded(s) \/ SyncCheckRaises(s)
  \/ Signal(s) \/ SignalInCallback(s) \/ SyncCallbacksReturn(s)

=============================================================================
