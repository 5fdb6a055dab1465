---------------------- MODULE RateLimiterChargeProofs ----------------------
(***************************************************************************)
(* Proofs about RateLimiter: how the backend's charges and credits belong  *)
(* to the slots, the refund calls and the outcomes of acquires, for every  *)
(* set of calls and every deployment.                                      *)
(***************************************************************************)
EXTENDS RateLimiterProofs

-----------------------------------------------------------------------------
(* What a refund call knows                                                *)

(* The backend answered a call that is there.                              *)
Answered == {"written", "duplicate", "unknown", "committed"}

(* A step that leaves the backend alone brings a call to an answer only    *)
(* from an answer, and to the backend only with an id the limiter knows;   *)
(* a call whose write is done leaves with the slots of its id.             *)
Learns(c) ==
  LET r == refund[c].id IN
  /\ UNCHANGED <<marker, credits>>
  /\ refund'[c].pc # "written"
  /\ refund'[c].pc \in Answered \cup {"done"} =>
       refund[c].pc \in Answered /\ refund'[c].id = r
  /\ refund'[c].pc = "backend" =>
       /\ refund[c].pc = "refresh" /\ refund'[c].id = r
       /\ Known(r) /\ UNCHANGED slotVars
  /\ refund[c].pc = "written" => ForgetSlots(r) \/ (LostReplies /\ ~ Probe)

(* The steps of a refund call: what they do to the call, and that only the *)
(* backend credits.                                                        *)
LEMMA RefundOutcomes ==
  ASSUME LockTypes, LocksInv, NEW c \in Refunds, RefundStep(c) \/ RefundGiveUp(c)
  PROVE  /\ refund[c].pc \in InLock \cup {"entry"}
         /\ \A d \in Refunds : d # c => SameCall(d)
         /\ ~ BackendRefunds(c) => Learns(c)
<1>0. /\ refund[c].id \in Rids /\ refund[c] \in Refund
      /\ refund[c].allow_closed \in BOOLEAN /\ refund[c].ok \in BOOLEAN
  BY DEF LockTypes, Refund
<1>1. refund[c].pc \in InLock \cup {"entry"}
  BY RefundSlots
<1>2. \A d \in Refunds : d # c => SameCall(d)
  <2>1. ASSUME CallEnds(c) PROVE \A d \in Refunds : d # c => refund'[d] = refund[d]
    BY <2>1, LeaveStep DEF CallEnds
  <2>2. ASSUME CallEnters(c) PROVE \A d \in Refunds : d # c => refund'[d] = refund[d]
    BY <1>0, <2>2 DEF CallEnters, Queue, LockTypes
  <2> QED BY <2>1, <2>2, RefundKinds DEF Advances, SameCall
<1>f. ASSUME Leave(c, FALSE)
      PROVE  refund'[c].pc \notin Answered \cup {"done", "backend"}
  <2>1. /\ refund'[c].pc \notin InLock
        /\ IF c \in Rids THEN refund'[c].pc = "failed" ELSE refund'[c] = NoRefund
    BY <1>f, LeaveStep
  <2> QED BY <2>1, NoRefundFields DEF Answered, InLock, Holding
<1>l. ASSUME Leave(c, FALSE), UNCHANGED <<marker, credits>>,
             refund[c].pc = "written" =>
               ForgetSlots(refund[c].id) \/ (LostReplies /\ ~ Probe)
      PROVE  Learns(c)
  BY <1>f, <1>l DEF Learns, Answered
<1>3. ASSUME RefundEnter(c)
      PROVE  Learns(c)
  <2>1. CASE Leave(c, FALSE)
    BY <1>l, <1>3, <2>1 DEF RefundEnter, ledgerVars, At
  <2>2. CASE ~ Leave(c, FALSE)
    <3>1. Queue(c, refund[c].id, refund[c].allow_closed) /\ UNCHANGED <<marker, credits>>
      BY <1>3, <2>2 DEF RefundEnter, ledgerVars
    <3>2. refund'[c].pc = "queued" /\ refund[c].pc = "entry"
      BY <1>0, <1>3, <3>1, NoRefundFields DEF Queue, LockTypes, Refund,
         RefundEnter, At
    <3> QED BY <3>1, <3>2 DEF Learns, Answered
  <2> QED BY <2>1, <2>2
<1>4. ASSUME RefundGiveUp(c) \/ RefundRefreshFails(c) \/ RefundErrors(c) \/ RefundReplyLost(c)
                \/ RefundUnknown(c) \/ RefundMisread(c)
      PROVE  Learns(c)
  <2>1. /\ Leave(c, FALSE) /\ UNCHANGED <<marker, credits>>
        /\ refund[c].pc = "written" => LostReplies /\ ~ Probe
    BY <1>4 DEF RefundGiveUp, RefundRefreshFails, RefundErrors, RefundReplyLost,
                RefundUnknown, RefundMisread, Finish, ledgerVars, At
  <2> QED BY <1>l, <2>1
<1>5. ASSUME RefundStart(c)
      PROVE  Learns(c)
  <2>0. UNCHANGED <<marker, credits>> /\ refund[c].pc = "queued"
    BY <1>5 DEF RefundStart, ledgerVars, Holds, At
  <2>1. CASE Leave(c, FALSE)
    BY <1>l, <2>0, <2>1
  <2>2. CASE ~ Leave(c, FALSE)
    <3>1. refund' = [refund EXCEPT ![c] = [@ EXCEPT !.pc = "refresh"]]
      BY <1>5, <2>2 DEF RefundStart
    <3>2. refund'[c].pc = "refresh"
      BY <1>0, <3>1 DEF LockTypes, Refund
    <3> QED BY <2>0, <3>2 DEF Learns, Answered
  <2> QED BY <2>1, <2>2
<1>6. ASSUME RefundSend(c)
      PROVE  Learns(c)
  <2>0. UNCHANGED <<marker, credits>> /\ refund[c].pc = "refresh" /\ UNCHANGED slotVars
    BY <1>6 DEF RefundSend, ledgerVars, At
  <2>1. CASE Leave(c, FALSE)
    BY <1>l, <2>0, <2>1
  <2>2. CASE ~ Leave(c, FALSE)
    <3>1. Known(refund[c].id) /\ refund' = [refund EXCEPT ![c] = [@ EXCEPT !.pc = "backend"]]
      BY <1>6, <2>2 DEF RefundSend, Finish
    <3>2. refund'[c].pc = "backend" /\ refund'[c].id = refund[c].id
      BY <1>0, <3>1 DEF LockTypes, Refund
    <3> QED BY <2>0, <3>1, <3>2 DEF Learns, Answered
  <2> QED BY <2>1, <2>2
<1>7. ASSUME RefundCommit(c)
      PROVE  Learns(c)
  <2>1. /\ UNCHANGED <<marker, credits>> /\ ForgetSlots(refund[c].id)
        /\ refund[c].pc \in {"written", "duplicate"}
    BY <1>7 DEF RefundCommit, ledgerVars, At
  <2>2. refund'[c].pc = "committed" /\ refund'[c].id = refund[c].id
    BY <1>0, <1>7 DEF RefundCommit, LockTypes, Refund
  <2> QED BY <2>1, <2>2 DEF Learns, Answered
<1>8. ASSUME RefundReturns(c)
      PROVE  Learns(c)
  <2>1. PICK ok \in BOOLEAN : Leave(c, ok)
    BY <1>0, <1>8 DEF RefundReturns, Finish
  <2>2. UNCHANGED <<marker, credits>> /\ refund[c].pc = "committed"
    BY <1>8 DEF RefundReturns, ledgerVars, At
  <2>3. /\ refund'[c].pc \notin InLock
        /\ IF c \in Rids THEN refund'[c].id = refund[c].id ELSE refund'[c] = NoRefund
    BY <2>1, LeaveStep
  <2> QED BY <2>2, <2>3, NoRefundFields DEF Learns, Answered, InLock, Holding
<1>9. ~ BackendRefunds(c) => Learns(c)
  BY <1>3, <1>4, <1>5, <1>6, <1>7, <1>8 DEF RefundStep
<1> QED BY <1>1, <1>2, <1>9

(* Two calls never hold the lock of one reservation.                       *)
LEMMA OneHolder ==
  ASSUME LockTypes, LocksInv, NEW c \in Refunds, NEW d \in Refunds,
         refund[c].pc \in Holding, refund[d].pc \in Holding, refund[c].id = refund[d].id
  PROVE  c = d
BY DEF LocksInv

(* The backend's answer to a refund: a credit, or none, and the call that  *)
(* has it.                                                                 *)
LEMMA BackendAnswers ==
  ASSUME LockTypes, Types, NEW c \in Refunds, BackendRefunds(c)
  PROVE  LET r == refund[c].id IN
         /\ refund[c].pc = "backend" /\ r \in Rids
         /\ refund'[c].id = r
         /\ \A s \in Rids : s # r => marker'[s] = marker[s] /\ credits'[s] = credits[s]
         /\ \/ /\ marker[r] = "live" \/ ~ Authority
               /\ refund'[c].pc = "written" /\ marker'[r] = "settled"
               /\ credits'[r] = credits[r] + 1
            \/ /\ Authority /\ refund'[c].pc \in {"duplicate", "unknown"}
               /\ marker[r] # "live" /\ marker'[r] = marker[r] /\ credits'[r] = credits[r]
<1> DEFINE r == refund[c].id
           t == Touched(c)
<1>1. r \in Rids /\ refund[c] \in Refund
  BY DEF LockTypes, Refund
<1>2. t \in [Refunds -> Refund] /\ t[c].id = r
  BY TouchedCalls
<1> HIDE DEF t
<1>3. CASE marker[r] = "live" \/ ~ Authority
  <2>1. /\ marker' = [marker EXCEPT ![r] = "settled"]
        /\ credits' = [credits EXCEPT ![r] = @ + 1]
        /\ refund' = [t EXCEPT ![c].pc = "written"]
    BY <1>3 DEF BackendRefunds, t
  <2>2. refund'[c].pc = "written" /\ refund'[c].id = r
    BY <1>2, <2>1 DEF Refund
  <2> QED BY <1>1, <1>3, <2>1, <2>2 DEF BackendRefunds, At, Types
<1>4. CASE ~ (marker[r] = "live" \/ ~ Authority)
  <2>1. /\ UNCHANGED <<marker, credits>>
        /\ \E answer \in {"duplicate", "unknown"} : refund' = [refund EXCEPT ![c].pc = answer]
    BY <1>4 DEF BackendRefunds, ledgerVars
  <2>2. refund'[c].pc \in {"duplicate", "unknown"} /\ refund'[c].id = r
    BY <1>1, <2>1 DEF LockTypes, Refund
  <2> QED BY <1>1, <1>4, <2>1, <2>2 DEF BackendRefunds, At
<1> QED BY <1>3, <1>4

-----------------------------------------------------------------------------
(* Charges *)

(* Where an acquire is tells what the backend has of its id: nothing until *)
(* it charged, an open charge until the reservation is handed over or      *)
(* given back; a refund that has its answer leaves no open charge.         *)
ChargeInv ==
  /\ \A r \in Rids :
       /\ acquire[r] \in {"new", "starting", "backend", "refused"} => marker[r] = "absent"
       /\ acquire[r] \in {"charged", "stuck", "finalizing"} \cup Late => marker[r] = "live"
       /\ credits[r] # 0 \/ marker[r] = "settled" =>
            acquire[r] \in Handed \cup {"refunding", "raised"}
       /\ refund[r].pc = "done" => marker[r] # "live"
  /\ \A c \in Refunds : refund[c].pc \in Answered => marker[refund[c].id] # "live"

(* Every step keeps it.                                                    *)
LEMMA ChargeStep ==
  ASSUME LimiterInvariant, ChargeInv, Next
  PROVE  ChargeInv'
<1> USE DEF LimiterInvariant, CallsInvariant, ledgerVars, acquireVars, refundVars
<1>u. Rids \subseteq Refunds /\ Refunds = Rids \cup Users
  BY DEF Refunds
<1>i. \A c \in Refunds : refund[c].id \in Rids
  BY DEF LockTypes, Refund
<1>1. ASSUME NEW r \in Rids, QuietAcquire(r)
      PROVE  ChargeInv'
  <2>0. UNCHANGED <<marker, credits, refund>>
    BY <1>1 DEF QuietAcquire, AcquireCall, AcquireSend, AcquireAbort,
       BackendRefuses,
                CancelAcquire, DeliverRecovery, AcquireRefused, BeginDelivery, Finalize,
                Deliver, InterruptDelivery
  <2>1. \A s \in Rids : s # r => acquire'[s] = acquire[s]
    BY <1>1 DEF QuietAcquire, AcquireCall, AcquireSend, AcquireAbort,
       BackendRefuses,
                CancelAcquire, DeliverRecovery, AcquireRefused, BeginDelivery, Finalize,
                Deliver, InterruptDelivery, Move, Types
  <2>2. /\ acquire[r] \notin Handed \cup {"refunding", "raised"} \/ acquire' = acquire
        /\ acquire'[r] \in {"new", "starting", "backend", "refused"} =>
             acquire[r] \in {"new", "starting", "backend", "refused"}
        /\ acquire'[r] \in {"charged", "stuck", "finalizing"} \cup Late =>
             acquire[r] \in {"charged", "stuck", "finalizing"} \cup Late
    BY <1>1 DEF QuietAcquire, AcquireCall, AcquireSend, AcquireAbort,
       BackendRefuses,
                CancelAcquire, DeliverRecovery, AcquireRefused, BeginDelivery, Finalize,
                Deliver, InterruptDelivery, Move, Types, Handed, Late
  <2> QED BY <2>0, <2>1, <2>2 DEF ChargeInv
<1>2. ASSUME NEW r \in Rids, Charging(r)
      PROVE  ChargeInv'
  <2>1. /\ acquire[r] = "backend" /\ credits' = credits
        /\ acquire'[r] \in {"charged", "stuck"} /\ marker'[r] = "live"
        /\ \A s \in Rids : s # r => acquire'[s] = acquire[s] /\ marker'[s] = marker[s]
        /\ refund' = Touched(r)
    BY <1>2 DEF Charging, BackendCharges, BackendCleanupFails, Move, Types
  <2>2. \A c \in Refunds : refund'[c].pc = refund[c].pc /\ refund'[c].id = refund[c].id
    BY <1>u, <2>1, TouchedCalls
  <2>3. \A c \in Refunds : refund[c].pc \in Answered \cup {"done"} => refund[c].id # r
    BY <2>1, RefundedAcquire DEF Answered, Handed
  <2>4. refund[r].pc # "done"
    BY <2>1 DEF CallsInv
  <2>5. credits[r] = 0
    BY <2>1 DEF ChargeInv, Handed
  <2> QED BY <1>u, <1>i, <2>1, <2>2, <2>3, <2>4, <2>5 DEF ChargeInv, Handed,
             Late
<1>3. ASSUME NEW r \in Rids, Undeliver(r) \/ UndeliverEnds(r)
      PROVE  ChargeInv'
  <2>1. /\ UNCHANGED <<marker, credits>>
        /\ acquire[r] \in {"undelivered", "refunding"}
        /\ acquire'[r] \in {"refunding", "raised", "recovered"}
        /\ \A s \in Rids : s # r => acquire'[s] = acquire[s]
        /\ \A c \in Refunds : c # r => refund'[c] = refund[c]
    BY <1>3, <1>u DEF Undeliver, UndeliverEnds, Move, Types, LockTypes
  <2>2. refund'[r].pc \in {"entry", "idle"}
    <3>1. ASSUME Undeliver(r) PROVE refund'[r].pc = "entry"
      <4> DEFINE new == [NoRefund EXCEPT !.pc = "entry", !.id = r, !.allow_closed = closed]
      <4>1. refund' = [refund EXCEPT ![r] = new] /\ new.pc = "entry"
        BY <3>1, NoRefundFields DEF Undeliver, Refund, Types
      <4> HIDE DEF new
      <4> QED BY <1>u, <4>1 DEF LockTypes
    <3>2. ASSUME UndeliverEnds(r) PROVE refund'[r].pc = "idle"
      BY <1>u, <3>2, NoRefundFields DEF UndeliverEnds, LockTypes
    <3> QED BY <1>3, <3>1, <3>2
  <2> QED BY <1>u, <2>1, <2>2 DEF ChargeInv, Handed, Late, Answered
<1>4. ASSUME NEW c \in Refunds, RefundStep(c) \/ RefundGiveUp(c)
      PROVE  ChargeInv'
  <2>0. acquire' = acquire
    BY <1>4, RefundKinds
  <2>1. /\ refund[c].pc \in InLock \cup {"entry"}
        /\ \A d \in Refunds : d # c => SameCall(d)
        /\ ~ BackendRefunds(c) => Learns(c)
    BY <1>4, RefundOutcomes
  <2>2. /\ refund[c].pc # "idle"
        /\ c \in Rids => refund[c].id = c
    BY <2>1 DEF CallsInv, InLock, Holding
  <2>3. CASE Learns(c)
    <3>1. \A d \in Refunds : refund'[d].pc \in Answered =>
                               refund[d].pc \in Answered /\ refund'[d].id = refund[d].id
      BY <2>1, <2>3 DEF Learns, SameCall
    <3>2. \A d \in Rids : refund'[d].pc = "done" =>
                            refund[d].pc = "done" \/ (d = c /\ refund[c].pc \in Answered)
      BY <1>u, <2>1, <2>3 DEF Learns, SameCall
    <3> QED BY <1>u, <1>i, <2>0, <2>2, <2>3, <3>1, <3>2 DEF ChargeInv, Learns
  <2>4. CASE BackendRefunds(c)
    <3> DEFINE r == refund[c].id
    <3>1. acquire[r] \in Handed \cup {"refunding"} /\ r \in Rids
      BY <1>i, <2>2, RefundedAcquire
    <3>2. /\ refund[c].pc = "backend" /\ refund'[c].id = r
          /\ \A s \in Rids : s # r => marker'[s] = marker[s] /\ credits'[s] = credits[s]
          /\ refund'[c].pc \in Answered /\ marker'[r] # "live"
      BY <2>4, BackendAnswers DEF Answered
    <3> HIDE DEF r
    <3>3. \A s \in Rids : marker'[s] = "live" => marker[s] = "live"
      BY <3>2
    <3>4. \A d \in Refunds : refund'[d].pc \in Answered => marker'[refund'[d].id] # "live"
      BY <1>i, <2>1, <3>2, <3>3 DEF ChargeInv, SameCall
    <3>5. \A d \in Rids : refund'[d].pc = "done" => marker'[d] # "live"
      BY <1>u, <2>1, <3>2, <3>3 DEF ChargeInv, SameCall, Answered
    <3>6. ASSUME NEW s \in Rids
          PROVE  (/\ acquire[s] \in {"new", "starting", "backend", "refused"} => marker[s] = "absent"
                  /\ acquire[s] \in {"charged", "stuck", "finalizing"} \cup Late => marker[s] = "live"
                  /\ credits[s] # 0 \/ marker[s] = "settled" =>
                       acquire[s] \in Handed \cup {"refunding", "raised"})'
      <4>1. CASE s = r
        BY <2>0, <3>1, <4>1 DEF Handed, Late
      <4>2. CASE s # r
        BY <2>0, <3>2, <4>2 DEF ChargeInv
      <4> QED BY <4>1, <4>2
    <3> QED BY <3>4, <3>5, <3>6 DEF ChargeInv
  <2> QED BY <2>1, <2>3, <2>4
<1>5. ASSUME NEW c \in Refunds, NEW r \in Rids, RefundCall(c, r)
      PROVE  ChargeInv'
  <2>1. /\ UNCHANGED <<marker, credits, acquire>>
        /\ \A d \in Refunds : \/ refund'[d] = refund[d]
                              \/ refund'[d].pc = "queued"
    <3>1. UNCHANGED <<marker, credits, acquire>> /\ (Queue(c, r, FALSE) \/ refund' = refund)
      BY <1>5 DEF RefundCall
    <3>2. ASSUME Queue(c, r, FALSE)
          PROVE  /\ refund'[c].pc = "queued"
                 /\ \A d \in Refunds : d # c => refund'[d] = refund[d]
      BY <3>2, NoRefundFields DEF Queue, LockTypes, Refund
    <3> QED BY <3>1, <3>2
  <2> QED BY <1>u, <2>1 DEF ChargeInv, Answered
<1>6. ASSUME NEW k \in Closers, QuietClose(k) \/ Clearing(k)
      PROVE  ChargeInv'
  <2>1. UNCHANGED <<marker, credits, acquire, refund>>
    BY <1>6 DEF QuietClose, Clearing, CloseCall, AcquiresDrained, CloseMark,
       RefundsDrained,
                CloseFails, CloseAgain, CloseBackend, ClearRetained
  <2> QED BY <2>1 DEF ChargeInv
<1>7. CASE ClearUnused
  <2>1. /\ marker' = [r \in Rids |-> "absent"] /\ UNCHANGED <<credits, acquire, refund>>
        /\ pending = {} /\ in_flight = {}
    BY <1>7 DEF ClearUnused, Occupied
  <2>2. \A r \in Rids : acquire[r] \notin Early \cup Late
    BY <2>1 DEF SlotsInv
  <2> QED BY <1>i, <2>1, <2>2 DEF ChargeInv, Early
<1> QED BY <1>1, <1>2, <1>3, <1>4, <1>5, <1>6, <1>7, NextCases

(* Every step keeps the slot of an open charge, or drops the charge with   *)
(* it: given up, or left behind by a finished close.                       *)
LEMMA TrackedStep ==
  ASSUME LimiterInvariant, ChargeInv, ChargesAreTracked, Next
  PROVE  ChargesAreTracked'
<1> USE DEF LimiterInvariant, CallsInvariant, ledgerVars, acquireVars, refundVars, slotVars
<1>u. Rids \subseteq Refunds /\ Refunds = Rids \cup Users
  BY DEF Refunds
<1>i. \A c \in Refunds : refund[c].id \in Rids
  BY DEF LockTypes, Refund
<1>k. ASSUME \A s \in Rids : marker'[s] = "live" =>
               /\ marker[s] = "live"
               /\ s \in Occupied => s \in Occupied' \cup given_up'
               /\ s \in given_up => s \in given_up'
               /\ close_drained => close_drained'
      PROVE  ChargesAreTracked'
  BY <1>k DEF ChargesAreTracked
<1>1. ASSUME NEW r \in Rids, QuietAcquire(r)
      PROVE  ChargesAreTracked'
  <2>1. /\ UNCHANGED <<marker, close_drained>> /\ given_up \subseteq given_up'
        /\ \A s \in Rids : s # r /\ s \in Occupied => s \in Occupied'
    BY <1>1 DEF QuietAcquire, AcquireCall, AcquireSend, AcquireAbort,
       BackendRefuses,
                CancelAcquire, DeliverRecovery, AcquireRefused, BeginDelivery, Finalize,
                Deliver, InterruptDelivery, closeVars, RollbackSlots, FinalizeSlots,
                BeginCleanup, EndCleanup, Occupied
  <2>2. marker[r] = "live" /\ r \in Occupied => r \in Occupied' \cup given_up'
    <3>1. CASE AcquireAbort(r) \/ AcquireRefused(r)
      BY <3>1 DEF AcquireAbort, AcquireRefused, ChargeInv
    <3>2. CASE ~ (AcquireAbort(r) \/ AcquireRefused(r))
      BY <1>1, <3>2 DEF QuietAcquire, AcquireCall, AcquireSend,
         BackendRefuses, CancelAcquire,
                DeliverRecovery, BeginDelivery, Finalize, Deliver, InterruptDelivery,
                FinalizeSlots, BeginCleanup, EndCleanup, Occupied
    <3> QED BY <3>1, <3>2
  <2> QED BY <1>k, <2>1, <2>2
<1>2. ASSUME NEW r \in Rids, Charging(r)
      PROVE  ChargesAreTracked'
  <2>1. /\ acquire[r] = "backend" /\ marker' = [marker EXCEPT ![r] = "live"]
        /\ UNCHANGED <<pending, in_flight, given_up, close_drained>>
    BY <1>2 DEF Charging, BackendCharges, BackendCleanupFails, closeVars
  <2>2. r \in pending
    BY <2>1 DEF SlotsInv, Early
  <2> QED BY <2>1, <2>2 DEF ChargesAreTracked, Occupied, Types
<1>3. ASSUME NEW r \in Rids, Undeliver(r) \/ UndeliverEnds(r)
      PROVE  ChargesAreTracked'
  <2>1. /\ UNCHANGED <<marker, close_drained>> /\ given_up \subseteq given_up'
        /\ Occupied \subseteq Occupied'
    BY <1>3 DEF Undeliver, UndeliverEnds, closeVars, FinalizeSlots,
       EndCleanup, Occupied
  <2> QED BY <1>k, <2>1
<1>4. ASSUME NEW c \in Refunds, RefundStep(c) \/ RefundGiveUp(c)
      PROVE  ChargesAreTracked'
  <2> DEFINE r == refund[c].id
  <2>0. r \in Rids /\ (refund[c].pc \in Answered => marker[r] # "live")
    BY <1>i DEF ChargeInv
  <2>1. /\ close_drained' = close_drained /\ given_up \subseteq given_up'
        /\ \A s \in Rids : marker'[s] = "live" => marker[s] = "live"
    <3>1. close_drained' = close_drained /\ given_up \subseteq given_up'
      BY <1>4 DEF RefundStep, RefundGiveUp, RefundEnter, RefundStart,
         RefundRefreshFails,
           RefundSend, BackendRefunds, RefundErrors, RefundUnknown, RefundMisread,
           RefundReplyLost, RefundCommit, RefundReturns, closeVars, Expire
    <3>2. CASE BackendRefunds(c)
      BY <3>1, <3>2, BackendAnswers
    <3>3. CASE ~ BackendRefunds(c)
      BY <1>4, <3>1, <3>3, RefundOutcomes DEF Learns
    <3> QED BY <3>2, <3>3
  <2>2. \/ UNCHANGED slotVars
        \/ ForgetSlots(r) /\ (marker[r] # "live" \/ r \in given_up')
    <3>1. CASE RefundEnter(c) \/ RefundMisread(c)
      BY <3>1 DEF RefundEnter, RefundMisread, Expire
    <3>2. CASE RefundUnknown(c) \/ RefundCommit(c) \/ RefundReturns(c)
      BY <2>0, <3>2 DEF RefundUnknown, RefundCommit, RefundReturns, At, Answered
    <3>3. CASE RefundGiveUp(c) \/ RefundStart(c) \/ RefundRefreshFails(c) \/ RefundSend(c)
               \/ BackendRefunds(c) \/ RefundErrors(c) \/ RefundReplyLost(c)
      BY <3>3 DEF RefundGiveUp, RefundStart, RefundRefreshFails, RefundSend,
         BackendRefunds,
                  RefundErrors, RefundReplyLost
    <3> QED BY <1>4, <3>1, <3>2, <3>3 DEF RefundStep
  <2>3. \A s \in Rids : marker[s] = "live" /\ s \in Occupied => s \in Occupied' \cup given_up'
    BY <2>2 DEF ForgetSlots, Occupied
  <2> QED BY <1>k, <2>1, <2>3
<1>5. ASSUME NEW c \in Refunds, NEW r \in Rids, RefundCall(c, r)
      PROVE  ChargesAreTracked'
  <2>1. /\ UNCHANGED <<marker, close_drained>> /\ given_up \subseteq given_up'
        /\ Occupied \subseteq Occupied' \cup given_up'
    BY <1>5 DEF RefundCall, Expire, ForgetSlots, Occupied, closeVars
  <2> QED BY <1>k, <2>1
<1>6. ASSUME NEW k \in Closers, QuietClose(k)
      PROVE  ChargesAreTracked'
  <2>1. UNCHANGED <<marker, given_up, pending, in_flight>> /\ (close_drained => close_drained')
    BY <1>6 DEF QuietClose, CloseCall, AcquiresDrained, CloseMark,
       RefundsDrained, CloseFails
  <2> QED BY <1>k, <2>1 DEF Occupied
<1>7. ASSUME NEW k \in Closers, Clearing(k)
      PROVE  ChargesAreTracked'
  <2>1. close_drained /\ close_drained' = close_drained
    BY <1>7 DEF Clearing, CloseAgain, CloseBackend, CloseInv
  <2> QED BY <2>1 DEF ChargesAreTracked
<1>8. CASE ClearUnused
  BY <1>8 DEF ClearUnused, ChargesAreTracked
<1> QED BY <1>1, <1>2, <1>3, <1>4, <1>5, <1>6, <1>7, <1>8, NextCases

(* Every step keeps the charge of a reservation in flight.                 *)
LEMMA InFlightStep ==
  ASSUME LimiterInvariant, ChargeInv, InFlightIsCharged, Next
  PROVE  InFlightIsCharged'
<1> USE DEF LimiterInvariant, CallsInvariant, ledgerVars, acquireVars, refundVars, slotVars
<1>k. ASSUME \A s \in Rids : marker'[s] = "absent" => marker[s] = "absent",
             \A s \in in_flight' : s \in in_flight \/ marker[s] = "live"
      PROVE  InFlightIsCharged'
  <2>1. in_flight' \subseteq Rids
    BY TypesStep DEF Types
  <2> QED BY <1>k, <2>1 DEF InFlightIsCharged, Types
<1>1. ASSUME NEW r \in Rids, QuietAcquire(r)
      PROVE  InFlightIsCharged'
  <2>1. marker' = marker
    BY <1>1 DEF QuietAcquire, AcquireCall, AcquireSend, AcquireAbort,
       BackendRefuses,
                CancelAcquire, DeliverRecovery, AcquireRefused, BeginDelivery, Finalize,
                Deliver, InterruptDelivery
  <2>2. CASE DeliverRecovery(r) \/ Finalize(r)
    <3>1. marker[r] = "live" /\ in_flight' = in_flight \cup {r}
      BY <2>2 DEF DeliverRecovery, Finalize, FinalizeSlots, ChargeInv
    <3> QED BY <1>k, <2>1, <3>1
  <2>3. CASE ~ (DeliverRecovery(r) \/ Finalize(r))
    <3>1. in_flight' \subseteq in_flight
      BY <1>1, <2>3 DEF QuietAcquire, AcquireCall, AcquireSend, AcquireAbort,
         BackendRefuses,
                CancelAcquire, AcquireRefused, BeginDelivery, Deliver, InterruptDelivery,
                RollbackSlots, BeginCleanup, EndCleanup
    <3> QED BY <1>k, <2>1, <3>1
  <2> QED BY <2>2, <2>3
<1>2. ASSUME NEW r \in Rids, Charging(r)
      PROVE  InFlightIsCharged'
  BY <1>k, <1>2 DEF Charging, BackendCharges, BackendCleanupFails, Types
<1>3. ASSUME NEW r \in Rids, Undeliver(r) \/ UndeliverEnds(r)
      PROVE  InFlightIsCharged'
  <2>1. /\ marker' = marker
        /\ in_flight' = in_flight \/ (acquire[r] = "undelivered" /\ in_flight' = in_flight \cup {r})
    BY <1>3 DEF Undeliver, UndeliverEnds, FinalizeSlots, EndCleanup
  <2>2. acquire[r] = "undelivered" => marker[r] = "live"
    BY DEF ChargeInv, Late
  <2> QED BY <1>k, <2>1, <2>2
<1>4. ASSUME NEW c \in Refunds, RefundStep(c) \/ RefundGiveUp(c)
      PROVE  InFlightIsCharged'
  <2>1. in_flight' \subseteq in_flight
    BY <1>4, RefundSlots DEF ForgetSlots
  <2>2. \A s \in Rids : marker'[s] = "absent" => marker[s] = "absent"
    <3>1. CASE BackendRefunds(c)
      <4>1. /\ \A s \in Rids : s # refund[c].id => marker'[s] = marker[s]
            /\ marker'[refund[c].id] \in {"settled", marker[refund[c].id]}
        BY <3>1, BackendAnswers
      <4> QED BY <4>1
    <3>2. CASE ~ BackendRefunds(c)
      BY <1>4, <3>2, RefundOutcomes DEF Learns
    <3> QED BY <3>1, <3>2
  <2> QED BY <1>k, <2>1, <2>2
<1>5. ASSUME NEW c \in Refunds, NEW r \in Rids, RefundCall(c, r)
      PROVE  InFlightIsCharged'
  BY <1>k, <1>5 DEF RefundCall, Expire, ForgetSlots
<1>6. ASSUME NEW k \in Closers, QuietClose(k) \/ Clearing(k)
      PROVE  InFlightIsCharged'
  <2>1. marker' = marker /\ in_flight' \subseteq in_flight
    BY <1>6 DEF QuietClose, Clearing, CloseCall, AcquiresDrained, CloseMark,
       RefundsDrained,
                CloseFails, CloseAgain, CloseBackend, ClearRetained
  <2> QED BY <1>k, <2>1
<1>7. CASE ClearUnused
  BY <1>7 DEF ClearUnused, Occupied, InFlightIsCharged
<1> QED BY <1>1, <1>2, <1>3, <1>4, <1>5, <1>6, <1>7, NextCases

(* What is deployed stays deployed.                                        *)
LEMMA DeploymentStays ==
  ASSUME Next
  PROVE  deployment' = deployment
<1>1. \A r \in Rids : QuietAcquire(r) \/ Charging(r) \/ Undeliver(r) \/ UndeliverEnds(r) =>
                        deployment' = deployment
  BY DEF QuietAcquire, AcquireCall, AcquireSend, AcquireAbort, BackendRefuses,
         CancelAcquire, DeliverRecovery, AcquireRefused, BeginDelivery, Finalize,
         Deliver, InterruptDelivery, Charging, BackendCharges, BackendCleanupFails,
         Undeliver, UndeliverEnds
<1>2. \A c \in Refunds : RefundStep(c) \/ RefundGiveUp(c) => deployment' = deployment
  BY DEF RefundStep, RefundGiveUp, RefundEnter, RefundStart, RefundRefreshFails,
         RefundSend, BackendRefunds, RefundErrors, RefundUnknown, RefundMisread,
         RefundReplyLost, RefundCommit, RefundReturns
<1>3. \A k \in Closers : QuietClose(k) \/ Clearing(k) => deployment' = deployment
  BY DEF QuietClose, Clearing, CloseCall, AcquiresDrained, CloseMark,
     RefundsDrained,
         CloseFails, CloseAgain, CloseBackend
<1>4. /\ \A c \in Refunds, r \in Rids : RefundCall(c, r) => deployment' = deployment
      /\ ClearUnused => deployment' = deployment
  BY DEF RefundCall, ClearUnused
<1> QED BY <1>1, <1>2, <1>3, <1>4, NextCases

(* Every step that makes an acquire raise leaves it without an open        *)
(* charge, or gives the charge up.                                         *)
LEMMA RaisedStep ==
  ASSUME LimiterInvariant, ChargeInv, RaisedIsRefunded, Next
  PROVE  RaisedIsRefunded'
<1> USE DEF LimiterInvariant, CallsInvariant, ledgerVars, acquireVars, refundVars, slotVars
<1>b. Blocking' = Blocking
  BY DeploymentStays DEF Blocking
<1>n. Blocking \subseteq Rids
  BY LimiterAssumption DEF Types, Deployment, Blocking
<1>k. ASSUME NEW r \in Rids,
             \A s \in Rids : s # r => acquire'[s] = acquire[s] /\ marker'[s] = marker[s],
             given_up \subseteq given_up',
             r \in Blocking /\ acquire'[r] = "raised" /\ marker'[r] = "live" =>
               r \in given_up' \/ (acquire[r] = "raised" /\ marker[r] = "live")
      PROVE  RaisedIsRefunded'
  BY <1>b, <1>n, <1>k DEF RaisedIsRefunded
<1>s. ASSUME acquire' = acquire, given_up \subseteq given_up',
             \A s \in Rids : marker'[s] = "live" => marker[s] = "live"
      PROVE  RaisedIsRefunded'
  BY <1>b, <1>n, <1>s DEF RaisedIsRefunded
<1>1. ASSUME NEW r \in Rids, QuietAcquire(r)
      PROVE  RaisedIsRefunded'
  <2>1. /\ \A s \in Rids : s # r => acquire'[s] = acquire[s] /\ marker'[s] = marker[s]
        /\ marker'[r] = marker[r] /\ given_up \subseteq given_up'
    BY <1>1 DEF QuietAcquire, AcquireCall, AcquireSend, AcquireAbort,
       BackendRefuses,
                CancelAcquire, DeliverRecovery, AcquireRefused, BeginDelivery, Finalize,
                Deliver, InterruptDelivery, Move, Types
  <2>2. r \in Blocking /\ acquire'[r] = "raised" =>
          acquire[r] \in {"new", "starting", "refused", "raised"}
    BY <1>1 DEF QuietAcquire, AcquireCall, AcquireSend, AcquireAbort,
       BackendRefuses,
                CancelAcquire, DeliverRecovery, AcquireRefused, BeginDelivery, Finalize,
                Deliver, InterruptDelivery, Move, Types
  <2> QED BY <1>k, <2>1, <2>2 DEF ChargeInv
<1>2. ASSUME NEW r \in Rids, Charging(r)
      PROVE  RaisedIsRefunded'
  <2>1. /\ \A s \in Rids : s # r => acquire'[s] = acquire[s] /\ marker'[s] = marker[s]
        /\ acquire'[r] # "raised" /\ given_up' = given_up
    BY <1>2 DEF Charging, BackendCharges, BackendCleanupFails, Move, Types
  <2> QED BY <1>k, <2>1
<1>3. ASSUME NEW r \in Rids, Undeliver(r) \/ UndeliverEnds(r)
      PROVE  RaisedIsRefunded'
  <2>1. /\ \A s \in Rids : s # r => acquire'[s] = acquire[s] /\ marker'[s] = marker[s]
        /\ marker'[r] = marker[r] /\ given_up \subseteq given_up'
    BY <1>3 DEF Undeliver, UndeliverEnds, Move, Types
  <2>2. acquire'[r] = "raised" => refund[r].pc = "done" \/ r \in given_up'
    BY <1>3 DEF Undeliver, UndeliverEnds, Move, Types
  <2> QED BY <1>k, <2>1, <2>2 DEF ChargeInv
<1>4. ASSUME NEW c \in Refunds, RefundStep(c) \/ RefundGiveUp(c)
      PROVE  RaisedIsRefunded'
  <2>1. acquire' = acquire
    BY <1>4, RefundKinds
  <2>2. given_up \subseteq given_up'
    BY <1>4 DEF RefundStep, RefundGiveUp, RefundEnter, RefundStart,
       RefundRefreshFails,
           RefundSend, BackendRefunds, RefundErrors, RefundUnknown, RefundMisread,
           RefundReplyLost, RefundCommit, RefundReturns, Expire
  <2>3. CASE BackendRefunds(c)
    BY <1>s, <2>1, <2>2, <2>3, BackendAnswers
  <2>4. CASE ~ BackendRefunds(c)
    BY <1>4, <1>s, <2>1, <2>2, <2>4, RefundOutcomes DEF Learns
  <2> QED BY <2>3, <2>4
<1>5. ASSUME NEW c \in Refunds, NEW r \in Rids, RefundCall(c, r)
      PROVE  RaisedIsRefunded'
  BY <1>s, <1>5 DEF RefundCall, Expire
<1>6. ASSUME NEW k \in Closers, QuietClose(k) \/ Clearing(k)
      PROVE  RaisedIsRefunded'
  <2>1. UNCHANGED <<marker, acquire, given_up>>
    BY <1>6 DEF QuietClose, Clearing, CloseCall, AcquiresDrained, CloseMark,
       RefundsDrained,
                CloseFails, CloseAgain, CloseBackend, ClearRetained
  <2> QED BY <1>s, <2>1
<1>7. CASE ClearUnused
  BY <1>s, <1>7 DEF ClearUnused
<1> QED BY <1>1, <1>2, <1>3, <1>4, <1>5, <1>6, <1>7, NextCases

-----------------------------------------------------------------------------
(* Credits *)

(* A refund call with this id has written and not returned.                *)
Written(r) == \E c \in Refunds : refund[c].id = r /\ refund[c].pc = "written"

(* The limiter learns of every write, or the backend refuses a second one. *)
Accountable == Authority \/ Probe \/ ~ LostReplies

(* A reservation credited once cannot be credited again: a backend with    *)
(* marker authority has no live marker of it; for any other the limiter    *)
(* dropped it from its slots with the write, and it asks such a backend    *)
(* only about ids in its slots, one call at a time.                        *)
CreditInv ==
  Accountable =>
    /\ \A r \in Rids : credits[r] # 0 =>
         /\ credits[r] = 1
         /\ Authority => marker[r] # "live"
         /\ ~ Authority /\ r \in in_flight => Written(r)
    /\ ~ Authority => \A c \in Refunds : refund[c].pc = "backend" => credits[refund[c].id] = 0

(* A call that has written stays so as long as its id keeps its slot.      *)
LEMMA WriterStays ==
  ASSUME LimiterInvariant, Next, ~ LostReplies \/ Probe, NEW c \in Refunds,
         refund[c].pc = "written", refund[c].id \in in_flight'
  PROVE  refund'[c].pc = "written" /\ refund'[c].id = refund[c].id
<1> USE DEF LimiterInvariant, CallsInvariant, refundVars
<1>u. Rids \subseteq Refunds
  BY DEF Refunds
<1>1. ASSUME NEW r \in Rids, QuietAcquire(r)
      PROVE  refund' = refund
  BY <1>1 DEF QuietAcquire, AcquireCall, AcquireSend, AcquireAbort,
     BackendRefuses,
              CancelAcquire, DeliverRecovery, AcquireRefused, BeginDelivery, Finalize,
              Deliver, InterruptDelivery
<1>2. ASSUME NEW r \in Rids, Charging(r)
      PROVE  refund'[c].pc = "written" /\ refund'[c].id = refund[c].id
  <2>1. refund' = Touched(r)
    BY <1>2 DEF Charging, BackendCharges, BackendCleanupFails
  <2> QED BY <1>u, <2>1, TouchedCalls
<1>3. ASSUME NEW r \in Rids, Undeliver(r) \/ UndeliverEnds(r)
      PROVE  refund'[c] = refund[c]
  <2>1. refund[r].pc # "written" /\ (\A d \in Refunds : d # r => refund'[d] = refund[d])
    BY <1>3, <1>u DEF Undeliver, UndeliverEnds, LockTypes, CallsInv
  <2> QED BY <2>1
<1>4. ASSUME NEW d \in Refunds, RefundStep(d) \/ RefundGiveUp(d)
      PROVE  refund'[c].pc = "written" /\ refund'[c].id = refund[c].id
  <2>1. /\ \A e \in Refunds : e # d => SameCall(e)
        /\ ~ BackendRefunds(d) => Learns(d)
    BY <1>4, RefundOutcomes
  <2>2. CASE c # d
    BY <2>1, <2>2 DEF SameCall
  <2>3. CASE c = d
    <3>1. Learns(c)
      BY <2>1, <2>3 DEF BackendRefunds, At
    <3> QED BY <3>1 DEF Learns, ForgetSlots
  <2> QED BY <2>2, <2>3
<1>5. ASSUME NEW d \in Refunds, NEW r \in Rids, RefundCall(d, r)
      PROVE  refund'[c] = refund[c]
  BY <1>5 DEF RefundCall, Queue, At, LockTypes
<1>6. ASSUME NEW k \in Closers, QuietClose(k) \/ Clearing(k)
      PROVE  refund' = refund
  BY <1>6 DEF QuietClose, Clearing, CloseCall, AcquiresDrained, CloseMark,
     RefundsDrained,
              CloseFails, CloseAgain, CloseBackend, ClearRetained
<1>7. ClearUnused => refund' = refund
  BY DEF ClearUnused
<1> QED BY <1>1, <1>2, <1>3, <1>4, <1>5, <1>6, <1>7, NextCases

(* A step takes a slot in flight only for an open charge that was never    *)
(* credited.                                                               *)
LEMMA NewInFlight ==
  ASSUME LimiterInvariant, ChargeInv, Next, NEW r \in Rids, r \in in_flight', r \notin in_flight
  PROVE  /\ marker[r] = "live" /\ credits[r] = 0
         /\ UNCHANGED <<marker, credits>>
<1> USE DEF LimiterInvariant, CallsInvariant, ledgerVars, slotVars
<1>1. ASSUME acquire[r] \in {"stuck", "finalizing", "undelivered"}, UNCHANGED <<marker, credits>>
      PROVE  /\ marker[r] = "live" /\ credits[r] = 0
             /\ UNCHANGED <<marker, credits>>
  BY <1>1 DEF ChargeInv, Late, Handed
<1>2. ASSUME NEW s \in Rids,
             QuietAcquire(s) \/ Charging(s) \/ Undeliver(s) \/ UndeliverEnds(s)
      PROVE  acquire[r] \in {"stuck", "finalizing", "undelivered"} /\ UNCHANGED <<marker, credits>>
  <2>1. ~ Charging(s) /\ ~ UndeliverEnds(s)
    BY DEF Charging, BackendCharges, BackendCleanupFails, UndeliverEnds,
       EndCleanup
  <2>2. CASE QuietAcquire(s)
    BY <2>2 DEF QuietAcquire, AcquireCall, AcquireSend, AcquireAbort,
       BackendRefuses,
                CancelAcquire, DeliverRecovery, AcquireRefused, BeginDelivery, Finalize,
                Deliver, InterruptDelivery, RollbackSlots, FinalizeSlots, BeginCleanup,
                EndCleanup
  <2>3. CASE Undeliver(s)
    BY <2>3 DEF Undeliver, FinalizeSlots
  <2> QED BY <1>2, <2>1, <2>2, <2>3
<1>3. ASSUME NEW c \in Refunds, RefundStep(c) \/ RefundGiveUp(c)
      PROVE  FALSE
  BY <1>3, RefundSlots DEF ForgetSlots
<1>4. ASSUME NEW c \in Refunds, NEW s \in Rids, RefundCall(c, s)
      PROVE  FALSE
  BY <1>4 DEF RefundCall, Expire, ForgetSlots
<1>5. ASSUME NEW k \in Closers, QuietClose(k) \/ Clearing(k)
      PROVE  FALSE
  BY <1>5 DEF QuietClose, Clearing, CloseCall, AcquiresDrained, CloseMark,
     RefundsDrained,
              CloseFails, CloseAgain, CloseBackend, ClearRetained
<1>6. CASE ClearUnused
  BY <1>6 DEF ClearUnused
<1> QED BY <1>1, <1>2, <1>3, <1>4, <1>5, <1>6, NextCases

(* Only the backend credits or settles, and only an acquire opens a charge.*)
LEMMA LedgerMoves ==
  ASSUME LimiterInvariant, Next, NEW r \in Rids
  PROVE  /\ credits'[r] # credits[r] \/ (marker'[r] = "settled" /\ marker[r] # "settled") =>
              \E c \in Refunds : BackendRefunds(c) /\ refund[c].id = r
         /\ marker'[r] = "live" /\ marker[r] # "live" => acquire[r] = "backend"
<1> USE DEF LimiterInvariant, CallsInvariant, ledgerVars
<1> DEFINE Goal == /\ credits'[r] # credits[r] \/ (marker'[r] = "settled" /\ marker[r] # "settled") =>
                        \E c \in Refunds : BackendRefunds(c) /\ refund[c].id = r
                   /\ marker'[r] = "live" /\ marker[r] # "live" => acquire[r] = "backend"
<1>0. ASSUME UNCHANGED <<marker, credits>> PROVE Goal
  BY <1>0
<1>1. ASSUME NEW s \in Rids, QuietAcquire(s) \/ Undeliver(s) \/ UndeliverEnds(s)
      PROVE  UNCHANGED <<marker, credits>>
  BY <1>1 DEF QuietAcquire, AcquireCall, AcquireSend, AcquireAbort,
     BackendRefuses,
              CancelAcquire, DeliverRecovery, AcquireRefused, BeginDelivery, Finalize,
              Deliver, InterruptDelivery, Undeliver, UndeliverEnds
<1>2. ASSUME NEW s \in Rids, Charging(s) PROVE Goal
  BY <1>2 DEF Charging, BackendCharges, BackendCleanupFails, Types
<1>3. ASSUME NEW c \in Refunds, RefundStep(c) \/ RefundGiveUp(c) PROVE Goal
  <2>1. CASE BackendRefunds(c)
    <3>1. /\ \A s \in Rids : s # refund[c].id => marker'[s] = marker[s] /\ credits'[s] = credits[s]
          /\ marker'[refund[c].id] = "settled" \/ marker'[refund[c].id] = marker[refund[c].id]
      BY <2>1, BackendAnswers
    <3> QED BY <2>1, <3>1
  <2>2. CASE ~ BackendRefunds(c)
    BY <1>0, <1>3, <2>2, RefundOutcomes DEF Learns
  <2> QED BY <2>1, <2>2
<1>4. ASSUME NEW c \in Refunds, NEW s \in Rids, RefundCall(c, s)
      PROVE  UNCHANGED <<marker, credits>>
  BY <1>4 DEF RefundCall
<1>5. ASSUME NEW k \in Closers, QuietClose(k) \/ Clearing(k)
      PROVE  UNCHANGED <<marker, credits>>
  BY <1>5 DEF QuietClose, Clearing, CloseCall, AcquiresDrained, CloseMark,
     RefundsDrained,
              CloseFails, CloseAgain, CloseBackend
<1>6. ASSUME ClearUnused PROVE Goal
  BY <1>6 DEF ClearUnused
<1> QED BY <1>0, <1>1, <1>2, <1>3, <1>4, <1>5, <1>6, NextCases

(* A call is at the backend because it was, or because the limiter sent it *)
(* there now, knowing its id.                                              *)
LEMMA BackendFrom ==
  ASSUME LimiterInvariant, Next, NEW c \in Refunds, refund'[c].pc = "backend"
  PROVE  /\ refund'[c].id = refund[c].id
         /\ \/ refund[c].pc = "backend" /\ ~ BackendRefunds(c)
            \/ /\ refund[c].pc = "refresh" /\ Known(refund[c].id)
               /\ UNCHANGED <<marker, credits>> /\ UNCHANGED slotVars
<1> USE DEF LimiterInvariant, CallsInvariant, refundVars
<1>u. Rids \subseteq Refunds
  BY DEF Refunds
<1>0. ASSUME refund'[c].pc = refund[c].pc, refund'[c].id = refund[c].id
      PROVE  /\ refund'[c].id = refund[c].id
             /\ refund[c].pc = "backend" /\ ~ BackendRefunds(c)
  <2>1. BackendRefunds(c) => refund'[c].pc # "backend"
    BY BackendAnswers
  <2> QED BY <1>0, <2>1
<1>1. ASSUME NEW r \in Rids, QuietAcquire(r)
      PROVE  refund' = refund
  BY <1>1 DEF QuietAcquire, AcquireCall, AcquireSend, AcquireAbort,
     BackendRefuses,
              CancelAcquire, DeliverRecovery, AcquireRefused, BeginDelivery, Finalize,
              Deliver, InterruptDelivery
<1>2. ASSUME NEW r \in Rids, Charging(r)
      PROVE  refund'[c].pc = refund[c].pc /\ refund'[c].id = refund[c].id
  <2>1. refund' = Touched(r)
    BY <1>2 DEF Charging, BackendCharges, BackendCleanupFails
  <2> QED BY <1>u, <2>1, TouchedCalls
<1>3. ASSUME NEW r \in Rids, Undeliver(r) \/ UndeliverEnds(r)
      PROVE  refund'[c] = refund[c]
  <2>1. /\ refund' = [refund EXCEPT ![r] = NoRefund]
           \/ refund' = [refund EXCEPT ![r] = [NoRefund EXCEPT !.pc = "entry", !.id = r,
                                                               !.allow_closed = closed]]
        /\ closed \in BOOLEAN
    BY <1>3 DEF Undeliver, UndeliverEnds, Types
  <2>2. refund'[r].pc # "backend"
    BY <1>u, <2>1, NoRefundFields DEF LockTypes, Refund
  <2>3. \A d \in Refunds : d # r => refund'[d] = refund[d]
    BY <1>u, <2>1 DEF LockTypes
  <2> QED BY <2>2, <2>3
<1>4. ASSUME NEW d \in Refunds, RefundStep(d) \/ RefundGiveUp(d)
      PROVE  \/ refund'[c].pc = refund[c].pc /\ refund'[c].id = refund[c].id
             \/ /\ refund'[c].id = refund[c].id
                /\ refund[c].pc = "refresh" /\ Known(refund[c].id)
                /\ UNCHANGED <<marker, credits>> /\ UNCHANGED slotVars
  <2>1. /\ \A e \in Refunds : e # d => SameCall(e)
        /\ ~ BackendRefunds(d) => Learns(d)
    BY <1>4, RefundOutcomes
  <2>2. BackendRefunds(c) => refund'[c].pc # "backend"
    BY BackendAnswers
  <2>3. CASE c # d
    BY <2>1, <2>3 DEF SameCall
  <2>4. CASE c = d
    BY <2>1, <2>2, <2>4 DEF Learns
  <2> QED BY <2>3, <2>4
<1>5. ASSUME NEW d \in Refunds, NEW r \in Rids, RefundCall(d, r)
      PROVE  refund'[c] = refund[c]
  <2>1. CASE refund' = refund
    BY <2>1
  <2>2. CASE Queue(d, r, FALSE)
    <3>1. refund'[d].pc = "queued" /\ \A e \in Refunds : e # d => refund'[e] = refund[e]
      BY <2>2, NoRefundFields DEF Queue, LockTypes, Refund
    <3> QED BY <3>1
  <2> QED BY <1>5, <2>1, <2>2 DEF RefundCall
<1>6. ASSUME NEW k \in Closers, QuietClose(k) \/ Clearing(k)
      PROVE  refund' = refund
  BY <1>6 DEF QuietClose, Clearing, CloseCall, AcquiresDrained, CloseMark,
     RefundsDrained,
              CloseFails, CloseAgain, CloseBackend, ClearRetained
<1>7. ClearUnused => refund' = refund
  BY DEF ClearUnused
<1> QED BY <1>0, <1>1, <1>2, <1>3, <1>4, <1>5, <1>6, <1>7, NextCases

(* Every step that settles a charge in flight is by a call that has        *)
(* written, and the slot goes before that call.                            *)
LEMMA SettledStep ==
  ASSUME LimiterInvariant, ChargeInv, SettledFreesSlot, Next
  PROVE  SettledFreesSlot'
<1> USE DEF LimiterInvariant, CallsInvariant
<1>1. deployment' = deployment
  BY DeploymentStays
<1>2. SUFFICES ASSUME ~ LostReplies \/ Probe, NEW r \in in_flight', marker'[r] = "settled"
               PROVE  Written(r)'
  BY <1>1 DEF SettledFreesSlot, Written, LostReplies, Probe
<1>3. r \in Rids
  BY TypesStep DEF Types
<1>4. r \in in_flight
  BY <1>2, <1>3, NewInFlight
<1>5. CASE marker[r] = "settled"
  <2>1. PICK c \in Refunds : refund[c].id = r /\ refund[c].pc = "written"
    BY <1>2, <1>4, <1>5 DEF SettledFreesSlot
  <2>2. refund'[c].pc = "written" /\ refund'[c].id = refund[c].id
    BY <1>2, <2>1, WriterStays
  <2> QED BY <2>1, <2>2 DEF Written
<1>6. CASE marker[r] # "settled"
  <2>1. PICK c \in Refunds : BackendRefunds(c) /\ refund[c].id = r
    BY <1>2, <1>3, <1>6, LedgerMoves
  <2>2. /\ refund'[c].id = r
        /\ refund'[c].pc = "written" \/ marker'[r] = marker[r]
    BY <2>1, BackendAnswers
  <2> QED BY <1>2, <1>6, <2>2 DEF Written
<1> QED BY <1>5, <1>6

(* Every step keeps a credited reservation from a second credit.           *)
LEMMA CreditStep ==
  ASSUME LimiterInvariant, ChargeInv, CreditInv, Next
  PROVE  CreditInv'
<1> USE DEF LimiterInvariant, CallsInvariant
<1>1. /\ Authority' = Authority
      /\ Accountable' <=> Accountable
      /\ Authority \in BOOLEAN
  <2>1. deployment' = deployment
    BY DeploymentStays
  <2>2. Authority \in BOOLEAN
    BY LimiterAssumption DEF Types, Deployment, Authority
  <2> QED BY <2>1, <2>2 DEF Authority, Accountable, Probe, LostReplies
<1>2. SUFFICES ASSUME Accountable
               PROVE  /\ \A r \in Rids : credits'[r] # 0 =>
                           /\ credits'[r] = 1
                           /\ Authority => marker'[r] # "live"
                           /\ ~ Authority /\ r \in in_flight' => Written(r)'
                      /\ ~ Authority => \A c \in Refunds :
                           refund'[c].pc = "backend" => credits'[refund'[c].id] = 0
  BY <1>1 DEF CreditInv
<1>3. /\ \A r \in Rids : credits[r] # 0 =>
           /\ credits[r] = 1
           /\ Authority => marker[r] # "live"
           /\ ~ Authority /\ r \in in_flight => Written(r)
      /\ ~ Authority => \A c \in Refunds : refund[c].pc = "backend" => credits[refund[c].id] = 0
  BY <1>2 DEF CreditInv
<1>4. ASSUME NEW r \in Rids, credits'[r] # credits[r]
      PROVE  /\ credits'[r] = 1
             /\ Authority => marker'[r] # "live"
             /\ Written(r)'
  <2>1. PICK c \in Refunds : BackendRefunds(c) /\ refund[c].id = r
    BY <1>4, LedgerMoves
  <2>2. /\ refund[c].pc = "backend" /\ (marker[r] = "live" \/ ~ Authority)
        /\ refund'[c].pc = "written" /\ refund'[c].id = r /\ marker'[r] = "settled"
        /\ credits'[r] = credits[r] + 1
    BY <1>4, <2>1, BackendAnswers
  <2>3. credits[r] = 0
    BY <1>3, <2>1, <2>2, BackendAnswers
  <2> QED BY <2>2, <2>3 DEF Written
<1>5. ASSUME NEW r \in Rids, credits'[r] = credits[r], credits[r] # 0
      PROVE  /\ credits'[r] = 1
             /\ Authority => marker'[r] # "live"
             /\ ~ Authority /\ r \in in_flight' => Written(r)'
  <2>1. credits'[r] = 1
    BY <1>3, <1>5
  <2>2. ASSUME Authority PROVE marker'[r] # "live"
    <3>1. acquire[r] # "backend"
      BY <1>5 DEF ChargeInv, Handed
    <3> QED BY <1>3, <1>5, <2>2, <3>1, LedgerMoves
  <2>3. ASSUME ~ Authority, r \in in_flight' PROVE Written(r)'
    <3>1. r \in in_flight
      BY <1>5, <2>3, NewInFlight
    <3>2. PICK c \in Refunds : refund[c].id = r /\ refund[c].pc = "written"
      BY <1>3, <1>5, <2>3, <3>1 DEF Written
    <3>3. ~ LostReplies \/ Probe
      BY <1>2, <2>3 DEF Accountable
    <3>4. refund'[c].pc = "written" /\ refund'[c].id = refund[c].id
      BY <2>3, <3>2, <3>3, WriterStays
    <3> QED BY <3>2, <3>4 DEF Written
  <2> QED BY <2>1, <2>2, <2>3
<1>6. ASSUME ~ Authority, NEW c \in Refunds, refund'[c].pc = "backend"
      PROVE  credits'[refund'[c].id] = 0
  <2> DEFINE r == refund[c].id
  <2>0. r \in Rids
    BY DEF LockTypes, Refund
  <2>1. /\ refund'[c].id = r
        /\ \/ refund[c].pc = "backend" /\ ~ BackendRefunds(c)
           \/ /\ refund[c].pc = "refresh" /\ Known(r)
              /\ UNCHANGED <<marker, credits>>
    BY <1>6, BackendFrom
  <2>2. CASE refund[c].pc = "backend" /\ ~ BackendRefunds(c)
    <3>1. credits[r] = 0
      BY <1>3, <1>6, <2>2
    <3>2. credits'[r] = credits[r]
      <4> SUFFICES ASSUME credits'[r] # credits[r]
                   PROVE  FALSE
        OBVIOUS
      <4>1. PICK d \in Refunds : BackendRefunds(d) /\ refund[d].id = r
        BY <2>0, LedgerMoves
      <4>2. refund[d].pc = "backend"
        BY <4>1, BackendAnswers
      <4>3. c = d
        BY <2>2, <4>1, <4>2, OneHolder DEF Holding
      <4> QED BY <2>2, <4>1, <4>3
    <3> QED BY <2>1, <3>1, <3>2
  <2>3. CASE refund[c].pc = "refresh" /\ Known(r) /\ UNCHANGED <<marker, credits>>
    <3>1. r \in in_flight
      BY <1>6, <2>3 DEF Known
    <3>2. credits[r] = 0
      <4> SUFFICES ASSUME credits[r] # 0
                   PROVE  FALSE
        OBVIOUS
      <4>1. PICK d \in Refunds : refund[d].id = r /\ refund[d].pc = "written"
        BY <1>3, <1>6, <2>0, <3>1 DEF Written
      <4>2. c = d
        BY <2>3, <4>1, OneHolder DEF Holding
      <4> QED BY <2>3, <4>1, <4>2
    <3> QED BY <2>1, <2>3, <3>2
  <2> QED BY <2>1, <2>2, <2>3
<1> QED BY <1>4, <1>5, <1>6

-----------------------------------------------------------------------------
(* The theorems *)

(* The slots, the charges and the credits in one invariant                 *)
LedgerInvariant ==
  /\ LimiterInvariant
  /\ ChargeInv
  /\ ChargesAreTracked
  /\ InFlightIsCharged
  /\ RaisedIsRefunded
  /\ SettledFreesSlot
  /\ CreditInv

(* It holds always.                                                        *)
LEMMA LedgerAlways == Spec => []LedgerInvariant
<1>1. Init => ChargeInv /\ ChargesAreTracked /\ InFlightIsCharged /\ RaisedIsRefunded
              /\ SettledFreesSlot /\ CreditInv
  <2> SUFFICES ASSUME Init
               PROVE  /\ ChargeInv /\ ChargesAreTracked /\ InFlightIsCharged
                      /\ RaisedIsRefunded /\ SettledFreesSlot /\ CreditInv
    OBVIOUS
  <2>1. /\ \A c \in Refunds : refund[c].pc = "idle"
        /\ \A r \in Rids : acquire[r] = "new" /\ marker[r] = "absent" /\ credits[r] = 0
        /\ in_flight = {}
    BY NoRefundFields DEF Init
  <2>2. Rids \subseteq Refunds /\ Blocking \subseteq Rids
    BY LimiterAssumption DEF Refunds, Init, Deployment, Blocking
  <2>3. ChargeInv
    BY <2>1, <2>2 DEF ChargeInv, Late, Answered
  <2>4. ChargesAreTracked /\ InFlightIsCharged /\ RaisedIsRefunded /\ SettledFreesSlot
    BY <2>1, <2>2 DEF ChargesAreTracked, InFlightIsCharged, RaisedIsRefunded,
       SettledFreesSlot
  <2>5. CreditInv
    BY <2>1 DEF CreditInv
  <2> QED BY <2>3, <2>4, <2>5
<1>2. /\ LimiterInvariant /\ ChargeInv /\ ChargesAreTracked /\ InFlightIsCharged
      /\ RaisedIsRefunded /\ SettledFreesSlot /\ CreditInv /\ [Next]_vars
      => /\ ChargeInv' /\ ChargesAreTracked' /\ InFlightIsCharged'
         /\ RaisedIsRefunded' /\ SettledFreesSlot' /\ CreditInv'
  <2> SUFFICES ASSUME LimiterInvariant, ChargeInv, ChargesAreTracked, InFlightIsCharged,
                      RaisedIsRefunded, SettledFreesSlot, CreditInv, [Next]_vars
               PROVE  /\ ChargeInv' /\ ChargesAreTracked' /\ InFlightIsCharged'
                      /\ RaisedIsRefunded' /\ SettledFreesSlot' /\ CreditInv'
    OBVIOUS
  <2>1. CASE Next
    BY <2>1, ChargeStep, TrackedStep, InFlightStep, RaisedStep, SettledStep,
       CreditStep
  <2>2. CASE UNCHANGED vars
    <3> USE <2>2 DEF vars, acquireVars, slotVars, refundVars, closeVars, ledgerVars,
                     Blocking, Authority, Probe, LostReplies, Written
    <3>1. ChargeInv'
      BY DEF ChargeInv
    <3>2. ChargesAreTracked' /\ InFlightIsCharged' /\ RaisedIsRefunded'
      BY DEF ChargesAreTracked, InFlightIsCharged, RaisedIsRefunded, Occupied
    <3>3. SettledFreesSlot'
      BY DEF SettledFreesSlot
    <3>4. CreditInv'
      BY DEF CreditInv, Accountable
    <3> QED BY <3>1, <3>2, <3>3, <3>4
  <2> QED BY <2>1, <2>2
<1> QED BY <1>1, <1>2, LimiterAlways, PTL DEF Spec, LedgerInvariant

(* Every open charge of the backend has a slot in the limiter, however its *)
(* acquire was cancelled and its refund failed, but for those the code     *)
(* gives up and those a finished close leaves behind.                      *)
THEOREM ChargesStayTracked == Spec => []ChargesAreTracked
<1>1. LedgerInvariant => ChargesAreTracked
  BY DEF LedgerInvariant
<1> QED BY <1>1, LedgerAlways, PTL

(* A reservation in flight is one the backend has charged: no slot is      *)
(* taken for a refused charge, no backend is evicted under its             *)
(* reservations.                                                           *)
THEOREM InFlightStaysCharged == Spec => []InFlightIsCharged
<1>1. LedgerInvariant => InFlightIsCharged
  BY DEF LedgerInvariant
<1> QED BY <1>1, LedgerAlways, PTL

(* An acquire_capacity that raised without handing over its reservation    *)
(* has given its charge back, whenever it was cancelled; only a critically *)
(* failed refund leaves it.                                                *)
THEOREM RaisedGivesBack == Spec => []RaisedIsRefunded
<1>1. LedgerInvariant => RaisedIsRefunded
  BY DEF LedgerInvariant
<1> QED BY <1>1, LedgerAlways, PTL

(* A credited reservation leaves its slot with the refund that credited    *)
(* it, whatever happened to that refund's caller.                          *)
THEOREM CreditedLeavesSlot == Spec => []SettledFreesSlot
<1>1. LedgerInvariant => SettledFreesSlot
  BY DEF LedgerInvariant
<1> QED BY <1>1, LedgerAlways, PTL

(* A reservation is credited at most once, whatever concurrent refunds,    *)
(* retries after failures and evictions from the table of refund states,   *)
(* if the backend has marker authority or the limiter learns of each write *)
(* (a backend that may lose a reply, without markers and without a probe,  *)
(* can be asked again for what it wrote).                                  *)
THEOREM CreditedAtMostOnce == Spec => [](Accountable => CreditedOnce)
<1>1. LedgerInvariant => (Accountable => CreditedOnce)
  <2> SUFFICES ASSUME LedgerInvariant, Accountable, NEW r \in Rids
               PROVE  credits[r] <= 1
    BY DEF CreditedOnce
  <2>1. credits[r] \in Nat /\ (credits[r] # 0 => credits[r] = 1)
    BY DEF LedgerInvariant, CreditInv, LimiterInvariant, CallsInvariant, Types
  <2> QED BY <2>1
<1> QED BY <1>1, LedgerAlways, PTL

=============================================================================
