-------------------------- MODULE MemoryAccounting --------------------------
(***************************************************************************)
(* What the memory backend's buckets hold, measured against history the    *)
(* code does not keep.                                                     *)
(*                                                                         *)
(*   ideal[b]    the installed object b served by the same calls by an     *)
(*               eager bucket: refilled second by second as real time      *)
(*               passes, at the limit then in force, and never capped from *)
(*               above.  The code refills lazily, on reads, from a wall    *)
(*               clock that may be set back and across changes of the      *)
(*               limit;                                                    *)
(*   account[b]  what calls took from the object less what refunds and     *)
(*               cleanups gave back.                                       *)
(*                                                                         *)
(* The variables are history only: no step of MemoryBackend depends on     *)
(* them.                                                                   *)
(***************************************************************************)
EXTENDS MemoryBackend, FiniteSetsExt

CONSTANT MaxTicks  \* bound: seconds that pass

ASSUME MaxTicksAssumption == MaxTicks \in Nat

VARIABLES ideal, account, ticks

history == <<ideal, account, ticks>>
allvars == <<vars, history>>

Window(b) == Scaled(b, bucket[b].max)

(* What a bucket holds, a part hidden by a lowered limit included; one     *)
(* nobody has written yet is full.                                         *)
Holding(b) == IF bucket[b].fresh THEN Window(b) ELSE Uncapped(bucket[b])

AccountingInit ==
  /\ Init
  /\ ideal = [b \in Buckets |-> IF b \in active THEN Window(b) ELSE 0]
  /\ account = [b \in Buckets |-> 0]
  /\ ticks = 0

(* A step that leaves what the buckets hold alone *)
Quiet == UNCHANGED history

(* The buckets bs come to hold amounts[b], having given out taken[b]. *)
Post(bs, amount(_), taken(_)) ==
  /\ ideal' = [b \in Buckets |-> IF b \in bs THEN amount(b) ELSE ideal[b]]
  /\ account' = [b \in Buckets |-> IF b \in bs THEN account[b] + taken(b)
                                               ELSE account[b]]
  /\ UNCHANGED ticks

AccountConsume(t) ==
  LET take(b) == Take(b, task[t].usage, task[t].keys)
      left(b) == Greater(0, ideal[b] - take(b))
  IN TryConsume(t) /\ Post(active, left, take)

AccountUndo(t) ==
  LET back(b) == - Take(b, task[t].usage, task[t].keys)
      left(b) == ideal[b] - back(b)
  IN Undo(t) /\ Post(Reachable(t), left, back)

AccountRecord(t, r, u) ==
  LET take(b) == Take(b, u, ActiveMetrics)
      left(b) == Greater(ideal[b] - take(b), - Window(b))
  IN /\ Record(t, r, u)
     /\ IF r \in live THEN Quiet ELSE Post(active, left, take)

AccountRefund(t) ==
  LET back(b) == - RefundAmount(t, b)
      left(b) == Greater(- Window(b),
                         ideal[b] + Greater(RefundAmount(t, b), - Window(b)))
  IN RefundCommit(t) /\ Post(active \cap task[t].scope, left, back)

(* A new limit fills a bucket nobody has written yet and no other. *)
Relimited(b, limit) == IF bucket[b].fresh THEN Scaled(b, limit) ELSE ideal[b]

AccountSetMax(t) ==
  /\ SetMaxCommit(t)
  /\ ideal' = [b \in Buckets |-> IF b \in Reachable(t)
                                   THEN Relimited(b, task[t].limit)
                                   ELSE ideal[b]]
  /\ UNCHANGED <<account, ticks>>

(* A bucket id that goes takes its history with it. *)
AccountReconfigure(cfg) ==
  LET stays(b) == b \in active \cap DOMAIN cfg IN
  /\ Reconfigure(cfg)
  /\ ideal' = [b \in Buckets |-> IF stays(b) THEN Relimited(b, cfg[b])
                                 ELSE IF b \in DOMAIN cfg THEN Scaled(b, cfg[b])
                                 ELSE 0]
  /\ account' = [b \in Buckets |-> IF stays(b) THEN account[b] ELSE 0]
  /\ UNCHANGED ticks

AccountTick ==
  /\ ticks < MaxTicks
  /\ Tick
  /\ ideal' = [b \in Buckets |->
                 IF b \in active /\ bucket'[b].elapsed # bucket[b].elapsed
                   THEN ideal[b] + bucket[b].max ELSE ideal[b]]
  /\ ticks' = ticks + 1
  /\ UNCHANGED account

QuietProgress(t) ==
  \/ TryReplay(t) \/ TryReject(t) \/ TryWait(t) \/ WaitStartReturns(t)
  \/ Wake(t) \/ Unregister(t) \/ CallbacksReturn(t) \/ RecordReturns(t)
  \/ RefundReject(t)

QuietCall(t) ==
  \/ \E r \in Ids, u \in Usages : AwaitCall(t, r, u)
  \/ \E r \in Ids, a \in Actuals : RefundCall(t, r, a)
  \/ \E b \in Buckets, limit \in Limits : SetMaxCall(t, b, limit)

AccountingNext ==
  \/ \E t \in Tasks :
       \/ (QuietProgress(t) \/ Cancellation(t) \/ QuietCall(t)) /\ Quiet
       \/ AccountConsume(t) \/ AccountUndo(t) \/ AccountRefund(t)
       \/ AccountSetMax(t)
       \/ \E r \in Ids, u \in Usages : AccountRecord(t, r, u)
  \/ \E cfg \in Configs : AccountReconfigure(cfg)
  \/ AccountTick
  \/ ClockSetBack /\ Quiet

AccountingSpec == AccountingInit /\ [][AccountingNext]_allvars

-----------------------------------------------------------------------------
(* No operation makes capacity out of nothing: whatever limits are raised, *)
(* lowered or rebuilt, however late a bucket is read and however often the *)
(* clock is set back, an installed bucket never holds more than an eager,  *)
(* uncapped one that served the same calls (the anchoring in               *)
(* set_max_capacity, the clamp in calculate_capacity).                     *)
NothingFromNothing ==
  \A b \in active : Holding(b) <= ideal[b]

Charge(r, b) == Take(b, value[r].usage, value[r].keys)

(* Refunds and cleanups give back what was taken, once: each open charge   *)
(* is still in the account of every bucket it was taken from, also while   *)
(* other reservations are refunded twice, undone or refunded across a      *)
(* change of the bucket set.                                               *)
OpenChargesAreHeld ==
  \A b \in active :
    MapThenSumSet(LAMBDA r : Charge(r, b),
                  {r \in live : b \in value[r].scope}) <= account[b]

SmallestLimit == Min(Limits \cup UNION {Range(c) : c \in Configs})

(* Capacity does not leak: a bucket holds at least a full window of the    *)
(* smallest limit it may have had, less what is charged to its account,    *)
(* whatever was cancelled, undone or rejected on the way.                  *)
NothingLost ==
  \A b \in active : Scaled(b, SmallestLimit) - account[b] <= Avail(b)

(* A refund that raises what a bucket holds returns a charge that was      *)
(* taken from that bucket, never more than calls have taken from it.       *)
RefundsCreditOwnBucket ==
  [][\A t \in Tasks : RefundCommit(t) =>
       \A b \in active : Avail(b)' > Avail(b) => account'[b] >= 0]_allvars

=============================================================================
