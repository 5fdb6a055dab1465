------------------------ MODULE MemoryBackendProofs ------------------------
(***************************************************************************)
(* Proofs about MemoryBackend, for every set of buckets, limits, callers,  *)
(* reservation ids and remembered refunds.  First types and the arithmetic *)
(* of buckets.  Then the marker tables by themselves: which ids are        *)
(* charged, which are remembered as refunded, and that the two implement   *)
(* the abstract ledger of reservation ids.  Last the callers whose charges *)
(* they record: a reservation a caller was given is one the backend will   *)
(* refund, and no charge is left without a caller, a running call or a     *)
(* recording that answers for it.                                          *)
(***************************************************************************)
EXTENDS MemoryBackend, SequenceTheorems, TLAPS

-----------------------------------------------------------------------------
(* The arithmetic of one bucket stays in its type. *)

(* Reading a bucket gives an integer. *)
LEMMA ReadType ==
  ASSUME NEW bk \in BucketState, NEW p \in Nat
  PROVE  /\ TimePassed(bk) \in Nat
         /\ Uncapped(bk) \in Int
         /\ calculate_capacity(bk, p) \in Int
<1>1. bk.elapsed \in Int /\ bk.cap \in Int /\ bk.max \in Nat /\ bk.fresh \in BOOLEAN
  BY DEF BucketState
<1>2. TimePassed(bk) \in Nat
  BY <1>1 DEF TimePassed, Greater
<1>3. \A a, b \in Nat : a * b \in Nat
  OBVIOUS
<1>4. TimePassed(bk) * bk.max \in Nat /\ bk.max * p \in Nat
  BY <1>1, <1>2, <1>3
<1>5. Uncapped(bk) \in Int
  BY <1>1, <1>4 DEF Uncapped
<1>6. calculate_capacity(bk, p) \in Int
  BY <1>4, <1>5 DEF calculate_capacity, Lesser
<1> QED BY <1>2, <1>5, <1>6

(* Every write of a bucket gives a bucket. *)
LEMMA WriteType ==
  ASSUME NEW bk \in BucketState, NEW v \in Int, NEW a \in BOOLEAN
  PROVE  set_capacity(bk, v, a) \in BucketState
<1> DEFINE c == IF a THEN v ELSE Greater(0, v)
<1>1. c \in Int
  BY DEF Greater
<1> HIDE DEF c
<1>2. [fresh |-> FALSE, cap |-> c, elapsed |-> 0, max |-> bk.max] \in BucketState
  BY <1>1 DEF BucketState
<1> QED BY <1>2 DEF set_capacity, c

(* New buckets are full. *)
LEMMA NewType ==
  ASSUME NEW v \in Nat \ {0}
  PROVE  NewBucket(v) \in BucketState
BY DEF NewBucket, BucketState

(* set_max_capacity returns a bucket. *)
LEMMA LimitType ==
  ASSUME NEW bk \in BucketState, NEW v \in Nat \ {0}
  PROVE  set_max_capacity(bk, v) \in BucketState
<1>1. Uncapped(bk) \in Int
  BY ReadType
<1> QED BY <1>1, NewType DEF set_max_capacity, BucketState

(* What a usage takes from a bucket is a natural. *)
LEMMA TakeType ==
  ASSUME NEW b \in Buckets, NEW u \in [Metrics -> Nat], NEW keys
  PROVE  Take(b, u, keys) \in Nat
<1>1. PerSeconds[b] \in Nat /\ MetricOf[b] \in Metrics
  BY ShapeAssumption
<1>2. \A x, y \in Nat : x * y \in Nat
  OBVIOUS
<1>3. u[MetricOf[b]] \in Nat
  BY <1>1
<1>4. Scaled(b, u[MetricOf[b]]) \in Nat
  BY <1>1, <1>2, <1>3 DEF Scaled
<1> QED BY <1>4 DEF Take

(* What the calls compute from a state is in its type. *)
LEMMA StateReads ==
  ASSUME TypeOK, NEW b \in Buckets
  PROVE  /\ Avail(b) \in Int
         /\ Scaled(b, bucket[b].max) \in Nat
         /\ \A u \in [Metrics -> Nat] : \A keys : Take(b, u, keys) \in Nat
<1>1. PerSeconds[b] \in Nat /\ MetricOf[b] \in Metrics
  BY ShapeAssumption
<1>2. bucket[b] \in BucketState
  BY DEF TypeOK
<1>3. \A x, y \in Nat : x * y \in Nat
  OBVIOUS
<1>4. Avail(b) \in Int
  BY <1>1, <1>2, ReadType DEF Avail
<1>5. bucket[b].max \in Nat
  BY <1>2 DEF BucketState
<1>6. Scaled(b, bucket[b].max) \in Nat
  BY <1>1, <1>3, <1>5 DEF Scaled
<1>7. ASSUME NEW u \in [Metrics -> Nat], NEW keys
      PROVE  Take(b, u, keys) \in Nat
  BY TakeType
<1> QED BY <1>4, <1>6, <1>7

(* Every bucket that an operation writes back is a bucket. *)
LEMMA WrittenBuckets ==
  ASSUME TypeOK, NEW b \in Buckets
  PROVE  /\ \A t \in Tasks : /\ ConsumedBucket(t, b) \in BucketState
                             /\ UndoneBucket(t, b) \in BucketState
                             /\ task[t].id \in Ids => RefundedBucket(t, b) \in BucketState
         /\ \A u \in [Metrics -> Nat] : \A keys : RecordedBucket(b, u, keys) \in BucketState
<1>1. /\ bucket[b] \in BucketState
      /\ Avail(b) \in Int
      /\ Scaled(b, bucket[b].max) \in Nat
      /\ \A u \in [Metrics -> Nat] : \A keys : Take(b, u, keys) \in Nat
  BY StateReads DEF TypeOK
<1>2. ASSUME NEW t \in Tasks
      PROVE  task[t].usage \in [Metrics -> Nat]
  BY DEF TypeOK, CallsTyped, Task
<1>3. ASSUME NEW t \in Tasks
      PROVE  ConsumedBucket(t, b) \in BucketState
  <2>1. Avail(b) - Take(b, task[t].usage, task[t].keys) \in Int
    BY <1>1, <1>2
  <2> QED BY <1>1, <2>1, WriteType DEF ConsumedBucket
<1>4. ASSUME NEW t \in Tasks
      PROVE  UndoneBucket(t, b) \in BucketState
  <2> DEFINE w == IF MetricOf[b] \in task[t].keys
                    THEN Lesser(Avail(b) + Take(b, task[t].usage, task[t].keys),
                                Scaled(b, bucket[b].max))
                    ELSE Avail(b)
  <2>1. Take(b, task[t].usage, task[t].keys) \in Nat
    BY <1>1, <1>2
  <2>2. w \in Int
    BY <1>1, <2>1 DEF Lesser
  <2> HIDE DEF w
  <2>3. set_capacity(bucket[b], w, TRUE) \in BucketState
    BY <1>1, <2>2, WriteType
  <2> QED BY <2>3 DEF UndoneBucket, w
<1>5. ASSUME NEW t \in Tasks, task[t].id \in Ids
      PROVE  RefundedBucket(t, b) \in BucketState
  <2> DEFINE full == Scaled(b, bucket[b].max)
             w == Greater(- full, Lesser(Avail(b) + Greater(RefundAmount(t, b), - full),
                                         full))
  <2>1. value[task[t].id].usage \in [Metrics -> Nat]
    BY <1>5 DEF TypeOK, Value
  <2>2. RefundAmount(t, b) \in Int
    BY <1>1, <1>2, <2>1 DEF RefundAmount
  <2>3. full \in Int
    BY <1>1
  <2>4. w \in Int
    BY <1>1, <2>2, <2>3 DEF Greater, Lesser
  <2> HIDE DEF w
  <2>5. set_capacity(bucket[b], w, TRUE) \in BucketState
    BY <1>1, <2>4, WriteType
  <2> QED BY <2>5 DEF RefundedBucket, w
<1>6. ASSUME NEW u \in [Metrics -> Nat], NEW keys
      PROVE  RecordedBucket(b, u, keys) \in BucketState
  <2> DEFINE w == IF MetricOf[b] \in keys
                    THEN Greater(Avail(b) - Take(b, u, keys), - Scaled(b, bucket[b].max))
                    ELSE Avail(b)
  <2>1. Take(b, u, keys) \in Nat
    BY <1>1
  <2>2. w \in Int
    BY <1>1, <2>1 DEF Greater
  <2> HIDE DEF w
  <2>3. set_capacity(bucket[b], w, TRUE) \in BucketState
    BY <1>1, <2>2, WriteType
  <2> QED BY <2>3 DEF RecordedBucket, w
<1> QED BY <1>3, <1>4, <1>5, <1>6

-----------------------------------------------------------------------------
(* Type correctness *)

(* The record of a call that is not running. *)
LEMMA IdleType == Idle \in Task /\ Idle.pc = "idle"
BY DEF Task, Idle, PCs, NoUsage, NoId

(* Replacing the record of one call keeps the table of calls in its type.  *)
LEMMA CallStep ==
  ASSUME TypeOK, NEW t \in Tasks, NEW rec \in Task,
         rec.pc \notin {"idle", "set_max"} => rec.id \in Ids,
         rec.pc = "set_max" => rec.limit \in Limits,
         task' = [task EXCEPT ![t] = rec]
  PROVE  CallsTyped'
<1>1. task \in [Tasks -> Task]
  BY DEF TypeOK, CallsTyped
<1>2. \A s \in Tasks : task'[s] = IF s = t THEN rec ELSE task[s]
  BY <1>1
<1> QED BY <1>1, <1>2 DEF TypeOK, CallsTyped

(* The backend starts well typed. *)
LEMMA InitType == Init => TypeOK
<1> SUFFICES ASSUME Init PROVE TypeOK
  OBVIOUS
<1>1. StartConfig \in Configs /\ DOMAIN StartConfig \subseteq Buckets
      /\ \A b \in DOMAIN StartConfig : StartConfig[b] \in Nat \ {0}
  BY ShapeAssumption
<1>2. bucket \in [Buckets -> BucketState]
  BY <1>1, NewType DEF Init
<1>3. NoValue \in Value
  BY DEF NoValue, Value, NoUsage
<1>4. /\ task \in [Tasks -> Task]
      /\ \A t \in Tasks : task[t].pc = "idle"
  BY IdleType DEF Init
<1>5. refunded \in Seq(Ids)
  BY DEF Init
<1>6. MaxIds \in Nat
  BY BoundAssumption
<1>7. value \in [Ids -> Value]
  BY <1>3 DEF Init
<1> QED BY <1>1, <1>2, <1>4, <1>5, <1>6, <1>7 DEF Init, TypeOK, CallsTyped

(* The outcome of a call that raises, replays or gives up *)
LEMMA LeavingType ==
  ASSUME TypeOK, NEW t \in Tasks, NEW out \in {"replayed", "failed"},
         task[t].id \in Ids
  PROVE  /\ Leaving(t, out) \in Task
         /\ Leaving(t, out).pc \in {"idle", "unregister"}
         /\ Leaving(t, out).pc = "unregister" => Leaving(t, out).id \in Ids
<1>1. task[t] \in Task
  BY DEF TypeOK, CallsTyped
<1>2. [task[t] EXCEPT !.pc = "unregister", !.out = out] \in Task
  BY <1>1 DEF Task, PCs
<1>3. /\ [task[t] EXCEPT !.pc = "unregister", !.out = out].pc = "unregister"
      /\ [task[t] EXCEPT !.pc = "unregister", !.out = out].id = task[t].id
  BY <1>1 DEF Task
<1> QED BY <1>2, <1>3, IdleType DEF Leaving

(* A call that raises leaves through its waiter row. *)
LEMMA RaiseType ==
  ASSUME TypeOK, NEW t \in Tasks, task[t].id \in Ids, Raise(t)
  PROVE  TypeOK'
<1> DEFINE rec == Leaving(t, "failed")
<1>1. rec \in Task /\ rec.pc \in {"idle", "unregister"}
      /\ (rec.pc = "unregister" => rec.id \in Ids)
  BY LeavingType
<1>2. task' = [task EXCEPT ![t] = rec]
  BY DEF Raise
<1> HIDE DEF rec
<1>3. CallsTyped'
  BY <1>1, <1>2, CallStep
<1> QED BY <1>3 DEF Raise, TypeOK

(* A step that only moves one call to a place between calls and await. *)
LEMMA MoveType ==
  ASSUME TypeOK, NEW t \in Tasks, NEW p \in {"try", "undo"},
         task[t].id \in Ids,
         task' = [task EXCEPT ![t] = [task[t] EXCEPT !.pc = p]]
  PROVE  CallsTyped'
<1> DEFINE rec == [task[t] EXCEPT !.pc = p]
<1>1. task[t] \in Task
  BY DEF TypeOK, CallsTyped
<1>2. rec \in Task /\ rec.pc = p /\ rec.id = task[t].id
  BY <1>1 DEF Task, PCs
<1>3. task' = [task EXCEPT ![t] = rec]
  OBVIOUS
<1> HIDE DEF rec
<1> QED BY <1>2, <1>3, CallStep

(* A step that ends one call. *)
LEMMA EndType ==
  ASSUME TypeOK, NEW t \in Tasks, task' = [task EXCEPT ![t] = Idle]
  PROVE  CallsTyped'
BY IdleType, CallStep

(* The starts of calls keep the types. *)
LEMMA CallType ==
  ASSUME TypeOK, NEW t \in Tasks, Call(t)
  PROVE  TypeOK'
<1>1. ASSUME NEW r \in Ids, NEW u \in Usages, AwaitCall(t, r, u)
      PROVE  TypeOK'
  <2> DEFINE rec == [Idle EXCEPT !.pc = "try", !.id = r, !.usage = u,
                                 !.keys = ActiveMetrics]
  <2>1. u \in [Metrics -> Nat] /\ ActiveMetrics \subseteq Metrics
    BY ShapeAssumption DEF ActiveMetrics, TypeOK
  <2>2. rec \in Task /\ rec.pc = "try" /\ rec.id = r
    BY <2>1, IdleType DEF Task, PCs
  <2>3. task' = [task EXCEPT ![t] = rec]
    BY <1>1 DEF AwaitCall
  <2> HIDE DEF rec
  <2>4. CallsTyped'
    BY <2>2, <2>3, CallStep
  <2>5. issued' \in 0..MaxIds
    BY <1>1, BoundAssumption DEF AwaitCall, TakesId, Greater, TypeOK, Ids
  <2> QED BY <1>1, <2>4, <2>5 DEF AwaitCall, TypeOK
<1>2. ASSUME NEW r \in Ids, NEW u \in Usages, Record(t, r, u)
      PROVE  TypeOK'
  <2> DEFINE rec == [Idle EXCEPT !.pc = "record", !.id = r]
             v == [scope |-> active, usage |-> u, keys |-> ActiveMetrics]
  <2>1. u \in [Metrics -> Nat] /\ ActiveMetrics \subseteq Metrics
    BY ShapeAssumption DEF ActiveMetrics, TypeOK
  <2>2. rec \in Task /\ rec.pc = "record" /\ rec.id = r
    BY IdleType DEF Task, PCs
  <2>3. task' = [task EXCEPT ![t] = rec]
    BY <1>2 DEF Record
  <2>4. v \in Value
    BY <2>1 DEF Value, TypeOK
  <2> HIDE DEF rec
  <2>5. CallsTyped'
    BY <2>2, <2>3, CallStep
  <2>6. issued' \in 0..MaxIds
    BY <1>2, BoundAssumption DEF Record, TakesId, Greater, TypeOK, Ids
  <2>7. \A b \in Buckets : RecordedBucket(b, u, ActiveMetrics) \in BucketState
    BY <2>1, WrittenBuckets
  <2>8. /\ bucket' \in [Buckets -> BucketState]
        /\ live' \subseteq Ids
        /\ value' \in [Ids -> Value]
        /\ held' \in [Ids -> {"no", "held", "closed"}]
        /\ recorded' \subseteq Ids
    <3>1. CASE IsReplay(r, v)
      BY <1>2, <3>1 DEF Record, TypeOK
    <3>2. CASE ~ IsReplay(r, v)
      <4>1. /\ bucket' = [b \in Buckets |->
                            IF b \in active THEN RecordedBucket(b, u, ActiveMetrics)
                            ELSE bucket[b]]
            /\ live' = live \cup {r}
            /\ value' = [value EXCEPT ![r] = v]
            /\ held' = [held EXCEPT ![r] = "no"]
            /\ recorded' = recorded \cup {r}
        BY <1>2, <3>2 DEF Record
      <4> HIDE DEF v
      <4> QED BY <4>1, <2>4, <2>7 DEF TypeOK
    <3> QED BY <3>1, <3>2
  <2> QED BY <1>2, <2>5, <2>6, <2>8 DEF Record, TypeOK
<1>3. ASSUME NEW r \in Ids, NEW a \in Actuals, RefundCall(t, r, a)
      PROVE  TypeOK'
  <2> DEFINE rec == [Idle EXCEPT !.pc = "refund", !.id = r, !.usage = a,
                                 !.keys = value[r].keys,
                                 !.scope = value[r].scope \cap active]
  <2>1. a \in [Metrics -> Nat] /\ value[r].keys \subseteq Metrics
        /\ value[r].scope \cap active \subseteq Buckets
    BY ShapeAssumption DEF TypeOK, Value
  <2>2. rec \in Task /\ rec.pc = "refund" /\ rec.id = r
    BY <2>1, IdleType DEF Task, PCs
  <2>3. task' = [task EXCEPT ![t] = rec]
    BY <1>3 DEF RefundCall
  <2> HIDE DEF rec
  <2>4. CallsTyped'
    BY <2>2, <2>3, CallStep
  <2> QED BY <1>3, <2>4 DEF RefundCall, TypeOK
<1>4. ASSUME NEW b \in Buckets, NEW limit \in Limits, SetMaxCall(t, b, limit)
      PROVE  TypeOK'
  <2> DEFINE rec == [Idle EXCEPT !.pc = "set_max", !.objs = {<<b, gen[b]>>},
                                 !.limit = limit]
  <2>1. limit \in Nat /\ {<<b, gen[b]>>} \subseteq Buckets \X Nat
    BY ShapeAssumption DEF TypeOK
  <2>2. rec \in Task /\ rec.pc = "set_max" /\ rec.limit = limit
    BY <2>1, IdleType DEF Task, PCs
  <2>3. task' = [task EXCEPT ![t] = rec]
    BY <1>4 DEF SetMaxCall
  <2> HIDE DEF rec
  <2>4. CallsTyped'
    BY <2>2, <2>3, CallStep
  <2> QED BY <1>4, <2>4 DEF SetMaxCall, TypeOK
<1> QED BY <1>1, <1>2, <1>3, <1>4 DEF Call

(* The FIFO of refunded ids holds ids. *)
LEMMA RangeType ==
  ASSUME TypeOK, NEW r \in Ids
  PROVE  Remember(r) \in Seq(Ids)
<1> DEFINE longer == IF r \in Range(refunded) THEN refunded ELSE Append(refunded, r)
<1>1. longer \in Seq(Ids)
  BY DEF TypeOK
<1>2. Len(longer) > RefundedCap => longer # << >>
  BY <1>1, BoundAssumption
<1> HIDE DEF longer
<1>3. (IF Len(longer) > RefundedCap THEN Tail(longer) ELSE longer) \in Seq(Ids)
  BY <1>1, <1>2
<1> QED BY <1>3 DEF Remember, longer

(* The steps of calls keep the types. *)
LEMMA ProgressType ==
  ASSUME TypeOK, NEW t \in Tasks, Progress(t)
  PROVE  TypeOK'
<1>0. /\ task[t] \in Task
      /\ task[t].pc \notin {"idle", "set_max"} => task[t].id \in Ids
  BY DEF TypeOK, CallsTyped
<1>1. CASE TryReplay(t)
  <2> DEFINE rec == Leaving(t, "replayed")
  <2>1. task[t].id \in Ids
    BY <1>0, <1>1 DEF TryReplay
  <2>2. rec \in Task /\ rec.pc \in {"idle", "unregister"}
        /\ (rec.pc = "unregister" => rec.id \in Ids)
    BY <2>1, LeavingType
  <2>3. task' = [task EXCEPT ![t] = rec]
    BY <1>1 DEF TryReplay
  <2> HIDE DEF rec
  <2>4. CallsTyped'
    BY <2>2, <2>3, CallStep
  <2>5. held' \in [Ids -> {"no", "held", "closed"}]
    BY <1>1, <2>1 DEF TryReplay, TypeOK
  <2> QED BY <1>1, <2>4, <2>5 DEF TryReplay, TypeOK
<1>2. CASE TryReject(t)
  BY <1>0, <1>2, RaiseType DEF TryReject
<1>3. CASE TryConsume(t)
  <2> DEFINE objs == {<<b, gen[b]>> : b \in active}
             pc == IF task[t].reg THEN "unregister" ELSE "callbacks"
             rec == [task[t] EXCEPT !.pc = pc, !.out = "consumed", !.objs = objs]
  <2>1. task[t].id \in Ids
    BY <1>0, <1>3 DEF TryConsume, Tryable
  <2>2. objs \in SUBSET (Buckets \X Nat)
    BY DEF TypeOK
  <2>3. pc \in {"unregister", "callbacks"}
    OBVIOUS
  <2>4. task' = [task EXCEPT ![t] = rec]
    BY <1>3 DEF TryConsume
  <2> HIDE DEF objs, pc
  <2>5. rec \in Task /\ rec.pc = pc /\ rec.id = task[t].id
    BY <1>0, <2>2, <2>3 DEF Task, PCs
  <2> HIDE DEF rec
  <2>6. CallsTyped'
    BY <2>1, <2>3, <2>4, <2>5, CallStep
  <2>7. MarkerValue(t) \in Value
    BY <1>0 DEF MarkerValue, Value, Task, TypeOK
  <2>8. \A b \in Buckets : ConsumedBucket(t, b) \in BucketState
    BY WrittenBuckets
  <2>9. /\ bucket' \in [Buckets -> BucketState]
        /\ live' \subseteq Ids
        /\ value' \in [Ids -> Value]
        /\ held' \in [Ids -> {"no", "held", "closed"}]
    BY <1>3, <2>1, <2>7, <2>8 DEF TryConsume, TypeOK
  <2> QED BY <1>3, <2>6, <2>9 DEF TryConsume, TypeOK
<1>4. CASE TryWait(t)
  <2>1. task[t].id \in Ids
    BY <1>0, <1>4 DEF TryWait, Tryable
  <2>2. ASSUME NEW p \in {"waiting", "wait_start"},
               task' = [task EXCEPT ![t] = [task[t] EXCEPT !.reg = TRUE, !.pc = p]]
        PROVE  CallsTyped'
    <3> DEFINE rec == [task[t] EXCEPT !.reg = TRUE, !.pc = p]
    <3>1. rec \in Task /\ rec.pc = p /\ rec.id = task[t].id
      BY <1>0 DEF Task, PCs
    <3>2. task' = [task EXCEPT ![t] = rec]
      BY <2>2
    <3> HIDE DEF rec
    <3> QED BY <2>1, <3>1, <3>2, CallStep
  <2>3. ASSUME task' = [task EXCEPT ![t] = [task[t] EXCEPT
                          !.reg = TRUE, !.pc = "unregister", !.out = "failed"]]
        PROVE  CallsTyped'
    <3> DEFINE rec == [task[t] EXCEPT !.reg = TRUE, !.pc = "unregister",
                                      !.out = "failed"]
    <3>1. rec \in Task /\ rec.pc = "unregister" /\ rec.id = task[t].id
      BY <1>0 DEF Task, PCs
    <3>2. task' = [task EXCEPT ![t] = rec]
      BY <2>3
    <3> HIDE DEF rec
    <3> QED BY <2>1, <3>1, <3>2, CallStep
  <2>4. CallsTyped'
    BY <1>4, <2>2, <2>3 DEF TryWait
  <2> QED BY <1>4, <2>1, <2>4 DEF TryWait, TypeOK
<1>5. CASE WaitStartReturns(t) \/ Wake(t)
  <2>1. task[t].id \in Ids
    BY <1>0, <1>5 DEF WaitStartReturns, Wake, Resume
  <2>2. task' = [task EXCEPT ![t] = [task[t] EXCEPT !.pc = "try"]]
    BY <1>5 DEF WaitStartReturns, Wake, Resume
  <2>3. CallsTyped'
    BY <2>1, <2>2, MoveType
  <2> QED BY <1>5, <2>3 DEF WaitStartReturns, Wake, Resume, TypeOK
<1>6. CASE Unregister(t)
  <2> DEFINE delivered == [task[t] EXCEPT !.pc = "callbacks", !.reg = FALSE]
             rec == IF task[t].out = "consumed" THEN delivered ELSE Idle
  <2>1. task[t].id \in Ids
    BY <1>0, <1>6 DEF Unregister
  <2>2. delivered \in Task /\ delivered.pc = "callbacks" /\ delivered.id = task[t].id
    BY <1>0 DEF Task, PCs
  <2>3. rec \in Task /\ rec.pc \in {"idle", "callbacks"}
        /\ (rec.pc = "callbacks" => rec.id \in Ids)
    BY <2>1, <2>2, IdleType
  <2>4. task' = [task EXCEPT ![t] = rec]
    BY <1>6 DEF Unregister
  <2> HIDE DEF rec
  <2>5. CallsTyped'
    BY <2>3, <2>4, CallStep
  <2>6. held' \in [Ids -> {"no", "held", "closed"}]
    BY <1>6, <2>1 DEF Unregister, TypeOK
  <2> QED BY <1>6, <2>5, <2>6 DEF Unregister, TypeOK
<1>7. CASE CallbacksReturn(t)
  <2>1. task[t].id \in Ids
    BY <1>0, <1>7 DEF CallbacksReturn
  <2>2. CallsTyped'
    BY <1>7, EndType DEF CallbacksReturn
  <2> QED BY <1>7, <2>1, <2>2 DEF CallbacksReturn, TypeOK
<1>8. CASE Undo(t)
  <2>1. CallsTyped'
    BY <1>8, EndType DEF Undo
  <2>2. \A b \in Buckets : UndoneBucket(t, b) \in BucketState
    BY WrittenBuckets
  <2>3. bucket' \in [Buckets -> BucketState]
    BY <1>8, <2>2 DEF Undo, TypeOK
  <2> QED BY <1>8, <2>1, <2>3 DEF Undo, TypeOK
<1>9. CASE RecordReturns(t)
  <2>1. task[t].id \in Ids
    BY <1>0, <1>9 DEF RecordReturns
  <2>2. CallsTyped'
    BY <1>9, EndType DEF RecordReturns
  <2>3. held' \in [Ids -> {"no", "held", "closed"}]
    BY <1>9, <2>1 DEF RecordReturns, TypeOK
  <2> QED BY <1>9, <2>2, <2>3 DEF RecordReturns, TypeOK
<1>10. CASE RefundCommit(t)
  <2>1. task[t].id \in Ids
    BY <1>0, <1>10 DEF RefundCommit
  <2>2. CallsTyped'
    BY <1>10, EndType DEF RefundCommit
  <2>3. \A b \in Buckets : RefundedBucket(t, b) \in BucketState
    BY <2>1, WrittenBuckets
  <2>4. bucket' \in [Buckets -> BucketState]
    BY <1>10, <2>3 DEF RefundCommit, TypeOK
  <2>5. refunded' \in Seq(Ids)
    BY <1>10, <2>1, RangeType DEF RefundCommit
  <2>6. held' \in [Ids -> {"no", "held", "closed"}]
    BY <1>10, <2>1 DEF RefundCommit, TypeOK
  <2> QED BY <1>10, <2>2, <2>4, <2>5, <2>6 DEF RefundCommit, TypeOK
<1>11. CASE RefundReject(t)
  <2>1. CallsTyped'
    BY <1>11, EndType DEF RefundReject
  <2> QED BY <1>11, <2>1 DEF RefundReject, TypeOK
<1>12. CASE SetMaxCommit(t)
  <2>1. CallsTyped'
    BY <1>12, EndType DEF SetMaxCommit
  <2>2. task[t].limit \in Nat \ {0}
    BY <1>12, ShapeAssumption DEF SetMaxCommit, TypeOK, CallsTyped
  <2>3. \A b \in Buckets : set_max_capacity(bucket[b], task[t].limit) \in BucketState
    BY <2>2, LimitType DEF TypeOK
  <2>4. bucket' \in [Buckets -> BucketState]
    BY <1>12, <2>3 DEF SetMaxCommit, TypeOK
  <2> QED BY <1>12, <2>1, <2>4 DEF SetMaxCommit, TypeOK
<1> QED BY <1>1, <1>2, <1>3, <1>4, <1>5, <1>6, <1>7, <1>8, <1>9, <1>10, <1>11,
           <1>12 DEF Progress

(* Cancellation keeps the types. *)
LEMMA CancellationType ==
  ASSUME TypeOK, NEW t \in Tasks, Cancellation(t)
  PROVE  TypeOK'
<1>0. task[t].pc \notin {"idle", "set_max"} => task[t].id \in Ids
  BY DEF TypeOK, CallsTyped
<1>1. CASE Interrupt(t)
  <2>1. task[t].id \in Ids
    BY <1>0, <1>1 DEF Interrupt
  <2> QED BY <1>1, <2>1, RaiseType DEF Interrupt
<1>2. CASE InterruptCallbacks(t)
  <2>1. task[t].id \in Ids
    BY <1>0, <1>2 DEF InterruptCallbacks
  <2>2. CallsTyped'
    BY <1>2, <2>1, MoveType DEF InterruptCallbacks
  <2> QED BY <1>2, <2>2 DEF InterruptCallbacks, TypeOK
<1> QED BY <1>1, <1>2 DEF Cancellation

(* A rebuild keeps the types. *)
LEMMA ReconfigureType ==
  ASSUME TypeOK, NEW cfg \in Configs, Reconfigure(cfg)
  PROVE  TypeOK'
<1>1. DOMAIN cfg \subseteq Buckets /\ \A b \in DOMAIN cfg : cfg[b] \in Nat \ {0}
  BY ShapeAssumption
<1>2. ASSUME NEW b \in Buckets
      PROVE  (IF b \notin DOMAIN cfg THEN NewBucket(1)
              ELSE IF b \in active THEN set_max_capacity(bucket[b], cfg[b])
              ELSE NewBucket(cfg[b])) \in BucketState
  <2>1. NewBucket(1) \in BucketState
    BY NewType
  <2>2. b \in DOMAIN cfg => /\ NewBucket(cfg[b]) \in BucketState
                            /\ set_max_capacity(bucket[b], cfg[b]) \in BucketState
    BY <1>1, NewType, LimitType DEF TypeOK
  <2> QED BY <2>1, <2>2
<1>3. bucket' \in [Buckets -> BucketState]
  BY <1>2 DEF Reconfigure
<1>4. gen' \in [Buckets -> Nat]
  BY DEF Reconfigure, TypeOK
<1> QED BY <1>1, <1>3, <1>4 DEF Reconfigure, TypeOK, CallsTyped

(* The clock keeps buckets buckets. *)
LEMMA ShiftType ==
  ASSUME TypeOK, NEW s \in Int, Shift(s)
  PROVE  bucket' \in [Buckets -> BucketState]
<1>1. ASSUME NEW b \in Buckets
      PROVE  [bucket[b] EXCEPT !.elapsed =
                Greater(- MaxSkew, Lesser(MaxElapsed, bucket[b].elapsed + s))]
                \in BucketState
  <2> DEFINE e == Greater(- MaxSkew, Lesser(MaxElapsed, bucket[b].elapsed + s))
  <2>1. bucket[b] \in BucketState
    BY DEF TypeOK
  <2>2. e \in Int
    BY <2>1, BoundAssumption DEF BucketState, Greater, Lesser
  <2> HIDE DEF e
  <2>3. [bucket[b] EXCEPT !.elapsed = e] \in BucketState
    BY <2>1, <2>2 DEF BucketState
  <2> QED BY <2>3 DEF e
<1> QED BY <1>1 DEF Shift, TypeOK

(* Every step keeps the types. *)
LEMMA NextType == TypeOK /\ [Next]_vars => TypeOK'
<1> SUFFICES ASSUME TypeOK, [Next]_vars PROVE TypeOK'
  OBVIOUS
<1>1. CASE \E t \in Tasks : Progress(t) \/ Cancellation(t) \/ Call(t)
  BY <1>1, ProgressType, CancellationType, CallType
<1>2. CASE \E cfg \in Configs : Reconfigure(cfg)
  BY <1>2, ReconfigureType
<1>3. CASE Tick
  <2>1. bucket' \in [Buckets -> BucketState]
    BY <1>3, ShiftType DEF Tick
  <2> QED BY <1>3, <2>1 DEF Tick, TypeOK, CallsTyped
<1>4. CASE ClockSetBack
  <2>1. bucket' \in [Buckets -> BucketState]
    BY <1>4, ShiftType DEF ClockSetBack
  <2> QED BY <1>4, <2>1 DEF ClockSetBack, TypeOK, CallsTyped
<1>5. CASE UNCHANGED vars
  BY <1>5 DEF vars, TypeOK, CallsTyped
<1> QED BY <1>1, <1>2, <1>3, <1>4, <1>5 DEF Next

(* Whatever callers, cancellations, reconfigurations and the clock do, the *)
(* tables of the backend keep their types; a call past its first step      *)
(* names a reservation id and a pending limit change a legal limit.        *)
THEOREM TypeCorrect == Spec => []TypeOK
<1>1. Init => TypeOK
  BY InitType
<1>2. TypeOK /\ [Next]_vars => TypeOK'
  BY NextType
<1> QED BY <1>1, <1>2, PTL DEF Spec

-----------------------------------------------------------------------------
(* The FIFO of refunded ids *)

(* Appending an id the FIFO does not hold keeps its entries distinct and   *)
(* adds just that id.                                                      *)
LEMMA AppendNew ==
  ASSUME NEW s \in Seq(Ids), NEW r \in Ids, r \notin Range(s),
         \A i, j \in 1..Len(s) : s[i] = s[j] => i = j
  PROVE  /\ \A i, j \in 1..Len(Append(s, r)) :
              Append(s, r)[i] = Append(s, r)[j] => i = j
         /\ Range(Append(s, r)) = Range(s) \cup {r}
<1> DEFINE a == Append(s, r)
<1>1. /\ a \in Seq(Ids)
      /\ Len(a) = Len(s) + 1
      /\ \A i \in 1..Len(s) : a[i] = s[i]
      /\ a[Len(s) + 1] = r
  BY AppendProperties
<1> HIDE DEF a
<1>2. Range(s) = {s[i] : i \in 1..Len(s)} /\ Range(a) = {a[i] : i \in 1..Len(a)}
  BY <1>1 DEF Range
<1>3. Len(s) \in Nat
  OBVIOUS
<1>4. \A i \in 1..Len(s) : a[i] # r
  BY <1>1, <1>2
<1>5. \A i, j \in 1..Len(a) : a[i] = a[j] => i = j
  BY <1>1, <1>3, <1>4
<1>6. Range(a) = Range(s) \cup {r}
  BY <1>1, <1>2, <1>3
<1> QED BY <1>5, <1>6 DEF a

(* Dropping the oldest of distinct ids forgets just that one. *)
LEMMA DropOldest ==
  ASSUME NEW s \in Seq(Ids), s # << >>,
         \A i, j \in 1..Len(s) : s[i] = s[j] => i = j
  PROVE  /\ \A i, j \in 1..Len(Tail(s)) : Tail(s)[i] = Tail(s)[j] => i = j
         /\ Range(Tail(s)) = Range(s) \ {s[1]}
<1> DEFINE d == Tail(s)
<1>1. /\ d \in Seq(Ids)
      /\ Len(d) = Len(s) - 1
      /\ \A i \in 1..Len(d) : d[i] = s[i + 1]
  BY HeadTailProperties
<1> HIDE DEF d
<1>2. Range(s) = {s[i] : i \in 1..Len(s)} /\ Range(d) = {d[i] : i \in 1..Len(d)}
  BY <1>1 DEF Range
<1>3. Len(s) \in Nat \ {0}
  OBVIOUS
<1>4. \A i \in 1..Len(d) : i + 1 \in 1..Len(s) /\ i + 1 # 1
  BY <1>1, <1>3
<1>5. \A i, j \in 1..Len(d) : d[i] = d[j] => i = j
  BY <1>1, <1>3, <1>4
<1>6. Range(d) \subseteq Range(s) \ {s[1]}
  BY <1>1, <1>2, <1>3, <1>4
<1>7. ASSUME NEW x \in Range(s) \ {s[1]} PROVE x \in Range(d)
  <2>1. PICK i \in 1..Len(s) : x = s[i]
    BY <1>2
  <2>2. i # 1 /\ i - 1 \in 1..Len(d) /\ (i - 1) + 1 = i
    BY <1>1, <1>3, <2>1
  <2>3. d[i - 1] = x
    BY <1>1, <2>1, <2>2
  <2> QED BY <1>2, <2>2, <2>3
<1> QED BY <1>5, <1>6, <1>7 DEF d

(* _remember_refunded_reservation_id: a newly refunded id is remembered,   *)
(* at most the oldest id is forgotten for it, and the FIFO keeps distinct  *)
(* ids within its cap.                                                     *)
LEMMA RememberOne ==
  ASSUME TypeOK, MarkersDisjoint, NEW r \in live
  PROVE  /\ Len(Remember(r)) <= RefundedCap
         /\ \A i, j \in 1..Len(Remember(r)) :
              Remember(r)[i] = Remember(r)[j] => i = j
         /\ \E gone \in SUBSET Range(refunded) :
              Range(Remember(r)) = (Range(refunded) \cup {r}) \ gone
<1> DEFINE longer == Append(refunded, r)
<1>1. r \in Ids /\ r \notin Range(refunded) /\ refunded \in Seq(Ids)
  BY DEF TypeOK, MarkersDisjoint
<1>2. /\ \A i, j \in 1..Len(refunded) : refunded[i] = refunded[j] => i = j
      /\ Len(refunded) <= RefundedCap
      /\ RefundedCap \in Nat \ {0}
      /\ Len(refunded) \in Nat
  BY <1>1, BoundAssumption DEF MarkersDisjoint
<1>3. /\ longer \in Seq(Ids)
      /\ longer # << >>
      /\ Len(longer) = Len(refunded) + 1
      /\ \A i \in 1..Len(refunded) : longer[i] = refunded[i]
  BY <1>1, AppendProperties
<1>4. /\ \A i, j \in 1..Len(longer) : longer[i] = longer[j] => i = j
      /\ Range(longer) = Range(refunded) \cup {r}
  BY <1>1, <1>2, AppendNew
<1>5. Remember(r) = IF Len(longer) > RefundedCap THEN Tail(longer) ELSE longer
  BY <1>1 DEF Remember
<1> HIDE DEF longer
<1>6. CASE Len(longer) > RefundedCap
  <2>1. Remember(r) = Tail(longer)
    BY <1>5, <1>6
  <2>2. Len(Tail(longer)) = Len(longer) - 1
    BY <1>3, HeadTailProperties
  <2>3. /\ \A i, j \in 1..Len(Tail(longer)) : Tail(longer)[i] = Tail(longer)[j] => i = j
        /\ Range(Tail(longer)) = Range(longer) \ {longer[1]}
    BY <1>3, <1>4, DropOldest
  <2>4. Len(refunded) >= 1 /\ longer[1] = refunded[1]
    BY <1>2, <1>3, <1>6
  <2>5. Range(refunded) = {refunded[i] : i \in 1..Len(refunded)}
    BY <1>1 DEF Range
  <2>6. longer[1] \in Range(refunded)
    BY <1>2, <2>4, <2>5
  <2>7. Len(Remember(r)) <= RefundedCap
    BY <1>2, <1>3, <2>1, <2>2
  <2>8. \E gone \in SUBSET Range(refunded) :
              Range(Remember(r)) = (Range(refunded) \cup {r}) \ gone
    BY <1>4, <2>1, <2>3, <2>6
  <2> QED BY <2>1, <2>3, <2>7, <2>8
<1>7. CASE ~ (Len(longer) > RefundedCap)
  <2>1. Remember(r) = longer
    BY <1>5, <1>7
  <2>2. Len(longer) <= RefundedCap
    BY <1>2, <1>3, <1>7
  <2>3. /\ {} \in SUBSET Range(refunded)
        /\ Range(Remember(r)) = (Range(refunded) \cup {r}) \ {}
    BY <1>4, <2>1
  <2> QED BY <1>4, <2>1, <2>2, <2>3
<1> QED BY <1>6, <1>7

-----------------------------------------------------------------------------
(* The marker tables move in four ways only. *)

Charged(r) == /\ r \notin live /\ r \notin Range(refunded)
              /\ live' = live \cup {r}
              /\ refunded' = refunded
Dropped(r) == live' = live \ {r} /\ refunded' = refunded
Settled(r) == r \in live /\ live' = live \ {r} /\ refunded' = Remember(r)

(* A step charges an id that neither table knows, forgets the charge of an *)
(* interrupted acquire, settles an open charge, or leaves both tables      *)
(* alone: no other path of the backend writes them.                        *)
LEMMA TableStep ==
  ASSUME TypeOK, [Next]_vars
  PROVE  \/ UNCHANGED <<live, refunded>>
         \/ \E r \in Ids : Charged(r) \/ Dropped(r) \/ Settled(r)
<1>1. ASSUME NEW t \in Tasks, Progress(t)
      PROVE  \/ UNCHANGED <<live, refunded>>
             \/ \E r \in Ids : Charged(r) \/ Dropped(r) \/ Settled(r)
  <2>0. task[t].pc \notin {"idle", "set_max"} => task[t].id \in Ids
    BY DEF TypeOK, CallsTyped
  <2>1. CASE TryConsume(t)
    <3>1. task[t].id \in Ids
      BY <2>0, <2>1 DEF TryConsume, Tryable
    <3>2. task[t].id \notin live /\ task[t].id \notin Range(refunded)
      BY <2>1 DEF TryConsume, Tryable, IsReplay, IsDuplicate
    <3>3. Charged(task[t].id)
      BY <2>1, <3>2 DEF TryConsume, Charged
    <3> QED BY <3>1, <3>3
  <2>2. CASE Undo(t)
    BY <2>0, <2>2 DEF Undo, Dropped
  <2>3. CASE RefundCommit(t)
    BY <2>0, <2>3 DEF RefundCommit, Settled
  <2>4. CASE TryReplay(t) \/ TryReject(t) \/ TryWait(t)
    BY <2>4 DEF TryReplay, TryReject, Raise, TryWait
  <2>5. CASE WaitStartReturns(t) \/ Wake(t) \/ Unregister(t) \/ CallbacksReturn(t)
    BY <2>5 DEF WaitStartReturns, Wake, Resume, Unregister, CallbacksReturn
  <2>6. CASE RecordReturns(t) \/ RefundReject(t) \/ SetMaxCommit(t)
    BY <2>6 DEF RecordReturns, RefundReject, SetMaxCommit
  <2> QED BY <1>1, <2>1, <2>2, <2>3, <2>4, <2>5, <2>6 DEF Progress
<1>2. ASSUME NEW t \in Tasks, Cancellation(t)
      PROVE  UNCHANGED <<live, refunded>>
  BY <1>2 DEF Cancellation, Interrupt, Raise, InterruptCallbacks
<1>3. ASSUME NEW t \in Tasks, NEW r \in Ids, NEW u \in Usages, Record(t, r, u)
      PROVE  UNCHANGED <<live, refunded>> \/ Charged(r)
  <2> DEFINE v == [scope |-> active, usage |-> u, keys |-> ActiveMetrics]
  <2>1. ~ IsDuplicate(r, v) /\ refunded' = refunded
    BY <1>3 DEF Record
  <2>2. CASE IsReplay(r, v)
    BY <1>3, <2>2 DEF Record
  <2>3. CASE ~ IsReplay(r, v)
    <3>1. live' = live \cup {r}
      BY <1>3, <2>3 DEF Record
    <3> HIDE DEF v
    <3>2. r \notin live /\ r \notin Range(refunded)
      BY <2>1, <2>3 DEF IsReplay, IsDuplicate
    <3> QED BY <2>1, <3>1, <3>2 DEF Charged
  <2> QED BY <2>2, <2>3
<1>4. ASSUME NEW t \in Tasks, Call(t)
      PROVE  \/ UNCHANGED <<live, refunded>>
             \/ \E r \in Ids : Charged(r)
  <2>1. CASE \E r \in Ids, u \in Usages : Record(t, r, u)
    BY <2>1, <1>3
  <2>2. CASE \E r \in Ids, u \in Usages : AwaitCall(t, r, u)
    BY <2>2 DEF AwaitCall
  <2>3. CASE \E r \in Ids, a \in Actuals : RefundCall(t, r, a)
    BY <2>3 DEF RefundCall
  <2>4. CASE \E b \in Buckets, limit \in Limits : SetMaxCall(t, b, limit)
    BY <2>4 DEF SetMaxCall
  <2> QED BY <1>4, <2>1, <2>2, <2>3, <2>4 DEF Call
<1>5. CASE \/ \E cfg \in Configs : Reconfigure(cfg)
           \/ Tick \/ ClockSetBack \/ UNCHANGED vars
  BY <1>5 DEF Reconfigure, Tick, ClockSetBack, vars
<1> QED BY <1>1, <1>2, <1>4, <1>5 DEF Next

(* No step puts an id into both tables: what enters one leaves the other. *)
LEMMA DisjointStep ==
  ASSUME TypeOK, MarkersDisjoint, [Next]_vars
  PROVE  MarkersDisjoint'
<1>1. CASE UNCHANGED <<live, refunded>>
  BY <1>1 DEF MarkersDisjoint
<1>2. ASSUME NEW r \in Ids, Charged(r) PROVE MarkersDisjoint'
  BY <1>2 DEF MarkersDisjoint, Charged
<1>3. ASSUME NEW r \in Ids, Dropped(r) PROVE MarkersDisjoint'
  BY <1>3 DEF MarkersDisjoint, Dropped
<1>4. ASSUME NEW r \in Ids, Settled(r) PROVE MarkersDisjoint'
  <2>1. r \in live /\ live' = live \ {r} /\ refunded' = Remember(r)
    BY <1>4 DEF Settled
  <2>2. /\ Len(Remember(r)) <= RefundedCap
        /\ \A i, j \in 1..Len(Remember(r)) :
             Remember(r)[i] = Remember(r)[j] => i = j
        /\ \E gone \in SUBSET Range(refunded) :
             Range(Remember(r)) = (Range(refunded) \cup {r}) \ gone
    BY <2>1, RememberOne
  <2>3. live' \cap Range(refunded') = {}
    BY <2>1, <2>2 DEF MarkersDisjoint
  <2> QED BY <2>1, <2>2, <2>3 DEF MarkersDisjoint
<1> QED BY <1>1, <1>2, <1>3, <1>4, TableStep

(* No interleaving of acquires, replays, cancelled cleanups, refunds and   *)
(* FIFO evictions leaves an id both charged and remembered as refunded, or *)
(* twice in the FIFO, or the FIFO longer than REFUNDED_RESERVATION_IDS_CAP.*)
THEOREM MarkersStayDisjoint == Spec => []MarkersDisjoint
<1>1. Init => MarkersDisjoint
  BY BoundAssumption DEF Init, MarkersDisjoint
<1>2. TypeOK /\ MarkersDisjoint /\ [Next]_vars => MarkersDisjoint'
  BY DisjointStep
<1> QED BY <1>1, <1>2, TypeCorrect, PTL DEF Spec

-----------------------------------------------------------------------------
(* The marker tables implement the abstract ledger. *)

(* The ledger the two tables stand for *)
Book == [r \in Ids |-> LedgerStatus(r)]

(* The entry of an id in the ledger before and after a step. *)
LEMMA BookEntry ==
  ASSUME NEW r \in Ids
  PROVE  /\ Book[r] = IF r \in live THEN "live"
                     ELSE IF r \in Range(refunded) THEN "settled" ELSE "absent"
         /\ Book'[r] = IF r \in live' THEN "live"
                      ELSE IF r \in Range(refunded') THEN "settled" ELSE "absent"
BY DEF Book, LedgerStatus

(* Each way the tables move is a step of the abstract ledger or none. *)
LEMMA LedgerStep ==
  ASSUME TypeOK, MarkersDisjoint, [Next]_vars
  PROVE  Ledger!Next \/ Book' = Book
<1>1. CASE UNCHANGED <<live, refunded>>
  BY <1>1 DEF Book, LedgerStatus
<1>2. ASSUME NEW r \in Ids, Charged(r) PROVE Ledger!Next
  <2>1. Book[r] = "absent"
    BY <1>2, BookEntry DEF Charged
  <2>2. \A i \in Ids : Book'[i] = IF i = r THEN "live" ELSE Book[i]
    BY <1>2, BookEntry DEF Charged
  <2>3. Book' = [Book EXCEPT ![r] = "live"]
    BY <2>2 DEF Book
  <2>4. Ledger!Issue(r)
    BY <2>1, <2>3 DEF Ledger!Issue, Book
  <2> QED BY <2>4 DEF Ledger!Next
<1>3. ASSUME NEW r \in Ids, Dropped(r) PROVE Ledger!Next \/ Book' = Book
  <2>1. CASE r \notin live
    <3>1. live' = live /\ refunded' = refunded
      BY <1>3, <2>1 DEF Dropped
    <3> QED BY <3>1 DEF Book, LedgerStatus
  <2>2. CASE r \in live
    <3>1. Book[r] = "live"
      BY <2>2, BookEntry
    <3>2. r \notin Range(refunded)
      BY <2>2 DEF MarkersDisjoint
    <3>3. \A i \in Ids : Book'[i] = IF i = r THEN "absent" ELSE Book[i]
      BY <1>3, <3>2, BookEntry DEF Dropped
    <3>4. Book' = [Book EXCEPT ![r] = "absent"]
      BY <3>3 DEF Book
    <3>5. Ledger!Undo(r)
      BY <3>1, <3>4 DEF Ledger!Undo, Book
    <3> QED BY <3>5 DEF Ledger!Next
  <2> QED BY <2>1, <2>2
<1>4. ASSUME NEW r \in Ids, Settled(r) PROVE Ledger!Next
  <2>1. r \in live /\ live' = live \ {r} /\ refunded' = Remember(r)
    BY <1>4 DEF Settled
  <2>2. PICK gone \in SUBSET Range(refunded) :
          Range(Remember(r)) = (Range(refunded) \cup {r}) \ gone
    BY <2>1, RememberOne
  <2>3. Range(refunded) \subseteq Ids /\ live \cap Range(refunded) = {}
    BY DEF TypeOK, MarkersDisjoint, Range
  <2>4. gone \in SUBSET Ids /\ r \notin gone
    BY <2>1, <2>2, <2>3
  <2>5. Book[r] = "live" /\ \A e \in gone : Book[e] = "settled"
    BY <2>1, <2>2, <2>3, <2>4, BookEntry
  <2>6. \A i \in Ids : Book'[i] = IF i \in gone THEN "absent"
                                  ELSE IF i = r THEN "settled" ELSE Book[i]
    BY <2>1, <2>2, <2>3, <2>4, BookEntry
  <2>7. Book' = [i \in Ids |-> IF i \in gone THEN "absent"
                               ELSE IF i = r THEN "settled" ELSE Book[i]]
    BY <2>6 DEF Book
  <2>8. Ledger!Settle(r, gone)
    BY <2>5, <2>7 DEF Ledger!Settle, Book
  <2> QED BY <2>4, <2>8 DEF Ledger!Next
<1> QED BY <1>1, <1>2, <1>3, <1>4, TableStep

(* The memory backend implements the ledger of reservation ids: an id is   *)
(* charged once, settled once by a refund of a charge that is still open,  *)
(* and blocked until the FIFO forgets it.                                  *)
THEOREM MemoryImplementsLedger == Spec => ImplementsLedger
<1>1. Init => Ledger!Init
  BY DEF Init, Ledger!Init, LedgerStatus, Range
<1>2. TypeOK /\ MarkersDisjoint /\ [Next]_vars
        => [Ledger!Next]_([r \in Ids |-> LedgerStatus(r)])
  BY LedgerStep DEF Book
<1> QED BY <1>1, <1>2, TypeCorrect, MarkersStayDisjoint, PTL
        DEF Spec, ImplementsLedger, Ledger!Spec

-----------------------------------------------------------------------------
(* The inductive invariant.  An id that callers use once is followed from  *)
(* the step that takes it: only one call ever acquires or records it, the  *)
(* id is charged exactly between that call's consumption and its end, its  *)
(* caller holds nothing until then, and refunds are only asked for after.  *)

Charging == {"try", "wait_start", "waiting", "unregister", "callbacks", "undo",
             "record"}

(* Call t acquires or records id r. *)
Owns(t, r) == task[t].id = r /\ task[t].pc \in Charging

HasCharged(t) ==
  \/ task[t].pc \in {"callbacks", "undo", "record"}
  \/ task[t].pc = "unregister" /\ task[t].out = "consumed"

OutcomesInPlace ==
  \A t \in Tasks : task[t].out = "consumed" =>
                     task[t].pc \in {"unregister", "callbacks", "undo"}

UnissuedUnused ==
  \A r \in Ids : r > issued => /\ r \notin live
                               /\ held[r] = "no"
                               /\ \A t \in Tasks : task[t].id # r

OneOwner ==
  \A r \in Ids \ Replays : \A s, t \in Tasks : Owns(s, r) /\ Owns(t, r) => s = t

OwnerCharges ==
  \A r \in Ids \ Replays : \A t \in Tasks : Owns(t, r) =>
    /\ held[r] = "no"
    /\ r \in live <=> HasCharged(t)
    /\ task[t].pc = "unregister" => task[t].out \in {"consumed", "failed"}

RefundsFollowDelivery ==
  \A t \in Tasks : task[t].pc = "refund" /\ task[t].id \notin Replays
                     => held[task[t].id] # "no"

DeliveryInv == /\ OutcomesInPlace
               /\ UnissuedUnused
               /\ OneOwner
               /\ OwnerCharges
               /\ RefundsFollowDelivery
               /\ DeliveredIsLive
               /\ NoOrphanCharge

-----------------------------------------------------------------------------
(* What a step does to one call and to the marks on its id *)

OthersStay(t) == \A s \in Tasks \ {t} : task'[s] = task[s]

MarksStay == UNCHANGED <<live, held, recorded>>

(* Call t is over, or starts to change a limit. *)
Ends(t) ==
  /\ OthersStay(t)
  /\ task[t].out # "consumed"
  /\ task'[t].pc \in {"idle", "set_max"}
  /\ task'[t].id = NoId
  /\ task'[t].out = "none"
  /\ MarksStay /\ issued' = issued

(* Call t goes on, its charge as it was. *)
GoesOn(t) ==
  /\ OthersStay(t)
  /\ task[t].pc \in Charging
  /\ task'[t].pc \in Charging
  /\ task'[t].id = task[t].id
  /\ task'[t].out = "consumed" <=> task[t].out = "consumed"
  /\ task'[t].out = "consumed" => task'[t].pc \in {"unregister", "callbacks", "undo"}
  /\ HasCharged(t)' <=> HasCharged(t)
  /\ task'[t].pc = "unregister" /\ task[t].id \notin Replays
       => task'[t].out \in {"consumed", "failed"}
  /\ MarksStay /\ issued' = issued

(* Call t returns its reservation. *)
Delivers(t) ==
  /\ OthersStay(t)
  /\ task[t].pc \in Charging
  /\ task[t].id \in live \cup Replays
  /\ task'[t] = Idle
  /\ held' = [held EXCEPT ![task[t].id] = "held"]
  /\ UNCHANGED <<live, recorded, issued>>

(* Call t takes id r, without or with a charge. *)
Starts(t, r, pc) ==
  /\ OthersStay(t)
  /\ task[t].pc = "idle"
  /\ TakesId(r)
  /\ task'[t].pc = pc
  /\ task'[t].id = r
  /\ task'[t].out = "none"

Charges(r) ==
  /\ live' = live \cup {r}
  /\ held' = [held EXCEPT ![r] = "no"]

Consumes(t) ==
  /\ OthersStay(t)
  /\ task[t].pc = "try"
  /\ task'[t].pc \in {"unregister", "callbacks"}
  /\ task'[t].id = task[t].id
  /\ task'[t].out = "consumed"
  /\ Charges(task[t].id)
  /\ UNCHANGED <<recorded, issued>>

Undoes(t) ==
  /\ OthersStay(t)
  /\ task[t].pc = "undo"
  /\ task'[t] = Idle
  /\ live' = live \ {task[t].id}
  /\ UNCHANGED <<held, recorded, issued>>

AsksRefund(t, r) ==
  /\ OthersStay(t)
  /\ task[t].pc = "idle"
  /\ held[r] # "no"
  /\ task'[t].pc = "refund"
  /\ task'[t].id = r
  /\ task'[t].out = "none"
  /\ MarksStay /\ issued' = issued

Refunds(t) ==
  /\ OthersStay(t)
  /\ task[t].pc = "refund"
  /\ task'[t] = Idle
  /\ live' = live \ {task[t].id}
  /\ held' = [held EXCEPT ![task[t].id] = "closed"]
  /\ UNCHANGED <<recorded, issued>>

(* A call that is over leaves no charge behind it. *)
LEMMA EndsKeeps ==
  ASSUME TypeOK, DeliveryInv, NEW t \in Tasks, Ends(t)
  PROVE  DeliveryInv'
<1> USE DEF Ends, OthersStay, MarksStay
<1>0. /\ OutcomesInPlace /\ UnissuedUnused /\ OneOwner /\ OwnerCharges
      /\ RefundsFollowDelivery /\ DeliveredIsLive /\ NoOrphanCharge
      /\ held \in [Ids -> {"no", "held", "closed"}] /\ issued \in Nat
  BY DEF DeliveryInv, TypeOK
<1>1. OutcomesInPlace'
  BY <1>0 DEF OutcomesInPlace
<1>2. UnissuedUnused'
  BY <1>0 DEF UnissuedUnused, Ids, NoId
<1>3. OneOwner'
  BY <1>0 DEF OneOwner, Owns, Charging
<1>4. OwnerCharges'
  BY <1>0 DEF OwnerCharges, Owns, Charging, HasCharged
<1>5. RefundsFollowDelivery'
  BY <1>0 DEF RefundsFollowDelivery
<1>6. DeliveredIsLive'
  BY <1>0 DEF DeliveredIsLive
<1>7. NoOrphanCharge'
  BY <1>0 DEF NoOrphanCharge
<1> QED BY <1>1, <1>2, <1>3, <1>4, <1>5, <1>6, <1>7 DEF DeliveryInv

(* A call that goes on keeps its charge, or still has none. *)
LEMMA GoesOnKeeps ==
  ASSUME TypeOK, DeliveryInv, NEW t \in Tasks, GoesOn(t)
  PROVE  DeliveryInv'
<1> USE DEF GoesOn, OthersStay, MarksStay
<1>0. /\ OutcomesInPlace /\ UnissuedUnused /\ OneOwner /\ OwnerCharges
      /\ RefundsFollowDelivery /\ DeliveredIsLive /\ NoOrphanCharge
      /\ held \in [Ids -> {"no", "held", "closed"}] /\ issued \in Nat
  BY DEF DeliveryInv, TypeOK
<1>1. OutcomesInPlace'
  BY <1>0 DEF OutcomesInPlace
<1>2. UnissuedUnused'
  BY <1>0 DEF UnissuedUnused, Ids
<1>3. OneOwner'
  BY <1>0 DEF OneOwner, Owns, Charging
<1>4. OwnerCharges'
  BY <1>0 DEF OwnerCharges, Owns, Charging, HasCharged
<1>5. RefundsFollowDelivery'
  BY <1>0 DEF RefundsFollowDelivery, Charging
<1>6. DeliveredIsLive'
  BY <1>0 DEF DeliveredIsLive
<1>7. NoOrphanCharge'
  BY <1>0 DEF NoOrphanCharge
<1> QED BY <1>1, <1>2, <1>3, <1>4, <1>5, <1>6, <1>7 DEF DeliveryInv

(* A reservation is delivered while it is charged, and by its only call.   *)
LEMMA DeliversKeeps ==
  ASSUME TypeOK, DeliveryInv, NEW t \in Tasks, task[t].id \in Ids, Delivers(t)
  PROVE  DeliveryInv'
<1> USE DEF Delivers, OthersStay, Idle, NoId
<1>0. /\ OutcomesInPlace /\ UnissuedUnused /\ OneOwner /\ OwnerCharges
      /\ RefundsFollowDelivery /\ DeliveredIsLive /\ NoOrphanCharge
      /\ held \in [Ids -> {"no", "held", "closed"}] /\ issued \in Nat
  BY DEF DeliveryInv, TypeOK
<1>1. OutcomesInPlace'
  BY <1>0 DEF OutcomesInPlace
<1>2. UnissuedUnused'
  BY <1>0 DEF UnissuedUnused, Ids
<1>3. OneOwner'
  BY <1>0 DEF OneOwner, Owns, Charging
<1>4. OwnerCharges'
  BY <1>0 DEF OwnerCharges, Owns, Charging, HasCharged, OneOwner
<1>5. RefundsFollowDelivery'
  BY <1>0 DEF RefundsFollowDelivery
<1>6. DeliveredIsLive'
  BY <1>0 DEF DeliveredIsLive
<1>7. NoOrphanCharge'
  BY <1>0 DEF NoOrphanCharge
<1> QED BY <1>1, <1>2, <1>3, <1>4, <1>5, <1>6, <1>7 DEF DeliveryInv

(* The first charge of an id finds it in nobody's hands. *)
LEMMA ConsumesKeeps ==
  ASSUME TypeOK, DeliveryInv, NEW t \in Tasks, task[t].id \in Ids, Consumes(t)
  PROVE  DeliveryInv'
<1> USE DEF Consumes, OthersStay, Charges
<1>0. /\ OutcomesInPlace /\ UnissuedUnused /\ OneOwner /\ OwnerCharges
      /\ RefundsFollowDelivery /\ DeliveredIsLive /\ NoOrphanCharge
      /\ held \in [Ids -> {"no", "held", "closed"}] /\ issued \in Nat
  BY DEF DeliveryInv, TypeOK
<1>1. OutcomesInPlace'
  BY <1>0 DEF OutcomesInPlace
<1>2. UnissuedUnused'
  BY <1>0 DEF UnissuedUnused, Ids
<1>3. OneOwner'
  BY <1>0 DEF OneOwner, Owns, Charging
<1>4. OwnerCharges'
  BY <1>0 DEF OwnerCharges, Owns, Charging, HasCharged, OneOwner
<1>5. RefundsFollowDelivery'
  BY <1>0 DEF RefundsFollowDelivery, OwnerCharges, Owns, Charging
<1>6. DeliveredIsLive'
  BY <1>0 DEF DeliveredIsLive
<1>7. NoOrphanCharge'
  BY <1>0 DEF NoOrphanCharge
<1> QED BY <1>1, <1>2, <1>3, <1>4, <1>5, <1>6, <1>7 DEF DeliveryInv

(* The cleanup undoes a charge that was never delivered. *)
LEMMA UndoesKeeps ==
  ASSUME TypeOK, DeliveryInv, NEW t \in Tasks, task[t].id \in Ids, Undoes(t)
  PROVE  DeliveryInv'
<1> USE DEF Undoes, OthersStay, Idle, NoId
<1>0. /\ OutcomesInPlace /\ UnissuedUnused /\ OneOwner /\ OwnerCharges
      /\ RefundsFollowDelivery /\ DeliveredIsLive /\ NoOrphanCharge
      /\ held \in [Ids -> {"no", "held", "closed"}] /\ issued \in Nat
  BY DEF DeliveryInv, TypeOK
<1>1. OutcomesInPlace'
  BY <1>0 DEF OutcomesInPlace
<1>2. UnissuedUnused'
  BY <1>0 DEF UnissuedUnused, Ids
<1>3. OneOwner'
  BY <1>0 DEF OneOwner, Owns, Charging
<1>4. OwnerCharges'
  BY <1>0 DEF OwnerCharges, Owns, Charging, HasCharged, OneOwner
<1>5. RefundsFollowDelivery'
  BY <1>0 DEF RefundsFollowDelivery
<1>6. DeliveredIsLive'
  BY <1>0 DEF DeliveredIsLive, OwnerCharges, Owns, Charging
<1>7. NoOrphanCharge'
  BY <1>0 DEF NoOrphanCharge
<1> QED BY <1>1, <1>2, <1>3, <1>4, <1>5, <1>6, <1>7 DEF DeliveryInv

(* Refunds are asked for what was delivered. *)
LEMMA AsksRefundKeeps ==
  ASSUME TypeOK, DeliveryInv, NEW t \in Tasks, NEW r \in Ids, AsksRefund(t, r)
  PROVE  DeliveryInv'
<1> USE DEF AsksRefund, OthersStay, MarksStay
<1>0. /\ OutcomesInPlace /\ UnissuedUnused /\ OneOwner /\ OwnerCharges
      /\ RefundsFollowDelivery /\ DeliveredIsLive /\ NoOrphanCharge
      /\ held \in [Ids -> {"no", "held", "closed"}] /\ issued \in Nat
  BY DEF DeliveryInv, TypeOK
<1>1. OutcomesInPlace'
  BY <1>0 DEF OutcomesInPlace
<1>2. UnissuedUnused'
  BY <1>0 DEF UnissuedUnused, Ids
<1>3. OneOwner'
  BY <1>0 DEF OneOwner, Owns, Charging
<1>4. OwnerCharges'
  BY <1>0 DEF OwnerCharges, Owns, Charging, HasCharged
<1>5. RefundsFollowDelivery'
  BY <1>0 DEF RefundsFollowDelivery
<1>6. DeliveredIsLive'
  BY <1>0 DEF DeliveredIsLive
<1>7. NoOrphanCharge'
  BY <1>0 DEF NoOrphanCharge, OutcomesInPlace
<1> QED BY <1>1, <1>2, <1>3, <1>4, <1>5, <1>6, <1>7 DEF DeliveryInv

(* A refund closes what its caller holds. *)
LEMMA RefundsKeeps ==
  ASSUME TypeOK, DeliveryInv, NEW t \in Tasks, task[t].id \in Ids, Refunds(t)
  PROVE  DeliveryInv'
<1> USE DEF Refunds, OthersStay, Idle, NoId
<1>0. /\ OutcomesInPlace /\ UnissuedUnused /\ OneOwner /\ OwnerCharges
      /\ RefundsFollowDelivery /\ DeliveredIsLive /\ NoOrphanCharge
      /\ held \in [Ids -> {"no", "held", "closed"}] /\ issued \in Nat
  BY DEF DeliveryInv, TypeOK
<1>1. OutcomesInPlace'
  BY <1>0 DEF OutcomesInPlace
<1>2. UnissuedUnused'
  BY <1>0 DEF UnissuedUnused, Ids
<1>3. OneOwner'
  BY <1>0 DEF OneOwner, Owns, Charging
<1>4. OwnerCharges'
  BY <1>0 DEF OwnerCharges, Owns, Charging, HasCharged, RefundsFollowDelivery
<1>5. RefundsFollowDelivery'
  BY <1>0 DEF RefundsFollowDelivery
<1>6. DeliveredIsLive'
  BY <1>0 DEF DeliveredIsLive
<1>7. NoOrphanCharge'
  BY <1>0 DEF NoOrphanCharge, OutcomesInPlace
<1> QED BY <1>1, <1>2, <1>3, <1>4, <1>5, <1>6, <1>7 DEF DeliveryInv

(* A new call finds an id taken for the first time unused by all others.   *)
LEMMA StartsKeeps ==
  ASSUME TypeOK, DeliveryInv, NEW t \in Tasks, NEW r \in Ids,
         Starts(t, r, "try"), MarksStay
  PROVE  DeliveryInv'
<1> USE DEF Starts, OthersStay, MarksStay, TakesId, Greater
<1>0. /\ OutcomesInPlace /\ UnissuedUnused /\ OneOwner /\ OwnerCharges
      /\ RefundsFollowDelivery /\ DeliveredIsLive /\ NoOrphanCharge
      /\ held \in [Ids -> {"no", "held", "closed"}] /\ issued \in Nat
  BY DEF DeliveryInv, TypeOK
<1>1. OutcomesInPlace'
  BY <1>0 DEF OutcomesInPlace
<1>2. UnissuedUnused'
  BY <1>0 DEF UnissuedUnused, Ids
<1>3. OneOwner'
  BY <1>0 DEF OneOwner, Owns, Charging, UnissuedUnused, Ids
<1>4. OwnerCharges'
  BY <1>0 DEF OwnerCharges, Owns, Charging, HasCharged, UnissuedUnused, Ids
<1>5. RefundsFollowDelivery'
  BY <1>0 DEF RefundsFollowDelivery
<1>6. DeliveredIsLive'
  BY <1>0 DEF DeliveredIsLive
<1>7. NoOrphanCharge'
  BY <1>0 DEF NoOrphanCharge, OutcomesInPlace
<1> QED BY <1>1, <1>2, <1>3, <1>4, <1>5, <1>6, <1>7 DEF DeliveryInv

(* A recording charges its id at once and answers for the charge.          *)
LEMMA RecordsKeeps ==
  ASSUME TypeOK, DeliveryInv, NEW t \in Tasks, NEW r \in Ids,
         Starts(t, r, "record"), Charges(r), recorded' = recorded \cup {r}
  PROVE  DeliveryInv'
<1> USE DEF Starts, OthersStay, Charges, TakesId, Greater
<1>0. /\ OutcomesInPlace /\ UnissuedUnused /\ OneOwner /\ OwnerCharges
      /\ RefundsFollowDelivery /\ DeliveredIsLive /\ NoOrphanCharge
      /\ held \in [Ids -> {"no", "held", "closed"}] /\ issued \in Nat
  BY DEF DeliveryInv, TypeOK
<1>1. OutcomesInPlace'
  BY <1>0 DEF OutcomesInPlace
<1>2. UnissuedUnused'
  BY <1>0 DEF UnissuedUnused, Ids
<1>3. OneOwner'
  BY <1>0 DEF OneOwner, Owns, Charging, UnissuedUnused, Ids
<1>4. OwnerCharges'
  BY <1>0 DEF OwnerCharges, Owns, Charging, HasCharged, UnissuedUnused, Ids
<1>5. RefundsFollowDelivery'
  BY <1>0 DEF RefundsFollowDelivery, UnissuedUnused, Ids
<1>6. DeliveredIsLive'
  BY <1>0 DEF DeliveredIsLive
<1>7. NoOrphanCharge'
  BY <1>0 DEF NoOrphanCharge, OutcomesInPlace
<1> QED BY <1>1, <1>2, <1>3, <1>4, <1>5, <1>6, <1>7 DEF DeliveryInv

(* A recording that repeats a live one concerns an id that callers reuse.  *)
LEMMA RecordsAgainKeeps ==
  ASSUME TypeOK, DeliveryInv, NEW t \in Tasks, NEW r \in Ids,
         Starts(t, r, "record"), r \in live, MarksStay
  PROVE  DeliveryInv'
<1> USE DEF Starts, OthersStay, MarksStay, TakesId, Greater
<1>0. /\ OutcomesInPlace /\ UnissuedUnused /\ OneOwner /\ OwnerCharges
      /\ RefundsFollowDelivery /\ DeliveredIsLive /\ NoOrphanCharge
      /\ held \in [Ids -> {"no", "held", "closed"}] /\ issued \in Nat
  BY DEF DeliveryInv, TypeOK
<1>1. OutcomesInPlace'
  BY <1>0 DEF OutcomesInPlace
<1>2. UnissuedUnused'
  BY <1>0 DEF UnissuedUnused, Ids
<1>3. OneOwner'
  BY <1>0 DEF OneOwner, Owns, Charging, UnissuedUnused, Ids
<1>4. OwnerCharges'
  BY <1>0 DEF OwnerCharges, Owns, Charging, HasCharged, UnissuedUnused, Ids
<1>5. RefundsFollowDelivery'
  BY <1>0 DEF RefundsFollowDelivery
<1>6. DeliveredIsLive'
  BY <1>0 DEF DeliveredIsLive
<1>7. NoOrphanCharge'
  BY <1>0 DEF NoOrphanCharge, OutcomesInPlace
<1> QED BY <1>1, <1>2, <1>3, <1>4, <1>5, <1>6, <1>7 DEF DeliveryInv

-----------------------------------------------------------------------------
(* Every step of the backend is one of these. *)

(* A step that writes the record of one call. *)
LEMMA CallWritten ==
  ASSUME TypeOK, NEW t \in Tasks, NEW rec, task' = [task EXCEPT ![t] = rec]
  PROVE  OthersStay(t) /\ task'[t] = rec
BY DEF TypeOK, CallsTyped, OthersStay

(* A call that raises had consumed nothing. *)
LEMMA RaiseKeeps ==
  ASSUME TypeOK, DeliveryInv, NEW t \in Tasks, Raise(t),
         task[t].pc \in {"try", "wait_start", "waiting"}
  PROVE  DeliveryInv'
<1>1. task[t] \in Task /\ task[t].out # "consumed"
  BY DEF TypeOK, CallsTyped, DeliveryInv, OutcomesInPlace
<1>2. OthersStay(t) /\ task'[t] = Leaving(t, "failed")
  BY CallWritten DEF Raise
<1>3. MarksStay /\ issued' = issued
  BY DEF Raise, MarksStay
<1>4. CASE task[t].reg
  <2>1. /\ task'[t].pc = "unregister" /\ task'[t].out = "failed"
        /\ task'[t].id = task[t].id
    BY <1>1, <1>2, <1>4 DEF Leaving, Task
  <2>2. GoesOn(t)
    BY <1>1, <1>2, <1>3, <2>1 DEF GoesOn, Charging, HasCharged
  <2> QED BY <2>2, GoesOnKeeps
<1>5. CASE ~ task[t].reg
  <2>1. task'[t] = Idle
    BY <1>2, <1>5 DEF Leaving
  <2>2. Ends(t)
    BY <1>1, <1>2, <1>3, <2>1 DEF Ends, Idle
  <2> QED BY <2>2, EndsKeeps
<1> QED BY <1>4, <1>5

(* Delivery invariants under the steps of a running call *)
LEMMA ProgressDelivers ==
  ASSUME TypeOK, DeliveryInv, NEW t \in Tasks, Progress(t)
  PROVE  DeliveryInv'
<1>0. /\ task[t] \in Task
      /\ task[t].pc \notin {"idle", "set_max"} => task[t].id \in Ids
      /\ OutcomesInPlace /\ OwnerCharges
      /\ task[t].out = "consumed" => task[t].pc \in {"unregister", "callbacks", "undo"}
  BY DEF TypeOK, CallsTyped, DeliveryInv, OutcomesInPlace
<1>1. CASE TryReplay(t)
  <2>1. /\ task[t].pc = "try" /\ task[t].id \in live
        /\ task' = [task EXCEPT ![t] = Leaving(t, "replayed")]
        /\ UNCHANGED <<live, recorded, issued>>
        /\ held' = IF task[t].reg THEN held ELSE [held EXCEPT ![task[t].id] = "held"]
    BY <1>1 DEF TryReplay, IsReplay
  <2>2. OthersStay(t) /\ task'[t] = Leaving(t, "replayed")
    BY <2>1, CallWritten
  <2>3. task[t].id \in Ids /\ task[t].out # "consumed"
    BY <1>0, <2>1
  <2>4. task[t].id \in Replays
    BY <1>0, <2>1, <2>3 DEF OwnerCharges, Owns, Charging, HasCharged
  <2>5. CASE task[t].reg
    <3>1. /\ task'[t].pc = "unregister" /\ task'[t].out = "replayed"
          /\ task'[t].id = task[t].id
      BY <1>0, <2>2, <2>5 DEF Leaving, Task
    <3>2. GoesOn(t)
      BY <2>1, <2>2, <2>3, <2>4, <2>5, <3>1 DEF GoesOn, Charging, HasCharged,
         MarksStay
    <3> QED BY <3>2, GoesOnKeeps
  <2>6. CASE ~ task[t].reg
    <3>1. Delivers(t)
      BY <2>1, <2>2, <2>6 DEF Delivers, Charging, Leaving
    <3> QED BY <2>3, <3>1, DeliversKeeps
  <2> QED BY <2>5, <2>6
<1>2. CASE TryReject(t)
  BY <1>2, RaiseKeeps DEF TryReject
<1>3. CASE TryConsume(t)
  <2> DEFINE objs == {<<b, gen[b]>> : b \in active}
             pc == IF task[t].reg THEN "unregister" ELSE "callbacks"
             rec == [task[t] EXCEPT !.pc = pc, !.out = "consumed", !.objs = objs]
  <2>1. /\ task[t].pc = "try"
        /\ task' = [task EXCEPT ![t] = rec]
        /\ Charges(task[t].id)
        /\ UNCHANGED <<recorded, issued>>
    BY <1>3 DEF TryConsume, Tryable, Charges
  <2>2. pc \in {"unregister", "callbacks"}
    OBVIOUS
  <2> HIDE DEF pc, objs
  <2>3. rec.pc = pc /\ rec.id = task[t].id /\ rec.out = "consumed"
    BY <1>0 DEF Task
  <2> HIDE DEF rec
  <2>4. Consumes(t)
    BY <2>1, <2>2, <2>3, CallWritten DEF Consumes
  <2> QED BY <1>0, <2>1, <2>4, ConsumesKeeps
<1>4. CASE TryWait(t)
  <2>1. /\ task[t].pc = "try" /\ task[t].out # "consumed"
        /\ MarksStay /\ issued' = issued
    BY <1>0, <1>4 DEF TryWait, Tryable, MarksStay
  <2>2. ASSUME NEW p \in {"waiting", "wait_start"},
               task' = [task EXCEPT ![t] = [task[t] EXCEPT !.reg = TRUE, !.pc = p]]
        PROVE  GoesOn(t)
    <3> DEFINE rec == [task[t] EXCEPT !.reg = TRUE, !.pc = p]
    <3>1. rec.pc = p /\ rec.id = task[t].id /\ rec.out = task[t].out
      BY <1>0 DEF Task
    <3>2. task' = [task EXCEPT ![t] = rec]
      BY <2>2
    <3> HIDE DEF rec
    <3>3. OthersStay(t) /\ task'[t] = rec
      BY <3>2, CallWritten
    <3> QED BY <2>1, <3>1, <3>3 DEF GoesOn, Charging, HasCharged
  <2>3. ASSUME task' = [task EXCEPT ![t] = [task[t] EXCEPT
                          !.reg = TRUE, !.pc = "unregister", !.out = "failed"]]
        PROVE  GoesOn(t)
    <3> DEFINE rec == [task[t] EXCEPT !.reg = TRUE, !.pc = "unregister",
                                      !.out = "failed"]
    <3>1. rec.pc = "unregister" /\ rec.id = task[t].id /\ rec.out = "failed"
      BY <1>0 DEF Task
    <3>2. task' = [task EXCEPT ![t] = rec]
      BY <2>3
    <3> HIDE DEF rec
    <3>3. OthersStay(t) /\ task'[t] = rec
      BY <3>2, CallWritten
    <3> QED BY <2>1, <3>1, <3>3 DEF GoesOn, Charging, HasCharged
  <2>4. GoesOn(t)
    BY <1>4, <2>2, <2>3 DEF TryWait
  <2> QED BY <2>4, GoesOnKeeps
<1>5. CASE WaitStartReturns(t) \/ Wake(t)
  <2> DEFINE rec == [task[t] EXCEPT !.pc = "try"]
  <2>1. /\ task[t].pc \in {"wait_start", "waiting"} /\ task[t].out # "consumed"
        /\ task' = [task EXCEPT ![t] = rec]
        /\ MarksStay /\ issued' = issued
    BY <1>0, <1>5 DEF WaitStartReturns, Wake, Resume, MarksStay
  <2>2. rec.pc = "try" /\ rec.id = task[t].id /\ rec.out = task[t].out
    BY <1>0 DEF Task
  <2> HIDE DEF rec
  <2>3. OthersStay(t) /\ task'[t] = rec
    BY <2>1, CallWritten
  <2>4. GoesOn(t)
    BY <2>1, <2>2, <2>3 DEF GoesOn, Charging, HasCharged
  <2> QED BY <2>4, GoesOnKeeps
<1>6. CASE Unregister(t)
  <2> DEFINE rec == [task[t] EXCEPT !.pc = "callbacks", !.reg = FALSE]
  <2>1. /\ task[t].pc = "unregister" /\ task[t].id \in Ids
        /\ UNCHANGED <<live, recorded, issued>>
        /\ held' = IF task[t].out = "replayed" THEN [held EXCEPT ![task[t].id] = "held"]
                                               ELSE held
    BY <1>0, <1>6 DEF Unregister
  <2>2. rec.pc = "callbacks" /\ rec.id = task[t].id /\ rec.out = task[t].out
    BY <1>0 DEF Task
  <2>3. task' = [task EXCEPT ![t] = IF task[t].out = "consumed" THEN rec ELSE Idle]
    BY <1>6 DEF Unregister
  <2> HIDE DEF rec
  <2>4. /\ OthersStay(t)
        /\ task'[t] = IF task[t].out = "consumed" THEN rec ELSE Idle
    BY <2>3, CallWritten
  <2>5. CASE task[t].out = "consumed"
    <3>1. GoesOn(t)
      BY <2>1, <2>2, <2>4, <2>5 DEF GoesOn, Charging, HasCharged, MarksStay
    <3> QED BY <3>1, GoesOnKeeps
  <2>6. CASE task[t].out = "replayed"
    <3>1. task[t].id \in Replays
      BY <1>0, <2>1, <2>6 DEF OwnerCharges, Owns, Charging
    <3>2. Delivers(t)
      BY <2>1, <2>4, <2>6, <3>1 DEF Delivers, Charging
    <3> QED BY <2>1, <3>2, DeliversKeeps
  <2>7. CASE task[t].out \notin {"consumed", "replayed"}
    <3>1. Ends(t)
      BY <2>1, <2>4, <2>7 DEF Ends, Idle, MarksStay
    <3> QED BY <3>1, EndsKeeps
  <2> QED BY <2>5, <2>6, <2>7
<1>7. CASE CallbacksReturn(t)
  <2>1. /\ task[t].pc = "callbacks" /\ task[t].id \in Ids
        /\ OthersStay(t) /\ task'[t] = Idle
        /\ held' = [held EXCEPT ![task[t].id] = "held"]
        /\ UNCHANGED <<live, recorded, issued>>
    BY <1>0, <1>7, CallWritten DEF CallbacksReturn
  <2>2. task[t].id \in live \cup Replays
    BY <1>0, <2>1 DEF OwnerCharges, Owns, Charging, HasCharged
  <2>3. Delivers(t)
    BY <2>1, <2>2 DEF Delivers, Charging
  <2> QED BY <2>1, <2>3, DeliversKeeps
<1>8. CASE Undo(t)
  <2>1. Undoes(t)
    BY <1>8, CallWritten DEF Undo, Undoes
  <2>2. task[t].id \in Ids
    BY <1>0, <1>8 DEF Undo
  <2> QED BY <2>1, <2>2, UndoesKeeps
<1>9. CASE RecordReturns(t)
  <2>1. /\ task[t].pc = "record" /\ task[t].id \in Ids /\ task[t].out # "consumed"
        /\ OthersStay(t) /\ task'[t] = Idle
        /\ held' \in {held, [held EXCEPT ![task[t].id] = "held"]}
        /\ UNCHANGED <<live, recorded, issued>>
    BY <1>0, <1>9, CallWritten DEF RecordReturns
  <2>2. task[t].id \in live \cup Replays
    BY <1>0, <2>1 DEF OwnerCharges, Owns, Charging, HasCharged
  <2>3. CASE held' = held
    <3>1. Ends(t)
      BY <2>1, <2>3 DEF Ends, Idle, MarksStay
    <3> QED BY <3>1, EndsKeeps
  <2>4. CASE held' = [held EXCEPT ![task[t].id] = "held"]
    <3>1. Delivers(t)
      BY <2>1, <2>2, <2>4 DEF Delivers, Charging
    <3> QED BY <2>1, <3>1, DeliversKeeps
  <2> QED BY <2>1, <2>3, <2>4
<1>10. CASE RefundCommit(t)
  <2>1. Refunds(t)
    BY <1>10, CallWritten DEF RefundCommit, Refunds
  <2>2. task[t].id \in Ids
    BY <1>0, <1>10 DEF RefundCommit
  <2> QED BY <2>1, <2>2, RefundsKeeps
<1>11. CASE RefundReject(t)
  <2>1. task[t].out # "consumed" /\ MarksStay /\ issued' = issued
    BY <1>0, <1>11 DEF RefundReject, MarksStay
  <2>2. OthersStay(t) /\ task'[t] = Idle
    BY <1>11, CallWritten DEF RefundReject
  <2>3. Ends(t)
    BY <2>1, <2>2 DEF Ends, Idle
  <2> QED BY <2>3, EndsKeeps
<1>12. CASE SetMaxCommit(t)
  <2>1. task[t].out # "consumed" /\ MarksStay /\ issued' = issued
    BY <1>0, <1>12 DEF SetMaxCommit, MarksStay
  <2>2. OthersStay(t) /\ task'[t] = Idle
    BY <1>12, CallWritten DEF SetMaxCommit
  <2>3. Ends(t)
    BY <2>1, <2>2 DEF Ends, Idle
  <2> QED BY <2>3, EndsKeeps
<1> QED BY <1>1, <1>2, <1>3, <1>4, <1>5, <1>6, <1>7, <1>8, <1>9, <1>10, <1>11,
           <1>12 DEF Progress

(* Delivery invariants when a call is cancelled *)
LEMMA CancellationDelivers ==
  ASSUME TypeOK, DeliveryInv, NEW t \in Tasks, Cancellation(t)
  PROVE  DeliveryInv'
<1>0. task[t] \in Task
  BY DEF TypeOK, CallsTyped
<1>1. CASE Interrupt(t)
  BY <1>1, RaiseKeeps DEF Interrupt
<1>2. CASE InterruptCallbacks(t)
  <2> DEFINE rec == [task[t] EXCEPT !.pc = "undo"]
  <2>1. /\ task[t].pc = "callbacks"
        /\ task' = [task EXCEPT ![t] = rec]
        /\ MarksStay /\ issued' = issued
    BY <1>2 DEF InterruptCallbacks, MarksStay
  <2>2. rec.pc = "undo" /\ rec.id = task[t].id /\ rec.out = task[t].out
    BY <1>0 DEF Task
  <2> HIDE DEF rec
  <2>3. OthersStay(t) /\ task'[t] = rec
    BY <2>1, CallWritten
  <2>4. GoesOn(t)
    BY <2>1, <2>2, <2>3 DEF GoesOn, Charging, HasCharged
  <2> QED BY <2>4, GoesOnKeeps
<1> QED BY <1>1, <1>2 DEF Cancellation

(* Delivery invariants when a call begins *)
LEMMA CallDelivers ==
  ASSUME TypeOK, DeliveryInv, NEW t \in Tasks, Call(t)
  PROVE  DeliveryInv'
<1>0. OutcomesInPlace
  BY DEF DeliveryInv
<1>1. ASSUME NEW r \in Ids, NEW u \in Usages, AwaitCall(t, r, u)
      PROVE  DeliveryInv'
  <2> DEFINE rec == [Idle EXCEPT !.pc = "try", !.id = r, !.usage = u,
                                 !.keys = ActiveMetrics]
  <2>1. rec.pc = "try" /\ rec.id = r /\ rec.out = "none"
    BY DEF Idle
  <2>2. /\ task[t].pc = "idle" /\ TakesId(r) /\ MarksStay
        /\ task' = [task EXCEPT ![t] = rec]
    BY <1>1 DEF AwaitCall, MarksStay
  <2> HIDE DEF rec
  <2>3. OthersStay(t) /\ task'[t] = rec
    BY <2>2, CallWritten
  <2>4. Starts(t, r, "try")
    BY <2>1, <2>2, <2>3 DEF Starts
  <2> QED BY <2>2, <2>4, StartsKeeps
<1>2. ASSUME NEW r \in Ids, NEW u \in Usages, Record(t, r, u)
      PROVE  DeliveryInv'
  <2> DEFINE rec == [Idle EXCEPT !.pc = "record", !.id = r]
             v == [scope |-> active, usage |-> u, keys |-> ActiveMetrics]
  <2>1. rec.pc = "record" /\ rec.id = r /\ rec.out = "none"
    BY DEF Idle
  <2>2. /\ task[t].pc = "idle" /\ TakesId(r)
        /\ task' = [task EXCEPT ![t] = rec]
    BY <1>2 DEF Record
  <2> HIDE DEF rec
  <2>3. OthersStay(t) /\ task'[t] = rec
    BY <2>2, CallWritten
  <2>4. Starts(t, r, "record")
    BY <2>1, <2>2, <2>3 DEF Starts
  <2>5. CASE IsReplay(r, v)
    <3>1. MarksStay
      BY <1>2, <2>5 DEF Record, MarksStay
    <3>2. r \in live
      BY <2>5 DEF IsReplay
    <3> QED BY <2>4, <3>1, <3>2, RecordsAgainKeeps
  <2>6. CASE ~ IsReplay(r, v)
    <3>1. Charges(r) /\ recorded' = recorded \cup {r}
      BY <1>2, <2>6 DEF Record, Charges
    <3> QED BY <2>4, <3>1, RecordsKeeps
  <2> QED BY <2>5, <2>6
<1>3. ASSUME NEW r \in Ids, NEW a \in Actuals, RefundCall(t, r, a)
      PROVE  DeliveryInv'
  <2> DEFINE rec == [Idle EXCEPT !.pc = "refund", !.id = r, !.usage = a,
                                 !.keys = value[r].keys,
                                 !.scope = value[r].scope \cap active]
  <2>1. rec.pc = "refund" /\ rec.id = r /\ rec.out = "none"
    BY DEF Idle
  <2>2. /\ task[t].pc = "idle" /\ held[r] # "no"
        /\ task' = [task EXCEPT ![t] = rec]
        /\ MarksStay /\ issued' = issued
    BY <1>3 DEF RefundCall, MarksStay
  <2> HIDE DEF rec
  <2>3. AsksRefund(t, r)
    BY <2>1, <2>2, CallWritten DEF AsksRefund
  <2> QED BY <2>3, AsksRefundKeeps
<1>4. ASSUME NEW b \in Buckets, NEW limit \in Limits, SetMaxCall(t, b, limit)
      PROVE  DeliveryInv'
  <2> DEFINE rec == [Idle EXCEPT !.pc = "set_max", !.objs = {<<b, gen[b]>>},
                                 !.limit = limit]
  <2>1. rec.pc = "set_max" /\ rec.id = NoId /\ rec.out = "none"
    BY DEF Idle
  <2>2. /\ task[t].pc = "idle"
        /\ task' = [task EXCEPT ![t] = rec]
        /\ MarksStay /\ issued' = issued
    BY <1>4 DEF SetMaxCall, MarksStay
  <2> HIDE DEF rec
  <2>3. Ends(t)
    BY <1>0, <2>1, <2>2, CallWritten DEF Ends, OutcomesInPlace
  <2> QED BY <2>3, EndsKeeps
<1> QED BY <1>1, <1>2, <1>3, <1>4 DEF Call

(* Every step keeps the delivery invariant. *)
LEMMA DeliveryStep == TypeOK /\ DeliveryInv /\ [Next]_vars => DeliveryInv'
<1> SUFFICES ASSUME TypeOK, DeliveryInv, [Next]_vars PROVE DeliveryInv'
  OBVIOUS
<1>1. CASE \E t \in Tasks : Progress(t) \/ Cancellation(t) \/ Call(t)
  BY <1>1, ProgressDelivers, CancellationDelivers, CallDelivers
<1>2. CASE \/ \E cfg \in Configs : Reconfigure(cfg)
           \/ Tick \/ ClockSetBack \/ UNCHANGED vars
  <2>1. UNCHANGED <<task, live, held, recorded, issued>>
    BY <1>2 DEF Reconfigure, Tick, ClockSetBack, vars
  <2> QED BY <2>1 DEF DeliveryInv, OutcomesInPlace, UnissuedUnused, OneOwner,
                      OwnerCharges, RefundsFollowDelivery, DeliveredIsLive,
                      NoOrphanCharge, Owns, HasCharged
<1> QED BY <1>1, <1>2 DEF Next

(* It holds before the first call. *)
LEMMA DeliveryInit == Init => DeliveryInv
<1> SUFFICES ASSUME Init PROVE DeliveryInv
  OBVIOUS
<1>1. /\ \A t \in Tasks : task[t] = Idle
      /\ live = {} /\ \A r \in Ids : held[r] = "no"
  BY DEF Init
<1> QED BY <1>1 DEF DeliveryInv, OutcomesInPlace, UnissuedUnused, OneOwner,
                    OwnerCharges, RefundsFollowDelivery, DeliveredIsLive,
                    NoOrphanCharge, Owns, Charging, Idle, NoId, Ids

(* It holds of every behaviour. *)
LEMMA DeliveryInvariant == Spec => []DeliveryInv
<1>1. TypeOK /\ DeliveryInv /\ [Next]_vars => DeliveryInv'
  BY DeliveryStep
<1> QED BY <1>1, DeliveryInit, TypeCorrect, PTL DEF Spec

(* A reservation that a caller was given, under an id used once, is one    *)
(* the backend accepts a refund for, whatever cancelled cleanups, replays, *)
(* reconfigurations and refunds of other calls happened in between.        *)
THEOREM DeliveredStaysLive == Spec => []DeliveredIsLive
<1>1. DeliveryInv => DeliveredIsLive
  BY DEF DeliveryInv
<1> QED BY <1>1, DeliveryInvariant, PTL

(* A charge is in its caller's hands, or belongs to a running call that    *)
(* will deliver or undo it, or was recorded by consume_capacity: no        *)
(* cancellation at any await loses track of capacity that was taken.       *)
THEOREM NoChargeOrphaned == Spec => []NoOrphanCharge
<1>1. DeliveryInv => NoOrphanCharge
  BY DEF DeliveryInv
<1> QED BY <1>1, DeliveryInvariant, PTL

=============================================================================
