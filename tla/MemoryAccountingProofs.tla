----------------------- MODULE MemoryAccountingProofs -----------------------
(***************************************************************************)
(* The memory backend creates no capacity, for every set of buckets,       *)
(* windows, limits, callers and clocks.                                    *)
(***************************************************************************)
EXTENDS MemoryAccounting, MemoryBackendProofs, FiniteSetTheorems

(* Every accounted step is a step of the backend. *)
LEMMA AccountedStep == [AccountingNext]_allvars => [Next]_vars
<1> SUFFICES ASSUME [AccountingNext]_allvars PROVE [Next]_vars
  OBVIOUS
<1>1. ASSUME NEW t \in Tasks,
             QuietProgress(t) \/ Cancellation(t) \/ QuietCall(t)
      PROVE  Next
  BY <1>1 DEF QuietProgress, QuietCall, Next, Progress, Call
<1>2. ASSUME NEW t \in Tasks,
             AccountConsume(t) \/ AccountUndo(t) \/ AccountRefund(t)
               \/ AccountSetMax(t)
      PROVE  Next
  BY <1>2 DEF AccountConsume, AccountUndo, AccountRefund, AccountSetMax, Next,
              Progress
<1>3. ASSUME NEW t \in Tasks, NEW r \in Ids, NEW u \in Usages, AccountRecord(t, r, u)
      PROVE  Next
  BY <1>3 DEF AccountRecord, Next, Call
<1>4. ASSUME NEW cfg \in Configs, AccountReconfigure(cfg)
      PROVE  Next
  BY <1>4 DEF AccountReconfigure, Next
<1>5. AccountTick \/ ClockSetBack => Next
  BY DEF AccountTick, Next
<1>6. UNCHANGED allvars => UNCHANGED vars
  BY DEF allvars
<1> QED BY <1>1, <1>2, <1>3, <1>4, <1>5, <1>6 DEF AccountingNext

-----------------------------------------------------------------------------
(* One bucket *)

(* A write leaves exactly the written amount. *)
LEMMA WrittenAmount ==
  ASSUME NEW bk \in BucketState, NEW v \in Int
  PROVE  /\ Uncapped(set_capacity(bk, v, TRUE)) = v
         /\ Uncapped(set_capacity(bk, v, FALSE)) = Greater(0, v)
<1>1. bk.max \in Nat
  BY DEF BucketState
<1>2. 0 * bk.max = 0
  BY <1>1
<1>3. Greater(0, 0) = 0 /\ Greater(0, v) \in Int
  BY DEF Greater
<1>4. ASSUME NEW a \in BOOLEAN
      PROVE  /\ TimePassed(set_capacity(bk, v, a)) = 0
             /\ set_capacity(bk, v, a).max = bk.max
             /\ set_capacity(bk, v, a).cap = IF a THEN v ELSE Greater(0, v)
  BY <1>3 DEF set_capacity, TimePassed
<1>5. ASSUME NEW a \in BOOLEAN
      PROVE  Uncapped(set_capacity(bk, v, a)) = IF a THEN v ELSE Greater(0, v)
  <2>1. TimePassed(set_capacity(bk, v, a)) * set_capacity(bk, v, a).max = 0
    BY <1>2, <1>4
  <2> QED BY <1>3, <1>4, <2>1 DEF Uncapped
<1>6. Uncapped(set_capacity(bk, v, TRUE)) = v
  BY <1>5
<1>7. Uncapped(set_capacity(bk, v, FALSE)) = Greater(0, v)
  BY <1>5
<1> QED BY <1>6, <1>7

(* A bucket that was written to is no longer fresh. *)
LEMMA WrittenUsed ==
  ASSUME NEW bk, NEW v, NEW a
  PROVE  ~ set_capacity(bk, v, a).fresh
BY DEF set_capacity

(* A new limit neither adds to nor takes from what a bucket has. *)
LEMMA AnchoredAmount ==
  ASSUME NEW bk \in BucketState, NEW v \in Nat \ {0}
  PROVE  /\ set_max_capacity(bk, v).fresh = bk.fresh
         /\ ~ bk.fresh => Uncapped(set_max_capacity(bk, v)) = Uncapped(bk)
<1>1. bk.fresh \in BOOLEAN /\ Uncapped(bk) \in Int
  BY ReadType DEF BucketState
<1>2. CASE bk.fresh
  BY <1>2 DEF set_max_capacity, NewBucket
<1>3. CASE ~ bk.fresh
  <2> DEFINE new == [fresh |-> FALSE, cap |-> Uncapped(bk), elapsed |-> 0, max |-> v]
  <2>1. set_max_capacity(bk, v) = new
    BY <1>3 DEF set_max_capacity
  <2>2. TimePassed(new) = 0 /\ new.max = v /\ new.cap = Uncapped(bk)
    BY DEF TimePassed, Greater
  <2>3. 0 * v = 0
    OBVIOUS
  <2> HIDE DEF new
  <2>4. Uncapped(new) = Uncapped(bk)
    <3>1. Uncapped(new) = new.cap + TimePassed(new) * new.max
      BY DEF Uncapped
    <3>2. TimePassed(new) * new.max = 0
      BY <2>2, <2>3
    <3> QED BY <1>1, <2>2, <3>1, <3>2
  <2>5. new.fresh = FALSE
    BY DEF new
  <2>6. bk.fresh = FALSE
    BY <1>1, <1>3
  <2>7. set_max_capacity(bk, v).fresh = bk.fresh
    BY <2>1, <2>5, <2>6
  <2> QED BY <2>1, <2>4, <2>7
<1> QED BY <1>1, <1>2, <1>3

(* More time refills more. *)
LEMMA MoreRefill ==
  ASSUME NEW x \in Nat, NEW y \in Nat, NEW m \in Nat, x <= y
  PROVE  x * m <= y * m
<1>1. y - x \in Nat
  OBVIOUS
<1>2. (y - x) * m \in Nat
  BY <1>1
<1>3. y * m = x * m + (y - x) * m
  OBVIOUS
<1>4. x * m \in Nat /\ y * m \in Nat
  OBVIOUS
<1> QED BY <1>2, <1>3, <1>4

(* One second more of refill. *)
LEMMA OneMoreSecond ==
  ASSUME NEW x \in Nat, NEW m \in Nat
  PROVE  (x + 1) * m = x * m + m
OBVIOUS

(* A second forward adds at most one second of refill, a second back none. *)
LEMMA ShiftedAmount ==
  ASSUME NEW bk \in BucketState, NEW s \in {1, -1}, NEW e \in Int,
         e = Greater(- MaxSkew, Lesser(MaxElapsed, bk.elapsed + s))
  PROVE  /\ Uncapped([bk EXCEPT !.elapsed = e]) <=
              Uncapped(bk) + (IF s = 1 /\ e # bk.elapsed THEN bk.max ELSE 0)
<1> DEFINE new == [bk EXCEPT !.elapsed = e]
           p == TimePassed(bk)
           q == TimePassed(new)
<1>1. /\ bk.cap \in Int /\ bk.max \in Nat /\ bk.elapsed \in Int
      /\ new.cap = bk.cap /\ new.max = bk.max /\ new.elapsed = e
  BY DEF BucketState
<1>2. MaxSkew \in Nat /\ MaxElapsed \in Nat
  BY BoundAssumption
<1>3. p \in Nat /\ q \in Nat
  BY <1>1 DEF TimePassed, Greater
<1>4. q <= p + (IF s = 1 /\ e # bk.elapsed THEN 1 ELSE 0)
  BY <1>1, <1>2 DEF TimePassed, Greater, Lesser
<1>5. Uncapped(new) = bk.cap + q * bk.max /\ Uncapped(bk) = bk.cap + p * bk.max
  BY <1>1 DEF Uncapped
<1> HIDE DEF new, p, q
<1>7. (p + 1) * bk.max = p * bk.max + bk.max
  BY <1>1, <1>3, OneMoreSecond
<1>8. q * bk.max \in Nat /\ p * bk.max \in Nat
  BY <1>1, <1>3
<1>9. CASE s = 1 /\ e # bk.elapsed
  <2>1. q <= p + 1 /\ p + 1 \in Nat
    BY <1>3, <1>4, <1>9
  <2>2. q * bk.max <= (p + 1) * bk.max
    BY <2>1, <1>1, <1>3, MoreRefill
  <2> QED BY <1>1, <1>5, <1>7, <1>8, <1>9, <2>2 DEF new
<1>10. CASE ~ (s = 1 /\ e # bk.elapsed)
  <2>1. q <= p
    BY <1>3, <1>4, <1>10
  <2>2. q * bk.max <= p * bk.max
    BY <2>1, <1>1, <1>3, MoreRefill
  <2> QED BY <1>1, <1>5, <1>8, <1>10, <2>2 DEF new
<1> QED BY <1>9, <1>10

-----------------------------------------------------------------------------
(* The inductive invariant: NothingFromNothing needs only the types of the *)
(* state it compares.                                                      *)
IdealTyped == ideal \in [Buckets -> Int]

AccountingInv == TypeOK /\ IdealTyped /\ NothingFromNothing

(* A reader of a bucket sees no more than the ideal bucket holds. *)
LEMMA ReadBound ==
  ASSUME AccountingInv, NEW b \in active
  PROVE  /\ ideal[b] \in Int
         /\ Avail(b) \in Int
         /\ Avail(b) <= ideal[b]
         /\ Window(b) \in Nat
         /\ b \in Buckets
         /\ bucket[b] \in BucketState
<1>1. b \in Buckets /\ bucket[b] \in BucketState
  BY DEF AccountingInv, TypeOK
<1>2. Avail(b) \in Int /\ Window(b) \in Nat
  BY <1>1, StateReads DEF AccountingInv, Window
<1>3. /\ bucket[b].fresh \in BOOLEAN /\ Uncapped(bucket[b]) \in Int
      /\ ideal[b] \in Int
  BY <1>1, ReadType DEF BucketState, AccountingInv, IdealTyped
<1>4. CASE bucket[b].fresh
  <2>1. Avail(b) = Window(b) /\ Holding(b) = Window(b)
    BY <1>4 DEF Avail, calculate_capacity, Window, Scaled, Holding
  <2> QED BY <1>1, <1>2, <1>3, <2>1 DEF AccountingInv, NothingFromNothing
<1>5. CASE ~ bucket[b].fresh
  <2>2. Avail(b) = Lesser(Window(b), Uncapped(bucket[b]))
    BY <1>5 DEF Avail, calculate_capacity, Window, Scaled
  <2>3. Avail(b) <= Uncapped(bucket[b])
    BY <1>2, <1>3, <2>2 DEF Lesser
  <2>4. Uncapped(bucket[b]) <= ideal[b]
    BY <1>5 DEF AccountingInv, NothingFromNothing, Holding
  <2> QED BY <1>1, <1>2, <1>3, <2>3, <2>4
<1> QED BY <1>3, <1>4, <1>5

(* A step that writes the buckets bs, and no more than the ideal bucket    *)
(* keeps, preserves the bound.                                             *)
LEMMA PostedStep ==
  ASSUME AccountingInv, NEW bs, bs \subseteq active, NEW w, NEW left,
         \A b \in bs : /\ left[b] \in Int
                       /\ w[b] \in BucketState /\ ~ w[b].fresh
                       /\ Uncapped(w[b]) <= left[b],
         bucket' = [b \in Buckets |-> IF b \in bs THEN w[b] ELSE bucket[b]],
         ideal' = [b \in Buckets |-> IF b \in bs THEN left[b] ELSE ideal[b]],
         active' = active
  PROVE  IdealTyped' /\ NothingFromNothing'
<1>1. IdealTyped'
  BY DEF IdealTyped, AccountingInv
<1>2. ASSUME NEW b \in active
      PROVE  Holding(b)' <= ideal'[b]
  <2>1. b \in Buckets
    BY DEF AccountingInv, TypeOK
  <2>2. CASE b \in bs
    <3>1. bucket'[b] = w[b] /\ ideal'[b] = left[b]
      BY <2>1, <2>2
    <3>2. Holding(b)' = Uncapped(w[b])
      BY <2>2, <3>1 DEF Holding
    <3> QED BY <2>2, <3>1, <3>2
  <2>3. CASE b \notin bs
    <3>1. bucket'[b] = bucket[b] /\ ideal'[b] = ideal[b]
      BY <2>1, <2>3
    <3>2. Holding(b)' = Holding(b)
      BY <3>1 DEF Holding, Window, Scaled
    <3> QED BY <3>1, <3>2 DEF AccountingInv, NothingFromNothing
  <2> QED BY <2>2, <2>3
<1>3. NothingFromNothing'
  BY <1>2 DEF NothingFromNothing
<1> QED BY <1>1, <1>3

(* The steps that touch neither buckets nor history *)
LEMMA QuietKeeps ==
  ASSUME AccountingInv, bucket' = bucket, active' = active, ideal' = ideal
  PROVE  IdealTyped' /\ NothingFromNothing'
BY DEF AccountingInv, IdealTyped, NothingFromNothing, Holding, Window, Scaled

(* await_for_capacity takes from both buckets alike. *)
LEMMA ConsumeKeeps ==
  ASSUME AccountingInv, NEW t \in Tasks, AccountConsume(t)
  PROVE  IdealTyped' /\ NothingFromNothing'
<1> DEFINE take(b) == Take(b, task[t].usage, task[t].keys)
           w == [b \in active |-> ConsumedBucket(t, b)]
           left == [b \in active |-> Greater(0, ideal[b] - take(b))]
<1>1. ASSUME NEW b \in active
      PROVE  /\ left[b] \in Int
             /\ w[b] \in BucketState /\ ~ w[b].fresh
             /\ Uncapped(w[b]) <= left[b]
  <2>1. /\ ideal[b] \in Int /\ Avail(b) \in Int /\ Avail(b) <= ideal[b]
        /\ b \in Buckets /\ bucket[b] \in BucketState
    BY ReadBound
  <2>2. task[t].usage \in [Metrics -> Nat]
    BY DEF AccountingInv, TypeOK, CallsTyped, Task
  <2>3. take(b) \in Nat
    BY <2>1, <2>2, StateReads DEF AccountingInv
  <2>4. w[b] = set_capacity(bucket[b], Avail(b) - take(b), FALSE)
    BY DEF ConsumedBucket
  <2>5. left[b] = Greater(0, ideal[b] - take(b))
    OBVIOUS
  <2> DEFINE rest == Avail(b) - take(b)
  <2> HIDE DEF w, left, take
  <2>6. rest \in Int
    BY <2>1, <2>3
  <2>7. /\ set_capacity(bucket[b], rest, FALSE) \in BucketState
        /\ ~ set_capacity(bucket[b], rest, FALSE).fresh
        /\ Uncapped(set_capacity(bucket[b], rest, FALSE)) = Greater(0, rest)
    BY <2>1, <2>6, WriteType, WrittenAmount, WrittenUsed
  <2>8. w[b] \in BucketState /\ ~ w[b].fresh /\ Uncapped(w[b]) = Greater(0, rest)
    BY <2>4, <2>7
  <2> QED BY <2>1, <2>3, <2>5, <2>8 DEF Greater
<1>2. bucket' = [b \in Buckets |-> IF b \in active THEN w[b] ELSE bucket[b]]
  BY DEF AccountConsume, TryConsume
<1>3. ideal' = [b \in Buckets |-> IF b \in active THEN left[b] ELSE ideal[b]]
  BY DEF AccountConsume, Post
<1>4. active' = active
  BY DEF AccountConsume, TryConsume
<1> HIDE DEF w, left
<1> QED BY <1>1, <1>2, <1>3, <1>4, PostedStep

(* The refund of a cancelled acquire gives both back what it took. *)
LEMMA UndoKeeps ==
  ASSUME AccountingInv, NEW t \in Tasks, AccountUndo(t)
  PROVE  IdealTyped' /\ NothingFromNothing'
<1> DEFINE take(b) == Take(b, task[t].usage, task[t].keys)
           bs == Reachable(t)
           w == [b \in bs |-> UndoneBucket(t, b)]
           left == [b \in bs |-> ideal[b] - (- take(b))]
<1>0. bs \subseteq active
  BY DEF Reachable
<1>1. ASSUME NEW b \in bs
      PROVE  /\ left[b] \in Int
             /\ w[b] \in BucketState /\ ~ w[b].fresh
             /\ Uncapped(w[b]) <= left[b]
  <2> DEFINE v == IF MetricOf[b] \in task[t].keys
                    THEN Lesser(Avail(b) + take(b), Window(b)) ELSE Avail(b)
  <2>1. /\ ideal[b] \in Int /\ Avail(b) \in Int /\ Avail(b) <= ideal[b]
        /\ b \in Buckets /\ bucket[b] \in BucketState /\ Window(b) \in Nat
    BY <1>0, ReadBound
  <2>2. task[t].usage \in [Metrics -> Nat]
    BY DEF AccountingInv, TypeOK, CallsTyped, Task
  <2>3. take(b) \in Nat
    BY <2>1, <2>2, StateReads DEF AccountingInv
  <2>4. w[b] = set_capacity(bucket[b], v, TRUE)
    BY DEF UndoneBucket, Window
  <2>5. left[b] = ideal[b] - (- take(b))
    OBVIOUS
  <2> HIDE DEF take, w, left
  <2>6. v \in Int /\ v <= ideal[b] + take(b)
    BY <2>1, <2>3 DEF Lesser
  <2> HIDE DEF v
  <2>7. w[b] \in BucketState /\ ~ w[b].fresh /\ Uncapped(w[b]) = v
    BY <2>1, <2>4, <2>6, WriteType, WrittenAmount, WrittenUsed
  <2> QED BY <2>1, <2>3, <2>5, <2>6, <2>7
<1>2. bucket' = [b \in Buckets |-> IF b \in bs THEN w[b] ELSE bucket[b]]
  BY DEF AccountUndo, Undo
<1>3. ideal' = [b \in Buckets |-> IF b \in bs THEN left[b] ELSE ideal[b]]
  BY DEF AccountUndo, Post
<1>4. active' = active
  BY DEF AccountUndo, Undo
<1> HIDE DEF w, left, bs
<1> QED BY <1>0, <1>1, <1>2, <1>3, <1>4, PostedStep

(* record_usage takes from both; the debt floor of the one is that of the   *)
(* other.                                                                   *)
LEMMA RecordKeeps ==
  ASSUME AccountingInv, NEW t \in Tasks, NEW r \in Ids, NEW u \in Usages,
         AccountRecord(t, r, u)
  PROVE  IdealTyped' /\ NothingFromNothing'
<1> DEFINE take(b) == Take(b, u, ActiveMetrics)
           w == [b \in active |-> RecordedBucket(b, u, ActiveMetrics)]
           left == [b \in active |-> Greater(ideal[b] - take(b), - Window(b))]
           mark == [scope |-> active, usage |-> u, keys |-> ActiveMetrics]
<1>0. active' = active
  BY DEF AccountRecord, Record
<1>1. CASE r \in live
  <2>1. IsReplay(r, mark)
    BY <1>1 DEF AccountRecord, Record, IsReplay, IsDuplicate
  <2>2. bucket' = bucket
    BY <2>1 DEF AccountRecord, Record
  <2>3. ideal' = ideal
    BY <1>1 DEF AccountRecord, Quiet, history
  <2> QED BY <1>0, <2>2, <2>3, QuietKeeps
<1>2. CASE r \notin live
  <2>1. ~ IsReplay(r, mark)
    BY <1>2 DEF IsReplay
  <2>2. ASSUME NEW b \in active
        PROVE  /\ left[b] \in Int
               /\ w[b] \in BucketState /\ ~ w[b].fresh
               /\ Uncapped(w[b]) <= left[b]
    <3> DEFINE v == IF MetricOf[b] \in ActiveMetrics
                      THEN Greater(Avail(b) - take(b), - Window(b)) ELSE Avail(b)
    <3>1. /\ ideal[b] \in Int /\ Avail(b) \in Int /\ Avail(b) <= ideal[b]
          /\ b \in Buckets /\ bucket[b] \in BucketState /\ Window(b) \in Nat
      BY ReadBound
    <3>2. u \in [Metrics -> Nat]
      BY ShapeAssumption
    <3>3. take(b) \in Nat /\ (MetricOf[b] \notin ActiveMetrics => take(b) = 0)
      BY <3>1, <3>2, StateReads DEF AccountingInv, Take
    <3>4. w[b] = set_capacity(bucket[b], v, TRUE)
      BY DEF RecordedBucket, Window
    <3>5. left[b] = Greater(ideal[b] - take(b), - Window(b))
      OBVIOUS
    <3> HIDE DEF take, w, left
    <3>6. v \in Int /\ v <= Greater(ideal[b] - take(b), - Window(b))
      BY <3>1, <3>3 DEF Greater
    <3>7. left[b] \in Int
      BY <3>1, <3>3, <3>5 DEF Greater
    <3> HIDE DEF v
    <3>8. w[b] \in BucketState /\ ~ w[b].fresh /\ Uncapped(w[b]) = v
      BY <3>1, <3>4, <3>6, WriteType, WrittenAmount, WrittenUsed
    <3> QED BY <3>5, <3>6, <3>7, <3>8
  <2>3. bucket' = [b \in Buckets |-> IF b \in active THEN w[b] ELSE bucket[b]]
    BY <2>1 DEF AccountRecord, Record
  <2>4. ideal' = [b \in Buckets |-> IF b \in active THEN left[b] ELSE ideal[b]]
    BY <1>2 DEF AccountRecord, Post
  <2> HIDE DEF w, left
  <2> QED BY <1>0, <2>2, <2>3, <2>4, PostedStep
<1> QED BY <1>1, <1>2

(* A refund credits or debits both by the same amount. *)
LEMMA RefundKeeps ==
  ASSUME AccountingInv, NEW t \in Tasks, AccountRefund(t)
  PROVE  IdealTyped' /\ NothingFromNothing'
<1> DEFINE bs == active \cap task[t].scope
           w == [b \in bs |-> RefundedBucket(t, b)]
           left == [b \in bs |-> Greater(- Window(b), ideal[b]
                                   + Greater(RefundAmount(t, b), - Window(b)))]
<1>0. bs \subseteq active
  OBVIOUS
<1>1. ASSUME NEW b \in bs
      PROVE  /\ left[b] \in Int
             /\ w[b] \in BucketState /\ ~ w[b].fresh
             /\ Uncapped(w[b]) <= left[b]
  <2> DEFINE v == Greater(- Window(b),
                          Lesser(Avail(b) + Greater(RefundAmount(t, b), - Window(b)),
                                 Window(b)))
  <2>1. /\ ideal[b] \in Int /\ Avail(b) \in Int /\ Avail(b) <= ideal[b]
        /\ b \in Buckets /\ bucket[b] \in BucketState /\ Window(b) \in Nat
    BY <1>0, ReadBound
  <2>2. task[t].usage \in [Metrics -> Nat] /\ task[t].id \in Ids
    BY DEF AccountingInv, TypeOK, CallsTyped, Task, AccountRefund, RefundCommit
  <2>3. value[task[t].id].usage \in [Metrics -> Nat]
    BY <2>2 DEF AccountingInv, TypeOK, Value
  <2>4. RefundAmount(t, b) \in Int
    BY <2>1, <2>2, <2>3, StateReads DEF AccountingInv, RefundAmount
  <2>5. w[b] = set_capacity(bucket[b], v, TRUE)
    BY DEF RefundedBucket, Window
  <2>6. left[b] = Greater(- Window(b), ideal[b]
                            + Greater(RefundAmount(t, b), - Window(b)))
    OBVIOUS
  <2> HIDE DEF w, left
  <2>7. v \in Int /\ v <= left[b] /\ left[b] \in Int
    BY <2>1, <2>4, <2>6 DEF Greater, Lesser
  <2> HIDE DEF v
  <2>8. v \in Int
    BY <2>7
  <2>9. w[b] \in BucketState /\ Uncapped(w[b]) = v
    BY <2>1, <2>5, <2>8, WriteType, WrittenAmount
  <2>10. ~ w[b].fresh
    BY <2>5, WrittenUsed
  <2> QED BY <2>7, <2>9, <2>10
<1>2. bucket' = [b \in Buckets |-> IF b \in bs THEN w[b] ELSE bucket[b]]
  BY DEF AccountRefund, RefundCommit
<1>3. ideal' = [b \in Buckets |-> IF b \in bs THEN left[b] ELSE ideal[b]]
  BY DEF AccountRefund, Post
<1>4. active' = active
  BY DEF AccountRefund, RefundCommit
<1> HIDE DEF w, left, bs
<1> QED BY <1>0, <1>1, <1>2, <1>3, <1>4, PostedStep

(* A bucket that takes a new limit *)
LEMMA RelimitedBound ==
  ASSUME AccountingInv, NEW b \in active, NEW limit \in Nat \ {0},
         bucket'[b] = set_max_capacity(bucket[b], limit),
         ideal'[b] = Relimited(b, limit)
  PROVE  Holding(b)' <= ideal'[b]
<1>1. b \in Buckets /\ bucket[b] \in BucketState /\ Scaled(b, limit) \in Nat
  BY ShapeAssumption DEF AccountingInv, TypeOK, Scaled
<1>2. bucket'[b].fresh = bucket[b].fresh /\ bucket[b].fresh \in BOOLEAN
  BY <1>1, AnchoredAmount DEF BucketState
<1>3. CASE bucket[b].fresh
  <2>1. bucket'[b].max = limit
    BY <1>3 DEF set_max_capacity, NewBucket
  <2>2. Holding(b)' = Scaled(b, limit)
    BY <1>2, <1>3, <2>1 DEF Holding, Window, Scaled
  <2> QED BY <1>1, <1>3, <2>2 DEF Relimited
<1>4. CASE ~ bucket[b].fresh
  <2>1. Uncapped(bucket'[b]) = Uncapped(bucket[b])
    BY <1>1, <1>4, AnchoredAmount
  <2>2. Holding(b)' = Holding(b)
    BY <1>2, <1>4, <2>1 DEF Holding
  <2> QED BY <1>4, <2>2 DEF Relimited, AccountingInv, NothingFromNothing
<1> QED BY <1>2, <1>3, <1>4

(* A new limit is applied after the refill at the old rate. *)
LEMMA SetMaxKeeps ==
  ASSUME AccountingInv, NEW t \in Tasks, AccountSetMax(t)
  PROVE  IdealTyped' /\ NothingFromNothing'
<1>0. task[t].limit \in Nat \ {0}
  BY ShapeAssumption DEF AccountSetMax, SetMaxCommit, AccountingInv, TypeOK,
     CallsTyped
<1>1. IdealTyped'
  <2>1. \A b \in Buckets : Scaled(b, task[t].limit) \in Int
    BY <1>0, ShapeAssumption DEF Scaled
  <2> QED BY <2>1 DEF AccountSetMax, Relimited, AccountingInv, IdealTyped
<1>2. ASSUME NEW b \in active
      PROVE  Holding(b)' <= ideal'[b]
  <2>1. b \in Buckets
    BY DEF AccountingInv, TypeOK
  <2>2. CASE b \in Reachable(t)
    <3>1. /\ bucket'[b] = set_max_capacity(bucket[b], task[t].limit)
          /\ ideal'[b] = Relimited(b, task[t].limit)
      BY <2>1, <2>2 DEF AccountSetMax, SetMaxCommit
    <3> QED BY <1>0, <3>1, RelimitedBound
  <2>3. CASE b \notin Reachable(t)
    <3>1. bucket'[b] = bucket[b] /\ ideal'[b] = ideal[b]
      BY <2>1, <2>3 DEF AccountSetMax, SetMaxCommit
    <3>2. Holding(b)' = Holding(b)
      BY <3>1 DEF Holding, Window, Scaled
    <3> QED BY <3>1, <3>2 DEF AccountingInv, NothingFromNothing
  <2> QED BY <2>2, <2>3
<1>3. active' = active
  BY DEF AccountSetMax, SetMaxCommit
<1>4. NothingFromNothing'
  BY <1>2, <1>3 DEF NothingFromNothing
<1> QED BY <1>1, <1>4

(* A rebuild keeps the contents of the buckets it carries over. *)
LEMMA ReconfigureKeeps ==
  ASSUME AccountingInv, NEW cfg \in Configs, AccountReconfigure(cfg)
  PROVE  IdealTyped' /\ NothingFromNothing'
<1>0. /\ DOMAIN cfg \subseteq Buckets
      /\ \A b \in DOMAIN cfg : cfg[b] \in Nat \ {0} /\ Scaled(b, cfg[b]) \in Int
  BY ShapeAssumption DEF Scaled
<1>1. IdealTyped'
  BY <1>0 DEF AccountReconfigure, Relimited, AccountingInv, IdealTyped
<1>2. ASSUME NEW b \in DOMAIN cfg
      PROVE  Holding(b)' <= ideal'[b]
  <2>1. b \in Buckets
    BY <1>0
  <2>2. CASE b \in active
    <3>1. /\ bucket'[b] = set_max_capacity(bucket[b], cfg[b])
          /\ ideal'[b] = Relimited(b, cfg[b])
      BY <2>1, <2>2 DEF AccountReconfigure, Reconfigure
    <3> QED BY <1>0, <2>2, <3>1, RelimitedBound
  <2>3. CASE b \notin active
    <3>1. bucket'[b] = NewBucket(cfg[b]) /\ ideal'[b] = Scaled(b, cfg[b])
      BY <2>1, <2>3 DEF AccountReconfigure, Reconfigure
    <3>2. Holding(b)' = Scaled(b, cfg[b])
      BY <3>1 DEF NewBucket, Holding, Window, Scaled
    <3> QED BY <1>0, <3>1, <3>2
  <2> QED BY <2>2, <2>3
<1>3. active' = DOMAIN cfg
  BY DEF AccountReconfigure, Reconfigure
<1>4. NothingFromNothing'
  BY <1>2, <1>3 DEF NothingFromNothing
<1> QED BY <1>1, <1>4

(* The clock refills the eager bucket at least as fast as the lazy one. *)
LEMMA ClockKeeps ==
  ASSUME AccountingInv, AccountTick \/ (ClockSetBack /\ Quiet)
  PROVE  IdealTyped' /\ NothingFromNothing'
<1> DEFINE s == IF AccountTick THEN 1 ELSE -1
           e(b) == Greater(- MaxSkew, Lesser(MaxElapsed, bucket[b].elapsed + s))
<1>0. s \in {1, -1} /\ active' = active
  BY DEF AccountTick, Tick, ClockSetBack
<1>1. Shift(s)
  BY DEF AccountTick, Tick, ClockSetBack
<1>2. ideal' = [b \in Buckets |->
                  IF s = 1 /\ b \in active /\ bucket'[b].elapsed # bucket[b].elapsed
                    THEN ideal[b] + bucket[b].max ELSE ideal[b]]
  <2>1. CASE AccountTick
    BY <2>1 DEF AccountTick
  <2>2. CASE ~ AccountTick
    <3>1. s = -1 /\ ideal' = ideal
      BY <2>2 DEF Quiet, history
    <3> QED BY <3>1 DEF AccountingInv, IdealTyped
  <2> QED BY <2>1, <2>2
<1> HIDE DEF s
<1>3. IdealTyped'
  <2>1. \A b \in Buckets : bucket[b].max \in Int
    BY DEF AccountingInv, TypeOK, BucketState
  <2> QED BY <1>2, <2>1 DEF AccountingInv, IdealTyped
<1>4. ASSUME NEW b \in active
      PROVE  Holding(b)' <= ideal'[b]
  <2>1. /\ b \in Buckets /\ bucket[b] \in BucketState
        /\ bucket[b].fresh \in BOOLEAN /\ bucket[b].max \in Nat
        /\ bucket[b].elapsed \in Int
    BY DEF AccountingInv, TypeOK, BucketState
  <2>2. CASE bucket[b].fresh
    <3>1. bucket'[b] = bucket[b]
      BY <1>1, <2>1, <2>2 DEF Shift
    <3>2. ideal'[b] = ideal[b]
      BY <1>2, <2>1, <3>1
    <3>3. Holding(b)' = Holding(b)
      BY <3>1 DEF Holding, Window, Scaled
    <3> QED BY <3>2, <3>3 DEF AccountingInv, NothingFromNothing
  <2>3. CASE ~ bucket[b].fresh
    <3>1. bucket'[b] = [bucket[b] EXCEPT !.elapsed = e(b)]
      BY <1>1, <2>1, <2>3 DEF Shift
    <3>2. e(b) \in Int
      BY <1>0, <2>1, BoundAssumption DEF Greater, Lesser
    <3>3. bucket'[b].elapsed = e(b) /\ bucket'[b].fresh = bucket[b].fresh
      BY <2>1, <3>1 DEF BucketState
    <3>4. Uncapped(bucket'[b]) <= Uncapped(bucket[b])
            + (IF s = 1 /\ e(b) # bucket[b].elapsed THEN bucket[b].max ELSE 0)
      BY <1>0, <2>1, <3>1, <3>2, ShiftedAmount
    <3>5. ideal'[b] = ideal[b]
            + (IF s = 1 /\ e(b) # bucket[b].elapsed THEN bucket[b].max ELSE 0)
      BY <1>2, <2>1, <3>3 DEF AccountingInv, IdealTyped
    <3>6. Uncapped(bucket[b]) <= ideal[b]
      BY <2>3 DEF AccountingInv, NothingFromNothing, Holding
    <3>7. /\ Uncapped(bucket[b]) \in Int /\ Uncapped(bucket'[b]) \in Int
          /\ ideal[b] \in Int
      <4>1. bucket'[b] \in BucketState
        BY <2>1, <3>1, <3>2 DEF BucketState
      <4> QED BY <2>1, <4>1, ReadType DEF AccountingInv, IdealTyped
    <3>8. Holding(b)' = Uncapped(bucket'[b])
      BY <2>3, <3>3 DEF Holding
    <3> HIDE DEF e
    <3> QED BY <2>1, <3>4, <3>5, <3>6, <3>7, <3>8
  <2> QED BY <2>2, <2>3
<1>5. NothingFromNothing'
  BY <1>0, <1>4 DEF NothingFromNothing
<1> QED BY <1>3, <1>5

(* Every step keeps the accounting invariant. *)
LEMMA StepKeeps == AccountingInv /\ [AccountingNext]_allvars => AccountingInv'
<1> SUFFICES ASSUME AccountingInv, [AccountingNext]_allvars PROVE AccountingInv'
  OBVIOUS
<1>1. TypeOK'
  BY AccountedStep, NextType DEF AccountingInv
<1>2. ASSUME NEW t \in Tasks,
             (QuietProgress(t) \/ Cancellation(t) \/ QuietCall(t)) /\ Quiet
      PROVE  IdealTyped' /\ NothingFromNothing'
  <2>0. ideal' = ideal
    BY <1>2 DEF Quiet, history
  <2>1. QuietProgress(t) => bucket' = bucket /\ active' = active
    BY DEF QuietProgress, TryReplay, TryReject, Raise, TryWait,
           WaitStartReturns, Wake, Resume, Unregister, CallbacksReturn,
           RecordReturns, RefundReject
  <2>2. Cancellation(t) => bucket' = bucket /\ active' = active
    BY DEF Cancellation, Interrupt, Raise, InterruptCallbacks
  <2>3. QuietCall(t) => bucket' = bucket /\ active' = active
    BY DEF QuietCall, AwaitCall, RefundCall, SetMaxCall
  <2> QED BY <1>2, <2>0, <2>1, <2>2, <2>3, QuietKeeps
<1>3. ASSUME NEW t \in Tasks,
             AccountConsume(t) \/ AccountUndo(t) \/ AccountRefund(t)
               \/ AccountSetMax(t)
      PROVE  IdealTyped' /\ NothingFromNothing'
  BY <1>3, ConsumeKeeps, UndoKeeps, RefundKeeps, SetMaxKeeps
<1>4. ASSUME NEW t \in Tasks, NEW r \in Ids, NEW u \in Usages, AccountRecord(t, r, u)
      PROVE  IdealTyped' /\ NothingFromNothing'
  BY <1>4, RecordKeeps
<1>5. ASSUME NEW cfg \in Configs, AccountReconfigure(cfg)
      PROVE  IdealTyped' /\ NothingFromNothing'
  BY <1>5, ReconfigureKeeps
<1>6. CASE AccountTick \/ (ClockSetBack /\ Quiet)
  BY <1>1, <1>6, ClockKeeps DEF AccountingInv
<1>7. CASE UNCHANGED allvars
  <2>1. bucket' = bucket /\ active' = active /\ ideal' = ideal
    BY <1>7 DEF allvars, vars, history
  <2> QED BY <1>1, <2>1, QuietKeeps DEF AccountingInv
<1> QED BY <1>1, <1>2, <1>3, <1>4, <1>5, <1>6, <1>7 DEF AccountingNext,
           AccountingInv

(* A new bucket starts full and so does the eager one. *)
LEMMA InitKeeps == AccountingInit => AccountingInv
<1> SUFFICES ASSUME AccountingInit PROVE AccountingInv
  OBVIOUS
<1>1. TypeOK
  BY InitType DEF AccountingInit
<1>2. \A b \in Buckets : Window(b) \in Int
  BY <1>1, StateReads DEF Window
<1>3. IdealTyped
  BY <1>2 DEF AccountingInit, IdealTyped
<1>4. ASSUME NEW b \in active PROVE Holding(b) <= ideal[b]
  <2>1. b \in Buckets
    BY <1>1 DEF TypeOK
  <2>2. bucket[b].fresh
    BY <2>1 DEF AccountingInit, Init, NewBucket
  <2>3. Holding(b) = Window(b) /\ ideal[b] = Window(b)
    BY <2>1, <2>2 DEF Holding, AccountingInit
  <2> QED BY <1>2, <2>1, <2>3
<1> QED BY <1>1, <1>3, <1>4 DEF AccountingInv, NothingFromNothing

(* No operation of the memory backend creates capacity: an installed       *)
(* bucket never holds more than an eager, uncapped bucket serving the same *)
(* acquires, records, refunds, cleanups and limit changes, whenever it is  *)
(* read and however the wall clock is set back.                            *)
THEOREM CreatesNoCapacity == AccountingSpec => []NothingFromNothing
<1>1. AccountingInit => AccountingInv
  BY InitKeeps
<1>2. AccountingInv /\ [AccountingNext]_allvars => AccountingInv'
  BY StepKeeps
<1>3. AccountingInv => NothingFromNothing
  BY DEF AccountingInv
<1> QED BY <1>1, <1>2, <1>3, PTL DEF AccountingSpec

-----------------------------------------------------------------------------
(* Sums over finite sets.  MapThenSumSet takes the elements of a set one   *)
(* at a time: a fold of amounts a over X assigns every subset of X the     *)
(* amount of the element it picks and the fold of the rest.                *)
Pick(s) == CHOOSE x \in s : TRUE
Plus(x, y) == x + y

Adds(g, a, X) ==
  g = [s \in SUBSET X |->
         IF s = {} THEN 0 ELSE Plus(a[Pick(s)], g[s \ {Pick(s)}])]

Running(a, X) == CHOOSE g : Adds(g, a, X)

Total(a, X) == Running(a, X)[X]

(* Among sets of subsets of a finite set there is a smallest one, which is *)
(* what an induction over the sums needs.                                  *)
LEMMA MinimalSet ==
  ASSUME NEW S, IsFiniteSet(S), NEW T, T \subseteq SUBSET S, T # {}
  PROVE  \E X \in T : \A Y \in T : Y \subseteq X => Y = X
<1>1. FiniteSubsetsOf(S) = SUBSET S
  BY FS_FiniteSubsetsOfFinite
<1>2. IsWellFoundedOn(StrictSubsetOrdering(S), SUBSET S)
  BY <1>1, FS_StrictSubsetOrderingWellFounded
<1>3. \E X \in T : \A Y \in T : <<Y, X>> \notin StrictSubsetOrdering(S)
  BY <1>2, WFMin
<1>4. \A X, Y \in SUBSET S : Y \subseteq X /\ Y # X
                               => <<Y, X>> \in StrictSubsetOrdering(S)
  BY DEF StrictSubsetOrdering
<1> QED BY <1>3, <1>4

(* What is picked from a set that is not empty is one of its elements. *)
LEMMA Picked ==
  ASSUME NEW s, s # {}
  PROVE  Pick(s) \in s
BY DEF Pick

(* The running sum of a set is a function on its subsets. *)
LEMMA AddsFunction ==
  ASSUME NEW g, NEW a, NEW X, Adds(g, a, X)
  PROVE  g = [s \in SUBSET X |-> g[s]]
<1> DEFINE f == [s \in SUBSET X |->
                   IF s = {} THEN 0 ELSE Plus(a[Pick(s)], g[s \ {Pick(s)}])]
<1>1. g = f
  BY DEF Adds
<1>2. f = [s \in SUBSET X |-> f[s]]
  OBVIOUS
<1> HIDE DEF f
<1> QED BY <1>1, <1>2

(* The running sum of a subset is the picked term and the sum of the rest. *)
LEMMA AddsAt ==
  ASSUME NEW g, NEW a, NEW X, Adds(g, a, X), NEW s \in SUBSET X
  PROVE  g[s] = IF s = {} THEN 0 ELSE Plus(a[Pick(s)], g[s \ {Pick(s)}])
<1> DEFINE f == [z \in SUBSET X |->
                   IF z = {} THEN 0 ELSE Plus(a[Pick(z)], g[z \ {Pick(z)}])]
<1>1. g = f
  BY DEF Adds
<1>2. f[s] = IF s = {} THEN 0 ELSE Plus(a[Pick(s)], g[s \ {Pick(s)}])
  OBVIOUS
<1> HIDE DEF f
<1> QED BY <1>1, <1>2

(* There is one fold. *)
LEMMA AddsUnique ==
  ASSUME NEW X, IsFiniteSet(X), NEW a, NEW g, NEW h, Adds(g, a, X), Adds(h, a, X)
  PROVE  g = h
<1> DEFINE T == {s \in SUBSET X : g[s] # h[s]}
<1>1. ASSUME T # {} PROVE FALSE
  <2>0. T \subseteq SUBSET X
    OBVIOUS
  <2> HIDE DEF T
  <2>1. PICK s \in T : \A Y \in T : Y \subseteq s => Y = s
    BY <1>1, <2>0, MinimalSet
  <2>2. s \in SUBSET X /\ g[s] # h[s]
    BY <2>1 DEF T
  <2>3. CASE s = {}
    BY <2>2, <2>3, AddsAt
  <2>4. CASE s # {}
    <3> DEFINE Y == s \ {Pick(s)}
    <3>1. Pick(s) \in s
      BY <2>4, Picked
    <3>2. Y \subseteq s /\ Y # s /\ Y \in SUBSET X
      BY <3>1, <2>2
    <3>3. g[Y] = h[Y]
      BY <2>1, <3>2 DEF T
    <3>4. g[s] = Plus(a[Pick(s)], g[Y])
      BY <2>2, <2>4, AddsAt
    <3>5. h[s] = Plus(a[Pick(s)], h[Y])
      BY <2>2, <2>4, AddsAt
    <3> QED BY <2>2, <3>3, <3>4, <3>5
  <2> QED BY <2>3, <2>4
<1>2. g = [s \in SUBSET X |-> g[s]] /\ h = [s \in SUBSET X |-> h[s]]
  BY AddsFunction
<1>3. \A s \in SUBSET X : g[s] = h[s]
  BY <1>1
<1> QED BY <1>2, <1>3

(* A fold over a set is a fold over each of its subsets. *)
LEMMA AddsWithin ==
  ASSUME NEW g, NEW a, NEW X, Adds(g, a, X), NEW Y, Y \subseteq X
  PROVE  Adds([s \in SUBSET Y |-> g[s]], a, Y)
<1> DEFINE h == [s \in SUBSET Y |-> g[s]]
<1>1. ASSUME NEW s \in SUBSET Y
      PROVE  g[s] = IF s = {} THEN 0 ELSE Plus(a[Pick(s)], h[s \ {Pick(s)}])
  <2>1. s \in SUBSET X /\ s \ {Pick(s)} \in SUBSET Y
    OBVIOUS
  <2>2. h[s \ {Pick(s)}] = g[s \ {Pick(s)}]
    BY <2>1
  <2> HIDE DEF h
  <2>3. CASE s = {}
    <3>1. g[{}] = 0
      BY AddsAt
    <3> QED BY <2>3, <3>1
  <2>4. CASE s # {}
    <3>1. g[s] = Plus(a[Pick(s)], g[s \ {Pick(s)}])
      BY <2>1, <2>4, AddsAt
    <3> QED BY <2>2, <2>4, <3>1
  <2> QED BY <2>3, <2>4
<1>2. h = [s \in SUBSET Y |->
             IF s = {} THEN 0 ELSE Plus(a[Pick(s)], h[s \ {Pick(s)}])]
  BY <1>1
<1> HIDE DEF h
<1>3. Adds(h, a, Y)
  BY <1>2 DEF Adds
<1> QED BY <1>3 DEF h

(* There is a fold. *)
LEMMA AddsExists ==
  ASSUME NEW X, IsFiniteSet(X), NEW a
  PROVE  Adds(Running(a, X), a, X)
<1> DEFINE T == {Y \in SUBSET X : ~ Adds(Running(a, Y), a, Y)}
<1>1. ASSUME T # {} PROVE FALSE
  <2>0. T \subseteq SUBSET X
    OBVIOUS
  <2> HIDE DEF T
  <2>1. PICK Y \in T : \A Z \in T : Z \subseteq Y => Z = Y
    BY <1>1, <2>0, MinimalSet
  <2>2. Y \in SUBSET X /\ ~ Adds(Running(a, Y), a, Y)
    BY <2>1 DEF T
  <2>3. \A Z \in SUBSET Y : Z # Y => Adds(Running(a, Z), a, Z)
    BY <2>1, <2>2 DEF T
  <2> DEFINE g == [s \in SUBSET Y |->
                     IF s = {} THEN 0
                     ELSE Plus(a[Pick(s)], Total(a, s \ {Pick(s)}))]
  <2>4. ASSUME NEW Z \in SUBSET Y, Z # Y PROVE g[Z] = Total(a, Z)
    <3>1. Adds(Running(a, Z), a, Z)
      BY <2>3, <2>4
    <3>2. Total(a, Z) = IF Z = {} THEN 0
                        ELSE Plus(a[Pick(Z)], Running(a, Z)[Z \ {Pick(Z)}])
      BY <3>1, AddsAt DEF Total
    <3>3. CASE Z = {}
      BY <3>2, <3>3
    <3>4. CASE Z # {}
      <4> DEFINE W == Z \ {Pick(Z)}
                 h == [s \in SUBSET W |-> Running(a, Z)[s]]
      <4>1. W \in SUBSET Z /\ W \in SUBSET Y /\ W # Y /\ IsFiniteSet(W)
        <5>1. W \in SUBSET Z /\ W \in SUBSET Y /\ W # Y
          BY <3>4, <2>4, Picked
        <5> QED BY <5>1, <2>2, FS_Subset
      <4>2. Adds(h, a, W)
        BY <3>1, <4>1, AddsWithin
      <4>3. Adds(Running(a, W), a, W)
        BY <2>3, <4>1
      <4>4. h[W] = Running(a, Z)[W]
        OBVIOUS
      <4> HIDE DEF h
      <4>5. h = Running(a, W)
        BY <4>1, <4>2, <4>3, AddsUnique
      <4>6. Running(a, Z)[W] = Total(a, W)
        BY <4>4, <4>5 DEF Total
      <4>7. g[Z] = Plus(a[Pick(Z)], Total(a, W))
        BY <3>4
      <4> QED BY <3>2, <3>4, <4>6, <4>7
    <3> QED BY <3>3, <3>4
  <2>5. ASSUME NEW s \in SUBSET Y
        PROVE  (IF s = {} THEN 0 ELSE Plus(a[Pick(s)], Total(a, s \ {Pick(s)})))
                 = (IF s = {} THEN 0 ELSE Plus(a[Pick(s)], g[s \ {Pick(s)}]))
    <3>1. CASE s = {}
      BY <3>1
    <3>2. CASE s # {}
      <4>1. s \ {Pick(s)} \in SUBSET Y /\ s \ {Pick(s)} # Y
        BY <3>2, Picked
      <4>2. g[s \ {Pick(s)}] = Total(a, s \ {Pick(s)})
        BY <2>4, <4>1
      <4> HIDE DEF g
      <4> QED BY <4>2
    <3> QED BY <3>1, <3>2
  <2>6. g = [s \in SUBSET Y |->
               IF s = {} THEN 0 ELSE Plus(a[Pick(s)], g[s \ {Pick(s)}])]
    BY <2>5
  <2> HIDE DEF g
  <2>7. Adds(g, a, Y)
    BY <2>6 DEF Adds
  <2>8. Adds(Running(a, Y), a, Y)
    BY <2>7 DEF Running
  <2> QED BY <2>2, <2>8
<1> QED BY <1>1

(* The sum of a set is the picked element's amount and the sum of the rest. *)
LEMMA TotalPicks ==
  ASSUME NEW X, IsFiniteSet(X), NEW a
  PROVE  Total(a, X) = IF X = {} THEN 0
                       ELSE Plus(a[Pick(X)], Total(a, X \ {Pick(X)}))
<1>1. Adds(Running(a, X), a, X)
  BY AddsExists
<1>2. Total(a, X) = IF X = {} THEN 0
                    ELSE Plus(a[Pick(X)], Running(a, X)[X \ {Pick(X)}])
  BY <1>1, AddsAt DEF Total
<1> DEFINE W == X \ {Pick(X)}
           h == [s \in SUBSET W |-> Running(a, X)[s]]
<1>3. W \in SUBSET X /\ IsFiniteSet(W)
  BY FS_Subset
<1>4. Adds(h, a, W) /\ Adds(Running(a, W), a, W)
  BY <1>1, <1>3, AddsWithin, AddsExists
<1>5. h[W] = Running(a, X)[W]
  OBVIOUS
<1> HIDE DEF h
<1>6. h = Running(a, W)
  BY <1>3, <1>4, AddsUnique
<1> QED BY <1>2, <1>5, <1>6 DEF Total

(* A sum of naturals is a natural. *)
LEMMA TotalNat ==
  ASSUME NEW X, IsFiniteSet(X), NEW a, \A x \in X : a[x] \in Nat
  PROVE  Total(a, X) \in Nat
<1> DEFINE T == {Y \in SUBSET X : Total(a, Y) \notin Nat}
<1>1. ASSUME T # {} PROVE FALSE
  <2>0. T \subseteq SUBSET X
    OBVIOUS
  <2> HIDE DEF T
  <2>1. PICK Y \in T : \A Z \in T : Z \subseteq Y => Z = Y
    BY <1>1, <2>0, MinimalSet
  <2>2. Y \in SUBSET X /\ Total(a, Y) \notin Nat /\ IsFiniteSet(Y)
    BY <2>1, FS_Subset DEF T
  <2>3. CASE Y = {}
    <3>1. Total(a, Y) = 0
      BY <2>2, <2>3, TotalPicks
    <3> QED BY <2>2, <3>1
  <2>4. CASE Y # {}
    <3> DEFINE Z == Y \ {Pick(Y)}
    <3>1. Pick(Y) \in Y
      BY <2>4, Picked
    <3>2. Z \subseteq Y /\ Z # Y /\ Z \in SUBSET X
      BY <2>2, <3>1
    <3>3. Total(a, Z) \in Nat
      BY <2>1, <3>2 DEF T
    <3>4. Total(a, Y) = Plus(a[Pick(Y)], Total(a, Z))
      BY <2>2, <2>4, TotalPicks
    <3>5. a[Pick(Y)] \in Nat
      BY <2>2, <3>1
    <3> HIDE DEF Z
    <3>6. Plus(a[Pick(Y)], Total(a, Z)) \in Nat
      BY <3>3, <3>5 DEF Plus
    <3> QED BY <2>2, <3>4, <3>6
  <2> QED BY <2>3, <2>4
<1> QED BY <1>1

(* Any element can be taken out of a sum. *)
LEMMA TotalWithout ==
  ASSUME NEW X, IsFiniteSet(X), NEW a, \A x \in X : a[x] \in Nat, NEW x \in X
  PROVE  Total(a, X) = Plus(a[x], Total(a, X \ {x}))
<1> DEFINE T == {Y \in SUBSET X :
                   \E y \in Y : Total(a, Y) # Plus(a[y], Total(a, Y \ {y}))}
<1>1. ASSUME T # {} PROVE FALSE
  <2>0. T \subseteq SUBSET X
    OBVIOUS
  <2> HIDE DEF T
  <2>1. PICK Y \in T : \A Z \in T : Z \subseteq Y => Z = Y
    BY <1>1, <2>0, MinimalSet
  <2>2. PICK y \in Y : Total(a, Y) # Plus(a[y], Total(a, Y \ {y}))
    BY <2>1 DEF T
  <2>3. Y \in SUBSET X /\ \A Z \in SUBSET Y : IsFiniteSet(Z)
    BY <2>1, FS_Subset DEF T
  <2> DEFINE p == Pick(Y)
  <2>4. p \in Y
    BY Picked
  <2>5. Total(a, Y) = Plus(a[p], Total(a, Y \ {p}))
    BY <2>3, TotalPicks
  <2> HIDE DEF p
  <2>6. p # y
    BY <2>2, <2>5
  <2>7. \A Z \in SUBSET Y : Z # Y => 
          \A z \in Z : Total(a, Z) = Plus(a[z], Total(a, Z \ {z}))
    BY <2>1, <2>3 DEF T
  <2>8. Total(a, Y \ {p}) = Plus(a[y], Total(a, (Y \ {p}) \ {y}))
    BY <2>4, <2>6, <2>7
  <2>9. Total(a, Y \ {y}) = Plus(a[p], Total(a, (Y \ {y}) \ {p}))
    BY <2>4, <2>6, <2>7
  <2>10. (Y \ {y}) \ {p} = (Y \ {p}) \ {y}
    OBVIOUS
  <2>11. Total(a, (Y \ {p}) \ {y}) \in Nat
    <3>1. (Y \ {p}) \ {y} \in SUBSET Y
      OBVIOUS
    <3>2. \A z \in (Y \ {p}) \ {y} : a[z] \in Nat
      BY <2>3
    <3> QED BY <2>3, <3>1, <3>2, TotalNat
  <2>12. a[p] \in Nat /\ a[y] \in Nat
    BY <2>3, <2>4
  <2> DEFINE rest == Total(a, (Y \ {p}) \ {y})
  <2>14. Total(a, Y) = Plus(a[p], Plus(a[y], rest))
    BY <2>5, <2>8
  <2>15. Total(a, Y \ {y}) = Plus(a[p], rest)
    BY <2>9, <2>10
  <2> HIDE DEF rest
  <2>13. Plus(a[p], Plus(a[y], rest)) = Plus(a[y], Plus(a[p], rest))
    <3>1. rest \in Nat
      BY <2>11 DEF rest
    <3> QED BY <2>12, <3>1 DEF Plus
  <2> QED BY <2>2, <2>13, <2>14, <2>15
<1> QED BY <1>1

(* A sum depends on the amounts of its set's members only. *)
LEMMA TotalAgrees ==
  ASSUME NEW X, IsFiniteSet(X), NEW a, NEW c, \A x \in X : a[x] = c[x]
  PROVE  Total(a, X) = Total(c, X)
<1>1. Adds(Running(a, X), a, X) /\ Adds(Running(c, X), c, X)
  BY AddsExists
<1> DEFINE g == Running(c, X)
<1>2. \A s \in SUBSET X : s # {} => a[Pick(s)] = c[Pick(s)]
  BY Picked
<1>3. g = [s \in SUBSET X |->
             IF s = {} THEN 0 ELSE Plus(c[Pick(s)], g[s \ {Pick(s)}])]
  BY <1>1 DEF Adds
<1> HIDE DEF g
<1>4. g = [s \in SUBSET X |->
             IF s = {} THEN 0 ELSE Plus(a[Pick(s)], g[s \ {Pick(s)}])]
  BY <1>2, <1>3
<1>5. Adds(g, a, X)
  BY <1>4 DEF Adds
<1>6. g = Running(a, X)
  BY <1>1, <1>5, AddsUnique
<1> QED BY <1>6 DEF Total, g

-----------------------------------------------------------------------------
(* What callers owe a bucket *)

(* The open charges that were taken from bucket b, and their sum *)
Open(b) == {r \in live : b \in value[r].scope}

Owed(b) == MapThenSumSet(LAMBDA r : Charge(r, b), Open(b))

(* What each of the charges in the table val takes from bucket b *)
Takes(val, b) == [r \in Ids |-> Take(b, val[r].usage, val[r].keys)]

Summed(val, b, X) ==
  (CHOOSE iter : iter = [s \in SUBSET X |->
     IF s = {} THEN 0
     ELSE Take(b, val[Pick(s)].usage, val[Pick(s)].keys) + iter[s \ {Pick(s)}]])[X]

(* The sum a fold computes is the total. *)
LEMMA SummedIsTotal ==
  ASSUME NEW X, IsFiniteSet(X), X \subseteq Ids, NEW val, NEW b
  PROVE  Summed(val, b, X) = Total(Takes(val, b), X)
<1> DEFINE a == Takes(val, b)
           F(it) == [s \in SUBSET X |->
                       IF s = {} THEN 0
                       ELSE Plus(Take(b, val[Pick(s)].usage, val[Pick(s)].keys),
                                 it[s \ {Pick(s)}])]
           g == CHOOSE iter : iter = F(iter)
<1>1. \A s \in SUBSET X : s # {} =>
        a[Pick(s)] = Take(b, val[Pick(s)].usage, val[Pick(s)].keys)
  BY Picked DEF Takes
<1> HIDE DEF a
<1>2. \A it : F(it) = [s \in SUBSET X |->
                         IF s = {} THEN 0
                         ELSE Plus(a[Pick(s)], it[s \ {Pick(s)}])]
  BY <1>1
<1>3. Adds(Running(a, X), a, X)
  BY AddsExists
<1>4. Running(a, X) = F(Running(a, X))
  BY <1>2, <1>3 DEF Adds
<1> HIDE DEF F
<1>5. g = F(g)
  BY <1>4
<1>6. Summed(val, b, X) = g[X]
  BY DEF Summed, F, Plus
<1> HIDE DEF g
<1>7. Adds(g, a, X)
  BY <1>2, <1>5 DEF Adds
<1>8. g = Running(a, X)
  BY <1>3, <1>7, AddsUnique
<1> QED BY <1>6, <1>8 DEF Total, a

(* Reservation ids are finitely many. *)
LEMMA IdsFinite ==
  ASSUME NEW X, X \subseteq Ids
  PROVE  IsFiniteSet(X)
<1>1. IsFiniteSet(Ids)
  BY FS_Interval, BoundAssumption DEF Ids
<1> QED BY <1>1, FS_Subset

(* What the open charges owe a bucket, as a total over finitely many ids. *)
LEMMA OwedTotal ==
  ASSUME TypeOK, NEW b \in Buckets
  PROVE  /\ Owed(b) = Total(Takes(value, b), Open(b))
         /\ Open(b) \subseteq Ids /\ IsFiniteSet(Open(b))
         /\ \A r \in Ids : Takes(value, b)[r] \in Nat
<1>1. Open(b) \subseteq Ids
  BY DEF TypeOK, Open
<1>2. Owed(b) = Summed(value, b, Open(b))
  BY DEF Owed, Summed, MapThenSumSet, MapThenFoldSet, Pick, Charge
<1>3. \A r \in Ids : Take(b, value[r].usage, value[r].keys) \in Nat
  <2>1. \A r \in Ids : value[r].usage \in [Metrics -> Nat]
    BY DEF TypeOK, Value
  <2> QED BY <2>1, TakeType
<1> QED BY <1>1, <1>2, <1>3, IdsFinite, SummedIsTotal DEF Takes

(* The same in the next state. *)
LEMMA OwedTotalNext ==
  ASSUME TypeOK', NEW b \in Buckets
  PROVE  /\ Owed(b)' = Total(Takes(value', b), Open(b)')
         /\ Open(b)' \subseteq Ids /\ IsFiniteSet(Open(b)')
         /\ \A r \in Ids : Takes(value', b)[r] \in Nat
<1>1. Open(b)' \subseteq Ids
  BY DEF TypeOK, Open
<1>2. Owed(b)' = Summed(value', b, Open(b)')
  BY DEF Owed, Summed, MapThenSumSet, MapThenFoldSet, Pick, Charge
<1>3. \A r \in Ids : Take(b, value'[r].usage, value'[r].keys) \in Nat
  <2>1. \A r \in Ids : value'[r].usage \in [Metrics -> Nat]
    BY DEF TypeOK, Value
  <2> QED BY <2>1, TakeType
<1> QED BY <1>1, <1>2, <1>3, IdsFinite, SummedIsTotal DEF Takes


(* No step but a charge, an undo or a refund changes what is owed. *)
LEMMA OwedStays ==
  ASSUME TypeOK, TypeOK', NEW b \in Buckets, live' = live, value' = value
  PROVE  Owed(b)' = Owed(b)
<1>1. Open(b)' = Open(b)
  BY DEF Open
<1> QED BY <1>1, OwedTotal, OwedTotalNext

(* A charge adds what it takes to what is owed. *)
LEMMA OwedRises ==
  ASSUME TypeOK, TypeOK', NEW b \in Buckets, NEW r \in Ids, r \notin live,
         live' = live \cup {r}, NEW v, value' = [value EXCEPT ![r] = v]
  PROVE  /\ b \in v.scope => Owed(b)' = Owed(b) + Take(b, v.usage, v.keys)
         /\ b \notin v.scope => Owed(b)' = Owed(b)
         /\ Owed(b) \in Nat
<1>1. /\ value'[r] = v
      /\ \A q \in live : value'[q] = value[q]
      /\ live \subseteq Ids
  BY DEF TypeOK
<1>2. \A q \in Open(b) : Takes(value', b)[q] = Takes(value, b)[q]
  BY <1>1 DEF Open, Takes
<1>3. /\ Owed(b) = Total(Takes(value, b), Open(b))
      /\ Open(b) \subseteq Ids /\ IsFiniteSet(Open(b))
      /\ \A q \in Ids : Takes(value, b)[q] \in Nat
  BY OwedTotal
<1>4. /\ Owed(b)' = Total(Takes(value', b), Open(b)')
      /\ Open(b)' \subseteq Ids /\ IsFiniteSet(Open(b)')
      /\ \A q \in Ids : Takes(value', b)[q] \in Nat
  BY OwedTotalNext
<1> DEFINE old == Takes(value, b)
           new == Takes(value', b)
<1>5. new[r] = Take(b, v.usage, v.keys)
  BY <1>1 DEF Takes
<1> HIDE DEF old, new
<1>6. Total(new, Open(b)) = Owed(b)
  <2>1. \A q \in Open(b) : new[q] = old[q]
    BY <1>2 DEF old, new
  <2> QED BY <1>3, <2>1, TotalAgrees DEF old
<1>7. Owed(b) \in Nat
  <2>1. \A q \in Open(b) : old[q] \in Nat
    BY <1>3 DEF old
  <2> QED BY <1>3, <2>1, TotalNat DEF old
<1>8. ASSUME b \in v.scope
      PROVE  Owed(b)' = Owed(b) + Take(b, v.usage, v.keys)
  <2>1. Open(b)' = Open(b) \cup {r} /\ Open(b)' \ {r} = Open(b) /\ r \in Open(b)'
    BY <1>1, <1>8 DEF Open
  <2>2. \A q \in Open(b)' : new[q] \in Nat
    BY <1>4 DEF new
  <2>3. Total(new, Open(b)') = Plus(new[r], Total(new, Open(b)' \ {r}))
    BY <1>4, <2>1, <2>2, TotalWithout
  <2>4. Owed(b)' = Plus(new[r], Owed(b))
    BY <1>4, <1>6, <2>1, <2>3 DEF new
  <2>5. new[r] \in Nat
    BY <1>4 DEF new
  <2>6. Plus(new[r], Owed(b)) = Owed(b) + new[r]
    BY <1>7, <2>5 DEF Plus
  <2> QED BY <1>5, <2>4, <2>6
<1>9. ASSUME b \notin v.scope
      PROVE  Owed(b)' = Owed(b)
  <2>1. Open(b)' = Open(b)
    BY <1>1, <1>9 DEF Open
  <2> QED BY <1>4, <1>6, <2>1 DEF new
<1> QED BY <1>7, <1>8, <1>9

(* A charge that is undone or refunded takes its part out of what is owed. *)
LEMMA OwedFalls ==
  ASSUME TypeOK, TypeOK', NEW b \in Buckets, NEW r \in live,
         live' = live \ {r}, value' = value
  PROVE  /\ b \in value[r].scope => Owed(b) = Owed(b)' + Charge(r, b)
         /\ b \notin value[r].scope => Owed(b)' = Owed(b)
         /\ Owed(b)' \in Nat
         /\ Charge(r, b) \in Nat
<1> DEFINE old == Takes(value, b)
<1>0. r \in Ids
  BY DEF TypeOK
<1>1. /\ Owed(b) = Total(old, Open(b))
      /\ Open(b) \subseteq Ids /\ IsFiniteSet(Open(b))
      /\ \A q \in Ids : old[q] \in Nat
  BY OwedTotal
<1>2. /\ Owed(b)' = Total(old, Open(b)')
      /\ Open(b)' \subseteq Ids /\ IsFiniteSet(Open(b)')
  BY OwedTotalNext
<1>3. old[r] = Charge(r, b)
  BY <1>0 DEF Takes, Charge
<1> HIDE DEF old
<1>4. Owed(b)' \in Nat /\ old[r] \in Nat
  <2>1. \A q \in Open(b)' : old[q] \in Nat
    BY <1>1, <1>2
  <2>2. Total(old, Open(b)') \in Nat
    BY <1>2, <2>1, TotalNat
  <2> QED BY <1>0, <1>1, <1>2, <2>2
<1>5. ASSUME b \in value[r].scope
      PROVE  Owed(b) = Owed(b)' + Charge(r, b)
  <2>1. Open(b)' = Open(b) \ {r} /\ r \in Open(b)
    BY <1>5 DEF Open
  <2>2. \A q \in Open(b) : old[q] \in Nat
    BY <1>1
  <2>3. Total(old, Open(b)) = Plus(old[r], Total(old, Open(b) \ {r}))
    BY <1>1, <2>1, <2>2, TotalWithout
  <2>4. Owed(b) = Plus(old[r], Owed(b)')
    BY <1>1, <1>2, <2>1, <2>3
  <2>5. Plus(old[r], Owed(b)') = Owed(b)' + old[r]
    BY <1>4 DEF Plus
  <2> QED BY <1>3, <2>4, <2>5
<1>6. ASSUME b \notin value[r].scope
      PROVE  Owed(b)' = Owed(b)
  <2>1. Open(b)' = Open(b)
    BY <1>6 DEF Open
  <2> QED BY <1>1, <1>2, <2>1
<1> QED BY <1>3, <1>4, <1>5, <1>6


-----------------------------------------------------------------------------
(* A running call and the marker of its charge tell the same story.        *)

Carries(c) == \/ c.pc \in {"callbacks", "undo"}
              \/ c.pc = "unregister" /\ c.out = "consumed"

(* The marker v holds what call c took, and where. *)
Carried(c, v) ==
  /\ c.usage = v.usage /\ c.keys = v.keys
  /\ \A b \in Buckets : <<b, 1>> \in c.objs <=> b \in v.scope

(* The refund c was checked against the marker v. *)
Asked(c, v) == c.keys = v.keys /\ c.scope \subseteq v.scope

Matches(c, val) == /\ Carries(c) => Carried(c, val[c.id])
                   /\ c.pc = "refund" => Asked(c, val[c.id])

CallsMatch == \A t \in Tasks : Matches(task[t], value)

(* In these behaviours no bucket id is built anew. *)
NoneRebuilt == \A b \in Buckets : gen[b] <= 1

(* An installed bucket, and one that was charged, has been built. *)
ScopesBuilt ==
  /\ \A b \in active : gen[b] # 0
  /\ \A r \in live : \A b \in value[r].scope : b \in Buckets /\ gen[b] # 0

(* A call that moves on keeps its story, or has none. *)
LEMMA MoveMatches ==
  ASSUME TypeOK, CallsMatch, NEW t \in Tasks, NEW rec,
         task' = [task EXCEPT ![t] = rec], value' = value, Matches(rec, value)
  PROVE  CallsMatch'
<1>1. OthersStay(t) /\ task'[t] = rec
  BY CallWritten
<1> QED BY <1>1 DEF CallsMatch, OthersStay

(* An idle caller carries no charge. *)
LEMMA IdleMatches == \A val : Matches(Idle, val)
BY DEF Matches, Carries, Idle

(* A caller on its way out carries no charge. *)
LEMMA LeavingMatches ==
  ASSUME TypeOK, NEW t \in Tasks, NEW out \in {"failed", "replayed"}, NEW val
  PROVE  Matches(Leaving(t, out), val)
<1>1. task[t] \in Task
  BY DEF TypeOK, CallsTyped
<1>2. CASE task[t].reg
  <2>1. Leaving(t, out).pc = "unregister" /\ Leaving(t, out).out = out
    BY <1>1, <1>2 DEF Leaving, Task
  <2> QED BY <2>1 DEF Matches, Carries
<1>3. CASE ~ task[t].reg
  BY <1>3, IdleMatches DEF Leaving
<1> QED BY <1>2, <1>3

(* Every step of the backend keeps the calls and the markers in step; ids  *)
(* that callers use once are charged by the call that took them and        *)
(* refunds wait for its delivery.                                          *)
LEMMA ProgressMatches ==
  ASSUME Replays = {}, TypeOK, DeliveryInv, CallsMatch, NoneRebuilt, ScopesBuilt,
         NEW t \in Tasks, Progress(t)
  PROVE  CallsMatch'
<1>0. task[t] \in Task
  BY DEF TypeOK, CallsTyped
<1>1. CASE TryReplay(t)
  BY <1>1, LeavingMatches, MoveMatches DEF TryReplay
<1>2. CASE TryReject(t)
  BY <1>2, LeavingMatches, MoveMatches DEF TryReject, Raise
<1>3. CASE TryConsume(t)
  <2> DEFINE r == task[t].id
             rec == [task[t] EXCEPT
                       !.pc = IF task[t].reg THEN "unregister" ELSE "callbacks",
                       !.out = "consumed",
                       !.objs = {<<b, gen[b]>> : b \in active}]
             v == MarkerValue(t)
  <2>1. task[t].pc = "try" /\ r \notin live /\ r \in Ids
    BY <1>3 DEF TryConsume, Tryable, IsReplay, IsDuplicate, TypeOK, CallsTyped
  <2>2. task' = [task EXCEPT ![t] = rec]
    BY <1>3 DEF TryConsume
  <2>3. value' = [value EXCEPT ![r] = v]
    BY <1>3 DEF TryConsume
  <2>4. /\ rec.pc \in {"unregister", "callbacks"} /\ rec.id = r
        /\ rec.usage = task[t].usage /\ rec.keys = task[t].keys
        /\ rec.objs = {<<b, gen[b]>> : b \in active}
    BY <1>0 DEF Task
  <2>5. /\ v.scope = active /\ v.usage = task[t].usage /\ v.keys = task[t].keys
    BY DEF MarkerValue
  <2>6. \A b \in active : gen[b] = 1
    BY DEF TypeOK, NoneRebuilt, ScopesBuilt
  <2>7. value'[r] = v /\ \A q \in Ids \ {r} : value'[q] = value[q]
    BY <2>1, <2>3 DEF TypeOK
  <2>8. OthersStay(t) /\ task'[t] = rec
    BY <2>2, CallWritten
  <2> HIDE DEF rec, v
  <2>9. \A b \in Buckets : <<b, 1>> \in rec.objs <=> b \in v.scope
    BY <2>4, <2>5, <2>6
  <2>10. Matches(rec, value')
    BY <2>4, <2>5, <2>7, <2>9 DEF Matches, Carried
  <2>11. ASSUME NEW s \in Tasks \ {t}
         PROVE  Matches(task[s], value')
    <3>1. Carries(task[s]) => task[s].id \in live
      BY DEF DeliveryInv, OwnerCharges, Owns, Charging, HasCharged, TypeOK,
             CallsTyped, Carries
    <3>2. task[s].pc = "refund" => held[task[s].id] # "no"
      BY DEF DeliveryInv, RefundsFollowDelivery
    <3>3. held[r] = "no"
      BY <2>1 DEF DeliveryInv, OwnerCharges, Owns, Charging
    <3>4. Carries(task[s]) \/ task[s].pc = "refund"
            => task[s].id \in Ids \ {r}
      BY <2>1, <3>1, <3>2, <3>3 DEF TypeOK, CallsTyped, Carries
    <3>5. Matches(task[s], value)
      BY DEF CallsMatch
    <3> QED BY <2>7, <3>4, <3>5 DEF Matches
  <2> QED BY <2>8, <2>10, <2>11 DEF CallsMatch, OthersStay
<1>4. CASE TryWait(t)
  <2>1. PICK pc \in PCs, out \in {"none", "consumed", "replayed", "failed"} :
          /\ pc \in {"waiting", "wait_start"} \/ (pc = "unregister" /\ out = "failed")
          /\ task' = [task EXCEPT ![t] = [task[t] EXCEPT !.reg = TRUE, !.pc = pc,
                                                         !.out = out]]
    <3>1. CASE task' = [task EXCEPT ![t] = [@ EXCEPT !.reg = TRUE,
                 !.pc = IF task[t].reg THEN "waiting" ELSE "wait_start"]]
      <4>1. task' = [task EXCEPT ![t] = [task[t] EXCEPT !.reg = TRUE,
                 !.pc = IF task[t].reg THEN "waiting" ELSE "wait_start",
                 !.out = task[t].out]]
        BY <1>0, <3>1 DEF Task
      <4> QED BY <1>0, <4>1 DEF Task, PCs
    <3>2. CASE task' = [task EXCEPT ![t] =
                          [@ EXCEPT !.reg = TRUE, !.pc = "unregister", !.out = "failed"]]
      BY <3>2 DEF PCs
    <3> QED BY <1>4, <3>1, <3>2 DEF TryWait
  <2> DEFINE rec == [task[t] EXCEPT !.reg = TRUE, !.pc = pc, !.out = out]
  <2>2. rec.pc = pc /\ rec.out = out
    BY <1>0 DEF Task
  <2>3. Matches(rec, value)
    BY <2>1, <2>2 DEF Matches, Carries
  <2> QED BY <1>4, <2>1, <2>3, MoveMatches DEF TryWait
<1>5. CASE WaitStartReturns(t) \/ Wake(t)
  <2> DEFINE rec == [task[t] EXCEPT !.pc = "try"]
  <2>1. rec.pc = "try"
    BY <1>0 DEF Task
  <2>2. Matches(rec, value)
    BY <2>1 DEF Matches, Carries
  <2>3. task' = [task EXCEPT ![t] = rec] /\ value' = value
    BY <1>5 DEF WaitStartReturns, Wake, Resume
  <2> QED BY <2>2, <2>3, MoveMatches
<1>6. CASE Unregister(t)
  <2> DEFINE rec == IF task[t].out = "consumed"
                      THEN [task[t] EXCEPT !.pc = "callbacks", !.reg = FALSE]
                      ELSE Idle
  <2>1. task' = [task EXCEPT ![t] = rec] /\ value' = value
    BY <1>6 DEF Unregister
  <2>2. CASE task[t].out = "consumed"
    <3>1. /\ rec.pc = "callbacks" /\ rec.id = task[t].id
          /\ rec.usage = task[t].usage /\ rec.keys = task[t].keys
          /\ rec.objs = task[t].objs
      BY <1>0, <2>2 DEF Task
    <3>2. Carried(task[t], value[task[t].id])
      BY <1>6, <2>2 DEF Unregister, CallsMatch, Matches, Carries
    <3> HIDE DEF rec
    <3>3. Matches(rec, value)
      BY <3>1, <3>2 DEF Matches, Carried
    <3> QED BY <2>1, <3>3, MoveMatches
  <2>3. CASE task[t].out # "consumed"
    BY <2>1, <2>3, IdleMatches, MoveMatches
  <2> QED BY <2>2, <2>3
<1>7. CASE CallbacksReturn(t) \/ Undo(t) \/ RecordReturns(t) \/ RefundCommit(t)
             \/ RefundReject(t) \/ SetMaxCommit(t)
  <2>1. task' = [task EXCEPT ![t] = Idle] /\ value' = value
    BY <1>7 DEF CallbacksReturn, Undo, RecordReturns, RefundCommit, RefundReject,
                SetMaxCommit
  <2> QED BY <2>1, IdleMatches, MoveMatches
<1> QED BY <1>1, <1>2, <1>3, <1>4, <1>5, <1>6, <1>7 DEF Progress

(* A cancelled call keeps the charge it carries matched to its marker. *)
LEMMA CancellationMatches ==
  ASSUME TypeOK, CallsMatch, NEW t \in Tasks, Cancellation(t)
  PROVE  CallsMatch'
<1>0. task[t] \in Task
  BY DEF TypeOK, CallsTyped
<1>1. CASE Interrupt(t)
  BY <1>1, LeavingMatches, MoveMatches DEF Interrupt, Raise
<1>2. CASE InterruptCallbacks(t)
  <2> DEFINE rec == [task[t] EXCEPT !.pc = "undo"]
  <2>1. task' = [task EXCEPT ![t] = rec] /\ value' = value
    BY <1>2 DEF InterruptCallbacks
  <2>2. /\ rec.pc = "undo" /\ rec.id = task[t].id
        /\ rec.usage = task[t].usage /\ rec.keys = task[t].keys
        /\ rec.objs = task[t].objs
    BY <1>0 DEF Task
  <2>3. Carried(task[t], value[task[t].id])
    BY <1>2 DEF InterruptCallbacks, CallsMatch, Matches, Carries
  <2> HIDE DEF rec
  <2>4. Matches(rec, value)
    BY <2>2, <2>3 DEF Matches, Carried
  <2> QED BY <2>1, <2>4, MoveMatches
<1> QED BY <1>1, <1>2 DEF Cancellation

(* A new id belongs to no call, and no caller holds it. *)
LEMMA NewIdMatches ==
  ASSUME Replays = {}, TypeOK, DeliveryInv, CallsMatch, NEW t \in Tasks,
         NEW r \in Ids, TakesId(r), NEW rec,
         task' = [task EXCEPT ![t] = rec], rec.pc \in {"try", "record"},
         \A q \in Ids \ {r} : value'[q] = value[q]
  PROVE  CallsMatch'
<1>1. OthersStay(t) /\ task'[t] = rec
  BY CallWritten
<1>2. \A s \in Tasks : task[s].id # r
  <2>1. r > issued
    BY DEF TakesId, TypeOK
  <2> QED BY <2>1 DEF DeliveryInv, UnissuedUnused
<1>3. ASSUME NEW s \in Tasks \ {t}
      PROVE  Matches(task[s], value')
  <2>1. Carries(task[s]) \/ task[s].pc = "refund" => task[s].id \in Ids \ {r}
    BY <1>2 DEF TypeOK, CallsTyped, Carries
  <2>2. Matches(task[s], value)
    BY DEF CallsMatch
  <2> QED BY <2>1, <2>2 DEF Matches
<1>4. Matches(rec, value')
  BY DEF Matches, Carries
<1> QED BY <1>1, <1>3, <1>4 DEF CallsMatch, OthersStay

(* A new call keeps every carried charge matched to its marker. *)
LEMMA CallMatches ==
  ASSUME Replays = {}, TypeOK, DeliveryInv, CallsMatch, NEW t \in Tasks, Call(t)
  PROVE  CallsMatch'
<1>1. ASSUME NEW r \in Ids, NEW u \in Usages, AwaitCall(t, r, u)
      PROVE  CallsMatch'
  <2> DEFINE rec == [Idle EXCEPT !.pc = "try", !.id = r, !.usage = u,
                                 !.keys = ActiveMetrics]
  <2>1. task' = [task EXCEPT ![t] = rec] /\ value' = value /\ TakesId(r)
    BY <1>1 DEF AwaitCall
  <2>2. rec.pc = "try"
    BY DEF Idle
  <2> HIDE DEF rec
  <2> QED BY <2>1, <2>2, NewIdMatches
<1>2. ASSUME NEW r \in Ids, NEW u \in Usages, Record(t, r, u)
      PROVE  CallsMatch'
  <2> DEFINE rec == [Idle EXCEPT !.pc = "record", !.id = r]
  <2>1. task' = [task EXCEPT ![t] = rec] /\ TakesId(r)
    BY <1>2 DEF Record
  <2>2. rec.pc = "record"
    BY DEF Idle
  <2>3. \A q \in Ids \ {r} : value'[q] = value[q]
    BY <1>2 DEF Record, TypeOK
  <2> HIDE DEF rec
  <2> QED BY <2>1, <2>2, <2>3, NewIdMatches
<1>3. ASSUME NEW r \in Ids, NEW a \in Actuals, RefundCall(t, r, a)
      PROVE  CallsMatch'
  <2> DEFINE rec == [Idle EXCEPT !.pc = "refund", !.id = r, !.usage = a,
                                 !.keys = value[r].keys,
                                 !.scope = value[r].scope \cap active]
  <2>1. task' = [task EXCEPT ![t] = rec] /\ value' = value
    BY <1>3 DEF RefundCall
  <2>2. /\ rec.pc = "refund" /\ rec.id = r /\ rec.keys = value[r].keys
        /\ rec.scope = value[r].scope \cap active
    BY DEF Idle
  <2> HIDE DEF rec
  <2>3. Matches(rec, value)
    BY <2>2 DEF Matches, Carries, Asked
  <2> QED BY <2>1, <2>3, MoveMatches
<1>4. ASSUME NEW b \in Buckets, NEW limit \in Limits, SetMaxCall(t, b, limit)
      PROVE  CallsMatch'
  <2> DEFINE rec == [Idle EXCEPT !.pc = "set_max", !.objs = {<<b, gen[b]>>},
                                 !.limit = limit]
  <2>1. task' = [task EXCEPT ![t] = rec] /\ value' = value
    BY <1>4 DEF SetMaxCall
  <2>2. rec.pc = "set_max"
    BY DEF Idle
  <2> HIDE DEF rec
  <2>3. Matches(rec, value)
    BY <2>2 DEF Matches, Carries
  <2> QED BY <2>1, <2>3, MoveMatches
<1> QED BY <1>1, <1>2, <1>3, <1>4 DEF Call

(* Every step keeps the charges of the calls matched to their markers. *)
LEMMA MatchStep ==
  ASSUME Replays = {}, TypeOK, DeliveryInv, CallsMatch, NoneRebuilt, ScopesBuilt,
         [Next]_vars
  PROVE  CallsMatch'
<1>1. ASSUME NEW t \in Tasks, Progress(t) \/ Cancellation(t) \/ Call(t)
      PROVE  CallsMatch'
  BY <1>1, ProgressMatches, CancellationMatches, CallMatches
<1>2. ASSUME task' = task, value' = value
      PROVE  CallsMatch'
  BY <1>2 DEF CallsMatch
<1>3. ASSUME NEW cfg \in Configs, Reconfigure(cfg)
      PROVE  CallsMatch'
  BY <1>2, <1>3 DEF Reconfigure
<1>4. CASE Tick \/ ClockSetBack \/ UNCHANGED vars
  BY <1>2, <1>4 DEF Tick, ClockSetBack, vars
<1> QED BY <1>1, <1>3, <1>4 DEF Next

(* A bucket that goes has been built, and a charge names only buckets that *)
(* were installed when it was made.                                        *)
LEMMA BuiltStep ==
  ASSUME TypeOK, ScopesBuilt, [Next]_vars
  PROVE  ScopesBuilt'
<1>1. ASSUME NEW r \in Ids, NEW v, v.scope = active, gen' = gen,
             active' = active, live' = live \cup {r},
             value' = [value EXCEPT ![r] = v]
      PROVE  ScopesBuilt'
  <2>1. value'[r] = v /\ \A q \in Ids \ {r} : value'[q] = value[q]
    BY <1>1 DEF TypeOK
  <2>2. live \subseteq Ids /\ active \subseteq Buckets
    BY DEF TypeOK
  <2> QED BY <1>1, <2>1, <2>2 DEF ScopesBuilt
<1>2. ASSUME live' \subseteq live, value' = value, gen' = gen, active' = active
      PROVE  ScopesBuilt'
  BY <1>2 DEF ScopesBuilt
<1>3. ASSUME NEW t \in Tasks, Progress(t) \/ Cancellation(t)
      PROVE  ScopesBuilt'
  <2>1. CASE TryConsume(t)
    <3>1. task[t].id \in Ids
      BY <2>1 DEF TryConsume, Tryable, TypeOK, CallsTyped
    <3>2. MarkerValue(t).scope = active
      BY DEF MarkerValue
    <3> QED BY <1>1, <2>1, <3>1, <3>2 DEF TryConsume
  <2>2. CASE ~ TryConsume(t)
    <3>1. live' \subseteq live /\ value' = value /\ gen' = gen /\ active' = active
      BY <1>3, <2>2
         DEF Progress, Cancellation, TryReplay, TryReject, Raise, TryWait,
             WaitStartReturns, Wake, Resume, Unregister, CallbacksReturn, Undo,
             RecordReturns, RefundCommit, RefundReject, SetMaxCommit, Interrupt,
             InterruptCallbacks
    <3> QED BY <1>2, <3>1
  <2> QED BY <2>1, <2>2
<1>4. ASSUME NEW t \in Tasks, Call(t)
      PROVE  ScopesBuilt'
  <2>1. ASSUME NEW r \in Ids, NEW u \in Usages, Record(t, r, u)
        PROVE  ScopesBuilt'
    <3> DEFINE v == [scope |-> active, usage |-> u, keys |-> ActiveMetrics]
    <3>1. v.scope = active
      OBVIOUS
    <3>2. \/ live' = live /\ value' = value
          \/ live' = live \cup {r} /\ value' = [value EXCEPT ![r] = v]
      BY <2>1 DEF Record
    <3>3. gen' = gen /\ active' = active
      BY <2>1 DEF Record
    <3> HIDE DEF v
    <3> QED BY <1>1, <1>2, <3>1, <3>2, <3>3
  <2>2. ASSUME NEW r \in Ids, NEW u \in Usages, AwaitCall(t, r, u)
        PROVE  ScopesBuilt'
    BY <1>2, <2>2 DEF AwaitCall
  <2>3. ASSUME NEW r \in Ids, NEW a \in Actuals, RefundCall(t, r, a)
        PROVE  ScopesBuilt'
    BY <1>2, <2>3 DEF RefundCall
  <2>4. ASSUME NEW b \in Buckets, NEW limit \in Limits, SetMaxCall(t, b, limit)
        PROVE  ScopesBuilt'
    BY <1>2, <2>4 DEF SetMaxCall
  <2> QED BY <1>4, <2>1, <2>2, <2>3, <2>4 DEF Call
<1>5. ASSUME NEW cfg \in Configs, Reconfigure(cfg)
      PROVE  ScopesBuilt'
  <2>1. live' = live /\ value' = value /\ active' = DOMAIN cfg
    BY <1>5 DEF Reconfigure
  <2>2. \A b \in Buckets : gen[b] \in Nat /\ gen'[b] \in Nat
                           /\ (gen[b] # 0 => gen'[b] # 0)
                           /\ (b \in DOMAIN cfg \ active => gen'[b] # 0)
                           /\ (b \notin DOMAIN cfg \ active => gen'[b] = gen[b])
    BY <1>5 DEF Reconfigure, TypeOK
  <2>3. DOMAIN cfg \subseteq Buckets
    BY ShapeAssumption
  <2> QED BY <2>1, <2>2, <2>3 DEF ScopesBuilt
<1>6. CASE Tick \/ ClockSetBack \/ UNCHANGED vars
  BY <1>2, <1>6 DEF Tick, ClockSetBack, vars
<1> QED BY <1>3, <1>4, <1>5, <1>6 DEF Next


-----------------------------------------------------------------------------
(* The inductive invariant: what a call will undo or refund is what the    *)
(* marker of its charge says, so an account never falls below the charges  *)
(* that are open against it.                                               *)
AccountTyped == account \in [Buckets -> Int]

ChargeInv == /\ TypeOK /\ DeliveryInv /\ CallsMatch /\ ScopesBuilt
             /\ AccountTyped
             /\ OpenChargesAreHeld

(* The property in terms of what is owed. *)
LEMMA HeldIsOwed == OpenChargesAreHeld <=> \A b \in active : Owed(b) <= account[b]
BY DEF OpenChargesAreHeld, Owed, Open

(* The same in the next state. *)
LEMMA HeldIsOwedNext ==
  OpenChargesAreHeld' <=> \A b \in active' : Owed(b)' <= account'[b]
BY DEF OpenChargesAreHeld, Owed, Open

(* An account that holds the open charges is not overdrawn. *)
LEMMA AccountHolds ==
  ASSUME TypeOK, AccountTyped, OpenChargesAreHeld, NEW b \in active
  PROVE  /\ b \in Buckets /\ account[b] \in Int /\ Owed(b) \in Nat
         /\ Owed(b) <= account[b] /\ 0 <= account[b]
<1>1. b \in Buckets /\ account[b] \in Int
  BY DEF TypeOK, AccountTyped
<1> DEFINE a == Takes(value, b)
<1>2. Owed(b) = Total(a, Open(b)) /\ IsFiniteSet(Open(b))
  BY <1>1, OwedTotal
<1>3. \A r \in Open(b) : a[r] \in Nat
  BY <1>1, OwedTotal
<1> HIDE DEF a
<1>4. Owed(b) \in Nat
  BY <1>2, <1>3, TotalNat
<1>5. Owed(b) <= account[b]
  BY HeldIsOwed
<1> QED BY <1>1, <1>4, <1>5

(* Steps that leave the markers and the accounts alone *)
LEMMA StaysHeld ==
  ASSUME ChargeInv, TypeOK', live' = live, value' = value, active' = active,
         account' = account
  PROVE  AccountTyped' /\ OpenChargesAreHeld'
<1>1. AccountTyped'
  BY DEF ChargeInv, AccountTyped
<1>2. ASSUME NEW b \in active PROVE Owed(b)' <= account'[b]
  <2>1. b \in Buckets /\ Owed(b) <= account[b]
    BY AccountHolds DEF ChargeInv
  <2>2. Owed(b)' = Owed(b)
    BY <2>1, OwedStays DEF ChargeInv
  <2> QED BY <2>1, <2>2
<1>3. OpenChargesAreHeld'
  BY <1>2, HeldIsOwedNext
<1> QED BY <1>1, <1>3

(* An acquire or a record writes its charge to the account and the marker  *)
(* alike.                                                                  *)
LEMMA ChargeIsHeld ==
  ASSUME ChargeInv, TypeOK', NEW r \in Ids, r \notin live, NEW v,
         v.scope = active, v.usage \in [Metrics -> Nat],
         live' = live \cup {r}, value' = [value EXCEPT ![r] = v],
         active' = active,
         account' = [b \in Buckets |->
                       IF b \in active THEN account[b] + Take(b, v.usage, v.keys)
                                       ELSE account[b]]
  PROVE  AccountTyped' /\ OpenChargesAreHeld'
<1>1. \A b \in Buckets : Take(b, v.usage, v.keys) \in Nat
  BY TakeType
<1>2. AccountTyped'
  BY <1>1 DEF ChargeInv, AccountTyped
<1>3. ASSUME NEW b \in active PROVE Owed(b)' <= account'[b]
  <2>1. /\ b \in Buckets /\ Owed(b) <= account[b]
        /\ account[b] \in Int /\ Owed(b) \in Nat
    BY AccountHolds DEF ChargeInv
  <2>2. Owed(b)' = Owed(b) + Take(b, v.usage, v.keys)
    BY <2>1, OwedRises DEF ChargeInv
  <2>3. account'[b] = account[b] + Take(b, v.usage, v.keys)
    BY <2>1
  <2> QED BY <1>1, <2>1, <2>2, <2>3
<1>4. OpenChargesAreHeld'
  BY <1>3, HeldIsOwedNext
<1> QED BY <1>2, <1>4

(* await_for_capacity enters its charge in the account it owes it to. *)
LEMMA ConsumeHeld ==
  ASSUME ChargeInv, TypeOK', NEW t \in Tasks, AccountConsume(t)
  PROVE  AccountTyped' /\ OpenChargesAreHeld'
<1> DEFINE v == MarkerValue(t)
           r == task[t].id
<1>1. r \in Ids /\ r \notin live
  BY DEF AccountConsume, TryConsume, Tryable, IsReplay, IsDuplicate, ChargeInv,
         TypeOK, CallsTyped
<1>2. /\ v.scope = active /\ v.usage = task[t].usage /\ v.keys = task[t].keys
      /\ task[t].usage \in [Metrics -> Nat]
  BY DEF MarkerValue, ChargeInv, TypeOK, CallsTyped, Task
<1>3. /\ live' = live \cup {r} /\ value' = [value EXCEPT ![r] = v]
      /\ active' = active
  BY DEF AccountConsume, TryConsume
<1>4. account' = [b \in Buckets |-> IF b \in active
                    THEN account[b] + Take(b, task[t].usage, task[t].keys)
                    ELSE account[b]]
  BY DEF AccountConsume, Post
<1> HIDE DEF v
<1>5. account' = [b \in Buckets |-> IF b \in active
                    THEN account[b] + Take(b, v.usage, v.keys)
                    ELSE account[b]]
  BY <1>2, <1>4
<1> HIDE DEF r
<1> QED BY <1>1, <1>2, <1>3, <1>5, ChargeIsHeld

(* record_usage enters its charge in the account; a replay enters nothing. *)
LEMMA RecordHeld ==
  ASSUME ChargeInv, TypeOK', NEW t \in Tasks, NEW r \in Ids, NEW u \in Usages,
         AccountRecord(t, r, u)
  PROVE  AccountTyped' /\ OpenChargesAreHeld'
<1> DEFINE v == [scope |-> active, usage |-> u, keys |-> ActiveMetrics]
<1>0. active' = active
  BY DEF AccountRecord, Record
<1>1. CASE r \in live
  <2>1. IsReplay(r, v)
    BY <1>1 DEF AccountRecord, Record, IsReplay, IsDuplicate
  <2>2. live' = live /\ value' = value
    BY <2>1 DEF AccountRecord, Record
  <2>3. account' = account
    BY <1>1 DEF AccountRecord, Quiet, history
  <2> QED BY <1>0, <2>2, <2>3, StaysHeld
<1>2. CASE r \notin live
  <2>1. ~ IsReplay(r, v)
    BY <1>2 DEF IsReplay
  <2>2. /\ v.scope = active /\ v.usage = u /\ v.keys = ActiveMetrics
        /\ u \in [Metrics -> Nat]
    BY ShapeAssumption
  <2>3. live' = live \cup {r} /\ value' = [value EXCEPT ![r] = v]
    BY <2>1 DEF AccountRecord, Record
  <2>4. account' = [b \in Buckets |-> IF b \in active
                      THEN account[b] + Take(b, u, ActiveMetrics)
                      ELSE account[b]]
    BY <1>2 DEF AccountRecord, Post
  <2> HIDE DEF v
  <2>5. account' = [b \in Buckets |-> IF b \in active
                      THEN account[b] + Take(b, v.usage, v.keys)
                      ELSE account[b]]
    BY <2>2, <2>4
  <2> QED BY <1>0, <1>2, <2>2, <2>3, <2>5, ChargeIsHeld
<1> QED BY <1>1, <1>2

(* The cleanup of a cancelled acquire gives back exactly its charge, to    *)
(* exactly the buckets it was taken from.                                  *)
LEMMA UndoHeld ==
  ASSUME Replays = {}, ChargeInv, NoneRebuilt, TypeOK', NEW t \in Tasks,
         AccountUndo(t)
  PROVE  AccountTyped' /\ OpenChargesAreHeld'
<1> DEFINE r == task[t].id
           take(b) == Take(b, task[t].usage, task[t].keys)
<1>0. task[t].pc = "undo" /\ live' = live \ {r} /\ value' = value
      /\ active' = active
  BY DEF AccountUndo, Undo
<1>1. r \in live
  BY <1>0 DEF ChargeInv, DeliveryInv, OwnerCharges, Owns, Charging, HasCharged,
              TypeOK, CallsTyped
<1>2. Carried(task[t], value[r])
  BY <1>0 DEF ChargeInv, CallsMatch, Matches, Carries
<1>3. account' = [b \in Buckets |-> IF b \in Reachable(t)
                    THEN account[b] + (- take(b)) ELSE account[b]]
  BY DEF AccountUndo, Post
<1>4. \A b \in Buckets : take(b) \in Nat
  <2>1. task[t].usage \in [Metrics -> Nat]
    BY DEF ChargeInv, TypeOK, CallsTyped, Task
  <2> QED BY <2>1, TakeType
<1>5. AccountTyped'
  BY <1>3, <1>4 DEF ChargeInv, AccountTyped
<1>6. ASSUME NEW b \in active PROVE Owed(b)' <= account'[b]
  <2>1. /\ b \in Buckets /\ Owed(b) <= account[b]
        /\ account[b] \in Int /\ Owed(b) \in Nat
    BY AccountHolds DEF ChargeInv
  <2>2. gen[b] = 1
    BY <2>1 DEF ChargeInv, TypeOK, ScopesBuilt, NoneRebuilt
  <2>3. b \in Reachable(t) <=> b \in value[r].scope
    BY <1>2, <2>1, <2>2 DEF Carried, Reachable
  <2>4. Charge(r, b) = take(b)
    BY <1>2 DEF Carried, Charge
  <2>5. /\ b \in value[r].scope => Owed(b) = Owed(b)' + Charge(r, b)
        /\ b \notin value[r].scope => Owed(b)' = Owed(b)
        /\ Owed(b)' \in Nat
    BY <1>0, <1>1, <2>1, OwedFalls DEF ChargeInv
  <2>6. take(b) \in Nat
    BY <1>4, <2>1
  <2>7. account'[b] = IF b \in Reachable(t) THEN account[b] + (- take(b))
                                            ELSE account[b]
    BY <1>3, <2>1
  <2> HIDE DEF take, r
  <2>8. CASE b \in Reachable(t)
    BY <2>1, <2>3, <2>4, <2>5, <2>6, <2>7, <2>8
  <2>9. CASE b \notin Reachable(t)
    BY <2>1, <2>3, <2>5, <2>7, <2>9
  <2> QED BY <2>8, <2>9
<1>7. OpenChargesAreHeld'
  BY <1>0, <1>6, HeldIsOwedNext
<1> QED BY <1>5, <1>7

(* A refund gives back no more than the charge it closes, to buckets it    *)
(* was taken from.                                                         *)
LEMMA RefundHeld ==
  ASSUME ChargeInv, TypeOK', NEW t \in Tasks, AccountRefund(t)
  PROVE  AccountTyped' /\ OpenChargesAreHeld'
<1> DEFINE r == task[t].id
           spent(b) == Take(b, task[t].usage, task[t].keys)
<1>0. /\ task[t].pc = "refund" /\ r \in live /\ live' = live \ {r}
      /\ value' = value /\ active' = active
  BY DEF AccountRefund, RefundCommit
<1>1. Asked(task[t], value[r])
  BY <1>0 DEF ChargeInv, CallsMatch, Matches
<1>2. account' = [b \in Buckets |-> IF b \in active \cap task[t].scope
                    THEN account[b] + (- RefundAmount(t, b)) ELSE account[b]]
  BY DEF AccountRefund, Post
<1>3. \A b \in Buckets : spent(b) \in Nat
  <2>1. task[t].usage \in [Metrics -> Nat]
    BY DEF ChargeInv, TypeOK, CallsTyped, Task
  <2> QED BY <2>1, TakeType
<1>4. \A b \in Buckets : Charge(r, b) \in Nat
  <2>1. r \in Ids /\ value[r].usage \in [Metrics -> Nat]
    BY <1>0 DEF ChargeInv, TypeOK, Value
  <2> QED BY <2>1, TakeType DEF Charge
<1>5. \A b \in Buckets : RefundAmount(t, b) = Charge(r, b) - spent(b)
  BY <1>1 DEF Asked, RefundAmount, Charge
<1> HIDE DEF r, spent
<1>6. AccountTyped'
  BY <1>2, <1>3, <1>4, <1>5 DEF ChargeInv, AccountTyped
<1>7. ASSUME NEW b \in active PROVE Owed(b)' <= account'[b]
  <2>1. /\ b \in Buckets /\ Owed(b) <= account[b]
        /\ account[b] \in Int /\ Owed(b) \in Nat
    BY AccountHolds DEF ChargeInv
  <2>2. /\ b \in value[r].scope => Owed(b) = Owed(b)' + Charge(r, b)
        /\ b \notin value[r].scope => Owed(b)' = Owed(b)
        /\ Owed(b)' \in Nat
    BY <1>0, <2>1, OwedFalls DEF ChargeInv
  <2>3. b \in task[t].scope => b \in value[r].scope
    BY <1>1 DEF Asked
  <2>4. spent(b) \in Nat /\ Charge(r, b) \in Nat
    BY <1>3, <1>4, <2>1
  <2>5. account'[b] = IF b \in task[t].scope
                        THEN account[b] + (- (Charge(r, b) - spent(b)))
                        ELSE account[b]
    BY <1>2, <1>5, <2>1
  <2>6. CASE b \in task[t].scope
    BY <2>1, <2>2, <2>3, <2>4, <2>5, <2>6
  <2>7. CASE b \notin task[t].scope
    BY <2>1, <2>2, <2>4, <2>5, <2>7
  <2> QED BY <2>6, <2>7
<1>8. OpenChargesAreHeld'
  BY <1>0, <1>7, HeldIsOwedNext
<1> QED BY <1>6, <1>8

(* A bucket that is built for the first time has no charges, and one that  *)
(* stays keeps its account.                                                *)
LEMMA ReconfigureHeld ==
  ASSUME ChargeInv, TypeOK', NoneRebuilt', NEW cfg \in Configs,
         AccountReconfigure(cfg)
  PROVE  AccountTyped' /\ OpenChargesAreHeld'
<1>0. live' = live /\ value' = value /\ active' = DOMAIN cfg
  BY DEF AccountReconfigure, Reconfigure
<1>1. account' = [b \in Buckets |-> IF b \in active \cap DOMAIN cfg
                                      THEN account[b] ELSE 0]
  BY DEF AccountReconfigure
<1>2. AccountTyped'
  BY <1>1 DEF ChargeInv, AccountTyped
<1>3. ASSUME NEW b \in DOMAIN cfg PROVE Owed(b)' <= account'[b]
  <2>0. b \in Buckets
    BY ShapeAssumption
  <2>1. Owed(b)' = Owed(b)
    BY <1>0, <2>0, OwedStays DEF ChargeInv
  <2>2. CASE b \in active
    <3>1. Owed(b) <= account[b]
      BY <2>2, AccountHolds DEF ChargeInv
    <3> QED BY <1>1, <2>0, <2>1, <2>2, <3>1
  <2>3. CASE b \notin active
    <3>1. gen'[b] = gen[b] + 1 /\ gen[b] \in Nat /\ gen'[b] <= 1
      BY <2>0, <2>3 DEF AccountReconfigure, Reconfigure, NoneRebuilt, ChargeInv,
                        TypeOK
    <3>2. gen[b] = 0
      BY <3>1
    <3>3. Open(b) = {}
      BY <3>2 DEF ChargeInv, ScopesBuilt, Open
    <3>4. Owed(b) = 0
      <4>1. Owed(b) = Total(Takes(value, b), {}) /\ IsFiniteSet({})
        BY <2>0, <3>3, OwedTotal DEF ChargeInv
      <4> QED BY <4>1, TotalPicks
    <3>5. account'[b] = 0
      BY <1>1, <2>0, <2>3
    <3> QED BY <2>1, <3>4, <3>5
  <2> QED BY <2>2, <2>3
<1>4. OpenChargesAreHeld'
  BY <1>0, <1>3, HeldIsOwedNext
<1> QED BY <1>2, <1>4

(* Every step keeps the charges held. *)
LEMMA HeldStep ==
  ASSUME Replays = {}, ChargeInv, NoneRebuilt, NoneRebuilt',
         [AccountingNext]_allvars
  PROVE  ChargeInv'
<1>0. TypeOK' /\ DeliveryInv' /\ CallsMatch' /\ ScopesBuilt'
  BY AccountedStep, NextType, DeliveryStep, MatchStep, BuiltStep DEF ChargeInv
<1>1. ASSUME NEW t \in Tasks,
             (QuietProgress(t) \/ Cancellation(t) \/ QuietCall(t)) /\ Quiet
      PROVE  AccountTyped' /\ OpenChargesAreHeld'
  <2>0. account' = account
    BY <1>1 DEF Quiet, history
  <2>1. QuietProgress(t) => live' = live /\ value' = value /\ active' = active
    BY DEF QuietProgress, TryReplay, TryReject, Raise, TryWait,
           WaitStartReturns, Wake, Resume, Unregister, CallbacksReturn,
           RecordReturns, RefundReject
  <2>2. Cancellation(t) => live' = live /\ value' = value /\ active' = active
    BY DEF Cancellation, Interrupt, Raise, InterruptCallbacks
  <2>3. QuietCall(t) => live' = live /\ value' = value /\ active' = active
    BY DEF QuietCall, AwaitCall, RefundCall, SetMaxCall
  <2> QED BY <1>0, <1>1, <2>0, <2>1, <2>2, <2>3, StaysHeld
<1>2. ASSUME NEW t \in Tasks,
             AccountConsume(t) \/ AccountUndo(t) \/ AccountRefund(t)
      PROVE  AccountTyped' /\ OpenChargesAreHeld'
  BY <1>0, <1>2, ConsumeHeld, UndoHeld, RefundHeld
<1>3. ASSUME NEW t \in Tasks, NEW r \in Ids, NEW u \in Usages, AccountRecord(t, r, u)
      PROVE  AccountTyped' /\ OpenChargesAreHeld'
  BY <1>0, <1>3, RecordHeld
<1>4. ASSUME NEW cfg \in Configs, AccountReconfigure(cfg)
      PROVE  AccountTyped' /\ OpenChargesAreHeld'
  BY <1>0, <1>4, ReconfigureHeld
<1>5. ASSUME NEW t \in Tasks, AccountSetMax(t)
      PROVE  AccountTyped' /\ OpenChargesAreHeld'
  <2>1. live' = live /\ value' = value /\ active' = active /\ account' = account
    BY <1>5 DEF AccountSetMax, SetMaxCommit
  <2> QED BY <1>0, <2>1, StaysHeld
<1>6. CASE AccountTick \/ (ClockSetBack /\ Quiet) \/ UNCHANGED allvars
  <2>1. live' = live /\ value' = value /\ active' = active /\ account' = account
    BY <1>6 DEF AccountTick, Tick, ClockSetBack, Quiet, history, allvars, vars
  <2> QED BY <1>0, <2>1, StaysHeld DEF ChargeInv
<1> QED BY <1>0, <1>1, <1>2, <1>3, <1>4, <1>5, <1>6 DEF AccountingNext, ChargeInv

(* Nothing is owed at the start. *)
LEMMA HeldInit == AccountingInit => ChargeInv
<1> SUFFICES ASSUME AccountingInit PROVE ChargeInv
  OBVIOUS
<1>1. Init /\ TypeOK /\ DeliveryInv
  BY InitType, DeliveryInit DEF AccountingInit
<1>2. CallsMatch
  BY <1>1, IdleMatches DEF Init, CallsMatch
<1>3. ScopesBuilt
  BY <1>1 DEF Init, ScopesBuilt, TypeOK
<1>4. AccountTyped
  BY DEF AccountingInit, AccountTyped
<1>5. ASSUME NEW b \in active PROVE Owed(b) <= account[b]
  <2>1. b \in Buckets /\ account[b] = 0
    BY <1>1 DEF AccountingInit, TypeOK
  <2>2. Open(b) = {}
    BY <1>1 DEF Init, Open
  <2>3. Owed(b) = Total(Takes(value, b), {}) /\ IsFiniteSet({})
    BY <1>1, <2>1, <2>2, OwedTotal
  <2>4. Owed(b) = 0
    BY <2>3, TotalPicks
  <2> QED BY <2>1, <2>4
<1>6. OpenChargesAreHeld
  BY <1>5, HeldIsOwed
<1> QED BY <1>1, <1>2, <1>3, <1>4, <1>6 DEF ChargeInv

(* Whatever is refunded, undone or rejected, and in whatever order, each   *)
(* bucket's account covers the open charges that were taken from it, as    *)
(* long as ids are used once (the limiter draws them with uuid4) and no    *)
(* bucket id that went is built anew: MCMemoryReadded shows what an old    *)
(* charge may do to a new bucket.                                          *)
THEOREM OpenChargesStayHeld ==
  ASSUME Replays = {}
  PROVE  AccountingSpec /\ []NoneRebuilt => []OpenChargesAreHeld
<1>1. AccountingInit => ChargeInv
  BY HeldInit
<1>2. ChargeInv /\ NoneRebuilt /\ NoneRebuilt' /\ [AccountingNext]_allvars
        => ChargeInv'
  BY HeldStep
<1>3. ChargeInv => OpenChargesAreHeld
  BY DEF ChargeInv
<1> QED BY <1>1, <1>2, <1>3, PTL DEF AccountingSpec


-----------------------------------------------------------------------------
(* Capacity does not leak. *)

KnownLimits == Limits \cup UNION {Range(c) : c \in Configs}

(* A set of numbers of which one is known has a smallest. *)
LEMMA LeastExists ==
  ASSUME NEW S, S \subseteq Nat, NEW k \in S
  PROVE  Min(S) \in S /\ \A x \in S : Min(S) <= x
<1> DEFINE T == {1 .. n : n \in {m \in S : m <= k}}
<1>1. IsFiniteSet(1 .. k)
  BY FS_Interval
<1>2. T \subseteq SUBSET (1 .. k)
  OBVIOUS
<1>3. T # {}
  <2>1. 1 .. k \in T
    OBVIOUS
  <2> QED BY <2>1
<1> DEFINE U == 1 .. k
<1> HIDE DEF T, U
<1>0. IsFiniteSet(U) /\ T \subseteq SUBSET U
  BY <1>1, <1>2 DEF U
<1>4. PICK X \in T : \A Y \in T : Y \subseteq X => Y = X
  BY <1>0, <1>3, MinimalSet
<1>5. PICK n \in S : n <= k /\ X = 1 .. n
  BY <1>4 DEF T
<1>6. ASSUME NEW x \in S PROVE n <= x
  <2>1. CASE x <= n
    <3>1. x <= k /\ 1 .. x \in T /\ 1 .. x \subseteq 1 .. n
      BY <1>5, <2>1 DEF T
    <3>2. 1 .. x = 1 .. n
      BY <1>4, <1>5, <3>1
    <3>3. x = n
      <4>1. x \in Nat /\ n \in Nat
        OBVIOUS
      <4>2. CASE n = 0
        BY <2>1, <4>1, <4>2
      <4>3. CASE n # 0
        <5>1. n \in 1 .. n
          BY <4>1, <4>3
        <5>2. n \in 1 .. x
          BY <3>2, <5>1
        <5> QED BY <2>1, <4>1, <5>2
      <4> QED BY <4>2, <4>3
    <3> QED BY <3>3
  <2>2. CASE ~ (x <= n)
    BY <2>2
  <2> QED BY <2>1, <2>2
<1> QED BY <1>5, <1>6 DEF Min

(* Every limit is at least the smallest, and a window at least a window of *)
(* the smallest.                                                           *)
LEMMA SmallestWindow ==
  ASSUME NEW k \in KnownLimits, NEW b \in Buckets
  PROVE  /\ Scaled(b, SmallestLimit) \in Nat
         /\ Scaled(b, k) \in Nat
         /\ Scaled(b, SmallestLimit) <= Scaled(b, k)
<1>1. KnownLimits \subseteq Nat
  <2>1. ASSUME NEW c \in Configs PROVE Range(c) \subseteq Nat
    <3>1. \A x \in DOMAIN c : c[x] \in Nat
      BY ShapeAssumption
    <3>2. Range(c) = {c[x] : x \in DOMAIN c}
      BY DEF Range
    <3> QED BY <3>1, <3>2
  <2>2. Limits \subseteq Nat
    BY ShapeAssumption
  <2> QED BY <2>1, <2>2 DEF KnownLimits
<1>2. SmallestLimit \in Nat /\ SmallestLimit <= k /\ k \in Nat
  BY <1>1, LeastExists DEF SmallestLimit, KnownLimits
<1>3. PerSeconds[b] \in Nat
  BY ShapeAssumption
<1>4. \A x, y \in Nat : x * y \in Nat
  OBVIOUS
<1>5. SmallestLimit * PerSeconds[b] <= k * PerSeconds[b]
  BY <1>2, <1>3, MoreRefill
<1> QED BY <1>2, <1>3, <1>4, <1>5 DEF Scaled

(* Installed buckets have limits somebody configured or set. *)
LimitsKnown == \A b \in active : bucket[b].max \in KnownLimits

(* The stored part of what NothingLost promises: unlike what a reader      *)
(* sees, it does not shrink when the clock is set back.                    *)
StoredKept ==
  \A b \in active : ~ bucket[b].fresh =>
    Scaled(b, SmallestLimit) - account[b] <= bucket[b].cap

KeepInv == ChargeInv /\ LimitsKnown /\ StoredKept

(* A refill never lowers a level. *)
LEMMA RefillAdds ==
  ASSUME NEW bk \in BucketState
  PROVE  bk.cap <= Uncapped(bk)
<1>1. bk.cap \in Int /\ bk.max \in Nat /\ TimePassed(bk) \in Nat
  BY DEF BucketState, TimePassed, Greater
<1> DEFINE refill == TimePassed(bk) * bk.max
<1>2. refill \in Nat
  BY <1>1
<1>3. Uncapped(bk) = bk.cap + refill
  BY DEF Uncapped
<1> HIDE DEF refill
<1> QED BY <1>1, <1>2, <1>3

(* What a reader sees is at least what is stored, and a full window of the *)
(* limit in force at most.                                                 *)
LEMMA KeptIsVisible ==
  ASSUME TypeOK, AccountTyped, OpenChargesAreHeld, LimitsKnown, StoredKept,
         NEW b \in active
  PROVE  /\ b \in Buckets /\ bucket[b] \in BucketState
         /\ Avail(b) \in Int /\ Window(b) \in Nat /\ account[b] \in Int
         /\ 0 <= account[b]
         /\ Scaled(b, SmallestLimit) \in Nat
         /\ Scaled(b, SmallestLimit) <= Window(b)
         /\ Scaled(b, SmallestLimit) - account[b] <= Avail(b)
<1>1. b \in Buckets /\ account[b] \in Int /\ 0 <= account[b]
  BY AccountHolds
<1>2. bucket[b] \in BucketState /\ Avail(b) \in Int
  BY <1>1, StateReads DEF TypeOK
<1>3. /\ Scaled(b, SmallestLimit) \in Nat /\ Window(b) \in Nat
      /\ Scaled(b, SmallestLimit) <= Window(b)
  BY <1>1, SmallestWindow DEF LimitsKnown, Window
<1>4. /\ bucket[b].fresh \in BOOLEAN /\ bucket[b].cap \in Int
      /\ Uncapped(bucket[b]) \in Int
      /\ bucket[b].max \in Nat /\ bucket[b].elapsed \in Int
  BY <1>2, ReadType DEF BucketState
<1>5. CASE bucket[b].fresh
  <2>1. Avail(b) = Window(b)
    BY <1>5 DEF Avail, calculate_capacity, Window, Scaled
  <2> QED BY <1>1, <1>2, <1>3, <2>1
<1>6. CASE ~ bucket[b].fresh
  <2>1. Avail(b) = Lesser(Window(b), Uncapped(bucket[b]))
    BY <1>6 DEF Avail, calculate_capacity, Window, Scaled
  <2>4. bucket[b].cap <= Uncapped(bucket[b])
    BY <1>2, RefillAdds
  <2>5. Scaled(b, SmallestLimit) - account[b] <= bucket[b].cap
    BY <1>6 DEF StoredKept
  <2>6. Scaled(b, SmallestLimit) - account[b] <= Window(b)
    BY <1>1, <1>3
  <2>7. Scaled(b, SmallestLimit) - account[b] <= Uncapped(bucket[b])
    BY <1>1, <1>3, <1>4, <2>4, <2>5
  <2> QED BY <1>1, <1>2, <1>3, <2>1, <2>6, <2>7 DEF Lesser
<1> QED BY <1>1, <1>2, <1>3, <1>5, <1>6


(* The same account, read after the step *)
LEMMA AccountHoldsNext ==
  ASSUME TypeOK', AccountTyped', OpenChargesAreHeld', NEW b \in active'
  PROVE  b \in Buckets /\ account'[b] \in Int /\ 0 <= account'[b]
<1>1. b \in Buckets /\ account'[b] \in Int
  BY DEF TypeOK, AccountTyped
<1> DEFINE a == Takes(value', b)
           X == Open(b)'
<1>2. Owed(b)' = Total(a, X) /\ IsFiniteSet(X)
  BY <1>1, OwedTotalNext
<1>3. \A r \in X : a[r] \in Nat
  BY <1>1, OwedTotalNext
<1> HIDE DEF a, X
<1>4. Owed(b)' \in Nat
  BY <1>2, <1>3, TotalNat
<1>5. Owed(b)' <= account'[b]
  BY HeldIsOwedNext
<1> QED BY <1>1, <1>4, <1>5

(* A step that writes the buckets bs and leaves enough in each *)
LEMMA WrittenKept ==
  ASSUME KeepInv, NEW bs, bs \subseteq active, NEW w,
         \A b \in bs : /\ w[b].max = bucket[b].max
                       /\ Scaled(b, SmallestLimit) - account'[b] <= w[b].cap,
         bucket' = [b \in Buckets |-> IF b \in bs THEN w[b] ELSE bucket[b]],
         \A b \in active \ bs : account'[b] = account[b],
         active' = active
  PROVE  LimitsKnown' /\ StoredKept'
<1>1. \A b \in active : bucket'[b] = IF b \in bs THEN w[b] ELSE bucket[b]
  BY DEF KeepInv, ChargeInv, TypeOK
<1>2. LimitsKnown'
  BY <1>1 DEF KeepInv, LimitsKnown
<1>3. ASSUME NEW b \in active, ~ bucket'[b].fresh
      PROVE  Scaled(b, SmallestLimit) - account'[b] <= bucket'[b].cap
  <2>1. CASE b \in bs
    BY <1>1, <2>1
  <2>2. CASE b \notin bs
    BY <1>1, <1>3, <2>2 DEF KeepInv, StoredKept
  <2> QED BY <2>1, <2>2
<1>4. StoredKept'
  BY <1>3 DEF StoredKept
<1> QED BY <1>2, <1>4

(* Steps that write no bucket and no account *)
LEMMA StaysKept ==
  ASSUME KeepInv, bucket' = bucket, active' = active, account' = account
  PROVE  LimitsKnown' /\ StoredKept'
BY DEF KeepInv, LimitsKnown, StoredKept

(* await_for_capacity takes from a bucket what it adds to the account. *)
LEMMA ConsumeKept ==
  ASSUME KeepInv, NEW t \in Tasks, AccountConsume(t)
  PROVE  LimitsKnown' /\ StoredKept'
<1> DEFINE take(b) == Take(b, task[t].usage, task[t].keys)
           w == [b \in active |-> ConsumedBucket(t, b)]
<1>1. ASSUME NEW b \in active
      PROVE  /\ w[b].max = bucket[b].max
             /\ Scaled(b, SmallestLimit) - account'[b] <= w[b].cap
  <2>1. /\ b \in Buckets /\ Avail(b) \in Int /\ account[b] \in Int
        /\ Scaled(b, SmallestLimit) \in Nat
        /\ Scaled(b, SmallestLimit) - account[b] <= Avail(b)
    BY KeptIsVisible DEF KeepInv, ChargeInv
  <2>2. take(b) \in Nat
    <3>1. task[t].usage \in [Metrics -> Nat]
      BY DEF KeepInv, ChargeInv, TypeOK, CallsTyped, Task
    <3> QED BY <2>1, <3>1, TakeType
  <2>3. w[b] = set_capacity(bucket[b], Avail(b) - take(b), FALSE)
    BY DEF ConsumedBucket
  <2>4. account'[b] = account[b] + take(b)
    BY <2>1 DEF AccountConsume, Post
  <2> HIDE DEF take, w
  <2>5. w[b].max = bucket[b].max /\ w[b].cap = Greater(0, Avail(b) - take(b))
    BY <2>3 DEF set_capacity
  <2>6. Avail(b) - take(b) <= w[b].cap
    BY <2>1, <2>2, <2>5 DEF Greater
  <2>7. w[b].cap \in Int
    BY <2>1, <2>2, <2>5 DEF Greater
  <2> QED BY <2>1, <2>2, <2>4, <2>5, <2>6, <2>7
<1>2. bucket' = [b \in Buckets |-> IF b \in active THEN w[b] ELSE bucket[b]]
  BY DEF AccountConsume, TryConsume
<1>3. active' = active
  BY DEF AccountConsume, TryConsume
<1> HIDE DEF w
<1> QED BY <1>1, <1>2, <1>3, WrittenKept

(* record_usage takes from a bucket no more than it adds to the account. *)
LEMMA RecordKept ==
  ASSUME KeepInv, NEW t \in Tasks, NEW r \in Ids, NEW u \in Usages,
         AccountRecord(t, r, u), ChargeInv'
  PROVE  LimitsKnown' /\ StoredKept'
<1> DEFINE take(b) == Take(b, u, ActiveMetrics)
           w == [b \in active |-> RecordedBucket(b, u, ActiveMetrics)]
           mark == [scope |-> active, usage |-> u, keys |-> ActiveMetrics]
<1>0. active' = active
  BY DEF AccountRecord, Record
<1>1. CASE r \in live
  <2>1. IsReplay(r, mark)
    BY <1>1 DEF AccountRecord, Record, IsReplay, IsDuplicate
  <2>2. bucket' = bucket
    BY <2>1 DEF AccountRecord, Record
  <2>3. account' = account
    BY <1>1 DEF AccountRecord, Quiet, history
  <2> QED BY <1>0, <2>2, <2>3, StaysKept
<1>2. CASE r \notin live
  <2>1. ~ IsReplay(r, mark)
    BY <1>2 DEF IsReplay
  <2>2. ASSUME NEW b \in active
        PROVE  /\ w[b].max = bucket[b].max
               /\ Scaled(b, SmallestLimit) - account'[b] <= w[b].cap
    <3> DEFINE v == IF MetricOf[b] \in ActiveMetrics
                      THEN Greater(Avail(b) - take(b), - Window(b)) ELSE Avail(b)
    <3>1. /\ b \in Buckets /\ Avail(b) \in Int /\ account[b] \in Int
          /\ Window(b) \in Nat /\ Scaled(b, SmallestLimit) \in Nat
          /\ Scaled(b, SmallestLimit) - account[b] <= Avail(b)
      BY KeptIsVisible DEF KeepInv, ChargeInv
    <3>2. take(b) \in Nat
      <4>1. u \in [Metrics -> Nat]
        BY ShapeAssumption
      <4> QED BY <3>1, <4>1, TakeType
    <3>3. w[b] = set_capacity(bucket[b], v, TRUE)
      BY DEF RecordedBucket, Window
    <3>4. account'[b] = account[b] + take(b)
      BY <1>2, <3>1 DEF AccountRecord, Post
    <3> HIDE DEF take, w
    <3>5. v \in Int /\ Avail(b) - take(b) <= v
      BY <3>1, <3>2 DEF Greater
    <3> HIDE DEF v
    <3>6. w[b].max = bucket[b].max /\ w[b].cap = v
      BY <3>3 DEF set_capacity
    <3> QED BY <3>1, <3>2, <3>4, <3>5, <3>6
  <2>3. bucket' = [b \in Buckets |-> IF b \in active THEN w[b] ELSE bucket[b]]
    BY <2>1 DEF AccountRecord, Record
  <2> HIDE DEF w
  <2> QED BY <1>0, <2>2, <2>3, WrittenKept
<1> QED BY <1>1, <1>2

(* An undo stops at the limit in force: the account it settles is not      *)
(* overdrawn, so a full window of the smallest limit is never asked for.   *)
LEMMA UndoKept ==
  ASSUME KeepInv, NEW t \in Tasks, AccountUndo(t), ChargeInv'
  PROVE  LimitsKnown' /\ StoredKept'
<1> DEFINE take(b) == Take(b, task[t].usage, task[t].keys)
           bs == Reachable(t)
           w == [b \in bs |-> UndoneBucket(t, b)]
<1>0. bs \subseteq active /\ active' = active
  BY DEF Reachable, AccountUndo, Undo
<1>1. ASSUME NEW b \in bs
      PROVE  /\ w[b].max = bucket[b].max
             /\ Scaled(b, SmallestLimit) - account'[b] <= w[b].cap
  <2> DEFINE v == IF MetricOf[b] \in task[t].keys
                    THEN Lesser(Avail(b) + take(b), Window(b)) ELSE Avail(b)
  <2>1. /\ b \in Buckets /\ Avail(b) \in Int /\ account[b] \in Int
        /\ Window(b) \in Nat /\ Scaled(b, SmallestLimit) \in Nat
        /\ Scaled(b, SmallestLimit) <= Window(b)
        /\ Scaled(b, SmallestLimit) - account[b] <= Avail(b)
    BY <1>0, KeptIsVisible DEF KeepInv, ChargeInv
  <2>2. take(b) \in Nat
    <3>1. task[t].usage \in [Metrics -> Nat]
      BY DEF KeepInv, ChargeInv, TypeOK, CallsTyped, Task
    <3> QED BY <2>1, <3>1, TakeType
  <2>3. MetricOf[b] \notin task[t].keys => take(b) = 0
    BY DEF Take
  <2>4. w[b] = set_capacity(bucket[b], v, TRUE)
    BY DEF UndoneBucket, Window
  <2>5. account'[b] = account[b] + (- take(b))
    BY <2>1 DEF AccountUndo, Post
  <2>6. 0 <= account'[b]
    BY <1>0, AccountHoldsNext DEF ChargeInv
  <2> HIDE DEF take, w, bs
  <2>7. v \in Int /\ Scaled(b, SmallestLimit) - account'[b] <= v
    BY <2>1, <2>2, <2>3, <2>5, <2>6 DEF Lesser
  <2> HIDE DEF v
  <2>8. w[b].max = bucket[b].max /\ w[b].cap = v
    BY <2>4 DEF set_capacity
  <2> QED BY <2>7, <2>8
<1>2. bucket' = [b \in Buckets |-> IF b \in bs THEN w[b] ELSE bucket[b]]
  BY DEF AccountUndo, Undo
<1>3. \A b \in active \ bs : account'[b] = account[b]
  BY DEF AccountUndo, Post, KeepInv, ChargeInv, TypeOK
<1> HIDE DEF w, bs
<1> QED BY <1>0, <1>1, <1>2, <1>3, WrittenKept

(* A refund gives a bucket back what it takes from the account. *)
LEMMA RefundKept ==
  ASSUME KeepInv, NEW t \in Tasks, AccountRefund(t), ChargeInv'
  PROVE  LimitsKnown' /\ StoredKept'
<1> DEFINE bs == active \cap task[t].scope
           w == [b \in bs |-> RefundedBucket(t, b)]
<1>0. bs \subseteq active /\ active' = active
  BY DEF AccountRefund, RefundCommit
<1>1. ASSUME NEW b \in bs
      PROVE  /\ w[b].max = bucket[b].max
             /\ Scaled(b, SmallestLimit) - account'[b] <= w[b].cap
  <2> DEFINE amount == RefundAmount(t, b)
             v == Greater(- Window(b),
                          Lesser(Avail(b) + Greater(amount, - Window(b)),
                                 Window(b)))
  <2>1. /\ b \in Buckets /\ Avail(b) \in Int /\ account[b] \in Int
        /\ Window(b) \in Nat /\ Scaled(b, SmallestLimit) \in Nat
        /\ Scaled(b, SmallestLimit) <= Window(b)
        /\ Scaled(b, SmallestLimit) - account[b] <= Avail(b)
    BY <1>0, KeptIsVisible DEF KeepInv, ChargeInv
  <2>2. amount \in Int
    <3>1. task[t].usage \in [Metrics -> Nat] /\ task[t].id \in Ids
      BY DEF KeepInv, ChargeInv, TypeOK, CallsTyped, Task, AccountRefund,
             RefundCommit
    <3>2. value[task[t].id].usage \in [Metrics -> Nat]
      BY <3>1 DEF KeepInv, ChargeInv, TypeOK, Value
    <3> QED BY <2>1, <3>1, <3>2, TakeType DEF RefundAmount
  <2>3. w[b] = set_capacity(bucket[b], v, TRUE)
    BY DEF RefundedBucket, Window
  <2>4. account'[b] = account[b] + (- amount)
    BY <2>1 DEF AccountRefund, Post
  <2>5. 0 <= account'[b]
    BY <1>0, AccountHoldsNext DEF ChargeInv
  <2> HIDE DEF amount, w, bs
  <2>6. v \in Int /\ Scaled(b, SmallestLimit) - account'[b] <= v
    BY <2>1, <2>2, <2>4, <2>5 DEF Lesser, Greater
  <2> HIDE DEF v
  <2>7. w[b].max = bucket[b].max /\ w[b].cap = v
    BY <2>3 DEF set_capacity
  <2> QED BY <2>6, <2>7
<1>2. bucket' = [b \in Buckets |-> IF b \in bs THEN w[b] ELSE bucket[b]]
  BY DEF AccountRefund, RefundCommit
<1>3. \A b \in active \ bs : account'[b] = account[b]
  BY DEF AccountRefund, Post, KeepInv, ChargeInv, TypeOK
<1> HIDE DEF w, bs
<1> QED BY <1>0, <1>1, <1>2, <1>3, WrittenKept

(* A new limit anchors the refill so far and drops none of it. *)
LEMMA RelimitedKept ==
  ASSUME KeepInv, NEW b \in active, NEW k \in KnownLimits,
         bucket'[b] = set_max_capacity(bucket[b], k), account'[b] = account[b]
  PROVE  /\ bucket'[b].max \in KnownLimits
         /\ ~ bucket'[b].fresh =>
              Scaled(b, SmallestLimit) - account'[b] <= bucket'[b].cap
<1>1. b \in Buckets /\ bucket[b] \in BucketState
  BY DEF KeepInv, ChargeInv, TypeOK
<1>2. CASE bucket[b].fresh
  BY <1>2 DEF set_max_capacity, NewBucket
<1>3. CASE ~ bucket[b].fresh
  <2>1. bucket'[b].max = k /\ bucket'[b].cap = Uncapped(bucket[b])
    BY <1>3 DEF set_max_capacity
  <2>2. Scaled(b, SmallestLimit) - account[b] <= bucket[b].cap
    BY <1>3 DEF KeepInv, StoredKept
  <2>3. bucket[b].cap <= Uncapped(bucket[b])
    BY <1>1, RefillAdds
  <2>4. /\ bucket[b].cap \in Int /\ Uncapped(bucket[b]) \in Int
        /\ account[b] \in Int /\ Scaled(b, SmallestLimit) \in Int
    BY <1>1, ReadType, SmallestWindow
       DEF BucketState, KeepInv, ChargeInv, AccountTyped
  <2> QED BY <2>1, <2>2, <2>3, <2>4
<1> QED BY <1>2, <1>3

(* A new limit loses nothing that the smallest limit would hold. *)
LEMMA SetMaxKept ==
  ASSUME KeepInv, NEW t \in Tasks, AccountSetMax(t)
  PROVE  LimitsKnown' /\ StoredKept'
<1>0. task[t].limit \in KnownLimits
  BY DEF AccountSetMax, SetMaxCommit, KeepInv, ChargeInv, TypeOK, CallsTyped,
         KnownLimits
<1>1. active' = active /\ account' = account
  BY DEF AccountSetMax, SetMaxCommit
<1>2. ASSUME NEW b \in active
      PROVE  /\ bucket'[b].max \in KnownLimits
             /\ ~ bucket'[b].fresh =>
                  Scaled(b, SmallestLimit) - account'[b] <= bucket'[b].cap
  <2>1. b \in Buckets
    BY DEF KeepInv, ChargeInv, TypeOK
  <2>2. CASE b \in Reachable(t)
    <3>1. bucket'[b] = set_max_capacity(bucket[b], task[t].limit)
      BY <2>1, <2>2 DEF AccountSetMax, SetMaxCommit
    <3> QED BY <1>0, <1>1, <3>1, RelimitedKept
  <2>3. CASE b \notin Reachable(t)
    <3>1. bucket'[b] = bucket[b]
      BY <2>1, <2>3 DEF AccountSetMax, SetMaxCommit
    <3> QED BY <1>1, <3>1 DEF KeepInv, LimitsKnown, StoredKept
  <2> QED BY <2>2, <2>3
<1>3. LimitsKnown'
  BY <1>1, <1>2 DEF LimitsKnown
<1>4. StoredKept'
  BY <1>1, <1>2 DEF StoredKept
<1> QED BY <1>3, <1>4

(* A rebuild carries the level of a kept bucket over. *)
LEMMA ReconfigureKept ==
  ASSUME KeepInv, NEW cfg \in Configs, AccountReconfigure(cfg)
  PROVE  LimitsKnown' /\ StoredKept'
<1>0. active' = DOMAIN cfg /\ DOMAIN cfg \subseteq Buckets
  BY ShapeAssumption DEF AccountReconfigure, Reconfigure
<1>1. ASSUME NEW b \in DOMAIN cfg
      PROVE  /\ bucket'[b].max \in KnownLimits
             /\ ~ bucket'[b].fresh =>
                  Scaled(b, SmallestLimit) - account'[b] <= bucket'[b].cap
  <2>1. b \in Buckets
    BY <1>0
  <2>2. cfg[b] \in KnownLimits
    BY DEF KnownLimits, Range
  <2>3. CASE b \in active
    <3>1. /\ bucket'[b] = set_max_capacity(bucket[b], cfg[b])
          /\ account'[b] = account[b]
      BY <2>1, <2>3 DEF AccountReconfigure, Reconfigure
    <3> QED BY <2>2, <2>3, <3>1, RelimitedKept
  <2>4. CASE b \notin active
    <3>1. bucket'[b] = NewBucket(cfg[b])
      BY <2>1, <2>4 DEF AccountReconfigure, Reconfigure
    <3> QED BY <2>2, <3>1 DEF NewBucket
  <2> QED BY <2>3, <2>4
<1>2. LimitsKnown'
  BY <1>0, <1>1 DEF LimitsKnown
<1>3. StoredKept'
  BY <1>0, <1>1 DEF StoredKept
<1> QED BY <1>2, <1>3

(* The clock, forward or back, changes only when a bucket was last read. *)
LEMMA ClockKept ==
  ASSUME KeepInv, AccountTick \/ (ClockSetBack /\ Quiet)
  PROVE  LimitsKnown' /\ StoredKept'
<1>1. active' = active /\ account' = account
  BY DEF AccountTick, Tick, ClockSetBack, Quiet, history
<1>2. PICK s \in {1, -1} : Shift(s)
  BY DEF AccountTick, Tick, ClockSetBack
<1>3. ASSUME NEW b \in active
      PROVE  /\ bucket'[b].max = bucket[b].max
             /\ bucket'[b].cap = bucket[b].cap
             /\ bucket'[b].fresh = bucket[b].fresh
  <2>1. b \in Buckets /\ bucket[b] \in BucketState
    BY DEF KeepInv, ChargeInv, TypeOK
  <2> DEFINE e == Greater(- MaxSkew, Lesser(MaxElapsed, bucket[b].elapsed + s))
  <2>2. \/ bucket'[b] = bucket[b]
        \/ bucket'[b] = [bucket[b] EXCEPT !.elapsed = e]
    BY <1>2, <2>1 DEF Shift
  <2> HIDE DEF e
  <2> QED BY <2>1, <2>2 DEF BucketState
<1>4. LimitsKnown'
  BY <1>1, <1>3 DEF KeepInv, LimitsKnown
<1>5. StoredKept'
  BY <1>1, <1>3 DEF KeepInv, StoredKept
<1> QED BY <1>4, <1>5

(* Every step keeps the level within the account of full capacity. *)
LEMMA KeptStep ==
  ASSUME Replays = {}, KeepInv, NoneRebuilt, NoneRebuilt',
         [AccountingNext]_allvars
  PROVE  KeepInv'
<1>0. ChargeInv'
  BY HeldStep DEF KeepInv
<1>1. ASSUME NEW t \in Tasks,
             (QuietProgress(t) \/ Cancellation(t) \/ QuietCall(t)) /\ Quiet
      PROVE  LimitsKnown' /\ StoredKept'
  <2>0. account' = account
    BY <1>1 DEF Quiet, history
  <2>1. QuietProgress(t) => bucket' = bucket /\ active' = active
    BY DEF QuietProgress, TryReplay, TryReject, Raise, TryWait,
           WaitStartReturns, Wake, Resume, Unregister, CallbacksReturn,
           RecordReturns, RefundReject
  <2>2. Cancellation(t) => bucket' = bucket /\ active' = active
    BY DEF Cancellation, Interrupt, Raise, InterruptCallbacks
  <2>3. QuietCall(t) => bucket' = bucket /\ active' = active
    BY DEF QuietCall, AwaitCall, RefundCall, SetMaxCall
  <2> QED BY <1>1, <2>0, <2>1, <2>2, <2>3, StaysKept
<1>2. ASSUME NEW t \in Tasks,
             AccountConsume(t) \/ AccountUndo(t) \/ AccountRefund(t)
               \/ AccountSetMax(t)
      PROVE  LimitsKnown' /\ StoredKept'
  BY <1>0, <1>2, ConsumeKept, UndoKept, RefundKept, SetMaxKept
<1>3. ASSUME NEW t \in Tasks, NEW r \in Ids, NEW u \in Usages, AccountRecord(t, r, u)
      PROVE  LimitsKnown' /\ StoredKept'
  BY <1>0, <1>3, RecordKept
<1>4. ASSUME NEW cfg \in Configs, AccountReconfigure(cfg)
      PROVE  LimitsKnown' /\ StoredKept'
  BY <1>4, ReconfigureKept
<1>5. CASE AccountTick \/ (ClockSetBack /\ Quiet)
  BY <1>0, <1>5, ClockKept DEF KeepInv
<1>6. CASE UNCHANGED allvars
  <2>1. bucket' = bucket /\ active' = active /\ account' = account
    BY <1>6 DEF allvars, vars, history
  <2> QED BY <1>0, <2>1, StaysKept DEF KeepInv
<1> QED BY <1>0, <1>1, <1>2, <1>3, <1>4, <1>5, <1>6 DEF AccountingNext, KeepInv

(* Every bucket is fresh at the start. *)
LEMMA KeptInit == AccountingInit => KeepInv
<1> SUFFICES ASSUME AccountingInit PROVE KeepInv
  OBVIOUS
<1>1. ChargeInv
  BY HeldInit
<1>2. ASSUME NEW b \in active
      PROVE  bucket[b].fresh /\ bucket[b].max \in KnownLimits
  <2>1. b \in DOMAIN StartConfig /\ b \in Buckets /\ StartConfig \in Configs
    BY ShapeAssumption DEF AccountingInit, Init
  <2>2. StartConfig[b] \in KnownLimits
    BY <2>1 DEF KnownLimits, Range
  <2>3. bucket[b] = NewBucket(StartConfig[b])
    BY <2>1 DEF AccountingInit, Init
  <2> QED BY <2>2, <2>3 DEF NewBucket
<1>3. LimitsKnown /\ StoredKept
  BY <1>2 DEF LimitsKnown, StoredKept
<1> QED BY <1>1, <1>3 DEF KeepInv

(* No interleaving of cancelled, undone, rejected and refunded calls loses *)
(* capacity: what a bucket lacks of a full window is charged to its        *)
(* account, also across rebuilds, changed limits and a clock that is set   *)
(* back.  Its hypotheses are those of OpenChargesStayHeld.                 *)
THEOREM NoCapacityLost ==
  ASSUME Replays = {}
  PROVE  AccountingSpec /\ []NoneRebuilt => []NothingLost
<1>1. AccountingInit => KeepInv
  BY KeptInit
<1>2. KeepInv /\ NoneRebuilt /\ NoneRebuilt' /\ [AccountingNext]_allvars => KeepInv'
  BY KeptStep
<1>3. KeepInv => NothingLost
  BY KeptIsVisible DEF KeepInv, ChargeInv, NothingLost
<1> QED BY <1>1, <1>2, <1>3, PTL DEF AccountingSpec

=============================================================================
