------------------------- MODULE RateLimiterProofs -------------------------
(***************************************************************************)
(* Proofs about RateLimiter, for every set of calls and every deployment:  *)
(* the types of its tables, and how the per-reservation locks, the slots   *)
(* and the drains of a close belong together.                              *)
(***************************************************************************)
EXTENDS RateLimiter, FiniteSetTheorems, SequenceTheorems, TLAPS

-----------------------------------------------------------------------------
(* Queues and ordered dicts: sequences in which an element occurs once *)

Distinct(s) == \A i, j \in 1..Len(s) : s[i] = s[j] => i = j

(* Removing an element removes its only place and keeps all others.        *)
LEMMA WithoutOnce ==
  ASSUME NEW S, NEW s \in Seq(S), NEW x, Distinct(s)
  PROVE  /\ Without(s, x) \in Seq(S)
         /\ Distinct(Without(s, x))
         /\ ToSet(Without(s, x)) = ToSet(s) \ {x}
         /\ Len(Without(s, x)) = IF x \in ToSet(s) THEN Len(s) - 1 ELSE Len(s)
         /\ s # << >> /\ Head(s) # x => Head(Without(s, x)) = Head(s)
<1>0. Len(s) \in Nat /\ ToSet(s) = {s[i] : i \in 1..Len(s)}
  BY DEF ToSet
<1>1. CASE x \notin ToSet(s)
  BY <1>0, <1>1 DEF Without
<1>2. CASE x \in ToSet(s)
  <2> DEFINE k == CHOOSE i \in 1..Len(s) : s[i] = x
             a == SubSeq(s, 1, k - 1)
             b == SubSeq(s, k + 1, Len(s))
             w == a \o b
  <2>1. k \in 1..Len(s) /\ s[k] = x
    BY <1>0, <1>2
  <2>2. Without(s, x) = w
    BY <1>2 DEF Without, RemoveAt
  <2> HIDE DEF k
  <2>3. /\ a \in Seq(S) /\ Len(a) = k - 1
        /\ \A i \in 1..k - 1 : a[i] = s[i]
    BY <1>0, <2>1, SubSeqProperties
  <2>4. /\ b \in Seq(S) /\ Len(b) = Len(s) - k
        /\ \A i \in 1..Len(s) - k : b[i] = s[k + i]
    BY <1>0, <2>1, SubSeqProperties
  <2> HIDE DEF a, b
  <2>5. /\ w \in Seq(S) /\ Len(w) = Len(s) - 1
        /\ \A i \in 1..Len(s) - 1 : w[i] = IF i < k THEN s[i] ELSE s[i + 1]
    <3>1. /\ w \in Seq(S)
          /\ Len(w) = Len(a) + Len(b)
          /\ \A i \in 1..Len(a) + Len(b) :
               w[i] = IF i <= Len(a) THEN a[i] ELSE b[i - Len(a)]
      BY <2>3, <2>4, ConcatProperties
    <3> QED BY <1>0, <2>1, <2>3, <2>4, <3>1
  <2> HIDE DEF w
  <2>6. ToSet(w) = {w[i] : i \in 1..Len(w)}
    BY <2>5 DEF ToSet
  <2>7. Distinct(w)
    BY <1>0, <2>1, <2>5 DEF Distinct
  <2>8. \A i \in 1..Len(s) : i # k => s[i] # x
    BY <2>1 DEF Distinct
  <2>9. ToSet(w) \subseteq ToSet(s) \ {x}
    BY <1>0, <2>1, <2>5, <2>6, <2>8
  <2>10. ASSUME NEW y \in ToSet(s) \ {x} PROVE y \in ToSet(w)
    <3>1. PICK i \in 1..Len(s) : y = s[i]
      BY <1>0
    <3>2. i # k
      BY <2>1, <3>1
    <3>3. CASE i < k
      BY <1>0, <2>1, <2>5, <2>6, <3>1, <3>3
    <3>4. CASE i > k
      <4>1. i - 1 \in 1..Len(w) /\ w[i - 1] = s[i]
        BY <1>0, <2>1, <2>5, <3>4
      <4> QED BY <2>6, <3>1, <4>1
    <3> QED BY <2>1, <3>2, <3>3, <3>4
  <2>11. ASSUME Head(s) # x PROVE Head(w) = Head(s)
    <3>1. s[1] # x /\ k # 1
      BY <1>0, <2>1, <2>11
    <3>2. 1 \in 1..Len(w) /\ w[1] = s[1]
      BY <1>0, <2>1, <2>5, <3>1
    <3> QED BY <1>0, <2>1, <2>5, <3>2
  <2> QED BY <1>2, <2>2, <2>5, <2>7, <2>9, <2>10, <2>11
<1> QED BY <1>1, <1>2

(* Inserting a new element keeps all others, and the head unless it goes   *)
(* first.                                                                  *)
LEMMA InsertOnce ==
  ASSUME NEW S, NEW s \in Seq(S), NEW x \in S, NEW k \in 1..Len(s) + 1,
         Distinct(s), x \notin ToSet(s)
  PROVE  /\ InsertAt(s, k, x) \in Seq(S)
         /\ Distinct(InsertAt(s, k, x))
         /\ ToSet(InsertAt(s, k, x)) = ToSet(s) \cup {x}
         /\ Head(InsertAt(s, k, x)) = IF k = 1 THEN x ELSE Head(s)
<1> DEFINE a == SubSeq(s, 1, k - 1)
           b == SubSeq(s, k, Len(s))
           m == << x >>
           w == a \o m \o b
<1>0. Len(s) \in Nat /\ ToSet(s) = {s[i] : i \in 1..Len(s)} /\ k \in Int
  BY DEF ToSet
<1>1. /\ a \in Seq(S) /\ Len(a) = k - 1
      /\ \A i \in 1..k - 1 : a[i] = s[i]
  BY <1>0, SubSeqProperties
<1>2. /\ b \in Seq(S) /\ Len(b) = Len(s) - k + 1
      /\ \A i \in 1..Len(s) - k + 1 : b[i] = s[k + i - 1]
  BY <1>0, SubSeqProperties
<1>3. m \in Seq(S) /\ Len(m) = 1 /\ m[1] = x
  OBVIOUS
<1>4. InsertAt(s, k, x) = w
  BY DEF InsertAt
<1> HIDE DEF a, b, m
<1>5. /\ a \o m \in Seq(S) /\ Len(a \o m) = k
      /\ \A i \in 1..k : (a \o m)[i] = IF i < k THEN s[i] ELSE x
  <2>1. /\ a \o m \in Seq(S) /\ Len(a \o m) = Len(a) + Len(m)
        /\ \A i \in 1..Len(a) + Len(m) :
             (a \o m)[i] = IF i <= Len(a) THEN a[i] ELSE m[i - Len(a)]
    BY <1>1, <1>3, ConcatProperties
  <2> QED BY <1>0, <1>1, <1>3, <2>1
<1>6. /\ w \in Seq(S) /\ Len(w) = Len(s) + 1
      /\ \A i \in 1..Len(s) + 1 :
           w[i] = IF i < k THEN s[i] ELSE IF i = k THEN x ELSE s[i - 1]
  <2> DEFINE c == a \o m
  <2> HIDE DEF c
  <2>1. /\ c \o b \in Seq(S) /\ Len(c \o b) = Len(c) + Len(b)
        /\ \A i \in 1..Len(c) + Len(b) :
             (c \o b)[i] = IF i <= Len(c) THEN c[i] ELSE b[i - Len(c)]
    BY <1>2, <1>5, ConcatProperties DEF c
  <2>2. /\ Len(c) = k
        /\ \A i \in 1..k : c[i] = IF i < k THEN s[i] ELSE x
    BY <1>5 DEF c
  <2>3. w = c \o b
    BY DEF c
  <2> HIDE DEF w
  <2>4. Len(w) = Len(s) + 1
    BY <1>0, <1>2, <2>1, <2>2, <2>3
  <2>5. ASSUME NEW i \in 1..Len(s) + 1
        PROVE  w[i] = IF i < k THEN s[i] ELSE IF i = k THEN x ELSE s[i - 1]
    <3>1. i \in 1..Len(c) + Len(b)
      BY <1>0, <1>2, <2>2
    <3>2. w[i] = IF i <= k THEN c[i] ELSE b[i - k]
      BY <2>1, <2>2, <2>3, <3>1
    <3>3. CASE i <= k
      BY <1>0, <2>2, <3>2, <3>3
    <3>4. CASE i > k
      <4>1. i - k \in 1..Len(s) - k + 1 /\ k + (i - k) - 1 = i - 1
        BY <1>0, <3>4
      <4> QED BY <1>2, <3>2, <3>4, <4>1
    <3> QED BY <1>0, <3>3, <3>4
  <2> QED BY <2>1, <2>3, <2>4, <2>5
<1> HIDE DEF w
<1>7. ToSet(w) = {w[i] : i \in 1..Len(w)}
  <2>1. DOMAIN w = 1..Len(w)
    BY <1>6, LenProperties
  <2> QED BY <2>1 DEF ToSet
<1>8. \A i \in 1..Len(s) : s[i] # x
  BY <1>0
<1>9. Distinct(w)
  <2>1. \A i \in 1..Len(w) :
          /\ i < k => i \in 1..Len(s) /\ w[i] = s[i]
          /\ i = k => w[i] = x
          /\ i > k => i - 1 \in 1..Len(s) /\ w[i] = s[i - 1]
    BY <1>0, <1>6
  <2>2. SUFFICES ASSUME NEW i \in 1..Len(w), NEW j \in 1..Len(w), w[i] = w[j]
                 PROVE  i = j
    BY DEF Distinct
  <2>3. /\ i < k /\ j < k => i = j
        /\ i > k /\ j > k => i - 1 = j - 1
        /\ i < k /\ j > k => i = j - 1
        /\ i > k /\ j < k => i - 1 = j
    BY <2>1, <2>2 DEF Distinct
  <2>4. i = k <=> j = k
    BY <1>0, <1>6, <1>8, <2>1, <2>2
  <2> QED BY <1>0, <1>6, <2>3, <2>4
<1>10. w[k] = x /\ k \in 1..Len(w)
  BY <1>0, <1>6
<1>11. ToSet(w) \subseteq ToSet(s) \cup {x}
  BY <1>0, <1>6, <1>7
<1>12. ASSUME NEW i \in 1..Len(s) PROVE s[i] \in ToSet(w)
  <2>1. CASE i < k
    BY <1>0, <1>6, <1>7, <2>1
  <2>2. CASE i >= k
    <3>1. i + 1 \in 1..Len(w) /\ w[i + 1] = s[i]
      BY <1>0, <1>6, <2>2
    <3> QED BY <1>7, <3>1
  <2> QED BY <1>0, <2>1, <2>2
<1>13. ToSet(w) = ToSet(s) \cup {x}
  BY <1>0, <1>7, <1>10, <1>11, <1>12
<1>14. Head(w) = w[1]
  BY <1>6
<1>15. k # 1 => Head(s) = s[1]
  BY <1>0
<1>16. Head(w) = IF k = 1 THEN x ELSE Head(s)
  BY <1>0, <1>6, <1>14, <1>15
<1> QED BY <1>4, <1>6, <1>9, <1>13, <1>16

-----------------------------------------------------------------------------
(* The bounded table of refund states *)

(* The states and the order of insertion describe one ordered dict, which  *)
(* stays within its cap.                                                   *)
RefundTable ==
  /\ refund_state \in [Rids -> {"missing", "pending", "committed", "failed"}]
  /\ refund_order \in Seq(Rids)
  /\ ToSet(refund_order) = {r \in Rids : refund_state[r] # "missing"}
  /\ Len(refund_order) <= RefundedCap
  /\ Distinct(refund_order)

(* _remember_refund_state puts its id last and forgets at most the oldest. *)
LEMMA RememberTable ==
  ASSUME RefundTable, NEW r \in Rids, NEW state \in {"pending", "committed", "failed"},
         Remember(r, state)
  PROVE  RefundTable'
<1> DEFINE rest == Without(refund_order, r)
           order == Append(rest, r)
           evicted == IF Len(order) > RefundedCap THEN {Head(order)} ELSE {}
<1>0. /\ RefundedCap \in Nat \ {0}
      /\ refund_order \in Seq(Rids) /\ Len(refund_order) \in Nat
      /\ Len(refund_order) <= RefundedCap
  BY LimiterAssumption DEF RefundTable
<1>1. /\ rest \in Seq(Rids) /\ Distinct(rest)
      /\ ToSet(rest) = ToSet(refund_order) \ {r}
      /\ Len(rest) <= Len(refund_order)
  <2>1. Distinct(refund_order)
    BY DEF RefundTable
  <2>2. /\ rest \in Seq(Rids) /\ Distinct(rest)
        /\ ToSet(rest) = ToSet(refund_order) \ {r}
        /\ Len(rest) = IF r \in ToSet(refund_order) THEN Len(refund_order) - 1
                       ELSE Len(refund_order)
    BY <1>0, <2>1, WithoutOnce
  <2> HIDE DEF rest
  <2> QED BY <1>0, <2>2
<1> HIDE DEF rest
<1>2. /\ order \in Seq(Rids) /\ order # << >> /\ Len(order) = Len(rest) + 1
      /\ \A i \in 1..Len(rest) : order[i] = rest[i]
      /\ order[Len(rest) + 1] = r
  BY <1>1, AppendProperties
<1>3. /\ refund_order' = IF evicted = {} THEN order ELSE Tail(order)
      /\ refund_state' = [s \in Rids |-> IF s \in evicted THEN "missing"
                                         ELSE IF s = r THEN state
                                         ELSE refund_state[s]]
  BY DEF Remember, rest
<1> HIDE DEF order
<1>4. Len(rest) \in Nat /\ ToSet(rest) = {rest[i] : i \in 1..Len(rest)}
  BY <1>1 DEF ToSet
<1>5. DOMAIN order = 1..Len(order)
  BY <1>2, LenProperties
<1>6. ToSet(order) = {order[i] : i \in 1..Len(order)}
  BY <1>5 DEF ToSet
<1>7. \A i \in 1..Len(rest) : rest[i] # r
  BY <1>1, <1>4
<1>8. Distinct(order)
  BY <1>1, <1>2, <1>4, <1>7 DEF Distinct
<1>9. ToSet(order) = ToSet(refund_order) \cup {r}
  <2>1. ToSet(order) = ToSet(rest) \cup {r}
    BY <1>2, <1>4, <1>6
  <2> QED BY <1>1, <2>1
<1>10. \A s \in Rids : s \in ToSet(order) <=> s = r \/ refund_state[s] # "missing"
  BY <1>9 DEF RefundTable
<1>11. CASE Len(order) > RefundedCap
  <2>1. evicted = {order[1]} /\ order[1] \in Rids
    BY <1>2, <1>11
  <2>2. refund_order' = Tail(order)
    BY <1>3, <2>1
  <2>3. /\ Tail(order) \in Seq(Rids)
        /\ Len(Tail(order)) = Len(order) - 1
        /\ Distinct(Tail(order))
        /\ ToSet(Tail(order)) = ToSet(order) \ {order[1]}
    <3>1. /\ Tail(order) \in Seq(Rids)
          /\ Len(Tail(order)) = Len(order) - 1
          /\ \A i \in 1..Len(Tail(order)) : Tail(order)[i] = order[i + 1]
      BY <1>2, HeadTailProperties
    <3> DEFINE t == Tail(order)
    <3> HIDE DEF t
    <3>2. ToSet(t) = {t[i] : i \in 1..Len(t)}
      <4>1. DOMAIN t = 1..Len(t)
        BY <3>1, LenProperties DEF t
      <4> QED BY <4>1 DEF ToSet
    <3>3. /\ Len(t) = Len(order) - 1
          /\ \A i \in 1..Len(t) : t[i] = order[i + 1]
      BY <3>1 DEF t
    <3>4. Distinct(t)
      BY <1>2, <1>4, <1>8, <3>3 DEF Distinct
    <3>5. ToSet(t) \subseteq ToSet(order) \ {order[1]}
      BY <1>2, <1>4, <1>6, <1>8, <3>2, <3>3 DEF Distinct
    <3>6. ASSUME NEW y \in ToSet(order) \ {order[1]} PROVE y \in ToSet(t)
      <4>1. PICK i \in 1..Len(order) : y = order[i]
        BY <1>6
      <4>2. i # 1 /\ i - 1 \in 1..Len(t) /\ (i - 1) + 1 = i
        BY <1>2, <1>4, <3>3, <4>1
      <4>3. t[i - 1] = y
        BY <3>3, <4>1, <4>2
      <4> QED BY <3>2, <4>2, <4>3
    <3> QED BY <3>1, <3>4, <3>5, <3>6 DEF t
  <2>4. refund_state' \in [Rids -> {"missing", "pending", "committed", "failed"}]
    BY <1>3 DEF RefundTable
  <2>5. \A s \in Rids : refund_state'[s] # "missing" <=> s \in ToSet(order) \ {order[1]}
    BY <1>3, <1>10, <2>1
  <2>6. ToSet(Tail(order)) \subseteq Rids
    BY <1>9, <2>3 DEF RefundTable
  <2>7. ToSet(Tail(order)) = {s \in Rids : refund_state'[s] # "missing"}
    BY <2>3, <2>5, <2>6
  <2>8. Len(Tail(order)) <= RefundedCap
    BY <1>0, <1>1, <1>2, <1>4, <2>3
  <2> QED BY <2>2, <2>3, <2>4, <2>7, <2>8 DEF RefundTable
<1>12. CASE ~ (Len(order) > RefundedCap)
  <2>1. evicted = {} /\ refund_order' = order
    BY <1>3, <1>12
  <2>2. /\ refund_state' \in [Rids -> {"missing", "pending", "committed", "failed"}]
        /\ \A s \in Rids : refund_state'[s] # "missing" <=> s \in ToSet(order)
    BY <1>3, <1>10, <2>1 DEF RefundTable
  <2>3. ToSet(order) = {s \in Rids : refund_state'[s] # "missing"}
    BY <1>9, <2>2 DEF RefundTable
  <2>4. Len(order) <= RefundedCap
    BY <1>0, <1>2, <1>4, <1>12
  <2> QED BY <1>2, <1>8, <2>1, <2>2, <2>3, <2>4 DEF RefundTable
<1> QED BY <1>11, <1>12

(* _clear_refund_state_if_pending takes an id out of both.                 *)
LEMMA ClearPendingTable ==
  ASSUME RefundTable, NEW r \in Rids, ClearPending(r)
  PROVE  RefundTable'
<1>1. CASE refund_state[r] = "pending"
  <2>1. /\ refund_state' = [refund_state EXCEPT ![r] = "missing"]
        /\ refund_order' = Without(refund_order, r)
    BY <1>1 DEF ClearPending
  <2> DEFINE rest == Without(refund_order, r)
  <2>a. /\ refund_order \in Seq(Rids) /\ Len(refund_order) \in Nat
        /\ Distinct(refund_order) /\ Len(refund_order) <= RefundedCap
        /\ RefundedCap \in Nat
    BY LimiterAssumption DEF RefundTable
  <2>2. /\ rest \in Seq(Rids) /\ Distinct(rest)
        /\ ToSet(rest) = ToSet(refund_order) \ {r}
        /\ Len(rest) = IF r \in ToSet(refund_order) THEN Len(refund_order) - 1
                       ELSE Len(refund_order)
    BY <2>a, WithoutOnce
  <2> HIDE DEF rest
  <2>3. Len(rest) <= RefundedCap
    BY <2>a, <2>2
  <2> USE DEF rest
  <2>4. ToSet(Without(refund_order, r)) = {s \in Rids : refund_state'[s] # "missing"}
    BY <2>1, <2>2 DEF RefundTable
  <2> QED BY <2>1, <2>2, <2>3, <2>4 DEF RefundTable
<1>2. CASE refund_state[r] # "pending"
  BY <1>2 DEF ClearPending, RefundTable
<1> QED BY <1>1, <1>2

(* _mark_refund_state_failed writes its id again, at the end.              *)
LEMMA MarkFailedTable ==
  ASSUME RefundTable, NEW r \in Rids, MarkFailed(r)
  PROVE  RefundTable'
<1>1. CASE refund_state[r] = "pending"
  BY <1>1, RememberTable DEF MarkFailed
<1>2. CASE refund_state[r] # "pending"
  BY <1>2 DEF MarkFailed, RefundTable
<1> QED BY <1>1, <1>2

-----------------------------------------------------------------------------
(* The per-reservation locks *)

(* Refund calls that hold the lock of their reservation, and all that hold *)
(* it or wait for it                                                       *)
Holding == {"refresh", "backend", "written", "duplicate", "unknown", "committed"}
InLock == Holding \cup {"queued"}

LockTypes ==
  /\ refund \in [Refunds -> Refund]
  /\ refund_lock \in [Rids -> Seq(Refunds)]

(* A call is in the queue of its reservation's lock, once, exactly while   *)
(* it waits or holds; the holder is the head.                              *)
LocksInv ==
  /\ \A r \in Rids : Distinct(refund_lock[r])
  /\ \A r \in Rids, c \in Refunds :
       c \in ToSet(refund_lock[r]) <=> refund[c].id = r /\ refund[c].pc \in InLock
  /\ \A c \in Refunds : refund[c].pc \in Holding =>
                          Head(refund_lock[refund[c].id]) = c

(* What a step may do to refund calls without touching a lock              *)
LocksKept ==
  /\ refund_lock' = refund_lock
  /\ \A c \in Refunds :
       /\ refund'[c].pc \in InLock <=> refund[c].pc \in InLock
       /\ refund'[c].pc \in InLock => refund'[c].id = refund[c].id
       /\ refund'[c].pc \in Holding => refund[c].pc \in Holding \/ Holds(c)

(* The record of no refund is a refund that does not run.                  *)
LEMMA NoRefundFields ==
  /\ NoRefund \in Refund
  /\ NoRefund.pc = "idle" /\ ~ NoRefund.allow_closed /\ ~ NoRefund.ok
  /\ ~ NoRefund.touched /\ NoRefund.id \in Rids
<1>1. (CHOOSE r \in Rids : TRUE) \in Rids
  BY LimiterAssumption
<1> QED BY <1>1 DEF NoRefund, Refund

(* A step that leaves the locks alone keeps what they say.                 *)
LEMMA LocksKeptStep ==
  ASSUME LocksInv, LocksKept
  PROVE  LocksInv'
<1>1. (\A r \in Rids : Distinct(refund_lock[r]))'
  BY DEF LocksInv, LocksKept
<1>2. ASSUME NEW r \in Rids, NEW c \in Refunds
      PROVE  (c \in ToSet(refund_lock[r]) <=> refund[c].id = r /\ refund[c].pc \in InLock)'
  BY <1>2 DEF LocksInv, LocksKept
<1>3. ASSUME NEW c \in Refunds, refund'[c].pc \in Holding
      PROVE  (Head(refund_lock[refund[c].id]) = c)'
  <2>1. refund'[c].pc \in InLock
    BY <1>3 DEF InLock
  <2>2. refund'[c].id = refund[c].id
    BY <2>1 DEF LocksKept
  <2>3. Head(refund_lock[refund[c].id]) = c
    BY <1>3 DEF LocksInv, LocksKept, Holds
  <2> QED BY <2>2, <2>3 DEF LocksKept
<1> QED BY <1>1, <1>2, <1>3 DEF LocksInv

(* A call that starts to wait does not get ahead of a holder.              *)
LEMMA QueueStep ==
  ASSUME LockTypes, LocksInv, NEW c \in Refunds, NEW r \in Rids,
         NEW allow \in BOOLEAN, refund[c].pc \notin InLock, Queue(c, r, allow)
  PROVE  /\ LockTypes'
         /\ LocksInv'
<1> DEFINE new == [NoRefund EXCEPT !.pc = "queued", !.id = r, !.allow_closed = allow]
           q == refund_lock[r]
<1>1. PICK i \in Turns(q) : refund_lock' = [refund_lock EXCEPT ![r] = InsertAt(@, i, c)]
  BY DEF Queue
<1>2. refund' = [refund EXCEPT ![c] = new]
  BY DEF Queue
<1>3. new \in Refund /\ new.pc = "queued" /\ new.id = r
  BY NoRefundFields DEF Refund
<1> HIDE DEF new
<1>4. q \in Seq(Refunds) /\ Len(q) \in Nat
  BY DEF LockTypes
<1>5. Distinct(q) /\ c \notin ToSet(q)
  BY DEF LocksInv
<1>6. /\ i \in 1..Len(q) + 1
      /\ i = 1 => q = << >> \/ At(Head(q), "queued")
  <2>1. CASE ~ Threads
    <3>1. i = Len(q) + 1
      BY <1>1, <2>1 DEF Turns
    <3>2. i = 1 => Len(q) = 0
      BY <1>4, <3>1
    <3>3. Len(q) = 0 => q = << >>
      BY <1>4, EmptySeq
    <3> QED BY <1>4, <3>1, <3>2, <3>3
  <2>2. CASE Threads
    BY <1>1, <2>2 DEF Turns
  <2> QED BY <2>1, <2>2
<1> DEFINE w == InsertAt(q, i, c)
<1>7. /\ w \in Seq(Refunds) /\ Distinct(w)
      /\ ToSet(w) = ToSet(q) \cup {c}
      /\ Head(w) = IF i = 1 THEN c ELSE Head(q)
  BY <1>4, <1>5, <1>6, InsertOnce
<1> HIDE DEF w
<1>8. /\ refund_lock'[r] = w
      /\ \A s \in Rids : s # r => refund_lock'[s] = refund_lock[s]
      /\ refund_lock' \in [Rids -> Seq(Refunds)]
  BY <1>1, <1>7 DEF LockTypes, w
<1>9. /\ refund'[c] = new
      /\ \A d \in Refunds : d # c => refund'[d] = refund[d]
      /\ refund' \in [Refunds -> Refund]
  BY <1>2, <1>3 DEF LockTypes
<1>10. (\A s \in Rids : Distinct(refund_lock[s]))'
  BY <1>7, <1>8 DEF LocksInv
<1>11. ASSUME NEW s \in Rids, NEW d \in Refunds
       PROVE  (d \in ToSet(refund_lock[s]) <=> refund[d].id = s /\ refund[d].pc \in InLock)'
  <2>0. d \in ToSet(refund_lock[s]) <=> refund[d].id = s /\ refund[d].pc \in InLock
    BY DEF LocksInv
  <2>1. CASE d = c
    BY <1>3, <1>7, <1>8, <1>9, <2>0, <2>1 DEF InLock
  <2>2. CASE d # c
    BY <1>7, <1>8, <1>9, <2>0, <2>2
  <2> QED BY <2>1, <2>2
<1>12. ASSUME NEW d \in Refunds, refund'[d].pc \in Holding
       PROVE  (Head(refund_lock[refund[d].id]) = d)'
  <2>1. d # c
    BY <1>3, <1>9, <1>12 DEF Holding
  <2>2. refund'[d] = refund[d] /\ refund[d].pc \in Holding /\ refund[d].id \in Rids
    BY <1>9, <1>12, <2>1 DEF LockTypes, Refund
  <2>3. Head(refund_lock[refund[d].id]) = d
    BY <2>2 DEF LocksInv
  <2>4. CASE refund[d].id # r
    BY <1>8, <2>2, <2>3, <2>4
  <2>5. CASE refund[d].id = r
    <3>1. d \in ToSet(q) /\ Head(q) = d /\ ~ At(d, "queued")
      BY <2>2, <2>3, <2>5 DEF LocksInv, At, InLock, Holding
    <3>2. q # << >>
      BY <3>1 DEF ToSet
    <3>3. i # 1
      BY <1>6, <3>1, <3>2
    <3> QED BY <1>7, <1>8, <2>2, <2>5, <3>1, <3>3
  <2> QED BY <2>4, <2>5
<1> QED BY <1>8, <1>9, <1>10, <1>11, <1>12 DEF LockTypes, LocksInv

(* A call that ends is no more in a lock's queue, and the lock's holder is *)
(* another only if it was the holder.                                      *)
LEMMA LeaveStep ==
  ASSUME LockTypes, LocksInv, NEW c \in Refunds, NEW ok \in BOOLEAN, Leave(c, ok)
  PROVE  /\ LockTypes'
         /\ LocksInv'
         /\ \A d \in Refunds : d # c => refund'[d] = refund[d]
         /\ refund'[c].pc \notin InLock \cup {"entry"}
         /\ IF c \in Rids THEN /\ refund'[c].pc = IF ok THEN "done" ELSE "failed"
                               /\ refund'[c].id = refund[c].id
            ELSE refund'[c] = NoRefund
<1> DEFINE r == refund[c].id
           q == refund_lock[r]
           w == Without(q, c)
<1>0. r \in Rids /\ refund[c] \in Refund
  BY DEF LockTypes, Refund
<1>1. /\ refund_lock' = [refund_lock EXCEPT ![r] = w]
      /\ refund' = [refund EXCEPT ![c] = Over(c, ok)]
  BY DEF Leave
<1>2. /\ Over(c, ok) \in Refund
      /\ Over(c, ok).pc \notin InLock \cup {"entry"}
      /\ IF c \in Rids THEN /\ Over(c, ok).pc = IF ok THEN "done" ELSE "failed"
                            /\ Over(c, ok).id = refund[c].id
         ELSE Over(c, ok) = NoRefund
  <2>1. CASE c \in Rids
    BY <1>0, <2>1 DEF Over, Refund, InLock, Holding
  <2>2. CASE c \notin Rids
    BY <2>2, NoRefundFields DEF Over, InLock, Holding
  <2> QED BY <2>1, <2>2
<1>3. q \in Seq(Refunds) /\ Distinct(q)
  BY <1>0 DEF LockTypes, LocksInv
<1>4. /\ w \in Seq(Refunds) /\ Distinct(w)
      /\ ToSet(w) = ToSet(q) \ {c}
      /\ q # << >> /\ Head(q) # c => Head(w) = Head(q)
  BY <1>3, WithoutOnce
<1> HIDE DEF w
<1>5. /\ refund_lock'[r] = w
      /\ \A s \in Rids : s # r => refund_lock'[s] = refund_lock[s]
      /\ refund_lock' \in [Rids -> Seq(Refunds)]
  BY <1>0, <1>1, <1>4 DEF LockTypes
<1>6. /\ refund'[c] = Over(c, ok)
      /\ \A d \in Refunds : d # c => refund'[d] = refund[d]
      /\ refund' \in [Refunds -> Refund]
  BY <1>1, <1>2 DEF LockTypes
<1>7. (\A s \in Rids : Distinct(refund_lock[s]))'
  BY <1>4, <1>5 DEF LocksInv
<1>8. ASSUME NEW s \in Rids, NEW d \in Refunds
      PROVE  (d \in ToSet(refund_lock[s]) <=> refund[d].id = s /\ refund[d].pc \in InLock)'
  <2>0. d \in ToSet(refund_lock[s]) <=> refund[d].id = s /\ refund[d].pc \in InLock
    BY DEF LocksInv
  <2>1. CASE d = c
    BY <1>2, <1>4, <1>5, <1>6, <2>0, <2>1
  <2>2. CASE d # c
    BY <1>4, <1>5, <1>6, <2>0, <2>2
  <2> QED BY <2>1, <2>2
<1>9. ASSUME NEW d \in Refunds, refund'[d].pc \in Holding
      PROVE  (Head(refund_lock[refund[d].id]) = d)'
  <2>1. d # c
    BY <1>2, <1>6, <1>9 DEF InLock
  <2>2. refund'[d] = refund[d] /\ refund[d].pc \in Holding /\ refund[d].id \in Rids
    BY <1>6, <1>9, <2>1 DEF LockTypes, Refund
  <2>3. Head(refund_lock[refund[d].id]) = d
    BY <2>2 DEF LocksInv
  <2>4. CASE refund[d].id # r
    BY <1>5, <2>2, <2>3, <2>4
  <2>5. CASE refund[d].id = r
    <3>1. d \in ToSet(q) /\ Head(q) = d
      BY <2>2, <2>3, <2>5 DEF LocksInv, InLock
    <3>2. q # << >>
      BY <3>1 DEF ToSet
    <3> QED BY <1>4, <1>5, <2>1, <2>2, <2>5, <3>1, <3>2
  <2> QED BY <2>4, <2>5
<1> QED BY <1>2, <1>5, <1>6, <1>7, <1>8, <1>9 DEF LockTypes, LocksInv

-----------------------------------------------------------------------------
(* The kinds of step of Next                                               *)

(* Steps of an acquire that no refund call sees                            *)
QuietAcquire(r) ==
  \/ AcquireCall(r) \/ AcquireSend(r) \/ AcquireAbort(r) \/ BackendRefuses(r)
  \/ CancelAcquire(r) \/ DeliverRecovery(r) \/ AcquireRefused(r) \/ BeginDelivery(r)
  \/ Finalize(r) \/ Deliver(r) \/ InterruptDelivery(r)

(* Steps that charge a bucket                                              *)
Charging(r) == BackendCharges(r) \/ BackendCleanupFails(r)

(* Steps of a close that leave the tables, and those that may empty them   *)
QuietClose(k) ==
  CloseCall(k) \/ AcquiresDrained(k) \/ CloseMark(k) \/ RefundsDrained(k) \/ CloseFails(k)
Clearing(k) == CloseAgain(k) \/ CloseBackend(k)

(* Every step is of one of these kinds.                                    *)
LEMMA NextCases ==
  ASSUME Next
  PROVE  \/ \E r \in Rids : QuietAcquire(r) \/ Charging(r) \/ Undeliver(r) \/ UndeliverEnds(r)
         \/ \E c \in Refunds : RefundStep(c) \/ RefundGiveUp(c)
         \/ \E c \in Refunds, r \in Rids : RefundCall(c, r)
         \/ \E k \in Closers : QuietClose(k) \/ Clearing(k)
         \/ ClearUnused
BY DEF Next, AcquireStep, CloseStep, QuietAcquire, Charging, QuietClose,
   Clearing

-----------------------------------------------------------------------------
(* Types *)

(* TypeOK but for the refund calls, the locks and the table of states      *)
Types ==
  /\ deployment \in Deployments
  /\ acquire \in [Rids -> Acquire]
  /\ cancelled \subseteq Rids
  /\ pending \subseteq Rids /\ in_flight \subseteq Rids /\ cleanup \subseteq Rids
  /\ pending_drained \in BOOLEAN
  /\ in_progress \subseteq Rids
  /\ closing \in BOOLEAN /\ closed \in BOOLEAN /\ close_drained \in BOOLEAN
  /\ family \in BOOLEAN /\ backend_open \in BOOLEAN
  /\ closer \in [Closers -> {"idle", "acquires", "lifecycle", "refunds", "backend"}]
  /\ draining \in [Closers -> SUBSET Refunds]
  /\ marker \in [Rids -> {"absent", "live", "settled"}]
  /\ credits \in [Rids -> Nat]
  /\ given_up \subseteq Rids

(* The parts make up TypeOK.                                               *)
LEMMA TypeParts ==
  ASSUME Types, LockTypes, RefundTable
  PROVE  TypeOK
BY DEF Types, LockTypes, RefundTable, TypeOK

(* Every step keeps the types of the plain tables.                         *)
LEMMA TypesStep ==
  ASSUME Types, LockTypes, Next
  PROVE  Types'
<1> USE DEF acquireVars, slotVars, refundVars, closeVars, ledgerVars
<1>1. ASSUME NEW r \in Rids, QuietAcquire(r)
      PROVE  Types'
  <2>1. CASE AcquireCall(r)
    BY <2>1 DEF Types, AcquireCall, Move, Acquire
  <2>2. CASE AcquireSend(r) \/ BackendRefuses(r) \/ CancelAcquire(r)
    BY <2>2 DEF Types, AcquireSend, BackendRefuses, CancelAcquire, Move, Acquire
  <2>3. CASE AcquireAbort(r) \/ AcquireRefused(r)
    BY <2>3 DEF Types, AcquireAbort, AcquireRefused, RollbackSlots, Drained,
       Move, Acquire
  <2>4. CASE DeliverRecovery(r)
    BY <2>4 DEF Types, DeliverRecovery, FinalizeSlots, Drained, Move, Acquire
  <2>5. CASE BeginDelivery(r) \/ Deliver(r)
    BY <2>5 DEF Types, BeginDelivery, BeginCleanup, Deliver, EndCleanup,
       Drained, Move, Acquire
  <2>6. CASE Finalize(r)
    BY <2>6 DEF Types, Finalize, Drained, Move, Acquire
  <2>7. CASE InterruptDelivery(r)
    BY <2>7 DEF Types, InterruptDelivery, Drained, Move, Acquire
  <2> QED BY <1>1, <2>1, <2>2, <2>3, <2>4, <2>5, <2>6, <2>7 DEF QuietAcquire
<1>2. ASSUME NEW r \in Rids, Charging(r)
      PROVE  Types'
  BY <1>2 DEF Types, Charging, BackendCharges, BackendCleanupFails, Move,
     Acquire
<1>3. ASSUME NEW r \in Rids, Undeliver(r)
      PROVE  Types'
  <2>1. /\ acquire' \in [Rids -> Acquire]
        /\ UNCHANGED <<deployment, cancelled, in_progress, closeVars, family, ledgerVars,
                       given_up>>
    BY <1>3 DEF Types, Undeliver, Move, Acquire
  <2>2. FinalizeSlots(r) \/ UNCHANGED slotVars
    BY <1>3 DEF Undeliver
  <2>3. /\ pending' \subseteq Rids /\ in_flight' \subseteq Rids /\ cleanup' \subseteq Rids
        /\ pending_drained' \in BOOLEAN
    BY <2>2 DEF Types, FinalizeSlots, Drained
  <2> QED BY <2>1, <2>3 DEF Types
<1>4. ASSUME NEW r \in Rids, UndeliverEnds(r)
      PROVE  Types'
  BY <1>4 DEF Types, UndeliverEnds, EndCleanup, Drained, Move, Acquire
<1>5. ASSUME NEW c \in Refunds, RefundStep(c) \/ RefundGiveUp(c)
      PROVE  Types'
  <2>0. refund[c].id \in Rids
    BY DEF LockTypes, Refund
  <2>1. CASE RefundEnter(c)
    BY <2>0, <2>1 DEF Types, RefundEnter, Expire, ForgetSlots
  <2>2. CASE RefundGiveUp(c) \/ RefundRefreshFails(c) \/ RefundErrors(c) \/ RefundReplyLost(c)
    BY <2>2 DEF Types, RefundGiveUp, RefundRefreshFails, RefundErrors,
       RefundReplyLost, Finish
  <2>3. CASE RefundStart(c)
    BY <2>0, <2>3 DEF Types, RefundStart
  <2>4. CASE RefundSend(c)
    BY <2>4 DEF Types, RefundSend, Finish
  <2>5. CASE BackendRefunds(c)
    BY <2>0, <2>5 DEF Types, BackendRefunds
  <2>6. CASE RefundUnknown(c)
    BY <2>6 DEF Types, RefundUnknown, Finish, ForgetSlots
  <2>7. CASE RefundMisread(c)
    BY <2>0, <2>7 DEF Types, RefundMisread, Finish, ForgetSlots
  <2>8. CASE RefundCommit(c)
    BY <2>8 DEF Types, RefundCommit, ForgetSlots
  <2>9. CASE RefundReturns(c)
    BY <2>9 DEF Types, RefundReturns, Finish, ForgetSlots
  <2> QED BY <1>5, <2>1, <2>2, <2>3, <2>4, <2>5, <2>6, <2>7, <2>8, <2>9
             DEF RefundStep
<1>6. ASSUME NEW c \in Refunds, NEW r \in Rids, RefundCall(c, r)
      PROVE  Types'
  BY <1>6 DEF Types, RefundCall, Expire, ForgetSlots
<1>7. ASSUME NEW k \in Closers, QuietClose(k)
      PROVE  Types'
  <2>0. Locked \subseteq Refunds
    <3>1. \A r \in Rids : ToSet(refund_lock[r]) \subseteq Refunds
      BY DEF LockTypes, ToSet
    <3> QED BY <3>1 DEF Locked
  <2>1. CASE CloseCall(k)
    BY <2>1 DEF Types, CloseCall, Drained, Go
  <2>2. CASE AcquiresDrained(k) \/ RefundsDrained(k)
    BY <2>2 DEF Types, AcquiresDrained, RefundsDrained, Go
  <2>3. CASE CloseMark(k)
    BY <2>0, <2>3 DEF Types, CloseMark, Go
  <2>4. CASE CloseFails(k)
    BY <2>4 DEF Types, CloseFails, Go
  <2> QED BY <1>7, <2>1, <2>2, <2>3, <2>4 DEF QuietClose
<1>8. ASSUME NEW k \in Closers, Clearing(k)
      PROVE  Types'
  BY <1>8 DEF Types, Clearing, CloseAgain, CloseBackend, ClearRetained, Go
<1>9. CASE ClearUnused
  BY <1>9 DEF Types, ClearUnused
<1> QED BY <1>1, <1>2, <1>3, <1>4, <1>5, <1>6, <1>7, <1>8, <1>9, NextCases

(* Every step keeps the table of refund states.                            *)
LEMMA RefundTableStep ==
  ASSUME RefundTable, LockTypes, Next
  PROVE  RefundTable'
<1> USE DEF refundVars
<1>1. CASE UNCHANGED <<refund_state, refund_order>>
  BY <1>1 DEF RefundTable
<1>2. ASSUME NEW r \in Rids,
             QuietAcquire(r) \/ Charging(r) \/ Undeliver(r) \/ UndeliverEnds(r)
      PROVE  UNCHANGED <<refund_state, refund_order>>
  BY <1>2 DEF QuietAcquire, AcquireCall, AcquireSend, AcquireAbort,
     BackendRefuses,
              CancelAcquire, DeliverRecovery, AcquireRefused, BeginDelivery, Finalize,
              Deliver, InterruptDelivery, Charging, BackendCharges, BackendCleanupFails,
              Undeliver, UndeliverEnds
<1>3. ASSUME NEW c \in Refunds, RefundStep(c) \/ RefundGiveUp(c)
      PROVE  RefundTable'
  <2>0. refund[c].id \in Rids
    BY DEF LockTypes, Refund
  <2>1. CASE RefundEnter(c) \/ RefundGiveUp(c) \/ BackendRefunds(c)
    BY <1>1, <2>1 DEF RefundEnter, RefundGiveUp, BackendRefunds
  <2>2. CASE RefundStart(c)
    BY <1>1, <2>0, <2>2, RememberTable DEF RefundStart
  <2>3. CASE RefundRefreshFails(c) \/ RefundUnknown(c)
    BY <2>0, <2>3, ClearPendingTable DEF RefundRefreshFails, RefundUnknown
  <2>4. CASE RefundSend(c)
    BY <1>1, <2>0, <2>4, ClearPendingTable DEF RefundSend
  <2>5. CASE RefundErrors(c) \/ RefundReplyLost(c)
    BY <2>0, <2>5, MarkFailedTable DEF RefundErrors, RefundReplyLost
  <2>6. CASE RefundMisread(c) \/ RefundCommit(c)
    BY <2>0, <2>6, RememberTable DEF RefundMisread, RefundCommit
  <2>7. CASE RefundReturns(c)
    BY <1>1, <2>0, <2>7, RememberTable DEF RefundReturns
  <2> QED BY <1>3, <2>1, <2>2, <2>3, <2>4, <2>5, <2>6, <2>7 DEF RefundStep
<1>4. ASSUME NEW c \in Refunds, NEW r \in Rids, RefundCall(c, r)
      PROVE  UNCHANGED <<refund_state, refund_order>>
  BY <1>4 DEF RefundCall
<1>5. ASSUME NEW k \in Closers, QuietClose(k)
      PROVE  UNCHANGED <<refund_state, refund_order>>
  BY <1>5 DEF QuietClose, CloseCall, AcquiresDrained, CloseMark,
     RefundsDrained, CloseFails
<1>6. ASSUME NEW k \in Closers, Clearing(k)
      PROVE  RefundTable'
  <2>1. CASE ClearRetained
    <3>1. refund_state' = [r \in Rids |-> "missing"] /\ refund_order' = << >>
      BY <2>1 DEF ClearRetained
    <3>2. RefundedCap \in Nat
      BY LimiterAssumption
    <3>3. Len(<< >>) = 0 /\ ToSet(<< >>) = {} /\ Distinct(<< >>)
      BY DEF ToSet, Distinct
    <3> QED BY <3>1, <3>2, <3>3 DEF RefundTable
  <2>2. CASE UNCHANGED refundVars
    BY <1>1, <2>2
  <2> QED BY <1>6, <2>1, <2>2 DEF Clearing, CloseAgain, CloseBackend
<1>7. ClearUnused => UNCHANGED <<refund_state, refund_order>>
  BY DEF ClearUnused
<1> QED BY <1>1, <1>2, <1>3, <1>4, <1>5, <1>6, <1>7, NextCases

-----------------------------------------------------------------------------
(* The refund calls and their locks *)

Handed == {"returned", "recovered"}

(* The task of an undelivered acquire runs while its acquire waits for it, *)
(* a caller's refund only for a reservation it was handed: they never meet *)
(* on one id.                                                              *)
CallsInv ==
  /\ \A r \in Rids : refund[r].pc # "idle" => acquire[r] = "refunding" /\ refund[r].id = r
  /\ \A c \in Users : /\ refund[c].pc \in InLock \cup {"idle"}
                      /\ ~ refund[c].allow_closed
                      /\ refund[c].pc # "idle" => acquire[refund[c].id] \in Handed

(* What the steps of a refund call do to the calls: nothing, the call gets *)
(* on while it holds its lock, it ends, the task of an acquire enters.     *)
SameCall(c) == /\ refund'[c].pc = refund[c].pc
               /\ refund'[c].id = refund[c].id
               /\ refund'[c].allow_closed = refund[c].allow_closed
SameCalls == refund_lock' = refund_lock /\ \A c \in Refunds : SameCall(c)

Advances(c) ==
  /\ refund_lock' = refund_lock
  /\ refund[c].pc \in Holding \/ Holds(c)
  /\ refund'[c].pc \in Holding
  /\ refund'[c].id = refund[c].id
  /\ refund'[c].allow_closed = refund[c].allow_closed
  /\ \A d \in Refunds : d # c => SameCall(d)

CallEnds(c) == refund[c].pc \in InLock \cup {"entry"} /\ \E ok \in BOOLEAN : Leave(c, ok)

CallEnters(c) == At(c, "entry") /\ Queue(c, refund[c].id, refund[c].allow_closed)

(* An acquire that was handed over or waits for its task stays there.      *)
AcquireKept ==
  \A r \in Rids : acquire[r] \in Handed \cup {"refunding"} => acquire'[r] = acquire[r]

(* Marking refunds as touched moves none of them.                          *)
LEMMA TouchedCalls ==
  ASSUME LockTypes, NEW c \in Refunds
  PROVE  /\ Touched(c) \in [Refunds -> Refund]
         /\ \A d \in Refunds : /\ Touched(c)[d].pc = refund[d].pc
                               /\ Touched(c)[d].id = refund[d].id
                               /\ Touched(c)[d].allow_closed = refund[d].allow_closed
                               /\ Touched(c)[d].ok = refund[d].ok
<1>1. ASSUME NEW d \in Refunds
      PROVE  /\ Touched(c)[d] \in Refund
             /\ Touched(c)[d].pc = refund[d].pc
             /\ Touched(c)[d].id = refund[d].id
             /\ Touched(c)[d].allow_closed = refund[d].allow_closed
             /\ Touched(c)[d].ok = refund[d].ok
  <2>1. refund[d] \in Refund
    BY DEF LockTypes
  <2> QED BY <2>1 DEF Touched, Refund
<1>2. Touched(c) = [d \in Refunds |-> Touched(c)[d]]
  BY DEF Touched
<1> QED BY <1>1, <1>2

(* Every step of a refund call is of one of the four kinds.                *)
LEMMA RefundKinds ==
  ASSUME LockTypes, NEW c \in Refunds, RefundStep(c) \/ RefundGiveUp(c)
  PROVE  /\ UNCHANGED acquire
         /\ \/ CallEnds(c)
            \/ CallEnters(c)
            \/ Advances(c) /\ LockTypes'
<1>0. refund[c].id \in Rids /\ refund[c] \in Refund
  BY DEF LockTypes, Refund
<1> USE DEF acquireVars, At
<1>1. CASE RefundEnter(c)
  BY <1>1 DEF RefundEnter, CallEnds, CallEnters
<1>2. CASE RefundGiveUp(c) \/ RefundRefreshFails(c) \/ RefundErrors(c) \/ RefundReplyLost(c)
           \/ RefundUnknown(c) \/ RefundMisread(c)
  BY <1>2 DEF RefundGiveUp, RefundRefreshFails, RefundErrors, RefundReplyLost,
     RefundUnknown,
              RefundMisread, Finish, CallEnds, InLock, Holding
<1>3. CASE RefundReturns(c)
  BY <1>0, <1>3 DEF RefundReturns, Finish, CallEnds, InLock, Holding, Refund
<1>4. CASE RefundStart(c)
  <2>1. CASE Leave(c, FALSE)
    BY <1>4, <2>1 DEF RefundStart, CallEnds, InLock, Holds
  <2>2. CASE ~ Leave(c, FALSE)
    <3>1. /\ refund' = [refund EXCEPT ![c] = [@ EXCEPT !.pc = "refresh"]]
          /\ UNCHANGED <<refund_lock, acquire>> /\ Holds(c)
      BY <1>4, <2>2 DEF RefundStart
    <3> QED BY <1>0, <3>1 DEF Advances, SameCall, LockTypes, Refund, Holding
  <2> QED BY <2>1, <2>2
<1>5. CASE RefundSend(c)
  <2>1. CASE Leave(c, FALSE)
    BY <1>5, <2>1 DEF RefundSend, CallEnds, InLock, Holding
  <2>2. CASE ~ Leave(c, FALSE)
    <3>1. /\ refund' = [refund EXCEPT ![c] = [@ EXCEPT !.pc = "backend"]]
          /\ UNCHANGED <<refund_lock, acquire>> /\ refund[c].pc \in Holding
      BY <1>5, <2>2 DEF RefundSend, Finish, Holding
    <3> QED BY <1>0, <3>1 DEF Advances, SameCall, LockTypes, Refund, Holding
  <2> QED BY <2>1, <2>2
<1>6. CASE BackendRefunds(c)
  <2>1. /\ UNCHANGED <<refund_lock, acquire>> /\ refund[c].pc \in Holding
        /\ \E answer \in {"written", "duplicate", "unknown"} :
             refund' = [Touched(c) EXCEPT ![c].pc = answer]
             \/ refund' = [refund EXCEPT ![c].pc = answer]
    BY <1>6 DEF BackendRefunds, Holding
  <2>2. PICK answer \in {"written", "duplicate", "unknown"} :
             refund' = [Touched(c) EXCEPT ![c].pc = answer]
             \/ refund' = [refund EXCEPT ![c].pc = answer]
    BY <2>1
  <2>3. CASE refund' = [refund EXCEPT ![c].pc = answer]
    BY <1>0, <2>1, <2>3 DEF Advances, SameCall, LockTypes, Refund, Holding
  <2>4. CASE refund' = [Touched(c) EXCEPT ![c].pc = answer]
    <3> DEFINE t == Touched(c)
    <3>1. /\ t \in [Refunds -> Refund]
          /\ \A d \in Refunds : /\ t[d].pc = refund[d].pc
                                /\ t[d].id = refund[d].id
                                /\ t[d].allow_closed = refund[d].allow_closed
      BY TouchedCalls
    <3> HIDE DEF t
    <3>2. refund' = [t EXCEPT ![c].pc = answer]
      BY <2>4 DEF t
    <3> QED BY <1>0, <2>1, <3>1, <3>2 DEF Advances, SameCall, LockTypes,
               Refund, Holding
  <2> QED BY <2>2, <2>3, <2>4
<1>7. CASE RefundCommit(c)
  <2> DEFINE ok == At(c, "written")
             new == [refund[c] EXCEPT !.pc = "committed", !.ok = ok, !.touched = FALSE]
  <2>1. /\ refund' = [refund EXCEPT ![c] = new]
        /\ UNCHANGED <<refund_lock, acquire>> /\ refund[c].pc \in Holding
    BY <1>7 DEF RefundCommit, Holding
  <2>2. ok \in BOOLEAN
    OBVIOUS
  <2> HIDE DEF ok
  <2>3. /\ new \in Refund /\ new.pc = "committed"
        /\ new.id = refund[c].id /\ new.allow_closed = refund[c].allow_closed
    BY <1>0, <2>2 DEF Refund
  <2> HIDE DEF new
  <2>4. /\ refund'[c] = new /\ \A d \in Refunds : d # c => refund'[d] = refund[d]
        /\ LockTypes'
    BY <2>1, <2>3 DEF LockTypes
  <2> QED BY <2>1, <2>3, <2>4 DEF Advances, SameCall, Holding
<1> QED BY <1>1, <1>2, <1>3, <1>4, <1>5, <1>6, <1>7 DEF RefundStep

(* Each kind of step keeps the locks and who may call.                     *)
LEMMA CallKindsStep ==
  ASSUME LockTypes, LocksInv, CallsInv, NEW c \in Refunds, UNCHANGED acquire,
         CallEnds(c) \/ CallEnters(c) \/ (Advances(c) /\ LockTypes')
  PROVE  LockTypes' /\ LocksInv' /\ CallsInv'
<1>0. refund[c].id \in Rids /\ refund[c].allow_closed \in BOOLEAN
  BY DEF LockTypes, Refund
<1>u. Rids \cap Users = {} /\ Refunds = Rids \cup Users
  BY LimiterAssumption DEF Refunds
<1>1. CASE CallEnds(c)
  <2>1. PICK ok \in BOOLEAN : Leave(c, ok)
    BY <1>1 DEF CallEnds
  <2>2. refund[c].pc # "idle"
    BY <1>1 DEF CallEnds, InLock, Holding
  <2>3. /\ LockTypes' /\ LocksInv'
        /\ \A d \in Refunds : d # c => refund'[d] = refund[d]
        /\ IF c \in Rids THEN refund'[c].id = refund[c].id ELSE refund'[c] = NoRefund
    BY <2>1, LeaveStep
  <2>4. (\A r \in Rids : refund[r].pc # "idle" => acquire[r] = "refunding" /\ refund[r].id = r)'
    BY <1>u, <2>2, <2>3 DEF CallsInv
  <2>5. (\A d \in Users : /\ refund[d].pc \in InLock \cup {"idle"}
                          /\ ~ refund[d].allow_closed
                          /\ refund[d].pc # "idle" => acquire[refund[d].id] \in Handed)'
    <3> SUFFICES ASSUME NEW d \in Users
                 PROVE  (/\ refund[d].pc \in InLock \cup {"idle"}
                         /\ ~ refund[d].allow_closed
                         /\ refund[d].pc # "idle" => acquire[refund[d].id] \in Handed)'
      OBVIOUS
    <3>1. CASE d = c
      BY <1>u, <2>3, <3>1, NoRefundFields
    <3>2. CASE d # c
      BY <1>u, <2>3, <3>2 DEF CallsInv
    <3> QED BY <3>1, <3>2
  <2> QED BY <2>3, <2>4, <2>5 DEF CallsInv
<1>2. CASE CallEnters(c)
  <2>1. /\ refund[c].pc = "entry" /\ refund[c].pc \notin InLock
        /\ Queue(c, refund[c].id, refund[c].allow_closed)
    BY <1>2 DEF CallEnters, At, InLock, Holding
  <2>2. LockTypes' /\ LocksInv'
    BY <1>0, <2>1, QueueStep
  <2>3. c \in Rids
    BY <1>u, <2>1 DEF CallsInv, InLock, Holding
  <2>4. /\ refund'[c].id = refund[c].id
        /\ \A d \in Refunds : d # c => refund'[d] = refund[d]
    BY <2>1, NoRefundFields DEF Queue, LockTypes, Refund
  <2>5. CallsInv'
    BY <1>u, <2>1, <2>3, <2>4 DEF CallsInv
  <2> QED BY <2>2, <2>5
<1>3. CASE Advances(c) /\ LockTypes'
  <2>0. /\ refund[c].pc \in Holding \/ Holds(c)
        /\ refund[c].pc \in InLock /\ refund'[c].pc \in InLock
        /\ refund_lock' = refund_lock
    BY <1>3 DEF Advances, Holds, At, InLock
  <2>1. \A d \in Refunds : /\ refund'[d].id = refund[d].id
                           /\ refund'[d].allow_closed = refund[d].allow_closed
                           /\ refund'[d].pc = refund[d].pc
                              \/ /\ d = c
                                 /\ refund[d].pc \in InLock /\ refund'[d].pc \in InLock
    BY <1>3, <2>0 DEF Advances, SameCall
  <2>4. ASSUME NEW d \in Refunds
        PROVE  /\ refund'[d].pc \in InLock <=> refund[d].pc \in InLock
               /\ refund'[d].pc \in InLock => refund'[d].id = refund[d].id
               /\ refund'[d].pc \in Holding => refund[d].pc \in Holding \/ Holds(d)
    BY <2>0, <2>1
  <2>2. LocksInv'
    BY <2>0, <2>4, LocksKeptStep DEF LocksKept
  <2>3. "idle" \notin InLock
    BY DEF InLock, Holding
  <2>5. CallsInv'
    BY <1>u, <2>1, <2>3 DEF CallsInv
  <2> QED BY <1>3, <2>2, <2>5
<1> QED BY <1>1, <1>2, <1>3

(* Steps that leave the calls where they are keep the locks as well.       *)
LEMMA SameCallsStep ==
  ASSUME LockTypes', LocksInv, CallsInv, SameCalls, AcquireKept, LockTypes
  PROVE  LocksInv' /\ CallsInv'
<1>1. LocksKept
  BY DEF SameCalls, SameCall, LocksKept
<1>2. LocksInv'
  BY <1>1, LocksKeptStep
<1>3. \A c \in Refunds : refund[c].id \in Rids
  BY DEF LockTypes, Refund
<1>4. CallsInv'
  BY <1>3 DEF SameCalls, SameCall, CallsInv, AcquireKept, Refunds
<1> QED BY <1>2, <1>4

(* Every step keeps the locks and who may call.                            *)
LEMMA CallsStep ==
  ASSUME Types, LockTypes, LocksInv, CallsInv, Next
  PROVE  LockTypes' /\ LocksInv' /\ CallsInv'
<1> USE DEF refundVars, acquireVars
<1>u. Rids \cap Users = {} /\ Refunds = Rids \cup Users
  BY LimiterAssumption DEF Refunds
<1>0. ASSUME UNCHANGED <<refund, refund_lock>>, AcquireKept
      PROVE  LockTypes' /\ LocksInv' /\ CallsInv'
  BY <1>0, SameCallsStep DEF SameCalls, SameCall, LockTypes
<1>1. ASSUME NEW r \in Rids, QuietAcquire(r)
      PROVE  LockTypes' /\ LocksInv' /\ CallsInv'
  <2>1. UNCHANGED <<refund, refund_lock>>
    BY <1>1 DEF QuietAcquire, AcquireCall, AcquireSend, AcquireAbort,
       BackendRefuses,
                CancelAcquire, DeliverRecovery, AcquireRefused, BeginDelivery, Finalize,
                Deliver, InterruptDelivery
  <2>2. AcquireKept
    BY <1>1 DEF QuietAcquire, AcquireCall, AcquireSend, AcquireAbort,
       BackendRefuses,
                CancelAcquire, DeliverRecovery, AcquireRefused, BeginDelivery, Finalize,
                Deliver, InterruptDelivery, Move, AcquireKept, Handed, Types
  <2> QED BY <1>0, <2>1, <2>2
<1>2. ASSUME NEW r \in Rids, Charging(r)
      PROVE  LockTypes' /\ LocksInv' /\ CallsInv'
  <2>1. refund' = Touched(r) /\ refund_lock' = refund_lock /\ r \in Refunds
    BY <1>2, <1>u DEF Charging, BackendCharges, BackendCleanupFails
  <2>2. LockTypes' /\ SameCalls
    BY <2>1, TouchedCalls DEF LockTypes, SameCalls, SameCall
  <2>3. AcquireKept
    BY <1>2 DEF Charging, BackendCharges, BackendCleanupFails, Move,
       AcquireKept, Handed, Types
  <2> QED BY <2>2, <2>3, SameCallsStep
<1>3. ASSUME NEW r \in Rids, Undeliver(r) \/ UndeliverEnds(r)
      PROVE  LockTypes' /\ LocksInv' /\ CallsInv'
  <2>1. PICK new \in Refund :
          /\ refund' = [refund EXCEPT ![r] = new]
          /\ \/ /\ new.pc = "entry" /\ new.id = r
                /\ acquire[r] = "undelivered" /\ acquire' = [acquire EXCEPT ![r] = "refunding"]
             \/ /\ new.pc = "idle"
                /\ acquire[r] = "refunding" /\ refund[r].pc \in {"done", "failed"}
                /\ \E to \in {"raised", "recovered"} : acquire' = [acquire EXCEPT ![r] = to]
    <3>1. CASE Undeliver(r)
      <4>1. closed \in BOOLEAN
        BY DEF Types
      <4> DEFINE new == [NoRefund EXCEPT !.pc = "entry", !.id = r, !.allow_closed = closed]
      <4>2. new \in Refund /\ new.pc = "entry" /\ new.id = r
        BY <4>1, NoRefundFields DEF Refund
      <4>3. /\ refund' = [refund EXCEPT ![r] = new]
            /\ acquire[r] = "undelivered" /\ acquire' = [acquire EXCEPT ![r] = "refunding"]
        BY <3>1 DEF Undeliver, Move
      <4> HIDE DEF new
      <4> QED BY <4>2, <4>3
    <3>2. CASE UndeliverEnds(r)
      BY <3>2, NoRefundFields DEF UndeliverEnds, Move
    <3> QED BY <1>3, <3>1, <3>2
  <2>2. refund_lock' = refund_lock
    BY <1>3 DEF Undeliver, UndeliverEnds
  <2>3. /\ refund'[r] = new /\ new.pc \notin InLock
        /\ \A d \in Refunds : d # r => refund'[d] = refund[d]
        /\ refund' \in [Refunds -> Refund]
    BY <1>u, <2>1 DEF LockTypes, InLock, Holding
  <2>4. \A s \in Rids : s # r => acquire'[s] = acquire[s]
    BY <2>1 DEF Types
  <2>5. refund[r].pc \notin InLock /\ acquire[r] \notin Handed
    BY <2>1 DEF CallsInv, InLock, Holding, Handed
  <2>6. LocksKept
    BY <1>u, <2>2, <2>3, <2>5 DEF LocksKept, InLock
  <2>7. LocksInv'
    BY <2>6, LocksKeptStep
  <2>8. (\A s \in Rids : refund[s].pc # "idle" => acquire[s] = "refunding" /\ refund[s].id = s)'
    BY <1>u, <2>1, <2>3, <2>4 DEF CallsInv, Types
  <2>9. \A c \in Users : refund'[c] = refund[c] /\ refund[c].id \in Rids
    BY <1>u, <2>3 DEF LockTypes, Refund
  <2>10. (\A c \in Users : /\ refund[c].pc \in InLock \cup {"idle"}
                           /\ ~ refund[c].allow_closed
                           /\ refund[c].pc # "idle" => acquire[refund[c].id] \in Handed)'
    BY <2>4, <2>5, <2>9 DEF CallsInv
  <2> QED BY <2>2, <2>3, <2>7, <2>8, <2>10 DEF LockTypes, CallsInv
<1>4. ASSUME NEW c \in Refunds, RefundStep(c) \/ RefundGiveUp(c)
      PROVE  LockTypes' /\ LocksInv' /\ CallsInv'
  <2>1. UNCHANGED acquire /\ (CallEnds(c) \/ CallEnters(c) \/ (Advances(c) /\ LockTypes'))
    BY <1>4, RefundKinds
  <2> QED BY <2>1, CallKindsStep
<1>5. ASSUME NEW c \in Refunds, NEW r \in Rids, RefundCall(c, r)
      PROVE  LockTypes' /\ LocksInv' /\ CallsInv'
  <2>1. /\ refund[c].pc = "idle" /\ refund[c].pc \notin InLock /\ acquire' = acquire
        /\ acquire[r] \in Handed
        /\ Queue(c, r, FALSE) \/ UNCHANGED <<refund, refund_lock>>
    BY <1>5 DEF RefundCall, At, InLock, Holding, Handed
  <2>2. CASE UNCHANGED <<refund, refund_lock>>
    BY <1>0, <2>1, <2>2 DEF AcquireKept
  <2>3. CASE Queue(c, r, FALSE)
    <3>1. LockTypes' /\ LocksInv'
      BY <2>1, <2>3, QueueStep
    <3>2. c \in Users
      BY <1>5, <1>u, LimiterAssumption DEF RefundCall, Deployment, Types
    <3>3. /\ refund'[c].id = r /\ refund'[c].pc = "queued" /\ ~ refund'[c].allow_closed
          /\ \A d \in Refunds : d # c => refund'[d] = refund[d]
      BY <2>3, NoRefundFields DEF Queue, LockTypes, Refund
    <3>4. CallsInv'
      BY <1>u, <2>1, <3>2, <3>3 DEF CallsInv, InLock
    <3> QED BY <3>1, <3>4
  <2> QED BY <2>1, <2>2, <2>3
<1>6. ASSUME NEW k \in Closers, QuietClose(k) \/ Clearing(k)
      PROVE  LockTypes' /\ LocksInv' /\ CallsInv'
  <2>1. UNCHANGED <<refund, refund_lock>> /\ acquire' = acquire
    BY <1>6 DEF QuietClose, Clearing, CloseCall, AcquiresDrained, CloseMark,
       RefundsDrained,
                CloseFails, CloseAgain, CloseBackend, ClearRetained
  <2> QED BY <1>0, <2>1 DEF AcquireKept
<1>7. CASE ClearUnused
  BY <1>0, <1>7 DEF ClearUnused, AcquireKept
<1> QED BY <1>1, <1>2, <1>3, <1>4, <1>5, <1>6, <1>7, NextCases

-----------------------------------------------------------------------------
(* Types: the theorem *)

(* The limiter starts with nothing called.                                 *)
LEMMA CallsInit ==
  ASSUME Init
  PROVE  Types /\ LockTypes /\ RefundTable /\ LocksInv /\ CallsInv
<1>1. Types
  BY LimiterAssumption DEF Init, Types, Acquire
<1>2. LockTypes
  BY NoRefundFields DEF Init, LockTypes
<1>3. ToSet(<< >>) = {} /\ Distinct(<< >>)
  BY DEF ToSet, Distinct
<1>4. RefundTable
  BY <1>3, LimiterAssumption DEF Init, RefundTable
<1>5. \A c \in Refunds : refund[c].pc = "idle" /\ ~ refund[c].allow_closed
  BY NoRefundFields DEF Init
<1>6. LocksInv
  BY <1>3, <1>5 DEF Init, LocksInv, InLock, Holding
<1>7. CallsInv
  BY <1>5 DEF CallsInv, Refunds
<1> QED BY <1>1, <1>2, <1>4, <1>6, <1>7

(* Types, the ordered dict, the locks and the calls in one invariant       *)
CallsInvariant == Types /\ LockTypes /\ RefundTable /\ LocksInv /\ CallsInv

(* It holds always.                                                        *)
LEMMA CallsAlways == Spec => []CallsInvariant
<1>1. Init => CallsInvariant
  BY CallsInit DEF CallsInvariant
<1>2. CallsInvariant /\ [Next]_vars => CallsInvariant'
  <2> SUFFICES ASSUME CallsInvariant, [Next]_vars
               PROVE  CallsInvariant'
    OBVIOUS
  <2> USE DEF CallsInvariant
  <2>1. CASE Next
    BY <2>1, TypesStep, RefundTableStep, CallsStep
  <2>2. CASE UNCHANGED vars
    BY <2>2 DEF vars, acquireVars, slotVars, refundVars, closeVars,
       ledgerVars, Types,
                LockTypes, RefundTable, LocksInv, CallsInv
  <2> QED BY <2>1, <2>2
<1> QED BY <1>1, <1>2, PTL DEF Spec

(* Every table of the limiter holds what its code puts there, and the      *)
(* ordered dict of refund states stays within its cap with one entry for   *)
(* each known id.                                                          *)
THEOREM LimiterTypes == Spec => []TypeOK
<1>1. CallsInvariant => TypeOK
  BY TypeParts DEF CallsInvariant
<1> QED BY <1>1, CallsAlways, PTL

-----------------------------------------------------------------------------
(* Slots, and the drains of a close *)

(* An acquire before its finalization, and one finalized but not delivered *)
Early == {"starting", "backend", "charged", "refused", "stuck", "finalizing"}
Late == {"event", "undelivered"}

(* A refund call that has not written its outcome                          *)
Busy == (InLock \ {"committed"}) \cup {"entry"}

(* The drain event is set only when nothing is pending and no delivery is  *)
(* cleaned up; an acquire has its slot, and one whose outcome is still     *)
(* open its mark in cleanup, until the refund of an undelivered one has    *)
(* committed.                                                              *)
SlotsInv ==
  /\ pending_drained => pending = {} /\ cleanup = {}
  /\ \A r \in Rids :
       /\ acquire[r] \in Early => r \in pending
       /\ acquire[r] \in Late => r \in in_flight
       /\ acquire[r] \in Late \cup {"finalizing"} => r \in cleanup
       /\ refund[r].pc \in Busy => r \in cleanup

(* No acquire runs and no delivery is cleaned up; none can start any more. *)
Calm ==
  /\ closing \/ closed
  /\ pending = {} /\ cleanup = {}
  /\ \A r \in Rids : acquire[r] \notin Early \cup Late

(* A close that has drained the acquires finds the limiter calm; one that  *)
(* drains the refunds waits for every call that is in a lock.              *)
CloseInv ==
  /\ \A k \in Closers : closer[k] # "idle" => closing \/ closed
  /\ \A k \in Closers : closer[k] \in {"lifecycle", "refunds", "backend"} => Calm
  /\ \A k \in Closers : closer[k] = "refunds" =>
       closed /\ \A c \in Refunds : refund[c].pc \in InLock => c \in draining[k]
  /\ \A k \in Closers : closer[k] = "backend" => close_drained
  /\ close_drained => Calm /\ closed /\ \A c \in Refunds : refund[c].pc \notin Holding
  /\ ~ backend_open => close_drained

(* What a refund step does to the slots: nothing, or it drops those of its *)
(* id, when it has its outcome.                                            *)
LEMMA RefundSlots ==
  ASSUME LockTypes, LocksInv, NEW c \in Refunds, RefundStep(c) \/ RefundGiveUp(c)
  PROVE  /\ refund[c].pc \in InLock \cup {"entry"}
         /\ \A d \in Refunds : d # c => refund'[d].pc = refund[d].pc
         /\ refund'[c].pc \in Busy => refund[c].pc \in Busy
         /\ \/ UNCHANGED slotVars
            \/ ForgetSlots(refund[c].id) /\ refund'[c].pc \notin Busy
<1> DEFINE Moves == /\ refund[c].pc \in InLock \cup {"entry"}
                    /\ \A d \in Refunds : d # c => refund'[d].pc = refund[d].pc
<1>a. /\ refund[c].id \in Rids /\ refund[c] \in Refund
      /\ refund[c].allow_closed \in BOOLEAN
  BY DEF LockTypes, Refund
<1>b. ASSUME CallEnds(c)
      PROVE  Moves /\ refund'[c].pc \notin Busy
  BY <1>b, LeaveStep DEF CallEnds, Busy
<1>c. ASSUME CallEnters(c)
      PROVE  Moves /\ refund[c].pc \in Busy
  BY <1>a, <1>c DEF CallEnters, Queue, At, Busy, LockTypes
<1>d. ASSUME Advances(c)
      PROVE  Moves
  BY <1>d DEF Advances, SameCall, Holds, At, InLock
<1>e. Moves
  BY <1>b, <1>c, <1>d, RefundKinds
<1> HIDE DEF Moves
<1>f. ASSUME NEW ok \in BOOLEAN, Leave(c, ok) PROVE refund'[c].pc \notin Busy
  BY <1>f, LeaveStep DEF Busy
<1>g. CASE UNCHANGED slotVars /\ refund[c].pc # "committed"
  BY <1>e, <1>g DEF Moves, Busy
<1> USE DEF At
<1>1. CASE RefundEnter(c)
  BY <1>e, <1>f, <1>1 DEF RefundEnter, Expire, Busy, Moves
<1>2. CASE RefundGiveUp(c) \/ RefundRefreshFails(c) \/ RefundErrors(c) \/ RefundReplyLost(c)
           \/ RefundStart(c) \/ RefundSend(c) \/ BackendRefunds(c)
  BY <1>g, <1>2 DEF RefundGiveUp, RefundRefreshFails, RefundErrors,
     RefundReplyLost,
                    RefundStart, RefundSend, BackendRefunds, Holds
<1>3. CASE RefundUnknown(c) \/ RefundMisread(c)
  BY <1>e, <1>f, <1>3 DEF RefundUnknown, RefundMisread, Finish, Moves
<1>4. CASE RefundCommit(c)
  <2>1. refund'[c].pc = "committed" /\ ForgetSlots(refund[c].id)
    BY <1>a, <1>4 DEF RefundCommit, LockTypes, Refund
  <2> QED BY <1>e, <2>1 DEF Moves, Busy
<1>5. CASE RefundReturns(c)
  <2>1. refund[c].ok \in BOOLEAN
    BY <1>a DEF Refund
  <2>2. refund'[c].pc \notin Busy
    BY <1>f, <1>5, <2>1 DEF RefundReturns, Finish
  <2> QED BY <1>e, <1>5, <2>2 DEF RefundReturns, Moves
<1> QED BY <1>1, <1>2, <1>3, <1>4, <1>5 DEF RefundStep

(* The id of a running refund is that of an acquire that has its outcome,  *)
(* and no other task of an undelivered acquire has it.                     *)
LEMMA RefundedAcquire ==
  ASSUME LockTypes, CallsInv, NEW c \in Refunds, refund[c].pc # "idle"
  PROVE  /\ acquire[refund[c].id] \in Handed \cup {"refunding"}
         /\ refund[refund[c].id].pc # "idle" => refund[c].id = c
<1>1. refund[c].id \in Rids
  BY DEF LockTypes, Refund
<1>2. CASE c \in Rids
  BY <1>2 DEF CallsInv
<1>3. CASE c \in Users
  BY <1>1, <1>3 DEF CallsInv, Handed
<1> QED BY <1>2, <1>3 DEF Refunds

(* Every step keeps what the slots say of the acquires.                    *)
LEMMA SlotsStep ==
  ASSUME Types, LockTypes, LocksInv, CallsInv, SlotsInv, CloseInv, Next
  PROVE  SlotsInv'
<1> USE DEF acquireVars, slotVars, refundVars
<1>u. Rids \subseteq Refunds
  BY DEF Refunds
<1>1. ASSUME NEW r \in Rids, QuietAcquire(r)
      PROVE  SlotsInv'
  <2>0. \A s \in Rids : refund'[s].pc = refund[s].pc
    BY <1>1 DEF QuietAcquire, AcquireCall, AcquireSend, AcquireAbort,
       BackendRefuses,
                CancelAcquire, DeliverRecovery, AcquireRefused, BeginDelivery, Finalize,
                Deliver, InterruptDelivery
  <2>b. acquire[r] # "refunding" => refund[r].pc \notin Busy
    BY DEF CallsInv, Busy, InLock, Holding
  <2> USE DEF Early, Late, SlotsInv, Types
  <2>1. CASE AcquireCall(r)
    BY <2>0, <2>b, <2>1 DEF AcquireCall, Move
  <2>2. CASE AcquireSend(r) \/ BackendRefuses(r) \/ CancelAcquire(r)
    BY <2>0, <2>b, <2>2 DEF AcquireSend, BackendRefuses, CancelAcquire, Move
  <2>3. CASE AcquireAbort(r) \/ AcquireRefused(r)
    BY <2>0, <2>b, <2>3 DEF AcquireAbort, AcquireRefused, RollbackSlots,
       Drained, Move
  <2>4. CASE DeliverRecovery(r)
    BY <2>0, <2>b, <2>4 DEF DeliverRecovery, FinalizeSlots, Drained, Move
  <2>5. CASE BeginDelivery(r)
    BY <2>0, <2>b, <2>5 DEF BeginDelivery, BeginCleanup, Move
  <2>6. CASE Finalize(r)
    BY <2>0, <2>b, <2>6 DEF Finalize, Drained, Move
  <2>7. CASE Deliver(r)
    BY <2>0, <2>b, <2>7 DEF Deliver, EndCleanup, Drained, Move
  <2>8. CASE InterruptDelivery(r)
    BY <2>0, <2>b, <2>8 DEF InterruptDelivery, Drained, Move
  <2> QED BY <1>1, <2>1, <2>2, <2>3, <2>4, <2>5, <2>6, <2>7, <2>8
             DEF QuietAcquire
<1>2. ASSUME NEW r \in Rids, Charging(r)
      PROVE  SlotsInv'
  <2>1. /\ UNCHANGED slotVars
        /\ acquire[r] = "backend"
        /\ acquire' = [acquire EXCEPT ![r] = "charged"] \/ acquire' = [acquire EXCEPT ![r] = "stuck"]
    BY <1>2 DEF Charging, BackendCharges, BackendCleanupFails, Move
  <2>2. \A s \in Rids : refund'[s].pc = refund[s].pc
    <3>1. refund' = Touched(r)
      BY <1>2 DEF Charging, BackendCharges, BackendCleanupFails
    <3> QED BY <1>u, <3>1, TouchedCalls
  <2> QED BY <2>1, <2>2 DEF SlotsInv, Types, Early, Late
<1>3. ASSUME NEW r \in Rids, Undeliver(r)
      PROVE  SlotsInv'
  <2>1. /\ acquire[r] = "undelivered"
        /\ acquire' = [acquire EXCEPT ![r] = "refunding"]
        /\ \A s \in Rids : s # r => refund'[s].pc = refund[s].pc
    BY <1>3, <1>u DEF Undeliver, Move, LockTypes
  <2>2. CASE UNCHANGED slotVars
    BY <2>1, <2>2 DEF SlotsInv, Types, Early, Late
  <2>3. CASE FinalizeSlots(r)
    BY <2>1, <2>3 DEF SlotsInv, Types, Early, Late, FinalizeSlots, Drained
  <2> QED BY <1>3, <2>2, <2>3 DEF Undeliver
<1>4. ASSUME NEW r \in Rids, UndeliverEnds(r)
      PROVE  SlotsInv'
  <2>1. /\ acquire[r] = "refunding" /\ EndCleanup(r)
        /\ acquire' = [acquire EXCEPT ![r] = "raised"]
           \/ acquire' = [acquire EXCEPT ![r] = "recovered"]
        /\ refund' = [refund EXCEPT ![r] = NoRefund]
    BY <1>4 DEF UndeliverEnds, Move
  <2>2. /\ refund'[r].pc \notin Busy
        /\ \A s \in Rids : s # r => refund'[s].pc = refund[s].pc
    BY <1>u, <2>1, NoRefundFields DEF LockTypes, Busy, InLock, Holding
  <2> QED BY <2>1, <2>2 DEF SlotsInv, Types, Early, Late, EndCleanup, Drained
<1>5. ASSUME NEW c \in Refunds, RefundStep(c) \/ RefundGiveUp(c)
      PROVE  SlotsInv'
  <2> DEFINE r == refund[c].id
  <2>0. r \in Rids /\ r \in Refunds
    BY <1>u DEF LockTypes, Refund
  <2>1. acquire' = acquire
    BY <1>5, RefundKinds
  <2>2. /\ refund[c].pc \in InLock \cup {"entry"}
        /\ \A d \in Refunds : d # c => refund'[d].pc = refund[d].pc
        /\ refund'[c].pc \in Busy => refund[c].pc \in Busy
        /\ \/ UNCHANGED slotVars
           \/ ForgetSlots(r) /\ refund'[c].pc \notin Busy
    BY <1>5, RefundSlots
  <2>3. \A s \in Rids : refund'[s].pc \in Busy => refund[s].pc \in Busy
    BY <1>u, <2>2
  <2>4. CASE UNCHANGED slotVars
    BY <2>1, <2>3, <2>4 DEF SlotsInv
  <2>5. CASE ForgetSlots(r) /\ refund'[c].pc \notin Busy
    <3>1. refund[c].pc # "idle"
      BY <2>2 DEF InLock, Holding
    <3>2. /\ acquire[r] \notin Early \cup Late
          /\ refund[r].pc # "idle" => r = c
      BY <3>1, RefundedAcquire DEF Early, Late, Handed
    <3>3. refund'[r].pc \notin Busy
      <4>1. CASE r = c
        BY <2>5, <4>1
      <4>2. CASE r # c
        <5>1. refund[r].pc = "idle"
          BY <3>2, <4>2
        <5> QED BY <2>0, <2>2, <4>2, <5>1 DEF Busy, InLock, Holding
      <4> QED BY <4>1, <4>2
    <3> QED BY <2>1, <2>3, <2>5, <3>2, <3>3 DEF SlotsInv, ForgetSlots, Early,
               Late
  <2> QED BY <2>2, <2>4, <2>5
<1>6. ASSUME NEW c \in Refunds, NEW r \in Rids, RefundCall(c, r)
      PROVE  SlotsInv'
  <2>1. /\ acquire' = acquire /\ acquire[r] \in Handed
        /\ UNCHANGED slotVars \/ ForgetSlots(r)
    BY <1>6 DEF RefundCall, Expire, Handed
  <2>2. c \in Users /\ c \notin Rids
    BY <1>6, LimiterAssumption DEF RefundCall, Deployment, Types
  <2>3. \A s \in Rids : refund'[s].pc = refund[s].pc
    BY <1>6, <1>u, <2>2 DEF RefundCall, Queue, LockTypes
  <2>4. /\ acquire[r] \notin Early \cup Late
        /\ refund[r].pc \notin Busy
    BY <2>1 DEF CallsInv, Early, Late, Handed, Busy, InLock, Holding
  <2> QED BY <2>1, <2>3, <2>4 DEF SlotsInv, ForgetSlots, Early, Late
<1>7. ASSUME NEW k \in Closers, QuietClose(k)
      PROVE  SlotsInv'
  <2>1. CASE CloseCall(k)
    BY <2>1 DEF CloseCall, Drained, SlotsInv
  <2>2. CASE ~ CloseCall(k)
    BY <1>7, <2>2 DEF QuietClose, AcquiresDrained, CloseMark, RefundsDrained,
       CloseFails, SlotsInv
  <2> QED BY <2>1, <2>2
<1>8. ASSUME NEW k \in Closers, Clearing(k)
      PROVE  SlotsInv'
  <2>1. acquire' = acquire /\ refund' = refund /\ Calm
    BY <1>8 DEF Clearing, CloseAgain, CloseBackend, ClearRetained, CloseInv
  <2>2. CASE UNCHANGED slotVars
    BY <2>1, <2>2 DEF SlotsInv
  <2>3. CASE ClearRetained
    BY <2>1, <2>3 DEF SlotsInv, Calm, ClearRetained, Early
  <2> QED BY <1>8, <2>2, <2>3 DEF Clearing, CloseAgain, CloseBackend
<1>9. CASE ClearUnused
  BY <1>9 DEF ClearUnused, SlotsInv
<1> QED BY <1>1, <1>2, <1>3, <1>4, <1>5, <1>6, <1>7, <1>8, <1>9, NextCases

(* A calm limiter stays calm: no acquire starts once it closes, and those  *)
(* that ended do not come back.                                            *)
LEMMA CalmStays ==
  ASSUME Types, LockTypes, LocksInv, CallsInv, SlotsInv, CloseInv, Next, Calm
  PROVE  Calm'
<1> USE DEF acquireVars, slotVars, refundVars, closeVars
<1>1. ASSUME NEW r \in Rids, QuietAcquire(r) \/ Charging(r) \/ Undeliver(r)
      PROVE  Calm'
  <2>1. CASE CancelAcquire(r)
    BY <2>1 DEF CancelAcquire, Calm
  <2>2. CASE AcquireCall(r)
    BY <2>2 DEF AcquireCall, Calm
  <2>3. CASE ~ CancelAcquire(r) /\ ~ AcquireCall(r)
    <3>1. acquire[r] \in Early \cup Late
      BY <1>1, <2>3 DEF QuietAcquire, AcquireSend, AcquireAbort, BackendRefuses,
                        DeliverRecovery, AcquireRefused, BeginDelivery, Finalize, Deliver,
                        InterruptDelivery, Charging, BackendCharges, BackendCleanupFails,
                        Undeliver, Early, Late
    <3> QED BY <3>1 DEF Calm
  <2> QED BY <2>1, <2>2, <2>3
<1>2. ASSUME NEW r \in Rids, UndeliverEnds(r)
      PROVE  Calm'
  <2>1. /\ acquire' = [acquire EXCEPT ![r] = "raised"]
           \/ acquire' = [acquire EXCEPT ![r] = "recovered"]
        /\ pending' = pending /\ cleanup' = cleanup \ {r}
        /\ UNCHANGED closeVars
    BY <1>2 DEF UndeliverEnds, Move, EndCleanup
  <2> QED BY <2>1 DEF Calm, Types, Early, Late
<1>3. ASSUME NEW c \in Refunds, RefundStep(c) \/ RefundGiveUp(c)
      PROVE  Calm'
  <2>1. acquire' = acquire
    BY <1>3, RefundKinds
  <2>2. UNCHANGED slotVars \/ ForgetSlots(refund[c].id)
    BY <1>3, RefundSlots
  <2>3. UNCHANGED <<closing, closed>>
    BY <1>3 DEF RefundStep, RefundGiveUp, RefundEnter, RefundStart,
       RefundRefreshFails,
                RefundSend, BackendRefunds, RefundErrors, RefundUnknown, RefundMisread,
                RefundReplyLost, RefundCommit, RefundReturns
  <2> QED BY <2>1, <2>2, <2>3 DEF Calm, ForgetSlots
<1>4. ASSUME NEW c \in Refunds, NEW r \in Rids, RefundCall(c, r)
      PROVE  Calm'
  BY <1>4 DEF RefundCall, Expire, ForgetSlots, Calm
<1>5. ASSUME NEW k \in Closers, QuietClose(k) \/ Clearing(k)
      PROVE  Calm'
  <2>1. /\ acquire' = acquire
        /\ pending' = pending \/ pending' = {}
        /\ cleanup' = cleanup \/ cleanup' = {}
    BY <1>5 DEF QuietClose, Clearing, CloseCall, AcquiresDrained, CloseMark,
       RefundsDrained,
                CloseFails, CloseAgain, CloseBackend, ClearRetained
  <2>2. CASE CloseCall(k)
    <3>1. closing' = ~ closed /\ closed' = closed /\ closed \in BOOLEAN
      BY <2>2 DEF CloseCall, Types
    <3>2. closing' \/ closed'
      BY <3>1
    <3> QED BY <2>1, <3>2 DEF Calm
  <2>3. CASE ~ CloseCall(k)
    <3>1. UNCHANGED <<closing, closed>> \/ closed'
      BY <1>5, <2>3 DEF QuietClose, Clearing, AcquiresDrained, CloseMark,
         RefundsDrained,
                        CloseFails, CloseAgain, CloseBackend
    <3> QED BY <2>1, <3>1 DEF Calm
  <2> QED BY <2>2, <2>3
<1>6. CASE ClearUnused
  BY <1>6 DEF ClearUnused, Calm
<1> QED BY <1>1, <1>2, <1>3, <1>4, <1>5, <1>6, NextCases

(* Once a closer drains refunds, or they are drained, no call gets into a  *)
(* lock; none takes one any more once they are drained.                    *)
LEMMA NoneEnters ==
  ASSUME Types, LockTypes, LocksInv, CallsInv, SlotsInv, Next, Calm, closed
  PROVE  /\ \A c \in Refunds : refund'[c].pc \in InLock => refund[c].pc \in InLock
         /\ \A c \in Refunds : refund'[c].pc \in Holding => refund[c].pc \in Holding
<1> USE DEF acquireVars, refundVars
<1> DEFINE Goal == /\ \A c \in Refunds : refund'[c].pc \in InLock => refund[c].pc \in InLock
                   /\ \A c \in Refunds : refund'[c].pc \in Holding => refund[c].pc \in Holding
<1>s. ASSUME \A c \in Refunds : refund'[c].pc = refund[c].pc
      PROVE  Goal
  BY <1>s
<1>1. ASSUME NEW r \in Rids, QuietAcquire(r) \/ Charging(r) \/ Undeliver(r)
      PROVE  Goal
  <2>1. CASE CancelAcquire(r)
    BY <2>1 DEF CancelAcquire
  <2>2. CASE AcquireCall(r)
    BY <2>2 DEF AcquireCall
  <2>3. CASE ~ CancelAcquire(r) /\ ~ AcquireCall(r)
    <3>1. acquire[r] \in Early \cup Late
      BY <1>1, <2>3 DEF QuietAcquire, AcquireSend, AcquireAbort, BackendRefuses,
                        DeliverRecovery, AcquireRefused, BeginDelivery, Finalize, Deliver,
                        InterruptDelivery, Charging, BackendCharges, BackendCleanupFails,
                        Undeliver, Early, Late
    <3> QED BY <3>1 DEF Calm
  <2> QED BY <2>1, <2>2, <2>3
<1>2. ASSUME NEW r \in Rids, UndeliverEnds(r)
      PROVE  Goal
  <2>1. refund' = [refund EXCEPT ![r] = NoRefund]
    BY <1>2 DEF UndeliverEnds
  <2>2. /\ refund'[r].pc \notin InLock \cup Holding
        /\ \A c \in Refunds : c # r => refund'[c] = refund[c]
    BY <2>1, NoRefundFields DEF LockTypes, Refunds, InLock, Holding
  <2> QED BY <2>2
<1>3. ASSUME NEW c \in Refunds, RefundStep(c) \/ RefundGiveUp(c)
      PROVE  Goal
  <2>1. /\ refund[c].pc \in InLock \cup {"entry"}
        /\ \A d \in Refunds : d # c => refund'[d].pc = refund[d].pc
    BY <1>3, RefundSlots
  <2>2. c \in Users => refund[c].pc # "entry" /\ ~ refund[c].allow_closed
    BY DEF CallsInv, InLock, Holding
  <2>3. c \in Rids => refund[c].pc \notin Busy
    BY DEF SlotsInv, Calm
  <2>4. refund[c].pc \in InLock
    BY <2>1, <2>2, <2>3 DEF Refunds, Busy
  <2>5. CASE refund[c].pc \in Holding
    BY <2>1, <2>4, <2>5
  <2>6. CASE refund[c].pc \notin Holding
    <3>1. c \in Users /\ refund[c].pc = "queued" /\ ~ refund[c].allow_closed
      BY <2>2, <2>3, <2>4, <2>6 DEF Refunds, Busy, InLock, Holding
    <3>2. Leave(c, FALSE)
      BY <1>3, <3>1 DEF RefundStep, RefundGiveUp, RefundEnter, RefundStart,
         RefundRefreshFails,
                RefundSend, BackendRefunds, RefundErrors, RefundUnknown, RefundMisread,
                RefundReplyLost, RefundCommit, RefundReturns, At
    <3>3. refund'[c].pc \notin InLock
      BY <3>2, LeaveStep
    <3> QED BY <2>1, <3>3 DEF InLock
  <2> QED BY <2>5, <2>6
<1>4. ASSUME NEW c \in Refunds, NEW r \in Rids, RefundCall(c, r)
      PROVE  Goal
  BY <1>4 DEF RefundCall
<1>5. ASSUME NEW k \in Closers, QuietClose(k) \/ Clearing(k)
      PROVE  Goal
  <2>1. refund' = refund
    BY <1>5 DEF QuietClose, Clearing, CloseCall, AcquiresDrained, CloseMark,
       RefundsDrained,
                CloseFails, CloseAgain, CloseBackend, ClearRetained
  <2> QED BY <1>s, <2>1
<1>6. CASE ClearUnused
  BY <1>6, <1>s DEF ClearUnused
<1> QED BY <1>1, <1>2, <1>3, <1>4, <1>5, <1>6, NextCases

(* Every step keeps what a close may rely on.                              *)
LEMMA CloseStepKeeps ==
  ASSUME Types, LockTypes, LocksInv, CallsInv, SlotsInv, CloseInv, Next
  PROVE  CloseInv'
<1> USE DEF closeVars
<1>0. /\ Calm => Calm'
      /\ Calm /\ closed => \A c \in Refunds :
            /\ refund'[c].pc \in InLock => refund[c].pc \in InLock
            /\ refund'[c].pc \in Holding => refund[c].pc \in Holding
  BY CalmStays, NoneEnters
<1>1. ASSUME UNCHANGED closeVars
      PROVE  CloseInv'
  BY <1>0, <1>1 DEF CloseInv
<1>2. ASSUME NEW k \in Closers, QuietClose(k)
      PROVE  CloseInv'
  <2>0. /\ refund' = refund
        /\ \E to \in {"acquires", "lifecycle", "refunds", "backend", "idle"} :
             closer' = [closer EXCEPT ![k] = to]
    BY <1>2 DEF QuietClose, CloseCall, AcquiresDrained, CloseMark,
       RefundsDrained, CloseFails,
                refundVars, Go
  <2> USE DEF Go, Types
  <2>1. CASE CloseCall(k)
    BY <1>0, <2>0, <2>1 DEF CloseCall, CloseInv
  <2>2. CASE AcquiresDrained(k)
    <3>1. Calm
      <4>1. pending = {} /\ cleanup = {} /\ (closing \/ closed)
        BY <2>2 DEF AcquiresDrained, SlotsInv, CloseInv
      <4> QED BY <4>1 DEF SlotsInv, Calm, Early, Late
    <3> QED BY <1>0, <2>0, <2>2, <3>1 DEF AcquiresDrained, CloseInv
  <2>3. CASE CloseMark(k)
    <3>1. \A c \in Refunds : refund[c].pc \in InLock => c \in Locked
      BY DEF LocksInv, LockTypes, Refund, Locked
    <3>2. Calm
      BY <2>3 DEF CloseMark, CloseInv
    <3>3. draining' = [draining EXCEPT ![k] = Locked] /\ closed' /\ closer' = [closer EXCEPT ![k] = "refunds"]
          /\ UNCHANGED <<close_drained, backend_open>>
      BY <2>3 DEF CloseMark
    <3>4. (\A j \in Closers : closer[j] = "refunds" =>
             closed /\ \A c \in Refunds : refund[c].pc \in InLock => c \in draining[j])'
      BY <2>0, <3>1, <3>3 DEF CloseInv
    <3> QED BY <1>0, <2>0, <3>2, <3>3, <3>4 DEF CloseInv
  <2>4. CASE RefundsDrained(k)
    <3>1. Calm /\ closed
      BY <2>4 DEF RefundsDrained, CloseInv
    <3>2. \A c \in Refunds : refund[c].pc \notin Holding
      <4> SUFFICES ASSUME NEW c \in Refunds, refund[c].pc \in Holding
                   PROVE  FALSE
        OBVIOUS
      <4>1. c \in draining[k]
        BY <2>4 DEF RefundsDrained, CloseInv, InLock
      <4>2. c \in Locked
        BY DEF LocksInv, LockTypes, Refund, Locked, InLock
      <4> QED BY <2>4, <4>1, <4>2 DEF RefundsDrained, At, Holding
    <3> QED BY <1>0, <2>0, <2>4, <3>1, <3>2 DEF RefundsDrained, CloseInv
  <2>5. CASE CloseFails(k)
    BY <1>0, <2>0, <2>5 DEF CloseFails, CloseInv
  <2> QED BY <1>2, <2>1, <2>2, <2>3, <2>4, <2>5 DEF QuietClose
<1>3. ASSUME NEW k \in Closers, Clearing(k)
      PROVE  CloseInv'
  <2>1. /\ refund' = refund /\ closer' = [closer EXCEPT ![k] = "idle"]
        /\ UNCHANGED <<closing, closed, close_drained, draining>>
        /\ backend_open' = backend_open \/ close_drained
    BY <1>3 DEF Clearing, CloseAgain, CloseBackend, ClearRetained, refundVars,
       Go, CloseInv
  <2> QED BY <1>0, <2>1 DEF CloseInv, Types
<1>4. \/ UNCHANGED closeVars
      \/ \E k \in Closers : QuietClose(k) \/ Clearing(k)
  <2>1. \A r \in Rids : QuietAcquire(r) => UNCHANGED closeVars
    BY DEF QuietAcquire, AcquireCall, AcquireSend, AcquireAbort, BackendRefuses,
           CancelAcquire, DeliverRecovery, AcquireRefused, BeginDelivery, Finalize,
           Deliver, InterruptDelivery
  <2>2. \A r \in Rids : Charging(r) \/ Undeliver(r) \/ UndeliverEnds(r) => UNCHANGED closeVars
    BY DEF Charging, BackendCharges, BackendCleanupFails, Undeliver,
       UndeliverEnds
  <2>3. \A c \in Refunds : RefundStep(c) \/ RefundGiveUp(c) => UNCHANGED closeVars
    BY DEF RefundStep, RefundGiveUp, RefundEnter, RefundStart,
       RefundRefreshFails,
           RefundSend, BackendRefunds, RefundErrors, RefundUnknown, RefundMisread,
           RefundReplyLost, RefundCommit, RefundReturns
  <2>4. \A c \in Refunds, r \in Rids : RefundCall(c, r) => UNCHANGED closeVars
    BY DEF RefundCall
  <2>5. ClearUnused => UNCHANGED closeVars
    BY DEF ClearUnused
  <2> HIDE DEF closeVars
  <2> QED BY <2>1, <2>2, <2>3, <2>4, <2>5, NextCases
<1> QED BY <1>1, <1>2, <1>3, <1>4

(* Only an acquire that found room takes a slot; every other step moves    *)
(* reservations among the slots or drops them.                             *)
LEMMA CapStep ==
  ASSUME Types, LockTypes, LocksInv, CallsInv, SlotsInv, SlotsWithinCap, Next
  PROVE  SlotsWithinCap'
<1> USE DEF slotVars
<1>0. /\ IsFiniteSet(pending) /\ IsFiniteSet(in_flight) /\ IsFiniteSet(Occupied)
      /\ Cardinality(pending) \in Nat /\ Cardinality(in_flight) \in Nat
      /\ MaxInFlight \in Nat
  <2>1. IsFiniteSet(pending) /\ IsFiniteSet(in_flight) /\ IsFiniteSet(Occupied)
    BY LimiterAssumption, FS_Subset DEF Types, Occupied
  <2> QED BY <2>1, FS_CardinalityType, LimiterAssumption
<1>s. ASSUME Occupied' \subseteq Occupied
      PROVE  SlotsWithinCap'
  <2>1. /\ IsFiniteSet(Occupied') /\ Cardinality(Occupied') <= Cardinality(Occupied)
        /\ Cardinality(Occupied) \in Nat /\ Cardinality(Occupied') \in Nat
    BY <1>0, <1>s, FS_Subset, FS_CardinalityType
  <2> QED BY <1>0, <2>1 DEF SlotsWithinCap
<1>1. ASSUME NEW r \in Rids, AcquireCall(r)
      PROVE  SlotsWithinCap'
  <2>1. CASE HasSlot /\ pending' = pending \cup {r}
    <3>1. in_flight' = in_flight /\ Occupied' = in_flight \cup (pending \cup {r})
      BY <1>1, <2>1 DEF AcquireCall, Occupied
    <3>2. /\ IsFiniteSet(pending \cup {r})
          /\ Cardinality(pending \cup {r}) \in Nat
          /\ Cardinality(pending \cup {r}) <= Cardinality(pending) + 1
      <4>1. /\ IsFiniteSet(pending \cup {r})
            /\ \/ Cardinality(pending \cup {r}) = Cardinality(pending)
               \/ Cardinality(pending \cup {r}) = Cardinality(pending) + 1
        BY <1>0, FS_AddElement
      <4> QED BY <1>0, <4>1
    <3>3. /\ IsFiniteSet(in_flight \cup (pending \cup {r}))
          /\ Cardinality(in_flight \cup (pending \cup {r}))
             = Cardinality(in_flight) + Cardinality(pending \cup {r})
               - Cardinality(in_flight \cap (pending \cup {r}))
      BY <1>0, <3>2, FS_Union
    <3>4. Cardinality(in_flight \cap (pending \cup {r})) \in Nat
      BY <1>0, FS_Subset, FS_CardinalityType
    <3>5. Cardinality(in_flight) + Cardinality(pending) < MaxInFlight
      BY <2>1 DEF HasSlot
    <3>6. Cardinality(Occupied') <= MaxInFlight
      BY <1>0, <3>1, <3>2, <3>3, <3>4, <3>5
    <3> QED BY <3>6 DEF SlotsWithinCap
  <2>2. CASE UNCHANGED <<pending, in_flight>>
    BY <1>s, <2>2 DEF Occupied
  <2> QED BY <1>1, <2>1, <2>2 DEF AcquireCall
<1>2. ASSUME NEW r \in Rids, QuietAcquire(r), ~ AcquireCall(r)
      PROVE  Occupied' \subseteq Occupied
  <2>1. acquire[r] \in Early => r \in Occupied
    BY DEF SlotsInv, Occupied
  <2> QED BY <1>2, <2>1 DEF QuietAcquire, AcquireSend, AcquireAbort,
             BackendRefuses,
              CancelAcquire, DeliverRecovery, AcquireRefused, BeginDelivery, Finalize,
              Deliver, InterruptDelivery, RollbackSlots, FinalizeSlots, BeginCleanup,
              EndCleanup, Early, Occupied
<1>3. ASSUME NEW r \in Rids, Charging(r) \/ Undeliver(r) \/ UndeliverEnds(r)
      PROVE  Occupied' \subseteq Occupied
  <2>1. acquire[r] = "undelivered" => r \in Occupied
    BY DEF SlotsInv, Late, Occupied
  <2> QED BY <1>3, <2>1 DEF Charging, BackendCharges, BackendCleanupFails,
             Undeliver,
              UndeliverEnds, FinalizeSlots, EndCleanup, Occupied
<1>4. ASSUME NEW c \in Refunds, RefundStep(c) \/ RefundGiveUp(c)
      PROVE  Occupied' \subseteq Occupied
  <2>1. UNCHANGED slotVars \/ ForgetSlots(refund[c].id)
    BY <1>4, RefundSlots
  <2> QED BY <2>1 DEF ForgetSlots, Occupied
<1>5. ASSUME NEW c \in Refunds, NEW r \in Rids, RefundCall(c, r)
      PROVE  Occupied' \subseteq Occupied
  BY <1>5 DEF RefundCall, Expire, ForgetSlots, Occupied
<1>6. ASSUME NEW k \in Closers, QuietClose(k) \/ Clearing(k)
      PROVE  Occupied' \subseteq Occupied
  BY <1>6 DEF QuietClose, Clearing, CloseCall, AcquiresDrained, CloseMark,
     RefundsDrained,
              CloseFails, CloseAgain, CloseBackend, ClearRetained, Occupied
<1>7. CASE ClearUnused
  BY <1>s, <1>7 DEF ClearUnused, Occupied
<1> QED BY <1>s, <1>1, <1>2, <1>3, <1>4, <1>5, <1>6, <1>7, NextCases

(* What a limiter promises to a close and about its slots, with what keeps *)
(* it so                                                                   *)
LimiterInvariant == CallsInvariant /\ SlotsInv /\ CloseInv /\ SlotsWithinCap

(* It holds always.                                                        *)
LEMMA LimiterAlways == Spec => []LimiterInvariant
<1>1. ASSUME Init PROVE LimiterInvariant
  <2>1. CallsInvariant
    BY <1>1, CallsInit DEF CallsInvariant
  <2>2. SlotsInv
    BY <1>1, NoRefundFields DEF Init, SlotsInv, Early, Late, Busy, InLock,
       Holding, Refunds
  <2>3. CloseInv
    BY <1>1, NoRefundFields DEF Init, CloseInv, Refunds
  <2>4. SlotsWithinCap
    <3>1. Occupied = {} /\ MaxInFlight \in Nat
      BY <1>1, LimiterAssumption DEF Init, Occupied
    <3> QED BY <3>1, FS_EmptySet DEF SlotsWithinCap
  <2> QED BY <2>1, <2>2, <2>3, <2>4 DEF LimiterInvariant
<1>2. LimiterInvariant /\ [Next]_vars => LimiterInvariant'
  <2> SUFFICES ASSUME LimiterInvariant, [Next]_vars
               PROVE  LimiterInvariant'
    OBVIOUS
  <2> USE DEF LimiterInvariant, CallsInvariant
  <2>1. CASE Next
    BY <2>1, TypesStep, RefundTableStep, CallsStep, SlotsStep, CloseStepKeeps,
       CapStep
  <2>2. CASE UNCHANGED vars
    BY <2>2 DEF vars, acquireVars, slotVars, refundVars, closeVars,
       ledgerVars, Types,
                LockTypes, RefundTable, LocksInv, CallsInv, SlotsInv, CloseInv, Calm,
                SlotsWithinCap, Occupied
  <2> QED BY <2>1, <2>2
<1> QED BY <1>1, <1>2, PTL DEF Spec

(* Pending and delivered reservations together stay within                 *)
(* max_in_flight_reservations, also while cleanups and refunds run: the    *)
(* check of _begin_pending_acquire is the only place that counts.          *)
THEOREM SlotsStayWithinCap == Spec => []SlotsWithinCap
<1>1. LimiterInvariant => SlotsWithinCap
  BY DEF LimiterInvariant
<1> QED BY <1>1, LimiterAlways, PTL

(* aclose releases the builder's resources only when no acquire and no     *)
(* refund of this limiter is using the backend, also after timeouts of its *)
(* drains and with several calls of aclose.                                *)
THEOREM BackendClosesIdle == Spec => []ClosedBackendIsIdle
<1>1. LimiterInvariant => ClosedBackendIsIdle
  BY DEF LimiterInvariant, CloseInv, Calm, Early, Holding, ClosedBackendIsIdle
<1> QED BY <1>1, LimiterAlways, PTL

=============================================================================
