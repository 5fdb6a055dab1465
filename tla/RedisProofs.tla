---------------------------- MODULE RedisProofs ----------------------------
(***************************************************************************)
(* Proofs about the processes that share a Redis server, for every number  *)
(* of processes, tasks, threads, ids and buckets, whatever quotas, expiry  *)
(* times and troubles.                                                     *)
(***************************************************************************)
EXTENDS RedisFleet, FiniteSetTheorems, TLAPS

-----------------------------------------------------------------------------
(* Amounts, deadlines and the keys of one bucket *)

(* The latest of a few deadlines is one of them and not before any.        *)
LEMMA LatestOfFour ==
  ASSUME NEW a \in Nat, NEW b \in Nat, NEW c \in Nat, NEW d \in Nat,
         NEW S, S = {a, b, c, d}
  PROVE  /\ Latest(S) \in Nat
         /\ \A y \in S : y <= Latest(S)
<1>1. \E x \in S : \A y \in S : y <= x
  <2>1. CASE b <= a /\ c <= a /\ d <= a
    BY <2>1
  <2>2. CASE a <= b /\ c <= b /\ d <= b
    BY <2>2
  <2>3. CASE a <= c /\ b <= c /\ d <= c
    BY <2>3
  <2>4. CASE a <= d /\ b <= d /\ c <= d
    BY <2>4
  <2> QED BY <2>1, <2>2, <2>3, <2>4
<1>2. Latest(S) \in S /\ \A y \in S : y <= Latest(S)
  BY <1>1 DEF Latest
<1> QED BY <1>2

(* The quotient of naturals rounded up is a natural.                       *)
LEMMA CeilDivType ==
  ASSUME NEW a \in Nat, NEW n \in Nat \ {0}
  PROVE  CeilDiv(a, n) \in Nat
<1>1. a + n - 1 \in Nat
  OBVIOUS
<1>2. \A x \in Nat : x \div n \in Nat
  OBVIOUS
<1> QED BY <1>1, <1>2 DEF CeilDiv

States == [keys : SUBSET Pair, cap : Int, last : Nat, exp : Nat]
Overrides == [max : Nat, anchor : Nat, exp : Nat]
Histories == [max : Nat, anchor : Nat, until : Nat, exp : Nat]
BucketObject == [conf : Nat \ {0}, confirmed : SUBSET Nat]

(* The keys of bucket b have their types.  A history lives as long as the  *)
(* state, and it is the history of the override that is there.             *)
BucketKeys(b) ==
  /\ state[b] \in States /\ state[b].last <= now
  /\ over[b] \in Overrides
  /\ hist[b] \in Histories
  /\ hist[b].exp # 0 => hist[b].exp >= state[b].exp
  /\ over[b].exp # 0 /\ hist[b].exp # 0 => hist[b].anchor = over[b].anchor

(* Of a bucket object k for bucket b *)
Serves(k, b) ==
  /\ now \in Nat /\ b \in Buckets
  /\ k \in BucketObject
  /\ BucketKeys(b)

(* The constants as numbers                                                *)
LEMMA Lifetimes ==
  /\ BucketTTL \in Nat /\ BucketTTL > 0
  /\ DedupTTL \in Nat /\ DedupTTL > 0
  /\ OverrideTTL \in Nat /\ OverrideTTL > 0
  /\ Lifetime \in Nat /\ Lifetime > 0
  /\ \A b \in Buckets : b \in Nat /\ PerSeconds[b] \in Nat
BY RedisAssumption

(* The limit in force is positive.                                         *)
LEMMA EffectiveMaxType ==
  ASSUME NEW k, NEW b, Serves(k, b)
  PROVE  /\ Override(k, b) \in Nat
         /\ EffectiveMax(k, b) \in Nat \ {0}
         /\ Full(b, EffectiveMax(k, b)) \in Nat
<1>1. Override(k, b) \in Nat /\ EffectiveMax(k, b) \in Nat \ {0}
  BY DEF Serves, BucketKeys, EffectiveMax, Override, Overrides, BucketObject
<1>2. \A x, y \in Nat : x * y \in Nat
  OBVIOUS
<1> QED BY <1>1, <1>2, Lifetimes DEF Full, Serves

(* No debt shortens the life of the state.                                 *)
LEMMA CapacityTTLType ==
  ASSUME NEW k \in BucketObject, NEW b \in Buckets, NEW amount \in Int,
         NEW max \in Nat \ {0}
  PROVE  /\ CapacityTTL(k, b, amount, max) \in Nat
         /\ CapacityTTL(k, b, amount, max) >= BucketTTL
<1> DEFINE low == Lesser(max, k.conf)  paid == CeilDiv(- amount, low)
<1>1. low \in Nat \ {0}
  BY DEF Lesser, BucketObject
<1>2. CASE amount >= 0
  BY <1>2, Lifetimes DEF CapacityTTL, DebtTTL
<1>3. CASE ~ amount >= 0
  <2>1. - amount \in Nat
    BY <1>3
  <2>2. paid \in Nat
    BY <1>1, <2>1, CeilDivType
  <2>3. CapacityTTL(k, b, amount, max) = Greater(BucketTTL, PerSeconds[b] + paid)
    BY <1>3 DEF CapacityTTL, DebtTTL
  <2> HIDE DEF paid
  <2> QED BY <2>2, <2>3, Lifetimes DEF Greater
<1> QED BY <1>2, <1>3

(* A state with both keys that lasts for a whole BucketTTL *)
Lasting(st) == st.keys = Pair /\ st.exp >= now + BucketTTL

(* What a call writes lasts.                                               *)
LEMMA WrittenType ==
  ASSUME now \in Nat, NEW k \in BucketObject, NEW b \in Buckets,
         NEW amount \in Int, NEW max \in Nat \ {0}, NEW time \in 0..now
  PROVE  /\ Written(k, b, amount, time, max) \in States
         /\ Written(k, b, amount, time, max).last <= now
         /\ Lasting(Written(k, b, amount, time, max))
<1> DEFINE ttl == CapacityTTL(k, b, amount, max)
<1>1. ttl \in Nat /\ ttl >= BucketTTL /\ BucketTTL \in Nat
  BY CapacityTTLType, Lifetimes
<1>2. Written(k, b, amount, time, max) =
        [keys |-> Pair, cap |-> amount, last |-> time, exp |-> now + ttl]
  BY DEF Written
<1> HIDE DEF ttl
<1>3. now + ttl \in Nat /\ now + ttl >= now + BucketTTL /\ time \in Nat
  BY <1>1
<1> QED BY <1>2, <1>3 DEF Lasting, States

(* A refresh prolongs the life of a state and changes nothing else.        *)
LEMMA RefreshedType ==
  ASSUME NEW k, NEW b, Serves(k, b)
  PROVE  /\ Refreshed(k, b) \in States
         /\ Refreshed(k, b).keys = state[b].keys
         /\ Refreshed(k, b).cap = state[b].cap
         /\ Refreshed(k, b).last = state[b].last
         /\ Refreshed(k, b).exp >= state[b].exp
         /\ Refreshed(k, b).exp >= now + BucketTTL
<1> DEFINE ttl == IF "capacity" \in state[b].keys
                    THEN CapacityTTL(k, b, state[b].cap, k.conf) ELSE BucketTTL
<1>1. ttl \in Nat /\ ttl >= BucketTTL /\ BucketTTL \in Nat
  BY CapacityTTLType, Lifetimes DEF Serves, BucketKeys, States, BucketObject
<1>2. Refreshed(k, b) = [state[b] EXCEPT !.exp = Greater(state[b].exp, now + ttl)]
  BY DEF Refreshed
<1> HIDE DEF ttl
<1>3. state[b] \in States /\ now \in Nat
  BY DEF Serves, BucketKeys
<1>4. /\ Greater(state[b].exp, now + ttl) \in Nat
      /\ Greater(state[b].exp, now + ttl) >= state[b].exp
      /\ Greater(state[b].exp, now + ttl) >= now + BucketTTL
  BY <1>1, <1>3 DEF Greater, States
<1> QED BY <1>2, <1>3, <1>4 DEF States

(* The history as a read sees it                                           *)
LEMMA HistoryType ==
  ASSUME NEW k, NEW b, Serves(k, b)
  PROVE  /\ History(b) \in Histories
         /\ History(b).exp # 0 => History(b) = hist[b] /\ hist[b].exp > now
         /\ History(b).exp = 0 => hist[b].exp <= now
BY DEF Serves, BucketKeys, History, Histories, NoHist, Alive

(* Amounts are integers.                                                   *)
LEMMA AccrueType ==
  ASSUME NEW k, NEW b, Serves(k, b)
  PROVE  Accrue(k, b, state[b], History(b)) \in Int
<1> DEFINE h == History(b)  st == state[b]
<1>1. /\ EffectiveMax(k, b) \in Nat /\ k.conf \in Nat /\ h.max \in Nat
      /\ st.cap \in Int /\ st.last \in Nat /\ h.until \in Nat /\ now \in Nat
  BY EffectiveMaxType, HistoryType DEF Serves, BucketKeys, States, Histories,
     BucketObject
<1> HIDE DEF h, st
<1>2. \A x, y \in Nat : x * y \in Nat
  OBVIOUS
<1>3. \A x, y \in Nat : Greater(0, x - y) \in Nat /\ Greater(x, y) \in Nat
  BY DEF Greater
<1>4. /\ Greater(0, now - st.last) * EffectiveMax(k, b) \in Nat
      /\ Greater(0, h.until - st.last) * h.max \in Nat
      /\ Greater(0, now - Greater(st.last, h.until)) * k.conf \in Nat
  BY <1>1, <1>2, <1>3
<1>5. Accrue(k, b, st, h) \in Int
  BY <1>1, <1>4 DEF Accrue
<1> QED BY <1>5 DEF h, st

(* The amount a call reads is an integer.                                  *)
LEMMA AmountType ==
  ASSUME NEW k, NEW b, Serves(k, b)
  PROVE  Amount(k, b) \in Int
BY EffectiveMaxType, AccrueType DEF Amount, Lesser

-----------------------------------------------------------------------------
(* What the operations make of the keys of one bucket *)

(* A history that is kept stays what it was, for as long as is asked.      *)
LEMMA RetainedType ==
  ASSUME NEW h \in Histories, NEW least \in Nat, NEW exp \in Nat
  PROVE  /\ Retained(h, least, exp) \in Histories
         /\ h.exp = 0 => Retained(h, least, exp).exp = 0
         /\ h.exp # 0 =>
              /\ Retained(h, least, exp).max = h.max
              /\ Retained(h, least, exp).anchor = h.anchor
              /\ Retained(h, least, exp).until = h.until
              /\ Retained(h, least, exp).exp >= least
              /\ Retained(h, least, exp).exp >= exp
<1>1. CASE h.exp = 0
  BY <1>1 DEF Retained, NoHist, Histories
<1>2. CASE h.exp # 0
  <2> DEFINE late == Latest({h.exp, least, exp})
  <2>1. h.exp \in Nat /\ {h.exp, least, exp} = {h.exp, least, exp, exp}
    BY DEF Histories
  <2>2. late \in Nat /\ late >= least /\ late >= exp
    BY <2>1, LatestOfFour
  <2>3. Retained(h, least, exp) = [h EXCEPT !.exp = late]
    BY <1>2 DEF Retained
  <2> HIDE DEF late
  <2> QED BY <1>2, <2>2, <2>3 DEF Histories
<1> QED BY <1>1, <1>2

(* An override and its history                                             *)
LEMMA OverrideType ==
  ASSUME NEW k, NEW b, Serves(k, b), NEW max \in Nat, NEW exp \in Nat
  PROVE  /\ OverrideOf(k, b, max) \in Overrides
         /\ HistoryOf(k, b, max, exp) \in Histories
         /\ HistoryOf(k, b, max, exp).exp >= exp
         /\ HistoryOf(k, b, max, exp).exp > now
<1> DEFINE late == Latest({now + BucketTTL, now + OverrideTTL, History(b).exp, exp})
<1>1. /\ now + BucketTTL \in Nat /\ now + OverrideTTL \in Nat
      /\ now + BucketTTL > now /\ History(b).exp \in Nat
      /\ k.conf \in Nat
  BY Lifetimes, HistoryType DEF Serves, Histories, BucketObject
<1>2. late \in Nat /\ late >= exp /\ late >= now + BucketTTL
  BY <1>1, LatestOfFour
<1>3. HistoryOf(k, b, max, exp) =
        [max |-> max, anchor |-> k.conf, until |-> now + OverrideTTL, exp |-> late]
  BY DEF HistoryOf
<1> HIDE DEF late
<1>4. late > now
  BY <1>1, <1>2 DEF Serves
<1> QED BY <1>1, <1>2, <1>3, <1>4 DEF OverrideOf, Overrides, Histories, Serves

(* The state expired, or was never there, and its keys are dropped.        *)
Fades(b) == Present(b) = {} /\ state'[b].keys = {}

(* The keys of bucket b get the state st, the override ov and a history    *)
(* that fits.                                                              *)
LEMMA KeysFrom ==
  ASSUME NEW k, NEW b, Serves(k, b), now' = now,
         state'[b] \in States, state'[b].last <= now,
         \/ over'[b] = over[b]
            /\ \E least \in Nat :
                 hist'[b] = Retained(History(b), least, state'[b].exp)
         \/ \E max \in Nat :
              /\ over'[b] = OverrideOf(k, b, max)
              /\ hist'[b] = HistoryOf(k, b, max, state'[b].exp)
         \/ over'[b] = NoOver /\ hist'[b] = NoHist
  PROVE  BucketKeys(b)'
<1>1. state'[b].exp \in Nat
  BY DEF States
<1>2. CASE over'[b] = over[b] /\ \E least \in Nat :
             hist'[b] = Retained(History(b), least, state'[b].exp)
  <2>1. PICK least \in Nat : hist'[b] = Retained(History(b), least, state'[b].exp)
    BY <1>2
  <2>2. /\ hist'[b] \in Histories
        /\ hist'[b].exp # 0 => /\ hist'[b].exp >= state'[b].exp
                               /\ History(b).exp # 0
                               /\ hist'[b].anchor = History(b).anchor
    <3> DEFINE h == History(b)  exp == state'[b].exp
    <3>1. /\ h \in Histories /\ exp \in Nat /\ least \in Nat
          /\ hist'[b] = Retained(h, least, exp)
      BY <1>1, <2>1, HistoryType
    <3> HIDE DEF h, exp
    <3>2. /\ Retained(h, least, exp) \in Histories
          /\ h.exp = 0 => Retained(h, least, exp).exp = 0
          /\ h.exp # 0 => /\ Retained(h, least, exp).anchor = h.anchor
                          /\ Retained(h, least, exp).exp >= exp
      BY <3>1, RetainedType
    <3>3. /\ hist'[b] \in Histories
          /\ h.exp = 0 => hist'[b].exp = 0
          /\ h.exp # 0 => hist'[b].anchor = h.anchor /\ hist'[b].exp >= exp
      BY <3>1, <3>2
    <3> QED BY <3>3 DEF h, exp
  <2>3. hist'[b].exp # 0 => hist[b].exp # 0 /\ hist'[b].anchor = hist[b].anchor
    BY <2>2, HistoryType DEF Serves
  <2> QED BY <1>2, <2>2, <2>3 DEF BucketKeys, Serves
<1>3. CASE \E max \in Nat : /\ over'[b] = OverrideOf(k, b, max)
                            /\ hist'[b] = HistoryOf(k, b, max, state'[b].exp)
  <2>1. PICK max \in Nat : /\ over'[b] = OverrideOf(k, b, max)
                           /\ hist'[b] = HistoryOf(k, b, max, state'[b].exp)
    BY <1>3
  <2>2. hist'[b].anchor = over'[b].anchor
    BY <2>1 DEF OverrideOf, HistoryOf
  <2>3. /\ over'[b] \in Overrides /\ hist'[b] \in Histories
        /\ hist'[b].exp >= state'[b].exp
    BY <1>1, <2>1, OverrideType
  <2> QED BY <2>2, <2>3 DEF BucketKeys
<1>4. CASE over'[b] = NoOver /\ hist'[b] = NoHist
  BY <1>4 DEF BucketKeys, NoOver, NoHist, Overrides, Histories
<1> QED BY <1>2, <1>3, <1>4

(* A bucket without state                                                  *)
LEMMA NoStateType ==
  ASSUME now \in Nat
  PROVE  NoState \in States /\ NoState.last <= now /\ NoState.keys = {}
BY DEF NoState, States

(* A read finds a fresh start or leaves a state that lasts.                *)
LEMMA FoundState ==
  ASSUME NEW k, NEW b, Serves(k, b), now' = now, state'[b] = Found(k, b)
  PROVE  /\ state'[b] \in States /\ state'[b].last <= now
         /\ FreshStart(k, b) => Fades(b)
         /\ ~ FreshStart(k, b) => Lasting(state[b])'
<1>0. Serves(k, b) /\ now \in Nat /\ k \in BucketObject /\ b \in Buckets
  BY DEF Serves
<1>1. CASE Complete(b)
  <2>1. state'[b] = Refreshed(k, b) /\ ~ FreshStart(k, b) /\ state[b].keys = Pair
    BY <1>1 DEF Found, FreshStart, Complete, Pair, Present
  <2>2. state[b].last <= now
    BY DEF Serves, BucketKeys
  <2> QED BY <2>1, <2>2, RefreshedType DEF Lasting
<1>2. CASE Lost(k, b)
  <2>1. /\ state'[b] = Written(k, b, 0, now, EffectiveMax(k, b))
        /\ ~ FreshStart(k, b)
    BY <1>2 DEF Found, Lost
  <2>2. now \in 0..now /\ 0 \in Int
    BY <1>0
  <2> QED BY <1>0, <2>1, <2>2, EffectiveMaxType, WrittenType DEF Lasting
<1>3. CASE ~ Complete(b) /\ ~ Lost(k, b)
  <2>1. state'[b] = NoState /\ FreshStart(k, b) /\ Present(b) = {}
    BY <1>3 DEF Found, Lost, FreshStart
  <2> QED BY <1>0, <2>1, NoStateType DEF Fades
<1> QED BY <1>1, <1>2, <1>3

(* What a read makes of the keys                                           *)
LEMMA ReadBucket ==
  ASSUME NEW k, NEW b, Serves(k, b), now' = now, state'[b] = Found(k, b),
         over'[b] = FoundOver(k, b), hist'[b] = FoundHist(k, b)
  PROVE  /\ BucketKeys(b)'
         /\ FreshStart(k, b) => Fades(b)
         /\ ~ FreshStart(k, b) => Lasting(state[b])'
<1>1. now + BucketTTL \in Nat /\ Override(k, b) \in Nat
  BY EffectiveMaxType, Lifetimes DEF Serves
<1>2. BucketKeys(b)'
  BY <1>1, FoundState, KeysFrom DEF FoundOver, FoundHist
<1> QED BY <1>2, FoundState

(* An anchored bucket had no state or has one that lasts.                  *)
LEMMA AnchoredState ==
  ASSUME NEW k, NEW b, Serves(k, b), now' = now, NEW max \in Nat \ {0},
         state'[b] = Anchored(k, b, max)
  PROVE  /\ state'[b] \in States /\ state'[b].last <= now
         /\ FreshStart(k, b) => Fades(b)
         /\ ~ FreshStart(k, b) => Lasting(state[b])'
<1>0. now \in Nat /\ k \in BucketObject /\ b \in Buckets
  BY DEF Serves
<1>1. CASE FreshStart(k, b)
  <2>1. state'[b] = NoState /\ Present(b) = {}
    BY <1>1 DEF Anchored, FreshStart
  <2> QED BY <1>0, <1>1, <2>1, NoStateType DEF Fades
<1>2. CASE ~ FreshStart(k, b)
  <2> DEFINE low == Lesser(max, EffectiveMax(k, b))
  <2>1. state'[b] = Written(k, b, Projected(k, b), now, low)
    BY <1>2 DEF Anchored
  <2>2. Projected(k, b) \in Int
    BY AccrueType DEF Projected
  <2>3. low \in Nat \ {0} /\ now \in 0..now
    BY <1>0, EffectiveMaxType DEF Lesser
  <2> HIDE DEF low
  <2> QED BY <1>0, <1>2, <2>1, <2>2, <2>3, WrittenType DEF Lasting
<1> QED BY <1>1, <1>2

-----------------------------------------------------------------------------
(* What the operations make of all keys, and what processes know of them   *)

KeyTypes ==
  /\ state = [b \in Buckets |-> state[b]]
  /\ over = [b \in Buckets |-> over[b]]
  /\ hist = [b \in Buckets |-> hist[b]]
  /\ \A b \in Buckets : BucketKeys(b)

IsProc(q) ==
  /\ q = [b \in DOMAIN q |-> q[b]]
  /\ DOMAIN q \subseteq Buckets
  /\ \A b \in DOMAIN q : q[b] \in BucketObject /\ q[b].confirmed \subseteq 0..now

ProcTypes ==
  /\ proc = [p \in Procs |-> proc[p]]
  /\ \A p \in Procs : IsProc(proc[p])

World == now \in Nat /\ KeyTypes /\ ProcTypes

(* The process q has the evidence it had of bucket b, or that of a state   *)
(* it has just seen or written.                                            *)
Evident(q, b) ==
  \A t \in proc'[q][b].confirmed :
    \/ b \in Mine(q) /\ t \in proc[q][b].confirmed
    \/ t = now /\ Lasting(state[b])'

(* A step of the store: every bucket keeps its state, or loses one that    *)
(* expired, or gets one that lasts.                                        *)
StoreMoves ==
  /\ KeyTypes' /\ ProcTypes'
  /\ \A b \in Buckets : state'[b] = state[b] \/ Fades(b) \/ Lasting(state[b])'
  /\ \A q \in Procs : \A b \in Mine(q)' : Evident(q, b)

(* A bucket object of a process serves its bucket.                         *)
LEMMA ServesMine ==
  ASSUME World, NEW p \in Procs, NEW b \in Mine(p)
  PROVE  Serves(proc[p][b], b) /\ proc[p][b].confirmed \subseteq 0..now
BY DEF World, KeyTypes, ProcTypes, IsProc, Mine, Serves

(* A new bucket object does, too.                                          *)
LEMMA NewBucketType ==
  ASSUME World, NEW b \in Buckets, NEW limit \in Nat \ {0}
  PROVE  /\ Serves(NewBucketOf(limit), b)
         /\ NewBucketOf(limit).confirmed = {}
BY DEF World, KeyTypes, Serves, NewBucketOf, BucketObject

(* A bucket object with other evidence, or with another limit              *)
LEMMA ObjectWith ==
  ASSUME NEW k \in BucketObject, NEW ts \in SUBSET Nat, NEW limit \in Nat \ {0}
  PROVE  /\ [k EXCEPT !.confirmed = ts] \in BucketObject
         /\ [k EXCEPT !.confirmed = ts].conf = k.conf
         /\ [k EXCEPT !.confirmed = ts].confirmed = ts
         /\ [k EXCEPT !.conf = limit] \in BucketObject
         /\ [k EXCEPT !.conf = limit].conf = limit
         /\ [k EXCEPT !.conf = limit].confirmed = k.confirmed
BY DEF BucketObject

(* A step of the store that changes one process                            *)
LEMMA OneProc ==
  ASSUME World, NEW p \in Procs, NEW q, proc' = [proc EXCEPT ![p] = q],
         now' = now, IsProc(q)
  PROVE  /\ ProcTypes' /\ proc'[p] = q
         /\ \A o \in Procs \ {p} : proc'[o] = proc[o]
<1>1. proc = [o \in Procs |-> proc[o]]
  BY DEF World, ProcTypes
<1>2. proc' = [o \in Procs |-> IF o = p THEN q ELSE proc[o]]
  BY <1>1
<1>3. proc' = [o \in Procs |-> proc'[o]]
  BY <1>2
<1>4. ASSUME NEW o \in Procs PROVE IsProc(proc[o]) /\ IsProc(q)
  BY <1>4 DEF World, ProcTypes
<1>5. ASSUME NEW o \in Procs PROVE IsProc(proc'[o])
  BY <1>2, <1>4
<1>6. ASSUME NEW o \in Procs PROVE IsProc(proc[o])'
  BY <1>5 DEF IsProc
<1> QED BY <1>2, <1>3, <1>6 DEF ProcTypes

(* Reading the buckets of a process                                        *)
LEMMA ReadKeeps ==
  ASSUME World, NEW p \in Procs, Read(p), now' = now
  PROVE  /\ StoreMoves
         /\ \A q \in Procs : Mine(q)' = Mine(q)
         /\ \A q \in Procs : \A b \in Mine(q) : proc'[q][b].conf = proc[q][b].conf
<1> DEFINE obj(b) == IF FreshStart(proc[p][b], b) THEN proc[p][b]
                     ELSE [proc[p][b] EXCEPT !.confirmed = {now}]
           q == [b \in Mine(p) |-> obj(b)]
<1>1. now \in Nat /\ Mine(p) \subseteq Buckets
  BY DEF World, ProcTypes, IsProc, Mine
<1>2. proc' = [proc EXCEPT ![p] = q]
  BY DEF Read
<1>3. ASSUME NEW b \in Mine(p)
      PROVE  /\ obj(b) \in BucketObject /\ obj(b).conf = proc[p][b].conf
             /\ obj(b).confirmed \subseteq 0..now
             /\ FreshStart(proc[p][b], b) => obj(b) = proc[p][b]
             /\ ~ FreshStart(proc[p][b], b) => obj(b).confirmed = {now}
  <2>1. proc[p][b] \in BucketObject /\ proc[p][b].confirmed \subseteq 0..now
    BY ServesMine DEF Serves
  <2> DEFINE x == [proc[p][b] EXCEPT !.confirmed = {now}]
  <2>2. {now} \in SUBSET Nat /\ {now} \subseteq 0..now /\ 1 \in Nat \ {0}
    BY <1>1
  <2>3. x \in BucketObject /\ x.conf = proc[p][b].conf /\ x.confirmed = {now}
    BY <2>1, <2>2, ObjectWith
  <2>4. obj(b) = IF FreshStart(proc[p][b], b) THEN proc[p][b] ELSE x
    OBVIOUS
  <2> HIDE DEF x, obj
  <2> QED BY <2>1, <2>2, <2>3, <2>4
<1> HIDE DEF obj
<1>4. IsProc(q)
  BY <1>1, <1>3 DEF IsProc
<1>5. ProcTypes' /\ proc'[p] = q /\ \A o \in Procs \ {p} : proc'[o] = proc[o]
  BY <1>2, <1>4, OneProc
<1>6. \A b \in Mine(p) :
        /\ state'[b] = Found(proc[p][b], b)
        /\ over'[b] = FoundOver(proc[p][b], b)
        /\ hist'[b] = FoundHist(proc[p][b], b)
  BY <1>1 DEF Read
<1>7. \A b \in Buckets \ Mine(p) :
        state'[b] = state[b] /\ over'[b] = over[b] /\ hist'[b] = hist[b]
  BY DEF Read
<1>8. ASSUME NEW b \in Mine(p)
      PROVE  /\ BucketKeys(b)'
             /\ FreshStart(proc[p][b], b) => Fades(b)
             /\ ~ FreshStart(proc[p][b], b) => Lasting(state[b])'
  BY <1>6, ServesMine, ReadBucket
<1>9. KeyTypes'
  <2>1. ASSUME NEW b \in Buckets \ Mine(p) PROVE BucketKeys(b)'
    BY <1>7 DEF World, KeyTypes, BucketKeys
  <2>2. /\ state' = [b \in Buckets |-> state'[b]]
        /\ over' = [b \in Buckets |-> over'[b]]
        /\ hist' = [b \in Buckets |-> hist'[b]]
    BY DEF Read
  <2> QED BY <1>8, <2>1, <2>2 DEF KeyTypes
<1>10. \A o \in Procs : Mine(o)' = Mine(o)
  BY <1>5 DEF Mine
<1>11. ASSUME NEW o \in Procs, NEW b \in Mine(o)
       PROVE  Evident(o, b) /\ proc'[o][b].conf = proc[o][b].conf
  <2>1. CASE o # p
    BY <1>5, <1>11, <2>1 DEF Evident
  <2>2. CASE o = p
    <3>1. proc'[o][b] = obj(b)
      BY <1>5, <1>11, <2>2
    <3> QED BY <1>3, <1>8, <1>11, <2>2, <3>1 DEF Evident
  <2> QED BY <2>1, <2>2
<1>12. \A b \in Buckets : state'[b] = state[b] \/ Fades(b) \/ Lasting(state[b])'
  BY <1>7, <1>8
<1> QED BY <1>5, <1>9, <1>10, <1>11, <1>12 DEF StoreMoves

(* Amounts that a call of process p may write, as of the time of rd        *)
Writable(p, amount, rd) ==
  /\ DOMAIN amount \subseteq Mine(p)
  /\ rd.time \in 0..now
  /\ \A b \in DOMAIN amount : amount[b] \in Int /\ rd.max[b] \in Nat \ {0}

(* Writing amounts of the buckets of a process                             *)
LEMMA WriteKeeps ==
  ASSUME World, NEW p \in Procs, NEW amount, NEW rd, Writable(p, amount, rd),
         WriteState(p, amount, rd), now' = now, proc' = proc
  PROVE  /\ StoreMoves
         /\ \A b \in DOMAIN amount : Lasting(state[b])'
         /\ \A b \in Buckets \ DOMAIN amount :
              state'[b] = state[b] /\ over'[b] = over[b] /\ hist'[b] = hist[b]
<1>1. now \in Nat /\ DOMAIN amount \subseteq Buckets
  BY DEF World, ProcTypes, IsProc, Mine, Writable
<1>2. ASSUME NEW b \in Buckets \ DOMAIN amount
      PROVE  state'[b] = state[b] /\ over'[b] = over[b] /\ hist'[b] = hist[b]
  BY DEF WriteState
<1>3. ASSUME NEW b \in DOMAIN amount
      PROVE  BucketKeys(b)' /\ Lasting(state[b])'
  <2> DEFINE k == proc[p][b]  least == Latest({now + BucketTTL, state[b].exp})
  <2>1. Serves(k, b) /\ b \in Buckets /\ k \in BucketObject
    BY <1>1, ServesMine DEF Writable, Serves
  <2>2. /\ state'[b] = Written(k, b, amount[b], rd.time, rd.max[b])
        /\ over'[b] = over[b]
        /\ hist'[b] = Retained(History(b), least, state'[b].exp)
    BY <1>1, <2>1 DEF WriteState
  <2>3. state'[b] \in States /\ state'[b].last <= now /\ Lasting(state[b])'
    BY <1>1, <2>1, <2>2, WrittenType DEF Writable, Lasting
  <2>4. least \in Nat
    <3>1. now + BucketTTL \in Nat /\ state[b].exp \in Nat
      BY <1>1, <2>1, Lifetimes DEF Serves, BucketKeys, States
    <3>2. {now + BucketTTL, state[b].exp}
            = {now + BucketTTL, state[b].exp, state[b].exp, state[b].exp}
      OBVIOUS
    <3> QED BY <3>1, <3>2, LatestOfFour
  <2> HIDE DEF least, k
  <2> QED BY <2>1, <2>2, <2>3, <2>4, KeysFrom
<1>4. KeyTypes'
  <2>1. ASSUME NEW b \in Buckets \ DOMAIN amount PROVE BucketKeys(b)'
    BY <1>2 DEF World, KeyTypes, BucketKeys
  <2>2. /\ state' = [b \in Buckets |-> state'[b]]
        /\ over' = [b \in Buckets |-> over'[b]]
        /\ hist' = [b \in Buckets |-> hist'[b]]
    BY DEF WriteState, World, KeyTypes
  <2> QED BY <1>3, <2>1, <2>2 DEF KeyTypes
<1>5. ProcTypes' /\ \A q \in Procs : \A b \in Mine(q)' : Evident(q, b)
  BY DEF World, ProcTypes, IsProc, Evident, Mine
<1> QED BY <1>2, <1>3, <1>4, <1>5 DEF StoreMoves

(* Nothing happens to the keys.                                            *)
LEMMA StoreStays ==
  ASSUME World, UNCHANGED <<now, keys, proc>>
  PROVE  StoreMoves
<1>1. KeyTypes'
  BY DEF World, KeyTypes, BucketKeys, keys
<1>2. ProcTypes' /\ \A q \in Procs : \A b \in Mine(q)' : Evident(q, b)
  BY DEF World, ProcTypes, IsProc, Evident, Mine
<1> QED BY <1>1, <1>2 DEF StoreMoves, keys

(* What an operator's command learns of the state of a bucket              *)
LEMMA ProvenType ==
  ASSUME NEW k, NEW b, Serves(k, b), k.confirmed \subseteq 0..now
  PROVE  /\ Proven(k, b) \in BucketObject /\ Proven(k, b).conf = k.conf
         /\ Proven(k, b).confirmed \subseteq 0..now
         /\ FreshStart(k, b) => Proven(k, b).confirmed = k.confirmed
         /\ ~ FreshStart(k, b) => Proven(k, b).confirmed = {now}
<1> DEFINE x == [k EXCEPT !.confirmed = {now}]
<1>1. {now} \in SUBSET Nat /\ {now} \subseteq 0..now /\ 1 \in Nat \ {0}
  BY DEF Serves
<1>2. x \in BucketObject /\ x.conf = k.conf /\ x.confirmed = {now}
  BY <1>1, ObjectWith DEF Serves
<1>3. Proven(k, b) = IF FreshStart(k, b) THEN k ELSE x
  BY DEF Proven
<1> HIDE DEF x
<1> QED BY <1>1, <1>2, <1>3 DEF Serves

(* An operator's command anchors a bucket by the object k, gives it the    *)
(* object new, and keeps, refreshes or ends its override.                  *)
Relimits(p, b, k, new) ==
  /\ Serves(k, b)
  /\ b \in Mine(p) => k = proc[p][b]
  /\ \E max \in Nat \ {0} : state'[b] = Anchored(k, b, max)
  /\ \/ over'[b] = over[b]
        /\ \E least \in Nat :
             hist'[b] = Retained(History(b), least, state'[b].exp)
     \/ \E max \in Nat : /\ over'[b] = OverrideOf(k, b, max)
                         /\ hist'[b] = HistoryOf(k, b, max, state'[b].exp)
     \/ over'[b] = NoOver /\ hist'[b] = NoHist
  /\ new \in BucketObject
  /\ \/ b \in Mine(p) /\ new.confirmed = Proven(k, b).confirmed
     \/ new.confirmed = {}

RelimitsTo(p, b, q) ==
  \E k, new : Relimits(p, b, k, new) /\ (b \in DOMAIN q => q[b] = new)

(* A command relimits the buckets bs, and process p has the objects q then. *)
Command(p, bs, q) ==
  /\ now' = now /\ proc' = [proc EXCEPT ![p] = q]
  /\ q = [b \in DOMAIN q |-> q[b]] /\ DOMAIN q \subseteq Buckets
  /\ state' = [b \in Buckets |-> state'[b]]
  /\ over' = [b \in Buckets |-> over'[b]]
  /\ hist' = [b \in Buckets |-> hist'[b]]
  /\ \A b \in Buckets \ bs :
       state'[b] = state[b] /\ over'[b] = over[b] /\ hist'[b] = hist[b]
  /\ \A b \in bs : RelimitsTo(p, b, q)
  /\ \A b \in DOMAIN q : b \in bs \/ (b \in Mine(p) /\ q[b] = proc[p][b])

(* It keeps the types and the evidence.                                    *)
LEMMA CommandKeeps ==
  ASSUME World, NEW p \in Procs, NEW bs \in SUBSET Buckets, NEW q,
         Command(p, bs, q)
  PROVE  /\ StoreMoves
         /\ \A o \in Procs \ {p} : proc'[o] = proc[o]
         /\ proc'[p] = q
<1>c. /\ now' = now /\ proc' = [proc EXCEPT ![p] = q]
      /\ q = [b \in DOMAIN q |-> q[b]] /\ DOMAIN q \subseteq Buckets
      /\ state' = [b \in Buckets |-> state'[b]]
      /\ over' = [b \in Buckets |-> over'[b]]
      /\ hist' = [b \in Buckets |-> hist'[b]]
      /\ \A b \in Buckets \ bs :
           state'[b] = state[b] /\ over'[b] = over[b] /\ hist'[b] = hist[b]
      /\ \A b \in DOMAIN q : b \in bs \/ (b \in Mine(p) /\ q[b] = proc[p][b])
  BY DEF Command
<1>r. ASSUME NEW b \in bs
      PROVE  \E k, new : Relimits(p, b, k, new) /\ (b \in DOMAIN q => q[b] = new)
  BY <1>r DEF Command, RelimitsTo
<1>1. ASSUME NEW b \in bs, NEW k, NEW new, Relimits(p, b, k, new)
      PROVE  /\ BucketKeys(b)'
             /\ Fades(b) \/ Lasting(state[b])'
             /\ new \in BucketObject /\ new.confirmed \subseteq 0..now
             /\ \A t \in new.confirmed :
                  \/ b \in Mine(p) /\ t \in proc[p][b].confirmed
                  \/ t = now /\ Lasting(state[b])'
  <2>1. PICK max \in Nat \ {0} : state'[b] = Anchored(k, b, max)
    BY <1>1 DEF Relimits
  <2>2. /\ state'[b] \in States /\ state'[b].last <= now
        /\ FreshStart(k, b) => Fades(b)
        /\ ~ FreshStart(k, b) => Lasting(state[b])'
    BY <1>c, <1>1, <2>1, AnchoredState DEF Relimits
  <2>3. BucketKeys(b)'
    BY <1>c, <1>1, <2>2, KeysFrom DEF Relimits
  <2>4. CASE b \in Mine(p) /\ new.confirmed = Proven(k, b).confirmed
    <3>1. k = proc[p][b] /\ Serves(k, b) /\ k.confirmed \subseteq 0..now
      BY <1>1, <2>4, ServesMine DEF Relimits
    <3>2. /\ Proven(k, b).confirmed \subseteq 0..now
          /\ FreshStart(k, b) => Proven(k, b).confirmed = k.confirmed
          /\ ~ FreshStart(k, b) => Proven(k, b).confirmed = {now}
      BY <3>1, ProvenType
    <3> QED BY <1>1, <2>2, <2>3, <2>4, <3>1, <3>2 DEF Relimits
  <2>5. CASE new.confirmed = {}
    BY <1>1, <2>2, <2>3, <2>5 DEF Relimits
  <2> QED BY <1>1, <2>4, <2>5 DEF Relimits
<1>2. ASSUME NEW b \in DOMAIN q
      PROVE  /\ q[b] \in BucketObject /\ q[b].confirmed \subseteq 0..now
             /\ \A t \in q[b].confirmed :
                  \/ b \in Mine(p) /\ t \in proc[p][b].confirmed
                  \/ t = now /\ Lasting(state[b])'
  <2>1. CASE b \in bs
    <3>1. PICK k, new : Relimits(p, b, k, new) /\ q[b] = new
      BY <1>2, <2>1, <1>r
    <3> QED BY <1>1, <2>1, <3>1
  <2>2. CASE b \notin bs
    <3>1. b \in Mine(p) /\ q[b] = proc[p][b]
      BY <1>c, <1>2, <2>2
    <3> QED BY <3>1, ServesMine DEF Serves
  <2> QED BY <2>1, <2>2
<1>3. IsProc(q)
  BY <1>c, <1>2 DEF IsProc
<1>4. ProcTypes' /\ proc'[p] = q /\ \A o \in Procs \ {p} : proc'[o] = proc[o]
  BY <1>c, <1>3, OneProc
<1>5. \A b \in Buckets : /\ BucketKeys(b)'
                         /\ state'[b] = state[b] \/ Fades(b) \/ Lasting(state[b])'
  <2>1. ASSUME NEW b \in bs
        PROVE BucketKeys(b)' /\ (Fades(b) \/ Lasting(state[b])')
    BY <1>1, <1>r, <2>1
  <2>2. ASSUME NEW b \in Buckets \ bs PROVE BucketKeys(b)' /\ state'[b] = state[b]
    BY <1>c DEF World, KeyTypes, BucketKeys
  <2> QED BY <2>1, <2>2
<1>6. ASSUME NEW o \in Procs, NEW b \in Mine(o)' PROVE Evident(o, b)
  <2>1. CASE o = p
    BY <1>2, <1>4, <1>6, <2>1 DEF Mine, Evident
  <2>2. CASE o # p
    BY <1>4, <1>6, <2>2 DEF Mine, Evident
  <2> QED BY <2>1, <2>2
<1>7. KeyTypes'
  BY <1>c, <1>5 DEF KeyTypes
<1> QED BY <1>4, <1>5, <1>6, <1>7 DEF StoreMoves

(* set_max_capacity                                                        *)
LEMMA SetMaxKeeps ==
  ASSUME World, NEW p \in Procs, NEW b \in Mine(p), NEW value \in Nat \ {0},
         SetMax(p, b, value)
  PROVE  /\ StoreMoves
         /\ \A o \in Procs \ {p} : proc'[o] = proc[o]
         /\ Mine(p)' = Mine(p)
<1> DEFINE k == proc[p][b]  new == Proven(k, b)  q == [proc[p] EXCEPT ![b] = new]
<1>1. Serves(k, b) /\ k.confirmed \subseteq 0..now /\ b \in Buckets
  BY ServesMine DEF Serves
<1>2. /\ proc[p] = [a \in Mine(p) |-> proc[p][a]] /\ Mine(p) \subseteq Buckets
      /\ p \in DOMAIN proc
  BY DEF World, ProcTypes, IsProc, Mine
<1>3. proc' = [proc EXCEPT ![p] = q] /\ now' = now
  BY DEF SetMax
<1>4. /\ state'[b] = Anchored(k, b, value)
      /\ over'[b] = OverrideOf(k, b, value)
      /\ hist'[b] = HistoryOf(k, b, value, state'[b].exp)
      /\ state' = [a \in Buckets |-> state'[a]]
      /\ over' = [a \in Buckets |-> over'[a]]
      /\ hist' = [a \in Buckets |-> hist'[a]]
      /\ \A a \in Buckets \ {b} :
           state'[a] = state[a] /\ over'[a] = over[a] /\ hist'[a] = hist[a]
  BY <1>1 DEF SetMax, World, KeyTypes
<1>5. Relimits(p, b, k, new)
  BY <1>1, <1>4, ProvenType DEF Relimits
<1>6. /\ DOMAIN q = Mine(p) /\ q = [a \in DOMAIN q |-> q[a]]
      /\ q[b] = new /\ \A a \in Mine(p) \ {b} : q[a] = proc[p][a]
  BY <1>2
<1> HIDE DEF k, new, q
<1>7. \A a \in {b} : RelimitsTo(p, a, q)
  BY <1>5, <1>6 DEF RelimitsTo
<1>8. /\ StoreMoves /\ \A o \in Procs \ {p} : proc'[o] = proc[o]
      /\ proc'[p] = q
  <2>1. {b} \in SUBSET Buckets
    BY <1>1
  <2>2. \A a \in DOMAIN q : a \in {b} \/ (a \in Mine(p) /\ q[a] = proc[p][a])
    <3>1. DOMAIN q = Mine(p) /\ \A a \in Mine(p) \ {b} : q[a] = proc[p][a]
      BY <1>6
    <3> QED BY <3>1
  <2>3. DOMAIN q \subseteq Buckets /\ q = [a \in DOMAIN q |-> q[a]]
    BY <1>2, <1>6
  <2>4. Command(p, {b}, q)
    BY <1>3, <1>4, <1>7, <2>2, <2>3 DEF Command
  <2> QED BY <2>1, <2>4, CommandKeeps
<1> QED BY <1>6, <1>8 DEF Mine

(* apply_configured_max_capacity                                           *)
LEMMA ApplyKeeps ==
  ASSUME World, NEW p \in Procs, NEW b \in Mine(p), NEW value \in Nat \ {0},
         ApplyConfigured(p, b, value)
  PROVE  /\ StoreMoves
         /\ \A o \in Procs \ {p} : proc'[o] = proc[o]
         /\ Mine(p)' = Mine(p)
<1> DEFINE k == proc[p][b]  new == [Proven(k, b) EXCEPT !.conf = value]
           q == [proc[p] EXCEPT ![b] = new]
<1>1. Serves(k, b) /\ k.confirmed \subseteq 0..now /\ b \in Buckets
  BY ServesMine DEF Serves
<1>2. /\ proc[p] = [a \in Mine(p) |-> proc[p][a]] /\ Mine(p) \subseteq Buckets
      /\ p \in DOMAIN proc
  BY DEF World, ProcTypes, IsProc, Mine
<1>3. proc' = [proc EXCEPT ![p] = q] /\ now' = now
  BY DEF ApplyConfigured
<1>4. /\ state'[b] = Anchored(k, b, value)
      /\ over'[b] = NoOver /\ hist'[b] = NoHist
      /\ state' = [a \in Buckets |-> state'[a]]
      /\ over' = [a \in Buckets |-> over'[a]]
      /\ hist' = [a \in Buckets |-> hist'[a]]
      /\ \A a \in Buckets \ {b} :
           state'[a] = state[a] /\ over'[a] = over[a] /\ hist'[a] = hist[a]
  BY <1>1 DEF ApplyConfigured, World, KeyTypes
<1>5. new \in BucketObject /\ new.confirmed = Proven(k, b).confirmed
  <2>1. Proven(k, b) \in BucketObject /\ {} \in SUBSET Nat
    BY <1>1, ProvenType
  <2> QED BY <2>1, ObjectWith
<1>6. Relimits(p, b, k, new)
  BY <1>1, <1>4, <1>5 DEF Relimits
<1>7. /\ DOMAIN q = Mine(p) /\ q = [a \in DOMAIN q |-> q[a]]
      /\ q[b] = new /\ \A a \in Mine(p) \ {b} : q[a] = proc[p][a]
  BY <1>2
<1> HIDE DEF k, new, q
<1>8. \A a \in {b} : RelimitsTo(p, a, q)
  BY <1>6, <1>7 DEF RelimitsTo
<1>9. /\ StoreMoves /\ \A o \in Procs \ {p} : proc'[o] = proc[o]
      /\ proc'[p] = q
  <2>1. {b} \in SUBSET Buckets
    BY <1>1
  <2>2. \A a \in DOMAIN q : a \in {b} \/ (a \in Mine(p) /\ q[a] = proc[p][a])
    <3>1. DOMAIN q = Mine(p) /\ \A a \in Mine(p) \ {b} : q[a] = proc[p][a]
      BY <1>7
    <3> QED BY <3>1
  <2>3. DOMAIN q \subseteq Buckets /\ q = [a \in DOMAIN q |-> q[a]]
    BY <1>2, <1>7
  <2>4. Command(p, {b}, q)
    BY <1>3, <1>4, <1>8, <2>2, <2>3 DEF Command
  <2> QED BY <2>1, <2>4, CommandKeeps
<1> QED BY <1>7, <1>9 DEF Mine

(* prepare_reconfigured_backend                                            *)
LEMMA ReconfigureKeeps ==
  ASSUME World, NEW p \in Procs, NEW config \in Configs, Reconfigure(p, config)
  PROVE  /\ StoreMoves
         /\ \A o \in Procs \ {p} : proc'[o] = proc[o]
<1> DEFINE kept == Mine(p) \cap DOMAIN config
           cleared == {b \in Mine(p) : b \notin kept
                                       \/ config[b] # proc[p][b].conf}
           old(b) == IF b \in Mine(p) THEN proc[p][b] ELSE NewBucketOf(config[b])
           max(b) == IF b \in DOMAIN config THEN config[b]
                     ELSE EffectiveMax(old(b), b)
           touched == Mine(p) \cup DOMAIN config
           q == [b \in DOMAIN config |-> Installed(p, config, b)]
<1>1. /\ DOMAIN config \subseteq Buckets
      /\ \A b \in DOMAIN config : config[b] \in Nat \ {0}
  BY RedisAssumption
<1>2. Mine(p) \subseteq Buckets /\ cleared \subseteq Mine(p) /\ now' = now
  BY DEF World, ProcTypes, IsProc, Mine, Reconfigure
<1>3. /\ state' = [b \in Buckets |-> IF b \in touched THEN Anchored(old(b), b, max(b))
                                     ELSE state[b]]
      /\ over' = [b \in Buckets |-> IF b \in cleared THEN NoOver
                                    ELSE IF b \in touched THEN FoundOver(old(b), b)
                                    ELSE over[b]]
      /\ hist' = [b \in Buckets |->
                    IF b \in cleared THEN NoHist
                    ELSE IF b \notin touched THEN hist[b]
                    ELSE IF Override(old(b), b) = 0
                      THEN Retained(History(b), now + BucketTTL,
                                    Anchored(old(b), b, max(b)).exp)
                      ELSE HistoryOf(old(b), b, Override(old(b), b),
                                     Anchored(old(b), b, max(b)).exp)]
      /\ proc' = [proc EXCEPT ![p] = q]
  BY DEF Reconfigure
<1>4. ASSUME NEW b \in touched
      PROVE  /\ b \in Buckets /\ Serves(old(b), b)
             /\ old(b).confirmed \subseteq 0..now
             /\ b \in Mine(p) => old(b) = proc[p][b]
  <2>1. CASE b \in Mine(p)
    BY <1>2, <2>1, ServesMine
  <2>2. CASE b \notin Mine(p)
    <3>1. b \in Buckets /\ config[b] \in Nat \ {0} /\ old(b) = NewBucketOf(config[b])
      BY <1>1, <2>2
    <3> QED BY <2>2, <3>1, NewBucketType
  <2> QED BY <2>1, <2>2
<1> HIDE DEF old
<1>5. ASSUME NEW b \in touched PROVE max(b) \in Nat \ {0}
  BY <1>1, <1>4, <1>5, EffectiveMaxType
<1> HIDE DEF max
<1>6. ASSUME NEW b \in touched
      PROVE  /\ state'[b] = Anchored(old(b), b, max(b))
             /\ \/ over'[b] = over[b]
                   /\ \E least \in Nat :
                        hist'[b] = Retained(History(b), least, state'[b].exp)
                \/ \E m \in Nat :
                     /\ over'[b] = OverrideOf(old(b), b, m)
                     /\ hist'[b] = HistoryOf(old(b), b, m, state'[b].exp)
                \/ over'[b] = NoOver /\ hist'[b] = NoHist
  <2>1. b \in Buckets /\ state'[b] = Anchored(old(b), b, max(b))
    BY <1>3, <1>4, <1>6
  <2>2. CASE b \in cleared
    BY <1>3, <2>1, <2>2
  <2>3. CASE b \notin cleared /\ Override(old(b), b) = 0
    <3>1. over'[b] = over[b]
      BY <1>3, <1>6, <2>1, <2>3 DEF FoundOver
    <3>2. hist'[b] = Retained(History(b), now + BucketTTL, state'[b].exp)
      BY <1>3, <1>6, <2>1, <2>3
    <3>3. now + BucketTTL \in Nat
      BY Lifetimes DEF World
    <3> QED BY <2>1, <3>1, <3>2, <3>3
  <2>4. CASE b \notin cleared /\ Override(old(b), b) # 0
    <3> DEFINE m == Override(old(b), b)
    <3>1. over'[b] = OverrideOf(old(b), b, m)
      BY <1>3, <1>6, <2>1, <2>4 DEF FoundOver
    <3>2. hist'[b] = HistoryOf(old(b), b, m, state'[b].exp)
      BY <1>3, <1>6, <2>1, <2>4
    <3>3. m \in Nat
      BY <1>4, <1>6, EffectiveMaxType
    <3> HIDE DEF m
    <3> QED BY <2>1, <3>1, <3>2, <3>3
  <2> QED BY <2>2, <2>3, <2>4
<1>7. ASSUME NEW b \in DOMAIN config
      PROVE  /\ Installed(p, config, b) \in BucketObject
             /\ \/ b \in Mine(p) /\ Installed(p, config, b).confirmed
                                      = Proven(old(b), b).confirmed
                \/ Installed(p, config, b).confirmed = {}
  <2>1. CASE b \in Mine(p)
    <3>1. Proven(old(b), b) \in BucketObject /\ {} \in SUBSET Nat
      BY <1>4, <2>1, ProvenType
    <3> DEFINE k == Proven(old(b), b)
    <3>2. Installed(p, config, b) = [k EXCEPT !.conf = config[b]]
      BY <1>4, <2>1 DEF Installed
    <3>3. config[b] \in Nat \ {0}
      BY <1>1, <1>7
    <3> HIDE DEF k
    <3>4. [k EXCEPT !.conf = config[b]] \in BucketObject
          /\ [k EXCEPT !.conf = config[b]].confirmed = k.confirmed
      BY <3>1, <3>3, ObjectWith DEF k
    <3> QED BY <2>1, <3>2, <3>4 DEF k
  <2>2. CASE b \notin Mine(p)
    <3>1. Installed(p, config, b) = NewBucketOf(config[b])
      BY <2>2 DEF Installed
    <3> QED BY <1>1, <3>1 DEF NewBucketOf, BucketObject
  <2> QED BY <2>1, <2>2
<1>8. ASSUME NEW b \in touched
      PROVE  RelimitsTo(p, b, q)
  <2>1. CASE b \in DOMAIN config
    <3>1. Relimits(p, b, old(b), Installed(p, config, b))
      BY <1>4, <1>5, <1>6, <1>7, <1>8, <2>1 DEF Relimits
    <3>2. q[b] = Installed(p, config, b)
      BY <2>1
    <3> HIDE DEF q
    <3> QED BY <3>1, <3>2 DEF RelimitsTo
  <2>2. CASE b \notin DOMAIN config
    <3>1. Proven(old(b), b) \in BucketObject /\ b \in Mine(p)
      BY <1>4, <1>8, <2>2, ProvenType
    <3>2. Relimits(p, b, old(b), Proven(old(b), b))
      BY <1>4, <1>5, <1>6, <1>8, <3>1 DEF Relimits
    <3>3. b \notin DOMAIN q
      BY <2>2
    <3> HIDE DEF q
    <3> QED BY <3>2, <3>3 DEF RelimitsTo
  <2> QED BY <2>1, <2>2
<1>9. touched \in SUBSET Buckets
  BY <1>1, <1>2
<1>10. /\ state' = [b \in Buckets |-> state'[b]]
       /\ over' = [b \in Buckets |-> over'[b]]
       /\ hist' = [b \in Buckets |-> hist'[b]]
  BY <1>3
<1>11. \A b \in Buckets \ touched :
         state'[b] = state[b] /\ over'[b] = over[b] /\ hist'[b] = hist[b]
  BY <1>2, <1>3
<1>12. /\ q = [b \in DOMAIN q |-> q[b]] /\ DOMAIN q \subseteq Buckets
       /\ DOMAIN q \subseteq touched /\ proc' = [proc EXCEPT ![p] = q]
  BY <1>1, <1>3
<1> HIDE DEF q, touched
<1>13. Command(p, touched, q)
  <2>1. \A b \in touched : RelimitsTo(p, b, q)
    BY <1>8
  <2>2. \A b \in DOMAIN q : b \in touched \/ (b \in Mine(p) /\ q[b] = proc[p][b])
    <3>1. DOMAIN q \subseteq touched
      BY <1>12
    <3> QED BY <3>1
  <2>3. now' = now /\ proc' = [proc EXCEPT ![p] = q]
    BY <1>2, <1>12
  <2> QED BY <1>10, <1>11, <1>12, <2>1, <2>2, <2>3 DEF Command
<1> QED BY <1>9, <1>13, CommandKeeps

-----------------------------------------------------------------------------
(* Locks, ids and calls *)

(* A lock has one holder or none.                                          *)
LockTypes ==
  /\ lock = [b \in Buckets |-> lock[b]]
  /\ \A b \in Buckets : lock[b] = {} \/ \E c \in Callers : lock[b] = {c}

Tokens == {{}} \cup {{n} : n \in Nat}

IdTypes ==
  /\ marker \in [Ids -> [usage : Nat, exp : Nat]]
  /\ tombstone \in [Ids -> [token : Tokens, exp : Nat]]

(* A call in its section has the locks of all buckets of its process; what *)
(* it will write, it may write.                                            *)
Section == {"read", "extend", "write", "sent", "check"}

RecSound(c, k) ==
  /\ k \in [pc : PCs, op : Ops, id : 0..MaxIds, usage : Nat, actual : Nat,
            token : Tokens, locks : SUBSET Buckets, rd : {k.rd},
            amount : {k.amount}, answer : Answers, resent : BOOLEAN]
  /\ k.pc = "idle" => k = Idle
  /\ k.pc # "idle" => k.op # "none" /\ k.id \in Ids
  /\ k.pc = "callbacks" => k.op = "acquire"
  /\ k.pc = "sent" => k.answer # "none"
  /\ k.locks \subseteq Mine(P(c))
  /\ k.pc \in Section => k.locks = Mine(P(c))
  /\ Writable(P(c), k.amount, k.rd)

CallTypes ==
  /\ call = [c \in Callers |-> call[c]]
  /\ \A c \in Callers : RecSound(c, call[c])

Reservation == [status : Status, owner : SUBSET Procs, usage : Nat, tries : Nat,
                charges : Nat, credits : Nat, reused : BOOLEAN]

BoundTypes ==
  /\ held \in [Ids -> Reservation]
  /\ issued \in 0..MaxIds
  /\ left \in [{"lapses", "faults", "crashes", "replays"} -> Nat]
  /\ stalled \in BOOLEAN
  /\ evictions \in 0..MaxEvictions

Typed ==
  /\ now \in 0..MaxTime /\ KeyTypes /\ ProcTypes /\ LockTypes
  /\ IdTypes /\ CallTypes /\ BoundTypes

(* The types have what TypeOK asks for.                                    *)
LEMMA TypedIsTyped == Typed => TypeOK
<1> SUFFICES ASSUME Typed PROVE TypeOK
  OBVIOUS
<1>1. MaxTime \in Nat /\ now \in Nat
  BY RedisAssumption DEF Typed
<1>2. /\ state \in [Buckets -> [keys : SUBSET Pair, cap : Int, last : Nat,
                                exp : Nat]]
      /\ over \in [Buckets -> [max : Nat, anchor : Nat, exp : Nat]]
      /\ hist \in [Buckets -> [max : Nat, anchor : Nat, until : Nat, exp : Nat]]
  BY DEF Typed, KeyTypes, BucketKeys, States, Overrides, Histories
<1>3. ASSUME NEW x, NEW S, x = {} \/ \E y \in S : x = {y}
      PROVE  Cardinality(x) <= 1
  <2>1. CASE x = {}
    BY <2>1, FS_EmptySet
  <2>2. CASE \E y \in S : x = {y}
    BY <2>2, FS_Singleton
  <2> QED BY <1>3, <2>1, <2>2
<1>4. ASSUME NEW b \in Buckets
      PROVE  lock[b] \subseteq Callers /\ Cardinality(lock[b]) <= 1
  <2>1. lock[b] = {} \/ \E c \in Callers : lock[b] = {c}
    BY DEF Typed, LockTypes
  <2>2. Cardinality(lock[b]) <= 1
    BY <1>3, <2>1
  <2> QED BY <2>1, <2>2
<1>5. marker \in [Ids -> [usage : Nat, exp : Nat]]
  BY DEF Typed, IdTypes
<1>6. ASSUME NEW r \in Ids PROVE Cardinality(tombstone[r].token) <= 1
  <2>1. tombstone[r].token = {} \/ \E n \in Nat : tombstone[r].token = {n}
    BY DEF Typed, IdTypes, Tokens
  <2> QED BY <1>3, <2>1
<1>7. \A p \in Procs : \A b \in Mine(p) :
        proc[p][b].conf \in Nat \ {0} /\ proc[p][b].confirmed \subseteq 0..now
  BY DEF Typed, ProcTypes, IsProc, Mine, BucketObject
<1>8. StoreTypeOK
  BY <1>2, <1>4, <1>5, <1>6, <1>7 DEF StoreTypeOK, Typed
<1>9. ASSUME NEW c \in Callers
      PROVE  /\ call[c].pc \in PCs /\ call[c].op \in Ops
             /\ call[c].id \in 0..MaxIds
             /\ call[c].answer \in Answers
             /\ call[c].locks \subseteq Buckets
             /\ At(c, "idle") <=> call[c] = Idle
  <2>1. RecSound(c, call[c])
    BY DEF Typed, CallTypes
  <2>2. Idle.pc = "idle"
    BY DEF Idle
  <2> QED BY <2>1, <2>2 DEF RecSound, At
<1>10. \A r \in Ids : held[r].status \in Status
  BY DEF Typed, BoundTypes, Reservation
<1> QED BY <1>8, <1>9, <1>10 DEF TypeOK, CallsTypeOK, Typed, BoundTypes

-----------------------------------------------------------------------------
(* What a caller's step does to the call, to its reservation and to the    *)
(* marker and the tombstone of its id.  Every action of a task and of a    *)
(* thread is a step of one of these kinds.                                 *)

Gets(c, k) == RecSound(c, k)' /\ call' = [call EXCEPT ![c] = k]
Same(c, k) ==
  /\ k.op = call[c].op /\ k.id = call[c].id /\ k.usage = call[c].usage
Knows(r, h) == h \in Reservation /\ held' = [held EXCEPT ![r] = h]
SameCounts(h, r) ==
  /\ h.owner = held[r].owner /\ h.usage = held[r].usage
  /\ h.charges = held[r].charges /\ h.credits = held[r].credits
  /\ h.reused = held[r].reused

Consuming == {"acquire", "record"}
Before == {"lock", "read", "extend", "write"}

(* An acquire or a recording begins.                                       *)
Starts(c, r) ==
  /\ call[c].pc = "idle" /\ TakesId(r)
  /\ \E k : Gets(c, k) /\ k.pc = "lock" /\ k.op \in Consuming /\ k.id = r
  /\ UNCHANGED ids

(* A refund begins.                                                        *)
Asks(c, r) ==
  /\ call[c].pc = "idle"
  /\ held[r].status \in {"held", "unsure", "closed", "failed"}
  /\ held[r].owner = {P(c)}
  /\ \E k : Gets(c, k) /\ k.pc = "lock" /\ k.op = "refund" /\ k.id = r
  /\ \E h : Knows(r, h) /\ SameCounts(h, r) /\ h.status = held[r].status
  /\ UNCHANGED <<issued, ids>>

(* A call goes on, or tries again.                                         *)
Moves(c) ==
  /\ call[c].pc \in {"lock", "read", "extend"}
  /\ \E k : Gets(c, k) /\ Same(c, k) /\ k.pc \in Before
  /\ UNCHANGED <<held, issued, ids>>

(* A call ends before its script.                                          *)
Drops(c) ==
  /\ call[c].pc \in Before
  /\ call[c].op # "undo"
  /\ Gets(c, Idle)
  /\ UNCHANGED <<held, issued, ids>>

(* The acquire script runs.                                                *)
Charges(c, r) ==
  /\ call[c].pc \in {"write", "sent"} /\ call[c].op \in Consuming
  /\ call[c].id = r
  /\ \E k : /\ Gets(c, k) /\ Same(c, k) /\ k.pc = "sent"
            /\ k.answer = AcquireStatus(r, call[c].usage)
            /\ k.resent <=> call[c].pc = "sent"
  /\ issued' = issued
  /\ IF AcquireStatus(r, call[c].usage) = "ok"
       THEN /\ \E h : /\ Knows(r, h) /\ h.status = held[r].status
                      /\ h.charges = held[r].charges + 1
                      /\ h.credits = held[r].credits
                      /\ h.owner = {P(c)} /\ h.reused = held[r].reused
            /\ marker' = [marker EXCEPT ![r] = [usage |-> call[c].usage,
                                                exp |-> now + Lifetime]]
            /\ tombstone' = tombstone
       ELSE UNCHANGED <<held, ids>>

(* The refund script runs.                                                 *)
Settles(c, r) ==
  /\ call[c].pc \in {"write", "sent"} /\ call[c].id = r
  /\ \/ call[c].op = "refund"
     \/ call[c].op = "undo" /\ c \in Tasks /\ r \in Recovering
  /\ \E k : /\ Gets(c, k) /\ Same(c, k) /\ k.pc = "sent"
            /\ k.answer = RefundStatus(r, call[c].usage, call[c].token)
  /\ issued' = issued
  /\ IF RefundStatus(r, call[c].usage, call[c].token) = "ok"
       THEN /\ \E h : /\ Knows(r, h) /\ h.status = held[r].status
                      /\ h.charges = held[r].charges
                      /\ h.credits = held[r].credits + 1
                      /\ h.owner = held[r].owner /\ h.reused = held[r].reused
            /\ marker' = [marker EXCEPT ![r] = NoMarker]
            /\ \E k : k \in [token : Tokens, exp : {now + DedupTTL}]
                      /\ tombstone' = [tombstone EXCEPT ![r] = k]
       ELSE UNCHANGED <<held, ids>>

(* A cleanup that the client cannot recover                                *)
Alone(c, r) == c \in Threads \/ r \notin Recovering

(* The pipeline without a tombstone runs.                                  *)
Reverts(c, r) ==
  /\ call[c].pc \in {"write", "sent"} /\ call[c].id = r
  /\ call[c].op = "undo" /\ Alone(c, r)
  /\ \E k : Gets(c, k) /\ Same(c, k) /\ k.pc = "sent"
  /\ issued' = issued
  /\ \E h : /\ Knows(r, h) /\ h.status = held[r].status
            /\ h.charges = held[r].charges
            /\ h.credits = held[r].credits + (IF call[c].pc = "sent" THEN 0 ELSE 1)
            /\ h.owner = held[r].owner /\ h.reused = held[r].reused
  /\ marker' = [marker EXCEPT ![r] = NoMarker]
  /\ tombstone' = tombstone

(* The request or the reply is lost.                                       *)
Loses(c) ==
  /\ call[c].pc \in {"write", "sent"}
  /\ \E k : Gets(c, k) /\ Same(c, k) /\ k.pc = "check"
  /\ UNCHANGED <<held, issued, ids>>

(* A call has its charge: it has the answer, or finds the marker.          *)
HasCharge(c, r) ==
  \/ call[c].pc = "sent" /\ call[c].answer \in {"ok", "replayed"}
  \/ call[c].pc = "check" /\ LiveMarker(r)

(* An acquire has charged.                                                 *)
Obtains(c, r) ==
  /\ call[c].op = "acquire" /\ call[c].id = r /\ HasCharge(c, r)
  /\ \E k : Gets(c, k) /\ Same(c, k) /\ k.pc = "callbacks"
  /\ UNCHANGED <<held, issued, ids>>

(* The caller gets its reservation.                                        *)
Delivers(c, r) ==
  /\ call[c].id = r
  /\ \/ call[c].pc = "callbacks"
     \/ call[c].op = "record" /\ HasCharge(c, r)
  /\ Gets(c, Idle)
  /\ \E h : Knows(r, h) /\ SameCounts(h, r) /\ h.status = "held"
  /\ UNCHANGED <<issued, ids>>

(* An acquire turns to undo its charge.                                    *)
Turns(c, r) ==
  /\ call[c].op = "acquire" /\ call[c].id = r
  /\ \/ call[c].pc = "sent" /\ call[c].answer = "ok"
     \/ call[c].pc = "callbacks"
  /\ \E k : Gets(c, k) /\ k.pc = "lock" /\ k.op = "undo" /\ k.id = r
  /\ \E h : Knows(r, h) /\ SameCounts(h, r) /\ h.status = held[r].status
  /\ UNCHANGED <<issued, ids>>

(* A cleanup is over.                                                      *)
Fails(c, r) ==
  /\ call[c].op = "undo" /\ call[c].id = r
  /\ Gets(c, Idle)
  /\ \/ held' = held /\ held[r].status = "closed"
     \/ \E h : Knows(r, h) /\ SameCounts(h, r) /\ h.status \in {"failed", "undone"}
  /\ UNCHANGED <<issued, ids>>

(* A refund is over.                                                       *)
Closes(c, r) ==
  /\ call[c].op = "refund" /\ call[c].id = r /\ call[c].pc \in {"sent", "check"}
  /\ Gets(c, Idle)
  /\ \/ held' = held /\ call[c].pc = "sent"
                     /\ call[c].answer \in {"mismatch", "incoherent"}
     \/ \E h : Knows(r, h) /\ SameCounts(h, r) /\ h.status \in {"closed", "unsure"}
  /\ UNCHANGED <<issued, ids>>

(* An acquire or a recording ends after its script without a reservation.  *)
(* It reports what it may have left behind.                                *)
Reports(c, r) ==
  /\ call[c].op \in Consuming /\ call[c].id = r
  /\ call[c].pc \in {"sent", "check"}
  /\ Gets(c, Idle)
  /\ \/ /\ held' = held
        /\ \/ ~ LiveMarker(r) \/ held[r].status # "no"
           \/ call[c].pc = "sent" /\ call[c].answer \notin {"ok", "replayed"}
           \/ call[c].pc = "sent" /\ call[c].answer = "replayed" /\ ~ call[c].resent
     \/ /\ held[r].status = "no"
        /\ \E h : Knows(r, h) /\ SameCounts(h, r)
                  /\ h.status \in {"unanswered", "resent", "signalled"}
  /\ UNCHANGED <<issued, ids>>

(* The client gets a failure while the cleanup goes on.                    *)
Drains(c, r) ==
  /\ call[c].op = "undo" /\ call[c].id = r /\ ~ Alone(c, r)
  /\ held[r].status = "no"
  /\ \E h : Knows(r, h) /\ SameCounts(h, r) /\ h.status = "failed"
  /\ UNCHANGED <<call, issued, ids>>

CallKind(c, r) ==
  \/ Starts(c, r) \/ Asks(c, r) \/ Moves(c) \/ Drops(c)
  \/ Charges(c, r) \/ Settles(c, r) \/ Reverts(c, r) \/ Loses(c)
  \/ Obtains(c, r) \/ Delivers(c, r) \/ Turns(c, r) \/ Fails(c, r)
  \/ Closes(c, r) \/ Reports(c, r) \/ Drains(c, r)

-----------------------------------------------------------------------------
(* What a caller's step does to the keys, the locks and the evidence       *)

Writing == {"extend", "write", "sent"}

(* Nothing, and the call is not about to write.                            *)
Rests(c) == UNCHANGED <<keys, proc, lock>> /\ call'[c].pc \notin Writing

(* The call keeps its place: only its client learns something.             *)
Waits == UNCHANGED <<keys, proc, lock, call>>

(* It releases its locks, and may have learned what it wrote.              *)
Releases(c) ==
  /\ UNCHANGED keys
  /\ lock' = Released(c)
  /\ call'[c].pc \notin Writing
  /\ \/ proc' = proc
     \/ /\ call[c].pc = "sent" /\ call[c].answer = "ok"
        /\ Confirm(P(c), DOMAIN call[c].amount, call[c].rd.time)

(* It takes a lock.                                                        *)
Takes(c) ==
  /\ UNCHANGED <<keys, proc>>
  /\ call[c].pc = "lock" /\ call'[c].pc \in {"lock", "read"}
  /\ \E b \in Mine(P(c)) : lock[b] = {} /\ lock' = [lock EXCEPT ![b] = {c}]

(* It reads, and goes on, tries again or gives up.                         *)
Looks(c) ==
  /\ call[c].pc = "read" /\ Read(P(c))
  /\ \/ /\ lock' = lock
        /\ call'[c].pc = "extend" /\ call'[c].locks = call[c].locks
        /\ call'[c].rd = Reading(P(c))
        /\ DOMAIN call'[c].amount = Mine(P(c))
     \/ lock' = Released(c) /\ call'[c].pc \in {"lock", "idle"}

(* It extends the locks that are still its own.                            *)
Extends(c) ==
  /\ UNCHANGED <<keys, proc, lock>>
  /\ call[c].pc = "extend" /\ Owned(c)
  /\ call'[c] = [call[c] EXCEPT !.pc = "write"]

(* Its script or pipeline runs, and may write.                             *)
Executes(c) ==
  /\ UNCHANGED <<proc, lock>>
  /\ call[c].pc \in {"write", "sent"} /\ call'[c].pc = "sent"
  /\ call'[c].locks = call[c].locks
  /\ call'[c].rd = call[c].rd /\ call'[c].amount = call[c].amount
  /\ \/ WriteState(P(c), call[c].amount, call[c].rd)
     \/ UNCHANGED keys /\ call'[c].answer # "ok"

StoreKind(c) ==
  /\ now' = now /\ evictions' = evictions /\ stalled' = stalled
  /\ left' \in [{"lapses", "faults", "crashes", "replays"} -> Nat]
  /\ \/ Rests(c) \/ Waits \/ Releases(c) \/ Takes(c) \/ Looks(c)
     \/ Extends(c) \/ Executes(c)

(* The process of a caller                                                 *)
LEMMA ProcOfCaller ==
  ASSUME NEW c \in Callers
  PROVE  P(c) \in Procs
BY CallsAssumption DEF P

(* Confirming a write gives evidence as of the time of the reading.        *)
LEMMA ConfirmKeeps ==
  ASSUME World, NEW p \in Procs, NEW bs, NEW time \in 0..now, Confirm(p, bs, time),
         now' = now
  PROVE  /\ ProcTypes'
         /\ \A q \in Procs : Mine(q)' = Mine(q)
         /\ \A q \in Procs : \A b \in Mine(q) :
              /\ proc'[q][b].conf = proc[q][b].conf
              /\ \/ proc'[q][b] = proc[q][b]
                 \/ q = p /\ b \in bs /\ proc'[q][b].confirmed = {time}
<1> DEFINE obj(b) == IF b \in bs THEN [proc[p][b] EXCEPT !.confirmed = {time}]
                     ELSE proc[p][b]
           q == [b \in Mine(p) |-> obj(b)]
<1>1. now \in Nat /\ Mine(p) \subseteq Buckets
  BY DEF World, ProcTypes, IsProc, Mine
<1>2. proc' = [proc EXCEPT ![p] = q]
  BY DEF Confirm
<1>3. ASSUME NEW b \in Mine(p)
      PROVE  /\ obj(b) \in BucketObject /\ obj(b).conf = proc[p][b].conf
             /\ obj(b).confirmed \subseteq 0..now
             /\ obj(b) = proc[p][b] \/ (b \in bs /\ obj(b).confirmed = {time})
  <2>1. proc[p][b] \in BucketObject /\ proc[p][b].confirmed \subseteq 0..now
    BY ServesMine DEF Serves
  <2> DEFINE x == [proc[p][b] EXCEPT !.confirmed = {time}]
  <2>2. {time} \in SUBSET Nat /\ {time} \subseteq 0..now /\ 1 \in Nat \ {0}
    BY <1>1
  <2>3. x \in BucketObject /\ x.conf = proc[p][b].conf /\ x.confirmed = {time}
    BY <2>1, <2>2, ObjectWith
  <2>4. obj(b) = IF b \in bs THEN x ELSE proc[p][b]
    OBVIOUS
  <2> HIDE DEF x, obj
  <2> QED BY <2>1, <2>2, <2>3, <2>4
<1> HIDE DEF obj
<1>4. IsProc(q)
  BY <1>1, <1>3 DEF IsProc
<1>5. ProcTypes' /\ proc'[p] = q /\ \A o \in Procs \ {p} : proc'[o] = proc[o]
  BY <1>2, <1>4, OneProc
<1>6. \A o \in Procs : Mine(o)' = Mine(o)
  BY <1>5 DEF Mine
<1>7. ASSUME NEW o \in Procs, NEW b \in Mine(o)
      PROVE  /\ proc'[o][b].conf = proc[o][b].conf
             /\ \/ proc'[o][b] = proc[o][b]
                \/ o = p /\ b \in bs /\ proc'[o][b].confirmed = {time}
  <2>1. CASE o # p
    BY <1>5, <1>7, <2>1
  <2>2. CASE o = p
    <3>1. proc'[o][b] = obj(b)
      BY <1>5, <1>7, <2>2
    <3> QED BY <1>3, <1>7, <2>2, <3>1
  <2> QED BY <2>1, <2>2
<1> QED BY <1>5, <1>6, <1>7

(* Releasing locks                                                         *)
LEMMA ReleasedLocks ==
  ASSUME LockTypes, NEW c \in Callers, lock' = Released(c)
  PROVE  /\ LockTypes'
         /\ \A b \in Buckets : lock'[b] = {} \/ (lock'[b] = lock[b] /\ lock[b] # {c})
<1>1. lock' = [b \in Buckets |-> lock[b] \ {c}]
  BY DEF Released
<1>2. ASSUME NEW b \in Buckets
      PROVE  /\ lock'[b] = {} \/ (lock'[b] = lock[b] /\ lock[b] # {c})
             /\ lock'[b] = {} \/ \E d \in Callers : lock'[b] = {d}
  <2>1. lock'[b] = lock[b] \ {c}
    BY <1>1
  <2>2. lock[b] = {} \/ \E d \in Callers : lock[b] = {d}
    BY DEF LockTypes
  <2> QED BY <2>1, <2>2
<1>3. lock' = [b \in Buckets |-> lock'[b]]
  BY <1>1
<1> QED BY <1>2, <1>3 DEF LockTypes

(* What a caller may write is not disturbed by others.                     *)
LEMMA SoundStays ==
  ASSUME NEW c \in Callers, NEW k, RecSound(c, k), now' = now,
         Mine(P(c))' = Mine(P(c))
  PROVE  RecSound(c, k)'
<1>1. Writable(P(c), k.amount, k.rd)'
  BY DEF RecSound, Writable
<1> QED BY <1>1 DEF RecSound, P

(* The store after a caller's step                                         *)
LEMMA StoreKindKeeps ==
  ASSUME Typed, NEW c \in Callers, StoreKind(c)
  PROVE  /\ now' = now
         /\ KeyTypes' /\ ProcTypes' /\ LockTypes'
         /\ \A q \in Procs : Mine(q)' = Mine(q)
         /\ \A q \in Procs : \A b \in Mine(q) : proc'[q][b].conf = proc[q][b].conf
         /\ \A b \in Buckets :
              state'[b] = state[b] \/ Fades(b) \/ Lasting(state[b])'
         /\ \A d \in Callers : \A k : RecSound(d, k) => RecSound(d, k)'
<1>1. World /\ now' = now /\ P(c) \in Procs
  <2>1. now \in Nat
    BY RedisAssumption DEF Typed
  <2> QED BY <2>1, ProcOfCaller DEF Typed, World, StoreKind
<1>2. RecSound(c, call[c])
  BY DEF Typed, CallTypes
<1>3. LockTypes'
  <2>1. CASE lock' = lock
    BY <2>1 DEF Typed, LockTypes
  <2>2. CASE lock' = Released(c)
    BY <2>2, ReleasedLocks DEF Typed
  <2>3. CASE \E b \in Mine(P(c)) : lock[b] = {} /\ lock' = [lock EXCEPT ![b] = {c}]
    <3>1. PICK b \in Mine(P(c)) : lock' = [lock EXCEPT ![b] = {c}]
      BY <2>3
    <3>2. lock = [a \in Buckets |-> lock[a]]
      BY DEF Typed, LockTypes
    <3>3. lock' = [a \in Buckets |-> IF a = b THEN {c} ELSE lock[a]]
      BY <3>1, <3>2
    <3> HIDE <3>1
    <3> QED BY <3>3 DEF Typed, LockTypes
  <2> QED BY <2>1, <2>2, <2>3 DEF StoreKind, Rests, Waits, Releases, Takes, Looks,
         Extends, Executes
<1> DEFINE Good ==
      /\ KeyTypes' /\ ProcTypes'
      /\ \A q \in Procs : Mine(q)' = Mine(q)
      /\ \A q \in Procs : \A b \in Mine(q) : proc'[q][b].conf = proc[q][b].conf
      /\ \A b \in Buckets :
           state'[b] = state[b] \/ Fades(b) \/ Lasting(state[b])'
<1>4. ASSUME UNCHANGED <<keys, proc>> PROVE Good
  <2>1. StoreMoves
    BY <1>1, <1>4, StoreStays
  <2>2. \A q \in Procs : Mine(q)' = Mine(q)
    BY <1>4 DEF Mine
  <2> QED BY <1>4, <2>1, <2>2 DEF StoreMoves
<1>5. ASSUME UNCHANGED keys,
             Confirm(P(c), DOMAIN call[c].amount, call[c].rd.time)
      PROVE  Good
  <2>1. call[c].rd.time \in 0..now
    BY <1>2 DEF RecSound, Writable
  <2>2. /\ ProcTypes' /\ \A q \in Procs : Mine(q)' = Mine(q)
        /\ \A q \in Procs : \A b \in Mine(q) : proc'[q][b].conf = proc[q][b].conf
    BY <1>1, <1>5, <2>1, ConfirmKeeps
  <2>3. KeyTypes' /\ state' = state
    BY <1>1, <1>5 DEF World, KeyTypes, BucketKeys, keys
  <2> QED BY <2>2, <2>3
<1>6. ASSUME Looks(c) PROVE Good
  <2>1. Read(P(c))
    BY <1>6 DEF Looks
  <2> QED BY <1>1, <2>1, ReadKeeps DEF StoreMoves
<1>7. ASSUME WriteState(P(c), call[c].amount, call[c].rd), proc' = proc
      PROVE  Good
  <2>1. Writable(P(c), call[c].amount, call[c].rd)
    BY <1>2 DEF RecSound
  <2>2. StoreMoves
    BY <1>1, <1>7, <2>1, WriteKeeps
  <2> QED BY <1>7, <2>2 DEF StoreMoves, Mine
<1>8. Good
  BY <1>4, <1>5, <1>6, <1>7 DEF StoreKind, Rests, Waits, Releases, Takes,
     Extends, Executes
<1>9. ASSUME NEW d \in Callers, NEW k, RecSound(d, k) PROVE RecSound(d, k)'
  <2>1. Mine(P(d))' = Mine(P(d))
    <3>1. P(d) \in Procs /\ P(d)' = P(d)
      BY ProcOfCaller DEF P
    <3> QED BY <1>8, <3>1 DEF Mine
  <2> QED BY <1>1, <1>9, <2>1, SoundStays
<1> QED BY <1>1, <1>3, <1>8, <1>9

-----------------------------------------------------------------------------
(* The steps of a caller are of these kinds *)

Kind(c) == StoreKind(c) /\ \E r \in Ids : CallKind(c, r)

(* A call is sound, and while it runs it is about an id.                   *)
LEMMA CallOf ==
  ASSUME Typed, NEW c \in Callers
  PROVE  /\ RecSound(c, call[c])
         /\ call[c].pc # "idle" => call[c].id \in Ids /\ call[c].op # "none"
         /\ call[c].usage \in Nat /\ call[c].actual \in Nat
         /\ call[c].op \in Ops /\ call[c].pc \in PCs /\ call[c].token \in Tokens
         /\ call = [d \in Callers |-> call[d]]
BY DEF Typed, CallTypes, RecSound

(* A call that begins is sound.                                            *)
LEMMA BeginSound ==
  ASSUME Typed, NEW c \in Callers, NEW op \in Ops \ {"none"}, NEW r \in Ids,
         NEW u \in Nat, NEW a \in Nat, NEW token \in Tokens
  PROVE  /\ RecSound(c, Begin(op, r, u, a, token))
         /\ Begin(op, r, u, a, token).pc = "lock"
         /\ Begin(op, r, u, a, token).op = op
         /\ Begin(op, r, u, a, token).id = r
         /\ Begin(op, r, u, a, token).usage = u
<1>1. PICK k : k = Begin(op, r, u, a, token)
  OBVIOUS
<1>2. PICK i : i = Idle
  OBVIOUS
<1>3. i = [pc |-> "idle", op |-> "none", id |-> 0, usage |-> 0, actual |-> 0,
           token |-> {}, locks |-> {}, rd |-> NoReading, amount |-> NoAmount,
           answer |-> "none", resent |-> FALSE]
  BY <1>2 DEF Idle
<1>4. k = [i EXCEPT !.pc = "lock", !.op = op, !.id = r, !.usage = u,
                    !.actual = a, !.token = token]
  BY <1>1, <1>2 DEF Begin
<1>5. /\ k.pc = "lock" /\ k.op = op /\ k.id = r /\ k.usage = u
      /\ k.actual = a /\ k.token = token /\ k.locks = {}
      /\ k.rd = NoReading /\ k.amount = NoAmount
      /\ k.answer = "none" /\ k.resent = FALSE
  BY <1>3, <1>4
<1>6. r \in 0..MaxIds
  BY RedisAssumption DEF Ids
<1>7. k \in [pc : PCs, op : Ops, id : 0..MaxIds, usage : Nat, actual : Nat,
             token : Tokens, locks : SUBSET Buckets, rd : {k.rd},
             amount : {k.amount}, answer : Answers, resent : BOOLEAN]
  <2>1. "lock" \in PCs /\ "none" \in Answers /\ {} \in SUBSET Buckets
    BY DEF PCs, Answers
  <2>2. i \in [pc : {"idle"}, op : {"none"}, id : {0}, usage : {0},
               actual : {0}, token : {{}}, locks : {{}}, rd : {NoReading},
               amount : {NoAmount}, answer : {"none"}, resent : {FALSE}]
    BY <1>3
  <2> QED BY <1>4, <1>5, <1>6, <2>1, <2>2
<1>8. Writable(P(c), NoAmount, NoReading)
  BY RedisAssumption DEF Writable, NoAmount, NoReading, Typed
<1>9. RecSound(c, k)
  BY <1>5, <1>7, <1>8 DEF RecSound, Section
<1> QED BY <1>1, <1>5, <1>9

(* An idle caller is sound.                                                *)
LEMMA IdleSound ==
  ASSUME Typed, NEW c \in Callers
  PROVE  RecSound(c, Idle) /\ Idle.pc = "idle"
<1>1. Writable(P(c), NoAmount, NoReading)
  BY RedisAssumption DEF Writable, NoAmount, NoReading, Typed
<1>2. 0 \in 0..MaxIds
  BY RedisAssumption
<1>3. \A k : k = Idle => RecSound(c, k) /\ k.pc = "idle"
  BY <1>1, <1>2 DEF RecSound, Idle, PCs, Ops, Answers, Section, Tokens
<1> QED BY <1>3

(* A call that goes on is sound.                                           *)
LEMMA GoSound ==
  ASSUME Typed, NEW c \in Callers, NEW pc \in {"write", "check", "callbacks"},
         call[c].pc \in Section, pc = "callbacks" => call[c].op = "acquire",
         NEW k, k = [call[c] EXCEPT !.pc = pc]
  PROVE  /\ RecSound(c, k) /\ Same(c, k)
         /\ k.pc = pc /\ k.locks = call[c].locks /\ k.rd = call[c].rd
         /\ k.amount = call[c].amount /\ k.answer = call[c].answer
<1>1. RecSound(c, call[c])
  BY CallOf
<1>2. /\ k.pc = pc /\ k.op = call[c].op /\ k.id = call[c].id
      /\ k.usage = call[c].usage /\ k.actual = call[c].actual
      /\ k.token = call[c].token /\ k.locks = call[c].locks
      /\ k.rd = call[c].rd /\ k.amount = call[c].amount
      /\ k.answer = call[c].answer /\ k.resent = call[c].resent
  BY <1>1 DEF RecSound
<1>3. k \in [pc : PCs, op : Ops, id : 0..MaxIds, usage : Nat, actual : Nat,
             token : Tokens, locks : SUBSET Buckets, rd : {k.rd},
             amount : {k.amount}, answer : Answers, resent : BOOLEAN]
  BY <1>1, <1>2 DEF RecSound, PCs
<1> QED BY <1>1, <1>2, <1>3 DEF RecSound, Same, Section

(* The call c with the answer of its script                                *)
With(c, answer, resent) ==
  [call[c] EXCEPT !.pc = "sent", !.answer = answer, !.resent = resent]

(* A call whose script has run is sound.                                   *)
LEMMA AnsweredSound ==
  ASSUME Typed, NEW c \in Callers, call[c].pc \in {"write", "sent"},
         NEW answer \in Answers \ {"none"}, NEW resent \in BOOLEAN, NEW k,
         k = With(c, answer, resent)
  PROVE  /\ RecSound(c, k) /\ Same(c, k)
         /\ k.pc = "sent" /\ k.locks = call[c].locks /\ k.rd = call[c].rd
         /\ k.amount = call[c].amount /\ k.answer = answer /\ k.resent = resent
<1>1. RecSound(c, call[c])
  BY CallOf
<1>2. /\ k.pc = "sent" /\ k.op = call[c].op /\ k.id = call[c].id
      /\ k.usage = call[c].usage /\ k.actual = call[c].actual
      /\ k.token = call[c].token /\ k.locks = call[c].locks
      /\ k.rd = call[c].rd /\ k.amount = call[c].amount
      /\ k.answer = answer /\ k.resent = resent
  BY <1>1 DEF RecSound, With
<1>3. k \in [pc : PCs, op : Ops, id : 0..MaxIds, usage : Nat, actual : Nat,
             token : Tokens, locks : SUBSET Buckets, rd : {k.rd},
             amount : {k.amount}, answer : Answers, resent : BOOLEAN]
  BY <1>1, <1>2 DEF RecSound, With, PCs
<1> QED BY <1>1, <1>2, <1>3 DEF RecSound, Same, Section

(* The call of a caller after a step of the store                          *)
LEMMA StepGets ==
  ASSUME Typed, NEW c \in Callers, StoreKind(c), NEW k, RecSound(c, k),
         call' = [call EXCEPT ![c] = k]
  PROVE  Gets(c, k)
<1>1. RecSound(c, k)'
  BY StoreKindKeeps
<1> QED BY <1>1 DEF Gets

(* The client learns the fate of a reservation.                            *)
LEMMA AnswerKnows ==
  ASSUME Typed, NEW r \in Ids, NEW status \in Status, Answer(r, status)
  PROVE  \E h : Knows(r, h) /\ SameCounts(h, r) /\ h.status = status
<1> DEFINE h == [held[r] EXCEPT !.status = status]
<1>1. held \in [Ids -> Reservation]
  BY DEF Typed, BoundTypes
<1>2. /\ h \in Reservation /\ h.status = status /\ h.owner = held[r].owner
      /\ h.usage = held[r].usage /\ h.charges = held[r].charges
      /\ h.credits = held[r].credits /\ h.reused = held[r].reused
  BY <1>1 DEF Reservation
<1>3. held' = [held EXCEPT ![r] = h]
  BY <1>1 DEF Answer
<1> HIDE DEF h
<1> QED BY <1>2, <1>3 DEF Knows, SameCounts

(* An attempt to settle a reservation is counted.                          *)
LEMMA TriesKnows ==
  ASSUME Typed, NEW r \in Ids, held' = [held EXCEPT ![r].tries = @ + 1]
  PROVE  \E h : Knows(r, h) /\ SameCounts(h, r) /\ h.status = held[r].status
<1> DEFINE h == [held[r] EXCEPT !.tries = @ + 1]
<1>1. held \in [Ids -> Reservation]
  BY DEF Typed, BoundTypes
<1>2. /\ h \in Reservation /\ h.status = held[r].status
      /\ h.owner = held[r].owner
      /\ h.usage = held[r].usage /\ h.charges = held[r].charges
      /\ h.credits = held[r].credits /\ h.reused = held[r].reused
  BY <1>1 DEF Reservation
<1>3. held' = [held EXCEPT ![r] = h]
  BY <1>1
<1> HIDE DEF h
<1> QED BY <1>2, <1>3 DEF Knows, SameCounts

(* What is left of the bounds after a fault                                *)
LEMMA FaultType ==
  ASSUME Typed, Fault
  PROVE  /\ left' \in [{"lapses", "faults", "crashes", "replays"} -> Nat]
         /\ issued' = issued /\ stalled' = stalled
BY DEF Typed, BoundTypes, Fault, Spend

(* Calls begin.                                                            *)
LEMMA BeginKind ==
  ASSUME Typed, NEW c \in Callers, NEW r \in Ids, NEW u \in Nat,
         NEW op \in Consuming, At(c, "idle"), TakesId(r),
         call' = [call EXCEPT ![c] = Begin(op, r, u, 0, {})],
         UNCHANGED store, evictions' = evictions
  PROVE  Kind(c)
<1>1. PICK k : k = Begin(op, r, u, 0, {})
  OBVIOUS
<1>2. op \in Ops \ {"none"} /\ {} \in Tokens /\ 0 \in Nat
  BY DEF Consuming, Ops, Tokens
<1>3. /\ RecSound(c, k) /\ k.pc = "lock" /\ k.op = op /\ k.id = r
      /\ k.usage = u
  BY <1>1, <1>2, BeginSound
<1>4. call' = [call EXCEPT ![c] = k] /\ call'[c] = k
  BY <1>1, CallOf
<1>5. stalled' = stalled
      /\ left' \in [{"lapses", "faults", "crashes", "replays"} -> Nat]
  BY DEF Typed, BoundTypes, TakesId, Spend
<1>6. StoreKind(c)
  BY <1>3, <1>4, <1>5 DEF StoreKind, Rests, Writing, store, keys
<1>7. Gets(c, k)
  BY <1>3, <1>4, <1>6, StepGets
<1>8. Starts(c, r)
  BY <1>3, <1>7 DEF Starts, At, store
<1> QED BY <1>6, <1>8 DEF Kind, CallKind

(* A refund begins.                                                        *)
LEMMA AskKind ==
  ASSUME Typed, NEW c \in Callers, NEW r \in Ids, NEW actual \in Nat,
         At(c, "idle"), held[r].status \in {"held", "unsure", "closed", "failed"},
         held[r].owner = {P(c)}, held' = [held EXCEPT ![r].tries = @ + 1],
         call' = [call EXCEPT ![c] = Begin("refund", r, held[r].usage, actual,
                                           {held[r].tries})],
         UNCHANGED <<store, bounded>>, evictions' = evictions
  PROVE  Kind(c)
<1>1. PICK k : k = Begin("refund", r, held[r].usage, actual, {held[r].tries})
  OBVIOUS
<1>2. /\ "refund" \in Ops \ {"none"} /\ {held[r].tries} \in Tokens
      /\ held[r].usage \in Nat
  BY DEF Ops, Tokens, Typed, BoundTypes, Reservation
<1>3. RecSound(c, k) /\ k.pc = "lock" /\ k.op = "refund" /\ k.id = r
  BY <1>1, <1>2, BeginSound
<1>4. call' = [call EXCEPT ![c] = k] /\ call'[c] = k
  BY <1>1, CallOf
<1>6. StoreKind(c)
  BY <1>3, <1>4 DEF StoreKind, Rests, Writing, store, keys, bounded, Typed,
     BoundTypes
<1>7. Gets(c, k)
  BY <1>3, <1>4, <1>6, StepGets
<1>8. \E h : Knows(r, h) /\ SameCounts(h, r) /\ h.status = held[r].status
  BY TriesKnows
<1>9. Asks(c, r)
  BY <1>3, <1>7, <1>8 DEF Asks, At, store, bounded
<1> QED BY <1>6, <1>9 DEF Kind, CallKind

(* A lock is taken.                                                        *)
LEMMA LockKind ==
  ASSUME Typed, NEW c \in Callers, NEW b \in Buckets, Lock(c, b),
         evictions' = evictions
  PROVE  Kind(c)
<1> DEFINE pc == IF Wanted(c) = {b} THEN "read" ELSE "lock"
<1>1. PICK k : k = [call[c] EXCEPT !.locks = @ \cup {b}, !.pc = pc]
  OBVIOUS
<1>2. RecSound(c, call[c]) /\ call[c].pc = "lock" /\ pc \in {"read", "lock"}
  BY CallOf DEF Lock, At
<1>3. /\ k.pc = pc /\ k.op = call[c].op /\ k.id = call[c].id
      /\ k.usage = call[c].usage /\ k.actual = call[c].actual
      /\ k.token = call[c].token /\ k.locks = call[c].locks \cup {b}
      /\ k.rd = call[c].rd /\ k.amount = call[c].amount
      /\ k.answer = call[c].answer /\ k.resent = call[c].resent
  BY <1>1, <1>2 DEF RecSound
<1>4. k \in [pc : PCs, op : Ops, id : 0..MaxIds, usage : Nat, actual : Nat,
             token : Tokens, locks : SUBSET Buckets, rd : {k.rd},
             amount : {k.amount}, answer : Answers, resent : BOOLEAN]
  BY <1>1, <1>2 DEF RecSound, PCs
<1>5. b \in Mine(P(c)) /\ b \in Wanted(c) /\ lock[b] = {}
      /\ lock' = [lock EXCEPT ![b] = {c}]
  BY DEF Lock, NextLock, Wanted
<1>6. pc = "read" => k.locks = Mine(P(c))
  BY <1>2, <1>3, <1>5 DEF Wanted, RecSound
<1>7. RecSound(c, k)
  <2> HIDE DEF pc
  <2> QED BY <1>2, <1>3, <1>4, <1>5, <1>6 DEF RecSound, Section
<1>8. call' = [call EXCEPT ![c] = k] /\ call'[c] = k
  BY <1>1, CallOf DEF Lock
<1> HIDE DEF pc
<1>9. StoreKind(c)
  BY <1>2, <1>3, <1>5, <1>8 DEF StoreKind, Takes, Lock, bounded, Typed,
     BoundTypes
<1>10. Gets(c, k)
  BY <1>7, <1>8, <1>9, StepGets
<1>11. Moves(c)
  BY <1>2, <1>3, <1>10 DEF Moves, Lock, Same, Before, bounded
<1>12. call[c].id \in Ids
  BY <1>2, CallOf
<1> QED BY <1>9, <1>11, <1>12 DEF Kind, CallKind

(* A caller that stops gets an idle call.                                  *)
LEMMA DoneGets ==
  ASSUME Typed, NEW c \in Callers, StoreKind(c), Done(c)
  PROVE  Gets(c, Idle)
<1>1. PICK k : k = Idle
  OBVIOUS
<1>2. Gets(c, k)
  BY <1>1, IdleSound, StepGets DEF Done
<1>3. RecSound(c, k)'
  BY <1>2 DEF Gets
<1>4. k = Idle'
  BY <1>1 DEF Idle, NoReading, NoAmount
<1>5. RecSound(c, Idle)'
  BY <1>3, <1>4
<1> QED BY <1>5 DEF Gets, Done

(* What a release is for the store                                         *)
LEMMA ReleaseKind ==
  ASSUME Typed, NEW c \in Callers, lock' = Released(c) \/ lock' = lock,
         UNCHANGED <<now, keys, proc, stalled, evictions>>,
         left' \in [{"lapses", "faults", "crashes", "replays"} -> Nat],
         call'[c].pc \notin Writing
  PROVE  StoreKind(c)
BY DEF StoreKind, Releases, Rests

(* A call without its locks                                                *)
LEMMA RetryKind ==
  ASSUME Typed, NEW c \in Callers, call[c].pc \in {"lock", "extend"},
         \/ /\ call[c].op = "acquire" /\ UNCHANGED held
            /\ call' = [call EXCEPT ![c] = Again(c)]
         \/ /\ call[c].op = "undo" /\ Done(c)
            /\ \/ Answer(call[c].id, "failed")
               \/ UNCHANGED held /\ held[call[c].id].status = "closed"
         \/ call[c].op \notin {"acquire", "undo"} /\ Done(c) /\ UNCHANGED held,
         lock' = Released(c),
         UNCHANGED <<now, keys, ids, proc, bounded>>, evictions' = evictions
  PROVE  Kind(c)
<1> DEFINE r == call[c].id
<1>1. /\ RecSound(c, call[c]) /\ r \in Ids /\ call[c].op # "none"
      /\ call = [d \in Callers |-> call[d]]
  BY CallOf
<1>2. /\ left' \in [{"lapses", "faults", "crashes", "replays"} -> Nat]
      /\ stalled' = stalled /\ issued' = issued
  BY DEF bounded, Typed, BoundTypes
<1>3. CASE call[c].op = "acquire" /\ held' = held
           /\ call' = [call EXCEPT ![c] = Again(c)]
  <2>1. PICK k : k = Again(c)
    OBVIOUS
  <2>2. /\ call[c].op \in Ops \ {"none"} /\ call[c].usage \in Nat
        /\ call[c].actual \in Nat /\ call[c].token \in Tokens
    BY <1>1, CallOf
  <2>3. RecSound(c, k) /\ k.pc = "lock" /\ Same(c, k)
    BY <1>1, <2>1, <2>2, BeginSound DEF Again, Same
  <2>4. call' = [call EXCEPT ![c] = k] /\ call'[c] = k
    BY <1>1, <1>3, <2>1
  <2>5. StoreKind(c)
    BY <1>2, <2>3, <2>4, ReleaseKind DEF Writing, keys
  <2>6. Gets(c, k)
    BY <2>3, <2>4, <2>5, StepGets
  <2>7. Moves(c)
    BY <1>2, <1>3, <2>3, <2>6 DEF Moves, Before
  <2> QED BY <1>1, <2>5, <2>7 DEF Kind, CallKind
<1>4. CASE Done(c)
  <2>1. call'[c].pc = "idle"
    BY <1>1, <1>4, IdleSound DEF Done
  <2>2. StoreKind(c)
    BY <1>2, <2>1, ReleaseKind DEF Writing, keys
  <2>3. Gets(c, Idle)
    BY <1>4, <2>2, DoneGets
  <2>4. CASE call[c].op # "undo" /\ held' = held
    <3>1. Drops(c)
      BY <1>2, <2>3, <2>4 DEF Drops, Before
    <3> QED BY <1>1, <2>2, <3>1 DEF Kind, CallKind
  <2>5. CASE call[c].op = "undo" /\ held' = held /\ held[r].status = "closed"
    <3>1. Fails(c, r)
      BY <1>2, <2>3, <2>5 DEF Fails
    <3> QED BY <1>1, <2>2, <3>1 DEF Kind, CallKind
  <2>6. CASE call[c].op = "undo" /\ Answer(r, "failed")
    <3>1. \E h : Knows(r, h) /\ SameCounts(h, r) /\ h.status = "failed"
      BY <1>1, <2>6, AnswerKnows DEF Status
    <3>2. Fails(c, r)
      BY <1>2, <2>3, <2>6, <3>1 DEF Fails
    <3> QED BY <1>1, <2>2, <3>2 DEF Kind, CallKind
  <2>7. \/ call[c].op # "undo" /\ held' = held
        \/ call[c].op = "undo" /\ held' = held /\ held[r].status = "closed"
        \/ call[c].op = "undo" /\ Answer(r, "failed")
        \/ call[c].op = "acquire" /\ held' = held
    OBVIOUS
  <2> QED BY <2>4, <2>5, <2>6, <2>7
<1> QED BY <1>3, <1>4

(* A call ends before its script.                                          *)
LEMMA DropKind ==
  ASSUME Typed, NEW c \in Callers, call[c].pc \in Before, call[c].op # "undo",
         Done(c), lock' = Released(c) \/ lock' = lock,
         UNCHANGED <<now, keys, ids, proc, held, issued, stalled, evictions>>,
         left' \in [{"lapses", "faults", "crashes", "replays"} -> Nat]
  PROVE  Kind(c)
<1>1. call[c].id \in Ids /\ call = [d \in Callers |-> call[d]]
  BY CallOf DEF Before
<1>2. call'[c].pc = "idle"
  BY <1>1, IdleSound DEF Done
<1>3. StoreKind(c)
  BY <1>2, ReleaseKind DEF Writing, keys
<1>4. Drops(c)
  BY <1>3, DoneGets DEF Drops, ids
<1> QED BY <1>1, <1>3, <1>4 DEF Kind, CallKind

(* What a call computes it may write.                                      *)
LEMMA ComputedType ==
  ASSUME Typed, NEW c \in Callers, call[c].pc = "read"
  PROVE  Writable(P(c), Computed(c, Reading(P(c))), Reading(P(c)))
         /\ DOMAIN Computed(c, Reading(P(c))) = Mine(P(c))
         /\ Reading(P(c)).time = now
<1> DEFINE rd == Reading(P(c))
<1>1. P(c) \in Procs /\ World
  <2>1. now \in Nat
    BY RedisAssumption DEF Typed
  <2> QED BY <2>1, ProcOfCaller DEF Typed, World
<1>2. /\ rd.time = now /\ DOMAIN rd.amount = Mine(P(c))
      /\ DOMAIN rd.max = Mine(P(c))
      /\ \A b \in Mine(P(c)) : rd.amount[b] = Amount(proc[P(c)][b], b)
                               /\ rd.max[b] = EffectiveMax(proc[P(c)][b], b)
  BY DEF Reading
<1>3. ASSUME NEW b \in Mine(P(c))
      PROVE  rd.amount[b] \in Int /\ rd.max[b] \in Nat \ {0} /\ b \in Buckets
  BY <1>1, <1>2, <1>3, ServesMine, AmountType, EffectiveMaxType DEF Serves
<1>4. call[c].usage \in Nat /\ call[c].actual \in Nat
      /\ call[c].op \in Ops \ {"none"}
  BY CallOf
<1>5. \A x, y \in Nat : x * y \in Nat
  OBVIOUS
<1> HIDE DEF rd
<1>6. ASSUME NEW b \in Mine(P(c))
      PROVE  /\ Take(b, call[c].usage) \in Nat /\ Take(b, call[c].actual) \in Nat
             /\ Full(b, rd.max[b]) \in Nat
  BY <1>3, <1>4, <1>5, <1>6, Lifetimes DEF Take, Full
<1>7. /\ DOMAIN Computed(c, rd) = Mine(P(c))
      /\ \A b \in Mine(P(c)) : Computed(c, rd)[b] \in Int
  <2>1. CASE call[c].op = "acquire"
    <3>1. Computed(c, rd) = Charged(call[c].usage, rd)
      BY <2>1 DEF Computed
    <3> QED BY <1>2, <1>3, <1>6, <3>1 DEF Charged, Greater
  <2>2. CASE call[c].op = "record"
    <3>1. Computed(c, rd) = Recorded(call[c].usage, rd)
      BY <2>2 DEF Computed
    <3> QED BY <1>2, <1>3, <1>6, <3>1 DEF Recorded, Greater
  <2>3. CASE call[c].op = "undo"
    <3>1. Computed(c, rd) = Undone(call[c].usage, rd)
      BY <2>3 DEF Computed
    <3> QED BY <1>2, <1>3, <1>6, <3>1 DEF Undone, Lesser
  <2>4. CASE call[c].op = "refund"
    <3>1. Computed(c, rd) = Refunded(call[c].usage, call[c].actual, rd)
      BY <2>4 DEF Computed
    <3>2. DOMAIN Computed(c, rd) = Mine(P(c))
      BY <1>2, <3>1 DEF Refunded
    <3>3. ASSUME NEW b \in Mine(P(c)) PROVE Computed(c, rd)[b] \in Int
      <4> DEFINE full == Full(b, rd.max[b])
                 given == Take(b, call[c].usage) - Take(b, call[c].actual)
                 back == Greater(given, - full)
      <4>1. Computed(c, rd)[b]
              = Greater(- full, Lesser(full, rd.amount[b] + back))
        BY <1>2, <3>1, <3>3 DEF Refunded
      <4>2. full \in Int /\ given \in Int /\ - full \in Int /\ rd.amount[b] \in Int
        BY <1>3, <1>6, <3>3
      <4> HIDE DEF full, given
      <4>3. back \in Int
        BY <4>2 DEF Greater
      <4> HIDE DEF back
      <4> QED BY <4>1, <4>2, <4>3 DEF Greater, Lesser
    <3> QED BY <3>2, <3>3
  <2> QED BY <1>4, <2>1, <2>2, <2>3, <2>4 DEF Ops
<1>8. Writable(P(c), Computed(c, rd), rd) /\ rd.time = now
  <2>1. now \in 0..now
    BY <1>1 DEF World
  <2> QED BY <1>2, <1>3, <1>7, <2>1 DEF Writable
<1> QED BY <1>7, <1>8 DEF rd

(* The read decides that the call goes on.                                 *)
LEMMA ComputeKind ==
  ASSUME Typed, NEW c \in Callers, At(c, "read"), Read(P(c)),
         call' = [call EXCEPT ![c].pc = "extend", ![c].rd = Reading(P(c)),
                              ![c].amount = Computed(c, Reading(P(c)))],
         UNCHANGED <<now, lock, ids, held, bounded>>, evictions' = evictions
  PROVE  Kind(c)
<1>1. PICK k : k = [call[c] EXCEPT !.pc = "extend", !.rd = Reading(P(c)),
                                   !.amount = Computed(c, Reading(P(c)))]
  OBVIOUS
<1>2. RecSound(c, call[c]) /\ call[c].pc = "read"
  BY CallOf DEF At
<1>3. /\ k.pc = "extend" /\ k.op = call[c].op /\ k.id = call[c].id
      /\ k.usage = call[c].usage /\ k.actual = call[c].actual
      /\ k.token = call[c].token /\ k.locks = call[c].locks
      /\ k.rd = Reading(P(c)) /\ k.amount = Computed(c, Reading(P(c)))
      /\ k.answer = call[c].answer /\ k.resent = call[c].resent
  BY <1>1, <1>2 DEF RecSound
<1>4. k \in [pc : PCs, op : Ops, id : 0..MaxIds, usage : Nat, actual : Nat,
             token : Tokens, locks : SUBSET Buckets, rd : {k.rd},
             amount : {k.amount}, answer : Answers, resent : BOOLEAN]
  BY <1>1, <1>2, <1>3 DEF RecSound, PCs
<1>5. Writable(P(c), k.amount, k.rd) /\ DOMAIN k.amount = Mine(P(c))
  BY <1>2, <1>3, ComputedType
<1>6. RecSound(c, k)
  BY <1>2, <1>3, <1>4, <1>5 DEF RecSound, Section
<1>7. call' = [call EXCEPT ![c] = k] /\ call'[c] = k
  BY <1>1, CallOf
<1>8. StoreKind(c)
  BY <1>2, <1>3, <1>5, <1>7 DEF StoreKind, Looks, bounded, Typed, BoundTypes
<1>9. Gets(c, k)
  BY <1>6, <1>7, <1>8, StepGets
<1>10. Moves(c)
  BY <1>2, <1>3, <1>9 DEF Moves, Same, Before, bounded
<1>11. call[c].id \in Ids
  BY <1>2, CallOf
<1> QED BY <1>8, <1>10, <1>11 DEF Kind, CallKind

(* The read decides that an acquire waits, or is impossible.               *)
LEMMA WaitKind ==
  ASSUME Typed, NEW c \in Callers, call[c].op = "acquire", At(c, "read"),
         Read(P(c)), Done(c) \/ call' = [call EXCEPT ![c] = Again(c)],
         lock' = Released(c),
         UNCHANGED <<now, ids, held, bounded>>, evictions' = evictions
  PROVE  Kind(c)
<1>1. /\ RecSound(c, call[c]) /\ call[c].id \in Ids /\ call[c].pc = "read"
      /\ call = [d \in Callers |-> call[d]]
  BY CallOf DEF At
<1>2. /\ left' \in [{"lapses", "faults", "crashes", "replays"} -> Nat]
      /\ stalled' = stalled /\ issued' = issued
  BY DEF bounded, Typed, BoundTypes
<1>3. ASSUME call'[c].pc \in {"lock", "idle"} PROVE StoreKind(c)
  BY <1>1, <1>2, <1>3 DEF StoreKind, Looks
<1>4. CASE Done(c)
  <2>1. call'[c].pc = "idle"
    BY <1>1, <1>4, IdleSound DEF Done
  <2>2. StoreKind(c) /\ Gets(c, Idle)
    BY <1>3, <1>4, <2>1, DoneGets
  <2>3. Drops(c)
    BY <1>1, <1>2, <2>2 DEF Drops, Before
  <2> QED BY <1>1, <2>2, <2>3 DEF Kind, CallKind
<1>5. CASE call' = [call EXCEPT ![c] = Again(c)]
  <2>1. PICK k : k = Again(c)
    OBVIOUS
  <2>2. /\ call[c].op \in Ops \ {"none"} /\ call[c].usage \in Nat
        /\ call[c].actual \in Nat /\ call[c].token \in Tokens
    BY <1>1, CallOf
  <2>3. RecSound(c, k) /\ k.pc = "lock" /\ Same(c, k)
    BY <1>1, <2>1, <2>2, BeginSound DEF Again, Same
  <2>4. call' = [call EXCEPT ![c] = k] /\ call'[c] = k
    BY <1>1, <1>5, <2>1
  <2>5. StoreKind(c)
    BY <1>3, <2>3, <2>4
  <2>6. Gets(c, k)
    BY <2>3, <2>4, <2>5, StepGets
  <2>7. Moves(c)
    BY <1>1, <1>2, <2>3, <2>6 DEF Moves, Before
  <2> QED BY <1>1, <2>5, <2>7 DEF Kind, CallKind
<1> QED BY <1>4, <1>5

(* The locks are extended.                                                 *)
LEMMA ExtendKind ==
  ASSUME Typed, NEW c \in Callers, At(c, "extend"), Owned(c), Go(c, "write"),
         UNCHANGED <<store, held, bounded>>, evictions' = evictions
  PROVE  Kind(c)
<1>1. PICK k : k = [call[c] EXCEPT !.pc = "write"]
  OBVIOUS
<1>2. call[c].pc = "extend" /\ call[c].id \in Ids
      /\ call = [d \in Callers |-> call[d]]
  BY CallOf DEF At
<1>3. RecSound(c, k) /\ Same(c, k) /\ k.pc = "write"
  BY <1>1, <1>2, GoSound DEF Section
<1>4. call' = [call EXCEPT ![c] = k] /\ call'[c] = k
  BY <1>1, <1>2 DEF Go
<1>5. StoreKind(c)
  BY <1>1, <1>2, <1>4 DEF StoreKind, Extends, store, keys, bounded, Typed,
     BoundTypes
<1>6. Gets(c, k)
  BY <1>3, <1>4, <1>5, StepGets
<1>7. Moves(c)
  BY <1>2, <1>3, <1>6 DEF Moves, Before, bounded, store
<1> QED BY <1>2, <1>5, <1>7 DEF Kind, CallKind

(* The request or the reply is lost.                                       *)
LEMMA LoseKind ==
  ASSUME Typed, NEW c \in Callers, call[c].pc \in {"write", "sent"}, Fault,
         Go(c, "check"), UNCHANGED <<store, held>>, evictions' = evictions
  PROVE  Kind(c)
<1>1. PICK k : k = [call[c] EXCEPT !.pc = "check"]
  OBVIOUS
<1>2. call[c].id \in Ids /\ call = [d \in Callers |-> call[d]]
  BY CallOf
<1>3. RecSound(c, k) /\ Same(c, k) /\ k.pc = "check"
  BY <1>1, <1>2, GoSound DEF Section
<1>4. call' = [call EXCEPT ![c] = k] /\ call'[c] = k
  BY <1>1, <1>2 DEF Go
<1>5. StoreKind(c)
  BY <1>3, <1>4, FaultType DEF StoreKind, Rests, Writing, store, keys
<1>6. Gets(c, k)
  BY <1>3, <1>4, <1>5, StepGets
<1>7. Loses(c)
  BY <1>2, <1>3, <1>6, FaultType DEF Loses, store
<1> QED BY <1>2, <1>5, <1>7 DEF Kind, CallKind

(* The script of a call runs.                                              *)
LEMMA RunGets ==
  ASSUME Typed, NEW c \in Callers, NEW answer \in Answers \ {"none"},
         NEW resent \in BOOLEAN, call[c].pc = (IF resent THEN "sent" ELSE "write"),
         Answered(c, answer, resent),
         UNCHANGED <<now, lock, proc, stalled, evictions>>,
         left' \in [{"lapses", "faults", "crashes", "replays"} -> Nat],
         \/ WriteState(P(c), call[c].amount, call[c].rd)
         \/ UNCHANGED keys /\ answer # "ok"
  PROVE  /\ StoreKind(c)
         /\ \E k : /\ Gets(c, k) /\ Same(c, k) /\ k.pc = "sent"
                   /\ k.answer = answer /\ k.resent = resent
<1>1. PICK k : k = With(c, answer, resent)
  OBVIOUS
<1>2. call = [d \in Callers |-> call[d]] /\ call[c].pc \in {"write", "sent"}
  BY CallOf
<1>3. /\ RecSound(c, k) /\ Same(c, k)
      /\ k.pc = "sent" /\ k.locks = call[c].locks /\ k.rd = call[c].rd
      /\ k.amount = call[c].amount /\ k.answer = answer /\ k.resent = resent
  BY <1>1, <1>2, AnsweredSound
<1>4. call' = [call EXCEPT ![c] = k] /\ call'[c] = k
  BY <1>1, <1>2 DEF Answered, With
<1>5. StoreKind(c)
  BY <1>2, <1>3, <1>4 DEF StoreKind, Executes, keys
<1>6. Gets(c, k)
  BY <1>3, <1>4, <1>5, StepGets
<1> QED BY <1>3, <1>5, <1>6

(* The acquire script runs.                                                *)
LEMMA ChargeKind ==
  ASSUME Typed, NEW c \in Callers, NEW resent \in BOOLEAN,
         call[c].pc = (IF resent THEN "sent" ELSE "write"),
         call[c].op \in Consuming, RunCharge(c, resent),
         UNCHANGED <<issued, stalled, evictions>>,
         left' \in [{"lapses", "faults", "crashes", "replays"} -> Nat]
  PROVE  Kind(c)
<1> DEFINE r == call[c].id  u == call[c].usage  answer == AcquireStatus(r, u)
<1>1. r \in Ids /\ u \in Nat /\ held \in [Ids -> Reservation]
  BY CallOf DEF Typed, BoundTypes
<1>2. answer \in Answers \ {"none"}
  BY DEF AcquireStatus, Answers
<1>3. /\ AcquireScript(P(c), r, u, call[c].amount, call[c].rd)
      /\ held' = IF answer # "ok" THEN held
                 ELSE [held EXCEPT ![r].charges = @ + 1, ![r].usage = u,
                                   ![r].owner = {P(c)}]
      /\ Answered(c, answer, resent)
      /\ UNCHANGED <<now, lock, proc>>
  BY DEF RunCharge
<1>4. \/ WriteState(P(c), call[c].amount, call[c].rd)
      \/ UNCHANGED keys /\ answer # "ok"
  BY <1>3 DEF AcquireScript
<1> HIDE DEF answer
<1>5. /\ StoreKind(c)
      /\ \E k : /\ Gets(c, k) /\ Same(c, k) /\ k.pc = "sent"
                /\ k.answer = answer /\ k.resent = resent
  BY <1>2, <1>3, <1>4, RunGets
<1>6. IF answer = "ok"
        THEN /\ \E h : /\ Knows(r, h) /\ h.status = held[r].status
                       /\ h.charges = held[r].charges + 1
                       /\ h.credits = held[r].credits
                       /\ h.owner = {P(c)} /\ h.reused = held[r].reused
             /\ marker' = [marker EXCEPT ![r] = [usage |-> u,
                                                 exp |-> now + Lifetime]]
             /\ tombstone' = tombstone
        ELSE UNCHANGED <<held, ids>>
  <2>1. CASE answer # "ok"
    BY <1>3, <2>1 DEF AcquireScript, answer
  <2>2. CASE answer = "ok"
    <3> DEFINE h == [held[r] EXCEPT !.charges = @ + 1, !.usage = u,
                                    !.owner = {P(c)}]
    <3>1. {P(c)} \in SUBSET Procs
      BY ProcOfCaller
    <3>2. /\ h \in Reservation /\ h.status = held[r].status
          /\ h.charges = held[r].charges + 1 /\ h.credits = held[r].credits
          /\ h.owner = {P(c)} /\ h.reused = held[r].reused
      <4>1. held[r] \in Reservation
        BY <1>1
      <4>2. PICK x : x = held[r] /\ x \in Reservation
        BY <4>1
      <4>3. PICK n \in Nat : n = x.charges + 1
        BY <4>2 DEF Reservation
      <4>4. h = [x EXCEPT !.charges = n, !.usage = u, !.owner = {P(c)}]
        BY <4>2, <4>3
      <4> HIDE DEF h
      <4>5. /\ h \in Reservation /\ h.status = x.status /\ h.charges = n
            /\ h.credits = x.credits /\ h.owner = {P(c)} /\ h.reused = x.reused
        BY <1>1, <3>1, <4>2, <4>3, <4>4 DEF Reservation
      <4> QED BY <4>2, <4>3, <4>5
    <3>3. held' = [held EXCEPT ![r] = h]
      BY <1>1, <1>3, <2>2
    <3>4. /\ marker' = [marker EXCEPT ![r] = [usage |-> u,
                                              exp |-> now + Lifetime]]
          /\ tombstone' = tombstone
      BY <1>3, <2>2 DEF AcquireScript, answer
    <3> HIDE DEF h
    <3> QED BY <2>2, <3>2, <3>3, <3>4 DEF Knows
  <2> QED BY <2>1, <2>2
<1>7. Charges(c, r)
  <2>1. call[c].pc \in {"write", "sent"} /\ (resent <=> call[c].pc = "sent")
    OBVIOUS
  <2>2. \E k : /\ Gets(c, k) /\ Same(c, k) /\ k.pc = "sent"
               /\ k.answer = answer /\ (k.resent <=> call[c].pc = "sent")
    <3>1. PICK k : /\ Gets(c, k) /\ Same(c, k) /\ k.pc = "sent"
                   /\ k.answer = answer /\ k.resent = resent
      BY <1>5
    <3>2. k.resent <=> call[c].pc = "sent"
      BY <2>1, <3>1
    <3> QED BY <3>1, <3>2
  <2> QED BY <1>6, <2>1, <2>2 DEF Charges, answer
<1> QED BY <1>1, <1>5, <1>7 DEF Kind, CallKind

(* The refund script runs.                                                 *)
LEMMA SettleKind ==
  ASSUME Typed, NEW c \in Callers, NEW resent \in BOOLEAN,
         call[c].pc = (IF resent THEN "sent" ELSE "write"),
         \/ call[c].op = "refund"
         \/ call[c].op = "undo" /\ c \in Tasks /\ call[c].id \in Recovering,
         RunRefund(c, resent),
         UNCHANGED <<issued, stalled, evictions>>,
         left' \in [{"lapses", "faults", "crashes", "replays"} -> Nat]
  PROVE  Kind(c)
<1> DEFINE r == call[c].id  u == call[c].usage  token == call[c].token
           answer == RefundStatus(r, u, token)
<1>1. r \in Ids /\ u \in Nat /\ token \in Tokens /\ held \in [Ids -> Reservation]
  BY CallOf DEF Typed, BoundTypes
<1>2. answer \in Answers \ {"none"}
  BY DEF RefundStatus, Answers
<1>3. /\ RefundScript(P(c), r, u, token, call[c].amount, call[c].rd)
      /\ held' = IF answer # "ok" THEN held
                 ELSE [held EXCEPT ![r].credits = @ + 1]
      /\ Answered(c, answer, resent)
      /\ UNCHANGED <<now, lock, proc>>
  BY DEF RunRefund
<1>4. \/ WriteState(P(c), call[c].amount, call[c].rd)
      \/ UNCHANGED keys /\ answer # "ok"
  BY <1>3 DEF RefundScript
<1> HIDE DEF answer
<1>5. /\ StoreKind(c)
      /\ \E k : /\ Gets(c, k) /\ Same(c, k) /\ k.pc = "sent"
                /\ k.answer = answer /\ k.resent = resent
  BY <1>2, <1>3, <1>4, RunGets
<1>6. IF answer = "ok"
        THEN /\ \E h : /\ Knows(r, h) /\ h.status = held[r].status
                       /\ h.charges = held[r].charges
                       /\ h.credits = held[r].credits + 1
                       /\ h.owner = held[r].owner /\ h.reused = held[r].reused
             /\ marker' = [marker EXCEPT ![r] = NoMarker]
             /\ \E k : k \in [token : Tokens, exp : {now + DedupTTL}]
                       /\ tombstone' = [tombstone EXCEPT ![r] = k]
        ELSE UNCHANGED <<held, ids>>
  <2>1. CASE answer # "ok"
    BY <1>3, <2>1 DEF RefundScript, answer
  <2>2. CASE answer = "ok"
    <3> DEFINE h == [held[r] EXCEPT !.credits = @ + 1]
               k == [token |-> token, exp |-> now + DedupTTL]
    <3>2. /\ h \in Reservation /\ h.status = held[r].status
          /\ h.charges = held[r].charges /\ h.credits = held[r].credits + 1
          /\ h.owner = held[r].owner /\ h.reused = held[r].reused
      BY <1>1 DEF Reservation
    <3>3. held' = [held EXCEPT ![r] = h]
      BY <1>1, <1>3, <2>2
    <3>4. /\ marker' = [marker EXCEPT ![r] = NoMarker]
          /\ tombstone' = [tombstone EXCEPT ![r] = k]
      BY <1>3, <2>2 DEF RefundScript, answer
    <3>5. k \in [token : Tokens, exp : {now + DedupTTL}]
      BY <1>1
    <3> HIDE DEF h, k
    <3> QED BY <2>2, <3>2, <3>3, <3>4, <3>5 DEF Knows
  <2> QED BY <2>1, <2>2
<1>7. Settles(c, r)
  <2>1. call[c].pc \in {"write", "sent"}
    OBVIOUS
  <2>2. \E k : Gets(c, k) /\ Same(c, k) /\ k.pc = "sent" /\ k.answer = answer
    BY <1>5
  <2> QED BY <1>6, <2>1, <2>2 DEF Settles, answer
<1> QED BY <1>1, <1>5, <1>7 DEF Kind, CallKind

(* The pipeline without a tombstone runs.                                  *)
LEMMA RevertKind ==
  ASSUME Typed, NEW c \in Callers, NEW resent \in BOOLEAN,
         call[c].pc = (IF resent THEN "sent" ELSE "write"),
         call[c].op = "undo", Alone(c, call[c].id), RunUndo(c, resent),
         UNCHANGED <<issued, stalled, evictions>>,
         left' \in [{"lapses", "faults", "crashes", "replays"} -> Nat]
  PROVE  Kind(c)
<1> DEFINE r == call[c].id
<1>1. r \in Ids /\ held \in [Ids -> Reservation]
  BY CallOf DEF Typed, BoundTypes
<1>2. "ok" \in Answers \ {"none"}
  BY DEF Answers
<1>3. /\ WriteState(P(c), call[c].amount, call[c].rd)
      /\ marker' = [marker EXCEPT ![r] = NoMarker] /\ tombstone' = tombstone
      /\ held' = IF resent THEN held ELSE [held EXCEPT ![r].credits = @ + 1]
      /\ Answered(c, "ok", resent)
      /\ UNCHANGED <<now, lock, proc>>
  BY DEF RunUndo, UndoPipeline
<1>5. /\ StoreKind(c)
      /\ \E k : Gets(c, k) /\ Same(c, k) /\ k.pc = "sent"
  BY <1>2, <1>3, RunGets
<1>6. \E h : /\ Knows(r, h) /\ h.status = held[r].status
             /\ h.charges = held[r].charges
             /\ h.credits = held[r].credits + (IF call[c].pc = "sent" THEN 0 ELSE 1)
             /\ h.owner = held[r].owner /\ h.reused = held[r].reused
  <2>1. CASE resent
    <3> DEFINE h == held[r]
    <3>1. h \in Reservation /\ held' = [held EXCEPT ![r] = h]
          /\ h.credits = held[r].credits + 0
      BY <1>1, <1>3, <2>1 DEF Reservation
    <3>2. call[c].pc = "sent"
      BY <2>1
    <3> QED BY <3>1, <3>2 DEF Knows
  <2>2. CASE ~ resent
    <3> DEFINE h == [held[r] EXCEPT !.credits = @ + 1]
    <3>1. /\ h \in Reservation /\ h.status = held[r].status
          /\ h.charges = held[r].charges /\ h.credits = held[r].credits + 1
          /\ h.owner = held[r].owner /\ h.reused = held[r].reused
      BY <1>1 DEF Reservation
    <3>2. held' = [held EXCEPT ![r] = h] /\ call[c].pc # "sent"
      BY <1>1, <1>3, <2>2
    <3> HIDE DEF h
    <3> QED BY <3>1, <3>2 DEF Knows
  <2> QED BY <2>1, <2>2
<1>7. Reverts(c, r)
  <2>1. call[c].pc \in {"write", "sent"}
    OBVIOUS
  <2> QED BY <1>3, <1>5, <1>6, <2>1 DEF Reverts
<1> QED BY <1>1, <1>5, <1>7 DEF Kind, CallKind

(* The call has its answer, or found what it wrote, and releases its       *)
(* locks.                                                                  *)
Concludes(c) ==
  /\ call[c].pc \in {"sent", "check"}
  /\ lock' = Released(c)
  /\ \/ proc' = proc
     \/ /\ call[c].pc = "sent" /\ call[c].answer = "ok"
        /\ Confirm(P(c), DOMAIN call[c].amount, call[c].rd.time)
  /\ UNCHANGED <<now, keys, ids, issued, stalled, evictions>>
  /\ left' \in [{"lapses", "faults", "crashes", "replays"} -> Nat]

(* That is a release for the store.                                        *)
LEMMA ConcludesKind ==
  ASSUME Typed, NEW c \in Callers, Concludes(c), call'[c].pc \notin Writing
  PROVE  StoreKind(c)
BY DEF Concludes, StoreKind, Releases, keys

(* An acquire goes to its callbacks.                                       *)
LEMMA ObtainKind ==
  ASSUME Typed, NEW c \in Callers, Concludes(c), call[c].op = "acquire",
         HasCharge(c, call[c].id), Go(c, "callbacks"), held' = held
  PROVE  Kind(c)
<1>1. PICK k : k = [call[c] EXCEPT !.pc = "callbacks"]
  OBVIOUS
<1>2. /\ call[c].id \in Ids /\ call[c].pc \in Section
      /\ call = [d \in Callers |-> call[d]]
  BY CallOf DEF Concludes, Section
<1>3. RecSound(c, k) /\ Same(c, k) /\ k.pc = "callbacks"
  BY <1>1, <1>2, GoSound
<1>4. call' = [call EXCEPT ![c] = k] /\ call'[c] = k
  BY <1>1, <1>2 DEF Go
<1>5. StoreKind(c)
  BY <1>3, <1>4, ConcludesKind DEF Writing
<1>6. Gets(c, k)
  BY <1>3, <1>4, <1>5, StepGets
<1>7. Obtains(c, call[c].id)
  BY <1>3, <1>6 DEF Obtains, Concludes, ids
<1> QED BY <1>2, <1>5, <1>7 DEF Kind, CallKind

(* A call is over, and its client may have learned something.              *)
LEMMA OverKind ==
  ASSUME Typed, NEW c \in Callers, Concludes(c), Done(c),
         \/ call[c].op = "record" /\ HasCharge(c, call[c].id)
                                  /\ Answer(call[c].id, "held")
         \/ call[c].op = "refund" /\ \/ Answer(call[c].id, "closed")
                                     \/ Answer(call[c].id, "unsure")
                                     \/ held' = held /\ call[c].pc = "sent"
                                        /\ call[c].answer \in {"mismatch",
                                                               "incoherent"}
         \/ call[c].op = "undo" /\ \/ Answer(call[c].id, "undone")
                                   \/ Answer(call[c].id, "failed")
                                   \/ held' = held
                                      /\ held[call[c].id].status = "closed"
         \/ /\ call[c].op \in Consuming
            /\ \/ /\ held' = held
                  /\ \/ ~ LiveMarker(call[c].id) \/ held[call[c].id].status # "no"
                     \/ call[c].pc = "sent"
                        /\ call[c].answer \notin {"ok", "replayed"}
                     \/ call[c].pc = "sent" /\ call[c].answer = "replayed"
                        /\ ~ call[c].resent
               \/ /\ held[call[c].id].status = "no"
                  /\ \/ Answer(call[c].id, "unanswered")
                     \/ Answer(call[c].id, "resent")
                     \/ Answer(call[c].id, "signalled")
  PROVE  Kind(c)
<1> DEFINE r == call[c].id
<1>1. r \in Ids /\ call = [d \in Callers |-> call[d]]
  BY CallOf DEF Concludes
<1>2. call'[c].pc = "idle"
  BY <1>1, IdleSound DEF Done
<1>3. StoreKind(c)
  BY <1>2, ConcludesKind DEF Writing
<1>4. Gets(c, Idle)
  BY <1>3, DoneGets
<1>5. call[c].pc \in {"sent", "check"} /\ UNCHANGED <<issued, ids>>
  BY DEF Concludes, ids
<1>6. ASSUME NEW s \in Status, Answer(r, s)
      PROVE  \E h : Knows(r, h) /\ SameCounts(h, r) /\ h.status = s
  BY <1>1, <1>6, AnswerKnows
<1>7. {"held", "closed", "unsure", "undone", "failed", "unanswered", "resent",
       "signalled"} \subseteq Status
  BY DEF Status
<1>8. CASE call[c].op = "record"
  <2>1. CASE HasCharge(c, r) /\ Answer(r, "held")
    <3>1. Delivers(c, r)
      BY <1>4, <1>5, <1>6, <1>7, <1>8, <2>1 DEF Delivers
    <3> QED BY <1>1, <1>3, <3>1 DEF Kind, CallKind
  <2>2. CASE ~ (HasCharge(c, r) /\ Answer(r, "held"))
    <3>1. Reports(c, r)
      BY <1>4, <1>5, <1>6, <1>7, <1>8, <2>2 DEF Reports, Consuming
    <3> QED BY <1>1, <1>3, <3>1 DEF Kind, CallKind
  <2> QED BY <2>1, <2>2
<1>9. CASE call[c].op = "acquire"
  <2>1. Reports(c, r)
    BY <1>4, <1>5, <1>6, <1>7, <1>9 DEF Reports, Consuming
  <2> QED BY <1>1, <1>3, <2>1 DEF Kind, CallKind
<1>10. CASE call[c].op = "refund"
  <2>1. Closes(c, r)
    BY <1>4, <1>5, <1>6, <1>7, <1>10 DEF Closes, Consuming
  <2> QED BY <1>1, <1>3, <2>1 DEF Kind, CallKind
<1>11. CASE call[c].op = "undo"
  <2>1. Fails(c, r)
    BY <1>4, <1>5, <1>6, <1>7, <1>11 DEF Fails, Consuming
  <2> QED BY <1>1, <1>3, <2>1 DEF Kind, CallKind
<1> QED BY <1>8, <1>9, <1>10, <1>11 DEF Consuming

(* An acquire turns to undo its charge.                                    *)
LEMMA TurnGets ==
  ASSUME Typed, NEW c \in Callers, call[c].pc \in {"sent", "callbacks"},
         NEW token \in Tokens, StoreKind(c),
         call' = [call EXCEPT ![c] = Begin("undo", call[c].id, call[c].usage, 0,
                                           token)]
  PROVE  \E k : Gets(c, k) /\ k.pc = "lock" /\ k.op = "undo" /\ k.id = call[c].id
<1>1. PICK k : k = Begin("undo", call[c].id, call[c].usage, 0, token)
  OBVIOUS
<1>2. "undo" \in Ops \ {"none"} /\ call[c].id \in Ids /\ call[c].usage \in Nat
  BY CallOf DEF Ops
<1>3. RecSound(c, k) /\ k.pc = "lock" /\ k.op = "undo" /\ k.id = call[c].id
  BY <1>1, <1>2, BeginSound
<1>4. call' = [call EXCEPT ![c] = k]
  BY <1>1
<1>5. Gets(c, k)
  BY <1>3, <1>4, StepGets
<1> QED BY <1>3, <1>5

(* The place of a cleanup that begins                                      *)
LEMMA TurnPlace ==
  ASSUME Typed, NEW c \in Callers, call[c].pc \in {"sent", "callbacks"},
         NEW token \in Tokens,
         call' = [call EXCEPT ![c] = Begin("undo", call[c].id, call[c].usage, 0,
                                           token)]
  PROVE  call'[c].pc = "lock" /\ call[c].id \in Ids
<1>1. PICK k : k = Begin("undo", call[c].id, call[c].usage, 0, token)
  OBVIOUS
<1>2. "undo" \in Ops \ {"none"} /\ call[c].id \in Ids /\ call[c].usage \in Nat
  BY CallOf DEF Ops
<1>3. k.pc = "lock"
  BY <1>1, <1>2, BeginSound
<1> QED BY <1>1, <1>2, <1>3, CallOf

(* In the callbacks, by a task or by a signal                              *)
LEMMA TurnKind ==
  ASSUME Typed, NEW c \in Callers, call[c].pc = "callbacks", NEW token \in Tokens,
         call' = [call EXCEPT ![c] = Begin("undo", call[c].id, call[c].usage, 0,
                                           token)],
         \E h : Knows(call[c].id, h) /\ SameCounts(h, call[c].id)
                /\ h.status = held[call[c].id].status,
         UNCHANGED <<store, bounded>>, evictions' = evictions
  PROVE  Kind(c)
<1>1. call'[c].pc = "lock" /\ call[c].id \in Ids
  BY TurnPlace
<1>2. StoreKind(c)
  BY <1>1 DEF StoreKind, Rests, Writing, store, keys, bounded, Typed, BoundTypes
<1>3. call[c].op = "acquire"
  BY CallOf DEF RecSound
<1>4. \E k : Gets(c, k) /\ k.pc = "lock" /\ k.op = "undo" /\ k.id = call[c].id
  BY <1>2, TurnGets
<1>5. Turns(c, call[c].id)
  BY <1>3, <1>4 DEF Turns, store, bounded
<1> QED BY <1>1, <1>2, <1>5 DEF Kind, CallKind

(* After the script, by a task that was cancelled                          *)
LEMMA UndoKind ==
  ASSUME Typed, NEW c \in Callers, call[c].pc = "sent", call[c].answer = "ok",
         call[c].op = "acquire", BeginUndo(c), Concludes(c)
  PROVE  Kind(c)
<1> DEFINE r == call[c].id
<1>1. r \in Ids
  BY CallOf
<1>2. {held[r].tries} \in Tokens
  BY <1>1 DEF Tokens, Typed, BoundTypes, Reservation
<1>3. call' = [call EXCEPT ![c] = Begin("undo", r, call[c].usage, 0,
                                        {held[r].tries})]
      /\ held' = [held EXCEPT ![r].tries = @ + 1]
  BY DEF BeginUndo
<1>4. call'[c].pc = "lock"
  BY <1>2, <1>3, TurnPlace
<1>5. StoreKind(c)
  BY <1>4, ConcludesKind DEF Writing
<1>6. \E k : Gets(c, k) /\ k.pc = "lock" /\ k.op = "undo" /\ k.id = r
  BY <1>2, <1>3, <1>5, TurnGets
<1>7. \E h : Knows(r, h) /\ SameCounts(h, r) /\ h.status = held[r].status
  BY <1>1, <1>3, TriesKnows
<1>8. Turns(c, r)
  BY <1>6, <1>7 DEF Turns, Concludes, ids
<1> QED BY <1>1, <1>5, <1>8 DEF Kind, CallKind

(* The callbacks return.                                                   *)
LEMMA DeliverKind ==
  ASSUME Typed, NEW c \in Callers, At(c, "callbacks"),
         Answer(call[c].id, "held"), Done(c), UNCHANGED <<store, bounded>>,
         evictions' = evictions
  PROVE  Kind(c)
<1> DEFINE r == call[c].id
<1>1. r \in Ids /\ call[c].pc = "callbacks" /\ call = [d \in Callers |-> call[d]]
  BY CallOf DEF At
<1>2. call'[c].pc = "idle"
  BY <1>1, IdleSound DEF Done
<1>3. StoreKind(c)
  BY <1>2 DEF StoreKind, Rests, Writing, store, keys, bounded, Typed, BoundTypes
<1>4. Gets(c, Idle)
  BY <1>3, DoneGets
<1>5. \E h : Knows(r, h) /\ SameCounts(h, r) /\ h.status = "held"
  BY <1>1, AnswerKnows DEF Status
<1>6. Delivers(c, r)
  BY <1>1, <1>4, <1>5 DEF Delivers, store, bounded
<1> QED BY <1>1, <1>3, <1>6 DEF Kind, CallKind

(* The client gets a failure while the cleanup goes on.                    *)
LEMMA DrainKind ==
  ASSUME Typed, NEW c \in Callers, c \in Tasks, call[c].op = "undo",
         call[c].id \in Recovering, held[call[c].id].status = "no",
         Answer(call[c].id, "failed"), UNCHANGED <<store, call, bounded>>,
         evictions' = evictions
  PROVE  Kind(c)
<1> DEFINE r == call[c].id
<1>1. r \in Ids
  <2>1. call[c] = Idle => call[c].op = "none"
    BY DEF Idle
  <2> QED BY <2>1, CallOf DEF RecSound
<1>2. StoreKind(c)
  BY DEF StoreKind, Waits, store, keys, bounded, Typed, BoundTypes
<1>3. \E h : Knows(r, h) /\ SameCounts(h, r) /\ h.status = "failed"
  BY <1>1, AnswerKnows DEF Status
<1>4. ~ Alone(c, r)
  BY FleetAssumption DEF Alone
<1>5. Drains(c, r)
  BY <1>3, <1>4 DEF Drains, store, bounded
<1> QED BY <1>1, <1>2, <1>5 DEF Kind, CallKind

(* The steps of a task                                                     *)
LEMMA TaskKind ==
  ASSUME Typed, NEW t \in Tasks, TaskStep(t), evictions' = evictions
  PROVE  Kind(t)
<1>0. t \in Callers
  BY TasksAssumption
<1>1. /\ Usages \subseteq Nat /\ Actuals \subseteq Nat
      /\ "acquire" \in Consuming /\ "record" \in Consuming
  BY CallsAssumption DEF Consuming
<1>2. /\ left \in [{"lapses", "faults", "crashes", "replays"} -> Nat]
      /\ (UNCHANGED bounded => /\ left' = left /\ issued' = issued
                               /\ stalled' = stalled)
  BY DEF Typed, BoundTypes, bounded
<1>3. call[t].pc # "idle" => call[t].id \in Ids /\ call[t].op \in Ops \ {"none"}
  BY <1>0, CallOf
<1>4. Fault => /\ left' \in [{"lapses", "faults", "crashes", "replays"} -> Nat]
               /\ issued' = issued /\ stalled' = stalled
  BY FaultType
<1>5. ASSUME NEW r \in Ids, NEW u \in Usages, AwaitCall(t, r, u) PROVE Kind(t)
  BY <1>0, <1>1, <1>5, BeginKind DEF AwaitCall
<1>6. ASSUME NEW r \in Ids, NEW u \in Usages, RecordCall(t, r, u) PROVE Kind(t)
  BY <1>0, <1>1, <1>6, BeginKind DEF RecordCall
<1>7. ASSUME NEW r \in Ids, NEW a \in Actuals, RefundCall(t, r, a) PROVE Kind(t)
  BY <1>0, <1>1, <1>7, AskKind DEF RefundCall
<1>8. CASE TaskLocks(t)
  BY <1>0, <1>8, LockKind DEF TaskLocks
<1>9. ASSUME ContentionOutcome(t), lock' = Released(t),
             call[t].pc \in {"lock", "extend"},
             UNCHANGED <<now, keys, ids, proc, bounded>>
      PROVE  Kind(t)
  BY <1>0, <1>9, RetryKind DEF ContentionOutcome, Runs, Answer, Done
<1>10. CASE Contend(t)
  BY <1>9, <1>10 DEF Contend, At
<1>11. CASE ExtendFails(t)
  BY <1>9, <1>11 DEF ExtendFails, At
<1>12. CASE ReadAndCompute(t)
  BY <1>0, <1>12, ComputeKind DEF ReadAndCompute
<1>13. CASE ReadAndWait(t)
  BY <1>0, <1>13, WaitKind DEF ReadAndWait, Runs, At
<1>14. CASE ReadAndReject(t)
  BY <1>0, <1>14, WaitKind DEF ReadAndReject, Runs, At
<1>15. CASE Extend(t)
  BY <1>0, <1>15, ExtendKind DEF Extend
<1>16. CASE GiveUp(t)
  BY <1>0, <1>2, <1>4, <1>16, DropKind DEF GiveUp, Before
<1>17. ASSUME NEW resent \in BOOLEAN, Run(t, resent),
              call[t].pc = (IF resent THEN "sent" ELSE "write"),
              UNCHANGED <<issued, stalled>>,
              left' \in [{"lapses", "faults", "crashes", "replays"} -> Nat]
       PROVE  Kind(t)
  <2>1. call[t].op \in Ops \ {"none"}
    BY <1>3, <1>17
  <2>2. CASE call[t].op \in {"acquire", "record"}
    <3>1. RunCharge(t, resent)
      BY <1>17, <2>2 DEF Run
    <3> QED BY <1>0, <1>17, <2>2, <3>1, ChargeKind DEF Consuming
  <2>3. CASE call[t].op = "refund"
    <3>1. RunRefund(t, resent)
      BY <1>17, <2>3 DEF Run
    <3> QED BY <1>0, <1>17, <2>3, <3>1, SettleKind
  <2>4. CASE call[t].op = "undo"
    <3>1. RunCleanup(t, resent)
      BY <1>17, <2>4 DEF Run
    <3>2. CASE call[t].id \in Recovering
      <4>1. RunRefund(t, resent)
        BY <3>1, <3>2 DEF RunCleanup
      <4> QED BY <1>0, <1>17, <2>4, <3>2, <4>1, SettleKind
    <3>3. CASE call[t].id \notin Recovering
      <4>1. RunUndo(t, resent)
        BY <3>1, <3>3 DEF RunCleanup
      <4> QED BY <1>0, <1>17, <2>4, <3>3, <4>1, RevertKind DEF Alone
    <3> QED BY <3>2, <3>3
  <2> QED BY <2>1, <2>2, <2>3, <2>4 DEF Ops
<1>18. CASE Send(t)
  <2>1. Run(t, FALSE) /\ call[t].pc = (IF FALSE THEN "sent" ELSE "write")
    BY <1>18 DEF Send, At
  <2> QED BY <1>2, <1>17, <1>18, <2>1 DEF Send
<1>19. CASE Resend(t)
  <2>1. Run(t, TRUE) /\ call[t].pc = (IF TRUE THEN "sent" ELSE "write")
    BY <1>19 DEF Resend, At
  <2> QED BY <1>4, <1>17, <1>19, <2>1 DEF Resend
<1>20. CASE NoReply(t)
  BY <1>0, <1>20, LoseKind DEF NoReply
<1>21. ASSUME NEW ok \in BOOLEAN, Conclude(t, ok), Concludes(t),
              ok => HasCharge(t, call[t].id) \/ call[t].op \in {"refund", "undo"},
              ~ ok => /\ call[t].pc = "sent"
                      /\ call[t].answer \notin {"ok", "replayed"}
       PROVE  Kind(t)
  <2>1. /\ call[t].op \in Ops \ {"none"} /\ call[t].pc \in {"sent", "check"}
        /\ call[t].pc = "sent" => call[t].answer \in Answers \ {"none"}
    BY <1>0, <1>3, <1>21, CallOf DEF Concludes, RecSound
  <2>2. CASE call[t].op = "acquire"
    <3>1. CASE ok
      BY <1>0, <1>21, <2>2, <3>1, ObtainKind DEF Conclude
    <3>2. CASE ~ ok
      <4>1. Done(t) /\ held' = held
        BY <1>21, <2>2, <3>2 DEF Conclude
      <4> QED BY <1>0, <1>21, <2>2, <3>2, <4>1, OverKind DEF Consuming
    <3> QED BY <3>1, <3>2
  <2>3. CASE call[t].op = "record"
    <3>1. CASE ok
      <4>1. Done(t) /\ Answer(call[t].id, "held")
        BY <1>21, <2>3, <3>1 DEF Conclude
      <4> QED BY <1>0, <1>21, <2>3, <3>1, <4>1, OverKind
    <3>2. CASE ~ ok
      <4>1. Done(t) /\ held' = held
        BY <1>21, <2>3, <3>2 DEF Conclude
      <4> QED BY <1>0, <1>21, <2>3, <3>2, <4>1, OverKind DEF Consuming
    <3> QED BY <3>1, <3>2
  <2>4. CASE call[t].op = "refund"
    <3>1. /\ Done(t)
          /\ IF ok \/ call[t].answer \in {"duplicate", "unknown"}
               THEN Answer(call[t].id, "closed") ELSE held' = held
      BY <1>21, <2>4 DEF Conclude
    <3>2. \/ Answer(call[t].id, "closed")
          \/ held' = held /\ call[t].pc = "sent"
             /\ call[t].answer \in {"mismatch", "incoherent"}
      BY <1>21, <2>1, <3>1 DEF Answers
    <3> QED BY <1>0, <1>21, <2>4, <3>1, <3>2, OverKind
  <2>5. CASE call[t].op = "undo"
    <3>1. /\ Done(t)
          /\ \/ Answer(call[t].id, "undone") \/ Answer(call[t].id, "failed")
             \/ held' = held /\ held[call[t].id].status = "closed"
      BY <1>21, <2>5 DEF Conclude
    <3> QED BY <1>0, <1>21, <2>5, <3>1, OverKind
  <2> QED BY <2>1, <2>2, <2>3, <2>4, <2>5 DEF Ops
<1>22. CASE Reply(t)
  <2>1. /\ call[t].pc = "sent" /\ Succeeds(t) \in BOOLEAN
        /\ Conclude(t, Succeeds(t))
    BY <1>22 DEF Reply, At, Succeeds
  <2>2. Concludes(t)
    BY <1>2, <1>22, <2>1 DEF Reply, Concludes
  <2> QED BY <1>21, <2>1, <2>2 DEF Succeeds, HasCharge
<1>23. CASE CheckLanded(t)
  <2>1. call[t].pc = "check" /\ Landed(t) /\ Conclude(t, TRUE)
    BY <1>23 DEF CheckLanded, At
  <2>2. Concludes(t)
    BY <1>2, <1>23, <2>1 DEF CheckLanded, Concludes
  <2>3. HasCharge(t, call[t].id) \/ call[t].op \in {"refund", "undo"}
    BY <1>3, <2>1 DEF Landed, AcquireLanded, HasCharge, Ops
  <2> QED BY <1>21, <2>1, <2>2, <2>3
<1>24. CASE CheckRaises(t)
  <2>1. call[t].pc = "check" /\ Done(t) /\ call[t].op \in Ops \ {"none"}
    BY <1>3, <1>24 DEF CheckRaises, At
  <2>2. Concludes(t)
    BY <1>2, <1>4, <1>24, <2>1 DEF CheckRaises, Concludes
  <2>3. CASE call[t].op = "refund"
    <3>1. Answer(call[t].id, "unsure")
      BY <1>24, <2>3 DEF CheckRaises, Answer
    <3> QED BY <1>0, <2>1, <2>2, <2>3, <3>1, OverKind
  <2>4. CASE call[t].op = "undo"
    <3>1. Answer(call[t].id, "failed")
      BY <1>24, <2>4 DEF CheckRaises, Answer
    <3> QED BY <1>0, <2>1, <2>2, <2>4, <3>1, OverKind
  <2>5. CASE call[t].op \in Consuming
    <3>1. \/ /\ LiveMarker(call[t].id) /\ held[call[t].id].status = "no"
             /\ Answer(call[t].id, "unanswered")
          \/ held' = held /\ (~ LiveMarker(call[t].id)
                              \/ held[call[t].id].status # "no")
      BY <1>24, <2>5 DEF CheckRaises, Consuming, Answer
    <3> QED BY <1>0, <2>1, <2>2, <2>5, <3>1, OverKind
  <2> QED BY <2>1, <2>3, <2>4, <2>5 DEF Ops, Consuming
<1>25. CASE InterruptSent(t)
  <2>1. call[t].pc = "sent" /\ call[t].op \in Consuming
    BY <1>25 DEF InterruptSent, At, Consuming
  <2>2. Concludes(t)
    BY <1>2, <1>25, <2>1 DEF InterruptSent, Concludes
  <2>3. CASE call[t].answer = "ok"
    <3>1. BeginUndo(t) /\ call[t].op = "acquire"
      BY <1>25, <2>3 DEF InterruptSent
    <3> QED BY <1>0, <2>1, <2>2, <2>3, <3>1, UndoKind
  <2>4. CASE call[t].answer # "ok"
    <3>1. /\ Done(t)
          /\ IF /\ call[t].resent /\ call[t].answer = "replayed"
                /\ held[call[t].id].status = "no"
               THEN Answer(call[t].id, "resent") ELSE UNCHANGED held
      BY <1>25, <2>4 DEF InterruptSent
    <3> QED BY <1>0, <2>1, <2>2, <2>4, <3>1, OverKind
  <2> QED BY <2>3, <2>4
<1>26. CASE CallbacksReturn(t)
  BY <1>0, <1>26, DeliverKind DEF CallbacksReturn
<1>27. CASE Interrupt(t)
  <2>1. call[t].pc = "callbacks" /\ BeginUndo(t)
    BY <1>27 DEF Interrupt, At
  <2>2. \E h : Knows(call[t].id, h) /\ SameCounts(h, call[t].id)
               /\ h.status = held[call[t].id].status
    BY <1>3, <2>1, TriesKnows DEF BeginUndo
  <2>3. {held[call[t].id].tries} \in Tokens
    BY <1>3, <2>1 DEF Tokens, Typed, BoundTypes, Reservation
  <2>4. /\ call' = [call EXCEPT ![t] = Begin("undo", call[t].id, call[t].usage, 0,
                                             {held[call[t].id].tries})]
        /\ UNCHANGED <<store, bounded>>
    BY <1>27, <2>1 DEF Interrupt, BeginUndo
  <2> QED BY <1>0, <2>1, <2>2, <2>3, <2>4, TurnKind
<1>28. CASE CleanupDrainEnds(t)
  BY <1>0, <1>28, DrainKind DEF CleanupDrainEnds
<1> QED
  BY <1>5, <1>6, <1>7, <1>8, <1>10, <1>11, <1>12, <1>13, <1>14, <1>15, <1>16,
     <1>18, <1>19, <1>20, <1>22, <1>23, <1>24, <1>25, <1>26, <1>27, <1>28
     DEF TaskStep

(* A signal ends a cleanup before its pipeline.                            *)
LEMMA StopUndoKind ==
  ASSUME Typed, NEW c \in Callers, call[c].pc \in Before \cup {"sent"},
         call[c].op = "undo", Answer(call[c].id, "failed"), Done(c),
         lock' = Released(c), UNCHANGED <<now, keys, ids, proc, bounded>>,
         evictions' = evictions
  PROVE  Kind(c)
<1> DEFINE r == call[c].id
<1>1. r \in Ids /\ call = [d \in Callers |-> call[d]]
  BY CallOf DEF Before
<1>2. /\ left' \in [{"lapses", "faults", "crashes", "replays"} -> Nat]
      /\ stalled' = stalled /\ issued' = issued
  BY DEF bounded, Typed, BoundTypes
<1>3. call'[c].pc = "idle"
  BY <1>1, IdleSound DEF Done
<1>4. StoreKind(c)
  BY <1>2, <1>3, ReleaseKind DEF Writing, keys
<1>5. Gets(c, Idle)
  BY <1>4, DoneGets
<1>6. \E h : Knows(r, h) /\ SameCounts(h, r) /\ h.status = "failed"
  BY <1>1, AnswerKnows DEF Status
<1>7. Fails(c, r)
  BY <1>2, <1>5, <1>6 DEF Fails
<1> QED BY <1>1, <1>4, <1>7 DEF Kind, CallKind

(* The steps of a thread                                                   *)
LEMMA ThreadKind ==
  ASSUME Typed, NEW s \in Threads, ThreadStep(s), evictions' = evictions
  PROVE  Kind(s)
<1>0. s \in Callers
  BY ThreadsAssumption
<1>1. /\ Usages \subseteq Nat /\ Actuals \subseteq Nat
      /\ "acquire" \in Consuming /\ "record" \in Consuming
  BY CallsAssumption DEF Consuming
<1>2. /\ left \in [{"lapses", "faults", "crashes", "replays"} -> Nat]
      /\ (UNCHANGED bounded => /\ left' = left /\ issued' = issued
                               /\ stalled' = stalled)
  BY DEF Typed, BoundTypes, bounded
<1>3. call[s].pc # "idle" => call[s].id \in Ids /\ call[s].op \in Ops \ {"none"}
  BY <1>0, CallOf
<1>4. Fault => /\ left' \in [{"lapses", "faults", "crashes", "replays"} -> Nat]
               /\ issued' = issued /\ stalled' = stalled
  BY FaultType
<1>5. ASSUME NEW r \in Ids, NEW u \in Usages, WaitCall(s, r, u) PROVE Kind(s)
  BY <1>0, <1>1, <1>5, BeginKind DEF WaitCall
<1>6. ASSUME NEW r \in Ids, NEW u \in Usages, SyncRecordCall(s, r, u)
      PROVE  Kind(s)
  BY <1>0, <1>1, <1>6, BeginKind DEF SyncRecordCall
<1>7. ASSUME NEW r \in Ids, NEW a \in Actuals, SyncRefundCall(s, r, a)
      PROVE  Kind(s)
  BY <1>0, <1>1, <1>7, AskKind DEF SyncRefundCall
<1>8. CASE ThreadLocks(s)
  BY <1>0, <1>8, LockKind DEF ThreadLocks
<1>9. ASSUME WithoutLocks(s), call[s].pc \in {"lock", "extend"}
      PROVE  Kind(s)
  <2>1. /\ lock' = Released(s)
        /\ UNCHANGED <<now, keys, ids, proc, bounded>>
        /\ \/ /\ call[s].op = "acquire" /\ UNCHANGED held
              /\ call' = [call EXCEPT ![s] = Again(s)]
           \/ call[s].op = "undo" /\ Done(s) /\ Answer(call[s].id, "failed")
           \/ call[s].op \notin {"acquire", "undo"} /\ Done(s) /\ UNCHANGED held
    BY <1>9 DEF WithoutLocks
  <2> QED BY <1>0, <1>9, <2>1, RetryKind
<1>10. CASE SyncContend(s)
  BY <1>9, <1>10 DEF SyncContend, At
<1>11. CASE SyncExtendFails(s)
  BY <1>9, <1>11 DEF SyncExtendFails, At
<1>12. CASE SyncRead(s)
  <2> DEFINE rd == Reading(P(s))
             stop == call[s].op = "acquire"
                     /\ (Impossible(call[s].usage, rd)
                         \/ ~ Sufficient(call[s].usage, rd))
  <2>1. CASE stop
    <3>1. Done(s) \/ call' = [call EXCEPT ![s] = Again(s)]
      BY <1>12, <2>1 DEF SyncRead, Done
    <3>2. lock' = Released(s) /\ call[s].op = "acquire"
      BY <1>12, <2>1 DEF SyncRead
    <3> QED BY <1>0, <1>12, <3>1, <3>2, WaitKind DEF SyncRead
  <2>2. CASE ~ stop
    <3>1. /\ lock' = lock
          /\ call' = [call EXCEPT ![s].pc = "extend", ![s].rd = rd,
                                  ![s].amount = Computed(s, rd)]
      BY <1>12, <2>2 DEF SyncRead
    <3> QED BY <1>0, <1>12, <3>1, ComputeKind DEF SyncRead
  <2> QED BY <2>1, <2>2
<1>13. CASE SyncExtend(s)
  BY <1>0, <1>13, ExtendKind DEF SyncExtend
<1>14. ASSUME NEW resent \in BOOLEAN, SyncRun(s, resent),
              call[s].pc = (IF resent THEN "sent" ELSE "write"),
              UNCHANGED <<issued, stalled>>,
              left' \in [{"lapses", "faults", "crashes", "replays"} -> Nat]
       PROVE  Kind(s)
  <2>1. call[s].op \in Ops \ {"none"}
    BY <1>3, <1>14
  <2>2. CASE call[s].op \in {"acquire", "record"}
    <3>1. RunCharge(s, resent)
      BY <1>14, <2>2 DEF SyncRun
    <3> QED BY <1>0, <1>14, <2>2, <3>1, ChargeKind DEF Consuming
  <2>3. CASE call[s].op = "refund"
    <3>1. RunRefund(s, resent)
      BY <1>14, <2>3 DEF SyncRun
    <3> QED BY <1>0, <1>14, <2>3, <3>1, SettleKind
  <2>4. CASE call[s].op = "undo"
    <3>1. RunUndo(s, resent) /\ Alone(s, call[s].id)
      BY <1>14, <2>4 DEF SyncRun, Alone
    <3> QED BY <1>0, <1>14, <2>4, <3>1, RevertKind
  <2> QED BY <2>1, <2>2, <2>3, <2>4 DEF Ops
<1>15. CASE SyncSend(s)
  <2>1. SyncRun(s, FALSE) /\ call[s].pc = (IF FALSE THEN "sent" ELSE "write")
    BY <1>15 DEF SyncSend, At
  <2> QED BY <1>2, <1>14, <1>15, <2>1 DEF SyncSend
<1>16. CASE SyncResend(s)
  <2>1. SyncRun(s, TRUE) /\ call[s].pc = (IF TRUE THEN "sent" ELSE "write")
    BY <1>16 DEF SyncResend, At
  <2> QED BY <1>4, <1>14, <1>16, <2>1 DEF SyncResend
<1>17. CASE SyncNoReply(s)
  BY <1>0, <1>17, LoseKind DEF SyncNoReply
<1>18. ASSUME NEW ok \in BOOLEAN, SyncConclude(s, ok), Concludes(s),
              ok => HasCharge(s, call[s].id) \/ call[s].op \in {"refund", "undo"},
              ~ ok => /\ call[s].pc = "sent"
                      /\ call[s].answer \notin {"ok", "replayed"}
       PROVE  Kind(s)
  <2>1. /\ call[s].op \in Ops \ {"none"} /\ call[s].pc \in {"sent", "check"}
        /\ call[s].pc = "sent" => call[s].answer \in Answers \ {"none"}
    BY <1>0, <1>3, <1>18, CallOf DEF Concludes, RecSound
  <2>2. CASE call[s].op = "acquire"
    <3>1. CASE ok
      <4>1. Go(s, "callbacks") /\ held' = held
        BY <1>18, <2>2, <3>1 DEF SyncConclude
      <4> QED BY <1>0, <1>18, <2>2, <3>1, <4>1, ObtainKind
    <3>2. CASE ~ ok
      <4>1. Done(s) /\ held' = held
        BY <1>18, <2>2, <3>2 DEF SyncConclude
      <4> QED BY <1>0, <1>18, <2>2, <3>2, <4>1, OverKind DEF Consuming
    <3> QED BY <3>1, <3>2
  <2>3. CASE call[s].op = "record"
    <3>1. CASE ok
      <4>1. Done(s) /\ Answer(call[s].id, "held")
        BY <1>18, <2>3, <3>1 DEF SyncConclude
      <4> QED BY <1>0, <1>18, <2>3, <3>1, <4>1, OverKind
    <3>2. CASE ~ ok
      <4>1. Done(s) /\ held' = held
        BY <1>18, <2>3, <3>2 DEF SyncConclude
      <4> QED BY <1>0, <1>18, <2>3, <3>2, <4>1, OverKind DEF Consuming
    <3> QED BY <3>1, <3>2
  <2>4. CASE call[s].op = "refund"
    <3>1. CASE ok \/ call[s].answer \in {"duplicate", "unknown"}
      <4>1. Done(s) /\ Answer(call[s].id, "closed")
        BY <1>18, <2>4, <3>1 DEF SyncConclude
      <4> QED BY <1>0, <1>18, <2>4, <4>1, OverKind
    <3>2. CASE ~ (ok \/ call[s].answer \in {"duplicate", "unknown"})
      <4>1. Done(s) /\ held' = held
        BY <1>18, <2>4, <3>2 DEF SyncConclude
      <4>2. call[s].answer \in {"mismatch", "incoherent"}
        BY <1>18, <2>1, <3>2 DEF Answers
      <4> QED BY <1>0, <1>18, <2>4, <3>2, <4>1, <4>2, OverKind
    <3> QED BY <3>1, <3>2
  <2>5. CASE call[s].op = "undo"
    <3>1. Done(s) /\ Answer(call[s].id, "undone")
      BY <1>18, <2>5 DEF SyncConclude
    <3> QED BY <1>0, <1>18, <2>5, <3>1, OverKind
  <2> QED BY <2>1, <2>2, <2>3, <2>4, <2>5 DEF Ops
<1>19. CASE SyncReply(s)
  <2> DEFINE ok == call[s].answer \in {"ok", "replayed"}
  <2>1. call[s].pc = "sent" /\ ok \in BOOLEAN /\ SyncConclude(s, ok)
    BY <1>19 DEF SyncReply, At
  <2>2. Concludes(s)
    BY <1>2, <1>19, <2>1 DEF SyncReply, SyncConclude, Concludes
  <2>3. ok => HasCharge(s, call[s].id)
    BY <2>1 DEF HasCharge
  <2>4. ~ ok => call[s].answer \notin {"ok", "replayed"}
    OBVIOUS
  <2> HIDE DEF ok
  <2> QED BY <1>18, <2>1, <2>2, <2>3, <2>4
<1>20. CASE SyncCheckLanded(s)
  <2>1. call[s].pc = "check" /\ SyncLanded(s) /\ SyncConclude(s, TRUE)
    BY <1>20 DEF SyncCheckLanded, At
  <2>2. Concludes(s)
    BY <1>2, <1>20, <2>1 DEF SyncCheckLanded, SyncConclude, Concludes
  <2>3. HasCharge(s, call[s].id) \/ call[s].op \in {"refund", "undo"}
    BY <1>3, <2>1 DEF SyncLanded, AcquireLanded, HasCharge, Ops
  <2> QED BY <1>18, <2>1, <2>2, <2>3
<1>21. ASSUME NEW why \in {"unanswered", "signalled"}, LeftBehind(s, why),
              Concludes(s), Done(s)
       PROVE  Kind(s)
  <2>1. call[s].op \in Ops \ {"none"}
    BY <1>3, <1>21 DEF Concludes
  <2>2. CASE call[s].op = "refund"
    <3>1. Answer(call[s].id, "unsure")
      BY <1>21, <2>2 DEF LeftBehind, Answer
    <3> QED BY <1>0, <1>21, <2>2, <3>1, OverKind
  <2>3. CASE call[s].op = "undo"
    <3>1. Answer(call[s].id, "failed")
      BY <1>21, <2>3 DEF LeftBehind, Answer
    <3> QED BY <1>0, <1>21, <2>3, <3>1, OverKind
  <2>4. CASE call[s].op \in Consuming
    <3>1. \/ /\ LiveMarker(call[s].id) /\ held[call[s].id].status = "no"
             /\ Answer(call[s].id, why)
          \/ held' = held /\ (~ LiveMarker(call[s].id)
                              \/ held[call[s].id].status # "no")
      BY <1>21, <2>4 DEF LeftBehind, Consuming, Answer
    <3> QED BY <1>0, <1>21, <2>4, <3>1, OverKind
  <2> QED BY <2>1, <2>2, <2>3, <2>4 DEF Ops, Consuming
<1>22. CASE SyncCheckRaises(s)
  <2>1. call[s].pc = "check" /\ Done(s) /\ LeftBehind(s, "unanswered")
    BY <1>22 DEF SyncCheckRaises, At
  <2>2. Concludes(s)
    BY <1>2, <1>4, <1>22, <2>1 DEF SyncCheckRaises, Concludes
  <2> QED BY <1>21, <2>1, <2>2
<1>23. CASE Signal(s)
  <2>1. /\ Done(s) /\ lock' = Released(s)
        /\ UNCHANGED <<now, keys, ids, proc, bounded>>
        /\ call[s].pc \in Before \cup {"sent"}
    BY <1>23 DEF Signal, Before
  <2>2. CASE call[s].pc = "sent"
    <3>1. LeftBehind(s, "signalled")
      BY <1>23, <2>2 DEF Signal
    <3>2. Concludes(s)
      BY <1>2, <2>1, <2>2 DEF Concludes
    <3> QED BY <1>21, <2>1, <3>1, <3>2
  <2>3. CASE call[s].pc # "sent" /\ call[s].op # "undo"
    <3>1. held' = held
      BY <1>23, <2>3 DEF Signal
    <3> QED BY <1>0, <1>2, <2>1, <2>3, <3>1, DropKind
  <2>4. CASE call[s].pc # "sent" /\ call[s].op = "undo"
    <3>1. Answer(call[s].id, "failed")
      BY <1>23, <2>4 DEF Signal
    <3> QED BY <1>0, <2>1, <2>4, <3>1, StopUndoKind
  <2> QED BY <2>2, <2>3, <2>4
<1>24. CASE SignalInCallback(s)
  <2>1. call[s].pc = "callbacks" /\ {} \in Tokens /\ call[s].id \in Ids
    BY <1>3, <1>24 DEF SignalInCallback, At, Tokens
  <2>2. \E h : Knows(call[s].id, h) /\ SameCounts(h, call[s].id)
               /\ h.status = held[call[s].id].status
    <3>1. held \in [Ids -> Reservation] /\ held' = held
      BY <1>24 DEF SignalInCallback, Typed, BoundTypes
    <3> DEFINE h == held[call[s].id]
    <3>2. h \in Reservation /\ held' = [held EXCEPT ![call[s].id] = h]
      BY <2>1, <3>1
    <3> QED BY <3>2 DEF Knows, SameCounts
  <2>3. /\ call' = [call EXCEPT ![s] = Begin("undo", call[s].id, call[s].usage, 0,
                                             {})]
        /\ UNCHANGED <<store, bounded>>
    BY <1>24 DEF SignalInCallback
  <2> QED BY <1>0, <2>1, <2>2, <2>3, TurnKind
<1>25. CASE SyncCallbacksReturn(s)
  BY <1>0, <1>25, DeliverKind DEF SyncCallbacksReturn
<1> QED
  BY <1>5, <1>6, <1>7, <1>8, <1>10, <1>11, <1>12, <1>13, <1>15, <1>16, <1>17,
     <1>19, <1>20, <1>22, <1>23, <1>24, <1>25 DEF ThreadStep

-----------------------------------------------------------------------------
(* Type correctness *)

(* What all steps of a caller have in common                               *)
LEMMA CallKindTypes ==
  ASSUME Typed, NEW c \in Callers, NEW r \in Ids, CallKind(c, r), now' = now
  PROVE  /\ call' = call \/ \E k : Gets(c, k)
         /\ held' = held \/ \E h : Knows(r, h)
         /\ issued' \in 0..MaxIds
         /\ IdTypes'
<1>1. call' = call \/ \E k : Gets(c, k)
  BY DEF CallKind, Starts, Asks, Moves, Drops, Charges, Settles, Reverts, Loses,
         Obtains, Delivers, Turns, Fails, Closes, Reports, Drains
<1>2. CASE Starts(c, r)
  <2>1. /\ held' = held \/ held' = [held EXCEPT ![r].reused = TRUE]
        /\ issued' = Greater(issued, r) /\ UNCHANGED ids
    BY <1>2 DEF Starts, TakesId
  <2>2. held \in [Ids -> Reservation] /\ issued \in 0..MaxIds /\ IdTypes
    BY DEF Typed, BoundTypes
  <2>3. held' = held \/ \E h : Knows(r, h)
    <3> DEFINE h == [held[r] EXCEPT !.reused = TRUE]
    <3>1. h \in Reservation
      BY <2>2 DEF Reservation
    <3>2. held' = held \/ held' = [held EXCEPT ![r] = h]
      BY <2>1, <2>2
    <3> HIDE DEF h
    <3> QED BY <3>1, <3>2 DEF Knows
  <2>4. issued' \in 0..MaxIds
    BY <2>1, <2>2, RedisAssumption DEF Greater, Ids
  <2>5. IdTypes'
    BY <2>1, <2>2 DEF IdTypes, ids
  <2> QED BY <1>1, <2>3, <2>4, <2>5
<1>3. CASE ~ Starts(c, r)
  <2>1. held' = held \/ \E h : Knows(r, h)
    BY <1>3 DEF CallKind, Asks, Moves, Drops, Charges, Settles, Reverts, Loses,
         Obtains, Delivers, Turns, Fails, Closes, Reports, Drains
  <2>2. issued' = issued
    BY <1>3 DEF CallKind, Asks, Moves, Drops, Charges, Settles, Reverts, Loses,
         Obtains, Delivers, Turns, Fails, Closes, Reports, Drains
  <2>3. \/ UNCHANGED ids
        \/ Charges(c, r) \/ Settles(c, r) \/ Reverts(c, r)
    BY <1>3 DEF CallKind, Asks, Moves, Drops, Loses,
         Obtains, Delivers, Turns, Fails, Closes, Reports, Drains
  <2>4. IdTypes /\ now \in Nat /\ call[c].usage \in Nat
    BY CallOf, RedisAssumption DEF Typed
  <2>5. IdTypes'
    <3>1. CASE UNCHANGED ids
      BY <2>4, <3>1 DEF IdTypes, ids
    <3>2. CASE Charges(c, r)
      <4>1. [usage |-> call[c].usage, exp |-> now + Lifetime]
              \in [usage : Nat, exp : Nat]
        BY <2>4, Lifetimes
      <4>2. /\ tombstone' = tombstone
            /\ \/ marker' = marker
               \/ marker' = [marker EXCEPT ![r] = [usage |-> call[c].usage,
                                                   exp |-> now + Lifetime]]
        BY <3>2 DEF Charges, ids
      <4> QED BY <2>4, <4>1, <4>2 DEF IdTypes
    <3>3. CASE Settles(c, r)
      <4>1. \/ UNCHANGED ids
            \/ /\ marker' = [marker EXCEPT ![r] = NoMarker]
               /\ \E k : /\ k \in [token : Tokens, exp : {now + DedupTTL}]
                         /\ tombstone' = [tombstone EXCEPT ![r] = k]
        BY <3>3 DEF Settles
      <4>2. CASE UNCHANGED ids
        BY <2>4, <4>2 DEF IdTypes, ids
      <4>3. CASE ~ UNCHANGED ids
        <5>1. PICK k : /\ marker' = [marker EXCEPT ![r] = NoMarker]
                       /\ k \in [token : Tokens, exp : {now + DedupTTL}]
                       /\ tombstone' = [tombstone EXCEPT ![r] = k]
          BY <4>1, <4>3
        <5>2. k \in [token : Tokens, exp : Nat]
          <6>1. now + DedupTTL \in Nat
            BY <2>4, Lifetimes
          <6> QED BY <5>1, <6>1
        <5>3. tombstone' \in [Ids -> [token : Tokens, exp : Nat]]
          BY <2>4, <5>1, <5>2 DEF IdTypes
        <5>4. NoMarker \in [usage : Nat, exp : Nat]
          BY DEF NoMarker
        <5>5. marker' \in [Ids -> [usage : Nat, exp : Nat]]
          BY <2>4, <5>1, <5>4 DEF IdTypes
        <5> QED BY <5>3, <5>5 DEF IdTypes
      <4> QED BY <4>2, <4>3
    <3>4. CASE Reverts(c, r)
      <4>1. /\ tombstone' = tombstone
            /\ marker' = [marker EXCEPT ![r] = NoMarker]
        BY <3>4 DEF Reverts
      <4> QED BY <2>4, <4>1 DEF IdTypes, NoMarker
    <3> QED BY <2>3, <3>1, <3>2, <3>3, <3>4
  <2> QED BY <1>1, <2>1, <2>2, <2>5 DEF Typed, BoundTypes
<1> QED BY <1>2, <1>3

(* A step of a caller keeps the types.                                     *)
LEMMA KindTyped ==
  ASSUME Typed, NEW c \in Callers, Kind(c)
  PROVE  Typed'
<1>1. PICK r \in Ids : StoreKind(c) /\ CallKind(c, r)
  BY DEF Kind
<1>2. /\ now' = now
      /\ KeyTypes' /\ ProcTypes' /\ LockTypes'
      /\ \A d \in Callers : \A k : RecSound(d, k) => RecSound(d, k)'
  BY <1>1, StoreKindKeeps
<1>3. /\ call' = call \/ \E k : Gets(c, k)
      /\ held' = held \/ \E h : Knows(r, h)
      /\ issued' \in 0..MaxIds
      /\ IdTypes'
  BY <1>1, <1>2, CallKindTypes
<1>4. CallTypes'
  <2>1. call = [d \in Callers |-> call[d]] /\ \A d \in Callers : RecSound(d, call[d])
    BY DEF Typed, CallTypes
  <2>2. CASE call' = call
    <3>1. ASSUME NEW d \in Callers PROVE RecSound(d, call[d])'
      <4>1. PICK k : k = call[d]
        OBVIOUS
      <4>2. RecSound(d, k)' /\ k = call'[d]
        BY <1>2, <2>1, <2>2, <4>1
      <4> QED BY <4>2
    <3> QED BY <2>1, <2>2, <3>1 DEF CallTypes
  <2>3. CASE \E k : Gets(c, k)
    <3>1. PICK k : Gets(c, k)
      BY <2>3
    <3>2. RecSound(c, k)' /\ call' = [call EXCEPT ![c] = k]
      BY <3>1 DEF Gets
    <3>3. call' = [d \in Callers |-> IF d = c THEN k ELSE call[d]]
      BY <2>1, <3>2
    <3>4. ASSUME NEW d \in Callers PROVE RecSound(d, call[d])'
      <4>1. PICK l : l = call'[d]
        OBVIOUS
      <4>2. RecSound(d, l)'
        <5>1. CASE d = c
          BY <3>2, <3>3, <4>1, <5>1
        <5>2. CASE d # c
          <6>1. l = call[d] /\ RecSound(d, call[d])
            BY <2>1, <3>3, <4>1, <5>2
          <6>2. RecSound(d, l)
            BY <6>1
          <6> QED BY <1>2, <6>2
        <5> QED BY <5>1, <5>2
      <4> QED BY <4>1, <4>2
    <3> HIDE <2>1
    <3>5. call' = [d \in Callers |-> call'[d]]
      BY <3>3
    <3> QED BY <3>4, <3>5 DEF CallTypes
  <2> QED BY <1>3, <2>2, <2>3
<1>5. BoundTypes'
  <2>1. held' \in [Ids -> Reservation]
    <3>1. held \in [Ids -> Reservation]
      BY DEF Typed, BoundTypes
    <3>2. CASE held' = held
      BY <3>1, <3>2
    <3>3. CASE \E h : Knows(r, h)
      <4>1. PICK h : Knows(r, h)
        BY <3>3
      <4> QED BY <3>1, <4>1 DEF Knows
    <3> QED BY <1>3, <3>2, <3>3
  <2> QED BY <1>1, <1>3, <2>1 DEF Typed, BoundTypes, StoreKind
<1> QED BY <1>2, <1>3, <1>4, <1>5 DEF Typed

(* The keys of a bucket from a later moment on                             *)
LEMMA KeysLater ==
  ASSUME NEW b, BucketKeys(b), now \in Nat, now' \in Nat, now <= now',
         UNCHANGED <<over, hist>>,
         state'[b] = state[b] \/ \E ks \in SUBSET Pair :
                                   state'[b] = [state[b] EXCEPT !.keys = ks]
  PROVE  BucketKeys(b)'
<1>1. state[b] \in States /\ state[b].last <= now
  BY DEF BucketKeys
<1>2. /\ state'[b] \in States /\ state'[b].last = state[b].last
      /\ state'[b].exp = state[b].exp
  BY <1>1 DEF States
<1> QED BY <1>1, <1>2 DEF BucketKeys, States

(* What remains of the locks when some lapse                               *)
LEMMA LapsedLocks ==
  ASSUME LockTypes, NEW bs,
         lock' = [b \in Buckets |-> IF b \in bs THEN {} ELSE lock[b]]
  PROVE  LockTypes'
BY DEF LockTypes

(* An operator's command: nobody holds a lock, the store moves, no call is *)
(* touched, and those of the process rest.                                 *)
Commands(p) ==
  /\ Unlocked /\ StoreMoves /\ now' = now
  /\ \A o \in Procs \ {p} : proc'[o] = proc[o]
  /\ Resting(p)
  /\ UNCHANGED <<lock, ids, calls, evictions>>

(* The commands are that.                                                  *)
LEMMA CommandKind ==
  ASSUME Typed, NEW p \in Procs,
         OverrideLimit(p) \/ ConfigureLimit(p) \/ ReplaceConfig(p)
  PROVE  Commands(p)
<1>1. World
  BY RedisAssumption DEF Typed, World
<1>2. CASE OverrideLimit(p)
  <2>1. PICK b \in Mine(p), value \in Limits : SetMax(p, b, value)
    BY <1>2 DEF OverrideLimit
  <2>2. value \in Nat \ {0} /\ now' = now /\ UNCHANGED <<lock, ids>> /\ Unlocked
    BY <2>1, FleetAssumption DEF SetMax
  <2>3. StoreMoves /\ \A o \in Procs \ {p} : proc'[o] = proc[o]
    BY <1>1, <2>1, <2>2, SetMaxKeeps
  <2> QED BY <1>2, <2>2, <2>3 DEF OverrideLimit, Commands
<1>3. CASE ConfigureLimit(p)
  <2>0. PICK config \in Configs : \E b \in Mine(p) \cap DOMAIN config :
          ApplyConfigured(p, b, config[b])
    BY <1>3 DEF ConfigureLimit
  <2>1. PICK b \in Mine(p) \cap DOMAIN config : ApplyConfigured(p, b, config[b])
    BY <2>0
  <2>2. config[b] \in Nat \ {0} /\ now' = now /\ UNCHANGED <<lock, ids>> /\ Unlocked
    BY <2>1, RedisAssumption DEF ApplyConfigured
  <2>3. StoreMoves /\ \A o \in Procs \ {p} : proc'[o] = proc[o]
    BY <1>1, <2>1, <2>2, ApplyKeeps
  <2> QED BY <1>3, <2>2, <2>3 DEF ConfigureLimit, Commands
<1>4. CASE ReplaceConfig(p)
  <2>1. PICK config \in Configs : Reconfigure(p, config)
    BY <1>4 DEF ReplaceConfig
  <2>2. now' = now /\ UNCHANGED <<lock, ids>> /\ Unlocked
    BY <2>1 DEF Reconfigure
  <2>3. StoreMoves /\ \A o \in Procs \ {p} : proc'[o] = proc[o]
    BY <1>1, <2>1, ReconfigureKeeps
  <2> QED BY <1>4, <2>2, <2>3 DEF ReplaceConfig, Commands
<1> QED BY <1>2, <1>3, <1>4

(* An idle caller is sound whatever its process serves.                    *)
LEMMA IdleLater ==
  ASSUME NEW c \in Callers, now' \in Nat, NEW k, k = Idle
  PROVE  RecSound(c, k)'
<1>1. Writable(P(c), NoAmount, NoReading)'
  BY DEF Writable, NoAmount, NoReading
<1>2. 0 \in 0..MaxIds
  BY RedisAssumption
<1> QED BY <1>1, <1>2 DEF RecSound, Idle, PCs, Ops, Answers, Section, Tokens,
           NoAmount, NoReading

(* A caller whose process keeps its buckets is as sound as before.         *)
LEMMA SoundLater ==
  ASSUME NEW c \in Callers, NEW k, RecSound(c, k), now \in Nat, now' \in Nat,
         now <= now', Mine(P(c))' = Mine(P(c))
  PROVE  RecSound(c, k)'
<1>1. Writable(P(c), k.amount, k.rd)'
  BY DEF RecSound, Writable
<1> QED BY <1>1 DEF RecSound, P

(* A crash keeps the buckets of every process and clears its evidence.     *)
LEMMA CrashKeeps ==
  ASSUME World, NEW p \in Procs, Crash(p)
  PROVE  /\ ProcTypes' /\ \A o \in Procs : Mine(o)' = Mine(o)
         /\ \A o \in Procs : \A b \in Mine(o) :
              /\ proc'[o][b].conf = proc[o][b].conf
              /\ proc'[o][b].confirmed \subseteq proc[o][b].confirmed
         /\ \A b \in Mine(p) : proc'[p][b].confirmed = {}
         /\ \A o \in Procs \ {p} : proc'[o] = proc[o]
<1> DEFINE q == [b \in Mine(p) |-> NewBucketOf(proc[p][b].conf)]
<1>1. proc' = [proc EXCEPT ![p] = q] /\ now' = now
  BY DEF Crash, World, ProcTypes
<1>2. ASSUME NEW b \in Mine(p)
      PROVE  /\ q[b] \in BucketObject /\ q[b].confirmed = {}
             /\ q[b].conf = proc[p][b].conf /\ b \in Buckets
  BY <1>2, ServesMine DEF Serves, BucketObject, NewBucketOf
<1>3. IsProc(q)
  BY <1>2 DEF IsProc
<1>4. DOMAIN q = Mine(p)
  OBVIOUS
<1> HIDE DEF q
<1>5. ProcTypes' /\ proc'[p] = q /\ \A o \in Procs \ {p} : proc'[o] = proc[o]
  BY <1>1, <1>3, OneProc
<1>6. \A o \in Procs : Mine(o)' = Mine(o)
  BY <1>4, <1>5 DEF Mine
<1>7. ASSUME NEW o \in Procs, NEW b \in Mine(o)
      PROVE  /\ proc'[o][b].conf = proc[o][b].conf
             /\ proc'[o][b].confirmed \subseteq proc[o][b].confirmed
  BY <1>2, <1>5, <1>7
<1> QED BY <1>2, <1>5, <1>6, <1>7

(* What a step leaves alone keeps its types.                               *)
LEMMA FrameTypes ==
  ASSUME Typed, UNCHANGED <<now, lock, ids, proc, calls>>
  PROVE  /\ ProcTypes' /\ CallTypes' /\ LockTypes' /\ IdTypes'
         /\ now' \in 0..MaxTime
<1>1. /\ now' = now /\ lock' = lock /\ marker' = marker
      /\ tombstone' = tombstone /\ proc' = proc /\ call' = call
  BY DEF ids, calls
<1>2. ProcTypes'
  BY <1>1 DEF Typed, ProcTypes, IsProc
<1>3. CallTypes'
  BY <1>1 DEF Typed, CallTypes, RecSound, Writable, Mine
<1>4. LockTypes' /\ IdTypes'
  BY <1>1 DEF Typed, LockTypes, IdTypes
<1> QED BY <1>1, <1>2, <1>3, <1>4 DEF Typed

(* Every step keeps the types.                                             *)
LEMMA TypedNext == Typed /\ [Next]_allvars => Typed'
<1> SUFFICES ASSUME Typed, [Next]_allvars PROVE Typed'
  OBVIOUS
<1>0. now \in Nat /\ World /\ call = [c \in Callers |-> call[c]]
      /\ \A c \in Callers : RecSound(c, call[c])
  BY RedisAssumption DEF Typed, World, CallTypes
<1>1. ASSUME NEW c \in Callers, Kind(c) PROVE Typed'
  BY <1>1, KindTyped
<1>2. CASE \E t \in Tasks : TaskStep(t) /\ UNCHANGED evictions
  BY <1>1, <1>2, TaskKind, TasksAssumption
<1>3. CASE \E s \in Threads : ThreadStep(s) /\ UNCHANGED evictions
  BY <1>1, <1>3, ThreadKind, ThreadsAssumption
<1>4. CASE \E c \in Callers, bs \in SUBSET Buckets :
             LockLapses(c, bs) /\ UNCHANGED evictions
  <2>1. PICK c \in Callers, bs \in SUBSET Buckets :
          LockLapses(c, bs) /\ UNCHANGED evictions
    BY <1>4
  <2>2. LockTypes'
    BY <2>1, LapsedLocks DEF LockLapses, Typed
  <2>3. /\ stalled' \in BOOLEAN
        /\ left' \in [{"lapses", "faults", "crashes", "replays"} -> Nat]
    BY <2>1 DEF LockLapses, Spend, Typed, BoundTypes
  <2>4. UNCHANGED <<now, keys, ids, proc, call, held, issued, evictions>>
    BY <2>1 DEF LockLapses
  <2>5. KeyTypes' /\ ProcTypes'
    BY <1>0, <2>4, StoreStays DEF StoreMoves
  <2>6. CallTypes' /\ IdTypes'
    BY <2>4 DEF Typed, CallTypes, RecSound, Writable, IdTypes, ids, Mine
  <2>7. BoundTypes' /\ now' \in 0..MaxTime
    BY <2>3, <2>4 DEF Typed, BoundTypes
  <2> QED BY <2>2, <2>5, <2>6, <2>7 DEF Typed
<1>5. CASE \E p \in Procs : OverrideLimit(p) \/ ConfigureLimit(p) \/ ReplaceConfig(p)
  <2>1. PICK p \in Procs : OverrideLimit(p) \/ ConfigureLimit(p) \/ ReplaceConfig(p)
    BY <1>5
  <2>2. Commands(p)
    BY <2>1, CommandKind
  <2>3. /\ KeyTypes' /\ ProcTypes' /\ now' = now /\ UNCHANGED <<lock, ids, calls>>
        /\ evictions' = evictions
        /\ \A o \in Procs \ {p} : Mine(o)' = Mine(o)
    BY <2>2 DEF Commands, StoreMoves, Mine
  <2>4. ASSUME NEW c \in Callers PROVE RecSound(c, call[c])'
    <3>1. PICK k : k = call[c]
      OBVIOUS
    <3>2. RecSound(c, k) /\ k = call'[c]
      BY <1>0, <2>3, <3>1 DEF calls
    <3>3. CASE P(c) # p
      <4>1. Mine(P(c))' = Mine(P(c))
        <5>1. P(c) \in Procs \ {p} /\ P(c)' = P(c)
          BY <3>3, ProcOfCaller DEF P
        <5> QED BY <2>3, <5>1 DEF Mine
      <4>2. RecSound(c, k)'
        BY <1>0, <2>3, <3>2, <4>1, SoundStays
      <4> QED BY <3>2, <4>2
    <3>4. CASE P(c) = p
      <4>1. k = Idle
        BY <2>2, <3>1, <3>2, <3>4 DEF Commands, Resting, At, RecSound
      <4>2. RecSound(c, k)'
        BY <1>0, <2>3, <4>1, IdleLater
      <4> QED BY <3>2, <4>2
    <3> QED BY <3>3, <3>4
  <2>5. CallTypes'
    BY <1>0, <2>3, <2>4 DEF CallTypes, calls
  <2>6. IdTypes' /\ BoundTypes' /\ LockTypes' /\ now' \in 0..MaxTime
    BY <2>3 DEF Typed, IdTypes, BoundTypes, LockTypes, ids, calls, bounded
  <2> QED BY <2>3, <2>5, <2>6 DEF Typed
<1>6. CASE \E p \in Procs : Crash(p) /\ UNCHANGED evictions
  <2>1. PICK p \in Procs : Crash(p) /\ UNCHANGED evictions
    BY <1>6
  <2>2. ProcTypes' /\ \A o \in Procs : Mine(o)' = Mine(o)
    BY <1>0, <2>1, CrashKeeps
  <2>3. UNCHANGED <<now, keys, lock, ids, issued, stalled, evictions>>
    BY <2>1 DEF Crash
  <2>4. ASSUME NEW c \in Callers PROVE RecSound(c, call[c])'
    <3>1. PICK k : k = call'[c]
      OBVIOUS
    <3>2. k = Idle \/ k = call[c]
      BY <2>1, <3>1 DEF Crash
    <3>3. CASE k = Idle
      <4>1. RecSound(c, k)'
        BY <1>0, <2>3, <3>3, IdleLater
      <4> QED BY <3>1, <4>1
    <3>4. CASE k = call[c]
      <4>1. RecSound(c, k)
        BY <1>0, <3>4
      <4>2. Mine(P(c))' = Mine(P(c))
        <5>1. P(c) \in Procs /\ P(c)' = P(c)
          BY ProcOfCaller DEF P
        <5> QED BY <2>2, <5>1 DEF Mine
      <4>3. RecSound(c, k)'
        BY <2>3, <4>1, <4>2, SoundStays
      <4> QED BY <3>1, <4>3
    <3> QED BY <3>2, <3>3, <3>4
  <2>5. CallTypes'
    <3>1. call' = [c \in Callers |-> call'[c]]
      BY <2>1 DEF Crash
    <3> QED BY <2>4, <3>1 DEF CallTypes
  <2>6. KeyTypes' /\ LockTypes' /\ IdTypes' /\ now' \in 0..MaxTime
    BY <2>3 DEF Typed, KeyTypes, BucketKeys, LockTypes, IdTypes, keys, ids
  <2>7. BoundTypes'
    <3>1. held \in [Ids -> Reservation]
      BY DEF Typed, BoundTypes
    <3>2. ASSUME NEW r \in Ids PROVE held'[r] \in Reservation
      <4>1. held[r] \in Reservation
        BY <3>1
      <4>2. "crashed" \in Status
        BY DEF Status
      <4> QED BY <2>1, <4>1, <4>2 DEF Crash, Reservation
    <3>3. held' = [r \in Ids |-> held'[r]]
      BY <2>1 DEF Crash
    <3>4. left' \in [{"lapses", "faults", "crashes", "replays"} -> Nat]
      BY <2>1 DEF Crash, Spend, Typed, BoundTypes
    <3> QED BY <2>3, <3>2, <3>3, <3>4 DEF Typed, BoundTypes
  <2> QED BY <2>2, <2>5, <2>6, <2>7 DEF Typed
<1>7. CASE Tick /\ UNCHANGED <<calls, evictions>>
  <2>1. /\ now' = now + 1 /\ now' \in 0..MaxTime /\ now <= now' /\ now' \in Nat
        /\ UNCHANGED <<keys, lock, ids, proc, calls, evictions>>
    BY <1>0, <1>7, RedisAssumption DEF Tick
  <2>2. ASSUME NEW b \in Buckets PROVE BucketKeys(b)'
    BY <1>0, <2>1, KeysLater DEF keys, World, KeyTypes
  <2>3. KeyTypes'
    BY <1>0, <2>1, <2>2 DEF World, KeyTypes, keys
  <2>4. ProcTypes' /\ \A o \in Procs : Mine(o)' = Mine(o)
    BY <1>0, <2>1 DEF World, ProcTypes, IsProc, Mine
  <2>5. ASSUME NEW c \in Callers PROVE RecSound(c, call[c])'
    <3>1. PICK k : k = call[c]
      OBVIOUS
    <3>2. RecSound(c, k) /\ k = call'[c]
      BY <1>0, <2>1, <3>1 DEF calls
    <3>3. Mine(P(c))' = Mine(P(c))
      BY <2>1 DEF Mine, P
    <3>4. RecSound(c, k)'
      BY <1>0, <2>1, <3>2, <3>3, SoundLater
    <3> QED BY <3>2, <3>4
  <2>6. CallTypes' /\ LockTypes' /\ IdTypes' /\ BoundTypes'
    BY <2>1, <2>5 DEF Typed, CallTypes, LockTypes, IdTypes, BoundTypes, calls,
       bounded, ids
  <2> QED BY <2>1, <2>3, <2>4, <2>6 DEF Typed
<1>8. CASE EvictState
  <2>1. PICK b \in Buckets, ks \in SUBSET Pair : Evict(b, ks)
    BY <1>8 DEF EvictState
  <2>2. /\ state' = [state EXCEPT ![b] = [state[b] EXCEPT !.keys = @ \ ks]]
        /\ UNCHANGED <<now, over, hist, lock, ids, proc, calls>>
        /\ evictions' \in 0..MaxEvictions
    <3>1. state' = [state EXCEPT ![b].keys = @ \ ks]
          /\ UNCHANGED <<now, over, hist, lock, ids, proc>>
      BY <2>1 DEF Evict
    <3>2. state' = [state EXCEPT ![b] = [state[b] EXCEPT !.keys = @ \ ks]]
      BY <1>0, <3>1 DEF World, KeyTypes
    <3>3. evictions' \in 0..MaxEvictions /\ UNCHANGED calls
      BY <1>8, FleetAssumption DEF EvictState, Typed, BoundTypes
    <3> QED BY <3>1, <3>2, <3>3
  <2>3. ASSUME NEW a \in Buckets PROVE BucketKeys(a)'
    <3>1. state[a].keys \in SUBSET Pair /\ BucketKeys(a)
      BY <1>0 DEF World, KeyTypes, BucketKeys, States
    <3>2. \/ state'[a] = state[a]
          \/ \E s \in SUBSET Pair : state'[a] = [state[a] EXCEPT !.keys = s]
      BY <1>0, <2>2, <3>1 DEF World, KeyTypes
    <3> QED BY <1>0, <2>2, <3>1, <3>2, KeysLater
  <2>4. KeyTypes'
    BY <1>0, <2>2, <2>3 DEF World, KeyTypes
  <2>5. ProcTypes' /\ CallTypes' /\ LockTypes' /\ IdTypes' /\ now' \in 0..MaxTime
    BY <2>2, FrameTypes
  <2>6. BoundTypes'
    BY <2>2 DEF Typed, BoundTypes, calls, bounded
  <2> QED BY <2>4, <2>5, <2>6 DEF Typed
<1>9. CASE UNCHANGED allvars
  <2>1. /\ now' = now /\ state' = state /\ over' = over /\ hist' = hist
        /\ lock' = lock /\ marker' = marker /\ tombstone' = tombstone
        /\ proc' = proc /\ call' = call /\ held' = held /\ issued' = issued
        /\ left' = left /\ stalled' = stalled /\ evictions' = evictions
    BY <1>9 DEF allvars, vars, store, keys, ids, calls, bounded
  <2>2. KeyTypes'
    BY <2>1 DEF Typed, KeyTypes, BucketKeys
  <2>3. ProcTypes' /\ CallTypes' /\ LockTypes' /\ IdTypes' /\ now' \in 0..MaxTime
    BY <1>9, FrameTypes DEF allvars, vars, store
  <2> QED BY <2>1, <2>2, <2>3 DEF Typed, BoundTypes
<1> QED BY <1>2, <1>3, <1>4, <1>5, <1>6, <1>7, <1>8, <1>9 DEF Next

(* A fleet starts with its types.                                          *)
LEMMA TypedInit == FleetInit => Typed
<1> SUFFICES ASSUME FleetInit PROVE Typed
  OBVIOUS
<1>1. /\ now = 0
      /\ state = [b \in Buckets |-> NoState] /\ over = [b \in Buckets |-> NoOver]
      /\ hist = [b \in Buckets |-> NoHist] /\ lock = [b \in Buckets |-> {}]
      /\ marker = [r \in Ids |-> NoMarker]
      /\ tombstone = [r \in Ids |-> NoTombstone]
      /\ proc = [p \in Procs |-> BucketsOf(StartConfig)]
      /\ call = [c \in Callers |-> Idle] /\ held = [r \in Ids |-> Unknown]
      /\ issued = 0 /\ left \in Bounds /\ stalled = FALSE /\ evictions = 0
  BY DEF FleetInit, Init, StoreInit
<1>2. KeyTypes
  BY <1>1 DEF KeyTypes, BucketKeys, NoState, NoOver, NoHist, States, Overrides,
     Histories
<1>3. ProcTypes
  <2> DEFINE q == BucketsOf(StartConfig)
  <2>1. /\ DOMAIN StartConfig \subseteq Buckets
        /\ \A b \in DOMAIN StartConfig : StartConfig[b] \in Nat \ {0}
    BY RedisAssumption
  <2>2. IsProc(q)
    BY <1>1, <2>1 DEF BucketsOf, NewBucketOf, IsProc, BucketObject
  <2> HIDE DEF q
  <2>3. proc = [p \in Procs |-> q]
    BY <1>1 DEF q
  <2> QED BY <2>2, <2>3 DEF ProcTypes
<1>4. LockTypes /\ IdTypes
  BY <1>1 DEF LockTypes, IdTypes, NoMarker, NoTombstone, Tokens
<1>5. CallTypes
  <2>1. ASSUME NEW c \in Callers, NEW k, k = Idle PROVE RecSound(c, k)
    <3>1. Writable(P(c), NoAmount, NoReading)
      BY <1>1 DEF Writable, NoAmount, NoReading
    <3>2. 0 \in 0..MaxIds
      BY RedisAssumption
    <3> QED BY <2>1, <3>1, <3>2 DEF RecSound, Idle, PCs, Ops, Answers, Section,
               Tokens, NoAmount, NoReading
  <2>2. PICK i : i = Idle
    OBVIOUS
  <2>3. call = [c \in Callers |-> i]
    BY <1>1, <2>2
  <2>4. \A c \in Callers : RecSound(c, i)
    BY <2>1, <2>2
  <2> QED BY <2>3, <2>4 DEF CallTypes
<1>6. BoundTypes
  <2>1. held \in [Ids -> Reservation]
    BY <1>1 DEF Unknown, Reservation, Status
  <2>2. left \in [lapses : Nat, faults : Nat, crashes : Nat, replays : Nat]
    BY <1>1, CallsAssumption
  <2>3. left \in [{"lapses", "faults", "crashes", "replays"} -> Nat]
    BY <2>2
  <2>4. issued \in 0..MaxIds /\ evictions \in 0..MaxEvictions
    BY <1>1, RedisAssumption, FleetAssumption
  <2> QED BY <1>1, <2>1, <2>3, <2>4 DEF BoundTypes
<1>7. now \in 0..MaxTime
  BY <1>1, RedisAssumption
<1> QED BY <1>2, <1>3, <1>4, <1>5, <1>6, <1>7 DEF Typed

(* TypeOK, in every fleet: every key, lock, marker and call keeps its      *)
(* shape, and a lock has at most one holder, whatever lapses, gets lost,   *)
(* is sent again, crashes, expires or is evicted.                          *)
THEOREM KeysAndCallsTyped == Spec => []TypeOK
<1>1. Spec => []Typed
  BY TypedInit, TypedNext, PTL DEF Spec
<1> QED BY <1>1, TypedIsTyped, PTL

(* HistoryOutlivesState: as long as the state of a bucket is there, so is  *)
(* the history of the override that set its rate.                          *)
THEOREM HistoryIsThere == Spec => []HistoryOutlivesState
<1>1. Typed => HistoryOutlivesState
  <2> SUFFICES ASSUME Typed, NEW b \in Buckets, Complete(b), hist[b].exp # 0
               PROVE  Alive(hist[b])
    BY DEF HistoryOutlivesState
  <2>1. /\ now \in Nat /\ state[b].exp \in Nat /\ hist[b].exp \in Nat
        /\ hist[b].exp >= state[b].exp
    BY RedisAssumption DEF Typed, KeyTypes, BucketKeys, States, Histories
  <2>2. Alive(state[b])
    BY DEF Complete, Present, Pair
  <2> QED BY <2>1, <2>2 DEF Alive
<1>2. Spec => []Typed
  BY TypedInit, TypedNext, PTL DEF Spec
<1> QED BY <1>1, <1>2, PTL

-----------------------------------------------------------------------------
(* What a process may conclude from having found a bucket complete         *)

(* The state found at time t was not lost: by now it may have expired, or  *)
(* it is there, or it was evicted.                                         *)
Backed(t, b) ==
  \/ t + BucketTTL <= now
  \/ /\ state[b].keys = Pair => state[b].exp >= t + BucketTTL
     /\ evictions = 0 => state[b].keys = Pair

WrittenBack(c) ==
  At(c, "sent") /\ call[c].answer = "ok" =>
    \A b \in DOMAIN call[c].amount : Backed(call[c].rd.time, b)

Evidence ==
  /\ \A q \in Procs : \A b \in Mine(q) : \A t \in proc[q][b].confirmed : Backed(t, b)
  /\ \A c \in Callers : WrittenBack(c)
  /\ evictions = 0 => \A b \in Buckets : state[b].keys \in {{}, Pair}

(* State that moves backs what it backed.                                  *)
LEMMA BackedStays ==
  ASSUME Typed, Evidence, NEW b \in Buckets, NEW t \in 0..now, Backed(t, b),
         now' = now, evictions' = evictions, state'[b] \in States,
         state'[b] = state[b] \/ Fades(b) \/ Lasting(state[b])'
  PROVE  Backed(t, b)'
<1>1. /\ now \in Nat /\ BucketTTL \in Nat /\ state[b].exp \in Nat
      /\ state'[b].exp \in Nat
      /\ evictions = 0 => state[b].keys \in {{}, Pair}
  BY RedisAssumption DEF Typed, KeyTypes, BucketKeys, States, Evidence
<1>2. CASE state'[b] = state[b]
  BY <1>2 DEF Backed
<1>3. CASE Lasting(state[b])'
  BY <1>1, <1>3 DEF Backed, Lasting
<1>4. CASE Fades(b)
  <2>1. state'[b].keys = {} /\ {} # Pair
    BY <1>4 DEF Fades, Pair
  <2>2. evictions = 0 /\ ~ t + BucketTTL <= now =>
          state[b].keys = Pair /\ state[b].exp >= t + BucketTTL
    BY DEF Backed
  <2>3. ~ (evictions = 0 /\ ~ t + BucketTTL <= now)
    BY <1>1, <1>4, <2>1, <2>2 DEF Fades, Present, Alive
  <2> QED BY <2>1, <2>3 DEF Backed
<1> QED BY <1>2, <1>3, <1>4

(* State that was just written or refreshed backs any earlier time.        *)
LEMMA BackedNew ==
  ASSUME Typed, NEW b, NEW t \in 0..now, now' = now, Lasting(state[b])',
         evictions' = evictions, state'[b].exp \in Nat
  PROVE  Backed(t, b)'
<1>1. now \in Nat /\ BucketTTL \in Nat
  BY RedisAssumption DEF Typed
<1> QED BY <1>1 DEF Backed, Lasting

(* What a caller's step teaches the processes                              *)
LEMMA StoreKindTeaches ==
  ASSUME Typed, NEW c \in Callers, StoreKind(c)
  PROVE  /\ \A q \in Procs : \A b \in Mine(q)' :
              \/ Evident(q, b)
              \/ /\ At(c, "sent") /\ call[c].answer = "ok"
                 /\ b \in DOMAIN call[c].amount
                 /\ proc'[q][b].confirmed = {call[c].rd.time}
         /\ call'[c].pc = "sent" /\ call'[c].answer = "ok" =>
              \/ call' = call
              \/ \A b \in DOMAIN call'[c].amount : b \in Buckets /\ Lasting(state[b])'
<1>1. World /\ now' = now /\ P(c) \in Procs
  <2>1. now \in Nat
    BY RedisAssumption DEF Typed
  <2> QED BY <2>1, ProcOfCaller DEF Typed, World, StoreKind
<1>2. RecSound(c, call[c])
  BY DEF Typed, CallTypes
<1> DEFINE Taught ==
      \A q \in Procs : \A b \in Mine(q)' :
        \/ Evident(q, b)
        \/ /\ At(c, "sent") /\ call[c].answer = "ok"
           /\ b \in DOMAIN call[c].amount
           /\ proc'[q][b].confirmed = {call[c].rd.time}
<1>4. ASSUME proc' = proc PROVE Taught
  BY <1>4 DEF Evident, Mine
<1>5. ASSUME call[c].pc = "sent", call[c].answer = "ok",
             Confirm(P(c), DOMAIN call[c].amount, call[c].rd.time)
      PROVE  Taught
  <2>1. call[c].rd.time \in 0..now
    BY <1>2 DEF RecSound, Writable
  <2>2. /\ \A q \in Procs : Mine(q)' = Mine(q)
        /\ \A q \in Procs : \A b \in Mine(q) :
             \/ proc'[q][b] = proc[q][b]
             \/ /\ q = P(c) /\ b \in DOMAIN call[c].amount
                /\ proc'[q][b].confirmed = {call[c].rd.time}
    BY <1>1, <1>5, <2>1, ConfirmKeeps
  <2> QED BY <1>5, <2>2 DEF Evident, At
<1>6. ASSUME Looks(c) PROVE Taught
  <2>1. StoreMoves
    BY <1>1, <1>6, ReadKeeps DEF Looks
  <2> QED BY <2>1 DEF StoreMoves
<1>7. Taught
  BY <1>4, <1>5, <1>6 DEF StoreKind, Rests, Waits, Releases, Takes,
     Extends, Executes
<1>8. ASSUME call'[c].pc = "sent", call'[c].answer = "ok", call' # call
      PROVE  \A b \in DOMAIN call'[c].amount : b \in Buckets /\ Lasting(state[b])'
  <2>1. ~ Extends(c)
    BY <1>2, <1>8 DEF Extends, RecSound
  <2>2. Executes(c)
    BY <1>8, <2>1 DEF StoreKind, Rests, Waits, Releases, Takes, Looks, Writing
  <2>3. /\ WriteState(P(c), call[c].amount, call[c].rd) /\ proc' = proc
        /\ call'[c].amount = call[c].amount
    BY <1>8, <2>2 DEF Executes
  <2>4. Writable(P(c), call[c].amount, call[c].rd)
    BY <1>2 DEF RecSound
  <2>5. \A b \in DOMAIN call[c].amount : Lasting(state[b])'
    BY <1>1, <2>3, <2>4, WriteKeeps
  <2>6. DOMAIN call[c].amount \subseteq Buckets
    BY <1>1, <2>4 DEF Writable, World, ProcTypes, IsProc, Mine
  <2> QED BY <2>3, <2>5, <2>6
<1> QED BY <1>7, <1>8

(* Every step keeps the evidence.                                          *)
LEMMA EvidenceNext == Typed /\ Evidence /\ [Next]_allvars => Evidence'
<1> SUFFICES ASSUME Typed, Evidence, [Next]_allvars PROVE Evidence'
  OBVIOUS
<1>0. /\ now \in Nat /\ World /\ call = [c \in Callers |-> call[c]]
      /\ \A c \in Callers : RecSound(c, call[c])
      /\ Typed' /\ now' \in Nat /\ BucketTTL \in Nat
  BY TypedNext, RedisAssumption DEF Typed, World, CallTypes
<1>a. \A b \in Buckets : state[b] \in States /\ state'[b] \in States
  BY <1>0 DEF Typed, KeyTypes, BucketKeys
<1>b. /\ \A q \in Procs : \A b \in Mine(q) :
           b \in Buckets /\ proc[q][b].confirmed \subseteq 0..now
      /\ \A c \in Callers : /\ DOMAIN call[c].amount \subseteq Buckets
                            /\ call[c].rd.time \in 0..now
  <2>1. \A q \in Procs : \A b \in Mine(q) :
          b \in Buckets /\ proc[q][b].confirmed \subseteq 0..now
    BY DEF Typed, ProcTypes, IsProc, Mine
  <2>2. ASSUME NEW c \in Callers
        PROVE  /\ DOMAIN call[c].amount \subseteq Buckets
               /\ call[c].rd.time \in 0..now
    BY <1>0, <2>1, ProcOfCaller DEF RecSound, Writable
  <2> QED BY <2>1, <2>2
(* A step in which the state moves *)
<1>1. ASSUME now' = now, evictions' = evictions,
             \A b \in Buckets :
               state'[b] = state[b] \/ Fades(b) \/ Lasting(state[b])',
             NEW b \in Buckets, NEW t \in 0..now
      PROVE  /\ Backed(t, b) => Backed(t, b)'
             /\ Lasting(state[b])' => Backed(t, b)'
             /\ evictions' = 0 => state'[b].keys \in {{}, Pair}
  <2>1. Backed(t, b) => Backed(t, b)'
    BY <1>1, <1>a, BackedStays
  <2>2. Lasting(state[b])' => Backed(t, b)'
    BY <1>a, <1>1, BackedNew DEF States
  <2>3. evictions' = 0 => state'[b].keys \in {{}, Pair}
    BY <1>1 DEF Evidence, Fades, Lasting
  <2> QED BY <2>1, <2>2, <2>3
<1>2. ASSUME NEW c \in Callers, Kind(c) PROVE Evidence'
  <2>1. PICK r \in Ids : StoreKind(c) /\ CallKind(c, r)
    BY <1>2 DEF Kind
  <2>2. /\ now' = now /\ evictions' = evictions
        /\ \A q \in Procs : Mine(q)' = Mine(q)
        /\ \A b \in Buckets : state'[b] = state[b] \/ Fades(b) \/ Lasting(state[b])'
    BY <2>1, StoreKindKeeps DEF StoreKind
  <2>3. \A q \in Procs : \A b \in Mine(q)' :
          \/ Evident(q, b)
          \/ /\ At(c, "sent") /\ call[c].answer = "ok"
             /\ b \in DOMAIN call[c].amount
             /\ proc'[q][b].confirmed = {call[c].rd.time}
    BY <2>1, StoreKindTeaches
  <2>4. call'[c].pc = "sent" /\ call'[c].answer = "ok" =>
          \/ call' = call
          \/ \A b \in DOMAIN call'[c].amount : b \in Buckets /\ Lasting(state[b])'
    BY <2>1, StoreKindTeaches
  <2>5. \A d \in Callers \ {c} : call'[d] = call[d]
    <3>1. call' = call \/ \E k : Gets(c, k)
      BY <2>1, <2>2, CallKindTypes
    <3> QED BY <1>0, <3>1 DEF Gets
  <2>6. ASSUME NEW q \in Procs, NEW b \in Mine(q)', NEW t \in proc'[q][b].confirmed
        PROVE  Backed(t, b)'
    <3>1. b \in Mine(q) /\ b \in Buckets
      BY <1>b, <2>2, <2>6
    <3>2. CASE Evident(q, b)
      <4>1. \/ t \in proc[q][b].confirmed /\ Backed(t, b)
            \/ t = now /\ Lasting(state[b])'
        BY <2>6, <3>1, <3>2 DEF Evident, Evidence
      <4>2. t \in 0..now
        BY <1>0, <1>b, <3>1, <4>1
      <4> QED BY <1>1, <2>2, <3>1, <4>1, <4>2
    <3>3. CASE /\ At(c, "sent") /\ call[c].answer = "ok"
               /\ b \in DOMAIN call[c].amount
               /\ proc'[q][b].confirmed = {call[c].rd.time}
      <4>1. t = call[c].rd.time /\ Backed(t, b) /\ t \in 0..now
        BY <1>b, <2>6, <3>3 DEF Evidence, WrittenBack
      <4> QED BY <1>1, <2>2, <3>1, <4>1
    <3> QED BY <2>3, <2>6, <3>2, <3>3
  <2>7. ASSUME NEW d \in Callers, call'[d].pc = "sent", call'[d].answer = "ok",
               NEW b \in DOMAIN call'[d].amount, NEW t, t = call'[d].rd.time
        PROVE  Backed(t, b)'
    <3>2. CASE call'[d] = call[d]
      <4>1. b \in Buckets /\ t \in 0..now /\ Backed(t, b)
        BY <1>b, <2>7, <3>2 DEF Evidence, WrittenBack, At
      <4> QED BY <1>1, <2>2, <4>1
    <3>3. CASE call'[d] # call[d]
      <4>1. d = c /\ b \in Buckets /\ Lasting(state[b])'
        BY <2>4, <2>5, <2>7, <3>3
      <4>2. t \in 0..now
        <5>1. RecSound(d, call[d])'
          BY <1>0 DEF Typed, CallTypes
        <5> QED BY <2>2, <2>7, <5>1 DEF RecSound, Writable
      <4> QED BY <1>1, <2>2, <4>1, <4>2
    <3> QED BY <3>2, <3>3
  <2>8. evictions' = 0 => \A b \in Buckets : state'[b].keys \in {{}, Pair}
    <3>1. 0 \in 0..now
      BY <1>0
    <3> QED BY <1>1, <2>2, <3>1
  <2>9. ASSUME NEW d \in Callers PROVE WrittenBack(d)'
    BY <2>7 DEF WrittenBack, At, Backed
  <2> QED BY <2>6, <2>8, <2>9 DEF Evidence
<1>3. ASSUME UNCHANGED <<now, keys, proc, call, evictions>> PROVE Evidence'
  <2>1. now' = now /\ state' = state /\ proc' = proc /\ call' = call
        /\ evictions' = evictions
    BY <1>3 DEF keys
  <2> QED BY <2>1 DEF Evidence, WrittenBack, At, Backed, Mine
<1>4. CASE \E c \in Callers, bs \in SUBSET Buckets :
             LockLapses(c, bs) /\ UNCHANGED evictions
  BY <1>3, <1>4 DEF LockLapses
<1>5. CASE \E p \in Procs : OverrideLimit(p) \/ ConfigureLimit(p) \/ ReplaceConfig(p)
  <2>1. PICK p \in Procs : Commands(p)
    BY <1>5, CommandKind
  <2>2. /\ now' = now /\ evictions' = evictions /\ call' = call
        /\ \A b \in Buckets : state'[b] = state[b] \/ Fades(b) \/ Lasting(state[b])'
        /\ \A q \in Procs : \A b \in Mine(q)' : Evident(q, b)
    BY <2>1 DEF Commands, StoreMoves, calls
  <2>3. ASSUME NEW q \in Procs, NEW b \in Mine(q)', NEW t \in proc'[q][b].confirmed
        PROVE  Backed(t, b)'
    <3>1. b \in Buckets
      <4>1. ProcTypes'
        BY <1>0 DEF Typed
      <4> QED BY <2>3, <4>1 DEF ProcTypes, IsProc, Mine
    <3>2. \/ b \in Mine(q) /\ t \in proc[q][b].confirmed /\ Backed(t, b)
          \/ t = now /\ Lasting(state[b])'
      BY <2>2, <2>3 DEF Evident, Evidence
    <3>3. t \in 0..now
      BY <1>0, <1>b, <3>2
    <3> QED BY <1>1, <2>2, <3>1, <3>2, <3>3
  <2>4. ASSUME NEW d \in Callers PROVE WrittenBack(d)'
    <3>1. ASSUME At(d, "sent"), call[d].answer = "ok",
                 NEW b \in DOMAIN call[d].amount, NEW t, t = call[d].rd.time
          PROVE  Backed(t, b)'
      <4>1. b \in Buckets /\ t \in 0..now /\ Backed(t, b)
        BY <1>b, <3>1 DEF Evidence, WrittenBack
      <4> QED BY <1>1, <2>2, <4>1
    <3> QED BY <2>2, <3>1 DEF WrittenBack, At, Backed
  <2>5. evictions' = 0 => \A b \in Buckets : state'[b].keys \in {{}, Pair}
    <3>1. 0 \in 0..now
      BY <1>0
    <3> QED BY <1>1, <2>2, <3>1
  <2> QED BY <2>3, <2>4, <2>5 DEF Evidence
<1>6. CASE \E p \in Procs : Crash(p) /\ UNCHANGED evictions
  <2>1. PICK p \in Procs : Crash(p) /\ UNCHANGED evictions
    BY <1>6
  <2>2. /\ \A o \in Procs : Mine(o)' = Mine(o)
        /\ \A o \in Procs : \A b \in Mine(o) :
             proc'[o][b].confirmed \subseteq proc[o][b].confirmed
    BY <1>0, <2>1, CrashKeeps
  <2>3. now' = now /\ state' = state /\ evictions' = evictions
    BY <2>1 DEF Crash, keys
  <2>4. ASSUME NEW c \in Callers PROVE WrittenBack(c)'
    <3>1. call'[c] = call[c] \/ call'[c].pc = "idle"
      BY <2>1 DEF Crash, Idle
    <3> QED BY <2>3, <3>1 DEF Evidence, WrittenBack, At, Backed
  <2> QED BY <2>2, <2>3, <2>4 DEF Evidence, Backed
<1>7. CASE Tick /\ UNCHANGED <<calls, evictions>>
  <2>1. /\ now <= now' /\ state' = state /\ proc' = proc /\ call' = call
        /\ evictions' = evictions
    BY <1>0, <1>7 DEF Tick, keys, calls
  <2>2. ASSUME NEW b, NEW t \in 0..now, Backed(t, b) PROVE Backed(t, b)'
    BY <1>0, <2>1, <2>2 DEF Backed
  <2>3. ASSUME NEW q \in Procs, NEW b \in Mine(q)', NEW t \in proc'[q][b].confirmed
        PROVE  Backed(t, b)'
    <3>1. b \in Mine(q) /\ t \in proc[q][b].confirmed
      BY <2>1, <2>3 DEF Mine
    <3>2. t \in 0..now /\ Backed(t, b)
      BY <1>b, <3>1 DEF Evidence
    <3> QED BY <2>2, <3>2
  <2>4. ASSUME NEW c \in Callers PROVE WrittenBack(c)'
    <3>1. ASSUME At(c, "sent"), call[c].answer = "ok",
                 NEW b \in DOMAIN call[c].amount, NEW t, t = call[c].rd.time
          PROVE  Backed(t, b)'
      <4>1. t \in 0..now /\ Backed(t, b)
        BY <1>b, <3>1 DEF Evidence, WrittenBack
      <4> QED BY <2>2, <4>1
    <3> QED BY <2>1, <3>1 DEF WrittenBack, At, Backed
  <2> QED BY <2>1, <2>3, <2>4 DEF Evidence
<1>8. CASE EvictState
  <2>1. PICK b \in Buckets, ks \in SUBSET Pair : Evict(b, ks)
    BY <1>8 DEF EvictState
  <2>2. /\ \A a \in Buckets \ {b} : state'[a] = state[a]
        /\ state'[b].keys # Pair
        /\ now' = now /\ proc' = proc /\ call' = call /\ evictions' # 0
    <3>1. now' = now /\ proc' = proc /\ call' = call
      BY <1>8, <2>1 DEF Evict, EvictState, calls
    <3>2. evictions' # 0
      BY <1>8 DEF EvictState, Typed, BoundTypes
    <3>3. state = [a \in Buckets |-> state[a]] /\ ks # {} /\ ks \subseteq Pair
      BY <1>0, <2>1 DEF World, KeyTypes, Evict
    <3>4. state' = [state EXCEPT ![b].keys = @ \ ks]
      BY <2>1 DEF Evict
    <3>5. \A a \in Buckets \ {b} : state'[a] = state[a]
      BY <3>3, <3>4
    <3>6. state'[b].keys = state[b].keys \ ks
      BY <1>a, <3>3, <3>4 DEF States
    <3> QED BY <3>1, <3>2, <3>3, <3>5, <3>6
  <2>3. ASSUME NEW a, a \in Buckets, NEW t, Backed(t, a) PROVE Backed(t, a)'
    BY <2>2, <2>3 DEF Backed
  <2>4. ASSUME NEW q \in Procs, NEW a \in Mine(q)', NEW t \in proc'[q][a].confirmed
        PROVE  Backed(t, a)'
    <3>1. a \in Mine(q) /\ t \in proc[q][a].confirmed
      BY <2>2, <2>4 DEF Mine
    <3>2. a \in Buckets /\ Backed(t, a)
      BY <1>b, <3>1 DEF Evidence
    <3> QED BY <2>3, <3>2
  <2>5. ASSUME NEW c \in Callers PROVE WrittenBack(c)'
    <3>1. ASSUME At(c, "sent"), call[c].answer = "ok",
                 NEW a \in DOMAIN call[c].amount, NEW t, t = call[c].rd.time
          PROVE  Backed(t, a)'
      <4>1. a \in Buckets /\ Backed(t, a)
        BY <1>b, <3>1 DEF Evidence, WrittenBack
      <4> QED BY <2>3, <4>1
    <3> QED BY <2>2, <3>1 DEF WrittenBack, At, Backed
  <2> QED BY <2>2, <2>4, <2>5 DEF Evidence
<1>9. CASE \E t \in Tasks : TaskStep(t) /\ UNCHANGED evictions
  BY <1>2, <1>9, TaskKind, TasksAssumption
<1>10. CASE \E s \in Threads : ThreadStep(s) /\ UNCHANGED evictions
  BY <1>2, <1>10, ThreadKind, ThreadsAssumption
<1>11. CASE UNCHANGED allvars
  BY <1>3, <1>11 DEF allvars, vars, store, calls
<1> QED BY <1>4, <1>5, <1>6, <1>7, <1>8, <1>9, <1>10, <1>11 DEF Next

(* A fleet starts without evidence.                                        *)
LEMMA EvidenceInit == FleetInit => Evidence
<1> SUFFICES ASSUME FleetInit PROVE Evidence
  OBVIOUS
<1>1. /\ state = [b \in Buckets |-> NoState]
      /\ proc = [p \in Procs |-> BucketsOf(StartConfig)]
      /\ call = [c \in Callers |-> Idle]
  BY DEF FleetInit, Init, StoreInit
<1>2. \A q \in Procs : \A b \in Mine(q) : proc[q][b].confirmed = {}
  BY <1>1 DEF Mine, BucketsOf, NewBucketOf
<1>3. \A c \in Callers : ~ At(c, "sent")
  BY <1>1 DEF At, Idle
<1>4. \A b \in Buckets : state[b].keys = {}
  BY <1>1 DEF NoState
<1> QED BY <1>2, <1>3, <1>4 DEF Evidence, WrittenBack

(* ExpiryIsNotLoss: whatever a process has found or written outlives the   *)
(* time for which it would take the loss of it for an accident, so a pair  *)
(* that expired never makes it assume an empty bucket.                     *)
THEOREM ExpiryIsNoLoss == Spec => []ExpiryIsNotLoss
<1>1. Typed /\ Evidence => ExpiryIsNotLoss
  <2> SUFFICES ASSUME Typed, Evidence, NEW p \in Procs, NEW b \in Mine(p),
                      state[b].keys = Pair, ~ Alive(state[b]),
                      Suspected(proc[p][b], b)
               PROVE  FALSE
    BY DEF ExpiryIsNotLoss
  <2>1. PICK t \in proc[p][b].confirmed : (now - t) * 10 < BucketTTL * 9
    BY DEF Suspected
  <2>2. Backed(t, b)
    BY <2>1 DEF Evidence
  <2>3. /\ now \in Nat /\ BucketTTL \in Nat /\ BucketTTL > 0
        /\ state[b].exp \in Nat /\ t \in 0..now
    BY <2>1, RedisAssumption, Lifetimes DEF Typed, KeyTypes, BucketKeys, States,
       ProcTypes, IsProc, Mine
  <2>4. t + BucketTTL <= now
    BY <2>2, <2>3 DEF Backed, Alive
  <2> QED BY <2>1, <2>3, <2>4
<1>2. Typed /\ Evidence /\ [Next]_allvars => (Typed /\ Evidence)'
  BY TypedNext, EvidenceNext
<1> QED BY <1>1, <1>2, TypedInit, EvidenceInit, PTL DEF Spec

-----------------------------------------------------------------------------
(* Markers and tombstones implement the abstract ledger. *)

(* What a step does to ids and calls: a caller makes a step of a kind,     *)
(* nothing happens to them, a process dies, or time passes.                *)
Called == now' = now /\ \E c \in Callers, r \in Ids : CallKind(c, r)
Quiet == UNCHANGED <<now, ids, call, held, issued>>
Dies == \E p \in Procs : Crash(p)
Passes == now' = now + 1 /\ UNCHANGED <<ids, calls>>

(* Every step of the fleet is one of these.                                *)
LEMMA StepKinds ==
  ASSUME Typed, [Next]_allvars
  PROVE  Called \/ Quiet \/ Dies \/ Passes
<1>1. ASSUME NEW c \in Callers, Kind(c) PROVE Called
  BY <1>1 DEF Kind, StoreKind, Called
<1>2. CASE \E t \in Tasks : TaskStep(t) /\ UNCHANGED evictions
  BY <1>1, <1>2, TaskKind, TasksAssumption
<1>3. CASE \E s \in Threads : ThreadStep(s) /\ UNCHANGED evictions
  BY <1>1, <1>3, ThreadKind, ThreadsAssumption
<1>4. CASE \E c \in Callers, bs \in SUBSET Buckets :
             LockLapses(c, bs) /\ UNCHANGED evictions
  BY <1>4 DEF LockLapses, Quiet
<1>5. CASE \E p \in Procs : OverrideLimit(p) \/ ConfigureLimit(p) \/ ReplaceConfig(p)
  BY <1>5, CommandKind DEF Commands, Quiet, calls, bounded
<1>6. CASE \E p \in Procs : Crash(p) /\ UNCHANGED evictions
  BY <1>6 DEF Dies
<1>7. CASE Tick /\ UNCHANGED <<calls, evictions>>
  BY <1>7 DEF Tick, Passes
<1>8. CASE EvictState
  BY <1>8 DEF EvictState, Evict, Quiet, calls, bounded
<1>9. CASE UNCHANGED allvars
  BY <1>9 DEF allvars, vars, store, calls, bounded, Quiet
<1> QED BY <1>2, <1>3, <1>4, <1>5, <1>6, <1>7, <1>8, <1>9 DEF Next

(* A charge is either open or settled. *)
Exclusive == \A r \in Ids : ~ (LiveMarker(r) /\ Tombstoned(r))

(* The ledger the keys stand for *)
Book == [r \in Ids |-> LedgerStatus(r)]

(* The entry of an id before and after a step *)
LEMMA BookEntry ==
  ASSUME NEW r \in Ids
  PROVE  /\ Book[r] = IF marker[r].exp > now THEN "live"
                      ELSE IF tombstone[r].exp > now THEN "settled" ELSE "absent"
         /\ Book'[r] = IF marker'[r].exp > now' THEN "live"
                       ELSE IF tombstone'[r].exp > now' THEN "settled"
                       ELSE "absent"
BY DEF Book, LedgerStatus, LiveMarker, Tombstoned, Alive

(* Ids that nothing is done to keep their entries. *)
LEMMA SameBook ==
  ASSUME UNCHANGED <<now, ids>>
  PROVE  Book' = Book /\ (Exclusive => Exclusive')
BY DEF Book, LedgerStatus, LiveMarker, Tombstoned, Alive, Exclusive, ids

(* A step on the keys of id r leaves the other entries. *)
LEMMA MovedBook ==
  ASSUME Exclusive, NEW r \in Ids, now' = now,
         \A i \in Ids \ {r} : marker'[i] = marker[i] /\ tombstone'[i] = tombstone[i],
         NEW entry, Book'[r] = entry
  PROVE  /\ Book' = [Book EXCEPT ![r] = entry]
         /\ ~ (LiveMarker(r) /\ Tombstoned(r))' => Exclusive'
<1>1. \A i \in Ids \ {r} : Book'[i] = Book[i]
  BY BookEntry
<1>2. Book' = [Book EXCEPT ![r] = entry]
  BY <1>1 DEF Book
<1>3. \A i \in Ids \ {r} : ~ (LiveMarker(i) /\ Tombstoned(i))'
  BY DEF Exclusive, LiveMarker, Tombstoned, Alive
<1> QED BY <1>2, <1>3 DEF Exclusive

(* A step of a caller is one step of the ledger or none. *)
LEMMA CallMovesBook ==
  ASSUME Typed, Exclusive, NEW c \in Callers, NEW r \in Ids, CallKind(c, r),
         now' = now
  PROVE  (Ledger!Next \/ Book' = Book) /\ Exclusive'
<1>1. /\ now \in Nat /\ IdTypes /\ NoMarker.exp = 0
      /\ marker[r].exp \in Nat /\ tombstone[r].exp \in Nat
  BY RedisAssumption DEF Typed, IdTypes, NoMarker
<1>2. CASE UNCHANGED ids
  BY <1>2, SameBook
<1>3. ASSUME Charges(c, r), ~ UNCHANGED ids
      PROVE  (Ledger!Next \/ Book' = Book) /\ Exclusive'
  <2>1. /\ AcquireStatus(r, call[c].usage) = "ok" /\ tombstone' = tombstone
        /\ marker' = [marker EXCEPT ![r] = [usage |-> call[c].usage,
                                            exp |-> now + Lifetime]]
    BY <1>3 DEF Charges
  <2>2. ~ LiveMarker(r) /\ ~ Tombstoned(r)
    BY <2>1 DEF AcquireStatus
  <2>3. Book[r] = "absent"
    BY <2>2, BookEntry DEF LiveMarker, Tombstoned, Alive
  <2>4. marker'[r].exp > now' /\ ~ (tombstone'[r].exp > now')
    BY <1>1, <2>1, <2>2, Lifetimes DEF IdTypes, Tombstoned, Alive
  <2>5. Book'[r] = "live" /\ ~ (LiveMarker(r) /\ Tombstoned(r))'
    BY <2>4, BookEntry DEF LiveMarker, Tombstoned, Alive
  <2>6. \A i \in Ids \ {r} :
          marker'[i] = marker[i] /\ tombstone'[i] = tombstone[i]
    BY <1>1, <2>1 DEF IdTypes
  <2>7. Book' = [Book EXCEPT ![r] = "live"] /\ Exclusive'
    BY <2>5, <2>6, MovedBook
  <2>8. Ledger!Issue(r)
    BY <2>3, <2>7 DEF Ledger!Issue, Book
  <2> QED BY <2>7, <2>8 DEF Ledger!Next
<1>4. ASSUME Settles(c, r), ~ UNCHANGED ids
      PROVE  (Ledger!Next \/ Book' = Book) /\ Exclusive'
  <2>1. /\ RefundStatus(r, call[c].usage, call[c].token) = "ok"
        /\ marker' = [marker EXCEPT ![r] = NoMarker]
        /\ \E k : k \in [token : Tokens, exp : {now + DedupTTL}]
                  /\ tombstone' = [tombstone EXCEPT ![r] = k]
    BY <1>4 DEF Settles
  <2>2. LiveMarker(r)
    BY <2>1 DEF RefundStatus
  <2>3. Book[r] = "live"
    BY <2>2, BookEntry DEF LiveMarker, Alive
  <2>4. ~ (marker'[r].exp > now') /\ tombstone'[r].exp > now'
    BY <1>1, <2>1, Lifetimes DEF IdTypes
  <2>5. Book'[r] = "settled" /\ ~ (LiveMarker(r) /\ Tombstoned(r))'
    BY <2>4, BookEntry DEF LiveMarker, Tombstoned, Alive
  <2>6. \A i \in Ids \ {r} :
          marker'[i] = marker[i] /\ tombstone'[i] = tombstone[i]
    BY <1>1, <2>1 DEF IdTypes
  <2>7. Book' = [Book EXCEPT ![r] = "settled"] /\ Exclusive'
    BY <2>5, <2>6, MovedBook
  <2>8. Book' = [i \in Ids |-> IF i \in {} THEN "absent"
                               ELSE IF i = r THEN "settled" ELSE Book[i]]
    BY <2>7 DEF Book
  <2>9. Ledger!Settle(r, {})
    BY <2>3, <2>8 DEF Ledger!Settle, Book
  <2> QED BY <2>7, <2>9 DEF Ledger!Next
<1>5. ASSUME Reverts(c, r)
      PROVE  (Ledger!Next \/ Book' = Book) /\ Exclusive'
  <2>1. tombstone' = tombstone /\ marker' = [marker EXCEPT ![r] = NoMarker]
    BY <1>5 DEF Reverts
  <2>2. ~ (marker'[r].exp > now')
    BY <1>1, <2>1 DEF IdTypes
  <2>3. \A i \in Ids \ {r} :
          marker'[i] = marker[i] /\ tombstone'[i] = tombstone[i]
    BY <1>1, <2>1 DEF IdTypes
  <2>4. ~ (LiveMarker(r) /\ Tombstoned(r))'
    BY <2>2 DEF LiveMarker, Alive
  <2>5. CASE LiveMarker(r)
    <3>1. ~ (tombstone'[r].exp > now')
      BY <2>1, <2>5 DEF Exclusive, Tombstoned, Alive
    <3>2. Book[r] = "live" /\ Book'[r] = "absent"
      BY <2>2, <2>5, <3>1, BookEntry DEF LiveMarker, Alive
    <3>3. Book' = [Book EXCEPT ![r] = "absent"] /\ Exclusive'
      BY <2>3, <2>4, <3>2, MovedBook
    <3>4. Ledger!Undo(r)
      BY <3>2, <3>3 DEF Ledger!Undo, Book
    <3> QED BY <3>3, <3>4 DEF Ledger!Next
  <2>6. CASE ~ LiveMarker(r)
    <3>1. Book'[r] = Book[r]
      BY <2>1, <2>2, <2>6, BookEntry DEF LiveMarker, Alive
    <3>2. Book' = [Book EXCEPT ![r] = Book[r]] /\ Exclusive'
      BY <2>3, <2>4, <3>1, MovedBook
    <3> QED BY <3>2 DEF Book
  <2> QED BY <2>5, <2>6
<1>6. UNCHANGED ids \/ Charges(c, r) \/ Settles(c, r) \/ Reverts(c, r)
  BY DEF CallKind, Starts, Asks, Moves, Drops, Loses, Obtains, Delivers, Turns,
         Fails, Closes, Reports, Drains
<1> QED BY <1>2, <1>3, <1>4, <1>5, <1>6

(* Ids whose entry is gone *)
LEMMA ForgottenBook ==
  ASSUME \A r \in Ids : Book'[r] = Book[r] \/ Book'[r] = "absent"
  PROVE  Ledger!Next
<1> DEFINE old == {r \in Ids : Book[r] # "absent" /\ Book'[r] = "absent"}
<1>1. old \in SUBSET Ids /\ \A r \in old : Book[r] # "absent"
  OBVIOUS
<1>2. \A r \in Ids : Book'[r] = IF r \in old THEN "absent" ELSE Book[r]
  OBVIOUS
<1> HIDE DEF old
<1>3. Book' = [r \in Ids |-> IF r \in old THEN "absent" ELSE Book[r]]
  BY <1>2 DEF Book
<1>4. Ledger!Forget(old)
  BY <1>1, <1>3 DEF Ledger!Forget, Book
<1> QED BY <1>1, <1>4 DEF Ledger!Next

(* Every step of the fleet is one step of the ledger or none. *)
LEMMA LedgerStep ==
  ASSUME Typed, Exclusive, [Next]_allvars
  PROVE  (Ledger!Next \/ Book' = Book) /\ Exclusive'
<1>1. CASE Called
  BY <1>1, CallMovesBook DEF Called
<1>2. CASE Quiet
  BY <1>2, SameBook DEF Quiet
<1>3. CASE Dies
  BY <1>3, SameBook DEF Dies, Crash
<1>4. CASE Passes
  <2>1. /\ now' = now + 1 /\ now \in Nat
        /\ marker' = marker /\ tombstone' = tombstone
    BY <1>4, RedisAssumption DEF Passes, ids, Typed
  <2>2. ASSUME NEW r \in Ids
        PROVE  /\ marker[r].exp > now' => marker[r].exp > now
               /\ tombstone[r].exp > now' => tombstone[r].exp > now
    <3>1. marker[r].exp \in Nat /\ tombstone[r].exp \in Nat
      BY DEF Typed, IdTypes
    <3> QED BY <2>1, <3>1
  <2>3. Exclusive'
    BY <2>1, <2>2 DEF Exclusive, LiveMarker, Tombstoned, Alive
  <2>4. \A r \in Ids : ~ (marker[r].exp > now /\ tombstone[r].exp > now)
    BY DEF Exclusive, LiveMarker, Tombstoned, Alive
  <2>5. \A r \in Ids : Book'[r] = Book[r] \/ Book'[r] = "absent"
    BY <2>1, <2>2, <2>4, BookEntry
  <2> QED BY <2>3, <2>5, ForgottenBook
<1> QED BY <1>1, <1>2, <1>3, <1>4, StepKinds

(* Markers and tombstones of all processes together take only the steps of *)
(* the abstract ledger: one charge for an id, one settlement of it, no     *)
(* charge after it, whatever locks lapse and whatever is sent again.       *)
THEOREM RedisImplementsLedger == Spec => ImplementsLedger
<1>1. FleetInit => Ledger!Init /\ Exclusive
  <2> SUFFICES ASSUME FleetInit PROVE Ledger!Init /\ Exclusive
    OBVIOUS
  <2>1. \A r \in Ids : marker[r].exp = 0 /\ now = 0
    BY DEF FleetInit, Init, StoreInit, NoMarker
  <2>2. \A r \in Ids : tombstone[r].exp = 0
    BY DEF FleetInit, Init, StoreInit, NoTombstone
  <2>3. \A r \in Ids : ~ LiveMarker(r) /\ ~ Tombstoned(r)
    BY <2>1, <2>2 DEF LiveMarker, Tombstoned, Alive
  <2> QED BY <2>3 DEF Ledger!Init, LedgerStatus, Exclusive
<1>2. Typed /\ Exclusive /\ [Next]_allvars => (Typed /\ Exclusive)'
  BY TypedNext, LedgerStep
<1>3. Typed /\ Exclusive /\ [Next]_allvars
        => [Ledger!Next]_([r \in Ids |-> LedgerStatus(r)])
  BY LedgerStep DEF Book
<1> QED BY <1>1, <1>2, <1>3, TypedInit, PTL
        DEF Spec, ImplementsLedger, Ledger!Spec

-----------------------------------------------------------------------------
(* Charges that no client knows of *)

(* A charge that is not known of is cared for: its acquire or recording    *)
(* has the answer of its script or will look for it, or it is being undone. *)
Cares(c, r) ==
  /\ call[c].id = r /\ held[r].owner = {P(c)}
  /\ \/ call[c].pc = "callbacks" \/ call[c].op = "undo"
     \/ call[c].op \in Consuming /\ call[c].pc = "check"
     \/ /\ call[c].op \in Consuming /\ call[c].pc = "sent"
        /\ call[c].usage = marker[r].usage
        /\ \/ call[c].answer = "ok"
           \/ call[c].answer = "replayed" /\ call[c].resent

Cared(r) ==
  LiveMarker(r) /\ held[r].status = "no" => \E c \in Callers : Cares(c, r)

(* What a step does not touch: the calls about id r and its reservation    *)
Frame(r) ==
  /\ held'[r] = held[r] /\ marker'[r] = marker[r] /\ issued <= issued'
  /\ \A d \in Callers : \/ call'[d] = call[d]
                        \/ call'[d].id # r /\ call[d].id # r

(* A call that runs is about id r. *)
About(c, r) == call[c].pc = "idle" \/ call[c].id = r

(* The other calls go on as they were. *)
Others(c) == \A d \in Callers \ {c} : call'[d] = call[d]

(* A step of a caller is a step about the id of its call. *)
LEMMA StepAbout ==
  ASSUME Typed, Called
  PROVE  \E c \in Callers, r \in Ids : CallKind(c, r) /\ About(c, r)
<1>1. PICK c \in Callers, r \in Ids : CallKind(c, r)
  BY DEF Called
<1>2. CASE About(c, r)
  BY <1>1, <1>2
<1>3. CASE ~ About(c, r)
  <2>1. call[c].pc # "idle" /\ call[c].id # r /\ call[c].id \in Ids
    BY <1>3 DEF About, Typed, CallTypes, RecSound
  <2>2. Moves(c) \/ Drops(c) \/ Loses(c)
    BY <1>1, <2>1 DEF CallKind, Starts, Asks, Charges, Settles, Reverts, Obtains,
       Delivers, Turns, Fails, Closes, Reports, Drains
  <2>3. CallKind(c, call[c].id) /\ About(c, call[c].id)
    BY <2>2 DEF CallKind, About
  <2> QED BY <2>1, <2>3
<1> QED BY <1>2, <1>3

(* What the calls and the constants have of their types here               *)
LEMMA CallShapes ==
  ASSUME Typed
  PROVE  /\ now \in Nat /\ issued \in Nat /\ NoMarker.exp = 0
         /\ held \in [Ids -> Reservation] /\ IdTypes
         /\ \A r \in Ids : r \in Nat /\ r # 0
         /\ Idle.id = 0 /\ Idle.pc = "idle" /\ Idle.op = "none"
         /\ \A c \in Callers :
              /\ call[c].pc = "idle" => call[c].id = 0 /\ call[c].op = "none"
              /\ call[c].pc = "callbacks" => call[c].op = "acquire"
              /\ call[c].pc = "sent" => call[c].answer # "none"
<1>1. now \in Nat /\ issued \in Nat /\ IdTypes /\ held \in [Ids -> Reservation]
  BY RedisAssumption DEF Typed, BoundTypes
<1>2. \A r \in Ids : r \in Nat /\ r # 0
  BY RedisAssumption DEF Ids
<1>3. Idle.id = 0 /\ Idle.pc = "idle" /\ Idle.op = "none" /\ NoMarker.exp = 0
  BY DEF Idle, NoMarker
<1>4. \A c \in Callers :
        /\ call[c].pc = "idle" => call[c] = Idle
        /\ call[c].pc = "callbacks" => call[c].op = "acquire"
        /\ call[c].pc = "sent" => call[c].answer # "none"
  BY DEF Typed, CallTypes, RecSound
<1> QED BY <1>1, <1>2, <1>3, <1>4

(* The call that a caller gets, and what the client learns                 *)
LEMMA GetsOne ==
  ASSUME Typed, NEW c \in Callers, NEW k, Gets(c, k)
  PROVE  call'[c] = k /\ Others(c)
BY DEF Gets, Others, Typed, CallTypes

(* What a client learns is about one id.                                   *)
LEMMA KnowsOne ==
  ASSUME Typed, NEW r \in Ids, NEW h, Knows(r, h)
  PROVE  held'[r] = h /\ \A q \in Ids \ {r} : held'[q] = held[q]
BY CallShapes DEF Knows

(* A caller's step about one id leaves the others alone.                   *)
LEMMA OtherFrames ==
  ASSUME Typed, NEW c \in Callers, NEW r \in Ids, CallKind(c, r), About(c, r),
         now' = now, NEW q \in Ids \ {r}
  PROVE  Frame(q)
<1>1. held \in [Ids -> Reservation] /\ IdTypes /\ issued \in Nat /\ q # 0 /\ r \in Nat
      /\ Idle.id = 0 /\ (call[c].pc = "idle" => call[c].id = 0)
  BY CallShapes
<1>2. held'[q] = held[q]
  <2>1. held' = held \/ \E h : Knows(r, h)
    BY CallKindTypes
  <2> QED BY <2>1, KnowsOne
<1>3. marker'[q] = marker[q]
  <2>1. \/ UNCHANGED ids
        \/ \E m : marker' = [marker EXCEPT ![r] = m]
    BY DEF CallKind, Starts, Asks, Moves, Drops, Charges, Settles, Reverts, Loses,
         Obtains, Delivers, Turns, Fails, Closes, Reports, Drains
  <2> QED BY <1>1, <2>1 DEF ids, IdTypes
<1>4. issued <= issued'
  <2>1. issued' = issued \/ issued' = Greater(issued, r)
    BY DEF CallKind, Starts, Asks, Moves, Drops, Charges, Settles, Reverts, Loses,
         Obtains, Delivers, Turns, Fails, Closes, Reports, Drains, TakesId
  <2> QED BY <1>1, <2>1 DEF Greater
<1>5. call' = call \/ \E k : Gets(c, k)
  BY CallKindTypes
<1>6. call' = call \/ Others(c)
  BY <1>5, GetsOne
<1>7. call[c].id # q
  BY <1>1 DEF About
<1>8. call' = call \/ call'[c].id # q
  <2>1. call' = call \/ call'[c].id \in {0, r}
    <3>1. CASE call[c].pc = "idle"
      <4>1. call[c].op = "none"
        BY <3>1, CallShapes
      <4>2. Starts(c, r) \/ Asks(c, r)
        BY <3>1, <4>1, CallShapes
           DEF CallKind, Moves, Drops, Charges, Settles, Reverts, Loses,
               Obtains, HasCharge, Delivers, Turns, Fails, Closes, Reports, Drains,
               Before, Consuming
      <4>3. PICK k : Gets(c, k) /\ k.id = r
        BY <4>2 DEF Starts, Asks
      <4> QED BY <4>3, GetsOne
    <3>2. CASE call[c].pc # "idle"
      <4>1. call[c].id = r
        BY <3>2 DEF About
      <4>2. call' = call \/ Gets(c, Idle) \/ \E k : Gets(c, k) /\ k.id = r
        BY <3>2, <4>1
           DEF CallKind, Starts, Asks, Moves, Drops, Charges, Settles, Reverts,
               Loses, Obtains, Delivers, Turns, Fails, Closes, Reports, Drains, Same
      <4> QED BY <1>1, <4>2, GetsOne
    <3> QED BY <3>1, <3>2
  <2> QED BY <1>1, <2>1
<1> QED BY <1>2, <1>3, <1>4, <1>6, <1>7, <1>8 DEF Frame, Others

(* What is left alone is cared for as before, also when time passes.       *)
LEMMA FrameCared ==
  ASSUME NEW r, Frame(r), Cared(r), now \in Nat, now' \in Nat, now <= now',
         marker[r].exp \in Nat
  PROVE  Cared(r)'
<1>1. LiveMarker(r)' => LiveMarker(r)
  BY DEF Frame, LiveMarker, Alive
<1>2. ASSUME NEW c \in Callers, Cares(c, r) PROVE Cares(c, r)'
  <2>1. call'[c] = call[c]
    BY <1>2 DEF Frame, Cares
  <2> QED BY <1>2, <2>1 DEF Frame, Cares, P
<1> QED BY <1>1, <1>2 DEF Cared, Frame

(* A step of a caller leaves its own reservation cared for.                *)
LEMMA CallCared ==
  ASSUME Typed, NEW c \in Callers, NEW r \in Ids, CallKind(c, r), About(c, r),
         now' = now, Cared(r)
  PROVE  Cared(r)'
<1>0. /\ r # 0 /\ now \in Nat /\ IdTypes /\ NoMarker.exp = 0
      /\ call[c].pc = "idle" => call[c].id = 0 /\ call[c].op = "none"
      /\ call[c].pc = "callbacks" => call[c].op = "acquire"
  BY CallShapes
<1> SUFFICES ASSUME LiveMarker(r)', held'[r].status = "no"
             PROVE  \E d \in Callers : Cares(d, r)'
  BY DEF Cared
(* The marker stays, and nobody learns anything. *)
<1>1. ASSUME marker'[r] = marker[r], held'[r].status = held[r].status,
             held'[r].owner = held[r].owner, Others(c),
             Cares(c, r) => Cares(c, r)'
      PROVE  \E d \in Callers : Cares(d, r)'
  <2>1. LiveMarker(r)
    BY <1>1 DEF LiveMarker, Alive
  <2>2. PICK d \in Callers : Cares(d, r)
    BY <1>1, <2>1 DEF Cared
  <2>3. Cares(d, r)'
    <3>1. CASE d = c
      BY <1>1, <2>2, <3>1
    <3>2. CASE d # c
      BY <1>1, <2>2, <3>2 DEF Cares, Others, P
    <3> QED BY <3>1, <3>2
  <2> QED BY <2>3
<1>2. CASE Starts(c, r)
  <2>1. PICK k : Gets(c, k)
    BY <1>2 DEF Starts
  <2>2. ~ Cares(c, r)
    BY <1>0, <1>2 DEF Starts, Cares
  <2>3. held'[r].status = held[r].status /\ held'[r].owner = held[r].owner
    BY <1>2, CallShapes DEF Starts, TakesId, Reservation
  <2> QED BY <1>1, <1>2, <2>1, <2>2, <2>3, GetsOne DEF Starts, ids
<1>3. ASSUME Asks(c, r) PROVE FALSE
  BY <1>3, KnowsOne DEF Asks
<1>4. CASE Moves(c)
  <2>1. PICK k : Gets(c, k) /\ Same(c, k)
    BY <1>4 DEF Moves
  <2>2. Cares(c, r) => Cares(c, r)'
    BY <1>4, <2>1, GetsOne DEF Moves, Same, Cares, P
  <2> QED BY <1>1, <1>4, <2>1, <2>2, GetsOne DEF Moves, ids
<1>5. CASE Drops(c)
  <2>1. ~ Cares(c, r)
    BY <1>5 DEF Drops, Before, Cares
  <2> QED BY <1>1, <1>5, <2>1, GetsOne DEF Drops, ids
<1>6. CASE Charges(c, r)
  <2>1. PICK k : /\ Gets(c, k) /\ Same(c, k) /\ k.pc = "sent"
                 /\ k.answer = AcquireStatus(r, call[c].usage)
                 /\ k.resent <=> call[c].pc = "sent"
    BY <1>6 DEF Charges
  <2>2. call'[c] = k /\ Others(c)
    BY <2>1, GetsOne
  <2>3. CASE AcquireStatus(r, call[c].usage) = "ok"
    <3>1. /\ \E h : Knows(r, h) /\ h.owner = {P(c)}
          /\ marker'[r].usage = call[c].usage
      BY <1>0, <1>6, <2>3 DEF Charges, IdTypes
    <3>2. held'[r].owner = {P(c)}
      BY <3>1, KnowsOne
    <3>3. Cares(c, r)'
      BY <1>6, <2>1, <2>2, <2>3, <3>1, <3>2 DEF Cares, Charges, Same, P
    <3> QED BY <3>3
  <2>4. CASE AcquireStatus(r, call[c].usage) # "ok"
    <3>1. held' = held /\ marker' = marker
      BY <1>6, <2>4 DEF Charges, ids
    <3>2. LiveMarker(r)
      BY <3>1 DEF LiveMarker, Alive
    <3>3. Cares(c, r) => Cares(c, r)'
      <4>1. ASSUME Cares(c, r)
            PROVE  call[c].pc = "sent" /\ call[c].usage = marker[r].usage
        BY <1>6, <4>1 DEF Charges, Cares, Consuming
      <4>2. ASSUME Cares(c, r) PROVE Cares(c, r)'
        <5>1. k.answer = "replayed" /\ k.resent
          BY <2>1, <3>2, <4>1, <4>2 DEF AcquireStatus
        <5> QED BY <1>6, <2>1, <2>2, <3>1, <4>1, <4>2, <5>1
                DEF Cares, Same, P, Charges
      <4> QED BY <4>2
    <3> QED BY <1>1, <2>2, <3>1, <3>3
  <2> QED BY <2>3, <2>4
<1>7. CASE Settles(c, r)
  <2>1. PICK k : Gets(c, k) /\ Same(c, k) /\ k.pc = "sent"
    BY <1>7 DEF Settles
  <2>2. call'[c] = k /\ Others(c)
    BY <2>1, GetsOne
  <2>3. marker' # [marker EXCEPT ![r] = NoMarker]
    BY <1>0 DEF LiveMarker, Alive, IdTypes
  <2>4. held' = held /\ marker' = marker
    BY <1>7, <2>3 DEF Settles, ids
  <2>5. Cares(c, r) => Cares(c, r)'
    BY <1>7, <2>1, <2>2, <2>4 DEF Settles, Same, Cares, P, Consuming
  <2> QED BY <1>1, <2>2, <2>4, <2>5
<1>8. ASSUME Reverts(c, r) PROVE FALSE
  BY <1>0, <1>8 DEF Reverts, LiveMarker, Alive, IdTypes
<1>9. CASE Loses(c)
  <2>1. PICK k : Gets(c, k) /\ Same(c, k) /\ k.pc = "check"
    BY <1>9 DEF Loses
  <2>2. Cares(c, r) => Cares(c, r)'
    BY <1>9, <2>1, GetsOne DEF Loses, Same, Cares, P
  <2> QED BY <1>1, <1>9, <2>1, <2>2, GetsOne DEF Loses, ids
<1>10. CASE Obtains(c, r)
  <2>1. PICK k : Gets(c, k) /\ Same(c, k) /\ k.pc = "callbacks"
    BY <1>10 DEF Obtains
  <2>2. Cares(c, r) => Cares(c, r)'
    BY <1>10, <2>1, GetsOne DEF Obtains, Same, Cares, P
  <2> QED BY <1>1, <1>10, <2>1, <2>2, GetsOne DEF Obtains, ids
<1>11. ASSUME Delivers(c, r) PROVE FALSE
  BY <1>11, KnowsOne DEF Delivers
<1>12. CASE Turns(c, r)
  <2>1. PICK k : Gets(c, k) /\ k.op = "undo" /\ k.id = r
    BY <1>12 DEF Turns
  <2>2. held'[r].status = held[r].status /\ held'[r].owner = held[r].owner
    BY <1>12, KnowsOne DEF Turns, SameCounts
  <2>3. Cares(c, r) => Cares(c, r)'
    BY <2>1, <2>2, GetsOne DEF Cares, P
  <2> QED BY <1>1, <1>12, <2>1, <2>2, <2>3, GetsOne DEF Turns, ids
<1>13. ASSUME Fails(c, r) PROVE FALSE
  BY <1>13, KnowsOne DEF Fails
<1>14. CASE Closes(c, r)
  <2>1. held' = held
    BY <1>14, KnowsOne DEF Closes
  <2>2. ~ Cares(c, r)
    BY <1>14 DEF Closes, Cares, Consuming
  <2> QED BY <1>1, <1>14, <2>1, <2>2, GetsOne DEF Closes, ids
<1>15. CASE Reports(c, r)
  <2>1. held' = held
    BY <1>15, KnowsOne DEF Reports
  <2>2. LiveMarker(r) /\ held[r].status = "no"
    BY <1>15, <2>1 DEF Reports, LiveMarker, Alive, ids
  <2>3. \/ call[c].pc = "sent" /\ call[c].answer \notin {"ok", "replayed"}
        \/ call[c].pc = "sent" /\ call[c].answer = "replayed" /\ ~ call[c].resent
        \/ \E h : Knows(r, h) /\ h.status # "no"
    BY <1>15, <2>2 DEF Reports
  <2>4. ~ Cares(c, r)
    BY <1>15, <2>3, KnowsOne DEF Reports, Cares, Consuming
  <2> QED BY <1>1, <1>15, <2>1, <2>4, GetsOne DEF Reports, ids
<1>16. ASSUME Drains(c, r) PROVE FALSE
  BY <1>16, KnowsOne DEF Drains
<1> QED BY <1>2, <1>3, <1>4, <1>5, <1>6, <1>7, <1>8, <1>9, <1>10, <1>11, <1>12,
           <1>13, <1>14, <1>15, <1>16 DEF CallKind

(* A crash ends the calls and the reservations of its process.             *)
LEMMA CrashCared ==
  ASSUME Typed, NEW p \in Procs, Crash(p), NEW r \in Ids, Cared(r)
  PROVE  Cared(r)'
<1>1. /\ call' = [c \in Callers |-> IF P(c) = p /\ ~ At(c, "idle") THEN Idle
                                    ELSE call[c]]
      /\ held' = [q \in Ids |-> IF held[q].owner = {p}
                                  THEN [held[q] EXCEPT !.status = "crashed"]
                                  ELSE held[q]]
      /\ now' = now /\ marker' = marker
  BY DEF Crash, ids
<1>2. held[r] \in Reservation
  BY CallShapes
<1>3. SUFFICES ASSUME LiveMarker(r)', held'[r].status = "no"
               PROVE  \E d \in Callers : Cares(d, r)'
  BY DEF Cared
<1>4. held[r].owner # {p} /\ held'[r] = held[r]
  BY <1>1, <1>2, <1>3 DEF Reservation
<1>5. PICK d \in Callers : Cares(d, r)
  BY <1>1, <1>3, <1>4 DEF Cared, LiveMarker, Alive
<1>6. P(d) # p
  BY <1>4, <1>5 DEF Cares
<1>7. Cares(d, r)'
  BY <1>1, <1>4, <1>5, <1>6 DEF Cares, P
<1> QED BY <1>7

(* Every step of the fleet keeps each charge cared for.                    *)
LEMMA CaredNext ==
  Typed /\ (\A r \in Ids : Cared(r)) /\ [Next]_allvars => (\A r \in Ids : Cared(r))'
<1> SUFFICES ASSUME Typed, \A r \in Ids : Cared(r), [Next]_allvars, NEW r \in Ids
             PROVE  Cared(r)'
  OBVIOUS
<1>1. now \in Nat /\ marker[r].exp \in Nat
  BY CallShapes DEF IdTypes
<1>2. CASE Called
  <2>1. PICK c \in Callers, q \in Ids : CallKind(c, q) /\ About(c, q)
    BY <1>2, StepAbout
  <2>2. now' = now
    BY <1>2 DEF Called
  <2>3. CASE q = r
    BY <2>1, <2>2, <2>3, CallCared
  <2>4. CASE q # r
    BY <1>1, <2>1, <2>2, <2>4, OtherFrames, FrameCared
  <2> QED BY <2>3, <2>4
<1>3. CASE Quiet
  <2>1. Frame(r) /\ now' = now
    BY <1>3, CallShapes DEF Quiet, Frame, ids
  <2> QED BY <1>1, <2>1, FrameCared
<1>4. CASE Dies
  BY <1>4, CrashCared DEF Dies
<1>5. CASE Passes
  <2>1. Frame(r) /\ now' = now + 1
    BY <1>5, CallShapes DEF Passes, Frame, ids, calls, bounded
  <2> QED BY <1>1, <2>1, FrameCared
<1> QED BY <1>2, <1>3, <1>4, <1>5, StepKinds

(* NoOrphanCharge, for ids that are used more than once as well: a live    *)
(* charge that its client knows nothing of has a call that will deliver,   *)
(* undo or report it.                                                      *)
THEOREM NoChargeIsOrphaned == Spec => []NoOrphanCharge
<1>1. (\A r \in Ids : Cared(r)) => NoOrphanCharge
  BY DEF Cared, Cares, NoOrphanCharge
<1>2. FleetInit => \A r \in Ids : Cared(r)
  BY DEF FleetInit, Init, StoreInit, NoMarker, Cared, LiveMarker, Alive
<1>3. Typed /\ (\A r \in Ids : Cared(r)) /\ [Next]_allvars
        => (Typed /\ \A r \in Ids : Cared(r))'
  BY TypedNext, CaredNext
<1> QED BY <1>1, <1>2, <1>3, TypedInit, PTL DEF Spec

-----------------------------------------------------------------------------
(* What becomes of a reservation whose id is used once *)

(* An acquire, a recording or the cleanup of an acquire is about id r.     *)
Acts(c, r) == call[c].id = r /\ call[c].op \in Consuming \cup {"undo"}

(* Such a call is the only one of its kind; while it runs, the client      *)
(* knows nothing of the reservation, or only that its cleanup failed.  It  *)
(* finds the marker of a charge it knows of, and an undo that the client   *)
(* cannot recover finds the charge it undoes.                              *)
Acting(c, r) ==
  /\ call[c].op \in Consuming => held[r].owner \in {{}, {P(c)}}
  /\ call[c].op = "undo" => held[r].owner = {P(c)} /\ held[r].status # "held"
  /\ call[c].op \in Consuming \/ Alone(c, r) => held[r].status = "no"
  /\ \/ call[c].pc = "callbacks"
     \/ /\ call[c].op \in Consuming /\ call[c].pc = "sent"
        /\ call[c].answer \in {"ok", "replayed"}
     => marker[r].exp # 0
  /\ call[c].op = "undo" /\ Alone(c, r) /\ call[c].pc \in Before =>
       held[r].credits < held[r].charges

(* A refund is of a reservation that its client knows.                     *)
Refunding(c, r) ==
  call[c].id = r /\ call[c].op = "refund" =>
    held[r].status # "no" /\ held[r].owner = {P(c)}

(* A refund has taken the marker, or asks whether it has.                  *)
Claims(c, r) ==
  /\ call[c].id = r /\ call[c].op = "refund"
  /\ \/ call[c].pc = "check"
     \/ call[c].pc = "sent" /\ call[c].answer \notin {"mismatch", "incoherent"}

(* Charges and credits add up, and a reservation in its client's hands has *)
(* its marker, or a refund that claims it.                                 *)
Account(r) ==
  /\ held[r].credits <= held[r].charges
  /\ marker[r].exp # 0 => held[r].credits < held[r].charges /\ held[r].owner # {}
  /\ held[r].status = "held" => marker[r].exp # 0 \/ \E c \in Callers : Claims(c, r)

Unissued(r) ==
  /\ held[r].status = "no" /\ held[r].owner = {} /\ marker[r].exp = 0
  /\ \A c \in Callers : call[c].id # r

UsedOnce(r) ==
  /\ \A c, d \in Callers : Acts(c, r) /\ Acts(d, r) => c = d
  /\ \A c \in Callers : Acts(c, r) => Acting(c, r)
  /\ \A c \in Callers : Refunding(c, r)
  /\ Account(r)
  /\ r > issued => Unissued(r)

Once(r) == ~ held[r].reused => UsedOnce(r)

(* What is left alone stays as it should be.                               *)
LEMMA FrameOnce ==
  ASSUME Typed, NEW r \in Ids, Frame(r), Once(r), issued' \in Nat
  PROVE  Once(r)'
<1>1. SUFFICES ASSUME ~ held[r].reused PROVE UsedOnce(r)'
  BY DEF Once, Frame
<1>2. UsedOnce(r)
  BY <1>1 DEF Once
<1>3. ASSUME NEW c \in Callers
      PROVE  call'[c] = call[c] \/ (call'[c].id # r /\ call[c].id # r)
  BY DEF Frame
<1>4. held'[r] = held[r] /\ marker'[r] = marker[r]
  BY DEF Frame
<1>5. ASSUME NEW c \in Callers
      PROVE  /\ Acts(c, r)' = Acts(c, r) /\ Claims(c, r)' = Claims(c, r)
             /\ Acts(c, r) /\ Acting(c, r) => Acting(c, r)'
             /\ Refunding(c, r) => Refunding(c, r)'
  BY <1>3, <1>4 DEF Acts, Claims, Acting, Refunding, Alone, P
<1>6. Account(r)'
  BY <1>2, <1>4, <1>5 DEF UsedOnce, Account
<1>7. (r > issued => Unissued(r))'
  <2>1. r > issued' => r > issued
    BY CallShapes DEF Frame
  <2> QED BY <1>2, <1>3, <1>4, <2>1 DEF UsedOnce, Unissued
<1> QED BY <1>2, <1>5, <1>6, <1>7 DEF UsedOnce

(* The call c about r gets on: what is to be shown.                        *)
LEMMA OnceFrom ==
  ASSUME NEW c \in Callers, NEW r \in Ids, UsedOnce(r), Others(c),
         call'[c].id = r => ~ (r > issued'),
         Acts(c, r)' => /\ Acting(c, r)'
                        /\ Acts(c, r) \/ \A d \in Callers : ~ Acts(d, r),
         \A d \in Callers \ {c} : Acts(d, r) => Acting(d, r)',
         \A d \in Callers : Refunding(d, r)',
         Account(r)',
         r > issued' => /\ r > issued
                        /\ held'[r] = held[r] /\ marker'[r] = marker[r]
  PROVE  UsedOnce(r)'
<1>1. \A d \in Callers \ {c} : Acts(d, r)' = Acts(d, r)
  BY DEF Acts, Others
<1>2. ASSUME NEW d \in Callers, NEW e \in Callers, Acts(d, r)', Acts(e, r)'
      PROVE  d = e
  BY <1>1, <1>2 DEF UsedOnce
<1>3. ASSUME NEW d \in Callers, Acts(d, r)' PROVE Acting(d, r)'
  <2>1. CASE d = c
    BY <1>3, <2>1
  <2>2. CASE d # c
    BY <1>1, <1>3, <2>2
  <2> QED BY <2>1, <2>2
<1>4. (r > issued => Unissued(r))'
  <2>1. ASSUME r > issued' PROVE Unissued(r)'
    <3>1. Unissued(r) /\ held'[r] = held[r] /\ marker'[r] = marker[r]
      BY <2>1 DEF UsedOnce
    <3>2. \A d \in Callers : call'[d].id # r
      BY <2>1, <3>1 DEF Unissued, Others
    <3> QED BY <3>1, <3>2 DEF Unissued
  <2> QED BY <2>1
<1> QED BY <1>2, <1>3, <1>4 DEF UsedOnce

(* A step of c that leaves the reservation and its marker alone            *)
LEMMA OnceStays ==
  ASSUME NEW c \in Callers, NEW r \in Ids, UsedOnce(r), Others(c),
         held'[r] = held[r], marker'[r] = marker[r], issued' = issued,
         call'[c].id = r => call[c].id = r,
         Acts(c, r)' => Acts(c, r) /\ Acting(c, r)',
         call'[c].id = r /\ call'[c].op = "refund" => call[c].op = "refund",
         Claims(c, r) => Claims(c, r)' \/ marker[r].exp # 0
  PROVE  UsedOnce(r)'
<1>1. call[c].id = r => ~ (r > issued)
  BY DEF UsedOnce, Unissued
<1>2. ASSUME NEW d \in Callers \ {c}, Acts(d, r) PROVE Acting(d, r)'
  BY <1>2 DEF UsedOnce, Acting, Others, Alone, P
<1>3. ASSUME NEW d \in Callers PROVE Refunding(d, r)'
  <2>1. CASE d = c
    BY <2>1 DEF UsedOnce, Refunding, P
  <2>2. CASE d # c
    BY <2>2 DEF UsedOnce, Refunding, Others, P
  <2> QED BY <2>1, <2>2
<1>4. Account(r)'
  <2>1. \A d \in Callers \ {c} : Claims(d, r)' = Claims(d, r)
    BY DEF Claims, Others
  <2> QED BY <2>1 DEF UsedOnce, Account
<1> QED BY <1>1, <1>2, <1>3, <1>4, OnceFrom

(* A call that starts takes an id that nothing is known of.                *)
LEMMA StartsOnce ==
  ASSUME Typed, NEW c \in Callers, NEW r \in Ids, Starts(c, r), Once(r),
         ~ held'[r].reused
  PROVE  UsedOnce(r)'
<1>1. PICK k : /\ Gets(c, k) /\ k.pc = "lock" /\ k.op \in Consuming /\ k.id = r
               /\ call'[c] = k /\ Others(c)
  BY GetsOne DEF Starts
<1>2. r = issued + 1 /\ held' = held /\ issued' = Greater(issued, r)
  BY CallShapes DEF Starts, TakesId, Reservation
<1>3. marker' = marker /\ issued' = r /\ r > issued
  BY <1>2, CallShapes DEF Starts, ids, Greater
<1>4. UsedOnce(r) /\ Unissued(r)
  BY <1>2, <1>3, CallShapes DEF Once, UsedOnce
<1>5. \A d \in Callers : call[d].id # r
  BY <1>4 DEF Unissued
<1>6. Acting(c, r)'
  BY <1>1, <1>2, <1>4 DEF Acting, Unissued, Consuming, Before, P
<1>7. \A d \in Callers : Refunding(d, r)'
  BY <1>1, <1>5 DEF Refunding, Others, Consuming
<1>8. Account(r)'
  BY <1>2, <1>3, <1>4 DEF UsedOnce, Unissued, Account
<1>9. /\ \A d \in Callers : ~ Acts(d, r)
      /\ ~ (r > issued')
  BY <1>3, <1>5, CallShapes DEF Acts
<1> QED BY <1>1, <1>4, <1>6, <1>7, <1>8, <1>9, OnceFrom

(* A refund begins of a reservation that its client knows.                 *)
LEMMA AsksOnce ==
  ASSUME Typed, NEW c \in Callers, NEW r \in Ids, Asks(c, r), UsedOnce(r)
  PROVE  UsedOnce(r)'
<1>1. PICK k : /\ Gets(c, k) /\ k.pc = "lock" /\ k.op = "refund" /\ k.id = r
               /\ call'[c] = k /\ Others(c)
  BY GetsOne DEF Asks
<1>2. /\ held'[r].status = held[r].status /\ held'[r].owner = held[r].owner
      /\ held'[r].charges = held[r].charges
      /\ held'[r].credits = held[r].credits
      /\ held[r].status # "no" /\ held[r].owner = {P(c)}
      /\ issued' = issued /\ marker' = marker
  BY KnowsOne DEF Asks, SameCounts, ids
<1>3. ~ (r > issued)
  BY <1>2 DEF UsedOnce, Unissued
<1>4. call[c].op = "none"
  BY CallShapes DEF Asks
<1>5. ~ Acts(c, r)'
  BY <1>1 DEF Acts, Consuming
<1>6. \A d \in Callers \ {c} : Acts(d, r) => Acting(d, r)'
  BY <1>1, <1>2 DEF UsedOnce, Acting, Others, Alone, P
<1>7. \A d \in Callers : Refunding(d, r)'
  BY <1>1, <1>2 DEF UsedOnce, Refunding, Others, P
<1>8. Account(r)'
  <2>1. \A d \in Callers : Claims(d, r) => Claims(d, r)'
    BY <1>1, <1>4 DEF Claims, Others
  <2> QED BY <1>2, <2>1 DEF UsedOnce, Account
<1> QED BY <1>1, <1>2, <1>3, <1>5, <1>6, <1>7, <1>8, OnceFrom

(* A call goes on, loses its reply, gets to its callbacks or ends, and     *)
(* nobody learns anything.                                                 *)
LEMMA GoesOnce ==
  ASSUME Typed, NEW c \in Callers, NEW r \in Ids, UsedOnce(r), About(c, r),
         Moves(c) \/ Drops(c) \/ Loses(c) \/ Obtains(c, r)
  PROVE  UsedOnce(r)'
<1>1. PICK k : /\ Gets(c, k) /\ call'[c] = k /\ Others(c)
               /\ \/ Same(c, k) /\ k.pc \in Before
                     /\ call[c].pc \in {"lock", "read", "extend"}
                  \/ k = Idle /\ call[c].pc \in Before
                  \/ Same(c, k) /\ k.pc = "check" /\ call[c].pc \in {"write", "sent"}
                  \/ Same(c, k) /\ k.pc = "callbacks" /\ call[c].op = "acquire"
                     /\ HasCharge(c, r)
  BY GetsOne DEF Moves, Drops, Loses, Obtains
<1>2. held' = held /\ marker' = marker /\ issued' = issued
  BY DEF Moves, Drops, Loses, Obtains, ids
<1>3. r # 0 /\ Idle.id = 0 /\ now \in Nat /\ marker[r].exp \in Nat
  BY CallShapes DEF IdTypes
<1>4. CASE Same(c, k) /\ k.pc \in Before /\ call[c].pc \in {"lock", "read", "extend"}
  <2>1. Acts(c, r)' => Acts(c, r) /\ Acting(c, r)
    BY <1>1, <1>4 DEF Acts, Same, UsedOnce
  <2>2. Acts(c, r)' => Acting(c, r)'
    BY <1>1, <1>2, <1>4, <2>1 DEF Acting, Same, Before, P, Alone
  <2>3. ~ Claims(c, r)
    BY <1>4 DEF Claims
  <2> QED BY <1>1, <1>2, <1>4, <2>1, <2>2, <2>3, OnceStays DEF Same
<1>5. CASE k = Idle /\ call[c].pc \in Before
  <2>1. ~ Claims(c, r) /\ call'[c].id # r /\ ~ Acts(c, r)'
    BY <1>1, <1>3, <1>5 DEF Claims, Before, Acts
  <2> QED BY <1>1, <1>2, <2>1, OnceStays
<1>6. CASE Same(c, k) /\ k.pc = "check" /\ call[c].pc \in {"write", "sent"}
  <2>1. Acts(c, r)' => Acts(c, r) /\ Acting(c, r)
    BY <1>1, <1>6 DEF Acts, Same, UsedOnce
  <2>2. Acts(c, r)' => Acting(c, r)'
    BY <1>1, <1>2, <1>6, <2>1 DEF Acting, Same, Before, P, Alone
  <2>3. Claims(c, r) => Claims(c, r)'
    BY <1>1, <1>6 DEF Claims, Same
  <2> QED BY <1>1, <1>2, <1>6, <2>1, <2>2, <2>3, OnceStays DEF Same
<1>7. CASE /\ Same(c, k) /\ k.pc = "callbacks" /\ call[c].op = "acquire"
           /\ HasCharge(c, r)
  <2>1. Acts(c, r)' => Acts(c, r) /\ Acting(c, r)
    BY <1>1, <1>7 DEF Acts, Same, UsedOnce
  <2>2. Acts(c, r)' => marker[r].exp # 0
    BY <1>3, <1>7, <2>1 DEF HasCharge, Acting, Consuming, LiveMarker, Alive
  <2>3. Acts(c, r)' => Acting(c, r)'
    BY <1>1, <1>2, <1>7, <2>1, <2>2 DEF Acting, Same, Before, P, Alone, Consuming
  <2>4. ~ Claims(c, r)
    BY <1>7 DEF Claims
  <2> QED BY <1>1, <1>2, <1>7, <2>1, <2>3, <2>4, OnceStays DEF Same
<1> QED BY <1>1, <1>4, <1>5, <1>6, <1>7

(* The acquire script runs.                                                *)
LEMMA ChargesOnce ==
  ASSUME Typed, NEW c \in Callers, NEW r \in Ids, Charges(c, r), UsedOnce(r)
  PROVE  UsedOnce(r)'
<1>1. PICK k : /\ Gets(c, k) /\ Same(c, k) /\ k.pc = "sent"
               /\ k.answer = AcquireStatus(r, call[c].usage)
               /\ call'[c] = k /\ Others(c)
  BY GetsOne DEF Charges
<1>2. /\ Acts(c, r) /\ Acting(c, r) /\ issued' = issued
      /\ now \in Nat /\ marker[r].exp \in Nat /\ IdTypes
      /\ held[r].charges \in Nat /\ held[r].credits \in Nat
      /\ call[c].op \in Consuming /\ call[c].id = r
  BY CallShapes DEF Charges, UsedOnce, Acts, IdTypes, Reservation
<1>3. held[r].status = "no" /\ held[r].owner \in {{}, {P(c)}} /\ ~ (r > issued)
  BY <1>2 DEF Acting, UsedOnce, Unissued
<1>4. \A d \in Callers \ {c} : ~ Acts(d, r)
  BY <1>2 DEF UsedOnce
<1>5. \A d \in Callers : ~ (call[d].id = r /\ call[d].op = "refund")
  BY <1>3 DEF UsedOnce, Refunding
<1>6. \A d \in Callers : ~ (call'[d].id = r /\ call'[d].op = "refund")
  BY <1>1, <1>5 DEF Others, Same
<1>7. CASE AcquireStatus(r, call[c].usage) = "ok"
  <2>1. /\ held'[r].status = "no" /\ held'[r].owner = {P(c)}
        /\ held'[r].charges = held[r].charges + 1
        /\ held'[r].credits = held[r].credits
    BY <1>3, <1>7, KnowsOne DEF Charges
  <2>2. marker'[r].exp # 0
    <3>1. marker'[r].exp = now + Lifetime
      BY <1>2, <1>7 DEF Charges, IdTypes
    <3> QED BY <1>2, <3>1, Lifetimes
  <2>3. Account(r)'
    BY <1>2, <2>1, <2>2 DEF UsedOnce, Account
  <2>4. Acting(c, r)'
    BY <1>1, <1>2, <2>1, <2>2 DEF Acting, Same, Consuming, P
  <2>5. \A d \in Callers : Refunding(d, r)'
    BY <1>6 DEF Refunding
  <2> QED BY <1>1, <1>2, <1>3, <1>4, <2>3, <2>4, <2>5, OnceFrom
<1>8. CASE AcquireStatus(r, call[c].usage) # "ok"
  <2>1. held' = held /\ marker' = marker
    BY <1>8 DEF Charges, ids
  <2>2. k.answer = "replayed" => marker[r].exp # 0
    BY <1>1, <1>2 DEF AcquireStatus, LiveMarker, Alive
  <2>3. Acting(c, r)'
    BY <1>1, <1>2, <1>8, <2>1, <2>2 DEF Acting, Same, Consuming, P
  <2>4. ~ Claims(c, r)
    BY <1>2 DEF Claims, Consuming
  <2> QED BY <1>1, <1>2, <2>1, <2>3, <2>4, OnceStays DEF Same
<1> QED BY <1>7, <1>8

(* The refund script runs.                                                 *)
LEMMA SettlesOnce ==
  ASSUME Typed, NEW c \in Callers, NEW r \in Ids, Settles(c, r), UsedOnce(r)
  PROVE  UsedOnce(r)'
<1>1. PICK k : /\ Gets(c, k) /\ Same(c, k) /\ k.pc = "sent"
               /\ k.answer = RefundStatus(r, call[c].usage, call[c].token)
               /\ call'[c] = k /\ Others(c)
  BY GetsOne DEF Settles
<1>2. /\ issued' = issued /\ call[c].id = r /\ ~ (r > issued)
      /\ now \in Nat /\ marker[r].exp \in Nat /\ IdTypes /\ NoMarker.exp = 0
      /\ held[r].charges \in Nat /\ held[r].credits \in Nat
      /\ call[c].pc \in {"write", "sent"}
  BY CallShapes DEF Settles, UsedOnce, Unissued, IdTypes, Reservation
<1>3. \/ call[c].op = "refund" /\ held[r].status # "no" /\ ~ Acts(c, r)
      \/ /\ call[c].op = "undo" /\ ~ Alone(c, r) /\ Acts(c, r) /\ Acting(c, r)
         /\ held[r].status # "held"
  BY <1>2, FleetAssumption
     DEF Settles, UsedOnce, Refunding, Acts, Acting, Alone, Consuming
<1>4. CASE RefundStatus(r, call[c].usage, call[c].token) = "ok"
  <2>1. /\ held'[r].status = held[r].status /\ held'[r].owner = held[r].owner
        /\ held'[r].charges = held[r].charges
        /\ held'[r].credits = held[r].credits + 1
        /\ marker'[r].exp = 0
    BY <1>2, <1>4, KnowsOne DEF Settles, IdTypes
  <2>2. marker[r].exp # 0
    BY <1>2, <1>4 DEF RefundStatus, LiveMarker, Alive
  <2>3. held[r].credits < held[r].charges
    BY <2>2 DEF UsedOnce, Account
  <2>4. Account(r)'
    <3>1. held'[r].status = "held" => Claims(c, r)'
      BY <1>1, <1>2, <1>3, <1>4, <2>1 DEF Claims, Same
    <3> QED BY <1>2, <2>1, <2>3, <3>1 DEF Account
  <2>5. \A d \in Callers : Refunding(d, r)'
    BY <1>1, <2>1 DEF UsedOnce, Refunding, Others, Same, P
  <2>6. Acts(c, r)' => Acts(c, r) /\ Acting(c, r)'
    BY <1>1, <1>2, <1>3, <2>1 DEF Acts, Acting, Same, Consuming, Before, P, Alone
  <2>7. ASSUME NEW d \in Callers \ {c}, Acts(d, r) PROVE Acting(d, r)'
    <3>1. ~ Acts(c, r)
      BY <2>7 DEF UsedOnce
    <3>2. held[r].status # "no" /\ Acting(d, r)
      BY <1>3, <2>7, <3>1 DEF UsedOnce
    <3>3. call[d].op = "undo" /\ ~ Alone(d, r)
      BY <2>7, <3>2 DEF Acts, Acting, Consuming
    <3>4. call[d].pc # "callbacks"
      BY <3>3, CallShapes
    <3> QED BY <2>1, <3>2, <3>3, <3>4, <1>1 DEF Acting, Others, P, Consuming, Alone
  <2> QED BY <1>1, <1>2, <2>4, <2>5, <2>6, <2>7, OnceFrom
<1>5. CASE RefundStatus(r, call[c].usage, call[c].token) # "ok"
  <2>1. held' = held /\ marker' = marker
    BY <1>5 DEF Settles, ids
  <2>2. k.answer \in {"mismatch", "incoherent"} => marker[r].exp # 0
    BY <1>1, <1>2 DEF RefundStatus, LiveMarker, Alive
  <2>3. Claims(c, r) => Claims(c, r)' \/ marker[r].exp # 0
    BY <1>1, <2>2 DEF Claims, Same
  <2>4. Acts(c, r)' => Acts(c, r) /\ Acting(c, r)'
    BY <1>1, <1>2, <1>3, <2>1 DEF Acts, Acting, Same, Consuming, Before, P, Alone
  <2> QED BY <1>1, <1>2, <2>1, <2>3, <2>4, OnceStays DEF Same
<1> QED BY <1>4, <1>5

(* The pipeline without a tombstone runs.                                  *)
LEMMA RevertsOnce ==
  ASSUME Typed, NEW c \in Callers, NEW r \in Ids, Reverts(c, r), UsedOnce(r)
  PROVE  UsedOnce(r)'
<1>1. PICK k : /\ Gets(c, k) /\ Same(c, k) /\ k.pc = "sent"
               /\ call'[c] = k /\ Others(c)
  BY GetsOne DEF Reverts
<1>2. /\ issued' = issued /\ call[c].id = r /\ call[c].op = "undo"
      /\ Acts(c, r) /\ Acting(c, r) /\ ~ (r > issued) /\ IdTypes
      /\ held[r].charges \in Nat /\ held[r].credits \in Nat
      /\ NoMarker.exp = 0
  BY CallShapes DEF Reverts, UsedOnce, Unissued, Acts, Reservation
<1>3. /\ held'[r].status = held[r].status /\ held'[r].owner = held[r].owner
      /\ held'[r].charges = held[r].charges
      /\ held'[r].credits =
           held[r].credits + (IF call[c].pc = "sent" THEN 0 ELSE 1)
      /\ marker'[r].exp = 0
  BY <1>2, KnowsOne DEF Reverts, IdTypes
<1>4. /\ held[r].status = "no"
      /\ call[c].pc # "sent" => held[r].credits < held[r].charges
  BY <1>2 DEF Reverts, Acting, Before
<1>5. Account(r)'
  BY <1>2, <1>3, <1>4 DEF UsedOnce, Account
<1>6. Acting(c, r)'
  BY <1>1, <1>2, <1>3 DEF Acting, Same, Consuming, Before, P, Alone
<1>7. \A d \in Callers \ {c} : ~ Acts(d, r)
  BY <1>2 DEF UsedOnce
<1>8. \A d \in Callers : Refunding(d, r)'
  BY <1>1, <1>3 DEF UsedOnce, Refunding, Others, Same, P
<1> QED BY <1>1, <1>2, <1>5, <1>6, <1>7, <1>8, OnceFrom

(* The caller gets its reservation.                                        *)
LEMMA DeliversOnce ==
  ASSUME Typed, NEW c \in Callers, NEW r \in Ids, Delivers(c, r), UsedOnce(r)
  PROVE  UsedOnce(r)'
<1>1. /\ call'[c] = Idle /\ Others(c) /\ Idle.id = 0 /\ r # 0
      /\ issued' = issued /\ marker' = marker /\ marker[r].exp \in Nat
      /\ now \in Nat
  BY GetsOne, CallShapes DEF Delivers, ids, IdTypes
<1>2. Acts(c, r) /\ Acting(c, r) /\ call[c].op \in Consuming
  BY CallShapes DEF Delivers, Acts, Consuming, UsedOnce
<1>3. marker[r].exp # 0 /\ held[r].status = "no"
  BY <1>1, <1>2 DEF Delivers, HasCharge, Acting, LiveMarker, Alive
<1>4. /\ held'[r].owner = held[r].owner /\ held'[r].charges = held[r].charges
      /\ held'[r].credits = held[r].credits
  BY KnowsOne DEF Delivers, SameCounts
<1>5. Account(r)'
  BY <1>1, <1>3, <1>4 DEF UsedOnce, Account
<1>6. \A d \in Callers \ {c} : ~ Acts(d, r)
  BY <1>2 DEF UsedOnce
<1>7. \A d \in Callers : ~ (call'[d].id = r /\ call'[d].op = "refund")
  BY <1>1, <1>3 DEF UsedOnce, Refunding, Others
<1>8. ~ (r > issued) /\ call'[c].id # r /\ ~ Acts(c, r)'
  BY <1>1, <1>3 DEF UsedOnce, Unissued, Acts
<1> QED BY <1>1, <1>5, <1>6, <1>7, <1>8, OnceFrom DEF Refunding

(* An acquire turns to undo its charge.                                    *)
LEMMA TurnsOnce ==
  ASSUME Typed, NEW c \in Callers, NEW r \in Ids, Turns(c, r), UsedOnce(r)
  PROVE  UsedOnce(r)'
<1>1. PICK k : /\ k.pc = "lock" /\ k.op = "undo" /\ k.id = r
               /\ call'[c] = k /\ Others(c)
  BY GetsOne DEF Turns
<1>2. /\ issued' = issued /\ marker' = marker
      /\ Acts(c, r) /\ Acting(c, r) /\ call[c].op = "acquire"
  BY DEF Turns, Acts, UsedOnce, Consuming, ids
<1>3. /\ held'[r].owner = held[r].owner /\ held'[r].charges = held[r].charges
      /\ held'[r].credits = held[r].credits
      /\ held'[r].status = held[r].status
  BY KnowsOne DEF Turns, SameCounts
<1>4. marker[r].exp # 0 /\ held[r].status = "no"
  BY <1>2 DEF Turns, Acting, Consuming
<1>5. held[r].owner = {P(c)} /\ held[r].credits < held[r].charges
  BY <1>2, <1>4 DEF UsedOnce, Account, Acting, Consuming
<1>6. Acting(c, r)'
  BY <1>1, <1>3, <1>4, <1>5 DEF Acting, P, Consuming
<1>7. Account(r)'
  BY <1>2, <1>3, <1>4 DEF UsedOnce, Account
<1>8. \A d \in Callers \ {c} : ~ Acts(d, r)
  BY <1>2 DEF UsedOnce
<1>9. \A d \in Callers : Refunding(d, r)'
  BY <1>1, <1>3 DEF UsedOnce, Refunding, Others, P
<1>10. ~ (r > issued)
  BY <1>4 DEF UsedOnce, Unissued
<1> QED BY <1>1, <1>2, <1>6, <1>7, <1>8, <1>9, <1>10, OnceFrom

(* A cleanup is over, or its client stops waiting for it.                  *)
LEMMA FailsOnce ==
  ASSUME Typed, NEW c \in Callers, NEW r \in Ids, UsedOnce(r),
         Fails(c, r) \/ Drains(c, r)
  PROVE  UsedOnce(r)'
<1>1. /\ Others(c) /\ Idle.id = 0 /\ r # 0 /\ Idle.op = "none"
      /\ \/ call'[c] = Idle
         \/ call'[c] = call[c] /\ ~ Alone(c, r) /\ held'[r].status = "failed"
      /\ issued' = issued /\ marker' = marker
  BY GetsOne, KnowsOne, CallShapes DEF Fails, Drains, ids, Others
<1>2. Acts(c, r) /\ Acting(c, r) /\ call[c].op = "undo" /\ call[c].id = r
  BY DEF Fails, Drains, Acts, UsedOnce
<1>3. /\ held'[r].owner = held[r].owner /\ held'[r].charges = held[r].charges
      /\ held'[r].credits = held[r].credits
      /\ held'[r].status \in {"closed", "failed", "undone"}
  BY KnowsOne DEF Fails, Drains, SameCounts
<1>4. ~ (r > issued)
  BY <1>2 DEF UsedOnce, Unissued
<1>5. Acts(c, r)' => Acting(c, r)'
  BY <1>1, <1>2, <1>3, CallShapes DEF Acts, Acting, Consuming, P, Alone
<1>6. Account(r)'
  BY <1>1, <1>3 DEF UsedOnce, Account
<1>7. \A d \in Callers \ {c} : ~ Acts(d, r)
  BY <1>2 DEF UsedOnce
<1>8. \A d \in Callers : Refunding(d, r)'
  BY <1>1, <1>2, <1>3 DEF UsedOnce, Refunding, Others, P
<1> QED BY <1>1, <1>2, <1>4, <1>5, <1>6, <1>7, <1>8, OnceFrom

(* A refund is over.                                                       *)
LEMMA ClosesOnce ==
  ASSUME Typed, NEW c \in Callers, NEW r \in Ids, Closes(c, r), UsedOnce(r)
  PROVE  UsedOnce(r)'
<1>1. /\ call'[c] = Idle /\ Others(c) /\ Idle.id = 0 /\ r # 0
      /\ issued' = issued /\ marker' = marker
  BY GetsOne, CallShapes DEF Closes, ids
<1>2. /\ call[c].id = r /\ call[c].op = "refund" /\ held[r].status # "no"
      /\ ~ (r > issued) /\ call'[c].id # r /\ ~ Acts(c, r)'
  BY <1>1 DEF Closes, UsedOnce, Refunding, Unissued, Acts
<1>3. CASE /\ held' = held /\ call[c].pc = "sent"
           /\ call[c].answer \in {"mismatch", "incoherent"}
  <2>1. ~ Claims(c, r)
    BY <1>3 DEF Claims
  <2> QED BY <1>1, <1>2, <1>3, <2>1, OnceStays
<1>4. CASE \E h : /\ Knows(r, h) /\ SameCounts(h, r)
                  /\ h.status \in {"closed", "unsure"}
  <2>1. /\ held'[r].owner = held[r].owner /\ held'[r].charges = held[r].charges
        /\ held'[r].credits = held[r].credits
        /\ held'[r].status \in {"closed", "unsure"}
    BY <1>4, KnowsOne DEF SameCounts
  <2>2. Account(r)'
    BY <1>1, <2>1 DEF UsedOnce, Account
  <2>3. ASSUME NEW d \in Callers \ {c}, Acts(d, r) PROVE Acting(d, r)'
    <3>1. Acting(d, r) /\ call'[d] = call[d]
      BY <1>1, <2>3 DEF UsedOnce, Others
    <3>2. call[d].op = "undo" /\ ~ Alone(d, r)
      BY <1>2, <2>3, <3>1 DEF Acts, Acting
    <3>3. call[d].pc # "callbacks"
      BY <3>2, CallShapes
    <3> QED BY <2>1, <3>1, <3>2, <3>3 DEF Acting, P, Consuming, Alone
  <2>4. \A d \in Callers : Refunding(d, r)'
    BY <1>1, <2>1 DEF UsedOnce, Refunding, Others, P
  <2> QED BY <1>1, <1>2, <2>2, <2>3, <2>4, OnceFrom
<1> QED BY <1>3, <1>4 DEF Closes

(* An acquire or a recording ends without a reservation.                   *)
LEMMA ReportsOnce ==
  ASSUME Typed, NEW c \in Callers, NEW r \in Ids, Reports(c, r), UsedOnce(r)
  PROVE  UsedOnce(r)'
<1>1. /\ call'[c] = Idle /\ Others(c) /\ Idle.id = 0 /\ r # 0
      /\ issued' = issued /\ marker' = marker
  BY GetsOne, CallShapes DEF Reports, ids
<1>2. /\ call[c].id = r /\ Acts(c, r) /\ Acting(c, r) /\ held[r].status = "no"
      /\ ~ (r > issued) /\ call'[c].id # r /\ ~ Acts(c, r)' /\ ~ Claims(c, r)
  BY <1>1 DEF Reports, UsedOnce, Unissued, Acts, Acting, Claims, Consuming
<1>3. CASE held' = held
  BY <1>1, <1>2, <1>3, OnceStays
<1>4. CASE held' # held
  <2>1. /\ held'[r].owner = held[r].owner /\ held'[r].charges = held[r].charges
        /\ held'[r].credits = held[r].credits
        /\ held'[r].status \in {"unanswered", "resent", "signalled"}
    BY <1>4, KnowsOne DEF Reports, SameCounts
  <2>2. Account(r)'
    BY <1>1, <2>1 DEF UsedOnce, Account
  <2>3. \A d \in Callers \ {c} : ~ Acts(d, r)
    BY <1>2 DEF UsedOnce
  <2>4. \A d \in Callers : Refunding(d, r)'
    BY <1>1, <2>1 DEF UsedOnce, Refunding, Others, P
  <2> QED BY <1>1, <1>2, <2>2, <2>3, <2>4, OnceFrom
<1> QED BY <1>3, <1>4

(* Every step of a caller keeps the account of its own reservation.        *)
LEMMA CallOnce ==
  ASSUME Typed, NEW c \in Callers, NEW r \in Ids, CallKind(c, r), About(c, r),
         Once(r)
  PROVE  Once(r)'
<1>1. SUFFICES ASSUME ~ held'[r].reused PROVE UsedOnce(r)'
  BY DEF Once
<1>2. CASE Starts(c, r)
  BY <1>1, <1>2, StartsOnce
<1>3. CASE ~ Starts(c, r)
  <2>1. held'[r].reused = held[r].reused
    BY <1>3, KnowsOne
       DEF CallKind, Asks, Moves, Drops, Charges, Settles, Reverts, Loses,
           Obtains, Delivers, Turns, Fails, Closes, Reports, Drains, SameCounts
  <2>2. UsedOnce(r)
    BY <1>1, <2>1 DEF Once
  <2> QED BY <1>3, <2>2, AsksOnce, GoesOnce, ChargesOnce, SettlesOnce,
             RevertsOnce, DeliversOnce, TurnsOnce, FailsOnce, ClosesOnce,
             ReportsOnce DEF CallKind
<1> QED BY <1>2, <1>3

(* A crash ends the calls and the reservations of its process.             *)
LEMMA CrashOnce ==
  ASSUME Typed, NEW p \in Procs, Crash(p), NEW r \in Ids, Once(r)
  PROVE  Once(r)'
<1>1. /\ call' = [c \in Callers |-> IF P(c) = p /\ ~ At(c, "idle") THEN Idle
                                    ELSE call[c]]
      /\ held' = [q \in Ids |-> IF held[q].owner = {p}
                                  THEN [held[q] EXCEPT !.status = "crashed"]
                                  ELSE held[q]]
      /\ issued' = issued /\ marker' = marker
  BY DEF Crash, ids
<1>2. /\ held[r] \in Reservation /\ Idle.id = 0 /\ r # 0
  BY CallShapes
<1>3. /\ held'[r].owner = held[r].owner /\ held'[r].charges = held[r].charges
      /\ held'[r].credits = held[r].credits /\ held'[r].reused = held[r].reused
      /\ held[r].owner # {p} => held'[r] = held[r]
      /\ held[r].owner = {p} => held'[r].status = "crashed"
  BY <1>1, <1>2 DEF Reservation
<1> SUFFICES ASSUME UsedOnce(r) PROVE UsedOnce(r)'
  BY <1>3 DEF Once
<1>5. ASSUME NEW d \in Callers, call'[d].id = r
      PROVE  /\ call'[d] = call[d] /\ call[d].id = r
             /\ held[r].owner = {P(d)} => held[r].owner # {p}
  BY <1>1, <1>2, <1>5, CallShapes DEF At
<1>6. ASSUME NEW d \in Callers, Acts(d, r)' PROVE Acts(d, r) /\ Acting(d, r)'
  <2>1. call'[d] = call[d] /\ Acts(d, r) /\ Acting(d, r)
    <3>1. call'[d] = call[d] /\ Acts(d, r)
      BY <1>5, <1>6 DEF Acts
    <3> QED BY <3>1 DEF UsedOnce
  <2>2. held[r].owner # {p}
    BY <1>5, <2>1 DEF Acts, Acting
  <2> QED BY <1>1, <1>3, <2>1, <2>2 DEF Acting, P, Alone
<1>7. \A d \in Callers : Refunding(d, r)'
  <2>1. ASSUME NEW d \in Callers, call'[d].id = r, call'[d].op = "refund"
        PROVE  held'[r].status # "no" /\ held'[r].owner = {P(d)}
    BY <1>3, <1>5, <2>1 DEF UsedOnce, Refunding
  <2> QED BY <2>1 DEF Refunding, P
<1>8. Account(r)'
  <2>1. ASSUME held'[r].status = "held", marker[r].exp = 0
        PROVE  \E d \in Callers : Claims(d, r)'
    <3>1. held'[r] = held[r] /\ held[r].owner # {p}
      BY <1>3, <2>1
    <3>2. PICK d \in Callers : Claims(d, r)
      BY <2>1, <3>1 DEF UsedOnce, Account
    <3>3. P(d) # p
      BY <3>1, <3>2 DEF UsedOnce, Refunding, Claims
    <3>4. Claims(d, r)'
      BY <1>1, <3>2, <3>3 DEF Claims
    <3> QED BY <3>4
  <2> QED BY <1>1, <1>3, <2>1 DEF UsedOnce, Account
<1>9. r > issued => Unissued(r)'
  <2>1. ASSUME r > issued PROVE Unissued(r)'
    <3>1. Unissued(r) /\ held'[r] = held[r]
      BY <1>3, <2>1 DEF UsedOnce, Unissued
    <3> QED BY <1>1, <1>5, <3>1 DEF Unissued
  <2> QED BY <2>1
<1> QED BY <1>1, <1>6, <1>7, <1>8, <1>9 DEF UsedOnce

(* Every step of the fleet keeps each id used once.                        *)
LEMMA OnceNext ==
  Typed /\ (\A r \in Ids : Once(r)) /\ [Next]_allvars => (\A r \in Ids : Once(r))'
<1> SUFFICES ASSUME Typed, \A r \in Ids : Once(r), [Next]_allvars, NEW r \in Ids
             PROVE  Once(r)'
  OBVIOUS
<1>1. issued \in Nat /\ issued' \in Nat
  BY TypedNext, CallShapes, RedisAssumption DEF Typed, BoundTypes
<1>2. CASE Called
  <2>1. PICK c \in Callers, q \in Ids : CallKind(c, q) /\ About(c, q)
    BY <1>2, StepAbout
  <2>2. now' = now
    BY <1>2 DEF Called
  <2>3. CASE q = r
    BY <2>1, <2>3, CallOnce
  <2>4. CASE q # r
    BY <1>1, <2>1, <2>2, <2>4, OtherFrames, FrameOnce
  <2> QED BY <2>3, <2>4
<1>3. CASE Quiet
  <2>1. Frame(r)
    BY <1>1, <1>3 DEF Quiet, Frame, ids
  <2> QED BY <1>1, <2>1, FrameOnce
<1>4. CASE Dies
  BY <1>4, CrashOnce DEF Dies
<1>5. CASE Passes
  <2>1. Frame(r)
    BY <1>1, <1>5 DEF Passes, Frame, ids, calls, bounded
  <2> QED BY <1>1, <2>1, FrameOnce
<1> QED BY <1>2, <1>3, <1>4, <1>5, StepKinds

(* No id has been issued at first.                                         *)
LEMMA OnceInit == FleetInit => \A r \in Ids : Once(r)
<1> SUFFICES ASSUME FleetInit, NEW r \in Ids PROVE UsedOnce(r)
  BY DEF Once
<1>1. /\ call = [c \in Callers |-> Idle] /\ held[r] = Unknown
      /\ marker[r] = NoMarker /\ r # 0
  BY RedisAssumption DEF FleetInit, Init, StoreInit, Ids
<1>2. \A c \in Callers : call[c].id # r
  BY <1>1 DEF Idle
<1>3. Unissued(r) /\ Account(r)
  BY <1>1, <1>2 DEF Unissued, Account, Unknown, NoMarker
<1> QED BY <1>2, <1>3 DEF UsedOnce, Acts, Refunding

(* DeliveredIsLive: no cleanup, resent script or lapsed lock of any        *)
(* process takes the marker of a reservation in its client's hands.        *)
THEOREM DeliveredKeepsMarker == Spec => []DeliveredIsLive
<1>1. (\A r \in Ids : Once(r)) => DeliveredIsLive
  BY DEF Once, UsedOnce, Account, Claims, DeliveredIsLive, Runs
<1>2. Typed /\ (\A r \in Ids : Once(r)) /\ [Next]_allvars
        => (Typed /\ \A r \in Ids : Once(r))'
  BY TypedNext, OnceNext
<1> QED BY <1>1, <1>2, TypedInit, OnceInit, PTL DEF Spec

(* CreditedOnce: no reservation is credited more often than it was         *)
(* charged, whatever replies are lost, whatever is repeated, and whatever  *)
(* the client recovers while its cleanup still runs.                       *)
THEOREM OneCreditForACharge == Spec => []CreditedOnce
<1>1. (\A r \in Ids : Once(r)) => CreditedOnce
  BY DEF Once, UsedOnce, Account, CreditedOnce
<1>2. Typed /\ (\A r \in Ids : Once(r)) /\ [Next]_allvars
        => (Typed /\ \A r \in Ids : Once(r))'
  BY TypedNext, OnceNext
<1> QED BY <1>1, <1>2, TypedInit, OnceInit, PTL DEF Spec

-----------------------------------------------------------------------------
(* No write of what has changed since it was read *)

(* Unless state was evicted, no process finds a bucket that lost its state. *)
LEMMA NoneLost ==
  ASSUME Typed, Evidence, evictions = 0, NEW q \in Procs, NEW b \in Mine(q)
  PROVE  Complete(b) \/ FreshStart(proc[q][b], b)
<1>1. /\ now \in Nat /\ BucketTTL \in Nat /\ state[b].exp \in Nat
      /\ proc[q][b].confirmed \subseteq 0..now /\ b \in Buckets
      /\ state[b].keys \in {{}, Pair} /\ Pair # {}
  BY RedisAssumption DEF Typed, KeyTypes, BucketKeys, States, ProcTypes, IsProc,
     Mine, Evidence, Pair
<1>2. Present(b) \in {{}, Pair}
  BY <1>1 DEF Present
<1>3. ASSUME Present(b) = {}, Suspected(proc[q][b], b) PROVE FALSE
  <2>1. PICK t \in proc[q][b].confirmed : (now - t) * 10 < BucketTTL * 9
    BY <1>3 DEF Suspected
  <2>2. t \in 0..now /\ Backed(t, b)
    BY <1>1, <2>1 DEF Evidence
  <2>3. ~ (t + BucketTTL <= now)
    BY <1>1, <2>1, <2>2
  <2>4. state[b].keys = Pair /\ state[b].exp >= t + BucketTTL
    BY <2>2, <2>3 DEF Backed
  <2>5. Alive(state[b])
    BY <1>1, <2>2, <2>3, <2>4 DEF Alive
  <2> QED BY <1>1, <1>3, <2>4, <2>5 DEF Present
<1> QED BY <1>2, <1>3 DEF Complete, FreshStart

(* The override that a bucket object k sees survives a read by another, j. *)
LEMMA OverrideKept ==
  ASSUME NEW b, NEW j, NEW k, NEW l, Serves(j, b), Serves(k, b),
         l.conf = k.conf, now' = now, over'[b] = FoundOver(j, b)
  PROVE  Override(l, b)' = Override(k, b)
<1>1. now \in Nat /\ OverrideTTL \in Nat /\ OverrideTTL > 0
  BY Lifetimes DEF Serves
<1>2. CASE Override(j, b) = 0
  BY <1>2 DEF FoundOver, Override, Alive
<1>3. CASE Override(j, b) # 0
  <2>1. /\ Alive(over[b]) /\ over[b].anchor = j.conf /\ over[b].max # 0
        /\ Override(j, b) = over[b].max
    BY <1>3 DEF Override
  <2>2. over'[b] = [max |-> over[b].max, anchor |-> j.conf, exp |-> now + OverrideTTL]
    BY <1>3, <2>1 DEF FoundOver, OverrideOf
  <2>3. over'[b].max = over[b].max /\ over'[b].anchor = j.conf /\ over'[b].exp > now
    BY <1>1, <2>2
  <2> QED BY <2>1, <2>3 DEF Override, Alive
<1> QED BY <1>2, <1>3

(* What refill makes of the amount survives it as well.                    *)
LEMMA AccrueKept ==
  ASSUME NEW b, NEW j, NEW k, NEW l, Serves(j, b), Serves(k, b),
         l.conf = k.conf, now' = now,
         state'[b].cap = state[b].cap, state'[b].last = state[b].last,
         state'[b].exp \in Nat,
         \/ /\ Override(j, b) = 0
            /\ hist'[b] = Retained(History(b), now + BucketTTL, state'[b].exp)
         \/ /\ Override(j, b) # 0
            /\ hist'[b] = HistoryOf(j, b, Override(j, b), state'[b].exp),
         Override(l, b)' = Override(k, b)
  PROVE  Accrue(l, b, state[b], History(b))' = Accrue(k, b, state[b], History(b))
<1> DEFINE h == History(b)
<1>1. /\ now \in Nat /\ BucketTTL \in Nat /\ BucketTTL > 0 /\ NoHist.exp = 0
      /\ h \in Histories /\ EffectiveMax(l, b)' = EffectiveMax(k, b)
  BY Lifetimes, HistoryType DEF Serves, EffectiveMax, NoHist
<1>2. PICK g : g = History(b)'
  OBVIOUS
<1>3. PICK st : st = state'[b]
  OBVIOUS
<1>4. Accrue(l, b, state[b], History(b))' =
        IF g.exp = 0 \/ Override(k, b) # 0 \/ g.anchor # k.conf \/ now < g.until
          THEN st.cap + Greater(0, now - st.last) * EffectiveMax(k, b)
          ELSE st.cap + Greater(0, g.until - st.last) * g.max
                      + Greater(0, now - Greater(st.last, g.until)) * k.conf
  BY <1>1, <1>2, <1>3 DEF Accrue
<1>5. Accrue(k, b, state[b], h) =
        IF h.exp = 0 \/ Override(k, b) # 0 \/ h.anchor # k.conf \/ now < h.until
          THEN st.cap + Greater(0, now - st.last) * EffectiveMax(k, b)
          ELSE st.cap + Greater(0, h.until - st.last) * h.max
                      + Greater(0, now - Greater(st.last, h.until)) * k.conf
  BY <1>3 DEF Accrue
<1>6. CASE Override(k, b) # 0
  BY <1>4, <1>5, <1>6
<1>7. CASE Override(k, b) = 0 /\ Override(j, b) = 0
  <2>1. now + BucketTTL \in Nat /\ now + BucketTTL > now
    BY <1>1
  <2>2. hist'[b] = Retained(h, now + BucketTTL, state'[b].exp)
    BY <1>7
  <2>3. CASE h.exp = 0
    <3>1. hist'[b] = NoHist
      BY <2>2, <2>3 DEF Retained
    <3>2. g.exp = 0
      BY <1>1, <1>2, <3>1 DEF History
    <3> QED BY <1>4, <1>5, <2>3, <3>2
  <2>4. CASE h.exp # 0
    <3>1. PICK x : x = hist'[b]
      OBVIOUS
    <3>2. PICK e \in Nat : e = state'[b].exp
      OBVIOUS
    <3>3. x = Retained(h, now + BucketTTL, e)
      BY <2>2, <3>1, <3>2
    <3> HIDE DEF h
    <3>4. /\ x.max = h.max /\ x.anchor = h.anchor /\ x.until = h.until
          /\ x.exp >= now + BucketTTL /\ x \in Histories
      BY <1>1, <2>1, <2>4, <3>2, <3>3, RetainedType
    <3>5. x.exp > now /\ x.exp # 0
      BY <1>1, <2>1, <3>4 DEF Histories
    <3>6. g = x
      BY <1>2, <3>1, <3>5 DEF History, Alive
    <3> QED BY <1>4, <1>5, <2>4, <3>4, <3>5, <3>6 DEF h
  <2> QED BY <2>3, <2>4
<1>8. CASE Override(k, b) = 0 /\ Override(j, b) # 0
  <2>1. /\ Alive(over[b]) /\ over[b].anchor = j.conf /\ over[b].max # 0
        /\ j.conf # k.conf /\ over[b].exp # 0
    BY <1>1, <1>8 DEF Override, Alive
  <2>2. h.exp # 0 => h.anchor = over[b].anchor
    BY <2>1, HistoryType DEF Serves, BucketKeys
  <2>3. g.anchor = j.conf
    <3>1. PICK m \in Nat : m = Override(j, b)
      BY EffectiveMaxType
    <3>2. PICK e \in Nat : e = state'[b].exp
      OBVIOUS
    <3>3. hist'[b] = HistoryOf(j, b, m, e)
      BY <1>8, <3>1, <3>2
    <3>4. HistoryOf(j, b, m, e).exp > now
      BY OverrideType
    <3>5. g = HistoryOf(j, b, m, e)
      BY <1>2, <3>3, <3>4 DEF History, Alive
    <3> QED BY <3>5 DEF HistoryOf
  <2> QED BY <1>4, <1>5, <2>1, <2>2, <2>3
<1> QED BY <1>6, <1>7, <1>8

(* A read by the object j leaves the amount that the object k finds.       *)
LEMMA AmountKept ==
  ASSUME NEW b, NEW j, NEW k, NEW l, Serves(j, b), Serves(k, b),
         l.conf = k.conf, now' = now, state'[b] = Found(j, b),
         over'[b] = FoundOver(j, b), hist'[b] = FoundHist(j, b),
         Complete(b) \/ (FreshStart(j, b) /\ FreshStart(k, b) /\ l = k)
  PROVE  Amount(l, b)' = Amount(k, b)
<1>1. Override(l, b)' = Override(k, b)
  BY OverrideKept
<1>2. EffectiveMax(l, b)' = EffectiveMax(k, b)
  BY <1>1 DEF EffectiveMax
<1>3. Full(b, EffectiveMax(l, b))' = Full(b, EffectiveMax(k, b))
  BY <1>2 DEF Full
<1>4. CASE Complete(b)
  <2>1. /\ state'[b] = Refreshed(j, b) /\ Present(b) = Pair /\ Alive(state[b])
        /\ Pair # {}
    BY <1>4 DEF Found, Complete, Present, Pair
  <2>2. /\ state'[b] \in States /\ state'[b].keys = Pair
        /\ state'[b].cap = state[b].cap /\ state'[b].last = state[b].last
        /\ state'[b].exp >= now + BucketTTL
    BY <2>1, RefreshedType DEF Present
  <2>3. state'[b].exp \in Nat /\ state'[b].exp > now
    BY <2>2, Lifetimes DEF States, Serves
  <2>4. Complete(b)'
    BY <2>2, <2>3 DEF Complete, Present, Alive
  <2>5. /\ ~ FreshStart(k, b) /\ ~ Lost(k, b)
        /\ ~ FreshStart(l, b)' /\ ~ Lost(l, b)'
    BY <1>4, <2>1, <2>4 DEF FreshStart, Lost, Complete
  <2>6. \/ /\ Override(j, b) = 0
           /\ hist'[b] = Retained(History(b), now + BucketTTL, state'[b].exp)
        \/ /\ Override(j, b) # 0
           /\ hist'[b] = HistoryOf(j, b, Override(j, b), state'[b].exp)
    BY DEF FoundHist
  <2>7. Accrue(l, b, state[b], History(b))' = Accrue(k, b, state[b], History(b))
    BY <1>1, <2>2, <2>3, <2>6, AccrueKept
  <2> QED BY <1>3, <2>5, <2>7 DEF Amount
<1>5. CASE FreshStart(j, b) /\ FreshStart(k, b) /\ l = k
  <2>1. state'[b] = NoState
    BY <1>5 DEF Found, FreshStart, Complete, Lost, Pair
  <2>2. Present(b)' = {}
    BY <2>1 DEF Present, NoState
  <2>3. FreshStart(l, b)'
    BY <1>5, <2>2 DEF FreshStart, Suspected
  <2> QED BY <1>3, <1>5, <2>3 DEF Amount
<1> QED BY <1>4, <1>5

(* Reading is harmless: no process finds other amounts after the read of   *)
(* another than before, unless state was evicted.                          *)
LEMMA ReadAmounts ==
  ASSUME Typed, Evidence, evictions = 0, NEW p \in Procs, NEW q \in Procs,
         Read(q), now' = now, NEW b \in Mine(p)
  PROVE  Amount(proc[p][b], b)' = Amount(proc[p][b], b)
<1>1. World /\ b \in Buckets
  BY RedisAssumption DEF Typed, World, ProcTypes, IsProc, Mine
<1>2. PICK l : l = proc'[p][b]
  OBVIOUS
<1>3. PICK k : k = proc[p][b]
  OBVIOUS
<1>4. l.conf = k.conf /\ Serves(k, b)
  BY <1>1, <1>2, <1>3, ReadKeeps, ServesMine
<1>5. CASE b \notin Mine(q)
  <2>1. proc'[p] = proc[p]
    BY <1>1, <1>5 DEF Read, World, ProcTypes
  <2>2. state'[b] = state[b] /\ over'[b] = over[b] /\ hist'[b] = hist[b]
    BY <1>1, <1>5 DEF Read
  <2>3. Amount(l, b)' = Amount(l, b)
    BY <2>2 DEF Amount, EffectiveMax, Override, FreshStart, Lost, Complete, Present,
       Suspected, Accrue, History, Alive
  <2> QED BY <1>2, <2>1, <2>3
<1>6. CASE b \in Mine(q)
  <2>1. PICK j : j = proc[q][b]
    OBVIOUS
  <2>2. Serves(j, b) /\ (Complete(b) \/ FreshStart(j, b))
    BY <1>1, <1>6, <2>1, ServesMine, NoneLost
  <2>3. Complete(b) \/ FreshStart(k, b)
    BY <1>3, NoneLost
  <2>4. ~ Complete(b) => l = k
    <3> SUFFICES ASSUME ~ Complete(b) PROVE proc'[p][b] = proc[p][b]
      BY <1>2, <1>3
    <3>1. FreshStart(proc[q][b], b)
      BY <2>1, <2>2
    <3> DEFINE o == [a \in Mine(q) |->
                       IF FreshStart(proc[q][a], a) THEN proc[q][a]
                       ELSE [proc[q][a] EXCEPT !.confirmed = {now}]]
    <3>2. proc' = [proc EXCEPT ![q] = o]
      BY DEF Read
    <3>3. o[b] = proc[q][b]
      BY <1>6, <3>1
    <3> HIDE DEF o
    <3> QED BY <1>1, <3>2, <3>3 DEF World, ProcTypes
  <2>5. /\ state'[b] = Found(j, b) /\ over'[b] = FoundOver(j, b)
        /\ hist'[b] = FoundHist(j, b)
    BY <1>1, <1>6, <2>1 DEF Read
  <2>6. Amount(l, b)' = Amount(k, b)
    BY <1>4, <2>2, <2>3, <2>4, <2>5, AmountKept
  <2> QED BY <1>2, <1>3, <2>6
<1> QED BY <1>5, <1>6

(* A lock is held for a bucket that its holder's process has.              *)
LockHolders ==
  \A b \in Buckets, c \in Callers : lock[b] = {c} => b \in Mine(P(c))

(* Without a stall a call that writes holds the locks of all its buckets.  *)
Guarded ==
  ~ stalled =>
    \A c \in Callers : call[c].pc \in {"write", "sent"} =>
      \A b \in Mine(P(c)) : lock[b] = {c}

(* What a call has read is what it would find again, in the same second,   *)
(* in every bucket whose lock it still holds.                              *)
ReadAt(c, b) ==
  /\ call[c].pc \in {"extend", "write"} /\ lock[b] = {c}
  /\ call[c].rd.time = now

Accurate ==
  ~ stalled /\ evictions = 0 =>
    \A c \in Callers : \A b \in DOMAIN call[c].amount :
      ReadAt(c, b) => Amount(proc[P(c)][b], b) = call[c].rd.amount[b]

(* What nobody touches is found again.                                     *)
LEMMA AmountSame ==
  ASSUME NEW p, NEW b, state'[b] = state[b], over'[b] = over[b],
         hist'[b] = hist[b], now' = now, proc'[p][b] = proc[p][b]
  PROVE  Amount(proc[p][b], b)' = Amount(proc[p][b], b)
<1>1. PICK k : k = proc[p][b]
  OBVIOUS
<1>2. Amount(k, b)' = Amount(k, b)
  BY DEF Amount, EffectiveMax, Override, FreshStart, Lost, Complete, Present,
     Suspected, Accrue, History, Alive
<1> QED BY <1>1, <1>2

(* The locks after a step of a caller                                      *)
LEMMA LocksAfter ==
  ASSUME Typed, NEW c \in Callers, StoreKind(c), NEW b \in Buckets
  PROVE  /\ \A d \in Callers : lock[b] = {d} /\ d # c => lock'[b] = {d}
         /\ \A d \in Callers : lock'[b] = {d} =>
              lock[b] = {d} \/ (d = c /\ b \in Mine(P(c)))
<1>1. CASE lock' = lock
  BY <1>1
<1>2. CASE lock' = Released(c)
  <2>1. lock'[b] = lock[b] \ {c}
    BY <1>2 DEF Released
  <2>2. lock[b] = {} \/ \E d \in Callers : lock[b] = {d}
    BY DEF Typed, LockTypes
  <2> QED BY <2>1, <2>2
<1>3. CASE \E a \in Mine(P(c)) : lock[a] = {} /\ lock' = [lock EXCEPT ![a] = {c}]
  <2>1. PICK a \in Mine(P(c)) : lock[a] = {} /\ lock' = [lock EXCEPT ![a] = {c}]
    BY <1>3
  <2>2. lock = [x \in Buckets |-> lock[x]]
    BY DEF Typed, LockTypes
  <2>3. lock'[b] = IF b = a THEN {c} ELSE lock[b]
    BY <2>1, <2>2
  <2> QED BY <2>1, <2>3
<1> QED BY <1>1, <1>2, <1>3 DEF StoreKind, Rests, Waits, Releases, Takes, Looks,
           Extends, Executes

LockInv == LockHolders /\ Guarded /\ Accurate

(* A step of a caller: the guards                                          *)
LEMMA KindGuards ==
  ASSUME Typed, LockHolders, Guarded, NEW c \in Callers, Kind(c)
  PROVE  LockHolders' /\ Guarded'
<1>1. PICK r \in Ids : StoreKind(c) /\ CallKind(c, r)
  BY DEF Kind
<1>2. /\ now' = now /\ stalled' = stalled
      /\ \A q \in Procs : Mine(q)' = Mine(q)
  BY <1>1, StoreKindKeeps DEF StoreKind
<1>3. call' = call \/ Others(c)
  BY <1>1, <1>2, CallKindTypes, GetsOne
<1>4. \A d \in Callers : Mine(P(d))' = Mine(P(d)) /\ Mine(P(d)) \subseteq Buckets
  BY <1>2, ProcOfCaller DEF Mine, P, Typed, ProcTypes, IsProc
<1>5. LockHolders'
  <2>1. ASSUME NEW b \in Buckets, NEW d \in Callers, lock'[b] = {d}
        PROVE  b \in Mine(P(d))
    BY <1>1, <2>1, LocksAfter DEF LockHolders
  <2> QED BY <1>4, <2>1 DEF LockHolders
<1>6. Guarded'
  <2> SUFFICES ASSUME ~ stalled', NEW d \in Callers,
                      call'[d].pc \in {"write", "sent"}, NEW b \in Mine(P(d))
               PROVE  lock'[b] = {d}
    BY <1>4 DEF Guarded
  <2>1. b \in Buckets /\ ~ stalled
    BY <1>2, <1>4
  <2>2. CASE d # c
    <3>1. lock[b] = {d}
      BY <1>3, <2>1, <2>2 DEF Guarded, Others
    <3> QED BY <1>1, <2>1, <2>2, <3>1, LocksAfter
  <2>3. CASE d = c
    <3>1. CASE Waits
      <4>1. lock' = lock /\ call' = call
        BY <3>1 DEF Waits
      <4> QED BY <2>1, <4>1 DEF Guarded
    <3>2. CASE Extends(c)
      <4>1. Owned(c) /\ lock' = lock /\ call[c].locks = Mine(P(c))
        BY <3>2 DEF Extends, Typed, CallTypes, RecSound, Section
      <4> QED BY <2>3, <4>1 DEF Owned, Mistrusted
    <3>3. CASE Executes(c)
      <4>1. lock' = lock /\ call[c].pc \in {"write", "sent"}
        BY <3>3 DEF Executes
      <4> QED BY <2>1, <2>3, <4>1 DEF Guarded
    <3>4. ~ (Rests(c) \/ Releases(c) \/ Takes(c) \/ Looks(c))
      BY <2>3 DEF Rests, Releases, Takes, Looks, Writing
    <3> QED BY <1>1, <3>1, <3>2, <3>3, <3>4 DEF StoreKind
  <2> QED BY <2>2, <2>3
<1> QED BY <1>5, <1>6

(* A step of a caller: what calls have read                                *)
LEMMA KindAccurate ==
  ASSUME Typed, Evidence, LockInv, NEW c \in Callers, Kind(c)
  PROVE  Accurate'
<1>1. PICK r \in Ids : StoreKind(c) /\ CallKind(c, r)
  BY DEF Kind
<1>2. /\ now' = now /\ stalled' = stalled /\ evictions' = evictions
      /\ \A q \in Procs : Mine(q)' = Mine(q)
  BY <1>1, StoreKindKeeps DEF StoreKind
<1>3. call' = call \/ Others(c)
  BY <1>1, <1>2, CallKindTypes, GetsOne
<1>4. /\ World /\ P(c) \in Procs
      /\ \A d \in Callers : RecSound(d, call[d])
  BY RedisAssumption, ProcOfCaller DEF Typed, World, CallTypes
<1> SUFFICES ASSUME ~ stalled, evictions = 0, NEW d \in Callers,
                    NEW b \in DOMAIN call'[d].amount, ReadAt(d, b)'
             PROVE  Amount(proc[P(d)][b], b)' = call'[d].rd.amount[b]
  BY <1>2 DEF Accurate, P
<1>5. /\ call'[d].pc \in {"extend", "write"} /\ lock'[b] = {d}
      /\ call'[d].rd.time = now
  BY <1>2 DEF ReadAt
<1>6. \A x \in Callers : \A a \in Mine(P(x)) :
        call[x].pc \in {"write", "sent"} => lock[a] = {x}
  BY DEF LockInv, Guarded
(* The call that reads *)
<1>7. CASE Looks(c) /\ d = c
  <2>1. call'[c].rd = Reading(P(c)) /\ DOMAIN call'[c].amount = Mine(P(c))
        /\ Read(P(c))
    BY <1>5, <1>7 DEF Looks
  <2>2. b \in Mine(P(c)) /\ call'[c].rd.amount[b] = Amount(proc[P(c)][b], b)
    BY <1>7, <2>1 DEF Reading
  <2>3. Amount(proc[P(c)][b], b)' = Amount(proc[P(c)][b], b)
    BY <1>2, <1>4, <2>1, <2>2, ReadAmounts
  <2> QED BY <1>7, <2>2, <2>3
(* The other calls, and those that have read *)
<1>8. CASE ~ (Looks(c) /\ d = c)
  <2>1. /\ b \in DOMAIN call[d].amount /\ call[d].pc \in {"extend", "write"}
        /\ call[d].rd = call'[d].rd
        /\ d = c => Waits \/ Extends(c)
    <3>1. CASE d # c
      BY <1>3, <1>5, <3>1 DEF Others
    <3>2. CASE d = c
      <4>1. Waits \/ Extends(c)
        BY <1>1, <1>5, <1>8, <3>2
           DEF StoreKind, Rests, Releases, Takes, Executes, Writing
      <4>2. CASE Waits
        <5>1. call' = call
          BY <4>2 DEF Waits
        <5> QED BY <1>5, <3>2, <4>1, <5>1
      <4>3. CASE Extends(c)
        <5>1. RecSound(c, call[c])
          BY <1>4
        <5>2. /\ call[c].pc = "extend"
              /\ call'[c].amount = call[c].amount /\ call'[c].rd = call[c].rd
          BY <4>3, <5>1 DEF Extends, RecSound
        <5> QED BY <1>5, <3>2, <4>1, <5>2
      <4> QED BY <4>1, <4>2, <4>3
    <3> QED BY <3>1, <3>2
  <2>2. b \in Mine(P(d)) /\ b \in Buckets /\ P(d) \in Procs
    BY <1>4, <2>1, ProcOfCaller
       DEF RecSound, Writable, World, ProcTypes, IsProc, Mine
  <2>3. lock[b] = {d}
    <3>1. CASE d = c
      BY <1>5, <2>1, <3>1 DEF Waits, Extends
    <3>2. CASE d # c
      BY <1>1, <1>5, <2>2, <3>2, LocksAfter
    <3> QED BY <3>1, <3>2
  <2>4. Amount(proc[P(d)][b], b) = call'[d].rd.amount[b]
    <3>1. ReadAt(d, b)
      BY <1>5, <2>1, <2>3 DEF ReadAt
    <3> QED BY <2>1, <3>1 DEF LockInv, Accurate
  <2>5. Amount(proc[P(d)][b], b)' = Amount(proc[P(d)][b], b)
    <3>1. CASE Looks(c)
      BY <1>2, <1>4, <2>2, <3>1, ReadAmounts DEF Looks
    <3>2. CASE UNCHANGED <<keys, proc>>
      BY <1>2, <3>2, AmountSame DEF keys
    <3>3. CASE Releases(c) /\ proc' # proc
      <4>1. /\ call[c].pc = "sent" /\ UNCHANGED keys
            /\ Confirm(P(c), DOMAIN call[c].amount, call[c].rd.time)
        BY <3>3 DEF Releases
      <4>2. /\ call[c].rd.time \in 0..now
            /\ DOMAIN call[c].amount \subseteq Mine(P(c))
        BY <1>4 DEF RecSound, Writable
      <4>3. \/ proc'[P(d)][b] = proc[P(d)][b]
            \/ b \in DOMAIN call[c].amount
        BY <1>2, <1>4, <2>2, <4>1, <4>2, ConfirmKeeps
      <4>4. b \notin DOMAIN call[c].amount
        <5>1. ASSUME b \in DOMAIN call[c].amount PROVE FALSE
          <6>1. lock[b] = {c}
            BY <1>6, <4>1, <4>2, <5>1
          <6>2. d # c
            BY <2>1, <4>1
          <6> QED BY <2>3, <6>1, <6>2
        <5> QED BY <5>1
      <4> QED BY <1>2, <4>1, <4>3, <4>4, AmountSame DEF keys
    <3>4. CASE /\ Executes(c) /\ proc' = proc
               /\ WriteState(P(c), call[c].amount, call[c].rd)
      <4>1. Writable(P(c), call[c].amount, call[c].rd)
        BY <1>4 DEF RecSound
      <4>2. b \notin DOMAIN call[c].amount
        <5>1. ASSUME b \in DOMAIN call[c].amount PROVE FALSE
          <6>1. lock[b] = {c}
            BY <1>6, <3>4, <4>1, <5>1 DEF Executes, Writable
          <6>2. d # c
            BY <1>5, <3>4 DEF Executes
          <6> QED BY <2>3, <6>1, <6>2
        <5> QED BY <5>1
      <4>3. state'[b] = state[b] /\ over'[b] = over[b] /\ hist'[b] = hist[b]
        BY <1>2, <1>4, <2>2, <3>4, <4>1, <4>2, WriteKeeps
      <4> QED BY <1>2, <3>4, <4>3, AmountSame
    <3> QED BY <1>1, <3>1, <3>2, <3>3, <3>4
            DEF StoreKind, Rests, Waits, Releases, Takes, Extends, Executes
  <2> QED BY <2>4, <2>5
<1> QED BY <1>7, <1>8

(* A step of the network, the server or an operator: nobody writes.        *)
LEMMA LocksElsewhere ==
  ASSUME Typed, LockInv, lock' = lock, call' = call, stalled' = stalled,
         \/ evictions' # 0 /\ proc' = proc
         \/ now' # now /\ now \in Nat /\ proc' = proc /\ now' = now + 1
         \/ /\ Unlocked
            /\ \E p \in Procs : /\ Resting(p)
                                /\ \A o \in Procs \ {p} : proc'[o] = proc[o]
  PROVE  LockInv'
<1>1. \A d \in Callers : P(d)' = P(d) /\ P(d) \in Procs
  BY ProcOfCaller DEF P
<1>2. \A b \in Buckets : Unlocked => lock[b] = {}
  BY DEF Unlocked
<1>3. LockHolders'
  <2> SUFFICES ASSUME NEW b \in Buckets, NEW c \in Callers, lock'[b] = {c}
               PROVE  b \in Mine(P(c))'
    BY <1>1 DEF LockHolders
  <2>1. ~ Unlocked /\ b \in Mine(P(c))
    BY <1>2 DEF LockInv, LockHolders
  <2> QED BY <1>1, <2>1 DEF Mine
<1>4. Guarded'
  <2> SUFFICES ASSUME ~ stalled, NEW c \in Callers, call[c].pc \in {"write", "sent"},
                      NEW b \in Mine(P(c))'
               PROVE  lock[b] = {c}
    BY <1>1 DEF Guarded
  <2>1. proc'[P(c)] = proc[P(c)]
    BY <1>1 DEF Resting, At
  <2> QED BY <1>1, <2>1 DEF LockInv, Guarded, Mine
<1>5. Accurate'
  <2> SUFFICES ASSUME ~ stalled, evictions' = 0, NEW c \in Callers,
                      NEW b \in DOMAIN call[c].amount,
                      call[c].pc \in {"extend", "write"}, lock[b] = {c},
                      call[c].rd.time = now'
               PROVE  FALSE
    BY DEF Accurate, ReadAt
  <2>1. call[c].rd.time \in 0..now /\ b \in Buckets
    BY ProcOfCaller DEF Typed, CallTypes, RecSound, Writable, ProcTypes, IsProc, Mine
  <2> QED BY <1>2, <2>1
<1> QED BY <1>3, <1>4, <1>5 DEF LockInv

(* Locks that lapse under a call that writes stall it.                     *)
LEMMA LapseLocks ==
  ASSUME Typed, LockInv, NEW c \in Callers, NEW bs \in SUBSET Buckets,
         LockLapses(c, bs), evictions' = evictions
  PROVE  LockInv'
<1>1. /\ now' = now /\ call' = call /\ proc' = proc
      /\ state' = state /\ over' = over /\ hist' = hist
      /\ (stalled => stalled')
      /\ bs \subseteq call[c].locks /\ call[c].pc \in {"write", "sent"} => stalled'
  BY DEF LockLapses, keys
<1>2. \A b \in Buckets : lock'[b] = IF b \in bs THEN {} ELSE lock[b]
  BY DEF LockLapses
<1>3. \A d \in Callers : P(d)' = P(d) /\ P(d) \in Procs /\ Mine(P(d))' = Mine(P(d))
                         /\ Mine(P(d)) \subseteq Buckets
  BY <1>1, ProcOfCaller DEF P, Mine, Typed, ProcTypes, IsProc
<1>4. \A b \in Buckets, d \in Callers : lock'[b] = {d} => lock[b] = {d}
  BY <1>2
<1>5. LockHolders'
  BY <1>3, <1>4 DEF LockInv, LockHolders
<1>6. Guarded'
  <2> SUFFICES ASSUME ~ stalled', NEW d \in Callers,
                      call[d].pc \in {"write", "sent"}, NEW b \in Mine(P(d))
               PROVE  lock'[b] = {d}
    BY <1>1, <1>3 DEF Guarded
  <2>1. b \in Buckets /\ lock[b] = {d}
    BY <1>1, <1>3 DEF LockInv, Guarded
  <2>2. ASSUME b \in bs PROVE FALSE
    <3>1. \A a \in bs : lock[a] = {c}
      BY DEF LockLapses
    <3>2. d = c
      BY <2>1, <2>2, <3>1
    <3>3. call[c].locks = Mine(P(c))
      BY <3>2 DEF Typed, CallTypes, RecSound, Section
    <3>4. bs \subseteq call[c].locks
      BY <3>1, <3>3 DEF LockInv, LockHolders
    <3> QED BY <1>1, <3>2, <3>4
  <2> QED BY <1>2, <2>1, <2>2
<1>7. Accurate'
  <2> SUFFICES ASSUME ~ stalled', evictions = 0, NEW d \in Callers,
                      NEW b \in DOMAIN call[d].amount,
                      call[d].pc \in {"extend", "write"}, lock'[b] = {d},
                      call[d].rd.time = now
               PROVE  Amount(proc[P(d)][b], b)' = call[d].rd.amount[b]
    BY <1>1, <1>3 DEF Accurate, ReadAt, P
  <2>1. b \in Buckets
    BY <1>3 DEF Typed, CallTypes, RecSound, Writable
  <2>2. ReadAt(d, b)
    BY <1>4, <2>1 DEF ReadAt
  <2>3. Amount(proc[P(d)][b], b) = call[d].rd.amount[b]
    BY <1>1, <2>2 DEF LockInv, Accurate
  <2> QED BY <1>1, <2>3, AmountSame
<1> QED BY <1>5, <1>6, <1>7 DEF LockInv

(* A process that dies leaves its locks, and the others what they had.     *)
LEMMA CrashLocks ==
  ASSUME Typed, LockInv, NEW p \in Procs, Crash(p), evictions' = evictions
  PROVE  LockInv'
<1>1. World
  BY RedisAssumption DEF Typed, World
<1>2. /\ now' = now /\ lock' = lock /\ stalled' = stalled
      /\ state' = state /\ over' = over /\ hist' = hist
  BY DEF Crash, keys
<1>3. \A q \in Procs : Mine(q)' = Mine(q) /\ Mine(q) \subseteq Buckets
  BY <1>1, CrashKeeps DEF Mine, World, ProcTypes, IsProc
<1>4. \A d \in Callers : P(d)' = P(d) /\ P(d) \in Procs
  BY ProcOfCaller DEF P
<1>5. \A d \in Callers : call'[d].pc # "idle" =>
        call'[d] = call[d] /\ proc'[P(d)] = proc[P(d)]
  <2> SUFFICES ASSUME NEW d \in Callers, call'[d].pc # "idle"
               PROVE  call'[d] = call[d] /\ proc'[P(d)] = proc[P(d)]
    OBVIOUS
  <2>1. Idle.pc = "idle"
    BY DEF Idle
  <2>2. ~ (P(d) = p /\ ~ At(d, "idle")) /\ call'[d] = call[d]
    BY <2>1 DEF Crash
  <2>3. P(d) # p
    BY <2>2 DEF At
  <2> QED BY <1>1, <1>4, <2>2, <2>3, CrashKeeps
<1>6. LockHolders'
  BY <1>2, <1>3, <1>4 DEF LockInv, LockHolders
<1>7. Guarded'
  BY <1>2, <1>3, <1>4, <1>5 DEF LockInv, Guarded
<1>8. Accurate'
  <2> SUFFICES ASSUME ~ stalled, evictions = 0, NEW d \in Callers,
                      NEW b \in DOMAIN call'[d].amount, ReadAt(d, b)'
               PROVE  Amount(proc[P(d)][b], b)' = call'[d].rd.amount[b]
    BY <1>2, <1>4 DEF Accurate
  <2>1. call'[d] = call[d] /\ proc'[P(d)] = proc[P(d)]
    BY <1>5 DEF ReadAt
  <2>2. ReadAt(d, b)
    BY <1>2, <2>1 DEF ReadAt
  <2>3. Amount(proc[P(d)][b], b) = call[d].rd.amount[b]
    BY <2>1, <2>2 DEF LockInv, Accurate
  <2> QED BY <1>2, <2>1, <2>3, AmountSame
<1> QED BY <1>6, <1>7, <1>8 DEF LockInv

(* Every step of the fleet                                                 *)
LEMMA LockNext == Typed /\ Evidence /\ LockInv /\ [Next]_allvars => LockInv'
<1> SUFFICES ASSUME Typed, Evidence, LockInv, [Next]_allvars PROVE LockInv'
  OBVIOUS
<1>1. ASSUME NEW c \in Callers, Kind(c) PROVE LockInv'
  BY <1>1, KindGuards, KindAccurate DEF LockInv
<1>2. CASE \E t \in Tasks : TaskStep(t) /\ UNCHANGED evictions
  BY <1>1, <1>2, TaskKind, TasksAssumption
<1>3. CASE \E s \in Threads : ThreadStep(s) /\ UNCHANGED evictions
  BY <1>1, <1>3, ThreadKind, ThreadsAssumption
<1>4. CASE \E c \in Callers, bs \in SUBSET Buckets :
             LockLapses(c, bs) /\ UNCHANGED evictions
  BY <1>4, LapseLocks
<1>5. CASE \E p \in Procs : OverrideLimit(p) \/ ConfigureLimit(p) \/ ReplaceConfig(p)
  <2>1. PICK p \in Procs : Commands(p)
    BY <1>5, CommandKind
  <2> QED BY <2>1, LocksElsewhere DEF Commands, calls, bounded
<1>6. CASE \E p \in Procs : Crash(p) /\ UNCHANGED evictions
  BY <1>6, CrashLocks
<1>7. CASE Tick /\ UNCHANGED <<calls, evictions>>
  <2>1. now \in Nat /\ now' = now + 1 /\ now' # now
    BY <1>7, RedisAssumption DEF Typed, Tick
  <2>2. lock' = lock /\ proc' = proc /\ call' = call /\ stalled' = stalled
    BY <1>7 DEF Tick, calls, bounded
  <2> QED BY <2>1, <2>2, LocksElsewhere
<1>8. CASE EvictState
  <2>1. evictions' # 0
    BY <1>8 DEF EvictState, Typed, BoundTypes
  <2>2. lock' = lock /\ proc' = proc /\ call' = call /\ stalled' = stalled
    BY <1>8 DEF EvictState, Evict, calls, bounded
  <2> QED BY <2>1, <2>2, LocksElsewhere
<1>9. CASE UNCHANGED allvars
  <2>1. /\ lock' = lock /\ proc' = proc /\ call' = call /\ stalled' = stalled
        /\ state' = state /\ over' = over /\ hist' = hist /\ now' = now
        /\ evictions' = evictions
    BY <1>9 DEF allvars, vars, store, keys, ids, calls, bounded
  <2>2. LockHolders' /\ Guarded'
    BY <2>1 DEF LockInv, LockHolders, Guarded, P, Mine
  <2>3. Accurate'
    BY <2>1, AmountSame DEF LockInv, Accurate, ReadAt, P
  <2> QED BY <2>2, <2>3 DEF LockInv
<1> QED BY <1>2, <1>3, <1>4, <1>5, <1>6, <1>7, <1>8, <1>9 DEF Next

(* Nobody holds a lock at first.                                           *)
LEMMA LockInit == FleetInit => LockInv
<1> SUFFICES ASSUME FleetInit PROVE LockInv
  OBVIOUS
<1>1. \A c \in Callers : call[c].pc = "idle"
  BY DEF FleetInit, Init, Idle
<1>2. \A b \in Buckets : lock[b] = {}
  BY DEF FleetInit, Init, StoreInit
<1> QED BY <1>1, <1>2 DEF LockInv, LockHolders, Guarded, Accurate, ReadAt

(* StaleWritesNeedAStall: unless a lock lapsed under a call that was       *)
(* writing, what a call writes about a bucket is computed from what the    *)
(* bucket still holds, as its owner's lock has been held since the read.   *)
THEOREM StaleWritesTakeAStall == Spec => []StaleWritesNeedAStall
<1>1. Typed /\ LockInv => StaleWritesNeedAStall
  <2> SUFFICES ASSUME Typed, LockInv, ~ stalled, evictions = 0, NEW c \in Callers,
                      NEW b \in DOMAIN call[c].amount, At(c, "write"),
                      call[c].rd.time = now
               PROVE  Amount(proc[P(c)][b], b) = call[c].rd.amount[b]
    BY DEF StaleWritesNeedAStall
  <2>1. b \in Mine(P(c))
    BY DEF Typed, CallTypes, RecSound, Writable
  <2>2. ReadAt(c, b)
    BY <2>1 DEF LockInv, Guarded, ReadAt, At
  <2> QED BY <2>2 DEF LockInv, Accurate
<1>2. Typed /\ Evidence /\ LockInv /\ [Next]_allvars
        => (Typed /\ Evidence /\ LockInv)'
  BY TypedNext, EvidenceNext, LockNext
<1> QED BY <1>1, <1>2, TypedInit, EvidenceInit, LockInit, PTL DEF Spec

-----------------------------------------------------------------------------
(* Debt and the life of the keys *)

(* The slowest rate at which a bucket refills that was last read at the    *)
(* time last: that of the override whose history is h, or the configured.  *)
SlowRate(conf, h, last) ==
  IF h.exp # 0 /\ h.anchor = conf /\ last < h.until THEN Lesser(h.max, conf)
  ELSE conf

(* At the rate s the state st is a window above zero when its keys expire. *)
Repays(b, st, s) ==
  /\ st.last + PerSeconds[b] <= st.exp
  /\ 0 <= st.cap + (st.exp - st.last - PerSeconds[b]) * s

(* A product grows with its factors.                                       *)
LEMMA ProductGrows ==
  ASSUME NEW x \in Nat, NEW y \in Nat, NEW s \in Nat, NEW r \in Nat,
         x <= y, s <= r
  PROVE  x * s \in Nat /\ y * r \in Nat /\ x * s <= y * r
<1>1. PICK d \in Nat : y = x + d
  <2>1. y - x \in Nat /\ y = x + (y - x)
    OBVIOUS
  <2> QED BY <2>1
<1>2. PICK e \in Nat : r = s + e
  <2>1. r - s \in Nat /\ r = s + (r - s)
    OBVIOUS
  <2> QED BY <2>1
<1>3. y * r = x * s + x * e + d * s + d * e
  BY <1>1, <1>2
<1>4. \A a, b \in Nat : a * b \in Nat
  OBVIOUS
<1>5. x * s \in Nat /\ x * e \in Nat /\ d * s \in Nat /\ d * e \in Nat
  BY <1>4
<1> QED BY <1>3, <1>5

(* A rounded quotient makes up for what it divides.                        *)
LEMMA CeilDivCovers ==
  ASSUME NEW a \in Nat, NEW n \in Nat \ {0}
  PROVE  CeilDiv(a, n) \in Nat /\ a <= CeilDiv(a, n) * n
<1> DEFINE x == a + n - 1  q == x \div n
<1>1. CeilDiv(a, n) = q /\ CeilDiv(a, n) \in Nat /\ x \in Nat
  BY CeilDivType DEF CeilDiv
<1> HIDE DEF x
<1>2. q \in Nat /\ x < n * q + n
  <2>1. n > 0 /\ n \in Nat
    OBVIOUS
  <2> QED BY <1>1, <2>1, SMTT(30)
<1> HIDE DEF q
<1>3. n * q = q * n /\ q * n \in Nat
  BY <1>2
<1> QED BY <1>1, <1>2, <1>3 DEF x

(* What repays at a rate repays at a faster one and in a longer life.      *)
LEMMA RepaysMore ==
  ASSUME NEW b \in Buckets, NEW st \in States, NEW s \in Nat, Repays(b, st, s),
         NEW new \in States, new.cap = st.cap, new.last = st.last,
         st.exp <= new.exp, NEW r \in Nat, s <= r
  PROVE  Repays(b, new, r)
<1> DEFINE x == st.exp - st.last - PerSeconds[b]
           y == new.exp - st.last - PerSeconds[b]
<1>1. PerSeconds[b] \in Nat /\ st.exp \in Nat /\ st.last \in Nat /\ st.cap \in Int
      /\ new.exp \in Nat
  BY Lifetimes DEF States
<1>2. x \in Nat /\ y \in Nat /\ x <= y
  BY <1>1 DEF Repays
<1>3. 0 <= st.cap + x * s /\ st.last + PerSeconds[b] <= st.exp
  BY DEF Repays
<1>4. x * s \in Nat /\ y * r \in Nat /\ x * s <= y * r
  BY <1>2, ProductGrows
<1>5. Repays(b, new, r) <=> /\ st.last + PerSeconds[b] <= new.exp
                            /\ 0 <= st.cap + y * r
  BY DEF Repays
<1> HIDE DEF x, y
<1>6. st.last + PerSeconds[b] <= new.exp
  BY <1>1, <1>3
<1>7. 0 <= st.cap + y * r
  BY <1>1, <1>3, <1>4
<1> QED BY <1>5, <1>6, <1>7

(* The life of what is written is long enough for the slower limit.        *)
LEMMA WrittenRepays ==
  ASSUME now \in Nat, NEW k \in BucketObject, NEW b \in Buckets,
         NEW amount \in Int, NEW max \in Nat \ {0}, NEW time \in 0..now
  PROVE  Repays(b, Written(k, b, amount, time, max), Lesser(max, k.conf))
<1> DEFINE low == Lesser(max, k.conf)  ttl == CapacityTTL(k, b, amount, max)
           per == PerSeconds[b]
           x == now + ttl - time - per
<1>1. low \in Nat \ {0}
  BY DEF Lesser, BucketObject
<1>2. /\ ttl \in Nat /\ ttl >= BucketTTL /\ BucketTTL \in Nat
      /\ per \in Nat /\ BucketTTL >= 2 * per
  BY CapacityTTLType, Lifetimes, RedisAssumption
<1>3. ASSUME time + per <= now + ttl, 0 <= amount + x * low
      PROVE  Repays(b, Written(k, b, amount, time, max), low)
  <2> DEFINE w == Written(k, b, amount, time, max)
  <2>1. w.cap = amount /\ w.last = time /\ w.exp = now + ttl
    BY DEF Written
  <2> HIDE DEF w, low, ttl
  <2>2. w.exp - w.last - per = x /\ w.last + per <= w.exp
    BY <1>3, <2>1, <1>2
  <2> HIDE DEF x
  <2>3. 0 <= w.cap + (w.exp - w.last - per) * low
    BY <1>3, <2>1, <2>2
  <2>4. Repays(b, w, low)
    BY <2>2, <2>3 DEF Repays
  <2> QED BY <2>4 DEF w
<1>4. time + per <= now + ttl /\ x \in Nat /\ ttl - per \in Nat /\ ttl - per <= x
  <2> HIDE DEF ttl, per, low
  <2> QED BY <1>2
<1>5. x * low \in Nat /\ (ttl - per) * low \in Nat /\ (ttl - per) * low <= x * low
  <2> HIDE DEF ttl, per, low, x
  <2> QED BY <1>1, <1>4, ProductGrows
<1>6. 0 <= amount + x * low
  <2>1. CASE amount >= 0
    <3> HIDE DEF ttl, per, low, x
    <3> QED BY <1>5, <2>1
  <2>2. CASE ~ amount >= 0
    <3> DEFINE paid == CeilDiv(- amount, low)
    <3>1. - amount \in Nat
      BY <2>2
    <3>2. paid \in Nat /\ - amount <= paid * low
      BY <1>1, <3>1, CeilDivCovers
    <3>3. ttl = Greater(BucketTTL, per + paid)
      BY <2>2 DEF CapacityTTL, DebtTTL
    <3>4. paid <= ttl - per
      <4> HIDE DEF paid, per, ttl
      <4> QED BY <1>2, <3>2, <3>3 DEF Greater
    <3>5. paid * low \in Nat /\ paid * low <= x * low
      <4> HIDE DEF paid, per, ttl, low, x
      <4>1. x \in Nat /\ paid \in Nat /\ low \in Nat /\ paid <= x
        BY <1>1, <1>2, <1>4, <3>2, <3>4
      <4> QED BY <4>1, ProductGrows
    <3> HIDE DEF paid, per, ttl, low, x
    <3> QED BY <1>5, <3>2, <3>5
  <2> QED BY <2>1, <2>2
<1> QED BY <1>3, <1>4, <1>6

(* The override of a bucket is the one its history tells of, and a live    *)
(* override has a history.                                                 *)
OverrideMatches(b) ==
  /\ hist[b].exp # 0 =>
       /\ over[b].max = hist[b].max /\ over[b].anchor = hist[b].anchor
       /\ over[b].max # 0
       /\ over[b].exp = hist[b].until /\ hist[b].until <= hist[b].exp
  /\ Alive(over[b]) => hist[b].exp # 0

(* Keeping a history does not shorten its life.                            *)
LEMMA RetainedLonger ==
  ASSUME NEW h \in Histories, NEW least \in Nat, NEW exp \in Nat, h.exp # 0
  PROVE  /\ Retained(h, least, exp).exp \in Nat
         /\ Retained(h, least, exp).exp >= h.exp
<1> DEFINE late == Latest({h.exp, least, exp})
<1>1. h.exp \in Nat /\ {h.exp, least, exp} = {h.exp, least, exp, exp}
  BY DEF Histories
<1>2. late \in Nat /\ late >= h.exp
  BY <1>1, LatestOfFour
<1>3. Retained(h, least, exp) = [h EXCEPT !.exp = late]
  BY DEF Retained
<1> HIDE DEF late
<1> QED BY <1>2, <1>3 DEF Histories

(* A new override comes with its history.                                  *)
LEMMA OverrideFields ==
  ASSUME NEW k, NEW b, Serves(k, b), NEW max \in Nat, NEW exp \in Nat
  PROVE  /\ OverrideOf(k, b, max).max = max
         /\ OverrideOf(k, b, max).anchor = k.conf
         /\ OverrideOf(k, b, max).exp = now + OverrideTTL
         /\ HistoryOf(k, b, max, exp).max = max
         /\ HistoryOf(k, b, max, exp).anchor = k.conf
         /\ HistoryOf(k, b, max, exp).until = now + OverrideTTL
         /\ HistoryOf(k, b, max, exp).exp \in Nat \ {0}
         /\ HistoryOf(k, b, max, exp).exp >= now + OverrideTTL
         /\ now + OverrideTTL > now
<1> DEFINE late == Latest({now + BucketTTL, now + OverrideTTL, History(b).exp, exp})
<1>1. /\ now + BucketTTL \in Nat /\ now + OverrideTTL \in Nat
      /\ now + OverrideTTL > now /\ History(b).exp \in Nat /\ now \in Nat
  BY Lifetimes, HistoryType DEF Serves, Histories
<1>2. late \in Nat /\ late >= now + OverrideTTL
  BY <1>1, LatestOfFour
<1>3. HistoryOf(k, b, max, exp) =
        [max |-> max, anchor |-> k.conf, until |-> now + OverrideTTL, exp |-> late]
  BY DEF HistoryOf
<1> HIDE DEF late
<1> QED BY <1>1, <1>2, <1>3 DEF OverrideOf

(* What a command does to override and history: both stay, are written     *)
(* together or go together.                                                *)
Kept(b) ==
  /\ over'[b] = over[b]
  /\ \E least, exp \in Nat : hist'[b] = Retained(History(b), least, exp)
Replaced(k, b, max) ==
  /\ over'[b] = OverrideOf(k, b, max)
  /\ \E exp \in Nat : hist'[b] = HistoryOf(k, b, max, exp)
Cleared(b) == over'[b] = NoOver /\ hist'[b] = NoHist

(* A history that stays, as far as it is there                             *)
LEMMA KeptHistory ==
  ASSUME NEW k, NEW b, Serves(k, b), Kept(b)
  PROVE  /\ hist'[b] \in Histories
         /\ hist'[b].exp = 0 => hist[b].exp <= now
         /\ hist'[b].exp # 0 =>
              /\ hist[b].exp # 0 /\ hist'[b].exp >= hist[b].exp
              /\ hist'[b].max = hist[b].max /\ hist'[b].anchor = hist[b].anchor
              /\ hist'[b].until = hist[b].until
<1>1. PICK least \in Nat, exp \in Nat : hist'[b] = Retained(History(b), least, exp)
  BY DEF Kept
<1> DEFINE h == History(b)
<1>2. /\ h \in Histories
      /\ h.exp # 0 => h = hist[b]
      /\ h.exp = 0 => hist[b].exp <= now
  BY HistoryType
<1>3. hist'[b] = Retained(h, least, exp)
  BY <1>1
<1> HIDE DEF h
<1>4. /\ Retained(h, least, exp) \in Histories
      /\ h.exp = 0 => Retained(h, least, exp).exp = 0
      /\ h.exp # 0 => /\ Retained(h, least, exp).max = h.max
                      /\ Retained(h, least, exp).anchor = h.anchor
                      /\ Retained(h, least, exp).until = h.until
  BY <1>1, <1>2, RetainedType
<1>5. CASE h.exp = 0
  BY <1>2, <1>3, <1>4, <1>5
<1>6. CASE h.exp # 0
  <2>1. h = hist[b]
    BY <1>2, <1>6
  <2>2. Retained(h, least, exp).exp \in Nat /\ Retained(h, least, exp).exp >= h.exp
    BY <1>1, <1>2, <1>6, RetainedLonger
  <2>3. hist'[b].exp # 0
    <3>1. h.exp \in Nat
      BY <1>2 DEF Histories
    <3> QED BY <1>3, <1>6, <2>2, <3>1
  <2> QED BY <1>3, <1>4, <1>6, <2>1, <2>2, <2>3
<1> QED BY <1>5, <1>6

(* They still match then.                                                  *)
LEMMA MatchKept ==
  ASSUME NEW k, NEW b, Serves(k, b), OverrideMatches(b), now' = now,
         Kept(b) \/ Cleared(b) \/ \E max \in Nat \ {0} : Replaced(k, b, max)
  PROVE  OverrideMatches(b)'
<1>1. CASE Kept(b)
  <2>1. /\ hist'[b] \in Histories /\ hist[b] \in Histories
        /\ over[b] \in Overrides /\ now \in Nat
    BY <1>1, KeptHistory DEF Serves, BucketKeys
  <2>2. over'[b] = over[b]
    BY <1>1 DEF Kept
  <2>3. CASE hist'[b].exp = 0
    <3>1. hist[b].exp <= now
      BY <1>1, <2>3, KeptHistory
    <3>2. ~ Alive(over[b])
      BY <2>1, <3>1 DEF OverrideMatches, Alive, Histories, Overrides
    <3> QED BY <2>2, <2>3, <3>2 DEF OverrideMatches, Alive
  <2>4. CASE hist'[b].exp # 0
    <3>1. /\ hist[b].exp # 0 /\ hist'[b].exp >= hist[b].exp
          /\ hist'[b].max = hist[b].max /\ hist'[b].anchor = hist[b].anchor
          /\ hist'[b].until = hist[b].until
      BY <1>1, <2>4, KeptHistory
    <3>2. hist'[b].until <= hist'[b].exp
      BY <2>1, <3>1 DEF OverrideMatches, Histories
    <3> QED BY <2>2, <2>4, <3>1, <3>2 DEF OverrideMatches
  <2> QED BY <2>3, <2>4
<1>2. CASE Cleared(b)
  BY <1>2 DEF Cleared, OverrideMatches, NoOver, NoHist, Alive, Serves
<1>3. CASE \E max \in Nat \ {0} : Replaced(k, b, max)
  <2>1. PICK max \in Nat \ {0} : Replaced(k, b, max)
    BY <1>3
  <2>2. PICK exp \in Nat : hist'[b] = HistoryOf(k, b, max, exp)
    BY <2>1 DEF Replaced
  <2>3. over'[b] = OverrideOf(k, b, max) /\ max \in Nat
    BY <2>1 DEF Replaced
  <2>4. /\ over'[b].max = max /\ over'[b].anchor = k.conf
        /\ over'[b].exp = now + OverrideTTL
        /\ hist'[b].max = max /\ hist'[b].anchor = k.conf
        /\ hist'[b].until = now + OverrideTTL
        /\ hist'[b].exp \in Nat \ {0} /\ hist'[b].exp >= now + OverrideTTL
    BY <2>2, <2>3, OverrideFields
  <2> QED BY <2>1, <2>4 DEF OverrideMatches
<1> QED BY <1>1, <1>2, <1>3

(* Reading, as far as override and history go                              *)
ReadOver(k, b) ==
  IF Override(k, b) = 0 THEN Kept(b) ELSE Replaced(k, b, Override(k, b))

(* The override in force is the one of the history.                        *)
LEMMA OverrideInForce ==
  ASSUME NEW k, NEW b, Serves(k, b), OverrideMatches(b)
  PROVE  /\ Override(k, b) # 0 =>
              /\ hist[b].exp # 0 /\ hist[b].anchor = k.conf
              /\ hist[b].max = Override(k, b) /\ now < hist[b].until
         /\ Override(k, b) = 0 =>
              hist[b].exp = 0 \/ hist[b].anchor # k.conf \/ hist[b].until <= now
<1>1. now \in Nat /\ over[b] \in Overrides /\ hist[b] \in Histories
  BY DEF Serves, BucketKeys
<1> QED BY <1>1 DEF Override, OverrideMatches, Alive, Overrides, Histories

(* No reading makes the slowest rate slower.                               *)
LEMMA SlowRateKept ==
  ASSUME NEW k, NEW b, Serves(k, b), OverrideMatches(b),
         ReadOver(k, b) \/ Kept(b), NEW conf \in Nat, NEW t \in 0..now
  PROVE  SlowRate(conf, hist[b], t) <= SlowRate(conf, hist'[b], t)
<1>1. /\ now \in Nat /\ hist[b] \in Histories
      /\ SlowRate(conf, hist[b], t) \in Nat /\ SlowRate(conf, hist[b], t) <= conf
  BY DEF Serves, BucketKeys, Histories, SlowRate, Lesser
<1>2. CASE Kept(b)
  <2>1. CASE hist'[b].exp = 0
    BY <1>1, <2>1 DEF SlowRate
  <2>2. CASE hist'[b].exp # 0
    <3>1. /\ hist[b].exp # 0
          /\ hist'[b].max = hist[b].max /\ hist'[b].anchor = hist[b].anchor
          /\ hist'[b].until = hist[b].until
      BY <1>2, <2>2, KeptHistory
    <3>2. SlowRate(conf, hist'[b], t) = SlowRate(conf, hist[b], t)
      BY <2>2, <3>1 DEF SlowRate
    <3> QED BY <1>1, <3>2
  <2> QED BY <2>1, <2>2
<1>3. CASE Override(k, b) # 0 /\ Replaced(k, b, Override(k, b))
  <2> DEFINE max == Override(k, b)
  <2>1. PICK exp \in Nat : hist'[b] = HistoryOf(k, b, max, exp)
    BY <1>3 DEF Replaced
  <2>2. max \in Nat
    BY EffectiveMaxType
  <2>3. /\ hist[b].exp # 0 /\ hist[b].anchor = k.conf
        /\ hist[b].max = max /\ now < hist[b].until
    BY <1>3, OverrideInForce
  <2> HIDE DEF max
  <2>4. /\ hist'[b].max = max /\ hist'[b].anchor = k.conf
        /\ hist'[b].until > now /\ hist'[b].until \in Nat /\ hist'[b].exp # 0
    BY <1>1, <2>1, <2>2, Lifetimes, OverrideFields
  <2>5. t < hist'[b].until /\ t < hist[b].until
    BY <1>1, <2>3, <2>4 DEF Histories
  <2>6. SlowRate(conf, hist'[b], t) = SlowRate(conf, hist[b], t)
    BY <2>3, <2>4, <2>5 DEF SlowRate
  <2> QED BY <1>1, <2>6
<1> QED BY <1>2, <1>3 DEF ReadOver

(* After a reading the slowest rate of what is written now is that of the  *)
(* limit in force, or of the configured one.                               *)
LEMMA SlowRateNow ==
  ASSUME NEW k, NEW b, Serves(k, b), OverrideMatches(b), ReadOver(k, b)
  PROVE  Lesser(EffectiveMax(k, b), k.conf) <= SlowRate(k.conf, hist'[b], now)
<1>1. /\ now \in Nat /\ k.conf \in Nat /\ hist[b] \in Histories
      /\ EffectiveMax(k, b) \in Nat /\ Override(k, b) \in Nat
  BY EffectiveMaxType DEF Serves, BucketKeys, BucketObject
<1>2. Lesser(EffectiveMax(k, b), k.conf) <= k.conf
  BY <1>1 DEF Lesser
<1>3. CASE Override(k, b) = 0
  <2>1. Kept(b)
    BY <1>3 DEF ReadOver
  <2>2. SlowRate(k.conf, hist[b], now) = k.conf
    <3>1. hist[b].exp = 0 \/ hist[b].anchor # k.conf \/ ~ now < hist[b].until
      BY <1>1, <1>3, OverrideInForce DEF Histories
    <3> QED BY <3>1 DEF SlowRate
  <2>3. SlowRate(k.conf, hist[b], now) <= SlowRate(k.conf, hist'[b], now)
    BY <1>1, <2>1, SlowRateKept
  <2>4. SlowRate(k.conf, hist'[b], now) \in Nat
    <3>1. hist'[b] \in Histories
      BY <2>1, KeptHistory
    <3> QED BY <1>1, <3>1 DEF SlowRate, Lesser, Histories
  <2> QED BY <1>1, <1>2, <2>2, <2>3, <2>4 DEF Lesser
<1>4. CASE Override(k, b) # 0
  <2> DEFINE max == Override(k, b)
  <2>1. PICK exp \in Nat : hist'[b] = HistoryOf(k, b, max, exp)
    BY <1>4 DEF ReadOver, Replaced
  <2>2. EffectiveMax(k, b) = max /\ max \in Nat
    BY <1>1, <1>4 DEF EffectiveMax
  <2> HIDE DEF max
  <2>3. /\ hist'[b].max = max /\ hist'[b].anchor = k.conf
        /\ hist'[b].until > now /\ hist'[b].exp # 0
    BY <1>1, <2>1, <2>2, Lifetimes, OverrideFields
  <2>4. now < hist'[b].until
    BY <1>1, <2>1, <2>2, Lifetimes, OverrideFields
  <2> QED BY <1>1, <2>2, <2>3, <2>4 DEF SlowRate, Lesser
<1> QED BY <1>3, <1>4

(* A rate is a natural, and positive where limits are.                     *)
LEMMA SlowRateType ==
  ASSUME NEW conf \in Nat, NEW h \in Histories, NEW t
  PROVE  SlowRate(conf, h, t) \in Nat /\ SlowRate(conf, h, t) <= conf
BY DEF SlowRate, Lesser, Histories

(* A reading finds a bucket that repays, or makes one.                     *)
LEMMA ReadRepays ==
  ASSUME NEW k, NEW b, Serves(k, b), OverrideMatches(b), ReadOver(k, b),
         hist'[b] \in Histories, state'[b] = Found(k, b), now' = now,
         state[b].keys = Pair =>
           Repays(b, state[b], SlowRate(k.conf, hist[b], state[b].last)),
         state'[b].keys = Pair
  PROVE  Repays(b, state'[b], SlowRate(k.conf, hist'[b], state'[b].last))
<1>1. /\ b \in Buckets /\ now \in Nat /\ k \in BucketObject /\ k.conf \in Nat
      /\ state[b] \in States /\ state[b].last <= now /\ state[b].last \in Nat
      /\ hist[b] \in Histories
  BY DEF Serves, BucketKeys, BucketObject, States
<1>2. CASE Complete(b)
  <2>1. state'[b] = Refreshed(k, b) /\ state[b].keys = Pair
    BY <1>2 DEF Found, Complete, Pair, Present
  <2>2. /\ state'[b] \in States /\ state'[b].cap = state[b].cap
        /\ state'[b].last = state[b].last /\ state[b].exp <= state'[b].exp
    <3>1. state[b].exp \in Nat /\ Refreshed(k, b) \in States
      BY <1>1, RefreshedType DEF States
    <3>2. Refreshed(k, b).exp >= state[b].exp /\ Refreshed(k, b).exp \in Nat
      BY <3>1, RefreshedType DEF States
    <3> QED BY <2>1, <3>1, <3>2, RefreshedType
  <2> DEFINE t == state[b].last
             old == SlowRate(k.conf, hist[b], t)
             new == SlowRate(k.conf, hist'[b], t)
  <2>3. t \in 0..now
    BY <1>1
  <2>4. old <= new
    BY <1>1, <2>3, SlowRateKept
  <2>5. old \in Nat /\ new \in Nat
    BY <1>1, SlowRateType
  <2>6. Repays(b, state[b], old)
    BY <2>1
  <2> HIDE DEF old, new
  <2>7. Repays(b, state'[b], new)
    BY <1>1, <2>2, <2>4, <2>5, <2>6, RepaysMore
  <2> QED BY <2>2, <2>7 DEF new
<1>3. CASE Lost(k, b)
  <2> DEFINE max == EffectiveMax(k, b)
             new == SlowRate(k.conf, hist'[b], now)
  <2>1. state'[b] = Written(k, b, 0, now, max)
    BY <1>3 DEF Found, Lost
  <2>2. max \in Nat \ {0} /\ now \in 0..now /\ 0 \in Int
    BY <1>1, EffectiveMaxType
  <2>3. Lesser(max, k.conf) <= new
    BY SlowRateNow
  <2>4. new \in Nat
    BY <1>1, SlowRateType
  <2> HIDE DEF max, new
  <2>5. Repays(b, state'[b], Lesser(max, k.conf))
    BY <1>1, <2>1, <2>2, WrittenRepays
  <2>6. state'[b] \in States
    BY <1>1, <2>1, <2>2, WrittenType
  <2>7. Lesser(max, k.conf) \in Nat
    BY <1>1, <2>2 DEF Lesser
  <2>8. Repays(b, state'[b], new)
    <3>1. state'[b].exp <= state'[b].exp
      BY <2>6 DEF States
    <3> QED BY <1>1, <2>3, <2>4, <2>5, <2>6, <2>7, <3>1, RepaysMore
  <2>9. state'[b].last = now
    BY <2>1 DEF Written
  <2> QED BY <2>8, <2>9 DEF new
<1>4. CASE ~ Complete(b) /\ ~ Lost(k, b)
  <2>1. state'[b] = NoState
    BY <1>4 DEF Found
  <2> QED BY <2>1 DEF NoState, Pair
<1> QED BY <1>2, <1>3, <1>4

(* What is written repays at any rate that is not slower than the limit it *)
(* was computed for.                                                       *)
LEMMA WriteRepays ==
  ASSUME now \in Nat, NEW k \in BucketObject, NEW b \in Buckets,
         NEW amount \in Int, NEW max \in Nat \ {0}, NEW time \in 0..now,
         NEW r \in Nat, Lesser(max, k.conf) <= r
  PROVE  /\ Repays(b, Written(k, b, amount, time, max), r)
         /\ Written(k, b, amount, time, max).last = time
<1> DEFINE st == Written(k, b, amount, time, max)
<1>1. Repays(b, st, Lesser(max, k.conf))
  BY WrittenRepays
<1>2. st \in States /\ st.last = time
  BY WrittenType DEF Written
<1>3. Lesser(max, k.conf) \in Nat
  BY DEF Lesser, BucketObject
<1> HIDE DEF st
<1>4. st.exp <= st.exp
  BY <1>2 DEF States
<1>5. Repays(b, st, r)
  BY <1>1, <1>2, <1>3, <1>4, RepaysMore
<1> QED BY <1>2, <1>5 DEF st

(* A bucket that a command anchors                                         *)
LEMMA AnchorRepays ==
  ASSUME NEW k, NEW b, Serves(k, b), NEW max \in Nat \ {0},
         state'[b] = Anchored(k, b, max), state'[b].keys = Pair,
         NEW r \in Nat, Lesser(Lesser(max, EffectiveMax(k, b)), k.conf) <= r
  PROVE  Repays(b, state'[b], r) /\ state'[b].last = now
<1> DEFINE low == Lesser(max, EffectiveMax(k, b))
<1>1. ~ FreshStart(k, b)
  BY DEF Anchored, NoState, Pair
<1>2. state'[b] = Written(k, b, Projected(k, b), now, low)
  BY <1>1 DEF Anchored
<1>3. Projected(k, b) \in Int
  BY AccrueType DEF Projected
<1>4. low \in Nat \ {0}
  BY EffectiveMaxType DEF Lesser
<1>5. now \in Nat /\ now \in 0..now /\ k \in BucketObject /\ b \in Buckets
  BY DEF Serves
<1> HIDE DEF low
<1>6. Lesser(low, k.conf) <= r
  BY DEF low
<1> QED BY <1>2, <1>3, <1>4, <1>5, <1>6, WriteRepays

(* What the state of a bucket is worth by now, at the slowest rate         *)
LEMMA AccruesAtLeast ==
  ASSUME NEW k, NEW b, Serves(k, b), OverrideMatches(b)
  PROVE  /\ Accrue(k, b, state[b], hist[b]) \in Int
         /\ Accrue(k, b, state[b], hist[b])
              >= state[b].cap + (now - state[b].last)
                                  * SlowRate(k.conf, hist[b], state[b].last)
<1> DEFINE cap == state[b].cap  last == state[b].last  h == hist[b]
           s == SlowRate(k.conf, h, last)  eff == EffectiveMax(k, b)
           acc == Accrue(k, b, state[b], h)
<1>1. /\ now \in Nat /\ cap \in Int /\ last \in Nat /\ last <= now
      /\ k.conf \in Nat /\ eff \in Nat
      /\ h \in Histories /\ h.max \in Nat /\ h.until \in Nat
      /\ s \in Nat /\ s <= k.conf /\ Override(k, b) \in Nat
  BY EffectiveMaxType, SlowRateType
     DEF Serves, BucketKeys, BucketObject, Histories, States
<1>2. eff = IF Override(k, b) # 0 THEN Override(k, b) ELSE k.conf
  BY DEF EffectiveMax
<1>3. CASE h.exp = 0 \/ Override(k, b) # 0 \/ h.anchor # k.conf \/ now < h.until
  <2>1. acc = cap + Greater(0, now - last) * eff
    BY <1>3 DEF Accrue
  <2>2. s <= eff
    <3>1. CASE Override(k, b) = 0
      BY <1>1, <1>2, <3>1
    <3>2. CASE Override(k, b) # 0
      <4>1. /\ h.exp # 0 /\ h.anchor = k.conf
            /\ h.max = Override(k, b) /\ now < h.until
        BY <3>2, OverrideInForce
      <4>2. last < h.until
        BY <1>1, <4>1
      <4>3. s = Lesser(h.max, k.conf)
        BY <4>1, <4>2 DEF SlowRate
      <4> HIDE DEF s, h, eff
      <4> QED BY <1>1, <1>2, <3>2, <4>1, <4>3 DEF Lesser
    <3> QED BY <3>1, <3>2
  <2> HIDE DEF s, h, eff, last, cap, acc
  <2>3. now - last \in Nat /\ Greater(0, now - last) = now - last
    BY <1>1 DEF Greater
  <2>4. /\ (now - last) * s \in Nat /\ (now - last) * eff \in Nat
        /\ (now - last) * s <= (now - last) * eff
    BY <1>1, <2>2, <2>3, ProductGrows
  <2>5. acc \in Int /\ acc >= cap + (now - last) * s
    BY <1>1, <2>1, <2>3, <2>4
  <2> QED BY <2>5 DEF s, h, last, cap, acc
<1>4. CASE ~ (h.exp = 0 \/ Override(k, b) # 0 \/ h.anchor # k.conf \/ now < h.until)
  <2>1. acc = cap + Greater(0, h.until - last) * h.max
                  + Greater(0, now - Greater(last, h.until)) * k.conf
    BY <1>4 DEF Accrue
  <2>2. s = IF last < h.until THEN Lesser(h.max, k.conf) ELSE k.conf
    BY <1>4 DEF SlowRate
  <2>3. h.until <= now
    BY <1>1, <1>4
  <2> HIDE DEF s, h, eff, last, cap, acc
  <2>4. acc \in Int /\ acc >= cap + (now - last) * s
    <3> DEFINE x == h.until - last  y == now - h.until
    <3>1. CASE last < h.until
      <4>1. x \in Nat /\ y \in Nat /\ now - last = x + y
            /\ Greater(0, h.until - last) = x
            /\ Greater(0, now - Greater(last, h.until)) = y
        BY <1>1, <2>3, <3>1 DEF Greater
      <4>2. s <= h.max /\ s <= k.conf
        BY <1>1, <2>2, <3>1 DEF Lesser
      <4> HIDE DEF x, y
      <4>3. /\ x * s \in Nat /\ x * h.max \in Nat /\ x * s <= x * h.max
            /\ y * s \in Nat /\ y * k.conf \in Nat /\ y * s <= y * k.conf
        BY <1>1, <4>1, <4>2, ProductGrows
      <4>4. (now - last) * s = x * s + y * s
        <5>1. (x + y) * s = x * s + y * s
          BY <1>1, <4>1
        <5> QED BY <4>1, <5>1
      <4>5. acc = cap + x * h.max + y * k.conf
        BY <2>1, <4>1
      <4> QED BY <1>1, <4>3, <4>4, <4>5
    <3>2. CASE ~ last < h.until
      <4>1. /\ Greater(0, h.until - last) = 0
            /\ Greater(0, now - Greater(last, h.until)) = now - last
        BY <1>1, <2>3, <3>2 DEF Greater
      <4>2. s = k.conf /\ 0 * h.max = 0
        BY <1>1, <2>2, <3>2
      <4>3. \A i, j \in Int : i * j \in Int
        OBVIOUS
      <4>4. now - last \in Int /\ (now - last) * s \in Int
        BY <1>1, <4>3
      <4>5. acc = cap + 0 + (now - last) * s
        BY <2>1, <4>1, <4>2
      <4> QED BY <1>1, <4>4, <4>5
    <3> QED BY <3>1, <3>2
  <2> QED BY <2>4 DEF s, h, last, cap, acc
<1> QED BY <1>3, <1>4

(* A state that repays has repaid when its keys expire.                    *)
LEMMA ExpiredRepaid ==
  ASSUME NEW k, NEW b, Serves(k, b), OverrideMatches(b), ~ Alive(state[b]),
         Repays(b, state[b], SlowRate(k.conf, hist[b], state[b].last))
  PROVE  Unexpired(k, b) >= SlowerFull(k, b)
<1> DEFINE cap == state[b].cap  last == state[b].last  exp == state[b].exp
           s == SlowRate(k.conf, hist[b], last)  per == PerSeconds[b]
           low == IF hist[b].exp # 0 /\ hist[b].anchor = k.conf
                    THEN Lesser(hist[b].max, k.conf) ELSE k.conf
           acc == Accrue(k, b, state[b], hist[b])
           x == exp - last - per  y == now - last
<1>1. /\ now \in Nat /\ cap \in Int /\ last \in Nat /\ exp \in Nat /\ exp <= now
      /\ per \in Nat /\ s \in Nat /\ low \in Nat /\ low <= s
      /\ hist[b] \in Histories /\ k.conf \in Nat
  <2>1. /\ now \in Nat /\ cap \in Int /\ last \in Nat /\ exp \in Nat
        /\ per \in Nat /\ hist[b] \in Histories /\ k.conf \in Nat
    BY Lifetimes DEF Serves, BucketKeys, BucketObject, States
  <2>2. exp <= now
    BY <2>1 DEF Alive
  <2>3. s \in Nat
    BY <2>1, SlowRateType
  <2>4. low \in Nat /\ low <= s
    BY <2>1 DEF SlowRate, Lesser, Histories
  <2> QED BY <2>1, <2>2, <2>3, <2>4
<1>2. acc \in Int /\ acc >= cap + y * s
  BY AccruesAtLeast
<1>3. last + per <= exp /\ 0 <= cap + x * s
  BY DEF Repays
<1>4. Unexpired(k, b) = acc /\ SlowerFull(k, b) = low * per
  BY DEF Unexpired, SlowerFull, Full
<1> HIDE DEF s, low, acc
<1>6. x \in Nat /\ y \in Nat /\ x + per \in Nat /\ x + per <= y
  BY <1>1, <1>3
<1> HIDE DEF x, y
<1>7. (x + per) * s \in Nat /\ y * s \in Nat /\ (x + per) * s <= y * s
  BY <1>1, <1>6, ProductGrows
<1>8. (x + per) * s = x * s + per * s /\ x * s \in Nat
  <2>1. \A i, j, l \in Nat : (i + j) * l = i * l + j * l /\ i * l \in Nat
    OBVIOUS
  <2> HIDE DEF per
  <2> QED BY <1>1, <1>6, <2>1
<1>9. per * low \in Nat /\ per * s \in Nat /\ per * low <= per * s
  <2>1. per <= per
    BY <1>1
  <2> HIDE DEF per
  <2> QED BY <1>1, <2>1, ProductGrows
<1>10. low * per = per * low
  <2>1. \A i, j \in Nat : i * j = j * i
    OBVIOUS
  <2> HIDE DEF per
  <2> QED BY <1>1, <2>1
<1>11. acc >= low * per
  <2> HIDE DEF per, cap
  <2> QED BY <1>1, <1>2, <1>3, <1>7, <1>8, <1>9, <1>10
<1> QED BY <1>4, <1>11

(* Every process that has b finds that its state repays.                   *)
Pays(b) ==
  \A q \in Procs :
    b \in Mine(q) /\ state[b].keys = Pair =>
      Repays(b, state[b], SlowRate(proc[q][b].conf, hist[b], state[b].last))

(* A call that still has the lock it read under writes for a limit that is *)
(* no faster than the rate of its bucket.                                  *)
Cautious(c, b) ==
  call[c].pc \in Writing /\ lock[b] = {c} =>
    Lesser(call[c].rd.max[b], proc[P(c)][b].conf)
      <= SlowRate(proc[P(c)][b].conf, hist[b], call[c].rd.time)

Matching == \A b \in Buckets : OverrideMatches(b)
Careful == \A c \in Callers : \A b \in DOMAIN call[c].amount : Cautious(c, b)
Solvent == \A b \in Buckets : Pays(b)

(* The processes agree on the limits, and no call has stalled.             *)
Concord == (\A b \in Buckets : Agreed(b)) /\ ~ stalled

(* What a caller's step does to the keys of a bucket                       *)
Untouched(b) == state'[b] = state[b] /\ over'[b] = over[b] /\ hist'[b] = hist[b]
Looked(p, b) ==
  /\ b \in Mine(p) /\ state'[b] = Found(proc[p][b], b) /\ ReadOver(proc[p][b], b)
Wrote(c, b) ==
  /\ Executes(c) /\ b \in DOMAIN call[c].amount
  /\ state'[b] = Written(proc[P(c)][b], b, call[c].amount[b], call[c].rd.time,
                         call[c].rd.max[b])
  /\ Kept(b)

(* It leaves them alone, reads them or writes them.                        *)
LEMMA StoreKindTouches ==
  ASSUME Typed, NEW c \in Callers, StoreKind(c), NEW b \in Buckets
  PROVE  /\ Untouched(b) \/ (Looks(c) /\ Looked(P(c), b)) \/ Wrote(c, b)
         /\ Looks(c) /\ b \in Mine(P(c)) => Looked(P(c), b)
<1>1. /\ World /\ P(c) \in Procs /\ now' = now
      /\ Writable(P(c), call[c].amount, call[c].rd)
  BY RedisAssumption, ProcOfCaller
     DEF Typed, World, CallTypes, RecSound, StoreKind
<1>2. ASSUME UNCHANGED keys PROVE Untouched(b)
  BY <1>2 DEF keys, Untouched
<1>3. ASSUME Looks(c)
      PROVE  IF b \in Mine(P(c)) THEN Looked(P(c), b) ELSE Untouched(b)
  <2>1. Read(P(c))
    BY <1>3 DEF Looks
  <2>2. CASE b \notin Mine(P(c))
    BY <2>1, <2>2 DEF Read, Untouched
  <2>3. CASE b \in Mine(P(c))
    <3> DEFINE k == proc[P(c)][b]
    <3>1. Serves(k, b)
      BY <1>1, <2>3, ServesMine
    <3>2. /\ state'[b] = Found(k, b) /\ over'[b] = FoundOver(k, b)
          /\ hist'[b] = FoundHist(k, b)
      BY <2>1, <2>3 DEF Read
    <3>3. state'[b].exp \in Nat /\ now + BucketTTL \in Nat
      <4>1. BucketKeys(b)'
        BY <1>1, <3>1, <3>2, ReadBucket
      <4> QED BY <1>1, <4>1, Lifetimes DEF BucketKeys, States, World
    <3> HIDE DEF k
    <3>4. ReadOver(k, b)
      <4>1. CASE Override(k, b) = 0
        <5>1. over'[b] = over[b]
              /\ hist'[b] = Retained(History(b), now + BucketTTL, state'[b].exp)
          BY <3>2, <4>1 DEF FoundOver, FoundHist
        <5>2. Kept(b)
          BY <3>3, <5>1 DEF Kept
        <5> QED BY <4>1, <5>2 DEF ReadOver
      <4>2. CASE Override(k, b) # 0
        <5> DEFINE max == Override(k, b)
        <5>1. /\ over'[b] = OverrideOf(k, b, max)
              /\ hist'[b] = HistoryOf(k, b, max, state'[b].exp)
          BY <3>2, <4>2 DEF FoundOver, FoundHist
        <5> HIDE DEF max
        <5>2. Replaced(k, b, max)
          BY <3>3, <5>1 DEF Replaced
        <5> QED BY <4>2, <5>2 DEF ReadOver, max
      <4> QED BY <4>1, <4>2
    <3>5. Looked(P(c), b)
      BY <2>3, <3>2, <3>4 DEF Looked, k
    <3> QED BY <2>3, <3>5
  <2> QED BY <2>2, <2>3
<1>4. ASSUME Executes(c), WriteState(P(c), call[c].amount, call[c].rd)
      PROVE  Untouched(b) \/ Wrote(c, b)
  <2>1. CASE b \notin DOMAIN call[c].amount
    BY <1>4, <2>1 DEF WriteState, Untouched
  <2>2. CASE b \in DOMAIN call[c].amount
    <3> DEFINE k == proc[P(c)][b]  least == Latest({now + BucketTTL, state[b].exp})
    <3>1. /\ state'[b] = Written(k, b, call[c].amount[b], call[c].rd.time,
                                 call[c].rd.max[b])
          /\ over'[b] = over[b]
          /\ hist'[b] = Retained(History(b), least, state'[b].exp)
      BY <1>4, <2>2 DEF WriteState
    <3>2. state'[b].exp \in Nat
      <4>1. StoreMoves
        BY <1>1, <1>4, WriteKeeps DEF Executes
      <4> QED BY <4>1 DEF StoreMoves, KeyTypes, BucketKeys, States
    <3>3. least \in Nat
      <4>1. now + BucketTTL \in Nat /\ state[b].exp \in Nat
        BY <1>1, Lifetimes DEF World, KeyTypes, BucketKeys, States
      <4>2. {now + BucketTTL, state[b].exp}
              = {now + BucketTTL, state[b].exp, state[b].exp, state[b].exp}
        OBVIOUS
      <4> QED BY <4>1, <4>2, LatestOfFour
    <3> HIDE DEF least
    <3>4. Kept(b)
      BY <3>1, <3>2, <3>3 DEF Kept
    <3> QED BY <1>4, <2>2, <3>1, <3>4 DEF Wrote
  <2> QED BY <2>1, <2>2
<1> QED BY <1>2, <1>3, <1>4
        DEF StoreKind, Rests, Waits, Releases, Takes, Extends, Executes

(* A step of a caller: overrides and histories                             *)
LEMMA KindMatches ==
  ASSUME Typed, Matching, NEW c \in Callers, Kind(c)
  PROVE  Matching'
<1>1. StoreKind(c) /\ World /\ now' = now /\ P(c) \in Procs
      /\ Writable(P(c), call[c].amount, call[c].rd)
  BY RedisAssumption, ProcOfCaller
     DEF Kind, StoreKind, Typed, World, CallTypes, RecSound
<1> SUFFICES ASSUME NEW b \in Buckets PROVE OverrideMatches(b)'
  BY DEF Matching
<1>2. OverrideMatches(b)
  BY DEF Matching
<1>3. CASE Untouched(b)
  BY <1>1, <1>2, <1>3 DEF Untouched, OverrideMatches, Alive
<1>4. CASE ~ Untouched(b)
  <2> DEFINE k == proc[P(c)][b]
  <2>1. b \in Mine(P(c)) /\ (ReadOver(k, b) \/ Kept(b))
    BY <1>1, <1>4, StoreKindTouches DEF Looked, Wrote, Writable
  <2>2. Serves(k, b)
    BY <1>1, <2>1, ServesMine
  <2>3. Override(k, b) \in Nat
    BY <2>2, EffectiveMaxType
  <2> HIDE DEF k
  <2>4. Kept(b) \/ \E max \in Nat \ {0} : Replaced(k, b, max)
    BY <2>1, <2>3 DEF ReadOver
  <2> QED BY <1>1, <1>2, <2>2, <2>4, MatchKept
<1> QED BY <1>3, <1>4

(* A step of a caller: what calls are about to write                       *)
LEMMA KindCareful ==
  ASSUME Typed, Matching, Careful, NEW c \in Callers, Kind(c)
  PROVE  Careful'
<1>1. PICK r \in Ids : StoreKind(c) /\ CallKind(c, r)
  BY DEF Kind
<1>2. /\ now' = now /\ stalled' = stalled
      /\ \A q \in Procs : Mine(q)' = Mine(q)
      /\ \A q \in Procs : \A b \in Mine(q) : proc'[q][b].conf = proc[q][b].conf
  BY <1>1, StoreKindKeeps DEF StoreKind
<1>3. call' = call \/ Others(c)
  BY <1>1, <1>2, CallKindTypes, GetsOne
<1>4. /\ World /\ P(c) \in Procs
      /\ \A d \in Callers : RecSound(d, call[d])
  BY RedisAssumption, ProcOfCaller DEF Typed, World, CallTypes
<1> SUFFICES ASSUME NEW d \in Callers, NEW b \in DOMAIN call'[d].amount,
                    call'[d].pc \in Writing, lock'[b] = {d}
             PROVE  Lesser(call'[d].rd.max[b], proc'[P(d)][b].conf)
                      <= SlowRate(proc'[P(d)][b].conf, hist'[b], call'[d].rd.time)
  BY DEF Careful, Cautious, P
<1> DEFINE k == proc[P(d)][b]
(* The call that reads *)
<1>5. CASE Looks(c) /\ d = c
  <2>1. call'[c].rd = Reading(P(c)) /\ DOMAIN call'[c].amount = Mine(P(c))
    BY <1>5 DEF Looks, Writing
  <2>2. /\ b \in Mine(P(c)) /\ b \in Buckets
        /\ call'[c].rd.max[b] = EffectiveMax(k, b) /\ call'[c].rd.time = now
    BY <1>4, <1>5, <2>1 DEF Reading, World, ProcTypes, IsProc, Mine
  <2>3. Serves(k, b) /\ OverrideMatches(b) /\ proc'[P(c)][b].conf = k.conf
    BY <1>2, <1>4, <1>5, <2>2, ServesMine DEF Matching
  <2>4. ReadOver(k, b)
    <3>1. Looked(P(c), b)
      BY <1>1, <1>5, <2>2, StoreKindTouches
    <3> QED BY <1>5, <3>1 DEF Looked
  <2>5. Lesser(EffectiveMax(k, b), k.conf) <= SlowRate(k.conf, hist'[b], now)
    BY <2>3, <2>4, SlowRateNow
  <2> QED BY <1>5, <2>2, <2>3, <2>5
(* The other calls, and those that have read *)
<1>6. CASE ~ (Looks(c) /\ d = c)
  <2>1. /\ b \in DOMAIN call[d].amount /\ call[d].pc \in Writing
        /\ call[d].rd = call'[d].rd
        /\ d = c => lock' = lock
    <3>1. CASE d # c
      BY <1>3, <3>1 DEF Others
    <3>2. CASE d = c
      <4>1. Waits \/ Extends(c) \/ Executes(c)
        BY <1>1, <1>6, <3>2 DEF StoreKind, Rests, Releases, Takes, Writing
      <4>2. CASE Waits
        BY <3>2, <4>2 DEF Waits
      <4>3. CASE Extends(c)
        <5>1. RecSound(c, call[c])
          BY <1>4
        <5>2. /\ call[c].pc = "extend" /\ lock' = lock
              /\ call'[c].amount = call[c].amount /\ call'[c].rd = call[c].rd
          BY <4>3, <5>1 DEF Extends, RecSound
        <5> QED BY <3>2, <5>2 DEF Writing
      <4>4. CASE Executes(c)
        BY <3>2, <4>4 DEF Executes, Writing
      <4> QED BY <4>1, <4>2, <4>3, <4>4
    <3> QED BY <3>1, <3>2
  <2>2. b \in Mine(P(d)) /\ b \in Buckets /\ P(d) \in Procs
        /\ call[d].rd.time \in 0..now /\ call[d].rd.max[b] \in Nat
    BY <1>4, <2>1, ProcOfCaller
       DEF RecSound, Writable, World, ProcTypes, IsProc, Mine
  <2>3. lock[b] = {d}
    BY <1>1, <2>1, <2>2, LocksAfter
  <2> DEFINE max == call[d].rd.max[b]  t == call[d].rd.time
  <2>4. Lesser(max, k.conf) <= SlowRate(k.conf, hist[b], t)
    BY <2>1, <2>3 DEF Careful, Cautious
  <2>5. /\ Serves(k, b) /\ k.conf \in Nat /\ OverrideMatches(b)
        /\ hist[b] \in Histories /\ hist'[b] \in Histories
    <3>1. Serves(k, b) /\ OverrideMatches(b)
      BY <1>4, <2>2, ServesMine DEF Matching
    <3>2. hist'[b] \in Histories
      BY <1>1, <1>2, <2>2, StoreKindKeeps DEF StoreMoves, KeyTypes, BucketKeys
    <3> QED BY <3>1, <3>2 DEF Serves, BucketObject, BucketKeys
  <2>6. SlowRate(k.conf, hist[b], t) <= SlowRate(k.conf, hist'[b], t)
    <3>1. CASE Untouched(b)
      <4>1. SlowRate(k.conf, hist[b], t) \in Nat
        BY <2>5, SlowRateType
      <4> QED BY <3>1, <4>1 DEF Untouched
    <3>2. CASE ~ Untouched(b)
      <4> DEFINE kc == proc[P(c)][b]
      <4>1. b \in Mine(P(c)) /\ (ReadOver(kc, b) \/ Kept(b))
        BY <1>1, <1>4, <2>2, <3>2, StoreKindTouches
           DEF Looked, Wrote, Writable, RecSound
      <4>2. Serves(kc, b)
        BY <1>4, <4>1, ServesMine
      <4> HIDE DEF kc, k
      <4> QED BY <2>2, <2>5, <4>1, <4>2, SlowRateKept
    <3> QED BY <3>1, <3>2
  <2>7. proc'[P(d)][b].conf = k.conf /\ call'[d].rd.max[b] = max
        /\ call'[d].rd.time = t
    BY <1>2, <2>1, <2>2
  <2>8. /\ SlowRate(k.conf, hist[b], t) \in Nat /\ SlowRate(k.conf, hist'[b], t) \in Nat
        /\ Lesser(max, k.conf) \in Nat
    BY <2>2, <2>5, SlowRateType DEF Lesser
  <2> HIDE DEF k, max, t
  <2> QED BY <2>4, <2>6, <2>7, <2>8
<1> QED BY <1>5, <1>6

(* A step of a caller: what buckets owe                                    *)
LEMMA KindSolvent ==
  ASSUME Typed, LockInv, Matching, Careful, Solvent, Concord,
         NEW c \in Callers, Kind(c)
  PROVE  Solvent'
<1>1. /\ StoreKind(c) /\ World /\ P(c) \in Procs /\ RecSound(c, call[c])
      /\ Writable(P(c), call[c].amount, call[c].rd)
  BY RedisAssumption, ProcOfCaller DEF Kind, Typed, World, CallTypes, RecSound
<1>2. /\ now' = now /\ KeyTypes'
      /\ \A q \in Procs : Mine(q)' = Mine(q)
      /\ \A q \in Procs : \A b \in Mine(q) : proc'[q][b].conf = proc[q][b].conf
  BY <1>1, StoreKindKeeps
<1> SUFFICES ASSUME NEW b \in Buckets, NEW q \in Procs, b \in Mine(q),
                    state'[b].keys = Pair
             PROVE  Repays(b, state'[b],
                           SlowRate(proc[q][b].conf, hist'[b], state'[b].last))
  BY <1>2 DEF Solvent, Pays, Repays, SlowRate
<1> DEFINE k == proc[P(c)][b]  conf == proc[q][b].conf
<1>3. state[b].keys = Pair => Repays(b, state[b], SlowRate(conf, hist[b], state[b].last))
  BY DEF Solvent, Pays
<1>4. CASE Untouched(b)
  BY <1>3, <1>4 DEF Untouched
<1>5. ASSUME b \in Mine(P(c))
      PROVE  /\ k.conf = conf /\ Serves(k, b) /\ OverrideMatches(b)
             /\ hist'[b] \in Histories
  BY <1>1, <1>2, <1>5, ServesMine
     DEF Concord, Agreed, Matching, KeyTypes, BucketKeys
<1>6. CASE Looked(P(c), b)
  <2>1. b \in Mine(P(c)) /\ state'[b] = Found(k, b) /\ ReadOver(k, b)
    BY <1>6 DEF Looked
  <2>2. k.conf = conf /\ Serves(k, b) /\ OverrideMatches(b) /\ hist'[b] \in Histories
    BY <1>5, <2>1
  <2> HIDE DEF k, conf
  <2>3. state[b].keys = Pair =>
          Repays(b, state[b], SlowRate(k.conf, hist[b], state[b].last))
    BY <1>3, <2>2
  <2>4. Repays(b, state'[b], SlowRate(k.conf, hist'[b], state'[b].last))
    BY <1>2, <2>1, <2>2, <2>3, ReadRepays
  <2> QED BY <2>2, <2>4 DEF conf
<1>7. CASE Wrote(c, b)
  <2> DEFINE amount == call[c].amount[b]  t == call[c].rd.time
             max == call[c].rd.max[b]  r == SlowRate(conf, hist'[b], t)
  <2>1. /\ b \in DOMAIN call[c].amount /\ b \in Mine(P(c)) /\ t \in 0..now
        /\ amount \in Int /\ max \in Nat \ {0}
        /\ call[c].pc \in {"write", "sent"} /\ Kept(b)
        /\ state'[b] = Written(k, b, amount, t, max)
    BY <1>1, <1>7 DEF Writable, Wrote, Executes
  <2>2. k.conf = conf /\ Serves(k, b) /\ OverrideMatches(b) /\ hist'[b] \in Histories
    BY <1>5, <2>1
  <2>3. lock[b] = {c}
    BY <2>1 DEF LockInv, Guarded, Concord
  <2>4. Lesser(max, k.conf) <= SlowRate(k.conf, hist[b], t)
    BY <2>1, <2>3 DEF Careful, Cautious, Writing
  <2>5. /\ now \in Nat /\ k \in BucketObject /\ conf \in Nat
        /\ hist[b] \in Histories
    BY <2>2 DEF Serves, BucketObject, BucketKeys
  <2>6. SlowRate(conf, hist[b], t) <= r
    <3> HIDE DEF k, conf, t
    <3> QED BY <2>1, <2>2, <2>5, SlowRateKept
  <2>7. /\ SlowRate(conf, hist[b], t) \in Nat /\ r \in Nat /\ Lesser(max, k.conf) \in Nat
    BY <2>1, <2>2, <2>5, SlowRateType DEF Lesser
  <2>8. Lesser(max, k.conf) <= r
    <3> HIDE DEF k, conf, t, max, r
    <3> QED BY <2>2, <2>4, <2>6, <2>7
  <2>9. /\ Repays(b, Written(k, b, amount, t, max), r)
        /\ Written(k, b, amount, t, max).last = t
    <3> HIDE DEF k, conf, t, max, r, amount
    <3> QED BY <2>1, <2>5, <2>7, <2>8, WriteRepays
  <2> QED BY <2>1, <2>9
<1> QED BY <1>1, <1>4, <1>6, <1>7, StoreKindTouches

(* A command anchors a bucket, by the object k and for the limit max, and  *)
(* no process finds it to be slower than that afterwards.                  *)
Anchors(b) ==
  \E k, max :
    /\ Serves(k, b) /\ max \in Nat \ {0} /\ state'[b] = Anchored(k, b, max)
    /\ Kept(b) \/ Cleared(b) \/ \E m \in Nat \ {0} : Replaced(k, b, m)
    /\ \A q \in Procs : b \in Mine(q)' =>
         Lesser(Lesser(max, EffectiveMax(k, b)), k.conf)
           <= SlowRate(proc'[q][b].conf, hist'[b], now)

(* It leaves the keys, and nobody has a new object for them.               *)
LeftAlone(b) ==
  /\ Untouched(b)
  /\ \A q \in Procs : b \in Mine(q)' =>
       b \in Mine(q) /\ proc'[q][b].conf = proc[q][b].conf

(* What commands do keeps what buckets owe.                                *)
LEMMA CommandSolvent ==
  ASSUME Typed, Typed', Matching, Solvent, now' = now,
         \A b \in Buckets : Anchors(b) \/ LeftAlone(b)
  PROVE  Matching' /\ Solvent'
<1>1. ASSUME NEW b \in Buckets PROVE OverrideMatches(b)'
  <2>1. OverrideMatches(b)
    BY DEF Matching
  <2>2. CASE LeftAlone(b)
    BY <2>1, <2>2 DEF LeftAlone, Untouched, OverrideMatches, Alive
  <2>3. CASE Anchors(b)
    BY <2>1, <2>3, MatchKept DEF Anchors
  <2> QED BY <2>2, <2>3
<1>2. ASSUME NEW b \in Buckets, NEW q \in Procs, b \in Mine(q)',
             state'[b].keys = Pair
      PROVE  Repays(b, state'[b],
                    SlowRate(proc'[q][b].conf, hist'[b], state'[b].last))
  <2>1. CASE LeftAlone(b)
    BY <1>2, <2>1 DEF LeftAlone, Untouched, Solvent, Pays
  <2>2. CASE Anchors(b)
    <3>1. PICK k, max :
            /\ Serves(k, b) /\ max \in Nat \ {0} /\ state'[b] = Anchored(k, b, max)
            /\ Lesser(Lesser(max, EffectiveMax(k, b)), k.conf)
                 <= SlowRate(proc'[q][b].conf, hist'[b], now)
      BY <1>2, <2>2 DEF Anchors
    <3> DEFINE r == SlowRate(proc'[q][b].conf, hist'[b], now)
    <3>2. r \in Nat
      <4>1. hist'[b] \in Histories /\ proc'[q][b].conf \in Nat
        BY <1>2 DEF Typed, KeyTypes, BucketKeys, ProcTypes, IsProc, Mine,
           BucketObject
      <4> QED BY <4>1, SlowRateType
    <3> HIDE DEF r
    <3>3. Lesser(Lesser(max, EffectiveMax(k, b)), k.conf) <= r
      BY <3>1 DEF r
    <3>4. Repays(b, state'[b], r) /\ state'[b].last = now
      BY <1>2, <3>1, <3>2, <3>3, AnchorRepays
    <3> QED BY <3>4 DEF r
  <2> QED BY <2>1, <2>2
<1>3. Solvent'
  BY <1>2 DEF Solvent, Pays, Repays, SlowRate
<1> QED BY <1>1, <1>3 DEF Matching

(* The rate under a new override, or under none                            *)
LEMMA SlowRateSet ==
  ASSUME NEW k, NEW b, Serves(k, b), NEW max \in Nat \ {0}, NEW low \in Nat,
         \/ Replaced(k, b, max) /\ low <= max /\ low <= k.conf
         \/ Cleared(b) /\ low <= k.conf
  PROVE  low <= SlowRate(k.conf, hist'[b], now)
<1>1. now \in Nat /\ k.conf \in Nat
  BY DEF Serves, BucketObject
<1>2. CASE Replaced(k, b, max) /\ low <= max /\ low <= k.conf
  <2>1. PICK exp \in Nat : hist'[b] = HistoryOf(k, b, max, exp)
    BY <1>2 DEF Replaced
  <2>2. hist'[b].max = max /\ hist'[b].anchor = k.conf
    BY <2>1, OverrideFields
  <2> QED BY <1>1, <1>2, <2>2 DEF SlowRate, Lesser
<1>3. CASE Cleared(b) /\ low <= k.conf
  BY <1>1, <1>3 DEF Cleared, NoHist, SlowRate
<1> QED BY <1>2, <1>3

(* set_max_capacity                                                        *)
LEMMA SetMaxAnchors ==
  ASSUME Typed, Typed', Concord, NEW p \in Procs, NEW b \in Mine(p),
         NEW value \in Nat \ {0}, SetMax(p, b, value)
  PROVE  \A a \in Buckets : Anchors(a) \/ LeftAlone(a)
<1> DEFINE k == proc[p][b]
<1>1. World
  BY RedisAssumption DEF Typed, World
<1>2. /\ Serves(k, b) /\ k.confirmed \subseteq 0..now /\ b \in Buckets
      /\ p \in DOMAIN proc /\ b \in DOMAIN proc[p]
      /\ state = [a \in Buckets |-> state[a]] /\ over = [a \in Buckets |-> over[a]]
      /\ hist = [a \in Buckets |-> hist[a]]
  BY <1>1, ServesMine DEF Serves, World, ProcTypes, Mine, KeyTypes
<1>3. /\ state'[b] = Anchored(k, b, value)
      /\ over'[b] = OverrideOf(k, b, value)
      /\ hist'[b] = HistoryOf(k, b, value, state'[b].exp)
      /\ \A a \in Buckets \ {b} : Untouched(a)
      /\ proc'[p] = [proc[p] EXCEPT ![b] = Proven(k, b)]
      /\ \A o \in Procs \ {p} : proc'[o] = proc[o]
  <2>1. /\ state' = [state EXCEPT ![b] = Anchored(k, b, value)]
        /\ over' = [over EXCEPT ![b] = OverrideOf(k, b, value)]
        /\ hist' = [hist EXCEPT ![b] = HistoryOf(k, b, value, state'[b].exp)]
        /\ proc' = [proc EXCEPT ![p][b] = Proven(k, b)]
    BY DEF SetMax
  <2>2. proc = [o \in Procs |-> proc[o]]
    BY <1>1 DEF World, ProcTypes
  <2> HIDE DEF k
  <2> QED BY <1>2, <2>1, <2>2 DEF Untouched
<1>4. /\ \A o \in Procs : Mine(o)' = Mine(o)
      /\ \A o \in Procs : \A a \in Mine(o) : proc'[o][a].conf = proc[o][a].conf
  <2>1. Proven(k, b).conf = k.conf
    BY <1>2, ProvenType
  <2>2. \A a \in Mine(p) : proc'[p][a].conf = proc[p][a].conf
    BY <1>2, <1>3, <2>1 DEF Mine
  <2>3. Mine(p)' = Mine(p)
    BY <1>3 DEF Mine
  <2> QED BY <1>3, <2>2, <2>3 DEF Mine
<1>5. ASSUME NEW a \in Buckets \ {b} PROVE LeftAlone(a)
  BY <1>3, <1>4 DEF LeftAlone
<1> DEFINE low == Lesser(Lesser(value, EffectiveMax(k, b)), k.conf)
<1>6. low \in Nat /\ low <= value /\ low <= k.conf
  BY <1>2, EffectiveMaxType DEF Lesser, Serves, BucketObject
<1>7. Replaced(k, b, value)
  <2>1. state'[b].exp \in Nat
    BY <1>2 DEF Typed, KeyTypes, BucketKeys, States
  <2> QED BY <1>3, <2>1 DEF Replaced
<1>8. ASSUME NEW q \in Procs, b \in Mine(q)' PROVE proc'[q][b].conf = k.conf
  BY <1>2, <1>4, <1>8 DEF Concord, Agreed
<1>9. Serves(k, b) /\ state'[b] = Anchored(k, b, value)
  BY <1>2, <1>3
<1> HIDE DEF k
<1>10. low <= SlowRate(k.conf, hist'[b], now)
  <2> HIDE DEF low
  <2> QED BY <1>6, <1>7, <1>9, SlowRateSet
<1>11. Anchors(b)
  BY <1>7, <1>8, <1>9, <1>10 DEF Anchors
<1> QED BY <1>5, <1>11

(* apply_configured_max_capacity                                           *)
LEMMA ApplyAnchors ==
  ASSUME Typed, Typed', Concord', NEW p \in Procs, NEW b \in Mine(p),
         NEW value \in Nat \ {0}, ApplyConfigured(p, b, value)
  PROVE  \A a \in Buckets : Anchors(a) \/ LeftAlone(a)
<1> DEFINE k == proc[p][b]  new == [Proven(k, b) EXCEPT !.conf = value]
<1>1. World
  BY RedisAssumption DEF Typed, World
<1>2. /\ Serves(k, b) /\ k.confirmed \subseteq 0..now /\ b \in Buckets
      /\ p \in DOMAIN proc /\ b \in DOMAIN proc[p]
      /\ state = [a \in Buckets |-> state[a]] /\ over = [a \in Buckets |-> over[a]]
      /\ hist = [a \in Buckets |-> hist[a]]
  BY <1>1, ServesMine DEF Serves, World, ProcTypes, Mine, KeyTypes
<1>3. /\ state'[b] = Anchored(k, b, value) /\ Cleared(b)
      /\ \A a \in Buckets \ {b} : Untouched(a)
      /\ proc'[p] = [proc[p] EXCEPT ![b] = new]
      /\ \A o \in Procs \ {p} : proc'[o] = proc[o]
  <2>1. /\ state' = [state EXCEPT ![b] = Anchored(k, b, value)]
        /\ over' = [over EXCEPT ![b] = NoOver]
        /\ hist' = [hist EXCEPT ![b] = NoHist]
        /\ proc' = [proc EXCEPT ![p][b] = new]
    BY DEF ApplyConfigured
  <2>2. proc = [o \in Procs |-> proc[o]]
    BY <1>1 DEF World, ProcTypes
  <2> HIDE DEF k, new
  <2> QED BY <1>2, <2>1, <2>2 DEF Untouched, Cleared
<1>4. new.conf = value
  <2>1. Proven(k, b) \in BucketObject /\ {} \in SUBSET Nat
    BY <1>2, ProvenType
  <2> QED BY <2>1, ObjectWith
<1>5. /\ \A o \in Procs : Mine(o)' = Mine(o)
      /\ \A o \in Procs : \A a \in Mine(o) \ {b} :
           proc'[o][a].conf = proc[o][a].conf
      /\ proc'[p][b].conf = value
  <2> HIDE DEF new
  <2>1. Mine(p)' = Mine(p)
    BY <1>3 DEF Mine
  <2>2. /\ \A a \in Mine(p) \ {b} : proc'[p][a] = proc[p][a]
        /\ proc'[p][b] = new
    BY <1>2, <1>3 DEF Mine
  <2> QED BY <1>3, <1>4, <2>1, <2>2 DEF Mine
<1>6. ASSUME NEW a \in Buckets \ {b} PROVE LeftAlone(a)
  BY <1>3, <1>5 DEF LeftAlone
<1> DEFINE low == Lesser(Lesser(value, EffectiveMax(k, b)), k.conf)
<1>7. low <= value
  BY <1>2, EffectiveMaxType DEF Lesser, Serves, BucketObject
<1>8. ASSUME NEW q \in Procs, b \in Mine(q)'
      PROVE  low <= SlowRate(proc'[q][b].conf, hist'[b], now)
  <2>1. proc'[q][b].conf = value
    BY <1>2, <1>5, <1>8 DEF Concord, Agreed
  <2>2. hist'[b].exp = 0
    BY <1>3 DEF Cleared, NoHist
  <2> QED BY <1>7, <2>1, <2>2 DEF SlowRate
<1>9. Serves(k, b) /\ state'[b] = Anchored(k, b, value)
  BY <1>2, <1>3
<1> HIDE DEF k
<1>10. Anchors(b)
  BY <1>3, <1>8, <1>9 DEF Anchors
<1> QED BY <1>6, <1>10

(* prepare_reconfigured_backend                                            *)
LEMMA ReconfigureAnchors ==
  ASSUME Typed, Typed', Matching, Concord, Concord', NEW p \in Procs,
         NEW config \in Configs, Reconfigure(p, config)
  PROVE  \A b \in Buckets : Anchors(b) \/ LeftAlone(b)
<1> DEFINE kept == Mine(p) \cap DOMAIN config
           cleared == {b \in Mine(p) : b \notin kept
                                       \/ config[b] # proc[p][b].conf}
           old(b) == IF b \in Mine(p) THEN proc[p][b] ELSE NewBucketOf(config[b])
           max(b) == IF b \in DOMAIN config THEN config[b]
                     ELSE EffectiveMax(old(b), b)
           touched == Mine(p) \cup DOMAIN config
           q == [b \in DOMAIN config |-> Installed(p, config, b)]
<1>1. /\ World /\ DOMAIN config \subseteq Buckets
      /\ \A b \in DOMAIN config : config[b] \in Nat \ {0}
  BY RedisAssumption DEF Typed, World
<1>2. Mine(p) \subseteq Buckets /\ now' = now /\ now \in Nat
  BY <1>1 DEF World, ProcTypes, IsProc, Mine, Reconfigure
<1>3. /\ state' = [b \in Buckets |-> IF b \in touched THEN Anchored(old(b), b, max(b))
                                     ELSE state[b]]
      /\ over' = [b \in Buckets |-> IF b \in cleared THEN NoOver
                                    ELSE IF b \in touched THEN FoundOver(old(b), b)
                                    ELSE over[b]]
      /\ hist' = [b \in Buckets |->
                    IF b \in cleared THEN NoHist
                    ELSE IF b \notin touched THEN hist[b]
                    ELSE IF Override(old(b), b) = 0
                      THEN Retained(History(b), now + BucketTTL,
                                    Anchored(old(b), b, max(b)).exp)
                      ELSE HistoryOf(old(b), b, Override(old(b), b),
                                     Anchored(old(b), b, max(b)).exp)]
      /\ proc' = [proc EXCEPT ![p] = q]
  BY DEF Reconfigure
<1>4. /\ proc'[p] = q /\ Mine(p)' = DOMAIN config
      /\ \A o \in Procs \ {p} : proc'[o] = proc[o] /\ Mine(o)' = Mine(o)
      /\ \A b \in DOMAIN config : proc'[p][b].conf = config[b]
  <2>1. proc = [o \in Procs |-> proc[o]]
    BY <1>1 DEF World, ProcTypes
  <2>2. ASSUME NEW b \in DOMAIN config
        PROVE  Installed(p, config, b).conf = config[b]
    <3>1. CASE b \in Mine(p)
      <4> DEFINE k == Proven(proc[p][b], b)
      <4>1. k \in BucketObject /\ {} \in SUBSET Nat /\ config[b] \in Nat \ {0}
        BY <1>1, <2>2, <3>1, ServesMine, ProvenType
      <4>2. Installed(p, config, b) = [k EXCEPT !.conf = config[b]]
        BY <3>1 DEF Installed
      <4> HIDE DEF k
      <4> QED BY <4>1, <4>2, ObjectWith
    <3>2. CASE b \notin Mine(p)
      BY <3>2 DEF Installed, NewBucketOf
    <3> QED BY <3>1, <3>2
  <2>3. proc'[p] = q /\ \A o \in Procs \ {p} : proc'[o] = proc[o]
    BY <1>3, <2>1
  <2> QED BY <2>2, <2>3 DEF Mine
<1>5. ASSUME NEW b \in Buckets, b \notin touched PROVE LeftAlone(b)
  <2>1. Untouched(b)
    BY <1>3, <1>5 DEF Untouched
  <2> QED BY <1>4, <1>5, <2>1 DEF LeftAlone
<1>6. ASSUME NEW b \in touched PROVE Anchors(b)
  <2> DEFINE k == old(b)  m == max(b)
             low == Lesser(Lesser(m, EffectiveMax(k, b)), k.conf)
  <2>1. /\ b \in Buckets /\ Serves(k, b)
        /\ b \in Mine(p) => k = proc[p][b]
        /\ b \notin Mine(p) => k.conf = config[b] /\ b \in DOMAIN config
    <3>1. CASE b \in Mine(p)
      BY <1>1, <1>2, <3>1, ServesMine
    <3>2. CASE b \notin Mine(p)
      <4>1. b \in Buckets /\ config[b] \in Nat \ {0} /\ k = NewBucketOf(config[b])
            /\ b \in DOMAIN config
        BY <1>1, <1>6, <3>2
      <4> QED BY <1>1, <3>2, <4>1, NewBucketType DEF NewBucketOf
    <3> QED BY <3>1, <3>2
  <2>2. state'[b] = Anchored(k, b, m)
    BY <1>3, <1>6, <2>1
  <2>3. state'[b].exp \in Nat /\ now + BucketTTL \in Nat
    BY <1>2, <2>1, Lifetimes DEF Typed, KeyTypes, BucketKeys, States
  <2>4. /\ b \in cleared => Cleared(b)
        /\ b \notin cleared => ReadOver(k, b)
    <3>1. CASE b \in cleared
      BY <1>3, <2>1, <3>1 DEF Cleared
    <3>2. CASE b \notin cleared /\ Override(k, b) = 0
      <4>1. over'[b] = over[b]
        BY <1>3, <1>6, <2>1, <3>2 DEF FoundOver
      <4>2. hist'[b] = Retained(History(b), now + BucketTTL, state'[b].exp)
        BY <1>3, <1>6, <2>1, <3>2
      <4> HIDE DEF k, cleared
      <4>3. Kept(b)
        BY <2>3, <4>1, <4>2 DEF Kept
      <4> QED BY <3>2, <4>3 DEF ReadOver
    <3>3. CASE b \notin cleared /\ Override(k, b) # 0
      <4> DEFINE o == Override(k, b)
      <4>1. over'[b] = OverrideOf(k, b, o)
        BY <1>3, <1>6, <2>1, <3>3 DEF FoundOver
      <4>2. hist'[b] = HistoryOf(k, b, o, state'[b].exp)
        BY <1>3, <1>6, <2>1, <3>3
      <4> HIDE DEF k, cleared, o
      <4>3. Replaced(k, b, o)
        BY <2>3, <4>1, <4>2 DEF Replaced
      <4> QED BY <3>3, <4>3 DEF ReadOver, o
    <3> QED BY <3>1, <3>2, <3>3
  <2>5. /\ k.conf \in Nat \ {0} /\ EffectiveMax(k, b) \in Nat \ {0}
        /\ Override(k, b) \in Nat /\ m \in Nat \ {0}
    BY <1>1, <2>1, EffectiveMaxType DEF Serves, BucketObject
  <2>6. low \in Nat /\ low <= k.conf /\ low <= m
        /\ low <= Lesser(EffectiveMax(k, b), k.conf)
    <3> HIDE DEF k, m
    <3> QED BY <2>5 DEF Lesser
  <2>7. ASSUME NEW o \in Procs, b \in Mine(o)'
        PROVE  low <= SlowRate(proc'[o][b].conf, hist'[b], now)
    <3>1. CASE b \in DOMAIN config
      <4>1. proc'[o][b].conf = config[b] /\ m = config[b]
        <5>1. b \in Mine(p)' /\ proc'[p][b].conf = config[b]
          BY <1>4, <3>1
        <5> QED BY <2>1, <2>7, <3>1, <5>1 DEF Concord, Agreed
      <4>2. CASE b \in cleared
        <5>1. hist'[b].exp = 0
          BY <2>4, <4>2 DEF Cleared, NoHist
        <5> HIDE DEF low, m, k
        <5> QED BY <2>6, <4>1, <5>1 DEF SlowRate
      <4>3. CASE b \notin cleared
        <5>1. k.conf = config[b]
          BY <2>1, <3>1, <4>3
        <5>2. ReadOver(k, b) /\ OverrideMatches(b)
          BY <2>1, <2>4, <4>3 DEF Matching
        <5> HIDE DEF k, m, cleared
        <5>3. Lesser(EffectiveMax(k, b), k.conf)
                <= SlowRate(k.conf, hist'[b], now)
          BY <2>1, <5>2, SlowRateNow
        <5>4. SlowRate(k.conf, hist'[b], now) \in Nat
          <6>1. hist'[b] \in Histories
            BY <2>1 DEF Typed, KeyTypes, BucketKeys
          <6> QED BY <2>5, <6>1, SlowRateType
        <5>5. Lesser(EffectiveMax(k, b), k.conf) \in Nat
          BY <2>5 DEF Lesser
        <5> HIDE DEF low
        <5> QED BY <2>6, <4>1, <5>1, <5>3, <5>4, <5>5
      <4> QED BY <4>2, <4>3
    <3>2. CASE b \notin DOMAIN config
      <4>1. o # p /\ b \in Mine(o) /\ b \in Mine(p) /\ b \in cleared
            /\ proc'[o][b] = proc[o][b]
        BY <1>4, <1>6, <2>7, <3>2
      <4>2. proc'[o][b].conf = k.conf
        BY <2>1, <4>1 DEF Concord, Agreed
      <4>3. hist'[b].exp = 0
        BY <2>4, <4>1 DEF Cleared, NoHist
      <4> HIDE DEF low, k, m
      <4> QED BY <2>6, <4>2, <4>3 DEF SlowRate
    <3> QED BY <3>1, <3>2
  <2>8. Kept(b) \/ Cleared(b) \/ \E o \in Nat \ {0} : Replaced(k, b, o)
    <3> HIDE DEF k, cleared
    <3> QED BY <2>4, <2>5 DEF ReadOver
  <2> HIDE DEF k, m
  <2> QED BY <2>1, <2>2, <2>5, <2>7, <2>8 DEF Anchors
<1> QED BY <1>5, <1>6

Debts == Matching /\ Careful /\ Solvent

(* A step that leaves overrides, histories and limits, and at most takes   *)
(* keys, locks and calls away                                              *)
LEMMA DebtsStay ==
  ASSUME Typed, Typed', Debts, over' = over, hist' = hist, now <= now',
         \A b \in Buckets : state'[b] = state[b] \/ state'[b].keys # Pair,
         \A q \in Procs : Mine(q)' = Mine(q),
         \A q \in Procs : \A b \in Mine(q) : proc'[q][b].conf = proc[q][b].conf,
         \A d \in Callers : call'[d] = call[d] \/ call'[d].pc = "idle",
         \A b \in Buckets, d \in Callers : lock'[b] = {d} => lock[b] = {d}
  PROVE  Debts'
<1>1. Matching'
  <2> SUFFICES ASSUME NEW b \in Buckets PROVE OverrideMatches(b)'
    BY DEF Matching
  <2>1. OverrideMatches(b) /\ over[b] \in Overrides /\ now \in Nat /\ now' \in Nat
    BY RedisAssumption DEF Debts, Matching, Typed, KeyTypes, BucketKeys
  <2> QED BY <2>1 DEF OverrideMatches, Alive, Overrides
<1>2. Careful'
  <2> SUFFICES ASSUME NEW d \in Callers, NEW b \in DOMAIN call'[d].amount,
                      call'[d].pc \in Writing, lock'[b] = {d}
               PROVE  Lesser(call'[d].rd.max[b], proc'[P(d)][b].conf)
                        <= SlowRate(proc'[P(d)][b].conf, hist'[b], call'[d].rd.time)
    BY DEF Careful, Cautious, P
  <2>1. call'[d] = call[d]
    BY DEF Writing
  <2>2. b \in Mine(P(d)) /\ b \in Buckets /\ P(d) \in Procs
    BY <2>1, ProcOfCaller
       DEF Typed, CallTypes, RecSound, Writable, ProcTypes, IsProc, Mine
  <2>3. lock[b] = {d} /\ proc'[P(d)][b].conf = proc[P(d)][b].conf
    BY <2>2
  <2> QED BY <2>1, <2>3 DEF Debts, Careful, Cautious
<1>3. Solvent'
  <2> SUFFICES ASSUME NEW b \in Buckets, NEW q \in Procs, b \in Mine(q),
                      state'[b].keys = Pair
               PROVE  Repays(b, state'[b], SlowRate(proc'[q][b].conf, hist'[b],
                                                    state'[b].last))
    BY DEF Solvent, Pays, Repays, SlowRate
  <2>1. state'[b] = state[b] /\ proc'[q][b].conf = proc[q][b].conf
    OBVIOUS
  <2> QED BY <2>1 DEF Debts, Solvent, Pays
<1> QED BY <1>1, <1>2, <1>3 DEF Debts

(* The commands of an operator                                             *)
LEMMA CommandDebts ==
  ASSUME Typed, Typed', Debts, Concord, Concord', NEW p \in Procs,
         OverrideLimit(p) \/ ConfigureLimit(p) \/ ReplaceConfig(p)
  PROVE  Debts'
<1>1. Commands(p)
  BY CommandKind
<1>2. Matching
  BY DEF Debts
<1>3. \A b \in Buckets : Anchors(b) \/ LeftAlone(b)
  <2>1. CASE OverrideLimit(p)
    <3>1. PICK b \in Mine(p), value \in Limits : SetMax(p, b, value)
      BY <2>1 DEF OverrideLimit
    <3>2. value \in Nat \ {0}
      BY FleetAssumption
    <3> QED BY <3>1, <3>2, SetMaxAnchors
  <2>2. CASE ConfigureLimit(p)
    <3>0. PICK config \in Configs : \E b \in Mine(p) \cap DOMAIN config :
            ApplyConfigured(p, b, config[b])
      BY <2>2 DEF ConfigureLimit
    <3>1. PICK b \in Mine(p) \cap DOMAIN config : ApplyConfigured(p, b, config[b])
      BY <3>0
    <3>2. config[b] \in Nat \ {0}
      BY RedisAssumption
    <3> QED BY <3>1, <3>2, ApplyAnchors
  <2>3. CASE ReplaceConfig(p)
    <3>1. PICK config \in Configs : Reconfigure(p, config)
      BY <2>3 DEF ReplaceConfig
    <3> QED BY <1>2, <3>1, ReconfigureAnchors
  <2> QED BY <2>1, <2>2, <2>3
<1>4. Matching' /\ Solvent'
  BY <1>1, <1>3, CommandSolvent DEF Debts, Commands
<1>5. Careful'
  <2>1. Unlocked /\ lock' = lock
    BY <1>1 DEF Commands
  <2>2. ASSUME NEW d \in Callers, NEW b \in DOMAIN call'[d].amount
        PROVE  b \in Buckets
    BY <2>2, ProcOfCaller
       DEF Typed, CallTypes, RecSound, Writable, ProcTypes, IsProc, Mine, P
  <2>3. \A b \in Buckets : lock'[b] = {}
    BY <2>1 DEF Unlocked
  <2> QED BY <2>2, <2>3 DEF Careful, Cautious
<1> QED BY <1>4, <1>5 DEF Debts

(* Every step of the fleet                                                 *)
LEMMA DebtsNext ==
  ASSUME Typed, Typed', Evidence, LockInv, Debts, Concord, Concord',
         [Next]_allvars
  PROVE  Debts'
<1>0. now \in Nat /\ World
  BY RedisAssumption DEF Typed, World
<1>1. ASSUME NEW c \in Callers, Kind(c) PROVE Debts'
  BY <1>1, KindMatches, KindCareful, KindSolvent DEF Debts
<1>2. CASE \E t \in Tasks : TaskStep(t) /\ UNCHANGED evictions
  BY <1>1, <1>2, TaskKind, TasksAssumption
<1>3. CASE \E s \in Threads : ThreadStep(s) /\ UNCHANGED evictions
  BY <1>1, <1>3, ThreadKind, ThreadsAssumption
<1>4. CASE \E c \in Callers, bs \in SUBSET Buckets :
             LockLapses(c, bs) /\ UNCHANGED evictions
  <2>1. PICK c \in Callers, bs \in SUBSET Buckets : LockLapses(c, bs)
    BY <1>4
  <2>2. now' = now /\ state' = state /\ over' = over /\ hist' = hist
        /\ proc' = proc /\ call' = call
    BY <2>1 DEF LockLapses, keys
  <2>3. \A b \in Buckets : lock'[b] = IF b \in bs THEN {} ELSE lock[b]
    BY <2>1 DEF LockLapses
  <2>4. \A b \in Buckets, d \in Callers : lock'[b] = {d} => lock[b] = {d}
    BY <2>3
  <2> QED BY <1>0, <2>2, <2>4, DebtsStay DEF Mine
<1>5. CASE \E p \in Procs : OverrideLimit(p) \/ ConfigureLimit(p) \/ ReplaceConfig(p)
  BY <1>5, CommandDebts
<1>6. CASE \E p \in Procs : Crash(p) /\ UNCHANGED evictions
  <2>1. PICK p \in Procs : Crash(p)
    BY <1>6
  <2>2. now' = now /\ state' = state /\ over' = over /\ hist' = hist
        /\ lock' = lock
    BY <2>1 DEF Crash, keys
  <2>3. \A d \in Callers : call'[d] = call[d] \/ call'[d].pc = "idle"
    BY <2>1 DEF Crash, Idle
  <2>4. /\ \A o \in Procs : Mine(o)' = Mine(o)
        /\ \A o \in Procs : \A b \in Mine(o) : proc'[o][b].conf = proc[o][b].conf
    BY <1>0, <2>1, CrashKeeps
  <2> QED BY <1>0, <2>2, <2>3, <2>4, DebtsStay
<1>7. CASE Tick /\ UNCHANGED <<calls, evictions>>
  <2>1. now' = now + 1 /\ state' = state /\ over' = over /\ hist' = hist
        /\ proc' = proc /\ call' = call /\ lock' = lock
    BY <1>7 DEF Tick, keys, calls
  <2>2. now <= now'
    BY <1>0, <2>1
  <2> QED BY <2>1, <2>2, DebtsStay DEF Mine
<1>8. CASE EvictState
  <2>1. PICK b \in Buckets, ks \in SUBSET Pair : Evict(b, ks)
    BY <1>8 DEF EvictState
  <2>2. /\ now' = now /\ over' = over /\ hist' = hist /\ proc' = proc
        /\ call' = call /\ lock' = lock
    BY <1>8, <2>1 DEF Evict, EvictState, calls
  <2>3. \A a \in Buckets : state'[a] = state[a] \/ state'[a].keys # Pair
    <3>1. /\ state = [a \in Buckets |-> state[a]] /\ ks # {} /\ ks \subseteq Pair
          /\ state[b] \in States
      BY <1>0, <2>1 DEF World, KeyTypes, Evict, BucketKeys
    <3>2. state' = [state EXCEPT ![b].keys = @ \ ks]
      BY <2>1 DEF Evict
    <3>3. \A a \in Buckets \ {b} : state'[a] = state[a]
      BY <3>1, <3>2
    <3>4. state'[b].keys = state[b].keys \ ks
      BY <3>1, <3>2 DEF States
    <3> QED BY <3>1, <3>3, <3>4
  <2> QED BY <1>0, <2>2, <2>3, DebtsStay DEF Mine
<1>9. CASE UNCHANGED allvars
  <2>1. now' = now /\ state' = state /\ over' = over /\ hist' = hist
        /\ lock' = lock /\ proc' = proc /\ call' = call
    BY <1>9 DEF allvars, vars, store, keys, calls
  <2> QED BY <1>0, <2>1, DebtsStay DEF Mine
<1> QED BY <1>2, <1>3, <1>4, <1>5, <1>6, <1>7, <1>8, <1>9 DEF Next

(* There is no state, no override and no call at first.                    *)
LEMMA DebtsInit == FleetInit => Debts
<1> SUFFICES ASSUME FleetInit PROVE Debts
  OBVIOUS
<1>1. /\ now = 0 /\ state = [b \in Buckets |-> NoState]
      /\ over = [b \in Buckets |-> NoOver] /\ hist = [b \in Buckets |-> NoHist]
      /\ call = [c \in Callers |-> Idle]
  BY DEF FleetInit, Init, StoreInit
<1>2. Matching
  BY <1>1 DEF Matching, OverrideMatches, Alive, NoOver, NoHist
<1>3. Careful
  BY <1>1 DEF Careful, Cautious, Writing, Idle
<1>4. Solvent
  BY <1>1 DEF Solvent, Pays, NoState, Pair
<1> QED BY <1>2, <1>3, <1>4 DEF Debts

(* DebtOutlivesKeys, as long as the processes agree on the configured      *)
(* limits and no lock lapses under a call that writes: keys that expire    *)
(* held no debt that refill alone had not paid, at the slower of the two   *)
(* limits, whatever overrides were set, refreshed, kept or cleared and     *)
(* whatever was read, written, lost or evicted meanwhile.                  *)
THEOREM DebtOutlastsItsKeys == Spec /\ []Concord => []DebtOutlivesKeys
<1>1. Typed /\ Debts => DebtOutlivesKeys
  <2> SUFFICES ASSUME Typed, Debts, NEW p \in Procs, NEW b \in Mine(p),
                      state[b].keys = Pair, ~ Alive(state[b])
               PROVE  Unexpired(proc[p][b], b) >= SlowerFull(proc[p][b], b)
    BY DEF DebtOutlivesKeys
  <2>1. World
    BY RedisAssumption DEF Typed, World
  <2>2. Serves(proc[p][b], b) /\ b \in Buckets
    BY <2>1, ServesMine DEF Serves
  <2>3. OverrideMatches(b)
    BY <2>2 DEF Debts, Matching
  <2>4. Repays(b, state[b], SlowRate(proc[p][b].conf, hist[b], state[b].last))
    BY <2>2 DEF Debts, Solvent, Pays
  <2> QED BY <2>2, <2>3, <2>4, ExpiredRepaid
<1>2. Typed /\ Evidence /\ LockInv /\ [Next]_allvars
        => (Typed /\ Evidence /\ LockInv)'
  BY TypedNext, EvidenceNext, LockNext
<1>3. /\ Typed /\ Evidence /\ LockInv /\ Debts /\ Concord /\ Concord'
      /\ [Next]_allvars
      => Debts'
  BY TypedNext, DebtsNext
<1> QED BY <1>1, <1>2, <1>3, TypedInit, EvidenceInit, LockInit, DebtsInit, PTL
        DEF Spec

=============================================================================
