----------------------------- MODULE RedisFleet -----------------------------
(***************************************************************************)
(* An asynchronous and a synchronous process share one Redis server.       *)
(* Locks lapse under calls that stall, requests and replies are lost and   *)
(* sent again, processes die, keys expire and are evicted.                 *)
(***************************************************************************)
EXTENDS RedisBackend, SyncRedisBackend

CONSTANTS
  Limits,       \* values passed to set_max_capacity
  MaxEvictions  \* bound: evictions of state keys

(* A call is one of a task or of a thread. *)
ASSUME FleetAssumption ==
  /\ Limits \subseteq Nat \ {0}
  /\ MaxEvictions \in Nat
  /\ Tasks \cap Threads = {}

VARIABLE evictions

allvars == <<vars, evictions>>

FleetInit == Init /\ evictions = 0

(* Limits change while no call of the process is under way. *)
Resting(p) == \A c \in Callers : P(c) = p => At(c, "idle")

(* set_max_capacity *)
OverrideLimit(p) ==
  /\ Resting(p)
  /\ \E b \in Mine(p), value \in Limits : SetMax(p, b, value)
  /\ UNCHANGED <<calls, evictions>>

(* apply_configured_max_capacity, with a limit of another config *)
ConfigureLimit(p) ==
  /\ Resting(p)
  /\ \E config \in Configs : \E b \in Mine(p) \cap DOMAIN config :
       config[b] # proc[p][b].conf /\ ApplyConfigured(p, b, config[b])
  /\ UNCHANGED <<calls, evictions>>

(* prepare_reconfigured_backend *)
ReplaceConfig(p) ==
  /\ Resting(p)
  /\ \E config \in Configs : Reconfigure(p, config)
  /\ UNCHANGED <<calls, evictions>>

EvictState ==
  /\ evictions < MaxEvictions
  /\ evictions' = evictions + 1
  /\ \E b \in Buckets, ks \in SUBSET Pair : Evict(b, ks)
  /\ UNCHANGED calls

Next ==
  \/ \E t \in Tasks : TaskStep(t) /\ UNCHANGED evictions
  \/ \E s \in Threads : ThreadStep(s) /\ UNCHANGED evictions
  \/ \E c \in Callers, bs \in SUBSET Buckets :
       LockLapses(c, bs) /\ UNCHANGED evictions
  \/ \E p \in Procs : OverrideLimit(p) \/ ConfigureLimit(p) \/ ReplaceConfig(p)
  \/ \E p \in Procs : Crash(p) /\ UNCHANGED evictions
  \/ Tick /\ UNCHANGED <<calls, evictions>>
  \/ EvictState

Spec == FleetInit /\ [][Next]_allvars

-----------------------------------------------------------------------------
(* Properties *)

(* Keys, locks and calls have their shapes: one holder for a lock, idle    *)
(* calls without leftovers.                                                *)
TypeOK == CallsTypeOK /\ evictions \in 0..MaxEvictions

LedgerStatus(r) == IF LiveMarker(r) THEN "live"
                   ELSE IF Tombstoned(r) THEN "settled" ELSE "absent"

Ledger == INSTANCE ReservationLedger
            WITH Ids <- Ids, Expiry <- TRUE,
                 ledger <- [r \in Ids |-> LedgerStatus(r)]

(* Markers and tombstones take only the steps of the abstract ledger, with *)
(* lapsed locks, resent scripts and cleanups in the background as well:    *)
(* one charge for an id, one settlement of it, no charge after it.         *)
ImplementsLedger == Ledger!Spec

(* No lost update without a stall: a call about to write still finds what  *)
(* it read, unless some lock lapsed after _extend_locks, under a script.  A *)
(* lock that lapsed earlier, even one that others took and gave back       *)
(* since, is always noticed by the extension.                              *)
StaleWritesNeedAStall ==
  ~ stalled /\ evictions = 0 =>
    \A c \in Callers : \A b \in DOMAIN call[c].amount :
      At(c, "write") /\ call[c].rd.time = now =>
        Amount(proc[P(c)][b], b) = call[c].rd.amount[b]

(* A reservation in its client's hands can be refunded: no cleanup, resent *)
(* script or lapsed lock takes its marker.  Ids used twice are excluded.   *)
DeliveredIsLive ==
  \A r \in Ids :
    held[r].status = "held" /\ ~ held[r].reused =>
      \/ marker[r].exp # 0
      \/ \E c \in Callers : Runs(c, "refund", "sent") /\ call[c].id = r
      \/ \E c \in Callers : Runs(c, "refund", "check") /\ call[c].id = r

(* A charge nobody knows of has a call that will deliver, undo or report   *)
(* it.  The known ways to leave one behind have a status of their own: a   *)
(* reply and the look for it both lost, a signal inside the script, a      *)
(* resent script whose call was cancelled, a crash.                        *)
NoOrphanCharge ==
  \A r \in Ids :
    LiveMarker(r) /\ held[r].status = "no" =>
      \E c \in Callers : /\ call[c].id = r
                         /\ \/ call[c].pc \in {"sent", "check", "callbacks"}
                            \/ call[c].op = "undo"

(* No reservation is credited more often than it was charged: not when the *)
(* reply of a refund is lost and the refund repeated, and not when the     *)
(* client recovers a reservation whose cleanup still runs.  Ids used twice *)
(* are excluded.                                                           *)
CreditedOnce ==
  \A r \in Ids : ~ held[r].reused => held[r].credits <= held[r].charges

(* The rate history of an override lives as long as the state it explains: *)
(* as long as state from the time of the override is there, its history    *)
(* is.                                                                     *)
HistoryOutlivesState ==
  \A b \in Buckets :
    Complete(b) /\ hist[b].exp # 0 /\ state[b].last < hist[b].until =>
      Alive(hist[b])

(* What refill alone would have made of the state of b, had it not expired *)
Unexpired(k, b) == Accrue(k, b, state[b], hist[b])
SlowerFull(k, b) ==
  Full(b, IF hist[b].exp # 0 /\ hist[b].anchor = k.conf
            THEN Lesser(hist[b].max, k.conf) ELSE k.conf)

Agreed(b) ==
  \A p, q \in Procs : b \in Mine(p) \cap Mine(q) =>
    proc[p][b].conf = proc[q][b].conf

(* Expiry forgives no debt: keys expire only when refill alone would have  *)
(* brought the bucket to the lower of its two limits, whatever overrides   *)
(* and limits were set meanwhile.  While processes disagree on the         *)
(* configured limit nothing is said.                                       *)
DebtOutlivesKeys ==
  \A p \in Procs : \A b \in Mine(p) :
    state[b].keys = Pair /\ ~ Alive(state[b]) /\ Agreed(b) =>
      Unexpired(proc[p][b], b) >= SlowerFull(proc[p][b], b)

(* State that merely expired is never taken for lost: a process that is    *)
(* quiet until the keys expire finds a fresh bucket, not an empty one.     *)
ExpiryIsNotLoss ==
  \A p \in Procs : \A b \in Mine(p) :
    state[b].keys = Pair /\ ~ Alive(state[b]) => ~ Suspected(proc[p][b], b)

=============================================================================
