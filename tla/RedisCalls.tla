----------------------------- MODULE RedisCalls -----------------------------
(***************************************************************************)
(* What the asynchronous and the synchronous Redis backend have in common: *)
(* the state of a call, its locked section and the amounts it computes.    *)
(*                                                                         *)
(* A call locks the buckets of its process in the order of their keys,     *)
(* reads them, extends its locks and sends one script or pipeline.  It     *)
(* only believes that it holds its locks: a lock lapses when its holder    *)
(* stalls for longer than LOCK_TIMEOUT_SECONDS.                            *)
(***************************************************************************)
EXTENDS RedisStore

CONSTANTS
  ProcOf,      \* the process of a caller
  Usages,      \* tokens that callers ask for
  Actuals,     \* tokens that callers report as used
  MaxTries,    \* bound: attempts to settle one reservation
  Bounds       \* bounds, alternatively: locks that lapse under a running
               \* call, requests and replies lost on the way, processes that
               \* die, ids that a caller uses once more

ASSUME CallsAssumption ==
  /\ ProcOf \in [Callers -> Procs]
  /\ Usages \subseteq Nat /\ Actuals \subseteq Nat
  /\ MaxTries \in Nat
  /\ Bounds \subseteq [lapses : Nat, faults : Nat, crashes : Nat,
                      replays : Nat]

VARIABLES
  call,     \* the calls in progress
  held,     \* what the clients know of each reservation
  issued,   \* reservation ids handed out so far
  left,     \* what is left of the bounds
  stalled   \* whether a lock lapsed after its holder had extended it

bounded == <<issued, left, stalled>>
calls == <<call, held, bounded>>
vars == <<store, calls>>

(* A call takes its locks, has all of them, has read the buckets, has      *)
(* extended its locks, sent its script, lost the reply, or runs the        *)
(* callbacks of an acquire.                                                *)
PCs == {"idle", "lock", "read", "extend", "write", "sent", "check",
        "callbacks"}
Ops == {"none", "acquire", "record", "refund", "undo"}
Answers == {"none", "ok", "replayed", "duplicate", "unknown", "mismatch",
            "incoherent"}

NoAmount == [b \in {} |-> 0]
Idle == [pc |-> "idle", op |-> "none", id |-> 0, usage |-> 0, actual |-> 0,
         token |-> {}, locks |-> {}, rd |-> NoReading, amount |-> NoAmount,
         answer |-> "none", resent |-> FALSE]

(* A reservation is unknown to its client, in its hands, in its hands      *)
(* after a refund that raised, refunded, undone, reported as a charge that *)
(* could not be undone, left behind by an acquire that could not ask what  *)
(* became of its script, that took its own charge for that of another, or  *)
(* that a signal ended inside its script, or gone with its process.        *)
Status == {"no", "held", "unsure", "closed", "undone", "failed",
           "unanswered", "resent", "signalled", "crashed"}
Unknown == [status |-> "no", owner |-> {}, usage |-> 0, tries |-> 0,
            charges |-> 0, credits |-> 0, reused |-> FALSE]

Init ==
  /\ StoreInit
  /\ call = [c \in Callers |-> Idle]
  /\ held = [r \in Ids |-> Unknown]
  /\ issued = 0
  /\ left \in Bounds
  /\ stalled = FALSE

At(c, pc) == call[c].pc = pc
Runs(c, op, pc) == call[c].op = op /\ call[c].pc = pc
Go(c, pc) == call' = [call EXCEPT ![c].pc = pc]
Done(c) == call' = [call EXCEPT ![c] = Idle]
Answer(r, status) == held' = [held EXCEPT ![r].status = status]

P(c) == ProcOf[c]

Spend(what) == left[what] > 0 /\ left' = [left EXCEPT ![what] = @ - 1]

(* A new id, or one that the caller uses again. *)
TakesId(r) ==
  /\ \/ r = issued + 1 /\ UNCHANGED <<held, left>>
     \/ r <= issued /\ Spend("replays")
        /\ held' = [held EXCEPT ![r].reused = TRUE]
  /\ issued' = Greater(issued, r)
  /\ UNCHANGED stalled

Fault == Spend("faults") /\ UNCHANGED <<issued, stalled>>

(* A call begins, and begins again when it tries once more *)
Begin(op, r, u, a, token) ==
  [Idle EXCEPT !.pc = "lock", !.op = op, !.id = r, !.usage = u, !.actual = a,
               !.token = token]
Again(c) == Begin(call[c].op, call[c].id, call[c].usage, call[c].actual,
                  call[c].token)

-----------------------------------------------------------------------------
(* Locks *)

Mistrusted(c) == \E b \in call[c].locks : lock[b] # {c}
Owned(c) == ~ Mistrusted(c)
Released(c) == [b \in Buckets |-> lock[b] \ {c}]

Wanted(c) == Mine(P(c)) \ call[c].locks

(* The next bucket in the order of the keys *)
NextLock(c) == {b \in Wanted(c) : \A a \in Wanted(c) : b <= a}

(* Mistake: a lock that another call holds is taken as well *)
LockAnyway(c, b) ==
  /\ At(c, "lock")
  /\ b \in NextLock(c)
  /\ lock' = [lock EXCEPT ![b] = @ \cup {c}]
  /\ call' = [call EXCEPT ![c].locks = @ \cup {b},
                          ![c].pc = IF Wanted(c) = {b} THEN "read" ELSE "lock"]
  /\ UNCHANGED <<now, keys, ids, proc, held, bounded>>

Lock(c, b) ==
  /\ At(c, "lock")
  /\ b \in NextLock(c) /\ lock[b] = {}
  /\ Owned(c)
  /\ lock' = [lock EXCEPT ![b] = {c}]
  /\ call' = [call EXCEPT ![c].locks = @ \cup {b},
                          ![c].pc = IF Wanted(c) = {b} THEN "read" ELSE "lock"]
  /\ UNCHANGED <<now, keys, ids, proc, held, bounded>>

(* Some locks of a caller lapse while it stalls, or what a dead process    *)
(* left of its locks expires.                                              *)
LockLapses(c, bs) ==
  LET runs == bs \subseteq call[c].locks IN
  /\ bs # {} /\ \A b \in bs : lock[b] = {c}
  /\ lock' = [b \in Buckets |-> IF b \in bs THEN {} ELSE lock[b]]
  /\ stalled' = (stalled \/ (runs /\ call[c].pc \in {"write", "sent"}))
  /\ IF runs THEN Spend("lapses") ELSE UNCHANGED left
  /\ UNCHANGED <<now, keys, ids, proc, call, held, issued>>

-----------------------------------------------------------------------------
(* Amounts *)

Take(b, u) == u * PerSeconds[b]

Impossible(u, rd) == \E b \in DOMAIN rd.max : u > rd.max[b]
Sufficient(u, rd) == \A b \in DOMAIN rd.amount : Take(b, u) <= rd.amount[b]

Charged(u, rd) == [b \in DOMAIN rd.amount |->
                     Greater(0, rd.amount[b] - Take(b, u))]
Recorded(u, rd) == [b \in DOMAIN rd.amount |->
                      Greater(- Full(b, rd.max[b]), rd.amount[b] - Take(b, u))]
Undone(u, rd) == [b \in DOMAIN rd.amount |->
                    Lesser(Full(b, rd.max[b]), rd.amount[b] + Take(b, u))]
Refunded(u, actual, rd) ==
  [b \in DOMAIN rd.amount |->
     LET full == Full(b, rd.max[b])
         back == Greater(Take(b, u) - Take(b, actual), - full)
     IN Greater(- full, Lesser(full, rd.amount[b] + back))]

Computed(c, rd) ==
  LET k == call[c] IN
  CASE k.op = "acquire" -> Charged(k.usage, rd)
    [] k.op = "record" -> Recorded(k.usage, rd)
    [] k.op = "refund" -> Refunded(k.usage, k.actual, rd)
    [] k.op = "undo" -> Undone(k.usage, rd)

-----------------------------------------------------------------------------
(* Scripts.  held counts what charged and credited a reservation. *)

Answered(c, answer, resent) ==
  call' = [call EXCEPT ![c].pc = "sent", ![c].answer = answer,
                       ![c].resent = resent]

(* The acquire script of c runs at the server. *)
RunCharge(c, resent) ==
  LET k == call[c]  answer == AcquireStatus(k.id, k.usage) IN
  /\ AcquireScript(P(c), k.id, k.usage, k.amount, k.rd)
  /\ held' = IF answer # "ok" THEN held
             ELSE [held EXCEPT ![k.id].charges = @ + 1,
                               ![k.id].usage = k.usage,
                               ![k.id].owner = {P(c)}]
  /\ Answered(c, answer, resent)
  /\ UNCHANGED <<now, lock, proc>>

RunRefund(c, resent) ==
  LET k == call[c]  answer == RefundStatus(k.id, k.usage, k.token) IN
  /\ RefundScript(P(c), k.id, k.usage, k.token, k.amount, k.rd)
  /\ held' = IF answer # "ok" THEN held
             ELSE [held EXCEPT ![k.id].credits = @ + 1]
  /\ Answered(c, answer, resent)
  /\ UNCHANGED <<now, lock, proc>>

(* Run again the pipeline writes what it wrote; it is one credit. *)
RunUndo(c, resent) ==
  LET k == call[c] IN
  /\ UndoPipeline(P(c), k.id, k.amount, k.rd)
  /\ held' = IF resent THEN held ELSE [held EXCEPT ![k.id].credits = @ + 1]
  /\ Answered(c, "ok", resent)
  /\ UNCHANGED <<now, lock, proc>>

-----------------------------------------------------------------------------
(* A process dies with its calls and reservations, which only the limiter  *)
(* that made them accepts, and starts again with the same quotas.  Its     *)
(* locks stay until they expire.                                           *)
Crash(p) ==
  LET mine == {c \in Callers : P(c) = p /\ ~ At(c, "idle")} IN
  /\ Spend("crashes")
  /\ call' = [c \in Callers |-> IF c \in mine THEN Idle ELSE call[c]]
  /\ held' = [r \in Ids |-> IF held[r].owner = {p}
                               THEN [held[r] EXCEPT !.status = "crashed"]
                               ELSE held[r]]
  /\ proc' = [proc EXCEPT ![p] = [b \in Mine(p) |-> NewBucketOf(@[b].conf)]]
  /\ UNCHANGED <<now, keys, lock, ids, issued, stalled>>

CallsTypeOK ==
  /\ StoreTypeOK
  /\ \A c \in Callers :
       /\ call[c].pc \in PCs /\ call[c].op \in Ops
       /\ call[c].id \in 0..MaxIds
       /\ call[c].answer \in Answers
       /\ call[c].locks \subseteq Buckets
       /\ At(c, "idle") <=> call[c] = Idle
  /\ \A r \in Ids : held[r].status \in Status
  /\ issued \in 0..MaxIds
  /\ left \in [{"lapses", "faults", "crashes", "replays"} -> Nat]
  /\ stalled \in BOOLEAN

=============================================================================
