-------------------------- MODULE SqliteAccounting --------------------------
(***************************************************************************)
(* What the shared buckets of SqliteBackend hold, measured against one     *)
(* eager token bucket per bucket id that the code does not keep:           *)
(* ideal[b] is refilled and capped second by second as real time passes,   *)
(* knows no rows, lifetimes, processes or clock corrections, and serves    *)
(* the same calls.  Limits do not change here (see DebtOutlivesIdleness    *)
(* for limits that do).  The variable is history only.                     *)
(***************************************************************************)
EXTENDS SqliteBackend

VARIABLE ideal

allvars == <<vars, ideal>>

Tracked == DOMAIN StartConfig
Full(b) == StartConfig[b] * PerSeconds[b]
Capped(b, amount) == Lesser(Full(b), amount)

AccountingInit ==
  /\ Init
  /\ ideal = [b \in Tracked |-> Full(b)]

(* After a loss an engine without proof that bucket b was there takes what *)
(* it finds without state for a new, full bucket.                          *)
TakenForNew(b) ==
  /\ losses > 0 /\ row[b].fresh
  /\ \E e \in Engines : Up(e) /\ ~ Suspected(e, b)

Quiet == UNCHANGED ideal
Post(amount(_)) ==
  ideal' = [b \in Tracked |-> IF TakenForNew(b)' THEN Full(b) ELSE amount(b)]

AccountConsume(t, e) ==
  LET left(b) == ideal[b] - Take(b, task[t].usage)
  IN TryConsume(t, e) /\ Post(left)

AccountUndo(t, e) ==
  LET back(b) == Capped(b, ideal[b] + Take(b, task[t].usage))
  IN Undo(t, e) /\ Post(back)

AccountRecord(t, e, r, u) ==
  LET left(b) == Greater(- Full(b), ideal[b] - Take(b, u)) IN
  /\ Record(t, e, r, u)
  /\ IF IsReplay(e, r, u) THEN Quiet ELSE Post(left)

AccountRefund(t, e) ==
  LET back(b) == Take(b, held[task[t].id].usage) - Take(b, task[t].usage)
      left(b) == Greater(- Full(b),
                         Capped(b, ideal[b] + Greater(back(b), - Full(b))))
  IN RefundCommit(t, e) /\ Post(left)

(* Engines that can prove there was a bucket find an empty one after a loss. *)
AccountLose ==
  LET left(b) == Greater(0, ideal[b]) IN Lose /\ Post(left)

(* A process started after the loss has no proof. *)
AccountStart(e) ==
  LET left(b) == ideal[b] IN StartProcess(e, StartConfig) /\ Post(left)

AccountTick ==
  LET refilled(b) == Capped(b, ideal[b] + StartConfig[b]) IN
  /\ Tick /\ UNCHANGED calls
  /\ Post(refilled)

QuietTransaction(t, e) ==
  TryReplay(t, e) \/ TryReject(t, e) \/ TryWait(t, e) \/ RefundReject(t, e)

QuietCall(t, e) ==
  \E r \in Ids :
    \/ \E u \in Usages : AwaitCall(t, e, r, u)
    \/ \E a \in Actuals : RefundCall(t, e, r, a)

AccountingNext ==
  \/ \E t \in Tasks :
       \/ Outcome(t) /\ Quiet
       \/ \E e \in Engines :
            \/ (QuietTransaction(t, e) \/ QuietCall(t, e)) /\ Quiet
            \/ AccountConsume(t, e) \/ AccountUndo(t, e)
            \/ AccountRefund(t, e)
            \/ \E r \in Ids, u \in Usages : AccountRecord(t, e, r, u)
  \/ \E e \in Fleet : \/ AccountStart(e)
                      \/ (Close(e) \/ Crash(e)) /\ Quiet
  \/ AccountLose
  \/ AccountTick
  \/ ClockSetBack /\ UNCHANGED calls /\ Quiet

AccountingSpec == AccountingInit /\ [][AccountingNext]_allvars

-----------------------------------------------------------------------------
(* What engine e would find in bucket b *)
Holds(e, b) == Amount(e, b, Load(e, b, row[b]))

(* Rows, lifetimes and crashes never make capacity: whatever expires, is   *)
(* pruned, repaired after the clock was set back, or lost under an engine  *)
(* that can prove it, no engine finds more in a bucket than the eager one  *)
(* holds.                                                                  *)
NeverMore ==
  \A e \in Engines : Up(e) => \A b \in Tracked : Holds(e, b) <= ideal[b]

(* Nor do they lose any while the clock runs forward and the database      *)
(* stays: all engines find exactly what the eager bucket holds, so several *)
(* processes share one budget.                                             *)
OneSharedBudget ==
  losses = 0 /\ skewed = 0 =>
    \A e \in Engines : Up(e) => \A b \in Tracked : Holds(e, b) = ideal[b]

=============================================================================
