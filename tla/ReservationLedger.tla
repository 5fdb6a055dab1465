-------------------------- MODULE ReservationLedger --------------------------
(***************************************************************************)
(* What every backend promises about reservation ids, whatever store it    *)
(* uses: an id is charged when it is issued, is settled by one refund or   *)
(* undone by the cleanup of an interrupted acquire, and once settled it    *)
(* cannot be issued or settled again until the backend's bounded memory of *)
(* refunds has forgotten it.  A backend whose bookkeeping expires also     *)
(* forgets open and settled ids as time passes.                            *)
(***************************************************************************)
CONSTANTS
  Ids,
  Expiry  \* whether bookkeeping expires with time

VARIABLE ledger

Status == {"absent", "live", "settled"}

Init == ledger = [r \in Ids |-> "absent"]

Issue(r) ==
  /\ ledger[r] = "absent"
  /\ ledger' = [ledger EXCEPT ![r] = "live"]

Undo(r) ==
  /\ ledger[r] = "live"
  /\ ledger' = [ledger EXCEPT ![r] = "absent"]

(* Settling an id may push the oldest settled ids out of the bounded       *)
(* refund memory.                                                          *)
Settle(r, evicted) ==
  /\ ledger[r] = "live"
  /\ \A e \in evicted : ledger[e] = "settled"
  /\ ledger' = [i \in Ids |-> IF i \in evicted THEN "absent"
                              ELSE IF i = r THEN "settled" ELSE ledger[i]]

(* Time passes over some ids. *)
Forget(old) ==
  /\ Expiry
  /\ \A i \in old : ledger[i] # "absent"
  /\ ledger' = [i \in Ids |-> IF i \in old THEN "absent" ELSE ledger[i]]

Next ==
  \/ \E r \in Ids :
       \/ Issue(r)
       \/ Undo(r)
       \/ \E evicted \in SUBSET Ids : Settle(r, evicted)
  \/ \E old \in SUBSET Ids : Forget(old)

Spec == Init /\ [][Next]_ledger

=============================================================================
