---------------------------- MODULE MCRateLimiter ----------------------------
(* Small instances of RateLimiter. *)
EXTENDS RateLimiter, TLC

CONSTANTS u1, u2, k1, k2

(* An acquire and a record with everything that can go wrong, and a close, *)
(* on a backend with markers                                               *)
Marked == [rids |-> {1, 2}, blocking |-> {1}, users |-> {u1}, closers |-> {k1},
           authority |-> TRUE, probe |-> FALSE, lost_replies |-> TRUE,
           expiring |-> TRUE, drain_timeout |-> TRUE, threads |-> FALSE]

(* Three calls compete for two slots, on a backend without *)
Crowded == [rids |-> {1, 2, 3}, blocking |-> {1}, users |-> {u1}, closers |-> {},
            authority |-> FALSE, probe |-> TRUE, lost_replies |-> FALSE,
            expiring |-> FALSE, drain_timeout |-> FALSE, threads |-> FALSE]

(* Two callers refund one reservation, in tasks or in threads *)
Racing == {[Crowded EXCEPT !.rids = {1, 2}, !.users = {u1, u2}, !.threads = b] :
             b \in BOOLEAN}

(* Two closes of a limiter with less in flight *)
Twice == [Marked EXCEPT !.rids = {1}, !.closers = {k1, k2}]

(* A close that waits as long as it takes *)
Patient == [rids |-> {1, 2}, blocking |-> {1, 2}, users |-> {u1}, closers |-> {k1},
            authority |-> TRUE, probe |-> FALSE, lost_replies |-> FALSE,
            expiring |-> FALSE, drain_timeout |-> FALSE, threads |-> FALSE]

(* Threads that refund, and close, over a memory backend *)
Threaded == [Patient EXCEPT !.users = {u1, u2}, !.probe = TRUE,
                            !.lost_replies = TRUE, !.threads = TRUE]

All == {Marked, Crowded, Twice, Patient, Threaded} \cup Racing

=============================================================================
