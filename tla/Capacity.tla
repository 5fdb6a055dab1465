------------------------------ MODULE Capacity ------------------------------
(***************************************************************************)
(* The token-bucket arithmetic every built-in backend shares               *)
(* (token_throttle/_capacity.py and the memory bucket built on it).        *)
(*                                                                         *)
(* A bucket refills max_capacity / per_seconds tokens a second.  All       *)
(* quantities of a bucket are kept here multiplied by its per_seconds, so  *)
(* the refill of one second is exactly max_capacity and every value is an  *)
(* integer: the model computes what the code computes, without the         *)
(* rounding of floats.                                                     *)
(*                                                                         *)
(* The code only ever uses the clock as the difference between now and the *)
(* bucket's last_checked.  A bucket therefore carries that difference,     *)
(* elapsed; it is negative after the wall clock was set back.  fresh       *)
(* stands for last_checked and capacity being None.                        *)
(***************************************************************************)
EXTENDS Integers

BucketState == [fresh : BOOLEAN, cap : Int, elapsed : Int, max : Nat \ {0}]

Lesser(a, b) == IF a <= b THEN a ELSE b
Greater(a, b) == IF a >= b THEN a ELSE b

(* MemoryBucket.__init__: no state yet, only a limit. *)
NewBucket(limit) == [fresh |-> TRUE, cap |-> 0, elapsed |-> 0, max |-> limit]

(* time_passed, with the backward clock clamped to 0 *)
TimePassed(bk) == Greater(0, bk.elapsed)

(* Refill integrated at the present rate and not yet capped at the maximum *)
Uncapped(bk) == bk.cap + TimePassed(bk) * bk.max

(* calculate_capacity: what a reader of a bucket with window p sees *)
calculate_capacity(bk, p) ==
  IF bk.fresh THEN bk.max * p ELSE Lesser(bk.max * p, Uncapped(bk))

(* MemoryBucket.set_capacity; last_checked becomes now *)
set_capacity(bk, value, allow_negative) ==
  [fresh |-> FALSE,
   cap |-> IF allow_negative THEN value ELSE Greater(0, value),
   elapsed |-> 0,
   max |-> bk.max]

(* Mistake: the new rate applied to the seconds that passed under the old *)
set_max_unanchored(bk, value) == [bk EXCEPT !.max = value]

(* MemoryBucket.set_max_capacity: a bucket with state is first anchored at *)
(* now by the old rate, uncapped, and only then takes the new maximum.     *)
set_max_capacity(bk, value) ==
  IF bk.fresh
    THEN NewBucket(value)
    ELSE [fresh |-> FALSE, cap |-> Uncapped(bk), elapsed |-> 0, max |-> value]

=============================================================================
