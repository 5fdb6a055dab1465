---------------------------- MODULE MCRedisFleet ----------------------------
(***************************************************************************)
(* Small instances of RedisFleet: one or two windows of one metric, an     *)
(* asynchronous and a synchronous process.                                 *)
(***************************************************************************)
EXTENDS RedisFleet, TLC

Window == {2}
TwoWindows == {1, 2}
SecondsOf == [b \in Buckets |-> b]

One == [b \in Buckets |-> 1]
Two == [b \in Buckets |-> 2]
Kept == [b \in {2} |-> 2]
Faster == [b \in Buckets |-> 3]
Changing == {Two, Faster, Kept}

AsyncAndSync == {"async", "sync"}
JustAsync == {"async"}
ProcOfCaller == [c \in Callers |-> IF c \in Tasks THEN "async" ELSE "sync"]

Upto(lapses, faults, crashes, replays) ==
  [lapses |-> lapses, faults |-> faults, crashes |-> crashes,
   replays |-> replays]
Troubled == {Upto(1, 1, 0, 0), Upto(0, 0, 0, 1)}
Mortal == {Upto(0, 0, 1, 0)}

TaskSymmetry == Permutations(Tasks)

=============================================================================
