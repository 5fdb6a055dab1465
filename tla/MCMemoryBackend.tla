-------------------------- MODULE MCMemoryBackend --------------------------
(***************************************************************************)
(* Small instances of MemoryBackend.  "s" and "m" are the two windows of   *)
(* one metric, tokens per 1 and per 2 seconds; "r" is a window of a second *)
(* metric, requests per second.                                            *)
(***************************************************************************)
EXTENDS MemoryBackend, TLC

TwoWindows == {"s", "m"}
TokensOnly == {"tokens"}
BothMetrics == {"tokens", "requests"}

MetricOfWindow == [b \in Buckets |-> IF b = "r" THEN "requests" ELSE "tokens"]
SecondsOfWindow == [b \in Buckets |-> IF b = "m" THEN 2 ELSE 1]

Full == [b \in Buckets |-> IF b = "m" THEN 3 ELSE 2]
WithoutM == [b \in Buckets \ {"m"} |-> 2]
FixedConfig == {Full}
ChangingConfigs == {Full, WithoutM}
WithoutR == [b \in Buckets \ {"r"} |-> IF b = "m" THEN 3 ELSE 2]
ChangingMetrics == {Full, WithoutR}


TaskSymmetry == Permutations(Tasks)

OneWindow == {"m"}
TwoMetrics == {"s", "r"}

Uniform(ns) == {[m \in Metrics |-> n] : n \in ns}
OneOrTwo == Uniform({1, 2})
JustTwo == Uniform({2})
ZeroOrThree == Uniform({0, 3})
JustThree == Uniform({3})
JustZero == Uniform({0})
JustOne == Uniform({1})

=============================================================================
