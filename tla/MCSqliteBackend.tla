-------------------------- MODULE MCSqliteBackend --------------------------
(***************************************************************************)
(* Small instances of SqliteBackend: a one-second and a two-second window  *)
(* of one metric.                                                          *)
(***************************************************************************)
EXTENDS SqliteBackend, TLC

Window == {"m"}
TwoWindows == {"s", "m"}
TokensOnly == {"tokens"}
MetricOfWindow == [b \in Buckets |-> "tokens"]
SecondsOfWindow == [b \in Buckets |-> IF b = "m" THEN 2 ELSE 1]

TwoAMinute == [b \in Buckets |-> 2]
Twos == {TwoAMinute}
OnlyM == [b \in {"m"} |-> 2]
WithS == [b \in {"s", "m"} |-> 2]
Changing == {OnlyM, WithS}
Three == [b \in {"m"} |-> 3]
ThreeOrOne == {Three, [b \in {"m"} |-> 1]}

Uniform(ns) == {[m \in Metrics |-> n] : n \in ns}
JustZero == Uniform({0})
JustOne == Uniform({1})
JustTwo == Uniform({2})
JustSix == Uniform({6})

CONSTANTS e1, e2, e3

(* One engine, no change of limits; its process dies or its files go. *)
Alone ==
  {[engines |-> {e1}, initial |-> {e1}, configs |-> Twos, start |-> TwoAMinute,
    usages |-> JustOne, limits |-> {}, override_ttl |-> 3, last_second |-> 4,
    skew |-> 0, crashes |-> n, losses |-> 1 - n] : n \in 0..1}

(* Two processes share the budget. *)
Shared ==
  {[engines |-> {e1, e2}, initial |-> {e1, e2}, configs |-> Twos,
    start |-> TwoAMinute, usages |-> JustTwo, limits |-> {},
    override_ttl |-> 3, last_second |-> 6, skew |-> 1, crashes |-> 1,
    losses |-> 1]}

(* One engine whose limits an operator and a new configuration lower under *)
(* deep debt, and processes that open, replace and lose engines with       *)
(* different quotas.                                                       *)
Lowered ==
  [engines |-> {e1}, initial |-> {e1}, configs |-> ThreeOrOne,
   start |-> Three, usages |-> JustSix, limits |-> {1}, override_ttl |-> 5,
   last_second |-> 8, skew |-> 1, crashes |-> 0, losses |-> 0]
Replaced ==
  [engines |-> {e1, e2, e3}, initial |-> {e1, e2}, configs |-> Changing,
   start |-> WithS, usages |-> JustOne, limits |-> {}, override_ttl |-> 2,
   last_second |-> 5, skew |-> 0, crashes |-> 1, losses |-> 0]
Aged == {Lowered, Replaced}

TaskSymmetry == Permutations(Tasks)
EngineSymmetry == Permutations(Engines)

=============================================================================
