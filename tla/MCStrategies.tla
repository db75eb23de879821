---------------------------- MODULE MCStrategies -----------------------------
(* Strategies for TLC: a wallet that would allow short sales, and           *)
(* candles among which there are swing lows, new highs and pullbacks.       *)
EXTENDS Strategies, TLC

Bar(l, c, h) == [low |-> l, close |-> c, high |-> h]

SomeShapes == {Bar(1, 1, 2), Bar(2, 2, 3), Bar(4, 5, 5), Bar(5, 6, 7)}

Bounds == [k \in Kinds |-> IF k = "fibonacci" THEN 6 ELSE 5]

Symmetry == Permutations(Pairs)

AnyStyle == {[limit |-> 7, ocoSides |-> {"SELL"}, splitStops |-> FALSE, shorting |-> TRUE,
              cancels |-> {}]}
==============================================================================
