---------------------------- MODULE FibonacciLegs -----------------------------
(***************************************************************************)
(* The up-legs of strategy/strategies/fibonacci.go: from a swing low that  *)
(* Pivot candles on each side confirm to the highest high after it.  The   *)
(* code scans the whole dataframe at every candle; here a leg is carried   *)
(* from candle to candle, as the scan does.                                *)
(***************************************************************************)
EXTENDS Integers, Sequences

CONSTANT Pivot

ASSUME PivotAssumption == Pivot \in Nat \ {0}

(* ok: there is a leg; lowIdx and highIdx are the candles of its ends, and  *)
(* pivot is the last confirmed swing low, 0 if a lower low has come since.  *)
NoLeg == [ok |-> FALSE, lowIdx |-> 0, highIdx |-> 0, pivot |-> 0]

(* isPivotLow: the lowest of its neighbours; of equal lows the first.       *)
IsPivotLow(bars, j) ==
    /\ j - Pivot >= 1 /\ j + Pivot <= Len(bars)
    /\ \A k \in (j - Pivot)..(j + Pivot) :
          /\ k < j => bars[k].low > bars[j].low
          /\ k > j => bars[k].low >= bars[j].low

(* The first of the highest candles from i to k.                            *)
Highest(bars, i, k) ==
    CHOOSE h \in i..k :
        \A n \in i..k : bars[n].high < bars[h].high \/ (bars[n].high = bars[h].high /\ h <= n)

(* A low below the swing low ends the leg, and makes a pivot useless.       *)
Broken(leg, bars) ==
    LET low == bars[Len(bars)].low
        pivot == IF leg.pivot # 0 /\ low < bars[leg.pivot].low THEN 0 ELSE leg.pivot IN
    IF leg.ok /\ low < bars[leg.lowIdx].low THEN [NoLeg EXCEPT !.pivot = pivot]
                                            ELSE [leg EXCEPT !.pivot = pivot]

(* A new high extends the leg; a pullback after the old high makes a new    *)
(* leg of it.                                                               *)
Extended(leg, bars) ==
    IF leg.ok /\ bars[Len(bars)].high > bars[leg.highIdx].high
    THEN [leg EXCEPT !.highIdx = Len(bars),
                     !.lowIdx = IF leg.pivot > leg.highIdx THEN leg.pivot ELSE @]
    ELSE leg

(* Mutant: the swing high is the pivot's own, whatever came after it.       *)
HighOfPivot(bars, j) == j

HighSince(bars, j) == Highest(bars, j, Len(bars))

(* A new pivot starts a leg if there is none.                               *)
Started(leg, bars) ==
    LET j == Len(bars) - Pivot IN
    IF ~IsPivotLow(bars, j) \/ leg.pivot >= j THEN leg
    ELSE IF leg.ok THEN [leg EXCEPT !.pivot = j]
    ELSE [ok |-> TRUE, lowIdx |-> j, highIdx |-> HighSince(bars, j), pivot |-> j]

(* fibLegs: the leg after the last of bars, from the one before it.         *)
NextLeg(leg, bars) == Started(Extended(Broken(leg, bars), bars), bars)

-----------------------------------------------------------------------------
(* What the doc comment says of a leg: it goes from a swing low, the lowest *)
(* low since it began, to the highest high after it.                        *)
IsSwing(leg, bars) ==
    leg.ok =>
        /\ IsPivotLow(bars, leg.lowIdx)
        /\ leg.highIdx = Highest(bars, leg.lowIdx, Len(bars))
        /\ \A k \in leg.lowIdx..Len(bars) : bars[k].low >= bars[leg.lowIdx].low

=============================================================================
