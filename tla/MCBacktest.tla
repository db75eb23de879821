------------------------------ MODULE MCBacktest ------------------------------
(* A small instance of Backtest: a day has four units, two days have        *)
(* passed; candles take one, two or four units.  The market is whole, has a *)
(* gap, begins late, or has nothing.  The last plan is too short.           *)
EXTENDS Backtest

Whole == 0..8

SomeMarkets == {Whole, Whole \ {3, 4}, 7..8, {}}

Ask(days, timeframe, fine) == [days |-> days, timeframe |-> timeframe, highFrequency |-> fine]

SomePlans == {Ask(1, 2, FALSE), Ask(1, 2, TRUE), Ask(2, 4, TRUE), Ask(1, 4, TRUE)}
==============================================================================
