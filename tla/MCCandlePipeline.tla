-------------------------- MODULE MCCandlePipeline --------------------------
(* CandlePipeline for TLC.  Two pairs are ordered by name: no symmetry.     *)
EXTENDS CandlePipeline, TLC

(* After the candles of the preload: the first pair closes two periods with *)
(* a partial candle between them, the second pair is silent.               *)
Uneven == <<6, 3>>

(* One partial candle of each pair.                                        *)
Single == <<3, 3>>
=============================================================================
