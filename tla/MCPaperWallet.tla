--------------------------- MODULE MCPaperWallet ----------------------------
(* PaperWallet for TLC.                                                     *)
EXTENDS PaperWallet

Style(limit, split, short, cancels) ==
    [limit |-> limit, ocoSides |-> {"SELL"}, splitStops |-> split, shorting |-> short,
     cancels |-> cancels]

(* A strategy that does not cancel buys while it sells, and one that shorts *)
(* too, splits stops and cancels any order that waits.                      *)
SomeStyles == {Style(4, FALSE, FALSE, {"sell", "buy"}), Style(3, TRUE, TRUE, CancelKinds)}

CancellingStyle == {Style(4, FALSE, FALSE, {"sell", "buy", "buyWhileSelling"})}
============================================================================
