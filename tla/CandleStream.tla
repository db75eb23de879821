---------------------------- MODULE CandleStream ----------------------------
(***************************************************************************)
(* Where candles come from.  Live: serveCandles of                         *)
(* exchange/binance/stream.go, one goroutine per feed that keeps a         *)
(* websocket open until its context is cancelled, over the read loop of    *)
(* go-binance.  In a backtest: CandlesSubscription of                      *)
(* exchange/feed/csvfeed.go, which sends its candles and closes.  Both     *)
(* channels are unbuffered; Start of exchange/feed/subscription.go runs    *)
(* the goroutine that receives from them.                                  *)
(*                                                                         *)
(* A feed is a number, the place of its pair in the order of names.  The   *)
(* exchange publishes candles 1, 2, 3, ... of every feed: an odd candle is *)
(* a partial update of the period that the next, even, candle closes.      *)
(* Time passes freely, so the length of the back-off is left out.          *)
(***************************************************************************)
EXTENDS Integers, Sequences, FiniteSets

CONSTANTS
    NFeeds,      \* the pairs that the bot trades
    Published,   \* candles the exchange has published when the bot starts
    LastCandle   \* bound on the candles of each feed

Feeds == 1..NFeeds

ASSUME StreamAssumption ==
    /\ NFeeds \in Nat \ {0}
    /\ Published \in Nat
    /\ LastCandle \in [Feeds -> Nat]
    /\ \A f \in Feeds : Published <= LastCandle[f]

VARIABLES
    cancelled,  \* is the context of the bot cancelled?
    published,  \* the last candle of a feed that the exchange has published
    loop,       \* where the goroutine of serveCandles, or of the CSV feed, is
    reader,     \* where the read loop of the connection is
    wire,       \* candles that are on their way through the connection
    receiver    \* is the goroutine of Start receiving from the two channels?

streamVars == <<cancelled, published, loop, reader, wire, receiver>>

LoopPCs   == {"unopened", "head", "report", "sleep", "wait", "join", "csv", "closed"}
ReaderPCs == {"none", "read", "candle", "error", "done"}

Candle(f, n) == [feed |-> f, n |-> n]
Time(c)      == (c.n + 1) \div 2
Complete(c)  == c.n % 2 = 0

StreamInit ==
    /\ cancelled = FALSE
    /\ published = [f \in Feeds |-> Published]
    /\ loop = [f \in Feeds |-> "unopened"]
    /\ reader = [f \in Feeds |-> "none"]
    /\ wire = [f \in Feeds |-> <<>>]
    /\ receiver = [f \in Feeds |-> "off"]

LoopTo(f, from, to)   == loop[f] = from /\ loop' = [loop EXCEPT ![f] = to]
ReaderTo(f, from, to) == reader[f] = from /\ reader' = [reader EXCEPT ![f] = to]

(* The exchange publishes the next candle; it is lost on a feed that is     *)
(* not connected.                                                          *)
Publish(f) ==
    /\ published[f] < LastCandle[f]
    /\ published' = [published EXCEPT ![f] = @ + 1]
    /\ wire' = IF reader[f] \in {"read", "candle"}
               THEN [wire EXCEPT ![f] = Append(@, published[f] + 1)]
               ELSE wire
    /\ UNCHANGED <<cancelled, loop, reader, receiver>>

Cancel ==
    /\ ~cancelled
    /\ cancelled' = TRUE
    /\ UNCHANGED <<published, loop, reader, wire, receiver>>

(* serveCandles: for ctx.Err() == nil, connect.  A cancellation between the *)
(* two is one right after the dial.                                        *)
LoopEnds(f) ==
    /\ cancelled
    /\ LoopTo(f, "head", "closed")
    /\ UNCHANGED <<cancelled, published, reader, wire, receiver>>

Dial(f) ==
    /\ ~cancelled
    /\ LoopTo(f, "head", "wait")
    /\ reader' = [reader EXCEPT ![f] = "read"]
    /\ wire' = [wire EXCEPT ![f] = <<>>]
    /\ UNCHANGED <<cancelled, published, receiver>>

DialFails(f) ==
    /\ ~cancelled
    /\ LoopTo(f, "head", "report")
    /\ UNCHANGED <<cancelled, published, reader, wire, receiver>>

(* sendErr returns when the error is received or the context is cancelled. *)
CanSendErr(f) == receiver[f] = "on" \/ cancelled

(* Mutant: a failed dial ends the stream.                                  *)
DialGivesUp(f) ==
    /\ CanSendErr(f)
    /\ LoopTo(f, "report", "closed")
    /\ UNCHANGED <<cancelled, published, reader, wire, receiver>>

DialReported(f) ==
    /\ CanSendErr(f)
    /\ LoopTo(f, "report", "sleep")
    /\ UNCHANGED <<cancelled, published, reader, wire, receiver>>

(* sleepContext: the timer fires or the context is cancelled.              *)
Wake(f) ==
    /\ \/ LoopTo(f, "sleep", "head")
       \/ cancelled /\ LoopTo(f, "sleep", "closed")
    /\ UNCHANGED <<cancelled, published, reader, wire, receiver>>

ConnectionEnds(f) ==
    /\ reader[f] = "done"
    /\ LoopTo(f, "wait", "sleep")
    /\ UNCHANGED <<cancelled, published, reader, wire, receiver>>

(* Mutant: the channels are closed without waiting for the read loop.      *)
StopWithoutWaiting(f) ==
    /\ cancelled
    /\ LoopTo(f, "wait", "closed")
    /\ UNCHANGED <<cancelled, published, reader, wire, receiver>>

(* The context is cancelled: close(stop), then wait for the read loop.     *)
StopConnection(f) ==
    /\ cancelled
    /\ LoopTo(f, "wait", "join")
    /\ UNCHANGED <<cancelled, published, reader, wire, receiver>>

Join(f) ==
    /\ reader[f] = "done"
    /\ LoopTo(f, "join", "closed")
    /\ UNCHANGED <<cancelled, published, reader, wire, receiver>>

(* go-binance's read loop: it calls the handler for a message and calls     *)
(* onError and ends when reading fails, as it does once stop is closed.    *)
Read(f) ==
    /\ wire[f] # <<>>
    /\ ReaderTo(f, "read", "candle")
    /\ UNCHANGED <<cancelled, published, loop, wire, receiver>>

(* The handler of serveCandles gives the candle up when it is cancelled.   *)
DropCandle(f) ==
    /\ cancelled
    /\ ReaderTo(f, "candle", "read")
    /\ wire' = [wire EXCEPT ![f] = Tail(@)]
    /\ UNCHANGED <<cancelled, published, loop, receiver>>

Disconnect(f) ==
    /\ \/ ReaderTo(f, "read", "error")
       \/ loop[f] = "join" /\ ReaderTo(f, "read", "done")
    /\ wire' = [wire EXCEPT ![f] = <<>>]
    /\ UNCHANGED <<cancelled, published, loop, receiver>>

ErrorReported(f) ==
    /\ CanSendErr(f)
    /\ ReaderTo(f, "error", "done")
    /\ UNCHANGED <<cancelled, published, loop, wire, receiver>>

(* The rendezvous on the candle channel: the handler, or the CSV feed,     *)
(* hands candle n to the receiving goroutine.                              *)
Hand(f, n) ==
    /\ receiver[f] = "on"
    /\ wire[f] # <<>> /\ n = Head(wire[f])
    /\ wire' = [wire EXCEPT ![f] = Tail(@)]
    /\ \/ ReaderTo(f, "candle", "read") /\ UNCHANGED loop
       \/ loop[f] = "csv" /\ UNCHANGED <<loop, reader>>
    /\ UNCHANGED <<cancelled, published, receiver>>

CsvCloses(f) ==
    /\ wire[f] = <<>>
    /\ LoopTo(f, "csv", "closed")
    /\ UNCHANGED <<cancelled, published, reader, wire, receiver>>

(* The goroutine of Start finds the candle channel closed and ends.        *)
ReceiverEnds(f) ==
    /\ loop[f] = "closed"
    /\ receiver[f] = "on"
    /\ receiver' = [receiver EXCEPT ![f] = "ended"]
    /\ UNCHANGED <<cancelled, published, loop, reader, wire>>
=============================================================================
