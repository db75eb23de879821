------------------------------ MODULE Strategies ------------------------------
(***************************************************************************)
(* The built-in strategies (strategy/strategies) in a backtest: each candle *)
(* goes to the simulated exchange (PaperWallet), fills are booked on the   *)
(* order controller's positions (order/controller.go), and the strategy    *)
(* may trade.  All of it runs in one goroutine, so a step is one call.     *)
(*                                                                         *)
(* The indicators are numeric: whether a signal is on is free.  The legs   *)
(* of the Fibonacci strategy are computed from the candles                 *)
(* (FibonacciLegs).  Warm-up and the rounding of float64 are left out; the *)
(* latter makes the wallet reject orders now and then.                     *)
(***************************************************************************)
EXTENDS PaperWallet, FibonacciLegs

CONSTANTS
    Kinds,        \* the strategies
    Shapes,       \* candles of the market
    MaxCandles,   \* bound on the candles of a behaviour, by strategy
    MinOrder,     \* fibMinOrder, and the 10 of the others
    MaxSpend,     \* what OCOSell spends at most
    Interval,     \* IntervalDays of DCA, in candles
    BuyAmount,    \* BuyAmount of DCA
    MaxPullback   \* fibMaxPullback

AllKinds == {"ocosell", "dca", "trailing", "turtle", "emacross", "fibonacci"}

ASSUME StrategiesAssumption ==
    /\ Kinds \subseteq AllKinds
    /\ Shapes \subseteq Candles
    /\ MaxCandles \in [Kinds -> Nat]
    /\ {MinOrder, MaxSpend, Interval, BuyAmount, MaxPullback} \subseteq Nat

VARIABLES
    kind,      \* the strategy that runs
    phase,     \* "market", "strategy", or "exit": the OCO after a buy
    clock,     \* candles so far
    candle,    \* the one that the strategy sees
    exit,      \* the OCO order that it places next
    position,  \* Controller.position: open position of each pair
    results,   \* Controller.Results: what was realized, in order
    parts,     \* pairs of which a position was not sold whole (history)
    equity,    \* equityValues of the wallet
    closed,    \* pairs with a complete candle at the time of its last value
    trailing,  \* TrailingStop of each pair; history: the highest price it was
               \* shown (peak) and how far below the first it started (risk)
    lastBuy,   \* lastBuyTime of DCA, 0 if none
    bars,      \* candles of each pair, for fibonacci
    leg,       \* fibLegs of all of them but the last
    next,      \* and of all of them
    traded,    \* Fibonacci.traded, 0 if none
    bought     \* legs bought so far (history)

books     == <<position, results, parts>>
memory    == <<trailing, lastBuy, traded, bought>>
chart     == <<candle, bars, leg, next, equity, closed>>
walletVars == <<style, balVars, last, orders, pending>>
allVars   == <<walletVars, kind, phase, clock, exit, books, memory, chart>>

NoPosition == [side |-> "none", qty |-> 0, cost |-> 0]
NoExit     == [pair |-> "none"]
Unarmed    == [active |-> FALSE, current |-> 0, stop |-> 0, peak |-> 0, risk |-> 0]

AllInit ==
    /\ Init
    /\ kind \in Kinds /\ phase = "market" /\ clock = 0
    /\ candle = [pair |-> "none"] /\ exit = NoExit
    /\ position = [p \in Pairs |-> NoPosition] /\ results = [p \in Pairs |-> <<>>]
    /\ parts = {}
    /\ equity = <<>> /\ closed = {}
    /\ trailing = [p \in Pairs |-> Unarmed]
    /\ lastBuy = [p \in Pairs |-> 0] /\ traded = [p \in Pairs |-> 0]
    /\ bought = [p \in Pairs |-> <<>>]
    /\ bars = [p \in Pairs |-> <<>>]
    /\ leg = [p \in Pairs |-> NoLeg] /\ next = [p \in Pairs |-> NoLeg]

-----------------------------------------------------------------------------
(* Position.Update.  cost is AvgPrice times Quantity.                       *)
TradePrice(o) == IF o.type \in StopTypes THEN o.stop ELSE o.price

Opened(o) == [side |-> o.side, qty |-> o.qty, cost |-> o.qty * o.price]

(* Mutant: the last price becomes the average price.                        *)
IncreasedAtLastPrice(pos, o) ==
    [pos EXCEPT !.qty = @ + o.qty, !.cost = (pos.qty + o.qty) * TradePrice(o)]

Increased(pos, o) == [pos EXCEPT !.qty = @ + o.qty, !.cost = @ + o.qty * TradePrice(o)]

Reduced(pos, o) ==
    [pos EXCEPT !.qty = @ - o.qty, !.cost = (@ * (pos.qty - o.qty)) \div pos.qty]

Flipped(pos, o) ==
    [side |-> o.side, qty |-> o.qty - pos.qty, cost |-> (o.qty - pos.qty) * TradePrice(o)]

(* applyToPosition: the first fill opens a position, one of the same side   *)
(* adds to it, one of the other side reduces, closes or turns it round.     *)
Updated(pos, o) ==
    CASE pos = NoPosition                             -> Opened(o)
      [] pos # NoPosition /\ pos.side = o.side        -> Increased(pos, o)
      [] pos.side \notin {o.side, "none"} /\ pos.qty > o.qty -> Reduced(pos, o)
      [] pos.side \notin {o.side, "none"} /\ pos.qty = o.qty -> NoPosition
      [] OTHER                                        -> Flipped(pos, o)

Realizes(pos, o) == pos.side \notin {o.side, "none"}

(* ProfitValue, for the quantity that remains if some does; turning round   *)
(* realizes nothing.                                                        *)
ProfitValue(pos, o) ==
    LET quantity == IF pos.qty = o.qty THEN o.qty ELSE Min({pos.qty - o.qty, o.qty}) IN
    IF o.qty > pos.qty THEN 0
    ELSE ((TradePrice(o) * pos.qty - pos.cost) * quantity) \div pos.qty

(* Nothing was realized, or the whole position at once.                     *)
SoldWhole(p, after) ==
    \/ Len(after.results) = Len(results[p])
    \/ Len(after.results) = Len(results[p]) + 1 /\ after.position = NoPosition

(* processTrade and updatePosition, for fills of one pair in turn.          *)
Processed(acc, o) ==
    [position |-> Updated(acc.position, o),
     results  |-> IF Realizes(acc.position, o)
                  THEN Append(acc.results, ProfitValue(acc.position, o)) ELSE acc.results]

ProcessTrades(p, fills) ==
    LET after == FoldLeft(Processed, [position |-> position[p], results |-> results[p]], fills) IN
    /\ position' = [position EXCEPT ![p] = after.position]
    /\ results' = [results EXCEPT ![p] = after.results]
    /\ parts' = IF SoldWhole(p, after) THEN parts ELSE parts \cup {p}

(* RestorePositions, when a session resumes: the filled orders are booked   *)
(* again, in the order of their creation instead of that of their fills.    *)
Restored(p) ==
    MapThenFoldSet(LAMBDA i, pos : Updated(pos, orders[i]), NoPosition, LAMBDA i : i, Max,
                   {i \in DOMAIN orders : orders[i].pair = p /\ orders[i].status = "FILLED"})

-----------------------------------------------------------------------------
(* Broker.Position: free and locked together.                               *)
AssetPosition(p) == assets[p].free + assets[p].lock

QuotePosition == quote.free + quote.lock

(* What the wallet is worth at the last prices.                             *)
Worth == QuotePosition + SumFunction([p \in Pairs |-> AssetPosition(p) * last[p]])

(* updateEquityValues: a partial candle does not count, and one with the    *)
(* time of the last value, which is one of another pair, replaces it.       *)
EquityAfter(complete, again) ==
    CASE ~complete           -> equity
      [] complete /\ again  -> [equity EXCEPT ![Len(equity)] = Worth']
      [] complete /\ ~again -> Append(equity, Worth')

(* Candles come in the order of their times: when a pair that has closed    *)
(* the one of the last value has another, that time is over.                *)
ClosedAfter(p, complete, again) ==
    CASE complete /\ again  -> closed \cup {p}
      [] complete /\ ~again -> {p}
      [] ~complete           -> IF p \in closed THEN {} ELSE closed

(* A step of MaxDrawdown: the change over the window that ends here; a      *)
(* window that has gained is given up for a new one.                        *)
Change(d, value) ==
    LET anew   == d.local > 0
        local  == (IF anew THEN 0 ELSE d.local) + value - d.prev
        base   == IF anew THEN d.prev ELSE d.base IN
    [prev |-> value, local |-> local, base |-> base,
     drop  |-> Min({local, d.drop}),
     start |-> IF local < d.drop THEN base ELSE d.start]

(* MaxDrawdown: the largest fall of the equity and the value it began at,   *)
(* of which the code returns the ratio.                                     *)
MaxDrawdown(values) ==
    IF values = <<>> THEN [drop |-> 0, start |-> 0]
    ELSE LET first == [prev |-> values[1], local |-> 1, base |-> 0, drop |-> 0, start |-> 0]
             d     == FoldLeft(Change, first, Tail(values)) IN
         [drop |-> d.drop, start |-> d.start]

(* summary.Profit: what was won and lost with a pair.                       *)
Profit(p) == SumFunction(results[p])

(* computeSessionStats: the gain of the whole wallet.                       *)
PnL == Worth - (InitQuote + SumFunction([p \in Pairs |-> InitAsset * last[p]]))

(* backtestCandles: the candle fills orders, and if any was waiting,        *)
(* UpdateOrders books the fills before the strategy sees the candle.        *)
NewlyFilled == {i \in DOMAIN orders : New(i) /\ orders'[i].status = "FILLED"}

(* storage.Orders: by the update of their rows, for orders that waited the  *)
(* candle on which they were placed.  A strategy places one order or OCO    *)
(* group on a candle of a pair, so that is the order of their IDs.          *)
ById(ids) ==
    CHOOSE s \in [1..Cardinality(ids) -> ids] : \A j, k \in DOMAIN s : j < k => s[j] < s[k]

Record(p, c) ==
    IF kind = "fibonacci"
    THEN /\ bars' = [bars EXCEPT ![p] = Append(@, [low |-> c.low, high |-> c.high])]
         /\ leg' = [leg EXCEPT ![p] = next[p]]
         /\ next' = [next EXCEPT ![p] = NextLeg(next[p], bars'[p])]
    ELSE UNCHANGED <<bars, leg, next>>

(* again: the candle has the time of the last value of the equity.          *)
Candle(p, c, complete, again) ==
    /\ phase = "market" /\ clock < MaxCandles[kind]
    /\ ~complete => kind = "trailing"
    /\ again => complete /\ closed # {} /\ p \notin closed
    /\ OnCandle(p, c)
    /\ ProcessTrades(p, LET ids == ById(NewlyFilled) IN [k \in DOMAIN ids |-> orders'[ids[k]]])
    /\ equity' = EquityAfter(complete, again)
    /\ closed' = ClosedAfter(p, complete, again)
    /\ Record(p, c)
    /\ candle' = [pair |-> p, low |-> c.low, complete |-> complete]
    /\ clock' = clock + 1 /\ phase' = "strategy"
    /\ UNCHANGED <<kind, exit, memory>>

-----------------------------------------------------------------------------
Close(p) == last[p]

(* Room for the orders of a trade.                                          *)
Room == Len(orders) + 3 <= style.limit

(* A strategy trades when it has seen a candle of the pair.                 *)
Market(p, side, size) ==
    /\ last[p] # 0
    /\ CreateOrderMarket(p, side, size)
    /\ ProcessTrades(p, <<orders'[Len(orders')]>>)

MarketQuote(p, side, amount) ==
    /\ last[p] # 0
    /\ CreateOrderMarketQuote(p, side, amount)
    /\ ProcessTrades(p, <<orders'[Len(orders')]>>)

Goto(label) == phase' = label

(* No signal, or an order that the wallet rejects.                          *)
Nothing(p) ==
    /\ Goto("market")
    /\ UNCHANGED <<walletVars, kind, clock, exit, books, memory, chart>>

(* Mutant: the OCO order is placed although the buy was rejected.           *)
ExitInAnyCase(order) == order

(* "Without the asset, the OCO sell would open a short position"            *)
ExitIfRejected(order) == NoExit

Exit(p, size, price, stop) == [pair |-> p, size |-> size, price |-> price, stop |-> stop]

(* OCOSell.OnCandle: spends up to MaxSpend, also while it holds the asset.  *)
OCOSell(p) ==
    LET amount == Min({MaxSpend, QuotePosition})
        size == amount \div Close(p) IN
    /\ kind = "ocosell" /\ amount >= MinOrder /\ Room
    /\ \E take, stop \in Prices :
          /\ take > Close(p) /\ stop < Close(p)
          /\ \/ /\ Market(p, "BUY", size)
                /\ exit' = Exit(p, size, take, stop)
                /\ Goto("exit")
             \/ /\ size > 0
                /\ exit' = ExitIfRejected(Exit(p, size, take, stop))
                /\ Goto(IF exit' = NoExit THEN "market" ELSE "exit")
                /\ UNCHANGED <<walletVars, books>>
    /\ UNCHANGED <<kind, clock, memory, chart>>

(* DCA.OnCandle: the time of a buy counts only if it succeeds.              *)
DCA(p) ==
    LET amount == IF QuotePosition >= BuyAmount THEN BuyAmount ELSE QuotePosition IN
    /\ kind = "dca" /\ amount >= MinOrder /\ Room
    /\ lastBuy[p] = 0 \/ clock - lastBuy[p] >= Interval
    /\ Market(p, "BUY", amount \div Close(p))
    /\ lastBuy' = [lastBuy EXCEPT ![p] = clock]
    /\ Goto("market")
    /\ UNCHANGED <<kind, clock, exit, trailing, traded, bought, chart>>

(* CrossEMA.OnCandle: buys with all it has, again and again, sells it all.  *)
CrossEMA(p) ==
    /\ kind = "emacross" /\ Room
    /\ \/ QuotePosition >= MinOrder /\ MarketQuote(p, "BUY", QuotePosition)
       \/ AssetPosition(p) > 0 /\ Market(p, "SELL", AssetPosition(p))
    /\ Goto("market")
    /\ UNCHANGED <<kind, clock, exit, memory, chart>>

(* Turtle.OnCandle                                                          *)
Turtle(p) ==
    /\ kind = "turtle" /\ Room
    /\ \/ AssetPosition(p) = 0 /\ MarketQuote(p, "BUY", QuotePosition \div 2)
       \/ AssetPosition(p) > 0 /\ Market(p, "SELL", AssetPosition(p))
    /\ Goto("market")
    /\ UNCHANGED <<kind, clock, exit, memory, chart>>

-----------------------------------------------------------------------------
(* trailing.OnCandle: enters, and arms the stop at the candle's low.        *)
Enter(p) ==
    /\ kind = "trailing" /\ candle.complete /\ Room
    /\ QuotePosition > MinOrder /\ AssetPosition(p) * Close(p) < MinOrder
    /\ MarketQuote(p, "BUY", QuotePosition)
    /\ trailing' = [trailing EXCEPT ![p] =
          [active |-> TRUE, current |-> Close(p), stop |-> candle.low,
           peak |-> Close(p), risk |-> Close(p) - candle.low]]
    /\ Goto("market")
    /\ UNCHANGED <<kind, clock, exit, lastBuy, traded, bought, chart>>

(* Mutant: the stop follows the price down as well.                         *)
FollowedBothWays(t, close) ==
    [t EXCEPT !.stop = @ + (close - t.current), !.current = close, !.peak = Max({@, close})]

(* TrailingStop.Update, which only partial candles call: the stop rises     *)
(* with every rise of the price, also with one that only makes up for a     *)
(* fall.                                                                    *)
Followed(t, close) ==
    [t EXCEPT !.stop = IF close > t.current THEN @ + (close - t.current) ELSE @,
              !.current = close, !.peak = Max({@, close})]

Triggers(t, close) == t.active /\ close <= t.current /\ close <= t.stop

(* trailing.OnPartialCandle                                                 *)
Trail(p) ==
    LET t == trailing[p]
        followed == IF t.active THEN Followed(t, Close(p)) ELSE t
        sells == Triggers(t, Close(p)) /\ AssetPosition(p) > 0 IN
    /\ kind = "trailing" /\ ~candle.complete
    /\ Goto("market")
    /\ IF sells
       THEN \/ /\ Market(p, "SELL", AssetPosition(p))
               /\ trailing' = [trailing EXCEPT ![p] = [followed EXCEPT !.active = FALSE]]
            \/ /\ trailing' = [trailing EXCEPT ![p] = followed]
               /\ UNCHANGED <<walletVars, books>>
       ELSE /\ trailing' = [trailing EXCEPT ![p] = followed]
            /\ UNCHANGED <<walletVars, books>>
    /\ UNCHANGED <<kind, clock, exit, lastBuy, traded, bought, chart>>

-----------------------------------------------------------------------------
(* Mutant: legs are not remembered.                                         *)
NeverTraded(p, start) == FALSE

(* Only the start of the last leg is remembered.                            *)
TradedLeg(p, start) == traded[p] = start

(* Fibonacci.OnCandle.  Trend, size of the leg, entry level and colour of   *)
(* the candle are free; the stop is above the swing low and was not reached *)
(* by the last two candles, and the take profit is at the swing high.       *)
Pullback(p, stop) ==
    LET n == Len(bars[p])
        l == leg[p] IN
    /\ n >= 2 /\ l.ok /\ n - l.highIdx <= MaxPullback
    /\ bars[p][l.lowIdx].low < stop
    /\ stop < Min({bars[p][n].low, bars[p][n - 1].low})
    /\ Min({bars[p][n].low, bars[p][n - 1].low}) < Close(p)
    /\ Close(p) < bars[p][l.highIdx].high

Fibonacci(p) ==
    LET l == leg[p] IN
    /\ kind = "fibonacci" /\ Room
    /\ \E stop \in Prices :
          /\ Pullback(p, stop)
          /\ ~TradedLeg(p, l.lowIdx)
          /\ AssetPosition(p) * Close(p) < MinOrder /\ QuotePosition >= MinOrder
          /\ \/ /\ MarketQuote(p, "BUY", QuotePosition)
                /\ traded' = [traded EXCEPT ![p] = l.lowIdx]
                /\ bought' = [bought EXCEPT ![p] = Append(@, l.lowIdx)]
                /\ exit' = Exit(p, orders'[Len(orders')].qty, bars[p][l.highIdx].high, stop)
                /\ Goto("exit")
             \/ /\ QuotePosition >= Close(p)
                /\ exit' = ExitIfRejected(Exit(p, QuotePosition \div Close(p),
                                               bars[p][l.highIdx].high, stop))
                /\ Goto(IF exit' = NoExit THEN "market" ELSE "exit")
                /\ UNCHANGED <<walletVars, books, traded, bought>>
    /\ UNCHANGED <<kind, clock, trailing, lastBuy, chart>>

(* The OCO order after a buy, at the stop and take profit that the strategy *)
(* has computed; when the wallet rejects it, the asset is held without one. *)
PlaceExit ==
    /\ phase = "exit"
    /\ \/ CreateOrderOCO(exit.pair, "SELL", exit.size, exit.price, exit.stop, exit.stop)
       \/ UNCHANGED walletVars
    /\ exit' = NoExit
    /\ Goto("market")
    /\ UNCHANGED <<kind, clock, books, memory, chart>>

-----------------------------------------------------------------------------
Strategy(p) ==
    /\ phase = "strategy" /\ candle.pair = p
    /\ \/ OCOSell(p) \/ DCA(p) \/ CrossEMA(p) \/ Turtle(p) \/ Enter(p) \/ Trail(p) \/ Fibonacci(p)
       \/ candle.complete /\ Nothing(p)

AllNext ==
    \/ \E p \in Pairs, c \in Shapes, complete, again \in BOOLEAN : Candle(p, c, complete, again)
    \/ \E p \in Pairs : Strategy(p)
    \/ PlaceExit

AllSpec == AllInit /\ [][AllNext]_allVars

-----------------------------------------------------------------------------
(* "Without the asset, the OCO sell would open a short position": although  *)
(* the wallet would let it, no strategy ever sells what it does not hold,   *)
(* and none spends more than it has.                                        *)
NeverShort ==
    /\ quote.free >= 0 /\ quote.lock >= 0
    /\ \A p \in Pairs :
          /\ assets[p].free >= 0 /\ assets[p].lock >= 0
          /\ position[p].side # "SELL"

(* What a position is worth at the last price, less what was paid for it.   *)
Unrealized(p) == position[p].qty * last[p] - position[p].cost

(* The open positions are the assets held, and a session that resumes       *)
(* restores them, exactly so unless some were sold in parts.                *)
PositionsRestored ==
    \A p \in Pairs :
        /\ position[p].qty = AssetPosition(p) - InitAsset
        /\ Restored(p).qty = position[p].qty
        /\ p \notin parts => Restored(p) = position[p]

(* What was realized and what is open add up to the gain of the wallet.     *)
(* The profit of a partial sale is computed for what remains instead.       *)
ProfitsAddUp ==
    parts = {} => SumFunction([p \in Pairs |-> Profit(p) + Unrealized(p)]) = PnL

(* No fall of the equity between two candles was larger than the drawdown   *)
(* that is reported.                                                        *)
DrawdownIsLargest ==
    LET worst == MaxDrawdown(equity)
        falls == UNION {{[drop |-> equity[j] - equity[i], start |-> equity[i]] :
                     j \in (i + 1)..Len(equity)} : i \in DOMAIN equity} IN
    /\ \A fall \in falls : worst.drop <= fall.drop
    /\ worst.drop < 0 => worst \in falls

(* The books tell what happened to the wallet, at every moment, whichever   *)
(* orders were filled, in whatever order.                                   *)
BooksMatchWallet ==
    PositionsRestored /\ ProfitsAddUp /\ (phase = "strategy" => DrawdownIsLargest)

(* A trade of the trailing stop never risks more than at its entry, of the  *)
(* prices that the stop is shown: the close of the entry and those of the   *)
(* partial candles since (a complete candle may close higher and does not   *)
(* move it).  It is as far below the highest of these as the low of the     *)
(* entry candle was below its close, or closer, and armed while there is a  *)
(* position.                                                                *)
StopProtects ==
    kind = "trailing" => \A p \in Pairs :
        /\ trailing[p].active <=> position[p].qty > 0
        /\ trailing[p].active => trailing[p].stop >= trailing[p].peak - trailing[p].risk

(* "from a swing low to the highest high after it": the leg that the        *)
(* strategy trades, however it was extended, anchored anew or broken.       *)
LegIsSwing == \A p \in Pairs : IsSwing(next[p], bars[p])

(* "each leg is traded once": never again, also not after other legs, of    *)
(* which only the last is remembered.                                       *)
EachLegOnce ==
    \A p \in Pairs, i, j \in 1..clock :
        i < j /\ j <= Len(bought[p]) => bought[p][i] < bought[p][j]

==============================================================================
