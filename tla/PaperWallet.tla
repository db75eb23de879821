---------------------------- MODULE PaperWallet -----------------------------
(***************************************************************************)
(* The simulated exchange of exchange/paperwallet/paperwallet.go: balances *)
(* with their locked parts, limit, stop and OCO orders that wait for a     *)
(* candle, market orders that fill at once.  Every method holds the        *)
(* wallet's mutex, so a method is one action.                              *)
(*                                                                         *)
(* Money and quantities are integers: a quantity counts lot steps, and the *)
(* rounding of float64 is left out.  An order is known by its index in     *)
(* orders, which stands for its ExchangeID, and a group by the index of    *)
(* its first leg.                                                          *)
(***************************************************************************)
EXTENDS Integers, Sequences, FiniteSets, FiniteSetsExt, SequencesExt

CONSTANTS
    Pairs,         \* traded pairs, all against the base coin
    InitQuote,     \* WithPaperAsset amount of the base coin
    InitAsset,     \* and of the asset of each pair
    Prices,        \* prices of orders and of candles
    Sizes,         \* order quantities
    QuoteAmounts,  \* amounts of CreateOrderMarketQuote
    MaxOrders,     \* bound on the orders of a behaviour
    Styles         \* what strategies ask of the wallet

CancelKinds == {"sell", "buy", "buyWhileSelling", "leg"}

(* A style: how many orders there may be, the sides on which OCO orders are *)
(* placed, whether their stop may differ from their stopLimit, whether more *)
(* is sold than is free, and what is cancelled (see CancelKind).            *)
StyleType == [limit : 0..MaxOrders, ocoSides : SUBSET {"BUY", "SELL"}, splitStops : BOOLEAN,
              shorting : BOOLEAN, cancels : SUBSET CancelKinds]

ASSUME WalletAssumption ==
    /\ Pairs # {} /\ IsFiniteSet(Pairs)
    /\ {InitQuote, InitAsset, MaxOrders} \subseteq Nat
    /\ Prices \subseteq Nat \ {0} /\ Sizes \subseteq Nat \ {0}
    /\ QuoteAmounts \subseteq Nat
    /\ Styles \subseteq StyleType

VARIABLES
    style,     \* what the strategy of this wallet does
    quote,     \* balance of the base coin
    assets,    \* balance of the asset of each pair
    avgShort,  \* avgShortPrice
    last,      \* close of lastCandle, 0 before the first candle
    orders,    \* every order ever accepted
    pending    \* pendingOrders: indices waiting for a candle, by pair

balVars == <<quote, assets, avgShort>>
vars    == <<style, balVars, last, orders, pending>>

Candles == {c \in [low : Prices, close : Prices, high : Prices] :
               c.low <= c.close /\ c.close <= c.high}

StopTypes  == {"STOP_LOSS", "STOP_LOSS_LIMIT"}
LimitTypes == {"LIMIT", "LIMIT_MAKER"}

OrderType == [pair : Pairs, side : {"BUY", "SELL"},
              type : StopTypes \cup LimitTypes \cup {"MARKET"},
              status : {"NEW", "FILLED", "CANCELED"},
              price : Nat, stop : Nat, qty : Nat, group : 0..MaxOrders]

Order(p, side, type, status, price, stop, qty, group) ==
    [pair |-> p, side |-> side, type |-> type, status |-> status,
     price |-> price, stop |-> stop, qty |-> qty, group |-> group]

New(i) == orders[i].status = "NEW"

(* The other leg of an OCO order.                                           *)
Siblings(i) ==
    {j \in DOMAIN orders : j # i /\ orders[i].group # 0 /\ orders[j].group = orders[i].group}

FillPrice(o) == IF o.side = "SELL" /\ o.type \in StopTypes THEN o.stop ELSE o.price

(* What is summed over sets of orders: quantities, what orders would cost   *)
(* at their price, and what they trade for.                                 *)
Quantity == [i \in DOMAIN orders |-> orders[i].qty]
Cost     == [i \in DOMAIN orders |-> orders[i].price * orders[i].qty]
Volume   == [i \in DOMAIN orders |-> FillPrice(orders[i]) * orders[i].qty]

Positive(x) == Max({x, 0})

Init ==
    /\ style \in Styles
    /\ quote = [free |-> InitQuote, lock |-> 0]
    /\ assets = [p \in Pairs |-> [free |-> InitAsset, lock |-> 0]]
    /\ avgShort = [p \in Pairs |-> 0]
    /\ last = [p \in Pairs |-> 0]
    /\ orders = <<>>
    /\ pending = [p \in Pairs |-> {}]

-----------------------------------------------------------------------------
(* What updateAveragePrice does to avgShortPrice; held is the free asset    *)
(* when it is called.  avgLongPrice is only reported and is left out.       *)
AveragePrice(avg, side, held, amount, value) ==
    CASE side = "BUY" -> avg
      [] held = 0 -> value
      [] held > 0 -> IF amount > held THEN value ELSE avg
      [] held < 0 -> (avg * (0 - held) + amount * value) \div (amount - held)

(* validateFunds.  A short position is worth 2 * v * avgShortPrice less     *)
(* what it costs to buy back.                                               *)
LiquidShortValue(p, value) ==
    LET v == Positive(0 - assets[p].free) IN 2 * v * avgShort[p] - v * value

(* Mutant: the funds are not looked at.                                     *)
HasFundsAlways(p, side, amount, value) == TRUE

HasFunds(p, side, amount, value) ==
    IF side = "SELL"
    THEN quote.free + Positive(assets[p].free) * value >= amount * value
    ELSE quote.free + LiquidShortValue(p, value)
             >= (amount + Min({assets[p].free, 0})) * value

LockedAsset(p, side, amount) ==
    IF side = "SELL" THEN Min({Positive(assets[p].free), amount})
                     ELSE Min({Positive(0 - assets[p].free), amount})

LockedQuote(p, side, amount, value) ==
    (amount - LockedAsset(p, side, amount)) * value
        - IF side = "SELL" THEN 0 ELSE LiquidShortValue(p, value)

(* The free asset after what covers the order has been taken from it, or,   *)
(* for a buy that covers a short position, put back.                        *)
Uncovered(p, side, amount) ==
    IF side = "SELL" THEN assets[p].free - LockedAsset(p, side, amount)
                     ELSE assets[p].free + LockedAsset(p, side, amount)

(* fill = false: the order waits, what covers it is locked.                 *)
LockFunds(p, side, amount, value) ==
    LET la == LockedAsset(p, side, amount)
        lq == LockedQuote(p, side, amount, value) IN
    /\ HasFunds(p, side, amount, value)
    /\ assets' = [assets EXCEPT ![p] = [free |-> Uncovered(p, side, amount),
                                        lock |-> @.lock + la]]
    /\ quote' = [free |-> quote.free - lq, lock |-> quote.lock + lq]
    /\ UNCHANGED avgShort

(* Mutant: liquidating a long position credits nothing.                     *)
ProceedsLost(amount, value, lq) == 0

(* A sale that needs quote as collateral opens a short position and is not  *)
(* credited.                                                                *)
Proceeds(amount, value, lq) == IF lq > 0 THEN 0 ELSE amount * value

(* fill = true: a market order changes both balances at once.               *)
FillFunds(p, side, amount, value) ==
    LET la  == LockedAsset(p, side, amount)
        lq  == LockedQuote(p, side, amount, value)
        rem == Uncovered(p, side, amount) IN
    /\ HasFunds(p, side, amount, value)
    /\ avgShort' = [avgShort EXCEPT ![p] = AveragePrice(@, side, rem, amount, value)]
    /\ IF side = "SELL"
       THEN /\ assets' = [assets EXCEPT ![p].free = IF lq > 0 THEN rem - amount ELSE rem]
            /\ quote' = [quote EXCEPT !.free = @ - lq + Proceeds(amount, value, lq)]
       ELSE /\ assets' = [assets EXCEPT ![p].free = rem + amount - la]
            /\ quote' = [quote EXCEPT !.free = @ - lq]

-----------------------------------------------------------------------------
(* Strategies that do not short sell no more than what is free.             *)
Sellable(p, side, size) == side = "SELL" /\ ~style.shorting => size <= assets[p].free

NextIndex(k) == Len(orders) + k

(* Accepted orders are appended, and pendingOrders gets their indices.      *)
Wait(p, new) ==
    /\ Len(orders) + Len(new) <= style.limit
    /\ orders' = orders \o new
    /\ pending' = [pending EXCEPT ![p] = @ \cup {NextIndex(k) : k \in DOMAIN new}]
    /\ UNCHANGED <<style, last>>

CreateOrderLimit(p, side, size, limit) ==
    /\ Sellable(p, side, size)
    /\ LockFunds(p, side, size, limit)
    /\ Wait(p, <<Order(p, side, "LIMIT", "NEW", limit, 0, size, 0)>>)

CreateOrderStop(p, size, limit) ==
    /\ Sellable(p, "SELL", size)
    /\ LockFunds(p, "SELL", size, limit)
    /\ Wait(p, <<Order(p, "SELL", "STOP_LOSS_LIMIT", "NEW", limit, limit, size, 0)>>)

(* Both legs share what the limit leg locks.                                *)
CreateOrderOCO(p, side, size, price, stop, stopLimit) ==
    LET group == Len(orders) + 1 IN
    /\ Sellable(p, side, size)
    /\ LockFunds(p, side, size, price)
    /\ Wait(p, <<Order(p, side, "LIMIT_MAKER", "NEW", price, 0, size, group),
                 Order(p, side, "STOP_LOSS", "NEW", stopLimit, stop, size, group)>>)

(* A market order trades at the close of the last candle, before the first  *)
(* one at 0: strategies order on candles (see Next).                        *)
CreateOrderMarket(p, side, size) ==
    /\ size # 0
    /\ Sellable(p, side, size)
    /\ FillFunds(p, side, size, last[p])
    /\ Len(orders) < style.limit
    /\ orders' = Append(orders, Order(p, side, "MARKET", "FILLED", last[p], 0, size, 0))
    /\ UNCHANGED <<style, last, pending>>

(* The amount of quote becomes a quantity, rounded down to the lot step.    *)
CreateOrderMarketQuote(p, side, quoteQuantity) ==
    CreateOrderMarket(p, side, quoteQuantity \div last[p])

-----------------------------------------------------------------------------
Reached(o, c) ==
    CASE o.side = "BUY" -> o.price >= c.close
      [] o.side = "SELL" /\ o.type \in LimitTypes -> c.high >= o.price
      [] o.side = "SELL" /\ o.type \in StopTypes -> c.low <= o.stop
      [] OTHER -> FALSE

(* The pending orders that a candle fills.  They are visited in the order   *)
(* of their creation, and a sell order that fills has cancelled its sibling *)
(* before that one is visited.                                              *)
Fired(p, c) ==
    LET reached == {i \in pending[p] : New(i) /\ Reached(orders[i], c)} IN
    {i \in reached :
        ~ \E j \in reached \cap Siblings(i) : j < i /\ orders[j].side = "SELL"}

Sold(fired)   == {i \in fired : orders[i].side = "SELL"}
Bought(fired) == {i \in fired : orders[i].side = "BUY"}

(* Mutant: a fill leaves the other leg waiting.                             *)
CancelledNever(fired) == {}

CancelledBy(fired) == UNION {Siblings(i) : i \in Sold(fired)}

(* Mutant: one completed order empties the index of its pair.               *)
CompletedAll(p, fired) == IF fired = {} THEN {} ELSE pending[p]

(* removeCompletedOrders: what is no longer new when it is visited, or has  *)
(* filled.  A leg that is cancelled after its visit stays until the next    *)
(* candle.                                                                  *)
Completed(p, fired) ==
    {i \in pending[p] :
        \/ i \in fired \/ ~New(i)
        \/ \E j \in Siblings(i) \cap Sold(fired) : j < i}

Settled(i, fired) ==
    CASE i \in CancelledBy(fired) -> [orders[i] EXCEPT !.status = "CANCELED"]
      [] i \in fired \ CancelledBy(fired) -> [orders[i] EXCEPT !.status = "FILLED"]
      [] OTHER -> orders[i]

(* avgShortPrice after the fills, one by one: the free asset grows with the *)
(* buys that were visited before.                                           *)
AverageAfter(p, fired) ==
    LET held(i) == assets[p].free + SumFunctionOnSet(Quantity, {j \in Bought(fired) : j < i})
        next(i, avg) == AveragePrice(avg, "SELL", held(i), orders[i].qty, FillPrice(orders[i])) IN
    MapThenFoldSet(next, avgShort[p], LAMBDA i : i, Max, Sold(fired))

OnCandle(p, c) ==
    LET fired == Fired(p, c)
        sold == Sold(fired)
        bought == Bought(fired) IN
    /\ UNCHANGED style
    /\ last' = [last EXCEPT ![p] = c.close]
    /\ orders' = [i \in DOMAIN orders |-> Settled(i, fired)]
    /\ pending' = [pending EXCEPT ![p] = @ \ Completed(p, fired)]
    /\ assets' = [assets EXCEPT ![p] = [free |-> @.free + SumFunctionOnSet(Quantity, bought),
                                        lock |-> @.lock - SumFunctionOnSet(Quantity, sold)]]
    /\ quote' = [free |-> quote.free + SumFunctionOnSet(Volume, sold),
                 lock |-> quote.lock - SumFunctionOnSet(Volume, bought)]
    /\ avgShort' = [avgShort EXCEPT ![p] = AverageAfter(p, fired)]

-----------------------------------------------------------------------------
(* The situations in which a strategy cancels.                              *)
CancelKind(i) ==
    CASE orders[i].group # 0 -> "leg"
      [] orders[i].group = 0 /\ orders[i].side = "SELL" -> "sell"
      [] OTHER -> IF assets[orders[i].pair].lock > 0 THEN "buyWhileSelling" ELSE "buy"

(* Mutant: the funds stay locked.                                           *)
UnlockNothing(o) == UNCHANGED balVars

(* "unlock funds": which balance depends on the asset that is locked now.   *)
Unlock(o) ==
    LET lock == assets[o.pair].lock
        amount == o.price * o.qty IN
    /\ UNCHANGED avgShort
    /\ IF lock > 0 /\ o.side = "SELL"
       THEN /\ assets' = [assets EXCEPT ![o.pair] = [free |-> @.free + o.qty,
                                                     lock |-> @.lock - o.qty]]
            /\ UNCHANGED quote
       ELSE /\ quote' = IF lock = 0 THEN [free |-> quote.free + amount,
                                          lock |-> quote.lock - amount]
                                    ELSE quote
            /\ UNCHANGED assets

(* Whatever the status of the order is, and it stays in pendingOrders until *)
(* the next candle of its pair.                                             *)
Cancel(i) ==
    /\ orders' = [orders EXCEPT ![i].status = "CANCELED"]
    /\ Unlock(orders[i])
    /\ UNCHANGED <<style, last, pending>>

-----------------------------------------------------------------------------
(* What callers do: a strategy orders at the market on a candle of the      *)
(* pair, and cancels the orders that it knows to be waiting.                *)
TradeAtMarket(p, side) ==
    /\ last[p] # 0
    /\ \/ \E size \in Sizes : CreateOrderMarket(p, side, size)
       \/ \E q \in QuoteAmounts : CreateOrderMarketQuote(p, side, q)

CancelWaiting(i) == New(i) /\ CancelKind(i) \in style.cancels /\ Cancel(i)

Next ==
    \/ \E p \in Pairs, side \in {"BUY", "SELL"} :
          \/ \E size \in Sizes, limit \in Prices : CreateOrderLimit(p, side, size, limit)
          \/ TradeAtMarket(p, side)
    \/ \E p \in Pairs, size \in Sizes, limit \in Prices : CreateOrderStop(p, size, limit)
    \/ \E p \in Pairs, side \in style.ocoSides, size \in Sizes, price, stop, stopLimit \in Prices :
          /\ stop # stopLimit => style.splitStops
          /\ CreateOrderOCO(p, side, size, price, stop, stopLimit)
    \/ \E p \in Pairs, c \in Candles : OnCandle(p, c)
    \/ \E i \in DOMAIN orders : CancelWaiting(i)

Spec == Init /\ [][Next]_vars

-----------------------------------------------------------------------------
(* What the strategies of the repository do, as far as it matters: they do  *)
(* not short, their stops are at the stopLimit, and no leg of an OCO order  *)
(* is cancelled.                                                            *)
LongOnly ==
    ~style.shorting /\ ~style.splitStops /\ style.ocoSides = {"SELL"} /\ "leg" \notin style.cancels

(* No money is spent that is not there: neither a free nor a locked balance *)
(* of a wallet that does not short is ever negative.                        *)
NoOverdraft ==
    LongOnly =>
        /\ quote.free >= 0 /\ quote.lock >= 0
        /\ \A p \in Pairs : assets[p].free >= 0 /\ assets[p].lock >= 0

Waiting(side) ==
    {i \in DOMAIN orders : /\ New(i) /\ orders[i].side = side
                           /\ \A j \in Siblings(i) : New(j) => i < j}

(* What is locked is what the waiting orders need, the two legs of an OCO   *)
(* counted once: nothing stays locked for an order that has gone.           *)
LocksMatchOrders ==
    LongOnly =>
        /\ quote.lock = SumFunctionOnSet(Cost, Waiting("BUY"))
        /\ \A p \in Pairs :
              assets[p].lock = SumFunctionOnSet(Quantity, {i \in Waiting("SELL") : orders[i].pair = p})

(* CalculateBalancesFromOrders: the balances a resumed session starts with, *)
(* from the initial ones and the filled orders.                             *)
Filled(side) == {i \in DOMAIN orders : orders[i].status = "FILLED" /\ orders[i].side = side}

ReplayedQuote ==
    InitQuote + SumFunctionOnSet(Cost, Filled("SELL")) - SumFunctionOnSet(Cost, Filled("BUY"))

ReplayedAsset(p) ==
    InitAsset + SumFunctionOnSet(Quantity, {i \in Filled("BUY") : orders[i].pair = p})
              - SumFunctionOnSet(Quantity, {i \in Filled("SELL") : orders[i].pair = p})

(* "calculates the actual wallet balances based on the session's initial    *)
(* asset/amount and its order history": the replay of the orders gives what *)
(* the wallet holds, free and locked together.                              *)
ReplayMatchesWallet ==
    LongOnly =>
        /\ ReplayedQuote = quote.free + quote.lock
        /\ \A p \in Pairs : ReplayedAsset(p) = assets[p].free + assets[p].lock

(* One cancels the other: when a leg of an OCO sell has filled, the other   *)
(* one is cancelled, and it never fills.                                    *)
GroupExclusive ==
    \A i \in Filled("SELL") : \A j \in Siblings(i) : orders[j].status = "CANCELED"

(* No order is forgotten: a candle that reaches an order that waits, in     *)
(* whatever order things happened before, fills it or one of its group.     *)
CandleFillsReached ==
    [][\A p \in Pairs, c \in Candles :
          (\E i \in DOMAIN orders :
              /\ New(i) /\ orders[i].pair = p /\ Reached(orders[i], c)
              /\ \A j \in Siblings(i) \cup {i} : orders'[j].status # "FILLED") => ~OnCandle(p, c)]_vars

============================================================================
