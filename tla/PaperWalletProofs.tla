-------------------------- MODULE PaperWalletProofs ---------------------------
(***************************************************************************)
(* Proofs about PaperWallet: what its orders and indices look like for any *)
(* strategy, and, for strategies that do not short, that the balances are  *)
(* what the orders say.                                                    *)
(***************************************************************************)
EXTENDS PaperWallet, SetLemmas, SequenceTheorems

(* Any integer is a balance: a strategy that shorts owes what it sold.      *)
BalanceType == [free : Int, lock : Int]

(* What the wallet's variables hold.                                        *)
WalletTypeOK ==
    /\ style \in Styles
    /\ quote \in BalanceType
    /\ assets \in [Pairs -> BalanceType]
    /\ avgShort \in [Pairs -> Int]
    /\ last \in [Pairs -> Nat]
    /\ orders \in Seq(OrderType)
    /\ pending \in [Pairs -> SUBSET Nat]

(* A group is that of its first leg, the second leg comes next, and the two *)
(* differ in type and price only.                                           *)
OrdersAreLegs ==
    \A i \in DOMAIN orders : LET g == orders[i].group IN g # 0 =>
        /\ i \in {g, g + 1} /\ {g, g + 1} \subseteq DOMAIN orders
        /\ \A j \in {g, g + 1} :
              /\ orders[j].group = g /\ orders[j].pair = orders[i].pair
              /\ orders[j].side = orders[i].side /\ orders[j].qty = orders[i].qty

(* pendingOrders has every order that waits, under its pair.                *)
PendingIsIndex ==
    /\ \A i \in DOMAIN orders : New(i) => i \in pending[orders[i].pair]
    /\ \A p \in Pairs : \A i \in pending[p] : i \in DOMAIN orders /\ orders[i].pair = p

(* What holds of every wallet. GroupExclusive is not inductive without the  *)
(* rest: that a fill cancels the other leg, and that no buy can be a leg of *)
(* a sale, rests on the shape of the groups and on the index that a candle  *)
(* reads.                                                                   *)
WalletInv == WalletTypeOK /\ OrdersAreLegs /\ PendingIsIndex /\ GroupExclusive

-----------------------------------------------------------------------------
(* For strategies that do not short, buys have no group, both legs wait or  *)
(* neither does, and orders fill at their price.                            *)
LongOrders ==
    \A i \in DOMAIN orders :
        /\ orders[i].qty > 0
        /\ orders[i].side = "BUY" => orders[i].group = 0
        /\ \A j \in Siblings(i) : New(i) <=> New(j)
        /\ FillPrice(orders[i]) = orders[i].price

(* The sell orders of a pair that wait: what is on sale.                    *)
WaitingSales(p) == {i \in Waiting("SELL") : orders[i].pair = p}

(* The orders of a side and a pair that have filled.                        *)
FilledOf(side, p) == {i \in Filled(side) : orders[i].pair = p}

(* What the orders say: locked, spent, earned, and by pair bought, sold and *)
(* on sale.                                                                 *)
BuysLocked  == SumFunctionOnSet(Cost, Waiting("BUY"))
Spent       == SumFunctionOnSet(Cost, Filled("BUY"))
Earned      == SumFunctionOnSet(Cost, Filled("SELL"))
BoughtOf(p) == SumFunctionOnSet(Quantity, FilledOf("BUY", p))
SoldOf(p)   == SumFunctionOnSet(Quantity, FilledOf("SELL", p))
OnSale(p)   == SumFunctionOnSet(Quantity, WaitingSales(p))

(* What is locked, and what is left.                                        *)
Funds ==
    /\ quote.free >= 0
    /\ quote.lock >= BuysLocked
    /\ "buyWhileSelling" \notin style.cancels => quote.lock = BuysLocked
    /\ \A p \in Pairs : assets[p].free >= 0 /\ assets[p].lock = OnSale(p)

(* ReplayMatchesWallet in these words.                                      *)
Books ==
    /\ InitQuote + Earned - Spent = quote.free + quote.lock
    /\ \A p \in Pairs : InitAsset + BoughtOf(p) - SoldOf(p) = assets[p].free + assets[p].lock

(* What holds besides of a wallet whose strategy does not short. Neither    *)
(* the funds nor the books are inductive without the orders: the legs of a  *)
(* group are locked once, so the one that fills must find the other         *)
(* waiting, and the books count an order at its price, which is what it     *)
(* fills at.                                                                *)
LongInv == LongOnly => LongOrders /\ Funds /\ Books

-----------------------------------------------------------------------------
(* Arithmetic.                                                              *)

(* The larger and the smaller of two numbers.                               *)
LEMMA TwoNumbers ==
  ASSUME NEW x \in Int, NEW y \in Int
  PROVE  /\ Max({x, y}) = (IF x >= y THEN x ELSE y)
         /\ Min({x, y}) = (IF x <= y THEN x ELSE y)
<1> DEFINE a == IF x >= y THEN x ELSE y
           b == IF x <= y THEN x ELSE y
<1>1. a \in {x, y} /\ \A z \in {x, y} : a >= z
  OBVIOUS
<1>2. b \in {x, y} /\ \A z \in {x, y} : b <= z
  OBVIOUS
<1>3. \A z \in {x, y} : (\A w \in {x, y} : z >= w) => z = a
  OBVIOUS
<1>4. \A z \in {x, y} : (\A w \in {x, y} : z <= w) => z = b
  OBVIOUS
<1> HIDE DEF a, b
<1>5. Max({x, y}) = a
  BY <1>1, <1>3 DEF Max
<1>6. Min({x, y}) = b
  BY <1>2, <1>4 DEF Min
<1> QED BY <1>5, <1>6 DEF a, b

(* What is above zero.                                                      *)
LEMMA PositiveIs ==
  ASSUME NEW x \in Int
  PROVE  Positive(x) = IF x >= 0 THEN x ELSE 0
BY TwoNumbers DEF Positive

(* A set of indices that is not empty has a largest element.                *)
LEMMA MaxIsThere ==
  ASSUME NEW S \in SUBSET Nat, IsFiniteSet(S), S # {}
  PROVE  Max(S) \in S
<1> DEFINE Has(s) == \E x \in s : \A y \in s : x >= y
           G == {s \in SUBSET S : s = {} \/ Has(s)}
<1>1. ASSUME NEW s \in SUBSET S, \A x \in s : s \ {x} \in G, s # {}
      PROVE  Has(s)
  <2>1. PICK x \in s : TRUE
    BY <1>1
  <2>2. CASE s \ {x} = {}
    BY <2>1, <2>2
  <2>3. CASE Has(s \ {x})
    <3>1. PICK z \in s \ {x} : \A y \in s \ {x} : z >= y
      BY <2>3
    <3>2. x \in Nat /\ z \in Nat
      BY <2>1, <3>1
    <3>3. CASE x >= z
      <4>1. \A y \in s : x >= y
        BY <3>1, <3>2, <3>3
      <4> QED BY <2>1, <4>1
    <3>4. CASE z > x
      <4>1. \A y \in s : z >= y
        BY <3>1, <3>2, <3>4
      <4> QED BY <3>1, <4>1
    <3> QED BY <3>2, <3>3, <3>4
  <2> QED BY <1>1, <2>1, <2>2, <2>3
<1>2. Inductive(S, G)
  BY <1>1 DEF Inductive
<1>3. SUBSET S \subseteq G
  <2> HIDE DEF G
  <2> QED BY <1>2, SubsetInduction
<1>4. Has(S)
  BY <1>3
<1> QED BY <1>4 DEF Max

(* What validateFunds computes are integers.                                *)
LEMMA FundsTyped ==
  ASSUME WalletTypeOK, NEW p \in Pairs, NEW side, NEW amount \in Nat, NEW value \in Nat
  PROVE  /\ LiquidShortValue(p, value) \in Int
         /\ LockedAsset(p, side, amount) \in Int
         /\ LockedQuote(p, side, amount, value) \in Int
         /\ Uncovered(p, side, amount) \in Int
<1> DEFINE free == assets[p].free
<1>1. free \in Int /\ avgShort[p] \in Int
  BY DEF WalletTypeOK, BalanceType
<1>2. Positive(free) \in Int /\ Positive(0 - free) \in Int
  BY <1>1, PositiveIs
<1>3. LiquidShortValue(p, value) \in Int
  BY <1>1, <1>2 DEF LiquidShortValue
<1>4. LockedAsset(p, side, amount) \in Int
  <2>1. amount \in Int
    OBVIOUS
  <2>2. \A x \in Int : Min({x, amount}) = IF x <= amount THEN x ELSE amount
    BY <2>1, TwoNumbers
  <2>3. \A x \in Int : Min({x, amount}) \in Int
    BY <2>1, <2>2
  <2> QED BY <1>2, <2>3 DEF LockedAsset
<1>5. LockedQuote(p, side, amount, value) \in Int
  <2> DEFINE la == LockedAsset(p, side, amount)
             ls == LiquidShortValue(p, value)
  <2>1. \A x, y, z \in Int : (x - y) * z \in Int
    OBVIOUS
  <2> HIDE DEF la, ls
  <2>2. (amount - la) * value - (IF side = "SELL" THEN 0 ELSE ls) \in Int
    BY <1>3, <1>4, <2>1 DEF la, ls
  <2> QED BY <2>2 DEF LockedQuote, la, ls
<1>6. Uncovered(p, side, amount) \in Int
  BY <1>1, <1>4 DEF Uncovered
<1> QED BY <1>3, <1>4, <1>5, <1>6

(* An average price is an integer: updateAveragePrice divides by nothing    *)
(* that is zero.                                                            *)
LEMMA AverageTyped ==
  ASSUME NEW avg \in Int, NEW side \in {"BUY", "SELL"}, NEW held \in Int,
         NEW amount \in Nat, NEW value \in Nat
  PROVE  AveragePrice(avg, side, held, amount, value) \in Int
<1>1. CASE side = "BUY"
  BY <1>1 DEF AveragePrice
<1>2. CASE side # "BUY" /\ held = 0
  BY <1>2 DEF AveragePrice
<1>3. CASE side # "BUY" /\ held > 0
  BY <1>3 DEF AveragePrice
<1>4. CASE side # "BUY" /\ held < 0
  <2> DEFINE n == avg * (0 - held) + amount * value
             d == amount - held
  <2>1. n \in Int /\ d \in Nat \ {0}
    BY <1>4
  <2>2. AveragePrice(avg, side, held, amount, value) = n \div d
    BY <1>4 DEF AveragePrice
  <2> HIDE DEF n, d
  <2> QED BY <2>1, <2>2
<1> QED BY <1>1, <1>2, <1>3, <1>4

(* The average after a candle is an integer: a fold over the orders sold.   *)
LEMMA AverageAfterTyped ==
  ASSUME WalletTypeOK, NEW p \in Pairs, NEW fired \in SUBSET DOMAIN orders
  PROVE  AverageAfter(p, fired) \in Int
<1> DEFINE held(i) == assets[p].free + SumFunctionOnSet(Quantity, {j \in Bought(fired) : j < i})
           op(i, avg) == AveragePrice(avg, "SELL", held(i), orders[i].qty, FillPrice(orders[i]))
           S == Sold(fired)
           ch == [s \in SUBSET S |-> Max(s)]
           step == [i \in S |-> [avg \in Int |-> op(i, avg)]]
           Folds(it) == it = [s \in SUBSET S |->
                                IF s = {} THEN avgShort[p] ELSE op(Max(s), it[s \ {Max(s)}])]
<1>1. \A i \in DOMAIN orders : orders[i] \in OrderType
  BY ElementOfSeq DEF WalletTypeOK
<1>2. DOMAIN orders = 1..Len(orders) /\ Len(orders) \in Nat
  BY LenProperties DEF WalletTypeOK
<1>3. S \in SUBSET (1..Len(orders)) /\ IsFiniteSet(S)
  BY <1>2, SetOfIndices DEF Sold
<1>4. \A i \in S : held(i) \in Int
  <2> SUFFICES ASSUME NEW i \in S PROVE held(i) \in Int
    OBVIOUS
  <2> DEFINE B == {j \in Bought(fired) : j < i}
  <2>1. B \in SUBSET (1..Len(orders))
    BY <1>2 DEF Bought
  <2>2. IsFiniteSet(B) /\ IntOn(Quantity, B)
    <3>1. IsFiniteSet(B)
      BY <1>2, <2>1, SetOfIndices
    <3> HIDE DEF B
    <3> QED BY <1>1, <1>2, <2>1, <3>1 DEF IntOn, Quantity, OrderType
  <2>3. SumFunctionOnSet(Quantity, B) \in Int
    <3> HIDE DEF B
    <3> QED BY <2>2, SumTaken
  <2> HIDE DEF B
  <2>4. assets[p].free \in Int
    BY DEF WalletTypeOK, BalanceType
  <2> QED BY <2>3, <2>4 DEF B
<1>5. \A i \in S, avg \in Int : op(i, avg) \in Int
  <2> SUFFICES ASSUME NEW i \in S, NEW avg \in Int PROVE op(i, avg) \in Int
    OBVIOUS
  <2>1. orders[i].qty \in Nat /\ FillPrice(orders[i]) \in Nat
    BY <1>1, <1>2, <1>3 DEF OrderType, FillPrice
  <2>2. held(i) \in Int /\ "SELL" \in {"BUY", "SELL"}
    BY <1>4
  <2> HIDE DEF held, S
  <2> QED BY <2>1, <2>2, AverageTyped
<1>6. \A s \in SUBSET S : s # {} => Max(s) \in s
  BY <1>3, MaxIsThere, FS_Subset
<1>7. avgShort[p] \in Int
  BY DEF WalletTypeOK
<1>8. Iterable(S, ch, step, avgShort[p], Int)
  <2> HIDE DEF S, op
  <2> QED BY <1>5, <1>6, <1>7 DEF Iterable
<1>9. PICK it \in [SUBSET S -> Int] : Iterates(it, S, ch, step, avgShort[p])
  <2> HIDE DEF S, ch, step
  <2> QED BY <1>3, <1>8, IterationExists
<1>10. Folds(it)
  <2> HIDE DEF S, op
  <2>1. \A s \in SUBSET S : s # {} => step[ch[s]][it[s \ {ch[s]}]] = op(Max(s), it[s \ {Max(s)}])
    BY <1>6
  <2> QED BY <1>9, <2>1 DEF Iterates
<1> DEFINE fold == CHOOSE f : Folds(f)
<1>11. AverageAfter(p, fired) = fold[S]
  BY DEF AverageAfter, MapThenFoldSet
<1>12. Folds(fold)
  <2> HIDE DEF Folds
  <2> QED BY <1>10
<1> DEFINE G == {s \in SUBSET S : fold[s] \in Int}
<1>13. ASSUME NEW s \in SUBSET S, \A x \in s : s \ {x} \in G
       PROVE  fold[s] \in Int
  <2> HIDE DEF S, op, fold
  <2>1. fold[s] = IF s = {} THEN avgShort[p] ELSE op(Max(s), fold[s \ {Max(s)}])
    BY <1>12
  <2>2. s # {} => Max(s) \in S /\ fold[s \ {Max(s)}] \in Int
    BY <1>6, <1>13
  <2> QED BY <1>5, <1>7, <2>1, <2>2
<1>14. SUBSET S \subseteq G
  <2>1. Inductive(S, G)
    BY <1>13 DEF Inductive
  <2> HIDE DEF G, S
  <2>2. IsFiniteSet(S)
    BY <1>3
  <2> QED BY <2>1, <2>2, SubsetInduction
<1>15. fold[S] \in Int
  BY <1>14
<1> QED BY <1>11, <1>15

-----------------------------------------------------------------------------
(* The steps, with what the proofs need of the orders they place.           *)
PlaceOne(p, o) ==
    /\ o.pair = p /\ o.status = "NEW" /\ o.group = 0
    /\ o.qty > 0 /\ FillPrice(o) = o.price
    /\ Sellable(p, o.side, o.qty)
    /\ LockFunds(p, o.side, o.qty, o.price)
    /\ Wait(p, <<o>>)

(* Two legs that sell, with the stop at its stopLimit.                      *)
LegsSell(o, leg) == \A x \in {o, leg} : x.side = "SELL" /\ FillPrice(x) = x.price

(* An OCO order: two legs of one group.                                     *)
PlaceTwo(p, o, leg) ==
    /\ \A x \in {o, leg} :
          /\ x.pair = p /\ x.side = o.side /\ x.status = "NEW" /\ x.qty = o.qty
          /\ x.group = Len(orders) + 1
    /\ LongOnly => LegsSell(o, leg)
    /\ o.qty > 0
    /\ Sellable(p, o.side, o.qty)
    /\ LockFunds(p, o.side, o.qty, o.price)
    /\ Wait(p, <<o, leg>>)

(* A market order, which fills at once.                                     *)
Trade(p, o) ==
    /\ o.pair = p /\ o.status = "FILLED" /\ o.group = 0
    /\ o.qty > 0 /\ FillPrice(o) = o.price
    /\ Sellable(p, o.side, o.qty)
    /\ FillFunds(p, o.side, o.qty, o.price)
    /\ orders' = Append(orders, o)
    /\ UNCHANGED <<style, last, pending>>

(* What is sold is there.                                                   *)
Covered(p, o) == o.side = "SELL" => o.qty <= assets[p].free

(* Every step of the wallet is one of these.                                *)
Step ==
    \/ \E p \in Pairs, o \in OrderType : PlaceOne(p, o) \/ Trade(p, o)
    \/ \E p \in Pairs, o \in OrderType, leg \in OrderType : PlaceTwo(p, o, leg)
    \/ \E p \in Pairs, c \in Candles : OnCandle(p, c)
    \/ \E i \in DOMAIN orders : CancelWaiting(i)

(* The sides, types and statuses of orders.                                 *)
OrderSides == {"BUY", "SELL"}
OrderTypes == StopTypes \cup LimitTypes \cup {"MARKET"}
Statuses   == {"NEW", "FILLED", "CANCELED"}

(* The names that the code gives to types and statuses.                     *)
LEMMA NamesTyped ==
  /\ "SELL" \in OrderSides /\ "BUY" \in OrderSides
  /\ "LIMIT" \in OrderTypes /\ "LIMIT_MAKER" \in OrderTypes /\ "MARKET" \in OrderTypes
  /\ "STOP_LOSS" \in OrderTypes /\ "STOP_LOSS_LIMIT" \in OrderTypes
  /\ "NEW" \in Statuses /\ "FILLED" \in Statuses /\ "CANCELED" \in Statuses
BY DEF OrderSides, OrderTypes, Statuses, StopTypes, LimitTypes

(* A market order has the price at which it trades.                         *)
LEMMA MarketIsTrade ==
  ASSUME WalletTypeOK, NEW p \in Pairs, NEW side \in OrderSides, NEW size \in Nat,
         CreateOrderMarket(p, side, size)
  PROVE  \E o \in OrderType :
            Trade(p, o) /\ o.side = side /\ o.qty = size /\ o.price = last[p]
<1> DEFINE o == Order(p, side, "MARKET", "FILLED", last[p], 0, size, 0)
<1>1. last[p] \in Nat /\ 0 \in Nat /\ 0 \in 0..MaxOrders
  BY WalletAssumption DEF WalletTypeOK
<1>2. o = Order(p, side, "MARKET", "FILLED", last[p], 0, size, 0)
  OBVIOUS
<1>3. /\ size # 0 /\ Sellable(p, side, size) /\ FillFunds(p, side, size, last[p])
      /\ orders' = Append(orders, o) /\ UNCHANGED <<style, last, pending>>
  BY DEF CreateOrderMarket
<1> HIDE DEF o
<1>4. /\ o \in OrderType
      /\ o.pair = p /\ o.side = side /\ o.type = "MARKET" /\ o.status = "FILLED"
      /\ o.price = last[p] /\ o.stop = 0 /\ o.qty = size /\ o.group = 0
  BY <1>1, <1>2, NamesTyped DEF Order, OrderType, OrderSides, OrderTypes, Statuses
<1>5. FillPrice(o) = o.price
  BY <1>4 DEF FillPrice, StopTypes
<1> QED BY <1>3, <1>4, <1>5 DEF Trade

(* A limit order waits at its price.                                        *)
LEMMA LimitIsPlaced ==
  ASSUME NEW p \in Pairs, NEW side \in OrderSides, NEW size \in Nat, size # 0, NEW limit \in Nat,
         CreateOrderLimit(p, side, size, limit)
  PROVE  \E o \in OrderType : PlaceOne(p, o)
<1> DEFINE o == Order(p, side, "LIMIT", "NEW", limit, 0, size, 0)
<1>1. size \in Nat /\ size > 0 /\ 0 \in Nat /\ 0 \in 0..MaxOrders
  BY WalletAssumption
<1>2. o = Order(p, side, "LIMIT", "NEW", limit, 0, size, 0)
  OBVIOUS
<1>3. Sellable(p, side, size) /\ LockFunds(p, side, size, limit) /\ Wait(p, <<o>>)
  BY DEF CreateOrderLimit
<1> HIDE DEF o
<1>4. /\ o \in OrderType
      /\ o.pair = p /\ o.side = side /\ o.type = "LIMIT" /\ o.status = "NEW"
      /\ o.price = limit /\ o.stop = 0 /\ o.qty = size /\ o.group = 0
  BY <1>1, <1>2, NamesTyped DEF Order, OrderType, OrderSides, OrderTypes, Statuses
<1>5. FillPrice(o) = o.price
  BY <1>4 DEF FillPrice, StopTypes
<1> QED BY <1>1, <1>3, <1>4, <1>5 DEF PlaceOne

(* A stop order is triggered at its price.                                  *)
LEMMA StopIsPlaced ==
  ASSUME NEW p \in Pairs, NEW size \in Nat, size # 0, NEW limit \in Nat,
         CreateOrderStop(p, size, limit)
  PROVE  \E o \in OrderType : PlaceOne(p, o)
<1> DEFINE o == Order(p, "SELL", "STOP_LOSS_LIMIT", "NEW", limit, limit, size, 0)
<1>1. size \in Nat /\ size > 0 /\ 0 \in 0..MaxOrders
  BY WalletAssumption
<1>2. o = Order(p, "SELL", "STOP_LOSS_LIMIT", "NEW", limit, limit, size, 0)
  OBVIOUS
<1>3. Sellable(p, "SELL", size) /\ LockFunds(p, "SELL", size, limit) /\ Wait(p, <<o>>)
  BY DEF CreateOrderStop
<1> HIDE DEF o
<1>4. /\ o \in OrderType
      /\ o.pair = p /\ o.side = "SELL" /\ o.type = "STOP_LOSS_LIMIT" /\ o.status = "NEW"
      /\ o.price = limit /\ o.stop = limit /\ o.qty = size /\ o.group = 0
  BY <1>1, <1>2, NamesTyped DEF Order, OrderType, OrderSides, OrderTypes, Statuses
<1>5. FillPrice(o) = o.price
  BY <1>4 DEF FillPrice, StopTypes
<1> QED BY <1>1, <1>3, <1>4, <1>5 DEF PlaceOne

(* The legs of an OCO order; its stop is at the stopLimit unless the style  *)
(* says otherwise.                                                          *)
LEMMA OcoIsPlaced ==
  ASSUME WalletTypeOK, NEW p \in Pairs, NEW side \in OrderSides,
         side \in style.ocoSides \/ side = "SELL",
         NEW size \in Nat, size # 0, NEW price \in Nat, NEW stop \in Nat, NEW stopLimit \in Nat,
         stop # stopLimit => style.splitStops,
         CreateOrderOCO(p, side, size, price, stop, stopLimit)
  PROVE  \E o \in OrderType, leg \in OrderType :
            /\ PlaceTwo(p, o, leg) /\ o.side = side /\ o.qty = size
            /\ side = "SELL" /\ stop = stopLimit => LegsSell(o, leg)
<1> DEFINE g == Len(orders) + 1
           o == Order(p, side, "LIMIT_MAKER", "NEW", price, 0, size, g)
           leg == Order(p, side, "STOP_LOSS", "NEW", stopLimit, stop, size, g)
<1>1. Sellable(p, side, size) /\ LockFunds(p, side, size, price) /\ Wait(p, <<o, leg>>)
  BY DEF CreateOrderOCO
<1>2. size \in Nat /\ size > 0 /\ 0 \in Nat
  OBVIOUS
<1>3. g \in 0..MaxOrders
  <2>1. Len(orders) + Len(<<o, leg>>) <= style.limit /\ Len(<<o, leg>>) = 2
    BY <1>1 DEF Wait
  <2>2. Len(orders) \in Nat /\ style.limit \in 0..MaxOrders /\ MaxOrders \in Nat
    BY WalletAssumption, LenProperties DEF WalletTypeOK, StyleType
  <2> HIDE DEF o, leg
  <2> QED BY <2>1, <2>2
<1>4. /\ g = Len(orders) + 1
      /\ o = Order(p, side, "LIMIT_MAKER", "NEW", price, 0, size, g)
      /\ leg = Order(p, side, "STOP_LOSS", "NEW", stopLimit, stop, size, g)
  OBVIOUS
<1> HIDE DEF g, o, leg
<1>5. /\ o \in OrderType
      /\ o.pair = p /\ o.side = side /\ o.type = "LIMIT_MAKER" /\ o.status = "NEW"
      /\ o.price = price /\ o.stop = 0 /\ o.qty = size /\ o.group = g
  BY <1>2, <1>3, <1>4, NamesTyped DEF Order, OrderType, OrderSides, OrderTypes, Statuses
<1>6. /\ leg \in OrderType
      /\ leg.pair = p /\ leg.side = side /\ leg.type = "STOP_LOSS" /\ leg.status = "NEW"
      /\ leg.price = stopLimit /\ leg.stop = stop /\ leg.qty = size /\ leg.group = g
  BY <1>2, <1>3, <1>4, NamesTyped DEF Order, OrderType, OrderSides, OrderTypes, Statuses
<1>7. /\ side = "SELL" /\ stop = stopLimit => LegsSell(o, leg)
      /\ LongOnly => LegsSell(o, leg)
  BY <1>5, <1>6 DEF LongOnly, LegsSell, FillPrice, StopTypes
<1>8. PlaceTwo(p, o, leg)
  BY <1>1, <1>2, <1>4, <1>5, <1>6, <1>7 DEF PlaceTwo
<1> QED BY <1>5, <1>6, <1>7, <1>8

(* The methods take these steps and no others.                              *)
LEMMA NextIsStep ==
  ASSUME WalletTypeOK, Next
  PROVE  Step
<1>0. /\ \A x \in Prices : x \in Nat
      /\ \A x \in Sizes : x \in Nat \ {0} /\ x \in Nat
      /\ QuoteAmounts \subseteq Nat
      /\ \A x \in style.ocoSides : x \in OrderSides
  BY WalletAssumption DEF WalletTypeOK, StyleType, OrderSides
<1>1. ASSUME NEW p \in Pairs, NEW side \in OrderSides, NEW size \in Sizes, NEW limit \in Prices,
             CreateOrderLimit(p, side, size, limit)
      PROVE  Step
  BY <1>0, <1>1, LimitIsPlaced DEF Step
<1>2. ASSUME NEW p \in Pairs, NEW size \in Sizes, NEW limit \in Prices,
             CreateOrderStop(p, size, limit)
      PROVE  Step
  BY <1>0, <1>2, StopIsPlaced DEF Step
<1>3. ASSUME NEW p \in Pairs, NEW side \in style.ocoSides, NEW size \in Sizes,
             NEW price \in Prices, NEW stop \in Prices, NEW stopLimit \in Prices,
             stop # stopLimit => style.splitStops,
             CreateOrderOCO(p, side, size, price, stop, stopLimit)
      PROVE  Step
  BY <1>0, <1>3, OcoIsPlaced DEF Step
<1>4. ASSUME NEW p \in Pairs, NEW side \in OrderSides, NEW size \in Nat, CreateOrderMarket(p, side, size)
      PROVE  Step
  BY <1>4, MarketIsTrade DEF Step
<1>5. ASSUME NEW p \in Pairs, NEW side \in OrderSides, NEW q \in QuoteAmounts,
             last[p] # 0, CreateOrderMarketQuote(p, side, q)
      PROVE  Step
  <2>1. last[p] \in Nat \ {0} /\ q \in Nat
    BY <1>0, <1>5 DEF WalletTypeOK
  <2>2. q \div last[p] \in Nat
    BY <2>1
  <2>3. CreateOrderMarket(p, side, q \div last[p])
    BY <1>5 DEF CreateOrderMarketQuote
  <2> QED BY <1>4, <2>2, <2>3
<1>6. CASE \E p \in Pairs, c \in Candles : OnCandle(p, c)
  BY <1>6 DEF Step
<1>7. CASE \E i \in DOMAIN orders : CancelWaiting(i)
  BY <1>7 DEF Step
<1> QED
  BY <1>0, <1>1, <1>2, <1>3, <1>4, <1>5, <1>6, <1>7 DEF Next, TradeAtMarket, OrderSides

-----------------------------------------------------------------------------
(* Types.                                                                   *)

(* What the sequence of orders is.                                          *)
LEMMA OrdersTyped ==
  ASSUME WalletTypeOK
  PROVE  /\ Len(orders) \in Nat /\ DOMAIN orders = 1..Len(orders)
         /\ \A i \in DOMAIN orders : orders[i] \in OrderType
         /\ \A X \in SUBSET DOMAIN orders : IsFiniteSet(X)
<1>1. Len(orders) \in Nat /\ DOMAIN orders = 1..Len(orders)
  BY LenProperties DEF WalletTypeOK
<1>2. \A i \in DOMAIN orders : orders[i] \in OrderType
  BY ElementOfSeq DEF WalletTypeOK
<1>3. \A X \in SUBSET DOMAIN orders : IsFiniteSet(X)
  BY <1>1, SetOfIndices
<1> QED BY <1>1, <1>2, <1>3

(* validateFunds leaves balances.                                           *)
LEMMA LockTyped ==
  ASSUME WalletTypeOK, NEW p \in Pairs, NEW side, NEW amount \in Nat, NEW value \in Nat,
         LockFunds(p, side, amount, value)
  PROVE  quote' \in BalanceType /\ assets' \in [Pairs -> BalanceType] /\ avgShort' = avgShort
<1> DEFINE la == LockedAsset(p, side, amount)
           lq == LockedQuote(p, side, amount, value)
           un == Uncovered(p, side, amount)
<1>1. la \in Int /\ lq \in Int /\ un \in Int
  BY FundsTyped
<1>2. /\ assets' = [assets EXCEPT ![p] = [free |-> un, lock |-> @.lock + la]]
      /\ quote' = [free |-> quote.free - lq, lock |-> quote.lock + lq]
      /\ avgShort' = avgShort
  BY DEF LockFunds
<1> HIDE DEF la, lq, un
<1>3. /\ quote.free \in Int /\ quote.lock \in Int /\ assets \in [Pairs -> BalanceType]
      /\ assets[p].lock \in Int
  BY DEF WalletTypeOK, BalanceType
<1>4. quote' \in BalanceType
  BY <1>1, <1>2, <1>3 DEF BalanceType
<1>5. [free |-> un, lock |-> assets[p].lock + la] \in BalanceType
  BY <1>1, <1>3 DEF BalanceType
<1>6. assets' \in [Pairs -> BalanceType]
  BY <1>2, <1>3, <1>5
<1> QED BY <1>2, <1>4, <1>6

(* So it does when the order fills at once.                                 *)
LEMMA FillTyped ==
  ASSUME WalletTypeOK, NEW p \in Pairs, NEW side \in OrderSides, NEW amount \in Nat, NEW value \in Nat,
         FillFunds(p, side, amount, value)
  PROVE  quote' \in BalanceType /\ assets' \in [Pairs -> BalanceType] /\ avgShort' \in [Pairs -> Int]
<1> DEFINE la == LockedAsset(p, side, amount)
           lq == LockedQuote(p, side, amount, value)
           un == Uncovered(p, side, amount)
           av == AveragePrice(avgShort[p], side, un, amount, value)
           pr == Proceeds(amount, value, lq)
<1>1. la \in Int /\ lq \in Int /\ un \in Int
  BY FundsTyped
<1>2. /\ avgShort' = [avgShort EXCEPT ![p] = av]
      /\ \/ /\ assets' = [assets EXCEPT ![p].free = IF lq > 0 THEN un - amount ELSE un]
            /\ quote' = [quote EXCEPT !.free = @ - lq + pr]
         \/ /\ assets' = [assets EXCEPT ![p].free = un + amount - la]
            /\ quote' = [quote EXCEPT !.free = @ - lq]
  BY DEF FillFunds
<1>3. /\ quote.free \in Int /\ quote.lock \in Int /\ quote \in BalanceType
      /\ assets \in [Pairs -> BalanceType] /\ assets[p].free \in Int /\ assets[p].lock \in Int
      /\ avgShort \in [Pairs -> Int] /\ avgShort[p] \in Int
  BY DEF WalletTypeOK, BalanceType
<1>4. av \in Int
  <2> HIDE DEF un
  <2> QED BY <1>1, <1>3, AverageTyped DEF OrderSides
<1>5. pr \in Int
  <2> HIDE DEF lq
  <2> QED BY <1>1 DEF Proceeds
<1> HIDE DEF la, lq, un, av, pr
<1>6. quote' \in BalanceType
  BY <1>1, <1>2, <1>3, <1>5 DEF BalanceType
<1>7. \A x \in Int : [assets EXCEPT ![p].free = x] \in [Pairs -> BalanceType]
  BY <1>3 DEF BalanceType
<1>8. assets' \in [Pairs -> BalanceType]
  <2>1. \E x \in Int : assets' = [assets EXCEPT ![p].free = x]
    <3>1. (IF lq > 0 THEN un - amount ELSE un) \in Int /\ un + amount - la \in Int
      BY <1>1
    <3> QED BY <1>2, <3>1
  <2> QED BY <1>7, <2>1
<1>9. avgShort' \in [Pairs -> Int]
  BY <1>2, <1>3, <1>4
<1> QED BY <1>6, <1>8, <1>9

-----------------------------------------------------------------------------
(* The orders that there were stay, with their pair, side, quantity and     *)
(* group; only their status may change.                                     *)
Kept ==
    /\ DOMAIN orders \subseteq DOMAIN orders'
    /\ \A i \in DOMAIN orders : orders'[i] = [orders[i] EXCEPT !.status = orders'[i].status]

(* New orders come behind them, in the state in which they are made.        *)
Grown(new) ==
    /\ new \subseteq Nat /\ DOMAIN orders' = DOMAIN orders \cup new
    /\ \A i \in new : i > Len(orders)
    /\ \A i \in DOMAIN orders : orders'[i] = orders[i]

(* Orders that are appended.                                                *)
LEMMA Appended ==
  ASSUME WalletTypeOK, NEW s \in Seq(OrderType), orders' = orders \o s
  PROVE  /\ orders' \in Seq(OrderType)
         /\ DOMAIN orders' = 1..(Len(orders) + Len(s))
         /\ \A i \in DOMAIN orders : orders'[i] = orders[i]
         /\ \A k \in 1..Len(s) : orders'[Len(orders) + k] = s[k]
<1>0. orders \in Seq(OrderType)
  BY DEF WalletTypeOK
<1>1. Len(s) \in Nat /\ Len(orders) \in Nat /\ DOMAIN orders = 1..Len(orders)
  BY <1>0, LenProperties
<1>2. /\ orders' \in Seq(OrderType) /\ Len(orders') = Len(orders) + Len(s)
      /\ \A i \in 1..(Len(orders) + Len(s)) :
            orders'[i] = IF i <= Len(orders) THEN orders[i] ELSE s[i - Len(orders)]
  BY <1>0, ConcatProperties
<1>3. DOMAIN orders' = 1..(Len(orders) + Len(s))
  BY <1>2, LenProperties
<1>4. ASSUME NEW k \in 1..Len(s) PROVE orders'[Len(orders) + k] = s[k]
  <2>1. /\ Len(orders) + k \in 1..(Len(orders) + Len(s)) /\ ~(Len(orders) + k <= Len(orders))
        /\ (Len(orders) + k) - Len(orders) = k
    BY <1>1
  <2> QED BY <1>2, <2>1
<1>5. ASSUME NEW i \in DOMAIN orders PROVE orders'[i] = orders[i]
  <2>1. i \in 1..(Len(orders) + Len(s)) /\ i <= Len(orders)
    BY <1>1
  <2> QED BY <1>2, <2>1
<1> QED BY <1>2, <1>3, <1>4, <1>5

(* One order more.                                                          *)
LEMMA OneMore ==
  ASSUME WalletTypeOK, NEW o \in OrderType, orders' = orders \o <<o>>
  PROVE  orders' \in Seq(OrderType) /\ Grown({NextIndex(1)}) /\ orders'[NextIndex(1)] = o
<1>1. <<o>> \in Seq(OrderType) /\ Len(<<o>>) = 1 /\ <<o>>[1] = o
  OBVIOUS
<1>2. Len(orders) \in Nat /\ DOMAIN orders = 1..Len(orders)
  BY OrdersTyped
<1>3. /\ orders' \in Seq(OrderType) /\ DOMAIN orders' = 1..(Len(orders) + 1)
      /\ \A i \in DOMAIN orders : orders'[i] = orders[i]
      /\ orders'[Len(orders) + 1] = o
  <2> DEFINE s == <<o>>
  <2>1. s \in Seq(OrderType) /\ Len(s) = 1 /\ 1 \in 1..Len(s) /\ s[1] = o /\ orders' = orders \o s
    BY <1>1
  <2> HIDE DEF s
  <2> QED BY <2>1, Appended
<1> QED BY <1>2, <1>3 DEF Grown, NextIndex

(* Two orders more.                                                         *)
LEMMA TwoMore ==
  ASSUME WalletTypeOK, NEW o \in OrderType, NEW leg \in OrderType, orders' = orders \o <<o, leg>>
  PROVE  /\ orders' \in Seq(OrderType) /\ Grown({NextIndex(1), NextIndex(2)})
         /\ orders'[NextIndex(1)] = o /\ orders'[NextIndex(2)] = leg
<1>1. <<o, leg>> \in Seq(OrderType) /\ Len(<<o, leg>>) = 2 /\ <<o, leg>>[1] = o /\ <<o, leg>>[2] = leg
  OBVIOUS
<1>2. Len(orders) \in Nat /\ DOMAIN orders = 1..Len(orders)
  BY OrdersTyped
<1>3. /\ orders' \in Seq(OrderType) /\ DOMAIN orders' = 1..(Len(orders) + 2)
      /\ \A i \in DOMAIN orders : orders'[i] = orders[i]
      /\ orders'[Len(orders) + 1] = o /\ orders'[Len(orders) + 2] = leg
  <2> DEFINE s == <<o, leg>>
  <2>1. /\ s \in Seq(OrderType) /\ Len(s) = 2 /\ 1 \in 1..Len(s) /\ 2 \in 1..Len(s)
        /\ s[1] = o /\ s[2] = leg /\ orders' = orders \o s
    BY <1>1
  <2> HIDE DEF s
  <2> QED BY <2>1, Appended
<1> QED BY <1>2, <1>3 DEF Grown, NextIndex

(* A candle's orders stay the same but for the status.                      *)
LEMMA SettledTyped ==
  ASSUME WalletTypeOK, NEW fired \in SUBSET DOMAIN orders,
         orders' = [i \in DOMAIN orders |-> Settled(i, fired)]
  PROVE  /\ orders' \in Seq(OrderType) /\ Kept /\ DOMAIN orders' = DOMAIN orders
         /\ \A i \in DOMAIN orders :
               orders'[i].status = IF i \in CancelledBy(fired) THEN "CANCELED"
                                   ELSE IF i \in fired THEN "FILLED" ELSE orders[i].status
<1>1. /\ Len(orders) \in Nat /\ DOMAIN orders = 1..Len(orders)
      /\ \A i \in DOMAIN orders : orders[i] \in OrderType
  BY OrdersTyped
<1>2. ASSUME NEW i \in DOMAIN orders
      PROVE  /\ Settled(i, fired) = [orders[i] EXCEPT !.status = Settled(i, fired).status]
             /\ Settled(i, fired) \in OrderType
             /\ Settled(i, fired).status = IF i \in CancelledBy(fired) THEN "CANCELED"
                                           ELSE IF i \in fired THEN "FILLED" ELSE orders[i].status
  <2>1. /\ orders[i] = [orders[i] EXCEPT !.status = orders[i].status]
        /\ \A st \in Statuses : /\ [orders[i] EXCEPT !.status = st] \in OrderType
                                /\ [orders[i] EXCEPT !.status = st].status = st
    BY <1>1 DEF OrderType, Statuses
  <2>2. CASE i \in CancelledBy(fired)
    <3>1. Settled(i, fired) = [orders[i] EXCEPT !.status = "CANCELED"]
      BY <2>2 DEF Settled
    <3> QED BY <2>1, <2>2, <3>1, NamesTyped
  <2>3. CASE i \in fired \ CancelledBy(fired)
    <3>1. Settled(i, fired) = [orders[i] EXCEPT !.status = "FILLED"]
      BY <2>3 DEF Settled
    <3> QED BY <2>1, <2>3, <3>1, NamesTyped
  <2>4. CASE i \notin fired /\ i \notin CancelledBy(fired)
    <3>1. Settled(i, fired) = orders[i]
      BY <2>4 DEF Settled
    <3> QED BY <1>1, <2>1, <2>4, <3>1
  <2> QED BY <2>2, <2>3, <2>4
<1>3. orders' \in [1..Len(orders) -> OrderType]
  <2>1. \A i \in 1..Len(orders) : orders'[i] = Settled(i, fired) /\ Settled(i, fired) \in OrderType
    BY <1>1, <1>2
  <2>2. orders' = [i \in 1..Len(orders) |-> Settled(i, fired)]
    BY <1>1
  <2> QED BY <1>2, <1>1, <2>2
<1>4. orders' \in Seq(OrderType) /\ DOMAIN orders' = DOMAIN orders
  BY <1>1, <1>3, SeqDef
<1> QED BY <1>2, <1>4 DEF Kept

(* Sums over orders are integers.                                           *)
LEMMA SumsTyped ==
  ASSUME WalletTypeOK, NEW X \in SUBSET DOMAIN orders
  PROVE  /\ IsFiniteSet(X) /\ IntOn(Quantity, X) /\ IntOn(Cost, X) /\ IntOn(Volume, X)
         /\ SumFunctionOnSet(Quantity, X) \in Nat /\ SumFunctionOnSet(Cost, X) \in Nat
         /\ SumFunctionOnSet(Volume, X) \in Int
<1>1. IsFiniteSet(X) /\ \A i \in DOMAIN orders : orders[i] \in OrderType
  BY OrdersTyped
<1>2. \A i \in X : /\ orders[i].qty \in Nat /\ orders[i].price \in Nat
                   /\ FillPrice(orders[i]) \in Nat
  BY <1>1 DEF OrderType, FillPrice
<1>3. \A i \in X : Quantity[i] \in Nat /\ Cost[i] \in Nat /\ Volume[i] \in Nat
  <2>1. \A x, y \in Nat : x * y \in Nat
    OBVIOUS
  <2> QED BY <1>2, <2>1 DEF Quantity, Cost, Volume
<1>4. IntOn(Quantity, X) /\ IntOn(Cost, X) /\ IntOn(Volume, X)
  BY <1>3 DEF IntOn
<1>5. SumFunctionOnSet(Quantity, X) \in Nat
  BY <1>1, <1>3, <1>4, SumNat
<1>6. SumFunctionOnSet(Cost, X) \in Nat
  BY <1>1, <1>3, <1>4, SumNat
<1>7. SumFunctionOnSet(Volume, X) \in Int
  BY <1>1, <1>4, SumTaken
<1> QED BY <1>1, <1>4, <1>5, <1>6, <1>7

(* What fires waits under its pair.                                         *)
LEMMA FiredWaits ==
  ASSUME PendingIsIndex, NEW p \in Pairs, NEW c
  PROVE  /\ Fired(p, c) \in SUBSET DOMAIN orders
         /\ Sold(Fired(p, c)) \in SUBSET DOMAIN orders
         /\ Bought(Fired(p, c)) \in SUBSET DOMAIN orders
         /\ \A i \in Fired(p, c) : /\ New(i) /\ orders[i].pair = p /\ i \in pending[p]
                                   /\ Reached(orders[i], c)
BY DEF Fired, PendingIsIndex, Sold, Bought

(* The wallet after a candle.                                               *)
LEMMA CandleTyped ==
  ASSUME WalletTypeOK, PendingIsIndex, NEW p \in Pairs, NEW c \in Candles, OnCandle(p, c)
  PROVE  WalletTypeOK'
<1> DEFINE fired == Fired(p, c)
           sold == Sold(fired)
           bought == Bought(fired)
           ql == SumFunctionOnSet(Quantity, sold)
           qb == SumFunctionOnSet(Quantity, bought)
           vs == SumFunctionOnSet(Volume, sold)
           vb == SumFunctionOnSet(Volume, bought)
           av == AverageAfter(p, fired)
<1>1. fired \in SUBSET DOMAIN orders /\ sold \in SUBSET DOMAIN orders /\ bought \in SUBSET DOMAIN orders
  BY FiredWaits
<1>2. ql \in Int /\ qb \in Int /\ vs \in Int /\ vb \in Int
  <2> HIDE DEF sold, bought
  <2> QED BY <1>1, SumsTyped
<1>3. av \in Int
  <2> HIDE DEF fired
  <2> QED BY <1>1, AverageAfterTyped
<1>4. /\ style' = style
      /\ last' = [last EXCEPT ![p] = c.close]
      /\ orders' = [i \in DOMAIN orders |-> Settled(i, fired)]
      /\ pending' = [pending EXCEPT ![p] = @ \ Completed(p, fired)]
      /\ assets' = [assets EXCEPT ![p] = [free |-> @.free + qb, lock |-> @.lock - ql]]
      /\ quote' = [free |-> quote.free + vs, lock |-> quote.lock - vb]
      /\ avgShort' = [avgShort EXCEPT ![p] = av]
  BY DEF OnCandle
<1> HIDE DEF fired, sold, bought, ql, qb, vs, vb, av
<1>5. orders' \in Seq(OrderType)
  BY <1>1, <1>4, SettledTyped
<1>6. c.close \in Nat
  BY WalletAssumption DEF Candles
<1>7. /\ quote.free \in Int /\ quote.lock \in Int /\ assets[p].free \in Int /\ assets[p].lock \in Int
      /\ assets \in [Pairs -> BalanceType] /\ last \in [Pairs -> Nat] /\ avgShort \in [Pairs -> Int]
      /\ pending \in [Pairs -> SUBSET Nat] /\ style \in Styles
  BY DEF WalletTypeOK, BalanceType
<1>8. /\ style' \in Styles /\ last' \in [Pairs -> Nat] /\ avgShort' \in [Pairs -> Int]
      /\ pending' \in [Pairs -> SUBSET Nat]
  BY <1>3, <1>4, <1>6, <1>7
<1>9. quote' \in BalanceType
  BY <1>2, <1>4, <1>7 DEF BalanceType
<1>10. [free |-> assets[p].free + qb, lock |-> assets[p].lock - ql] \in BalanceType
  BY <1>2, <1>7 DEF BalanceType
<1>11. assets' \in [Pairs -> BalanceType]
  BY <1>4, <1>7, <1>10
<1> QED BY <1>5, <1>8, <1>9, <1>11 DEF WalletTypeOK

(* A cancelled order stays in its place.                                    *)
LEMMA CancelTyped ==
  ASSUME WalletTypeOK, NEW i \in DOMAIN orders, CancelWaiting(i)
  PROVE  /\ WalletTypeOK' /\ Kept /\ DOMAIN orders' = DOMAIN orders
         /\ orders'[i].status = "CANCELED"
         /\ \A j \in DOMAIN orders : j # i => orders'[j] = orders[j]
<1>1. /\ Len(orders) \in Nat /\ DOMAIN orders = 1..Len(orders) /\ orders \in Seq(OrderType)
      /\ \A j \in DOMAIN orders : orders[j] \in OrderType
  BY OrdersTyped DEF WalletTypeOK
<1> DEFINE o == [orders[i] EXCEPT !.status = "CANCELED"]
<1>2. orders' = [orders EXCEPT ![i] = o] /\ UNCHANGED <<style, last, pending>> /\ Unlock(orders[i])
  BY DEF CancelWaiting, Cancel
<1>3. o \in OrderType /\ o.status = "CANCELED"
  BY <1>1 DEF OrderType
<1>4. \A j \in DOMAIN orders : orders[j] = [orders[j] EXCEPT !.status = orders[j].status]
  BY <1>1 DEF OrderType
<1>5. o = [orders[i] EXCEPT !.status = o.status]
  BY <1>3
<1> HIDE DEF o
<1>6. /\ orders' \in Seq(OrderType) /\ Len(orders') = Len(orders)
      /\ \A j \in 1..Len(orders) : orders'[j] = IF j = i THEN o ELSE orders[j]
  <2>1. i \in 1..Len(orders)
    BY <1>1
  <2> QED BY <1>1, <1>2, <1>3, <2>1, ExceptSeq
<1>7. DOMAIN orders' = DOMAIN orders
  BY <1>1, <1>6, LenProperties
<1>8. Kept
  BY <1>1, <1>4, <1>5, <1>6, <1>7 DEF Kept
<1>9. quote' \in BalanceType /\ assets' \in [Pairs -> BalanceType] /\ avgShort' = avgShort
  <2> DEFINE p == orders[i].pair
             a == orders[i].price * orders[i].qty
             q == orders[i].qty
  <2>1. p \in Pairs /\ q \in Int /\ a \in Int
    BY <1>1 DEF OrderType
  <2>2. /\ quote.free \in Int /\ quote.lock \in Int /\ quote \in BalanceType
        /\ assets[p].free \in Int /\ assets[p].lock \in Int /\ assets \in [Pairs -> BalanceType]
    BY <2>1 DEF WalletTypeOK, BalanceType
  <2>3. /\ avgShort' = avgShort
        /\ \/ quote' = quote
           \/ quote' = [free |-> quote.free + a, lock |-> quote.lock - a]
        /\ \/ assets' = assets
           \/ assets' = [assets EXCEPT ![p] = [free |-> @.free + q, lock |-> @.lock - q]]
    BY <1>2 DEF Unlock
  <2> HIDE DEF p, a, q
  <2>4. [free |-> quote.free + a, lock |-> quote.lock - a] \in BalanceType
    BY <2>1, <2>2 DEF BalanceType
  <2>5. [free |-> assets[p].free + q, lock |-> assets[p].lock - q] \in BalanceType
    BY <2>1, <2>2 DEF BalanceType
  <2> QED BY <2>1, <2>2, <2>3, <2>4, <2>5
<1>10. WalletTypeOK'
  BY <1>2, <1>6, <1>9 DEF WalletTypeOK
<1> QED BY <1>1, <1>3, <1>6, <1>7, <1>8, <1>10

(* What waits with one more order, under its pair.                          *)
LEMMA PlaceOneTyped ==
  ASSUME WalletTypeOK, NEW p \in Pairs, NEW o \in OrderType, PlaceOne(p, o)
  PROVE  /\ WalletTypeOK' /\ Grown({NextIndex(1)}) /\ orders'[NextIndex(1)] = o
         /\ pending' = [pending EXCEPT ![p] = @ \cup {NextIndex(1)}]
<1>1. o.qty \in Nat /\ o.price \in Nat
  BY DEF OrderType
<1>2. LockFunds(p, o.side, o.qty, o.price) /\ Wait(p, <<o>>)
  BY DEF PlaceOne
<1>3. quote' \in BalanceType /\ assets' \in [Pairs -> BalanceType] /\ avgShort' = avgShort
  BY <1>1, <1>2, LockTyped
<1>4. /\ orders' = orders \o <<o>> /\ style' = style /\ last' = last
      /\ pending' = [pending EXCEPT ![p] = @ \cup {NextIndex(k) : k \in DOMAIN <<o>>}]
  BY <1>2 DEF Wait
<1>5. {NextIndex(k) : k \in DOMAIN <<o>>} = {NextIndex(1)}
  <2>1. DOMAIN <<o>> = {1}
    OBVIOUS
  <2> QED BY <2>1
<1>6. NextIndex(1) \in Nat
  BY OrdersTyped DEF NextIndex
<1>7. orders' \in Seq(OrderType) /\ Grown({NextIndex(1)}) /\ orders'[NextIndex(1)] = o
  BY <1>4, OneMore
<1>8. pending' = [pending EXCEPT ![p] = @ \cup {NextIndex(1)}]
  BY <1>4, <1>5
<1>9. pending' \in [Pairs -> SUBSET Nat]
  BY <1>6, <1>8 DEF WalletTypeOK
<1> QED BY <1>3, <1>4, <1>7, <1>8, <1>9 DEF WalletTypeOK

(* And with two.                                                            *)
LEMMA PlaceTwoTyped ==
  ASSUME WalletTypeOK, NEW p \in Pairs, NEW o \in OrderType, NEW leg \in OrderType, PlaceTwo(p, o, leg)
  PROVE  /\ WalletTypeOK' /\ Grown({NextIndex(1), NextIndex(2)})
         /\ orders'[NextIndex(1)] = o /\ orders'[NextIndex(2)] = leg
         /\ pending' = [pending EXCEPT ![p] = @ \cup {NextIndex(1), NextIndex(2)}]
<1>1. o.qty \in Nat /\ o.price \in Nat
  BY DEF OrderType
<1>2. LockFunds(p, o.side, o.qty, o.price) /\ Wait(p, <<o, leg>>)
  BY DEF PlaceTwo
<1>3. quote' \in BalanceType /\ assets' \in [Pairs -> BalanceType] /\ avgShort' = avgShort
  BY <1>1, <1>2, LockTyped
<1>4. /\ orders' = orders \o <<o, leg>> /\ style' = style /\ last' = last
      /\ pending' = [pending EXCEPT ![p] = @ \cup {NextIndex(k) : k \in DOMAIN <<o, leg>>}]
  BY <1>2 DEF Wait
<1>5. {NextIndex(k) : k \in DOMAIN <<o, leg>>} = {NextIndex(1), NextIndex(2)}
  <2>1. DOMAIN <<o, leg>> = {1, 2}
    OBVIOUS
  <2> QED BY <2>1
<1>6. NextIndex(1) \in Nat /\ NextIndex(2) \in Nat
  BY OrdersTyped DEF NextIndex
<1>7. /\ orders' \in Seq(OrderType) /\ Grown({NextIndex(1), NextIndex(2)})
      /\ orders'[NextIndex(1)] = o /\ orders'[NextIndex(2)] = leg
  BY <1>4, TwoMore
<1>8. pending' = [pending EXCEPT ![p] = @ \cup {NextIndex(1), NextIndex(2)}]
  BY <1>4, <1>5
<1>9. pending' \in [Pairs -> SUBSET Nat]
  BY <1>6, <1>8 DEF WalletTypeOK
<1> QED BY <1>3, <1>4, <1>7, <1>8, <1>9 DEF WalletTypeOK

(* And with an order that has traded.                                       *)
LEMMA TradeTyped ==
  ASSUME WalletTypeOK, NEW p \in Pairs, NEW o \in OrderType, Trade(p, o)
  PROVE  /\ WalletTypeOK' /\ Grown({NextIndex(1)}) /\ orders'[NextIndex(1)] = o
         /\ pending' = pending
<1>1. o.qty \in Nat /\ o.price \in Nat /\ o.side \in OrderSides
  BY DEF OrderType, OrderSides
<1>2. /\ FillFunds(p, o.side, o.qty, o.price)
      /\ orders' = Append(orders, o) /\ UNCHANGED <<style, last, pending>>
  BY DEF Trade
<1>3. quote' \in BalanceType /\ assets' \in [Pairs -> BalanceType] /\ avgShort' \in [Pairs -> Int]
  BY <1>1, <1>2, FillTyped
<1>4. orders' = orders \o <<o>>
  <2>1. orders \in Seq(OrderType)
    BY DEF WalletTypeOK
  <2> QED BY <1>2, <2>1, AppendIsConcat
<1>5. orders' \in Seq(OrderType) /\ Grown({NextIndex(1)}) /\ orders'[NextIndex(1)] = o
  BY <1>4, OneMore
<1> QED BY <1>2, <1>3, <1>5 DEF WalletTypeOK

-----------------------------------------------------------------------------
(* Groups.                                                                  *)

(* A new order is no sibling of the orders that there were.                 *)
LEMMA SiblingsKept ==
  ASSUME WalletTypeOK, WalletTypeOK', OrdersAreLegs, NEW new, Grown(new),
         \A i \in new : orders'[i].group = 0 \/ orders'[i].group > Len(orders)
  PROVE  /\ \A i \in DOMAIN orders : Siblings(i)' = Siblings(i)
         /\ \A i \in new : orders'[i].group = 0 => Siblings(i)' = {}
<1>1. /\ Len(orders) \in Nat /\ DOMAIN orders = 1..Len(orders)
      /\ \A i \in DOMAIN orders : orders[i].group \in Nat
  BY OrdersTyped, WalletAssumption DEF OrderType
<1>2. /\ DOMAIN orders' = DOMAIN orders \cup new
      /\ \A i \in DOMAIN orders : orders'[i] = orders[i]
  BY DEF Grown
<1>3. \A i \in DOMAIN orders : orders[i].group # 0 => orders[i].group <= Len(orders)
  BY <1>1 DEF OrdersAreLegs
<1>4. ASSUME NEW i \in DOMAIN orders, NEW j \in new
      PROVE  ~(orders[i].group # 0 /\ orders'[j].group = orders[i].group)
  BY <1>1, <1>3
<1>5. ASSUME NEW i \in DOMAIN orders PROVE Siblings(i)' = Siblings(i)
  <2>1. Siblings(i)' = {j \in DOMAIN orders' : j # i /\ orders'[i].group # 0
                                                /\ orders'[j].group = orders'[i].group}
    BY DEF Siblings
  <2> QED BY <1>2, <1>4, <2>1 DEF Siblings
<1>6. ASSUME NEW i \in new, orders'[i].group = 0 PROVE Siblings(i)' = {}
  BY <1>6 DEF Siblings
<1> QED BY <1>5, <1>6

(* A change of status is none of group.                                     *)
LEMMA SiblingsSame ==
  ASSUME WalletTypeOK, Kept, DOMAIN orders' = DOMAIN orders, NEW i \in DOMAIN orders
  PROVE  Siblings(i)' = Siblings(i) /\ Siblings(i) \subseteq DOMAIN orders
<1>1. \A j \in DOMAIN orders : orders'[j].group = orders[j].group
  <2> SUFFICES ASSUME NEW j \in DOMAIN orders PROVE orders'[j].group = orders[j].group
    OBVIOUS
  <2>1. orders[j] \in OrderType
    BY OrdersTyped
  <2>2. orders'[j] = [orders[j] EXCEPT !.status = orders'[j].status]
    BY DEF Kept
  <2> QED BY <2>1, <2>2 DEF OrderType
<1>2. Siblings(i)' = {j \in DOMAIN orders' : j # i /\ orders'[i].group # 0
                                              /\ orders'[j].group = orders'[i].group}
  BY DEF Siblings
<1> QED BY <1>1, <1>2 DEF Siblings

(* The other leg is the only one.                                           *)
LEMMA OneSibling ==
  ASSUME WalletTypeOK, OrdersAreLegs, NEW i \in DOMAIN orders, NEW j \in Siblings(i)
  PROVE  /\ j \in DOMAIN orders /\ j # i /\ Siblings(i) = {j} /\ Siblings(j) = {i}
         /\ orders[j].pair = orders[i].pair /\ orders[j].side = orders[i].side
         /\ orders[j].qty = orders[i].qty
         /\ i \in Int /\ j \in Int /\ orders[i].group # 0
<1>1. /\ Len(orders) \in Nat /\ DOMAIN orders = 1..Len(orders)
      /\ \A k \in DOMAIN orders : orders[k].group \in Nat
  BY OrdersTyped, WalletAssumption DEF OrderType
<1> DEFINE g == orders[i].group
<1>2. j \in DOMAIN orders /\ j # i /\ g # 0 /\ orders[j].group = g
  BY DEF Siblings
<1>3. \A k \in DOMAIN orders : orders[k].group = g => k = g \/ k = g + 1
  BY <1>2 DEF OrdersAreLegs
<1>4. Siblings(i) = {j}
  BY <1>2, <1>3 DEF Siblings
<1>5. Siblings(j) = {i}
  BY <1>2, <1>3 DEF Siblings
<1>6. j \in {g, g + 1}
  BY <1>2, <1>3
<1>7. orders[j].pair = orders[i].pair /\ orders[j].side = orders[i].side /\ orders[j].qty = orders[i].qty
  BY <1>2, <1>6 DEF OrdersAreLegs
<1> QED BY <1>1, <1>2, <1>4, <1>5, <1>7

-----------------------------------------------------------------------------
(* The invariant is kept, step by step.                                     *)

(* What a group is does not depend on the status of its orders.             *)
LEMMA LegsKept ==
  ASSUME WalletTypeOK, OrdersAreLegs, Kept, DOMAIN orders' = DOMAIN orders
  PROVE  OrdersAreLegs'
<1>1. ASSUME NEW i \in DOMAIN orders
      PROVE  /\ orders'[i].group = orders[i].group /\ orders'[i].pair = orders[i].pair
             /\ orders'[i].side = orders[i].side /\ orders'[i].qty = orders[i].qty
  <2>1. orders[i] \in OrderType
    BY OrdersTyped
  <2>2. orders'[i] = [orders[i] EXCEPT !.status = orders'[i].status]
    BY DEF Kept
  <2> QED BY <2>1, <2>2 DEF OrderType
<1>2. ASSUME NEW i \in DOMAIN orders, NEW g, g = orders[i].group, g # 0
      PROVE  /\ i \in {g, g + 1} /\ {g, g + 1} \subseteq DOMAIN orders
             /\ \A j \in {g, g + 1} :
                   /\ orders'[j].group = g /\ orders'[j].pair = orders'[i].pair
                   /\ orders'[j].side = orders'[i].side /\ orders'[j].qty = orders'[i].qty
  <2>1. /\ i \in {g, g + 1} /\ {g, g + 1} \subseteq DOMAIN orders
        /\ \A j \in {g, g + 1} :
              /\ orders[j].group = g /\ orders[j].pair = orders[i].pair
              /\ orders[j].side = orders[i].side /\ orders[j].qty = orders[i].qty
    BY <1>2 DEF OrdersAreLegs
  <2> QED BY <1>1, <2>1
<1> QED BY <1>1, <1>2 DEF OrdersAreLegs

(* Nor on the orders that come behind.                                      *)
LEMMA LegsGrow ==
  ASSUME WalletTypeOK, OrdersAreLegs, NEW new, Grown(new),
         \/ \A i \in new : orders'[i].group = 0
         \/ /\ new = {NextIndex(1), NextIndex(2)}
            /\ \A i, j \in new : /\ orders'[i].group = NextIndex(1)
                                 /\ orders'[j].pair = orders'[i].pair
                                 /\ orders'[j].side = orders'[i].side /\ orders'[j].qty = orders'[i].qty
  PROVE  OrdersAreLegs'
<1>1. DOMAIN orders' = DOMAIN orders \cup new /\ \A i \in DOMAIN orders : orders'[i] = orders[i]
  BY DEF Grown
<1>2. ASSUME NEW i \in DOMAIN orders', NEW g, g = orders'[i].group, g # 0
      PROVE  /\ i \in {g, g + 1} /\ {g, g + 1} \subseteq DOMAIN orders'
             /\ \A j \in {g, g + 1} :
                   /\ orders'[j].group = g /\ orders'[j].pair = orders'[i].pair
                   /\ orders'[j].side = orders'[i].side /\ orders'[j].qty = orders'[i].qty
  <2>1. CASE i \in DOMAIN orders
    <3>1. /\ i \in {g, g + 1} /\ {g, g + 1} \subseteq DOMAIN orders
          /\ \A j \in {g, g + 1} :
                /\ orders[j].group = g /\ orders[j].pair = orders[i].pair
                /\ orders[j].side = orders[i].side /\ orders[j].qty = orders[i].qty
      BY <1>1, <1>2, <2>1 DEF OrdersAreLegs
    <3> QED BY <1>1, <2>1, <3>1
  <2>2. CASE i \in new
    <3>1. new = {NextIndex(1), NextIndex(2)} /\ g = NextIndex(1) /\ g \in Int /\ NextIndex(2) = g + 1
      BY <1>2, <2>2, OrdersTyped DEF NextIndex
    <3>2. {g, g + 1} = new
      BY <3>1
    <3> QED BY <1>1, <1>2, <2>2, <3>2
  <2> QED BY <1>1, <2>1, <2>2
<1> QED BY <1>2 DEF OrdersAreLegs

(* The index gets what waits.                                               *)
LEMMA IndexGrows ==
  ASSUME WalletTypeOK, PendingIsIndex, NEW p \in Pairs, NEW new, Grown(new),
         \A i \in new : orders'[i].pair = p,
         \/ pending' = [pending EXCEPT ![p] = @ \cup new]
         \/ pending' = pending /\ \A i \in new : orders'[i].status # "NEW"
  PROVE  PendingIsIndex'
<1>1. DOMAIN orders' = DOMAIN orders \cup new /\ \A i \in DOMAIN orders : orders'[i] = orders[i]
  BY DEF Grown
<1>2. pending \in [Pairs -> SUBSET Nat]
  BY DEF WalletTypeOK
<1>3. \A q \in Pairs : pending[q] \subseteq pending'[q]
                       /\ pending'[q] \subseteq pending[q] \cup (IF q = p THEN new ELSE {})
  BY <1>2
<1>4. ASSUME NEW i \in DOMAIN orders', orders'[i].status = "NEW"
      PROVE  i \in pending'[orders'[i].pair]
  <2>1. CASE i \in DOMAIN orders
    <3>1. i \in pending[orders[i].pair] /\ orders[i].pair \in Pairs
      BY <1>1, <1>4, <2>1, OrdersTyped DEF PendingIsIndex, New, OrderType
    <3> QED BY <1>1, <1>3, <2>1, <3>1
  <2>2. CASE i \in new
    <3>1. pending' = [pending EXCEPT ![p] = @ \cup new]
      BY <1>4, <2>2
    <3> QED BY <1>2, <2>2, <3>1
  <2> QED BY <1>1, <2>1, <2>2
<1>5. ASSUME NEW q \in Pairs, NEW i \in pending'[q]
      PROVE  i \in DOMAIN orders' /\ orders'[i].pair = q
  <2>1. CASE i \in pending[q]
    BY <1>1, <2>1 DEF PendingIsIndex
  <2>2. CASE i \in new /\ q = p
    BY <1>1, <2>2
  <2> QED BY <1>3, <2>1, <2>2
<1> QED BY <1>4, <1>5 DEF PendingIsIndex, New

(* And loses only what does not wait any more.                              *)
LEMMA IndexShrinks ==
  ASSUME WalletTypeOK, PendingIsIndex, Kept, DOMAIN orders' = DOMAIN orders,
         \A i \in DOMAIN orders : orders'[i].status = "NEW" => New(i),
         NEW p \in Pairs, NEW gone, pending' = [pending EXCEPT ![p] = @ \ gone],
         \A i \in gone : orders'[i].status # "NEW"
  PROVE  PendingIsIndex'
<1>1. ASSUME NEW i \in DOMAIN orders PROVE orders'[i].pair = orders[i].pair /\ orders[i].pair \in Pairs
  <2>1. orders[i] \in OrderType
    BY OrdersTyped
  <2>2. orders'[i] = [orders[i] EXCEPT !.status = orders'[i].status]
    BY DEF Kept
  <2> QED BY <2>1, <2>2 DEF OrderType
<1>2. pending \in [Pairs -> SUBSET Nat]
  BY DEF WalletTypeOK
<1>3. \A q \in Pairs : pending'[q] \subseteq pending[q] /\ pending[q] \subseteq pending'[q] \cup gone
  BY <1>2
<1>4. ASSUME NEW i \in DOMAIN orders', orders'[i].status = "NEW"
      PROVE  i \in pending'[orders'[i].pair]
  BY <1>1, <1>3, <1>4 DEF PendingIsIndex
<1>5. ASSUME NEW q \in Pairs, NEW i \in pending'[q]
      PROVE  i \in DOMAIN orders' /\ orders'[i].pair = q
  BY <1>1, <1>3, <1>5 DEF PendingIsIndex
<1> QED BY <1>4, <1>5 DEF PendingIsIndex, New

(* An order that is placed behind has no sibling that has filled.           *)
LEMMA ExclusiveGrows ==
  ASSUME WalletTypeOK, WalletTypeOK', OrdersAreLegs, GroupExclusive, NEW new, Grown(new),
         \A i \in new : \/ orders'[i].group = 0
                        \/ orders'[i].group > Len(orders) /\ orders'[i].status = "NEW"
  PROVE  GroupExclusive'
<1>1. /\ DOMAIN orders' = DOMAIN orders \cup new
      /\ \A i \in DOMAIN orders : orders'[i] = orders[i]
  BY DEF Grown
<1>2. /\ \A i \in DOMAIN orders : Siblings(i)' = Siblings(i) /\ Siblings(i) \subseteq DOMAIN orders
      /\ \A i \in new : orders'[i].group = 0 => Siblings(i)' = {}
  BY SiblingsKept DEF Siblings
<1>3. ASSUME NEW i \in DOMAIN orders', orders'[i].status = "FILLED", orders'[i].side = "SELL"
      PROVE  \A j \in Siblings(i)' : orders'[j].status = "CANCELED"
  <2>1. CASE i \in DOMAIN orders
    <3>1. \A j \in Siblings(i) : orders[j].status = "CANCELED"
      BY <1>1, <1>3, <2>1 DEF GroupExclusive, Filled
    <3> QED BY <1>1, <1>2, <2>1, <3>1
  <2>2. CASE i \in new
    <3>1. Siblings(i)' = {}
      BY <1>2, <1>3, <2>2
    <3> QED BY <3>1
  <2> QED BY <1>1, <2>1, <2>2
<1>4. Filled("SELL")' = {i \in DOMAIN orders' : orders'[i].status = "FILLED" /\ orders'[i].side = "SELL"}
  BY DEF Filled
<1> QED BY <1>3, <1>4 DEF GroupExclusive

(* Of the two legs of a sale one candle fills one: the first it reaches.    *)
LEMMA FiredOnce ==
  ASSUME WalletTypeOK, OrdersAreLegs, PendingIsIndex, NEW p \in Pairs, NEW c,
         NEW i \in Sold(Fired(p, c))
  PROVE  /\ \A j \in Siblings(i) : j \notin Fired(p, c)
         /\ i \notin CancelledBy(Fired(p, c))
<1> DEFINE fired == Fired(p, c)
           reached == {k \in pending[p] : New(k) /\ Reached(orders[k], c)}
<1>1. /\ i \in DOMAIN orders /\ i \in fired /\ orders[i].side = "SELL"
      /\ fired \subseteq DOMAIN orders
  BY FiredWaits DEF Sold
<1>2. fired = {k \in reached : ~ \E j \in reached \cap Siblings(k) : j < k /\ orders[j].side = "SELL"}
  BY DEF Fired
<1>3. ASSUME NEW j \in Siblings(i), j \in fired PROVE FALSE
  <2>1. /\ j \in DOMAIN orders /\ orders[j].side = "SELL" /\ i \in Siblings(j) /\ i # j
        /\ i \in Int /\ j \in Int
    BY <1>1, OneSibling
  <2>2. i \in reached /\ j \in reached
    BY <1>1, <1>2, <1>3
  <2> HIDE DEF fired, reached
  <2>3. CASE i < j
    BY <1>1, <1>2, <1>3, <2>1, <2>2, <2>3
  <2>4. CASE j < i
    BY <1>1, <1>2, <1>3, <2>1, <2>2, <2>4
  <2> QED BY <2>1, <2>3, <2>4
<1>4. ASSUME i \in CancelledBy(fired) PROVE FALSE
  <2>1. PICK k \in Sold(fired) : i \in Siblings(k)
    BY <1>4 DEF CancelledBy
  <2>2. k \in fired /\ k \in DOMAIN orders
    BY <1>1, <2>1 DEF Sold
  <2>3. k \in Siblings(i)
    BY <2>1, <2>2, OneSibling
  <2> QED BY <1>3, <2>2, <2>3
<1> QED BY <1>3, <1>4

(* What a candle does to the orders.                                        *)
LEMMA CandleOrders ==
  ASSUME WalletTypeOK, OrdersAreLegs, PendingIsIndex,
         NEW p \in Pairs, NEW c \in Candles, OnCandle(p, c)
  PROVE  /\ Kept /\ DOMAIN orders' = DOMAIN orders
         /\ \A i \in DOMAIN orders :
               /\ i \in CancelledBy(Fired(p, c)) => orders'[i].status = "CANCELED"
               /\ i \in Sold(Fired(p, c)) => orders'[i].status = "FILLED"
               /\ i \in Fired(p, c) => orders'[i].status # "NEW"
               /\ i \notin Fired(p, c) /\ i \notin CancelledBy(Fired(p, c))
                     => orders'[i].status = orders[i].status
         /\ pending' = [pending EXCEPT ![p] = @ \ Completed(p, Fired(p, c))]
         /\ \A i \in Completed(p, Fired(p, c)) : orders'[i].status # "NEW"
<1> DEFINE fired == Fired(p, c)
           can == CancelledBy(fired)
<1>1. fired \in SUBSET DOMAIN orders
  BY FiredWaits
<1>2. /\ orders' = [i \in DOMAIN orders |-> Settled(i, fired)]
      /\ pending' = [pending EXCEPT ![p] = @ \ Completed(p, fired)]
  BY DEF OnCandle
<1>3. /\ Kept /\ DOMAIN orders' = DOMAIN orders
      /\ \A i \in DOMAIN orders :
            orders'[i].status = IF i \in can THEN "CANCELED"
                                ELSE IF i \in fired THEN "FILLED" ELSE orders[i].status
  <2> HIDE DEF fired
  <2> QED BY <1>1, <1>2, SettledTyped
<1>4. \A i \in Sold(fired) : i \notin can /\ i \in fired
  BY FiredOnce DEF Sold
<1>5. ASSUME NEW i \in Completed(p, fired) PROVE orders'[i].status # "NEW"
  <2>1. /\ i \in pending[p] /\ i \in DOMAIN orders
        /\ i \in fired \/ ~New(i) \/ \E j \in Siblings(i) \cap Sold(fired) : j < i
    BY DEF Completed, PendingIsIndex
  <2>2. CASE i \in fired
    BY <1>3, <2>1, <2>2
  <2>3. CASE ~New(i)
    BY <1>3, <2>1, <2>3 DEF New
  <2>4. CASE \E j \in Siblings(i) \cap Sold(fired) : j < i
    <3>1. PICK j \in Siblings(i) : j \in Sold(fired)
      BY <2>4
    <3>2. i \in Siblings(j)
      BY <2>1, OneSibling
    <3>3. i \in can
      BY <3>1, <3>2 DEF CancelledBy
    <3> QED BY <1>3, <2>1, <3>3
  <2> QED BY <2>1, <2>2, <2>3, <2>4
<1> HIDE DEF fired, can
<1>6. \A i \in DOMAIN orders :
         /\ i \in can => orders'[i].status = "CANCELED"
         /\ i \in Sold(fired) => orders'[i].status = "FILLED"
         /\ i \in fired => orders'[i].status # "NEW"
         /\ i \notin fired /\ i \notin can => orders'[i].status = orders[i].status
  BY <1>3, <1>4
<1> QED BY <1>2, <1>3, <1>5, <1>6 DEF fired, can

(* A candle keeps the invariant.                                            *)
LEMMA CandleKeepsInv ==
  ASSUME WalletInv, NEW p \in Pairs, NEW c \in Candles, OnCandle(p, c)
  PROVE  WalletInv'
<1> DEFINE fired == Fired(p, c)
           can == CancelledBy(fired)
<1>0. WalletTypeOK /\ OrdersAreLegs /\ PendingIsIndex /\ GroupExclusive
  BY DEF WalletInv
<1>1. WalletTypeOK'
  BY <1>0, CandleTyped
<1>2. /\ Kept /\ DOMAIN orders' = DOMAIN orders
      /\ \A i \in DOMAIN orders :
            /\ i \in can => orders'[i].status = "CANCELED"
            /\ i \in Sold(fired) => orders'[i].status = "FILLED"
            /\ i \in fired => orders'[i].status # "NEW"
            /\ i \notin fired /\ i \notin can => orders'[i].status = orders[i].status
      /\ pending' = [pending EXCEPT ![p] = @ \ Completed(p, fired)]
      /\ \A i \in Completed(p, fired) : orders'[i].status # "NEW"
  BY <1>0, CandleOrders
<1>3. OrdersAreLegs'
  BY <1>0, <1>2, LegsKept
<1>4. PendingIsIndex'
  <2>1. \A i \in DOMAIN orders : orders'[i].status = "NEW" => New(i)
    <3> HIDE DEF fired, can
    <3> QED BY <1>2 DEF New
  <2> DEFINE gone == Completed(p, fired)
  <2>2. pending' = [pending EXCEPT ![p] = @ \ gone] /\ \A i \in gone : orders'[i].status # "NEW"
    BY <1>2
  <2> HIDE DEF gone
  <2> QED BY <1>0, <1>2, <2>1, <2>2, IndexShrinks
<1>5. ASSUME NEW i \in DOMAIN orders, orders'[i].status = "FILLED", orders'[i].side = "SELL"
      PROVE  \A j \in Siblings(i)' : orders'[j].status = "CANCELED"
  <2>1. Siblings(i)' = Siblings(i) /\ Siblings(i) \subseteq DOMAIN orders
    BY <1>0, <1>2, SiblingsSame
  <2>2. orders[i].side = "SELL"
    <3>1. orders[i] \in OrderType /\ orders'[i] = [orders[i] EXCEPT !.status = orders'[i].status]
      BY <1>0, <1>2, OrdersTyped DEF Kept
    <3> QED BY <1>5, <3>1 DEF OrderType
  <2>3. CASE i \in fired
    <3>1. Siblings(i) \subseteq can
      BY <2>2, <2>3 DEF CancelledBy, Sold
    <3> HIDE DEF fired, can
    <3> QED BY <1>2, <2>1, <3>1
  <2>4. CASE i \notin fired
    <3>1. i \notin can /\ orders[i].status = "FILLED"
      <4> HIDE DEF fired, can
      <4> QED BY <1>2, <1>5, <2>4
    <3>2. \A j \in Siblings(i) : orders[j].status = "CANCELED"
      BY <1>0, <2>2, <3>1 DEF GroupExclusive, Filled
    <3>3. \A j \in Siblings(i) : j \notin fired
      BY <1>0, <3>2, FiredWaits DEF New
    <3> HIDE DEF fired, can
    <3> QED BY <1>2, <2>1, <3>2, <3>3
  <2> QED BY <2>3, <2>4
<1>6. Filled("SELL")' = {i \in DOMAIN orders' : orders'[i].status = "FILLED" /\ orders'[i].side = "SELL"}
  BY DEF Filled
<1>7. GroupExclusive'
  BY <1>2, <1>5, <1>6 DEF GroupExclusive
<1> QED BY <1>1, <1>3, <1>4, <1>7 DEF WalletInv

(* So does a cancellation.                                                  *)
LEMMA CancelKeepsInv ==
  ASSUME WalletInv, NEW x \in DOMAIN orders, CancelWaiting(x)
  PROVE  WalletInv'
<1>0. WalletTypeOK /\ OrdersAreLegs /\ PendingIsIndex /\ GroupExclusive /\ New(x)
  BY DEF WalletInv, CancelWaiting, Cancel
<1>1. /\ WalletTypeOK' /\ Kept /\ DOMAIN orders' = DOMAIN orders
      /\ orders'[x].status = "CANCELED"
      /\ \A j \in DOMAIN orders : j # x => orders'[j] = orders[j]
  BY <1>0, CancelTyped
<1>2. OrdersAreLegs'
  BY <1>0, <1>1, LegsKept
<1>3. PendingIsIndex'
  <2>1. pending' = pending
    BY DEF CancelWaiting, Cancel
  <2>2. PICK p \in Pairs : TRUE
    BY WalletAssumption
  <2> DEFINE gone == {}
  <2>3. pending' = [pending EXCEPT ![p] = @ \ gone] /\ \A i \in gone : orders'[i].status # "NEW"
    BY <1>0, <2>1 DEF WalletTypeOK
  <2>4. \A i \in DOMAIN orders : orders'[i].status = "NEW" => New(i)
    BY <1>1 DEF New
  <2> HIDE DEF gone
  <2> QED BY <1>0, <1>1, <2>3, <2>4, IndexShrinks
<1>4. ASSUME NEW i \in DOMAIN orders, orders'[i].status = "FILLED", orders'[i].side = "SELL"
      PROVE  \A j \in Siblings(i)' : orders'[j].status = "CANCELED"
  <2>1. Siblings(i)' = Siblings(i) /\ Siblings(i) \subseteq DOMAIN orders
    BY <1>0, <1>1, SiblingsSame
  <2>2. i # x /\ orders[i].status = "FILLED" /\ orders[i].side = "SELL"
    BY <1>1, <1>4
  <2>3. \A j \in Siblings(i) : orders[j].status = "CANCELED"
    BY <2>2 DEF WalletInv, GroupExclusive, Filled
  <2> QED BY <1>1, <2>1, <2>3
<1>5. Filled("SELL")' = {i \in DOMAIN orders' : orders'[i].status = "FILLED" /\ orders'[i].side = "SELL"}
  BY DEF Filled
<1>6. GroupExclusive'
  BY <1>1, <1>4, <1>5 DEF GroupExclusive
<1> QED BY <1>1, <1>2, <1>3, <1>6 DEF WalletInv

(* So does a new order.                                                     *)
LEMMA PlaceKeepsInv ==
  ASSUME WalletInv, NEW p \in Pairs, NEW o \in OrderType, PlaceOne(p, o) \/ Trade(p, o)
  PROVE  WalletInv'
<1> DEFINE new == {NextIndex(1)}
<1>0. WalletTypeOK /\ OrdersAreLegs /\ PendingIsIndex /\ GroupExclusive
  BY DEF WalletInv
<1>1. /\ WalletTypeOK' /\ Grown(new) /\ orders'[NextIndex(1)] = o
      /\ o.group = 0 /\ o.pair = p
      /\ \/ pending' = [pending EXCEPT ![p] = @ \cup new]
         \/ pending' = pending /\ o.status # "NEW"
  <2>1. CASE PlaceOne(p, o)
    BY <1>0, <2>1, PlaceOneTyped DEF PlaceOne
  <2>2. CASE Trade(p, o)
    BY <1>0, <2>2, TradeTyped DEF Trade
  <2> QED BY <2>1, <2>2
<1>2. \A i \in new : orders'[i].group = 0 /\ orders'[i].pair = p
  BY <1>1
<1>3. \/ pending' = [pending EXCEPT ![p] = @ \cup new]
      \/ pending' = pending /\ \A i \in new : orders'[i].status # "NEW"
  BY <1>1
<1> HIDE DEF new
<1>4. OrdersAreLegs'
  BY <1>0, <1>1, <1>2, LegsGrow
<1>5. PendingIsIndex'
  BY <1>0, <1>1, <1>2, <1>3, IndexGrows
<1>6. GroupExclusive'
  BY <1>0, <1>1, <1>2, ExclusiveGrows
<1> QED BY <1>1, <1>4, <1>5, <1>6 DEF WalletInv

(* And an OCO order.                                                        *)
LEMMA OcoKeepsInv ==
  ASSUME WalletInv, NEW p \in Pairs, NEW o \in OrderType, NEW leg \in OrderType, PlaceTwo(p, o, leg)
  PROVE  WalletInv'
<1> DEFINE new == {NextIndex(1), NextIndex(2)}
<1>0. WalletTypeOK /\ OrdersAreLegs /\ PendingIsIndex /\ GroupExclusive
  BY DEF WalletInv
<1>1. /\ WalletTypeOK' /\ Grown(new) /\ orders'[NextIndex(1)] = o /\ orders'[NextIndex(2)] = leg
      /\ pending' = [pending EXCEPT ![p] = @ \cup new]
  BY <1>0, PlaceTwoTyped
<1>2. \A x \in {o, leg} : /\ x.pair = p /\ x.side = o.side /\ x.status = "NEW" /\ x.qty = o.qty
                          /\ x.group = NextIndex(1)
  BY DEF PlaceTwo, NextIndex
<1>3. \A i \in new : orders'[i] \in {o, leg}
  BY <1>1
<1>4. NextIndex(1) > Len(orders)
  BY <1>0, OrdersTyped DEF NextIndex
<1>5. /\ \A i \in new : /\ orders'[i].group > Len(orders) /\ orders'[i].status = "NEW"
                        /\ orders'[i].pair = p
      /\ \A i, j \in new : /\ orders'[i].group = NextIndex(1)
                           /\ orders'[j].pair = orders'[i].pair
                           /\ orders'[j].side = orders'[i].side /\ orders'[j].qty = orders'[i].qty
  <2> HIDE DEF new
  <2> QED BY <1>2, <1>3, <1>4
<1>6. new = {NextIndex(1), NextIndex(2)}
  OBVIOUS
<1> HIDE DEF new
<1>7. OrdersAreLegs'
  BY <1>0, <1>1, <1>5, <1>6, LegsGrow
<1>8. PendingIsIndex'
  BY <1>0, <1>1, <1>5, IndexGrows
<1>9. GroupExclusive'
  BY <1>0, <1>1, <1>5, ExclusiveGrows
<1> QED BY <1>1, <1>7, <1>8, <1>9 DEF WalletInv

(* Every wallet starts with it.                                             *)
LEMMA WalletInvInit == Init => WalletInv
<1> SUFFICES ASSUME Init PROVE WalletInv
  OBVIOUS
<1>1. orders = <<>> /\ orders \in Seq(OrderType) /\ DOMAIN orders = {}
  BY DEF Init
<1>2. WalletTypeOK
  BY <1>1, WalletAssumption DEF Init, WalletTypeOK, BalanceType
<1>3. OrdersAreLegs /\ GroupExclusive
  BY <1>1 DEF OrdersAreLegs, GroupExclusive, Filled
<1>4. PendingIsIndex
  BY <1>1 DEF Init, PendingIsIndex
<1> QED BY <1>2, <1>3, <1>4 DEF WalletInv

(* And every step keeps it.                                                 *)
LEMMA WalletInvNext == WalletInv /\ [Next]_vars => WalletInv'
<1> SUFFICES ASSUME WalletInv, [Next]_vars PROVE WalletInv'
  OBVIOUS
<1>1. CASE UNCHANGED vars
  BY <1>1 DEF WalletInv, WalletTypeOK, OrdersAreLegs, PendingIsIndex, GroupExclusive, Filled, Siblings,
              New, vars, balVars
<1>2. CASE Next
  <2>1. Step
    BY <1>2, NextIsStep DEF WalletInv
  <2>2. CASE \E p \in Pairs, o \in OrderType : PlaceOne(p, o) \/ Trade(p, o)
    BY <2>2, PlaceKeepsInv
  <2>3. CASE \E p \in Pairs, o \in OrderType, leg \in OrderType : PlaceTwo(p, o, leg)
    BY <2>3, OcoKeepsInv
  <2>4. CASE \E p \in Pairs, c \in Candles : OnCandle(p, c)
    BY <2>4, CandleKeepsInv
  <2>5. CASE \E i \in DOMAIN orders : CancelWaiting(i)
    BY <2>5, CancelKeepsInv
  <2> QED BY <2>1, <2>2, <2>3, <2>4, <2>5 DEF Step
<1> QED BY <1>1, <1>2

(* The invariant holds for any strategy, any pairs and any prices.          *)
THEOREM WalletInvCorrect == Spec => []WalletInv
BY WalletInvInit, WalletInvNext, PTL DEF Spec

(* Once a leg of an OCO sale has filled, the other one is cancelled and     *)
(* stays so (the loop over pendingOrders in OnCandle).                      *)
THEOREM GroupExclusiveCorrect == Spec => []GroupExclusive
<1>1. WalletInv => GroupExclusive
  BY DEF WalletInv
<1> QED BY <1>1, WalletInvCorrect, PTL

(* A candle fills what it reaches, or the other leg.                        *)
LEMMA ReachedIsFilled ==
  ASSUME WalletInv, NEW p \in Pairs, NEW c \in Candles, OnCandle(p, c),
         NEW i \in DOMAIN orders, New(i), orders[i].pair = p, Reached(orders[i], c)
  PROVE  \E j \in Siblings(i) \cup {i} : orders'[j].status = "FILLED"
<1> DEFINE fired == Fired(p, c)
           reached == {k \in pending[p] : New(k) /\ Reached(orders[k], c)}
<1>0. WalletTypeOK /\ OrdersAreLegs /\ PendingIsIndex
  BY DEF WalletInv
<1>1. fired = {k \in reached : ~ \E j \in reached \cap Siblings(k) : j < k /\ orders[j].side = "SELL"}
  BY DEF Fired
<1>2. i \in reached
  BY <1>0 DEF PendingIsIndex
<1>3. /\ fired \in SUBSET DOMAIN orders
      /\ \A j \in DOMAIN orders :
            orders'[j].status = IF j \in CancelledBy(fired) THEN "CANCELED"
                                ELSE IF j \in fired THEN "FILLED" ELSE orders[j].status
  <2>1. fired \in SUBSET DOMAIN orders /\ orders' = [j \in DOMAIN orders |-> Settled(j, fired)]
    BY <1>0, FiredWaits DEF OnCandle
  <2> HIDE DEF fired
  <2> QED BY <1>0, <2>1, SettledTyped
<1>4. CASE i \in fired
  <2>1. i \notin CancelledBy(fired)
    <3>1. ASSUME NEW k \in Sold(fired), i \in Siblings(k) PROVE FALSE
      <4>1. k \in DOMAIN orders
        BY <1>3 DEF Sold
      <4>2. i \notin fired
        BY <1>0, <3>1, FiredOnce
      <4> QED BY <1>4, <4>2
    <3> QED BY <3>1 DEF CancelledBy
  <2> HIDE DEF fired
  <2> QED BY <1>3, <1>4, <2>1
<1>5. CASE i \notin fired
  <2>1. PICK j \in Siblings(i) : j \in reached /\ j < i /\ orders[j].side = "SELL"
    BY <1>1, <1>2, <1>5
  <2>2. j \in DOMAIN orders /\ Siblings(j) = {i} /\ i \in Int /\ j \in Int
    BY <1>0, <2>1, OneSibling
  <2>3. j \in fired
    <3>1. ~(i < j)
      BY <2>1, <2>2
    <3> HIDE DEF reached, fired
    <3> QED BY <1>1, <2>1, <2>2, <3>1
  <2>4. j \notin CancelledBy(fired)
    BY <1>0, <2>1, <2>3, FiredOnce DEF Sold
  <2> HIDE DEF fired
  <2>5. orders'[j].status = "FILLED"
    BY <1>3, <2>2, <2>3, <2>4
  <2> QED BY <2>1, <2>5
<1> QED BY <1>4, <1>5

(* No order is forgotten: a candle that reaches an order that waits fills   *)
(* it or the other leg, whatever was cancelled or filled before (OnCandle   *)
(* visits what pendingOrders holds, and that is every order that waits).    *)
THEOREM FillsReachedCorrect == Spec => CandleFillsReached
<1> DEFINE A == \A p \in Pairs, c \in Candles :
                   (\E i \in DOMAIN orders :
                       /\ New(i) /\ orders[i].pair = p /\ Reached(orders[i], c)
                       /\ \A j \in Siblings(i) \cup {i} : orders'[j].status # "FILLED") => ~OnCandle(p, c)
<1>1. WalletInv => A
  BY ReachedIsFilled
<1>2. [][A]_vars => CandleFillsReached
  BY DEF CandleFillsReached
<1> HIDE DEF A
<1> QED BY <1>1, <1>2, WalletInvCorrect, PTL

-----------------------------------------------------------------------------
(* Strategies that do not short.                                            *)

(* What validateFunds computes when the asset is there.                     *)
LEMMA LongFunds ==
  ASSUME WalletTypeOK, NEW p \in Pairs, NEW side \in OrderSides, NEW amount \in Nat, NEW value \in Nat,
         assets[p].free >= 0, side = "SELL" => amount <= assets[p].free
  PROVE  /\ side = "SELL" =>
               /\ LockedAsset(p, side, amount) = amount
               /\ LockedQuote(p, side, amount, value) = 0
               /\ Uncovered(p, side, amount) = assets[p].free - amount
         /\ side = "BUY" =>
               /\ LockedAsset(p, side, amount) = 0
               /\ LockedQuote(p, side, amount, value) = amount * value
               /\ Uncovered(p, side, amount) = assets[p].free
               /\ HasFunds(p, side, amount, value) => quote.free >= amount * value
<1> DEFINE f == assets[p].free
<1>1. f \in Int /\ f >= 0 /\ avgShort[p] \in Int /\ quote.free \in Int
  BY DEF WalletTypeOK, BalanceType
<1>2. Positive(f) = f /\ Positive(0 - f) = 0
  <2>1. Positive(f) = (IF f >= 0 THEN f ELSE 0)
    BY <1>1, PositiveIs
  <2>2. 0 - f \in Int /\ (0 - f >= 0 => 0 - f = 0)
    BY <1>1
  <2>3. Positive(0 - f) = (IF 0 - f >= 0 THEN 0 - f ELSE 0)
    BY <2>2, PositiveIs
  <2> QED BY <1>1, <2>1, <2>2, <2>3
<1>3. LiquidShortValue(p, value) = 0
  BY <1>1, <1>2 DEF LiquidShortValue
<1>4. side = "SELL" => Min({f, amount}) = amount
  <2> HIDE DEF f
  <2>1. f \in Int /\ amount \in Int
    BY <1>1
  <2>2. Min({f, amount}) = (IF f <= amount THEN f ELSE amount)
    BY <2>1, TwoNumbers
  <2> QED BY <1>1, <2>2 DEF f
<1>5. Min({0, amount}) = 0 /\ Min({f, 0}) = 0
  <2> HIDE DEF f
  <2>1. 0 \in Int /\ amount \in Int
    OBVIOUS
  <2>2. Min({0, amount}) = (IF 0 <= amount THEN 0 ELSE amount)
    BY <2>1, TwoNumbers
  <2>3. Min({f, 0}) = (IF f <= 0 THEN f ELSE 0)
    BY <1>1, <2>1, TwoNumbers
  <2> QED BY <1>1, <2>2, <2>3
<1>6. CASE side = "SELL"
  <2>1. LockedAsset(p, side, amount) = amount
    BY <1>2, <1>4, <1>6 DEF LockedAsset
  <2>2. LockedQuote(p, side, amount, value) = (amount - amount) * value - 0
    BY <1>6, <2>1 DEF LockedQuote
  <2>3. Uncovered(p, side, amount) = f - amount
    BY <1>6, <2>1 DEF Uncovered
  <2>4. (amount - amount) * value - 0 = 0
    OBVIOUS
  <2> QED BY <1>6, <2>1, <2>2, <2>3, <2>4
<1>7. CASE side = "BUY"
  <2>1. LockedAsset(p, side, amount) = 0
    BY <1>2, <1>5, <1>7 DEF LockedAsset
  <2>2. LockedQuote(p, side, amount, value) = (amount - 0) * value - 0
    BY <1>3, <1>7, <2>1 DEF LockedQuote
  <2>3. Uncovered(p, side, amount) = f + 0
    BY <1>7, <2>1 DEF Uncovered
  <2>4. HasFunds(p, side, amount, value) <=> quote.free + 0 >= (amount + 0) * value
    BY <1>3, <1>5, <1>7 DEF HasFunds
  <2>5. amount - 0 = amount /\ amount + 0 = amount
    OBVIOUS
  <2>6. amount * value \in Int
    OBVIOUS
  <2>7. LockedQuote(p, side, amount, value) = amount * value
    BY <2>2, <2>5, <2>6
  <2>8. HasFunds(p, side, amount, value) => quote.free >= amount * value
    BY <1>1, <2>4, <2>5, <2>6
  <2> QED BY <1>1, <1>7, <2>1, <2>3, <2>7, <2>8
<1> QED BY <1>6, <1>7 DEF OrderSides

(* What waits is locked: the quantity of a sale, the cost of a buy.         *)
LEMMA LongLock ==
  ASSUME WalletTypeOK, NEW p \in Pairs, NEW side \in OrderSides, NEW amount \in Nat, NEW value \in Nat,
         assets[p].free >= 0, side = "SELL" => amount <= assets[p].free,
         LockFunds(p, side, amount, value)
  PROVE  /\ \A q \in Pairs :
               /\ assets'[q].free = assets[q].free - (IF side = "SELL" /\ q = p THEN amount ELSE 0)
               /\ assets'[q].lock = assets[q].lock + (IF side = "SELL" /\ q = p THEN amount ELSE 0)
         /\ quote'.free = quote.free - (IF side = "BUY" THEN amount * value ELSE 0)
         /\ quote'.lock = quote.lock + (IF side = "BUY" THEN amount * value ELSE 0)
         /\ side = "BUY" => quote.free >= amount * value
<1> DEFINE la == LockedAsset(p, side, amount)
           lq == LockedQuote(p, side, amount, value)
           un == Uncovered(p, side, amount)
<1>1. /\ side = "SELL" => la = amount /\ lq = 0 /\ un = assets[p].free - amount
      /\ side = "BUY" => /\ la = 0 /\ lq = amount * value /\ un = assets[p].free
                         /\ HasFunds(p, side, amount, value) => quote.free >= amount * value
  BY LongFunds
<1>2. /\ HasFunds(p, side, amount, value)
      /\ assets' = [assets EXCEPT ![p] = [free |-> un, lock |-> @.lock + la]]
      /\ quote' = [free |-> quote.free - lq, lock |-> quote.lock + lq]
  BY DEF LockFunds
<1> HIDE DEF la, lq, un
<1>3. /\ quote.free \in Int /\ quote.lock \in Int /\ assets \in [Pairs -> BalanceType]
      /\ \A q \in Pairs : assets[q].free \in Int /\ assets[q].lock \in Int
      /\ amount * value \in Int /\ side \in {"BUY", "SELL"}
  BY DEF WalletTypeOK, BalanceType, OrderSides
<1>4. quote'.free = quote.free - lq /\ quote'.lock = quote.lock + lq
  BY <1>2
<1>5. /\ assets'[p].free = un /\ assets'[p].lock = assets[p].lock + la
      /\ \A q \in Pairs : q # p => assets'[q] = assets[q]
  BY <1>2, <1>3
<1>6. \A q \in Pairs :
         /\ assets'[q].free = assets[q].free - (IF side = "SELL" /\ q = p THEN amount ELSE 0)
         /\ assets'[q].lock = assets[q].lock + (IF side = "SELL" /\ q = p THEN amount ELSE 0)
  BY <1>1, <1>3, <1>5
<1>7. /\ quote'.free = quote.free - (IF side = "BUY" THEN amount * value ELSE 0)
      /\ quote'.lock = quote.lock + (IF side = "BUY" THEN amount * value ELSE 0)
  BY <1>1, <1>3, <1>4
<1> QED BY <1>1, <1>2, <1>6, <1>7

(* What trades at once changes hands.                                       *)
LEMMA LongFill ==
  ASSUME WalletTypeOK, NEW p \in Pairs, NEW side \in OrderSides, NEW amount \in Nat, NEW value \in Nat,
         assets[p].free >= 0, side = "SELL" => amount <= assets[p].free,
         FillFunds(p, side, amount, value)
  PROVE  /\ \A q \in Pairs :
               /\ assets'[q].free = assets[q].free + (IF q # p THEN 0
                                                      ELSE IF side = "SELL" THEN 0 - amount ELSE amount)
               /\ assets'[q].lock = assets[q].lock
         /\ quote'.free = quote.free + (IF side = "BUY" THEN 0 - amount * value ELSE amount * value)
         /\ quote'.lock = quote.lock
         /\ side = "BUY" => quote.free >= amount * value
<1> DEFINE la == LockedAsset(p, side, amount)
           lq == LockedQuote(p, side, amount, value)
           un == Uncovered(p, side, amount)
<1>1. /\ side = "SELL" => la = amount /\ lq = 0 /\ un = assets[p].free - amount
      /\ side = "BUY" => /\ la = 0 /\ lq = amount * value /\ un = assets[p].free
                         /\ HasFunds(p, side, amount, value) => quote.free >= amount * value
  BY LongFunds
<1>2. /\ HasFunds(p, side, amount, value)
      /\ side = "SELL" =>
            /\ assets' = [assets EXCEPT ![p].free = IF lq > 0 THEN un - amount ELSE un]
            /\ quote' = [quote EXCEPT !.free = @ - lq + Proceeds(amount, value, lq)]
      /\ side # "SELL" =>
            /\ assets' = [assets EXCEPT ![p].free = un + amount - la]
            /\ quote' = [quote EXCEPT !.free = @ - lq]
  BY DEF FillFunds
<1> HIDE DEF la, lq, un
<1>3. /\ quote \in BalanceType /\ quote.free \in Int /\ quote.lock \in Int
      /\ assets \in [Pairs -> BalanceType]
      /\ \A q \in Pairs : assets[q].free \in Int /\ assets[q].lock \in Int
      /\ amount * value \in Int /\ side \in {"BUY", "SELL"}
  BY DEF WalletTypeOK, BalanceType, OrderSides
<1>4. \A x \in Int : [assets EXCEPT ![p].free = x][p] = [free |-> x, lock |-> assets[p].lock]
  BY <1>3 DEF BalanceType
<1>5. \A x \in Int : \A q \in Pairs : q # p => [assets EXCEPT ![p].free = x][q] = assets[q]
  BY <1>3
<1>6. CASE side = "SELL"
  <2>1. lq = 0 /\ un \in Int /\ Proceeds(amount, value, lq) = amount * value
    BY <1>1, <1>3, <1>6 DEF Proceeds
  <2>2. /\ assets' = [assets EXCEPT ![p].free = un]
        /\ quote' = [quote EXCEPT !.free = @ - 0 + amount * value]
    BY <1>2, <1>6, <2>1
  <2>3. /\ assets'[p] = [free |-> un, lock |-> assets[p].lock]
        /\ \A q \in Pairs : q # p => assets'[q] = assets[q]
    BY <1>4, <1>5, <2>1, <2>2
  <2>4. quote'.free = quote.free - 0 + amount * value /\ quote'.lock = quote.lock
    BY <1>3, <2>2 DEF BalanceType
  <2> QED BY <1>1, <1>3, <1>6, <2>3, <2>4
<1>7. CASE side = "BUY"
  <2>1. lq = amount * value /\ la = 0 /\ un = assets[p].free
    BY <1>1, <1>7
  <2>2. un + amount - la \in Int
    BY <1>3, <2>1
  <2>3. /\ assets' = [assets EXCEPT ![p].free = un + amount - la]
        /\ quote' = [quote EXCEPT !.free = @ - lq]
    BY <1>2, <1>7
  <2>4. /\ assets'[p] = [free |-> un + amount - la, lock |-> assets[p].lock]
        /\ \A q \in Pairs : q # p => assets'[q] = assets[q]
    BY <1>4, <1>5, <2>2, <2>3
  <2>5. quote'.free = quote.free - lq /\ quote'.lock = quote.lock
    BY <1>3, <2>3 DEF BalanceType
  <2>6. quote.free >= amount * value
    BY <1>1, <1>2, <1>7
  <2> QED BY <1>3, <1>7, <2>1, <2>4, <2>5, <2>6
<1> QED BY <1>3, <1>6, <1>7

-----------------------------------------------------------------------------
(* Sums over orders that stay, and with an order more.                      *)
AmountsKept ==
    \A i \in DOMAIN orders : /\ i \in DOMAIN orders'
                             /\ orders'[i].qty = orders[i].qty /\ orders'[i].price = orders[i].price

(* No step that keeps the orders changes an amount or a price.              *)
LEMMA KeptAmounts ==
  ASSUME WalletTypeOK, Kept
  PROVE  AmountsKept
<1> SUFFICES ASSUME NEW i \in DOMAIN orders
             PROVE  /\ i \in DOMAIN orders'
                    /\ orders'[i].qty = orders[i].qty /\ orders'[i].price = orders[i].price
  BY DEF AmountsKept
<1>1. orders[i] \in OrderType
  BY OrdersTyped
<1>2. i \in DOMAIN orders' /\ orders'[i] = [orders[i] EXCEPT !.status = orders'[i].status]
  BY DEF Kept
<1> QED BY <1>1, <1>2 DEF OrderType

(* Sums over orders that stay are what they were.                           *)
LEMMA SumsKept ==
  ASSUME WalletTypeOK, AmountsKept, NEW X \in SUBSET DOMAIN orders
  PROVE  /\ SumFunctionOnSet(Quantity', X) = SumFunctionOnSet(Quantity, X)
         /\ SumFunctionOnSet(Cost', X) = SumFunctionOnSet(Cost, X)
         /\ IntOn(Quantity', X) /\ IntOn(Cost', X)
<1>1. IsFiniteSet(X) /\ IntOn(Quantity, X) /\ IntOn(Cost, X)
  BY SumsTyped
<1>2. \A i \in X : Quantity[i] = Quantity'[i] /\ Cost[i] = Cost'[i]
  BY DEF AmountsKept, Quantity, Cost
<1>3. SumFunctionOnSet(Quantity, X) = SumFunctionOnSet(Quantity', X)
  BY <1>1, <1>2, SumSame
<1>4. SumFunctionOnSet(Cost, X) = SumFunctionOnSet(Cost', X)
  BY <1>1, <1>2, SumSame
<1>5. IntOn(Quantity', X) /\ IntOn(Cost', X)
  BY <1>1, <1>2 DEF IntOn
<1> QED BY <1>3, <1>4, <1>5

(* A new order adds its quantity and its cost to a sum.                     *)
LEMMA SumsGrow ==
  ASSUME WalletTypeOK, WalletTypeOK', AmountsKept, NEW X \in SUBSET DOMAIN orders,
         NEW m \in DOMAIN orders', m \notin DOMAIN orders
  PROVE  /\ SumFunctionOnSet(Quantity', X \cup {m}) = SumFunctionOnSet(Quantity, X) + orders'[m].qty
         /\ SumFunctionOnSet(Cost', X \cup {m})
               = SumFunctionOnSet(Cost, X) + orders'[m].price * orders'[m].qty
<1>1. /\ IsFiniteSet(X) /\ m \notin X
      /\ IntOn(Quantity', X) /\ IntOn(Cost', X)
      /\ SumFunctionOnSet(Quantity', X) = SumFunctionOnSet(Quantity, X)
      /\ SumFunctionOnSet(Cost', X) = SumFunctionOnSet(Cost, X)
  BY SumsTyped, SumsKept
<1>2. Quantity'[m] = orders'[m].qty /\ Cost'[m] = orders'[m].price * orders'[m].qty
  BY DEF Quantity, Cost
<1>3. Quantity'[m] \in Int /\ Cost'[m] \in Int
  <2>1. \A s \in Seq(OrderType) : \A i \in DOMAIN s : s[i] \in OrderType
    BY ElementOfSeq, LenProperties
  <2>2. orders'[m] \in OrderType
    BY <2>1 DEF WalletTypeOK
  <2>3. orders'[m].qty \in Nat /\ orders'[m].price \in Nat
    BY <2>2 DEF OrderType
  <2>4. \A x, y \in Nat : x * y \in Int
    OBVIOUS
  <2> QED BY <1>2, <2>3, <2>4
<1>4. SumFunctionOnSet(Quantity', X \cup {m}) = SumFunctionOnSet(Quantity', X) + Quantity'[m]
  BY <1>1, <1>3, SumAdd
<1>5. SumFunctionOnSet(Cost', X \cup {m}) = SumFunctionOnSet(Cost', X) + Cost'[m]
  BY <1>1, <1>3, SumAdd
<1> QED BY <1>1, <1>2, <1>4, <1>5

(* The sums are over orders that there are.                                 *)
LEMMA SetsTyped ==
  /\ \A side \in OrderSides : Filled(side) \in SUBSET DOMAIN orders /\ Waiting(side) \in SUBSET DOMAIN orders
  /\ \A side \in OrderSides, p \in Pairs : FilledOf(side, p) \in SUBSET DOMAIN orders
  /\ \A p \in Pairs : WaitingSales(p) \in SUBSET DOMAIN orders
BY DEF Filled, Waiting, FilledOf, WaitingSales

(* An order of no group that is placed or has traded.                       *)
LEMMA OneMoreSets ==
  ASSUME WalletTypeOK, WalletTypeOK', OrdersAreLegs, NEW m, Grown({m}), orders'[m].group = 0
  PROVE  /\ \A side \in OrderSides :
               /\ Filled(side)' = IF orders'[m].status = "FILLED" /\ orders'[m].side = side
                                  THEN Filled(side) \cup {m} ELSE Filled(side)
               /\ Waiting(side)' = IF orders'[m].status = "NEW" /\ orders'[m].side = side
                                   THEN Waiting(side) \cup {m} ELSE Waiting(side)
<1>1. /\ DOMAIN orders' = DOMAIN orders \cup {m}
      /\ \A i \in DOMAIN orders : orders'[i] = orders[i]
  BY DEF Grown
<1>2. /\ \A i \in DOMAIN orders : Siblings(i)' = Siblings(i) /\ Siblings(i) \subseteq DOMAIN orders
      /\ Siblings(m)' = {}
  <2> DEFINE new == {m}
  <2>1. Grown(new) /\ (\A i \in new : orders'[i].group = 0 \/ orders'[i].group > Len(orders)) /\ m \in new
    OBVIOUS
  <2> HIDE DEF new
  <2> QED BY <2>1, SiblingsKept DEF Siblings
<1>3. m \notin DOMAIN orders
  BY OrdersTyped DEF Grown
<1> SUFFICES ASSUME NEW side \in OrderSides
             PROVE  /\ Filled(side)' = IF orders'[m].status = "FILLED" /\ orders'[m].side = side
                                       THEN Filled(side) \cup {m} ELSE Filled(side)
                    /\ Waiting(side)' = IF orders'[m].status = "NEW" /\ orders'[m].side = side
                                        THEN Waiting(side) \cup {m} ELSE Waiting(side)
  OBVIOUS
<1>4. /\ Filled(side)' = {i \in DOMAIN orders' : orders'[i].status = "FILLED" /\ orders'[i].side = side}
      /\ Waiting(side)' = {i \in DOMAIN orders' : /\ orders'[i].status = "NEW" /\ orders'[i].side = side
                                                  /\ \A j \in Siblings(i)' : orders'[j].status = "NEW" => i < j}
  BY DEF Filled, Waiting, New
<1>5. \A i \in DOMAIN orders : /\ i \in Filled(side)' <=> i \in Filled(side)
                               /\ i \in Waiting(side)' <=> i \in Waiting(side)
  BY <1>1, <1>2, <1>4 DEF Filled, Waiting, New
<1>6. /\ m \in Filled(side)' <=> orders'[m].status = "FILLED" /\ orders'[m].side = side
      /\ m \in Waiting(side)' <=> orders'[m].status = "NEW" /\ orders'[m].side = side
  BY <1>1, <1>2, <1>4
<1>7. Filled(side)' \subseteq DOMAIN orders \cup {m} /\ Waiting(side)' \subseteq DOMAIN orders \cup {m}
  BY <1>1, <1>4
<1>8. Filled(side) \subseteq DOMAIN orders /\ Waiting(side) \subseteq DOMAIN orders
  BY SetsTyped
<1>9. Filled(side)' = IF orders'[m].status = "FILLED" /\ orders'[m].side = side
                      THEN Filled(side) \cup {m} ELSE Filled(side)
  BY <1>3, <1>5, <1>6, <1>7, <1>8
<1>10. Waiting(side)' = IF orders'[m].status = "NEW" /\ orders'[m].side = side
                        THEN Waiting(side) \cup {m} ELSE Waiting(side)
  BY <1>3, <1>5, <1>6, <1>7, <1>8
<1> QED BY <1>9, <1>10

(* These are amounts.                                                       *)
LEMMA BooksTyped ==
  ASSUME WalletTypeOK
  PROVE  /\ Spent \in Nat /\ Earned \in Nat /\ BuysLocked \in Nat
         /\ \A p \in Pairs : BoughtOf(p) \in Nat /\ SoldOf(p) \in Nat /\ OnSale(p) \in Nat
<1>1. /\ Filled("BUY") \in SUBSET DOMAIN orders /\ Filled("SELL") \in SUBSET DOMAIN orders
      /\ Waiting("BUY") \in SUBSET DOMAIN orders
  BY SetsTyped, NamesTyped
<1>2. ASSUME NEW p \in Pairs
      PROVE  /\ FilledOf("BUY", p) \in SUBSET DOMAIN orders /\ FilledOf("SELL", p) \in SUBSET DOMAIN orders
             /\ WaitingSales(p) \in SUBSET DOMAIN orders
  BY SetsTyped, NamesTyped
<1>3. Spent \in Nat /\ Earned \in Nat /\ BuysLocked \in Nat
  BY <1>1, SumsTyped DEF Spent, Earned, BuysLocked
<1>4. ASSUME NEW p \in Pairs PROVE BoughtOf(p) \in Nat /\ SoldOf(p) \in Nat /\ OnSale(p) \in Nat
  BY <1>2, SumsTyped DEF BoughtOf, SoldOf, OnSale
<1> QED BY <1>3, <1>4

(* The part of an order in a sum.                                           *)
Part(yes, x) == IF yes THEN x ELSE 0

(* What one order more says.                                                *)
LEMMA OneMoreBooks ==
  ASSUME WalletTypeOK, WalletTypeOK', OrdersAreLegs, NEW m, Grown({m}),
         NEW o, orders'[m] = o, o.group = 0
  PROVE  /\ BuysLocked' = BuysLocked + Part(o.status = "NEW" /\ o.side = "BUY", o.price * o.qty)
         /\ Spent' = Spent + Part(o.status = "FILLED" /\ o.side = "BUY", o.price * o.qty)
         /\ Earned' = Earned + Part(o.status = "FILLED" /\ o.side = "SELL", o.price * o.qty)
         /\ \A q \in Pairs :
               /\ BoughtOf(q)' = BoughtOf(q)
                                 + Part(o.status = "FILLED" /\ o.side = "BUY" /\ o.pair = q, o.qty)
               /\ SoldOf(q)' = SoldOf(q)
                               + Part(o.status = "FILLED" /\ o.side = "SELL" /\ o.pair = q, o.qty)
               /\ OnSale(q)' = OnSale(q)
                               + Part(o.status = "NEW" /\ o.side = "SELL" /\ o.pair = q, o.qty)
<1> DEFINE cost == o.price * o.qty
           Q(X) == SumFunctionOnSet(Quantity, X)
           C(X) == SumFunctionOnSet(Cost, X)
           With(X, yes) == IF yes THEN X \cup {m} ELSE X
<1>1. /\ DOMAIN orders' = DOMAIN orders \cup {m} /\ m \in DOMAIN orders'
      /\ \A i \in DOMAIN orders : orders'[i] = orders[i]
      /\ m \notin DOMAIN orders
  BY OrdersTyped DEF Grown
<1>2. AmountsKept
  BY <1>1 DEF AmountsKept
<1>3. ASSUME NEW X \in SUBSET DOMAIN orders, NEW yes \in BOOLEAN
      PROVE  /\ SumFunctionOnSet(Quantity', With(X, yes)) = Q(X) + Part(yes, o.qty)
             /\ SumFunctionOnSet(Cost', With(X, yes)) = C(X) + Part(yes, cost)
  <2>1. Q(X) \in Int /\ C(X) \in Int
    BY SumsTyped
  <2>2. CASE yes
    <3>1. With(X, yes) = X \cup {m} /\ Part(yes, o.qty) = o.qty /\ Part(yes, cost) = cost
      BY <2>2 DEF Part
    <3>2. /\ SumFunctionOnSet(Quantity', X \cup {m}) = Q(X) + o.qty
          /\ SumFunctionOnSet(Cost', X \cup {m}) = C(X) + cost
      BY <1>1, <1>2, SumsGrow
    <3> QED BY <3>1, <3>2
  <2>3. CASE ~yes
    <3>1. With(X, yes) = X /\ Part(yes, o.qty) = 0 /\ Part(yes, cost) = 0
      BY <2>3 DEF Part
    <3>2. /\ SumFunctionOnSet(Quantity', X) = Q(X)
          /\ SumFunctionOnSet(Cost', X) = C(X)
      BY <1>2, SumsKept
    <3> HIDE DEF With, Q, C
    <3> QED BY <2>1, <3>1, <3>2 DEF Q, C
  <2> QED BY <2>2, <2>3
<1>4. \A side \in OrderSides :
         /\ Filled(side)' = With(Filled(side), o.status = "FILLED" /\ o.side = side)
         /\ Waiting(side)' = With(Waiting(side), o.status = "NEW" /\ o.side = side)
  BY OneMoreSets
<1>5. ASSUME NEW side \in OrderSides, NEW q \in Pairs
      PROVE  FilledOf(side, q)' = With(FilledOf(side, q), o.status = "FILLED" /\ o.side = side /\ o.pair = q)
  <2>1. FilledOf(side, q)' = {i \in Filled(side)' : orders'[i].pair = q}
    BY DEF FilledOf
  <2>2. Filled(side) \subseteq DOMAIN orders
    BY SetsTyped
  <2> QED BY <1>1, <1>4, <2>1, <2>2 DEF FilledOf
<1>6. ASSUME NEW q \in Pairs
      PROVE  WaitingSales(q)' = With(WaitingSales(q), o.status = "NEW" /\ o.side = "SELL" /\ o.pair = q)
  <2>1. WaitingSales(q)' = {i \in Waiting("SELL")' : orders'[i].pair = q}
    BY DEF WaitingSales
  <2>2. "SELL" \in OrderSides /\ Waiting("SELL") \subseteq DOMAIN orders
    BY SetsTyped, NamesTyped
  <2> QED BY <1>1, <1>4, <2>1, <2>2 DEF WaitingSales
<1> HIDE DEF With, Q, C, cost
<1>7. BuysLocked' = BuysLocked + Part(o.status = "NEW" /\ o.side = "BUY", cost)
  BY <1>3, <1>4, SetsTyped, NamesTyped DEF BuysLocked, C
<1>8. Spent' = Spent + Part(o.status = "FILLED" /\ o.side = "BUY", cost)
  BY <1>3, <1>4, SetsTyped, NamesTyped DEF Spent, C
<1>9. Earned' = Earned + Part(o.status = "FILLED" /\ o.side = "SELL", cost)
  BY <1>3, <1>4, SetsTyped, NamesTyped DEF Earned, C
<1>10. ASSUME NEW q \in Pairs
       PROVE  /\ BoughtOf(q)' = BoughtOf(q)
                                + Part(o.status = "FILLED" /\ o.side = "BUY" /\ o.pair = q, o.qty)
              /\ SoldOf(q)' = SoldOf(q)
                              + Part(o.status = "FILLED" /\ o.side = "SELL" /\ o.pair = q, o.qty)
              /\ OnSale(q)' = OnSale(q)
                              + Part(o.status = "NEW" /\ o.side = "SELL" /\ o.pair = q, o.qty)
  <2>1. /\ FilledOf("BUY", q) \in SUBSET DOMAIN orders /\ FilledOf("SELL", q) \in SUBSET DOMAIN orders
        /\ WaitingSales(q) \in SUBSET DOMAIN orders
    BY SetsTyped, NamesTyped
  <2>2. BoughtOf(q)' = BoughtOf(q) + Part(o.status = "FILLED" /\ o.side = "BUY" /\ o.pair = q, o.qty)
    BY <1>3, <1>5, <2>1, NamesTyped DEF BoughtOf, Q
  <2>3. SoldOf(q)' = SoldOf(q) + Part(o.status = "FILLED" /\ o.side = "SELL" /\ o.pair = q, o.qty)
    BY <1>3, <1>5, <2>1, NamesTyped DEF SoldOf, Q
  <2>4. OnSale(q)' = OnSale(q) + Part(o.status = "NEW" /\ o.side = "SELL" /\ o.pair = q, o.qty)
    BY <1>3, <1>6, <2>1 DEF OnSale, Q
  <2> QED BY <2>2, <2>3, <2>4
<1> QED BY <1>7, <1>8, <1>9, <1>10 DEF cost

(* What an OCO sale more says: it is counted once.                          *)
LEMMA TwoMoreBooks ==
  ASSUME WalletTypeOK, OrdersAreLegs, NEW p \in Pairs, NEW o \in OrderType, NEW leg \in OrderType,
         PlaceTwo(p, o, leg), LegsSell(o, leg)
  PROVE  /\ BuysLocked' = BuysLocked /\ Spent' = Spent /\ Earned' = Earned
         /\ \A q \in Pairs : /\ BoughtOf(q)' = BoughtOf(q) /\ SoldOf(q)' = SoldOf(q)
                             /\ OnSale(q)' = OnSale(q) + Part(q = p, o.qty)
<1>0. PICK m, n : m = NextIndex(1) /\ n = NextIndex(2)
  OBVIOUS
<1>1. /\ WalletTypeOK' /\ Grown({m, n}) /\ orders'[m] = o /\ orders'[n] = leg
      /\ m \in Int /\ n \in Int /\ m < n
  <2>1. m \in Int /\ n \in Int /\ m < n
    BY <1>0, OrdersTyped DEF NextIndex
  <2> QED BY <1>0, <2>1, PlaceTwoTyped
<1>2. \A x \in {o, leg} : /\ x.pair = p /\ x.side = "SELL" /\ x.status = "NEW"
                          /\ x.group = Len(orders) + 1
  BY DEF PlaceTwo, LegsSell
<1>3. Len(orders) + 1 > Len(orders) /\ Len(orders) + 1 # 0 /\ Len(orders) \in Nat
  BY OrdersTyped
<1>4. /\ DOMAIN orders' = DOMAIN orders \cup {m, n} /\ m \in DOMAIN orders' /\ n \in DOMAIN orders'
      /\ \A i \in DOMAIN orders : orders'[i] = orders[i]
      /\ m \notin DOMAIN orders /\ n \notin DOMAIN orders
  BY <1>1, OrdersTyped DEF Grown
<1>5. \A i \in DOMAIN orders : Siblings(i)' = Siblings(i) /\ Siblings(i) \subseteq DOMAIN orders
  <2> DEFINE new == {m, n}
  <2>1. Grown(new) /\ \A i \in new : orders'[i].group = 0 \/ orders'[i].group > Len(orders)
    BY <1>1, <1>2, <1>3
  <2> HIDE DEF new
  <2> QED BY <1>1, <2>1, SiblingsKept DEF Siblings
<1>6. Siblings(m)' = {n} /\ Siblings(n)' = {m}
  <2>1. \A i \in DOMAIN orders : orders'[i].group # Len(orders) + 1
    <3>1. /\ \A i \in DOMAIN orders : orders[i].group # 0 => orders[i].group \in DOMAIN orders
          /\ DOMAIN orders = 1..Len(orders)
      BY OrdersTyped DEF OrdersAreLegs
    <3> QED BY <1>3, <1>4, <3>1
  <2>2. /\ Siblings(m)' = {j \in DOMAIN orders' : j # m /\ orders'[m].group # 0
                                                  /\ orders'[j].group = orders'[m].group}
        /\ Siblings(n)' = {j \in DOMAIN orders' : j # n /\ orders'[n].group # 0
                                                  /\ orders'[j].group = orders'[n].group}
    BY DEF Siblings
  <2>3. orders'[m].group = Len(orders) + 1 /\ orders'[n].group = Len(orders) + 1
    BY <1>1, <1>2
  <2>4. Siblings(m)' = {n}
    BY <1>1, <1>3, <1>4, <2>1, <2>2, <2>3
  <2>5. Siblings(n)' = {m}
    BY <1>1, <1>3, <1>4, <2>1, <2>2, <2>3
  <2> QED BY <2>4, <2>5
<1>7. ASSUME NEW side \in OrderSides
      PROVE  /\ Filled(side)' = Filled(side)
             /\ side = "BUY" => Waiting(side)' = Waiting(side)
             /\ side = "SELL" => Waiting(side)' = Waiting(side) \cup {m}
  <2>1. /\ Filled(side)' = {i \in DOMAIN orders' : orders'[i].status = "FILLED" /\ orders'[i].side = side}
        /\ Waiting(side)' = {i \in DOMAIN orders' : /\ orders'[i].status = "NEW" /\ orders'[i].side = side
                                                    /\ \A j \in Siblings(i)' : orders'[j].status = "NEW" => i < j}
    BY DEF Filled, Waiting, New
  <2>2. \A i \in DOMAIN orders : /\ i \in Filled(side)' <=> i \in Filled(side)
                                 /\ i \in Waiting(side)' <=> i \in Waiting(side)
    BY <1>4, <1>5, <2>1 DEF Filled, Waiting, New
  <2>3. \A i \in {m, n} : orders'[i].side = "SELL" /\ orders'[i].status = "NEW"
    BY <1>1, <1>2
  <2>4. m \notin Filled(side)' /\ n \notin Filled(side)'
    BY <2>1, <2>3
  <2>5. n \notin Waiting(side)' /\ (m \in Waiting(side)' <=> side = "SELL")
    <3>1. ~(n < m) /\ m \in Siblings(n)'
      BY <1>1, <1>6
    <3>2. n \notin Waiting(side)'
      BY <2>1, <2>3, <3>1
    <3>3. \A j \in Siblings(m)' : m < j
      BY <1>1, <1>6
    <3>4. m \in Waiting(side)' <=> side = "SELL"
      BY <1>4, <2>1, <2>3, <3>3
    <3> QED BY <3>2, <3>4
  <2>6. Filled(side)' \subseteq DOMAIN orders \cup {m, n} /\ Waiting(side)' \subseteq DOMAIN orders \cup {m, n}
    BY <1>4, <2>1
  <2>7. Filled(side) \subseteq DOMAIN orders /\ Waiting(side) \subseteq DOMAIN orders
    BY SetsTyped
  <2> QED BY <1>4, <2>2, <2>4, <2>5, <2>6, <2>7
<1>8. AmountsKept
  BY <1>4 DEF AmountsKept
<1>9. BuysLocked' = BuysLocked /\ Spent' = Spent /\ Earned' = Earned
  <2>1. /\ Filled("BUY") \in SUBSET DOMAIN orders /\ Filled("SELL") \in SUBSET DOMAIN orders
        /\ Waiting("BUY") \in SUBSET DOMAIN orders
    BY SetsTyped, NamesTyped
  <2>2. /\ Filled("BUY")' = Filled("BUY") /\ Filled("SELL")' = Filled("SELL")
        /\ Waiting("BUY")' = Waiting("BUY")
    BY <1>7, NamesTyped
  <2> QED BY <1>8, <2>1, <2>2, SumsKept DEF BuysLocked, Spent, Earned
<1>10. ASSUME NEW q \in Pairs
       PROVE  /\ BoughtOf(q)' = BoughtOf(q) /\ SoldOf(q)' = SoldOf(q)
              /\ OnSale(q)' = OnSale(q) + Part(q = p, o.qty)
  <2>1. /\ FilledOf("BUY", q) \in SUBSET DOMAIN orders /\ FilledOf("SELL", q) \in SUBSET DOMAIN orders
        /\ WaitingSales(q) \in SUBSET DOMAIN orders
    BY SetsTyped, NamesTyped
  <2>2. ASSUME NEW side \in OrderSides PROVE FilledOf(side, q)' = FilledOf(side, q)
    <3>1. FilledOf(side, q)' = {i \in Filled(side)' : orders'[i].pair = q}
      BY DEF FilledOf
    <3>2. Filled(side) \subseteq DOMAIN orders
      BY SetsTyped
    <3> QED BY <1>4, <1>7, <3>1, <3>2 DEF FilledOf
  <2>3. BoughtOf(q)' = BoughtOf(q) /\ SoldOf(q)' = SoldOf(q)
    BY <1>8, <2>1, <2>2, NamesTyped, SumsKept DEF BoughtOf, SoldOf
  <2>4. WaitingSales(q)' = IF q = p THEN WaitingSales(q) \cup {m} ELSE WaitingSales(q)
    <3>1. WaitingSales(q)' = {i \in Waiting("SELL")' : orders'[i].pair = q}
      BY DEF WaitingSales
    <3>2. Waiting("SELL") \subseteq DOMAIN orders /\ Waiting("SELL")' = Waiting("SELL") \cup {m}
      BY <1>7, SetsTyped, NamesTyped
    <3>3. orders'[m].pair = p
      BY <1>1, <1>2
    <3> QED BY <1>4, <3>1, <3>2, <3>3 DEF WaitingSales
  <2>5. OnSale(q) \in Nat
    BY BooksTyped
  <2>6. CASE q = p
    <3>1. SumFunctionOnSet(Quantity', WaitingSales(q) \cup {m})
             = SumFunctionOnSet(Quantity, WaitingSales(q)) + orders'[m].qty
      BY <1>1, <1>4, <1>8, <2>1, SumsGrow
    <3> QED BY <1>1, <2>3, <2>4, <2>6, <3>1 DEF OnSale, Part
  <2>7. CASE q # p
    <3>1. SumFunctionOnSet(Quantity', WaitingSales(q)) = SumFunctionOnSet(Quantity, WaitingSales(q))
      BY <1>8, <2>1, SumsKept
    <3>2. OnSale(q)' = OnSale(q)
      BY <2>4, <2>7, <3>1 DEF OnSale
    <3> QED BY <2>3, <2>5, <2>7, <3>2 DEF Part
  <2> QED BY <2>6, <2>7
<1> QED BY <1>9, <1>10

-----------------------------------------------------------------------------
(* Steps of strategies that do not short.                                   *)

(* New orders are like the ones there are.                                  *)
LEMMA LongOrdersGrow ==
  ASSUME WalletTypeOK, WalletTypeOK', OrdersAreLegs, LongOrders, NEW new, Grown(new),
         \A i \in new : /\ orders'[i].group = 0 \/ orders'[i].group > Len(orders)
                        /\ orders'[i].qty > 0 /\ FillPrice(orders'[i]) = orders'[i].price
                        /\ orders'[i].side = "BUY" => orders'[i].group = 0,
         \A i, j \in new : orders'[i].status = orders'[j].status
  PROVE  LongOrders'
<1>1. /\ DOMAIN orders' = DOMAIN orders \cup new
      /\ \A i \in DOMAIN orders : orders'[i] = orders[i]
  BY DEF Grown
<1>2. /\ \A i \in DOMAIN orders : Siblings(i)' = Siblings(i) /\ Siblings(i) \subseteq DOMAIN orders
      /\ \A i \in new : orders'[i].group = 0 => Siblings(i)' = {}
  BY SiblingsKept DEF Siblings
<1>3. \A i \in DOMAIN orders : orders[i].group <= Len(orders)
  <2>1. \A i \in DOMAIN orders : orders[i].group # 0 => orders[i].group \in DOMAIN orders
    BY DEF OrdersAreLegs
  <2> QED BY <2>1, OrdersTyped
<1>4. ASSUME NEW i \in DOMAIN orders'
      PROVE  /\ orders'[i].qty > 0
             /\ orders'[i].side = "BUY" => orders'[i].group = 0
             /\ \A j \in Siblings(i)' : orders'[i].status = "NEW" <=> orders'[j].status = "NEW"
             /\ FillPrice(orders'[i]) = orders'[i].price
  <2>1. CASE i \in DOMAIN orders
    BY <1>1, <1>2, <2>1 DEF LongOrders, New
  <2>2. CASE i \in new
    <3>1. ASSUME NEW j \in Siblings(i)' PROVE j \in new
      <4>1. orders'[i].group > Len(orders)
        BY <1>2, <2>2, <3>1
      <4>2. j \in DOMAIN orders' /\ orders'[j].group = orders'[i].group
        BY <3>1 DEF Siblings
      <4>3. Len(orders) \in Nat /\ orders'[i].group \in Nat
        <5>1. \A s \in Seq(OrderType) : \A k \in DOMAIN s : s[k] \in OrderType
          BY ElementOfSeq, LenProperties
        <5>2. orders'[i] \in OrderType
          BY <5>1 DEF WalletTypeOK
        <5> QED BY <5>2, OrdersTyped, WalletAssumption DEF OrderType
      <4>4. ASSUME j \in DOMAIN orders PROVE FALSE
        BY <1>1, <1>3, <4>1, <4>2, <4>3, <4>4
      <4> QED BY <1>1, <4>2, <4>4
    <3> QED BY <2>2, <3>1
  <2> QED BY <1>1, <2>1, <2>2
<1> QED BY <1>4 DEF LongOrders, New, FillPrice

(* A new order that waits.                                                  *)
LEMMA LongPlaceOne ==
  ASSUME WalletInv, LongOnly, LongOrders, Funds, Books,
         NEW p \in Pairs, NEW o \in OrderType, PlaceOne(p, o)
  PROVE  LongOrders' /\ Funds' /\ Books'
<1>0. WalletTypeOK /\ OrdersAreLegs
  BY DEF WalletInv
<1>1. PICK m : m = NextIndex(1)
  OBVIOUS
<1>2. WalletTypeOK' /\ Grown({m}) /\ orders'[m] = o
  BY <1>0, <1>1, PlaceOneTyped
<1>3. /\ o.pair = p /\ o.status = "NEW" /\ o.group = 0 /\ o.qty > 0 /\ FillPrice(o) = o.price
      /\ o.side = "SELL" => o.qty <= assets[p].free
      /\ LockFunds(p, o.side, o.qty, o.price) /\ style' = style
  BY DEF PlaceOne, Sellable, LongOnly, Wait
<1>4. LongOrders'
  <2> DEFINE new == {m}
  <2>1. /\ Grown(new)
        /\ \A i \in new : orders'[i] = o
    BY <1>2
  <2> HIDE DEF new
  <2> QED BY <1>0, <1>2, <1>3, <2>1, LongOrdersGrow
<1> DEFINE cost == o.price * o.qty
<1>5. o.qty \in Nat /\ o.price \in Nat /\ o.side \in OrderSides
  BY DEF OrderType, OrderSides
<1>6. /\ BuysLocked' = BuysLocked + Part(o.side = "BUY", cost)
      /\ Spent' = Spent /\ Earned' = Earned
      /\ \A q \in Pairs : /\ BoughtOf(q)' = BoughtOf(q) /\ SoldOf(q)' = SoldOf(q)
                          /\ OnSale(q)' = OnSale(q) + Part(o.side = "SELL" /\ q = p, o.qty)
  <2>1. /\ BuysLocked' = BuysLocked + Part(o.status = "NEW" /\ o.side = "BUY", o.price * o.qty)
        /\ Spent' = Spent + Part(o.status = "FILLED" /\ o.side = "BUY", o.price * o.qty)
        /\ Earned' = Earned + Part(o.status = "FILLED" /\ o.side = "SELL", o.price * o.qty)
        /\ \A q \in Pairs :
              /\ BoughtOf(q)' = BoughtOf(q)
                                + Part(o.status = "FILLED" /\ o.side = "BUY" /\ o.pair = q, o.qty)
              /\ SoldOf(q)' = SoldOf(q)
                              + Part(o.status = "FILLED" /\ o.side = "SELL" /\ o.pair = q, o.qty)
              /\ OnSale(q)' = OnSale(q)
                              + Part(o.status = "NEW" /\ o.side = "SELL" /\ o.pair = q, o.qty)
    BY <1>0, <1>2, <1>3, OneMoreBooks
  <2>2. /\ Spent \in Nat /\ Earned \in Nat
        /\ \A q \in Pairs : BoughtOf(q) \in Nat /\ SoldOf(q) \in Nat
    BY <1>0, BooksTyped
  <2> HIDE DEF cost
  <2> QED BY <1>3, <2>1, <2>2 DEF Part, cost
<1>7. /\ \A q \in Pairs :
            /\ assets'[q].free = assets[q].free - Part(o.side = "SELL" /\ q = p, o.qty)
            /\ assets'[q].lock = assets[q].lock + Part(o.side = "SELL" /\ q = p, o.qty)
      /\ quote'.free = quote.free - Part(o.side = "BUY", cost)
      /\ quote'.lock = quote.lock + Part(o.side = "BUY", cost)
      /\ o.side = "BUY" => quote.free >= cost
  <2>1. assets[p].free >= 0
    BY DEF Funds
  <2>2. o.qty * o.price = cost
    BY <1>5
  <2> HIDE DEF cost
  <2> QED BY <1>0, <1>3, <1>5, <2>1, <2>2, LongLock DEF Part
<1>8. /\ Part(o.side = "BUY", cost) \in Nat
      /\ o.side = "BUY" => Part(o.side = "BUY", cost) = cost
      /\ o.side # "BUY" => Part(o.side = "BUY", cost) = 0
      /\ \A q \in Pairs : /\ Part(o.side = "SELL" /\ q = p, o.qty) \in Nat
                          /\ Part(o.side = "SELL" /\ q = p, o.qty) <= assets[q].free
  <2>1. cost \in Nat
    BY <1>5
  <2> HIDE DEF cost
  <2>2. \A q \in Pairs : assets[q].free >= 0
    BY DEF Funds
  <2> QED BY <1>3, <1>5, <2>1, <2>2 DEF Part
<1>9. /\ quote.free \in Int /\ quote.lock \in Int /\ InitQuote \in Nat /\ InitAsset \in Nat
      /\ \A q \in Pairs : assets[q].free \in Int /\ assets[q].lock \in Int
      /\ Spent \in Nat /\ Earned \in Nat /\ BuysLocked \in Nat
      /\ \A q \in Pairs : BoughtOf(q) \in Nat /\ SoldOf(q) \in Nat /\ OnSale(q) \in Nat
  BY <1>0, BooksTyped, WalletAssumption DEF WalletTypeOK, BalanceType
<1> HIDE DEF cost
<1>10. Funds'
  <2>1. quote'.free >= 0
    BY <1>7, <1>8, <1>9 DEF Funds
  <2>2. quote'.lock >= BuysLocked'
    BY <1>6, <1>7, <1>8, <1>9 DEF Funds
  <2>3. "buyWhileSelling" \notin style.cancels => quote'.lock = BuysLocked'
    BY <1>6, <1>7, <1>8, <1>9 DEF Funds
  <2>4. ASSUME NEW q \in Pairs PROVE assets'[q].free >= 0 /\ assets'[q].lock = OnSale(q)'
    BY <1>6, <1>7, <1>8, <1>9 DEF Funds
  <2> QED BY <1>3, <2>1, <2>2, <2>3, <2>4 DEF Funds
<1>11. Books'
  <2>1. InitQuote + Earned' - Spent' = quote'.free + quote'.lock
    BY <1>6, <1>7, <1>8, <1>9 DEF Books
  <2>2. ASSUME NEW q \in Pairs
        PROVE  InitAsset + BoughtOf(q)' - SoldOf(q)' = assets'[q].free + assets'[q].lock
    BY <1>6, <1>7, <1>8, <1>9 DEF Books
  <2> QED BY <2>1, <2>2 DEF Books
<1> QED BY <1>4, <1>10, <1>11

(* An order that trades at once.                                            *)
LEMMA LongTrade ==
  ASSUME WalletInv, LongOrders, Funds, Books,
         NEW p \in Pairs, NEW o \in OrderType, Trade(p, o), Covered(p, o)
  PROVE  LongOrders' /\ Funds' /\ Books'
<1>0. WalletTypeOK /\ OrdersAreLegs
  BY DEF WalletInv
<1>1. PICK m : m = NextIndex(1)
  OBVIOUS
<1>2. WalletTypeOK' /\ Grown({m}) /\ orders'[m] = o
  BY <1>0, <1>1, TradeTyped
<1>3. /\ o.pair = p /\ o.status = "FILLED" /\ o.group = 0 /\ o.qty > 0 /\ FillPrice(o) = o.price
      /\ o.side = "SELL" => o.qty <= assets[p].free
      /\ FillFunds(p, o.side, o.qty, o.price) /\ style' = style
  BY DEF Trade, Covered
<1>4. LongOrders'
  <2> DEFINE new == {m}
  <2>1. Grown(new) /\ \A i \in new : orders'[i] = o
    BY <1>2
  <2> HIDE DEF new
  <2> QED BY <1>0, <1>2, <1>3, <2>1, LongOrdersGrow
<1> DEFINE cost == o.price * o.qty
<1>5. o.qty \in Nat /\ o.price \in Nat /\ o.side \in OrderSides /\ o.side \in {"BUY", "SELL"}
  BY DEF OrderType, OrderSides
<1>6. /\ BuysLocked' = BuysLocked
      /\ Spent' = Spent + Part(o.side = "BUY", cost) /\ Earned' = Earned + Part(o.side = "SELL", cost)
      /\ \A q \in Pairs : /\ BoughtOf(q)' = BoughtOf(q) + Part(o.side = "BUY" /\ q = p, o.qty)
                          /\ SoldOf(q)' = SoldOf(q) + Part(o.side = "SELL" /\ q = p, o.qty)
                          /\ OnSale(q)' = OnSale(q)
  <2>1. /\ BuysLocked' = BuysLocked + Part(o.status = "NEW" /\ o.side = "BUY", o.price * o.qty)
        /\ Spent' = Spent + Part(o.status = "FILLED" /\ o.side = "BUY", o.price * o.qty)
        /\ Earned' = Earned + Part(o.status = "FILLED" /\ o.side = "SELL", o.price * o.qty)
        /\ \A q \in Pairs :
              /\ BoughtOf(q)' = BoughtOf(q)
                                + Part(o.status = "FILLED" /\ o.side = "BUY" /\ o.pair = q, o.qty)
              /\ SoldOf(q)' = SoldOf(q)
                              + Part(o.status = "FILLED" /\ o.side = "SELL" /\ o.pair = q, o.qty)
              /\ OnSale(q)' = OnSale(q)
                              + Part(o.status = "NEW" /\ o.side = "SELL" /\ o.pair = q, o.qty)
    BY <1>0, <1>2, <1>3, OneMoreBooks
  <2>2. BuysLocked \in Nat /\ \A q \in Pairs : OnSale(q) \in Nat
    BY <1>0, BooksTyped
  <2> HIDE DEF cost
  <2> QED BY <1>3, <2>1, <2>2 DEF Part, cost
<1>7. /\ \A q \in Pairs :
            /\ assets'[q].free = assets[q].free + Part(o.side = "BUY" /\ q = p, o.qty)
                                                - Part(o.side = "SELL" /\ q = p, o.qty)
            /\ assets'[q].lock = assets[q].lock
      /\ quote'.free = quote.free + Part(o.side = "SELL", cost) - Part(o.side = "BUY", cost)
      /\ quote'.lock = quote.lock
      /\ o.side = "BUY" => quote.free >= cost
  <2>1. assets[p].free >= 0
    BY DEF Funds
  <2>2. o.qty * o.price = cost /\ cost \in Nat
    BY <1>5
  <2> HIDE DEF cost
  <2>3. /\ quote.free \in Int /\ \A q \in Pairs : assets[q].free \in Int
    BY <1>0 DEF WalletTypeOK, BalanceType
  <2>4. /\ \A q \in Pairs :
              /\ assets'[q].free = assets[q].free + (IF q # p THEN 0
                                                     ELSE IF o.side = "SELL" THEN 0 - o.qty ELSE o.qty)
              /\ assets'[q].lock = assets[q].lock
        /\ quote'.free = quote.free + (IF o.side = "BUY" THEN 0 - cost ELSE cost)
        /\ quote'.lock = quote.lock
        /\ o.side = "BUY" => quote.free >= cost
    BY <1>0, <1>3, <1>5, <2>1, <2>2, LongFill
  <2> QED BY <1>5, <2>2, <2>3, <2>4 DEF Part
<1>8. /\ Part(o.side = "BUY", cost) \in Nat /\ Part(o.side = "SELL", cost) \in Nat
      /\ Part(o.side = "BUY", cost) <= quote.free
      /\ \A q \in Pairs : /\ Part(o.side = "SELL" /\ q = p, o.qty) \in Nat
                          /\ Part(o.side = "BUY" /\ q = p, o.qty) \in Nat
                          /\ Part(o.side = "SELL" /\ q = p, o.qty) <= assets[q].free
  <2>1. cost \in Nat
    BY <1>5
  <2> HIDE DEF cost
  <2>2. quote.free >= 0 /\ \A q \in Pairs : assets[q].free >= 0
    BY DEF Funds
  <2> QED BY <1>3, <1>5, <1>7, <2>1, <2>2 DEF Part
<1>9. /\ quote.free \in Int /\ quote.lock \in Int /\ InitQuote \in Nat /\ InitAsset \in Nat
      /\ \A q \in Pairs : assets[q].free \in Int /\ assets[q].lock \in Int
      /\ Spent \in Nat /\ Earned \in Nat /\ BuysLocked \in Nat
      /\ \A q \in Pairs : BoughtOf(q) \in Nat /\ SoldOf(q) \in Nat /\ OnSale(q) \in Nat
  BY <1>0, BooksTyped, WalletAssumption DEF WalletTypeOK, BalanceType
<1> HIDE DEF cost
<1>10. Funds'
  <2>1. quote'.free >= 0
    BY <1>7, <1>8, <1>9 DEF Funds
  <2>2. /\ quote'.lock >= BuysLocked'
        /\ "buyWhileSelling" \notin style.cancels => quote'.lock = BuysLocked'
    BY <1>6, <1>7 DEF Funds
  <2>3. ASSUME NEW q \in Pairs PROVE assets'[q].free >= 0 /\ assets'[q].lock = OnSale(q)'
    <3>1. assets[q].lock = OnSale(q) /\ assets[q].free >= 0
      BY DEF Funds
    <3> QED BY <1>6, <1>7, <1>8, <1>9, <3>1
  <2> QED BY <1>3, <2>1, <2>2, <2>3 DEF Funds
<1>11. Books'
  <2>1. InitQuote + Earned' - Spent' = quote'.free + quote'.lock
    BY <1>6, <1>7, <1>8, <1>9 DEF Books
  <2>2. ASSUME NEW q \in Pairs
        PROVE  InitAsset + BoughtOf(q)' - SoldOf(q)' = assets'[q].free + assets'[q].lock
    <3>1. InitAsset + BoughtOf(q) - SoldOf(q) = assets[q].free + assets[q].lock
      BY DEF Books
    <3> QED BY <1>6, <1>7, <1>8, <1>9, <3>1
  <2> QED BY <2>1, <2>2 DEF Books
<1> QED BY <1>4, <1>10, <1>11

(* An OCO sale: what it sells is locked once.                               *)
LEMMA LongPlaceTwo ==
  ASSUME WalletInv, LongOrders, Funds, Books,
         NEW p \in Pairs, NEW o \in OrderType, NEW leg \in OrderType, PlaceTwo(p, o, leg),
         LegsSell(o, leg), Covered(p, o)
  PROVE  LongOrders' /\ Funds' /\ Books'
<1>0. WalletTypeOK /\ OrdersAreLegs
  BY DEF WalletInv
<1>1. /\ WalletTypeOK' /\ Grown({NextIndex(1), NextIndex(2)})
      /\ orders'[NextIndex(1)] = o /\ orders'[NextIndex(2)] = leg
  BY <1>0, PlaceTwoTyped
<1>2. /\ \A x \in {o, leg} :
            /\ x.side = "SELL" /\ x.status = "NEW" /\ x.qty = o.qty /\ x.group = Len(orders) + 1
            /\ FillPrice(x) = x.price
      /\ o.qty > 0 /\ o.side = "SELL"
      /\ o.qty <= assets[p].free
      /\ LockFunds(p, o.side, o.qty, o.price) /\ style' = style
  BY DEF PlaceTwo, LegsSell, Covered, Wait
<1>3. LongOrders'
  <2> DEFINE new == {NextIndex(1), NextIndex(2)}
  <2>1. Grown(new) /\ \A i \in new : orders'[i] \in {o, leg}
    BY <1>1
  <2>2. Len(orders) + 1 > Len(orders)
    BY <1>0, OrdersTyped
  <2> HIDE DEF new
  <2>3. \A i \in new : /\ orders'[i].side = "SELL" /\ orders'[i].status = "NEW" /\ orders'[i].qty > 0
                       /\ orders'[i].group > Len(orders) /\ FillPrice(orders'[i]) = orders'[i].price
    BY <1>2, <2>1, <2>2
  <2> QED BY <1>0, <1>1, <2>1, <2>3, LongOrdersGrow
<1>4. o.qty \in Nat /\ o.price \in Nat /\ o.side \in OrderSides
  BY DEF OrderType, OrderSides
<1>5. /\ BuysLocked' = BuysLocked /\ Spent' = Spent /\ Earned' = Earned
      /\ \A q \in Pairs : /\ BoughtOf(q)' = BoughtOf(q) /\ SoldOf(q)' = SoldOf(q)
                          /\ OnSale(q)' = OnSale(q) + Part(q = p, o.qty)
  BY <1>0, TwoMoreBooks
<1>6. /\ quote.free \in Int /\ quote.lock \in Int /\ InitQuote \in Nat /\ InitAsset \in Nat
      /\ \A q \in Pairs : assets[q].free \in Int /\ assets[q].lock \in Int
      /\ \A q \in Pairs : BoughtOf(q) \in Nat /\ SoldOf(q) \in Nat /\ OnSale(q) \in Nat
  BY <1>0, BooksTyped, WalletAssumption DEF WalletTypeOK, BalanceType
<1>7. /\ \A q \in Pairs : /\ assets'[q].free = assets[q].free - Part(q = p, o.qty)
                          /\ assets'[q].lock = assets[q].lock + Part(q = p, o.qty)
      /\ quote'.free = quote.free /\ quote'.lock = quote.lock
  <2>1. assets[p].free >= 0
    BY DEF Funds
  <2>2. /\ \A q \in Pairs :
              /\ assets'[q].free = assets[q].free - (IF o.side = "SELL" /\ q = p THEN o.qty ELSE 0)
              /\ assets'[q].lock = assets[q].lock + (IF o.side = "SELL" /\ q = p THEN o.qty ELSE 0)
        /\ quote'.free = quote.free - (IF o.side = "BUY" THEN o.qty * o.price ELSE 0)
        /\ quote'.lock = quote.lock + (IF o.side = "BUY" THEN o.qty * o.price ELSE 0)
    BY <1>0, <1>2, <1>4, <2>1, LongLock
  <2>3. o.side = "SELL" /\ o.side # "BUY"
    BY <1>2
  <2> QED BY <1>6, <2>2, <2>3 DEF Part
<1>8. \A q \in Pairs : Part(q = p, o.qty) \in Nat /\ Part(q = p, o.qty) <= assets[q].free
  <2>1. \A q \in Pairs : assets[q].free >= 0
    BY DEF Funds
  <2> QED BY <1>2, <1>4, <2>1 DEF Part
<1>9. Funds'
  <2>1. /\ quote'.free >= 0 /\ quote'.lock >= BuysLocked'
        /\ "buyWhileSelling" \notin style.cancels => quote'.lock = BuysLocked'
    BY <1>5, <1>7 DEF Funds
  <2>2. ASSUME NEW q \in Pairs PROVE assets'[q].free >= 0 /\ assets'[q].lock = OnSale(q)'
    <3>1. assets[q].lock = OnSale(q) /\ assets[q].free >= 0
      BY DEF Funds
    <3> QED BY <1>5, <1>6, <1>7, <1>8, <3>1
  <2> QED BY <1>2, <2>1, <2>2 DEF Funds
<1>10. Books'
  <2>1. InitQuote + Earned' - Spent' = quote'.free + quote'.lock
    BY <1>5, <1>7 DEF Books
  <2>2. ASSUME NEW q \in Pairs
        PROVE  InitAsset + BoughtOf(q)' - SoldOf(q)' = assets'[q].free + assets'[q].lock
    <3>1. InitAsset + BoughtOf(q) - SoldOf(q) = assets[q].free + assets[q].lock
      BY DEF Books
    <3> QED BY <1>5, <1>6, <1>7, <1>8, <3>1
  <2> QED BY <2>1, <2>2 DEF Books
<1> QED BY <1>3, <1>9, <1>10

(* A change of status changes nothing else.                                 *)
LEMMA KeptFields ==
  ASSUME WalletTypeOK, Kept, NEW i \in DOMAIN orders
  PROVE  /\ orders'[i].qty = orders[i].qty /\ orders'[i].side = orders[i].side
         /\ orders'[i].group = orders[i].group /\ orders'[i].price = orders[i].price
         /\ orders'[i].pair = orders[i].pair
         /\ FillPrice(orders'[i]) = FillPrice(orders[i])
<1>1. orders[i] \in OrderType
  BY OrdersTyped
<1>2. orders'[i] = [orders[i] EXCEPT !.status = orders'[i].status]
  BY DEF Kept
<1>3. orders'[i].type = orders[i].type /\ orders'[i].stop = orders[i].stop
  BY <1>1, <1>2 DEF OrderType
<1>4. /\ orders'[i].qty = orders[i].qty /\ orders'[i].side = orders[i].side
      /\ orders'[i].group = orders[i].group /\ orders'[i].price = orders[i].price
      /\ orders'[i].pair = orders[i].pair
  BY <1>1, <1>2 DEF OrderType
<1> QED BY <1>3, <1>4 DEF FillPrice

(* The orders that a candle fills or cancels waited, on one side or the     *)
(* other, and those that it cancels are the other legs of the sales.        *)
LEMMA CandleSides ==
  ASSUME WalletInv, LongOrders, NEW p \in Pairs, NEW c \in Candles
  PROVE  /\ \A i \in Sold(Fired(p, c)) : /\ i \in DOMAIN orders /\ New(i) /\ orders[i].side = "SELL"
                                         /\ orders[i].pair = p /\ i \in Fired(p, c)
         /\ \A i \in Bought(Fired(p, c)) : /\ i \in DOMAIN orders /\ New(i) /\ orders[i].side = "BUY"
                                           /\ orders[i].pair = p /\ i \in Fired(p, c)
                                           /\ Siblings(i) = {}
         /\ \A i \in Fired(p, c) : i \in Sold(Fired(p, c)) \/ i \in Bought(Fired(p, c))
         /\ \A i \in CancelledBy(Fired(p, c)) :
               /\ i \in DOMAIN orders /\ New(i) /\ orders[i].side = "SELL" /\ orders[i].pair = p
               /\ i \notin Fired(p, c)
               /\ \E k \in Sold(Fired(p, c)) : Siblings(i) = {k} /\ Siblings(k) = {i}
<1> DEFINE fired == Fired(p, c)
<1>0. WalletTypeOK /\ OrdersAreLegs /\ PendingIsIndex
  BY DEF WalletInv
<1>1. /\ fired \in SUBSET DOMAIN orders
      /\ \A i \in fired : New(i) /\ orders[i].pair = p
  BY <1>0, FiredWaits
<1>2. \A i \in DOMAIN orders : orders[i].side \in {"BUY", "SELL"}
  BY <1>0, OrdersTyped DEF OrderType
<1>3. \A i \in Sold(fired) : /\ i \in DOMAIN orders /\ New(i) /\ orders[i].side = "SELL"
                             /\ orders[i].pair = p /\ i \in fired
  BY <1>1 DEF Sold
<1>4. \A i \in Bought(fired) : /\ i \in DOMAIN orders /\ New(i) /\ orders[i].side = "BUY"
                               /\ orders[i].pair = p /\ i \in fired /\ Siblings(i) = {}
  BY <1>1 DEF Bought, LongOrders, Siblings
<1>5. \A i \in fired : i \in Sold(fired) \/ i \in Bought(fired)
  BY <1>1, <1>2 DEF Sold, Bought
<1>6. ASSUME NEW i \in CancelledBy(fired)
      PROVE  /\ i \in DOMAIN orders /\ New(i) /\ orders[i].side = "SELL" /\ orders[i].pair = p
             /\ i \notin fired
             /\ \E k \in Sold(fired) : Siblings(i) = {k} /\ Siblings(k) = {i}
  <2>1. PICK k \in Sold(fired) : i \in Siblings(k)
    BY DEF CancelledBy
  <2>2. /\ i \in DOMAIN orders /\ Siblings(k) = {i} /\ Siblings(i) = {k}
        /\ orders[i].pair = orders[k].pair /\ orders[i].side = orders[k].side
    BY <1>0, <1>3, <2>1, OneSibling
  <2>3. New(i)
    BY <1>3, <2>1 DEF LongOrders
  <2>4. i \notin fired
    BY <1>0, <2>1, FiredOnce
  <2> QED BY <1>3, <2>1, <2>2, <2>3, <2>4
<1> QED BY <1>3, <1>4, <1>5, <1>6

(* What is filled and what waits after a candle.                            *)
LEMMA CandleSets ==
  ASSUME WalletInv, LongOrders, NEW p \in Pairs, NEW c \in Candles, OnCandle(p, c)
  PROVE  LET sold == Sold(Fired(p, c))
             bought == Bought(Fired(p, c))
             can == CancelledBy(Fired(p, c))
         IN  /\ Filled("SELL")' = Filled("SELL") \cup sold
             /\ Filled("BUY")' = Filled("BUY") \cup bought
             /\ Waiting("BUY")' = Waiting("BUY") \ bought /\ bought \subseteq Waiting("BUY")
             /\ Waiting("SELL")' = Waiting("SELL") \ (sold \cup can)
             /\ LongOrders'
<1> DEFINE fired == Fired(p, c)
           sold == Sold(fired)
           bought == Bought(fired)
           can == CancelledBy(fired)
<1>0. WalletTypeOK /\ OrdersAreLegs /\ PendingIsIndex
  BY DEF WalletInv
<1>1. /\ Kept /\ DOMAIN orders' = DOMAIN orders
      /\ \A i \in DOMAIN orders :
            /\ i \in can => orders'[i].status = "CANCELED"
            /\ i \in sold => orders'[i].status = "FILLED"
            /\ i \notin fired /\ i \notin can => orders'[i].status = orders[i].status
  BY <1>0, CandleOrders
<1>2. /\ \A i \in sold : /\ i \in DOMAIN orders /\ New(i) /\ orders[i].side = "SELL" /\ i \in fired
      /\ \A i \in bought : /\ i \in DOMAIN orders /\ New(i) /\ orders[i].side = "BUY" /\ i \in fired
                           /\ Siblings(i) = {}
      /\ \A i \in fired : i \in sold \/ i \in bought
      /\ \A i \in can : /\ i \in DOMAIN orders /\ New(i) /\ orders[i].side = "SELL" /\ i \notin fired
                        /\ \E k \in sold : Siblings(i) = {k} /\ Siblings(k) = {i}
  BY CandleSides
<1>3. \A i \in bought : orders'[i].status = "FILLED"
  <2>1. /\ fired \in SUBSET DOMAIN orders /\ orders' = [j \in DOMAIN orders |-> Settled(j, fired)]
    BY <1>0, FiredWaits DEF OnCandle
  <2>2. \A j \in DOMAIN orders :
            orders'[j].status = IF j \in can THEN "CANCELED"
                                ELSE IF j \in fired THEN "FILLED" ELSE orders[j].status
    <3> HIDE DEF fired
    <3> QED BY <1>0, <2>1, SettledTyped
  <2> HIDE DEF fired, can, bought
  <2> QED BY <1>2, <2>2
<1>4. \A i \in DOMAIN orders : Siblings(i)' = Siblings(i) /\ Siblings(i) \subseteq DOMAIN orders
  BY <1>0, <1>1, SiblingsSame
<1>5. \A i \in DOMAIN orders : /\ orders'[i].side = orders[i].side /\ orders'[i].group = orders[i].group
                               /\ orders'[i].qty = orders[i].qty /\ orders'[i].price = orders[i].price
                               /\ FillPrice(orders'[i]) = FillPrice(orders[i])
  BY <1>0, <1>1, KeptFields
<1> HIDE DEF fired, sold, bought, can
<1>6. \A i \in DOMAIN orders : orders'[i].status = "FILLED" <=>
                                  orders[i].status = "FILLED" \/ i \in sold \/ i \in bought
  BY <1>1, <1>2, <1>3 DEF New
<1>7. \A i \in DOMAIN orders : orders'[i].status = "NEW" <=>
                                  New(i) /\ i \notin sold /\ i \notin bought /\ i \notin can
  BY <1>1, <1>2, <1>3 DEF New
<1>8. ASSUME NEW i \in DOMAIN orders, NEW j \in Siblings(i)
      PROVE  orders'[i].status = "NEW" <=> orders'[j].status = "NEW"
  <2>1. j \in DOMAIN orders /\ Siblings(i) = {j} /\ Siblings(j) = {i}
    BY <1>0, OneSibling
  <2>2. New(i) <=> New(j)
    BY DEF LongOrders
  <2>3. i \notin bought /\ j \notin bought
    BY <1>2, <2>1
  <2>4. (i \in sold => j \in can) /\ (j \in sold => i \in can)
    BY <2>1 DEF CancelledBy, sold, can
  <2>5. (i \in can => j \in sold) /\ (j \in can => i \in sold)
    BY <1>2, <2>1
  <2> QED BY <1>7, <2>1, <2>2, <2>3, <2>4, <2>5
<1>9. LongOrders'
  <2>1. \A i \in DOMAIN orders' :
           /\ orders'[i].qty > 0
           /\ orders'[i].side = "BUY" => orders'[i].group = 0
           /\ \A j \in Siblings(i)' : orders'[i].status = "NEW" <=> orders'[j].status = "NEW"
           /\ FillPrice(orders'[i]) = orders'[i].price
    BY <1>1, <1>4, <1>5, <1>8 DEF LongOrders
  <2> QED BY <2>1 DEF LongOrders, New, FillPrice
<1>10. ASSUME NEW side \in OrderSides
       PROVE  /\ Filled(side)' = {i \in DOMAIN orders : orders'[i].status = "FILLED" /\ orders[i].side = side}
              /\ Waiting(side)' = {i \in DOMAIN orders :
                                     /\ orders'[i].status = "NEW" /\ orders[i].side = side
                                     /\ \A j \in Siblings(i) : orders'[j].status = "NEW" => i < j}
  <2>1. /\ Filled(side)' = {i \in DOMAIN orders' : orders'[i].status = "FILLED" /\ orders'[i].side = side}
        /\ Waiting(side)' = {i \in DOMAIN orders' :
                               /\ orders'[i].status = "NEW" /\ orders'[i].side = side
                               /\ \A j \in Siblings(i)' : orders'[j].status = "NEW" => i < j}
    BY DEF Filled, Waiting, New
  <2> QED BY <1>1, <1>4, <1>5, <2>1
<1>11. Filled("SELL")' = Filled("SELL") \cup sold /\ Filled("BUY")' = Filled("BUY") \cup bought
  BY <1>2, <1>6, <1>10, NamesTyped DEF Filled
<1>12. ASSUME NEW i \in DOMAIN orders, orders'[i].status = "NEW"
       PROVE  \A j \in Siblings(i) : orders'[j].status = "NEW" <=> New(j)
  BY <1>7, <1>8, <1>12 DEF LongOrders
<1>13. ASSUME NEW side \in OrderSides
       PROVE  Waiting(side)' = {i \in Waiting(side) : i \notin sold /\ i \notin bought /\ i \notin can}
  BY <1>7, <1>10, <1>12 DEF Waiting
<1>14. /\ Waiting("BUY")' = Waiting("BUY") \ bought
       /\ Waiting("SELL")' = Waiting("SELL") \ (sold \cup can)
  <2>1. /\ Waiting("BUY")' = {i \in Waiting("BUY") : i \notin sold /\ i \notin bought /\ i \notin can}
        /\ Waiting("SELL")' = {i \in Waiting("SELL") : i \notin sold /\ i \notin bought /\ i \notin can}
    BY <1>13, NamesTyped
  <2>2. /\ \A i \in Waiting("BUY") : i \notin sold /\ i \notin can
        /\ \A i \in Waiting("SELL") : i \notin bought
    BY <1>2 DEF Waiting
  <2> QED BY <2>1, <2>2
<1>15. bought \subseteq Waiting("BUY")
  BY <1>2 DEF Waiting
<1> QED BY <1>9, <1>11, <1>14, <1>15 DEF fired, sold, bought, can

(* What the sales of a candle free is what was locked for them: for a       *)
(* second leg the first one stands.                                         *)
LEMMA CandleFrees ==
  ASSUME WalletInv, LongOrders, NEW p \in Pairs, NEW c \in Candles
  PROVE  SumFunctionOnSet(Quantity, WaitingSales(p) \ (Sold(Fired(p, c)) \cup CancelledBy(Fired(p, c))))
            = OnSale(p) - SumFunctionOnSet(Quantity, Sold(Fired(p, c)))
<1> DEFINE fired == Fired(p, c)
           sold == Sold(fired)
           can == CancelledBy(fired)
           W == WaitingSales(p)
           r == [i \in sold |-> IF i \in Waiting("SELL") THEN i ELSE CHOOSE j \in Siblings(i) : TRUE]
           image == {r[i] : i \in sold}
<1>0. WalletTypeOK /\ OrdersAreLegs /\ PendingIsIndex
  BY DEF WalletInv
<1>1. /\ \A i \in sold : /\ i \in DOMAIN orders /\ New(i) /\ orders[i].side = "SELL" /\ i \in fired
                         /\ orders[i].pair = p
      /\ \A i \in can : \E k \in sold : Siblings(i) = {k} /\ Siblings(k) = {i}
  BY CandleSides
<1>2. \A i \in sold : \A j \in Siblings(i) : j \notin sold
  BY <1>0, FiredOnce DEF Sold
<1>3. \A i \in sold : \A j \in Siblings(i) : j \in can
  BY DEF CancelledBy
<1>4. \A i \in DOMAIN orders : \A j \in Siblings(i) :
         /\ j \in DOMAIN orders /\ Siblings(i) = {j} /\ Siblings(j) = {i} /\ j # i
         /\ orders[j].pair = orders[i].pair /\ orders[j].side = orders[i].side
         /\ orders[j].qty = orders[i].qty /\ i \in Int /\ j \in Int
  BY <1>0, OneSibling
<1>5. \A i \in Waiting("SELL") : /\ i \in DOMAIN orders /\ New(i)
                                 /\ \A j \in Siblings(i) : New(j) => i < j
  BY DEF Waiting
<1>6. \A i \in DOMAIN orders : \A j \in Siblings(i) : New(i) <=> New(j)
  BY DEF LongOrders
<1> HIDE DEF fired, sold, can
<1>7. ASSUME NEW i \in sold, i \notin Waiting("SELL")
      PROVE  \E j \in Siblings(i) : r[i] = j /\ j \in Waiting("SELL")
  <2>1. PICK j \in Siblings(i) : New(j) /\ ~(i < j)
    BY <1>1, <1>7 DEF Waiting
  <2>2. /\ j \in DOMAIN orders /\ Siblings(i) = {j} /\ Siblings(j) = {i} /\ j # i
        /\ orders[j].side = "SELL" /\ i \in Int /\ j \in Int
    BY <1>1, <1>4, <2>1
  <2>3. j < i
    BY <2>1, <2>2
  <2>4. j \in Waiting("SELL")
    BY <2>1, <2>2, <2>3 DEF Waiting
  <2>5. (CHOOSE x \in Siblings(i) : TRUE) = j
    BY <2>2
  <2> QED BY <1>7, <2>1, <2>4, <2>5
<1>8. \A i \in sold : i \in Waiting("SELL") => r[i] = i
  OBVIOUS
<1> HIDE DEF r
<1>9. ASSUME NEW i \in sold
      PROVE  r[i] \in W /\ Quantity[r[i]] = Quantity[i] /\ (r[i] = i \/ r[i] \in Siblings(i))
  <2>1. CASE i \in Waiting("SELL")
    <3>1. i \in W
      BY <1>1, <2>1 DEF WaitingSales
    <3> QED BY <1>8, <2>1, <3>1
  <2>2. CASE i \notin Waiting("SELL")
    <3>1. PICK j \in Siblings(i) : r[i] = j /\ j \in Waiting("SELL")
      BY <1>7, <2>2
    <3>2. j \in W
      BY <1>1, <1>4, <3>1 DEF WaitingSales
    <3>3. Quantity[j] = Quantity[i]
      BY <1>1, <1>4, <3>1 DEF Quantity
    <3> QED BY <3>1, <3>2, <3>3
  <2> QED BY <2>1, <2>2
<1>10. ASSUME NEW x \in sold, NEW y \in sold, r[x] = r[y] PROVE x = y
  <2>1. CASE r[x] = x /\ r[y] = y
    BY <1>10, <2>1
  <2>2. CASE r[x] \in Siblings(x) /\ r[y] \in Siblings(y)
    <3>1. Siblings(r[x]) = {x} /\ Siblings(r[y]) = {y}
      BY <1>1, <1>4, <2>2
    <3> QED BY <1>10, <3>1
  <2>3. CASE r[x] = x /\ r[y] \in Siblings(y)
    BY <1>2, <1>10, <2>3
  <2>4. CASE r[x] \in Siblings(x) /\ r[y] = y
    BY <1>2, <1>10, <2>4
  <2> QED BY <1>9, <2>1, <2>2, <2>3, <2>4
<1>11. image \subseteq W /\ image \subseteq sold \cup can
  BY <1>3, <1>9
<1>12. ASSUME NEW x \in W, x \in sold \cup can PROVE x \in image
  <2>1. x \in Waiting("SELL")
    BY <1>12 DEF WaitingSales
  <2>2. CASE x \in sold
    <3>1. r[x] = x
      BY <1>8, <2>1, <2>2
    <3> QED BY <2>2, <3>1
  <2>3. CASE x \in can
    <3>1. PICK k \in sold : Siblings(x) = {k} /\ Siblings(k) = {x}
      BY <1>1, <2>3
    <3>2. k \notin Waiting("SELL")
      <4>1. k \in DOMAIN orders /\ k \in Int /\ x \in Int /\ New(k) /\ New(x)
        BY <1>1, <1>4, <1>5, <2>1, <3>1
      <4>2. x < k
        BY <1>5, <2>1, <3>1, <4>1
      <4>3. ~(k < x)
        BY <4>1, <4>2
      <4> QED BY <1>5, <3>1, <4>1, <4>3
    <3>3. r[k] = x
      BY <1>7, <3>1, <3>2
    <3> QED BY <3>3
  <2> QED BY <1>12, <2>2, <2>3
<1>13. W \ (sold \cup can) = W \ image
  BY <1>11, <1>12
<1>14. sold \in SUBSET DOMAIN orders /\ W \in SUBSET DOMAIN orders
  BY <1>1, SetsTyped
<1>15. /\ IsFiniteSet(sold) /\ IntOn(Quantity, sold) /\ IsFiniteSet(W) /\ IntOn(Quantity, W)
  BY <1>0, <1>14, SumsTyped
<1>16. SumFunctionOnSet(Quantity, image) = SumFunctionOnSet(Quantity, sold)
  <2>1. \A x \in sold : Quantity[r[x]] = Quantity[x]
    BY <1>9
  <2> QED BY <1>10, <1>15, <2>1, SumRenamed
<1>17. SumFunctionOnSet(Quantity, W \ image)
          = SumFunctionOnSet(Quantity, W) - SumFunctionOnSet(Quantity, image)
  <2> HIDE DEF W, image
  <2> QED BY <1>11, <1>15, SumWithout
<1> QED BY <1>13, <1>16, <1>17 DEF OnSale, sold, can, fired

(* What the orders say after a candle.                                      *)
LEMMA CandleBooks ==
  ASSUME WalletInv, LongOrders, NEW p \in Pairs, NEW c \in Candles, OnCandle(p, c),
         NEW sold, sold = Sold(Fired(p, c)), NEW bought, bought = Bought(Fired(p, c))
  PROVE  /\ Earned' = Earned + SumFunctionOnSet(Cost, sold)
         /\ Spent' = Spent + SumFunctionOnSet(Cost, bought)
         /\ BuysLocked' = BuysLocked - SumFunctionOnSet(Cost, bought)
         /\ \A q \in Pairs :
               /\ BoughtOf(q)' = BoughtOf(q) + Part(q = p, SumFunctionOnSet(Quantity, bought))
               /\ SoldOf(q)' = SoldOf(q) + Part(q = p, SumFunctionOnSet(Quantity, sold))
               /\ OnSale(q)' = OnSale(q) - Part(q = p, SumFunctionOnSet(Quantity, sold))
<1> DEFINE can == CancelledBy(Fired(p, c))
           Q(X) == SumFunctionOnSet(Quantity, X)
           C(X) == SumFunctionOnSet(Cost, X)
<1>0. WalletTypeOK /\ OrdersAreLegs /\ PendingIsIndex
  BY DEF WalletInv
<1>1. /\ \A i \in sold : i \in DOMAIN orders /\ New(i) /\ orders[i].pair = p
      /\ \A i \in bought : i \in DOMAIN orders /\ New(i) /\ orders[i].pair = p
      /\ \A i \in can : i \in DOMAIN orders /\ orders[i].pair = p
  BY CandleSides
<1>2. /\ Filled("SELL")' = Filled("SELL") \cup sold
      /\ Filled("BUY")' = Filled("BUY") \cup bought
      /\ Waiting("BUY")' = Waiting("BUY") \ bought /\ bought \subseteq Waiting("BUY")
      /\ Waiting("SELL")' = Waiting("SELL") \ (sold \cup can)
  BY CandleSets
<1>3. /\ Kept /\ DOMAIN orders' = DOMAIN orders
  BY <1>0, CandleOrders
<1>4. AmountsKept /\ \A i \in DOMAIN orders : orders'[i].pair = orders[i].pair
  BY <1>0, <1>3, KeptAmounts, KeptFields
<1>5. Q(WaitingSales(p) \ (sold \cup can)) = OnSale(p) - Q(sold)
  BY CandleFrees
<1> HIDE DEF can
<1>6. sold \in SUBSET DOMAIN orders /\ bought \in SUBSET DOMAIN orders
  BY <1>1
<1>7. \A X \in SUBSET DOMAIN orders :
         SumFunctionOnSet(Quantity', X) = Q(X) /\ SumFunctionOnSet(Cost', X) = C(X)
  BY <1>0, <1>4, SumsKept
<1>8. ASSUME NEW X \in SUBSET DOMAIN orders, NEW Y \in SUBSET DOMAIN orders, X \cap Y = {}
      PROVE  Q(X \cup Y) = Q(X) + Q(Y) /\ C(X \cup Y) = C(X) + C(Y)
  <2>1. X \cup Y \in SUBSET DOMAIN orders
    OBVIOUS
  <2>2. IsFiniteSet(X \cup Y) /\ IntOn(Quantity, X \cup Y) /\ IntOn(Cost, X \cup Y)
    BY <1>0, <2>1, SumsTyped
  <2> QED BY <1>8, <2>2, SumUnion
<1>9. \A side \in OrderSides : /\ Filled(side) \in SUBSET DOMAIN orders
                               /\ Filled(side) \cap sold = {} /\ Filled(side) \cap bought = {}
  BY <1>1 DEF Filled, New
<1>10. Earned' = Earned + C(sold) /\ Spent' = Spent + C(bought)
  <2>1. C(Filled("SELL") \cup sold) = C(Filled("SELL")) + C(sold)
    BY <1>6, <1>8, <1>9, NamesTyped
  <2>2. C(Filled("BUY") \cup bought) = C(Filled("BUY")) + C(bought)
    BY <1>6, <1>8, <1>9, NamesTyped
  <2>3. Filled("SELL") \cup sold \in SUBSET DOMAIN orders /\ Filled("BUY") \cup bought \in SUBSET DOMAIN orders
    BY <1>6, <1>9, NamesTyped
  <2>4. Earned' = C(Filled("SELL") \cup sold) /\ Spent' = C(Filled("BUY") \cup bought)
    BY <1>2, <1>7, <2>3 DEF Earned, Spent
  <2> QED BY <2>1, <2>2, <2>4 DEF Earned, Spent
<1>11. BuysLocked' = BuysLocked - C(bought)
  <2>1. Waiting("BUY") \in SUBSET DOMAIN orders
    BY SetsTyped, NamesTyped
  <2>2. IsFiniteSet(Waiting("BUY")) /\ IntOn(Cost, Waiting("BUY"))
    BY <1>0, <2>1, SumsTyped
  <2>3. C(Waiting("BUY") \ bought) = C(Waiting("BUY")) - C(bought)
    BY <1>2, <2>2, SumWithout
  <2>4. Waiting("BUY") \ bought \in SUBSET DOMAIN orders
    BY <2>1
  <2>5. BuysLocked' = C(Waiting("BUY") \ bought)
    BY <1>2, <1>7, <2>4 DEF BuysLocked
  <2> QED BY <2>3, <2>5 DEF BuysLocked
<1>12. ASSUME NEW q \in Pairs
       PROVE  /\ BoughtOf(q)' = BoughtOf(q) + Part(q = p, Q(bought))
              /\ SoldOf(q)' = SoldOf(q) + Part(q = p, Q(sold))
              /\ OnSale(q)' = OnSale(q) - Part(q = p, Q(sold))
  <2>1. /\ FilledOf("BUY", q)' = IF q = p THEN FilledOf("BUY", q) \cup bought ELSE FilledOf("BUY", q)
        /\ FilledOf("SELL", q)' = IF q = p THEN FilledOf("SELL", q) \cup sold ELSE FilledOf("SELL", q)
    <3>1. /\ FilledOf("BUY", q)' = {i \in Filled("BUY")' : orders'[i].pair = q}
          /\ FilledOf("SELL", q)' = {i \in Filled("SELL")' : orders'[i].pair = q}
      BY DEF FilledOf
    <3>2. Filled("BUY") \in SUBSET DOMAIN orders /\ Filled("SELL") \in SUBSET DOMAIN orders
      BY SetsTyped, NamesTyped
    <3> QED BY <1>1, <1>2, <1>4, <3>1, <3>2 DEF FilledOf
  <2>2. WaitingSales(q)' = IF q = p THEN WaitingSales(q) \ (sold \cup can) ELSE WaitingSales(q)
    <3>1. WaitingSales(q)' = {i \in Waiting("SELL")' : orders'[i].pair = q}
      BY DEF WaitingSales
    <3>2. Waiting("SELL") \in SUBSET DOMAIN orders
      BY SetsTyped, NamesTyped
    <3> QED BY <1>1, <1>2, <1>4, <3>1, <3>2 DEF WaitingSales
  <2>3. /\ FilledOf("BUY", q) \in SUBSET DOMAIN orders /\ FilledOf("BUY", q) \cap bought = {}
        /\ FilledOf("SELL", q) \in SUBSET DOMAIN orders /\ FilledOf("SELL", q) \cap sold = {}
        /\ WaitingSales(q) \in SUBSET DOMAIN orders
    BY <1>9, SetsTyped, NamesTyped DEF FilledOf
  <2>4. BoughtOf(q) \in Nat /\ SoldOf(q) \in Nat /\ OnSale(q) \in Nat
    BY <1>0, BooksTyped
  <2>5. CASE q = p
    <3>1. /\ Q(FilledOf("BUY", q) \cup bought) = BoughtOf(q) + Q(bought)
          /\ Q(FilledOf("SELL", q) \cup sold) = SoldOf(q) + Q(sold)
      BY <1>6, <1>8, <2>3 DEF BoughtOf, SoldOf
    <3>2. /\ FilledOf("BUY", q) \cup bought \in SUBSET DOMAIN orders
          /\ FilledOf("SELL", q) \cup sold \in SUBSET DOMAIN orders
          /\ WaitingSales(q) \ (sold \cup can) \in SUBSET DOMAIN orders
      BY <1>6, <2>3
    <3>3. /\ BoughtOf(q)' = Q(FilledOf("BUY", q) \cup bought)
          /\ SoldOf(q)' = Q(FilledOf("SELL", q) \cup sold)
          /\ OnSale(q)' = Q(WaitingSales(q) \ (sold \cup can))
      BY <1>7, <2>1, <2>2, <2>5, <3>2 DEF BoughtOf, SoldOf, OnSale
    <3> QED BY <1>5, <2>5, <3>1, <3>3 DEF Part
  <2>6. CASE q # p
    <3>1. BoughtOf(q)' = BoughtOf(q) /\ SoldOf(q)' = SoldOf(q) /\ OnSale(q)' = OnSale(q)
      BY <1>7, <2>1, <2>2, <2>3, <2>6 DEF BoughtOf, SoldOf, OnSale
    <3> QED BY <2>4, <2>6, <3>1 DEF Part
  <2> QED BY <2>5, <2>6
<1> QED BY <1>10, <1>11, <1>12

(* A candle.                                                                *)
LEMMA LongCandle ==
  ASSUME WalletInv, LongOrders, Funds, Books,
         NEW p \in Pairs, NEW c \in Candles, OnCandle(p, c)
  PROVE  LongOrders' /\ Funds' /\ Books'
<1>0. WalletTypeOK /\ OrdersAreLegs /\ PendingIsIndex
  BY DEF WalletInv
<1>1. PICK sold, bought : sold = Sold(Fired(p, c)) /\ bought = Bought(Fired(p, c))
  OBVIOUS
<1> DEFINE qs == SumFunctionOnSet(Quantity, sold)
           qb == SumFunctionOnSet(Quantity, bought)
           cs == SumFunctionOnSet(Cost, sold)
           cb == SumFunctionOnSet(Cost, bought)
<1>2. sold \in SUBSET DOMAIN orders /\ bought \in SUBSET DOMAIN orders
  BY <1>0, <1>1, FiredWaits
<1>3. qs \in Nat /\ qb \in Nat /\ cs \in Nat /\ cb \in Nat
  BY <1>0, <1>2, SumsTyped
<1>4. SumFunctionOnSet(Volume, sold) = cs /\ SumFunctionOnSet(Volume, bought) = cb
  <2>1. \A X \in SUBSET DOMAIN orders : SumFunctionOnSet(Volume, X) = SumFunctionOnSet(Cost, X)
    <3> SUFFICES ASSUME NEW X \in SUBSET DOMAIN orders
                 PROVE  SumFunctionOnSet(Volume, X) = SumFunctionOnSet(Cost, X)
      OBVIOUS
    <3>1. IsFiniteSet(X) /\ IntOn(Volume, X)
      BY <1>0, SumsTyped
    <3>2. \A i \in X : Volume[i] = Cost[i]
      BY DEF Volume, Cost, LongOrders
    <3> QED BY <3>1, <3>2, SumSame
  <2> QED BY <1>2, <2>1
<1>5. /\ style' = style
      /\ assets' = [assets EXCEPT ![p] = [free |-> @.free + qb, lock |-> @.lock - qs]]
      /\ quote' = [free |-> quote.free + cs, lock |-> quote.lock - cb]
  BY <1>1, <1>4 DEF OnCandle
<1>6. /\ Earned' = Earned + cs /\ Spent' = Spent + cb /\ BuysLocked' = BuysLocked - cb
      /\ \A q \in Pairs : /\ BoughtOf(q)' = BoughtOf(q) + Part(q = p, qb)
                          /\ SoldOf(q)' = SoldOf(q) + Part(q = p, qs)
                          /\ OnSale(q)' = OnSale(q) - Part(q = p, qs)
  BY <1>1, CandleBooks
<1>7. LongOrders'
  BY CandleSets
<1> HIDE DEF qs, qb, cs, cb
<1>8. /\ quote.free \in Int /\ quote.lock \in Int /\ InitQuote \in Nat /\ InitAsset \in Nat
      /\ assets \in [Pairs -> BalanceType]
      /\ \A q \in Pairs : assets[q].free \in Int /\ assets[q].lock \in Int
      /\ Spent \in Nat /\ Earned \in Nat /\ BuysLocked \in Nat
      /\ \A q \in Pairs : BoughtOf(q) \in Nat /\ SoldOf(q) \in Nat /\ OnSale(q) \in Nat
  BY <1>0, BooksTyped, WalletAssumption DEF WalletTypeOK, BalanceType
<1>9. /\ quote'.free = quote.free + cs /\ quote'.lock = quote.lock - cb
      /\ \A q \in Pairs : /\ assets'[q].free = assets[q].free + Part(q = p, qb)
                          /\ assets'[q].lock = assets[q].lock - Part(q = p, qs)
  <2>1. /\ assets'[p].free = assets[p].free + qb /\ assets'[p].lock = assets[p].lock - qs
        /\ \A q \in Pairs : q # p => assets'[q] = assets[q]
    BY <1>5, <1>8
  <2>2. quote'.free = quote.free + cs /\ quote'.lock = quote.lock - cb
    BY <1>5
  <2> QED BY <1>8, <2>1, <2>2 DEF Part
<1>10. \A q \in Pairs : Part(q = p, qb) \in Nat /\ Part(q = p, qs) \in Nat
  BY <1>3 DEF Part
<1>11. Funds'
  <2>1. /\ quote'.free >= 0 /\ quote'.lock >= BuysLocked'
        /\ "buyWhileSelling" \notin style.cancels => quote'.lock = BuysLocked'
    BY <1>3, <1>6, <1>8, <1>9 DEF Funds
  <2>2. ASSUME NEW q \in Pairs PROVE assets'[q].free >= 0 /\ assets'[q].lock = OnSale(q)'
    <3>1. assets[q].lock = OnSale(q) /\ assets[q].free >= 0
      BY DEF Funds
    <3> QED BY <1>6, <1>8, <1>9, <1>10, <3>1
  <2> QED BY <1>5, <2>1, <2>2 DEF Funds
<1>12. Books'
  <2>1. InitQuote + Earned' - Spent' = quote'.free + quote'.lock
    BY <1>3, <1>6, <1>8, <1>9 DEF Books
  <2>2. ASSUME NEW q \in Pairs
        PROVE  InitAsset + BoughtOf(q)' - SoldOf(q)' = assets'[q].free + assets'[q].lock
    <3>1. InitAsset + BoughtOf(q) - SoldOf(q) = assets[q].free + assets[q].lock
      BY DEF Books
    <3>2. /\ InitAsset \in Nat /\ BoughtOf(q) \in Nat /\ SoldOf(q) \in Nat
          /\ assets[q].free \in Int /\ assets[q].lock \in Int
          /\ Part(q = p, qb) \in Nat /\ Part(q = p, qs) \in Nat
      BY <1>8, <1>10
    <3>3. /\ BoughtOf(q)' = BoughtOf(q) + Part(q = p, qb)
          /\ SoldOf(q)' = SoldOf(q) + Part(q = p, qs)
      BY <1>6
    <3>4. /\ assets'[q].free = assets[q].free + Part(q = p, qb)
          /\ assets'[q].lock = assets[q].lock - Part(q = p, qs)
      BY <1>9
    <3> QED BY ONLY <3>1, <3>2, <3>3, <3>4
  <2> QED BY <2>1, <2>2 DEF Books
<1> QED BY <1>7, <1>11, <1>12

(* What the orders say after a cancellation.                                *)
LEMMA CancelBooks ==
  ASSUME WalletInv, LongOnly, LongOrders, NEW x \in DOMAIN orders, CancelWaiting(x)
  PROVE  /\ LongOrders' /\ Earned' = Earned /\ Spent' = Spent
         /\ BuysLocked' = BuysLocked - Part(orders[x].side = "BUY", orders[x].price * orders[x].qty)
         /\ \A q \in Pairs :
               /\ BoughtOf(q)' = BoughtOf(q) /\ SoldOf(q)' = SoldOf(q)
               /\ OnSale(q)' = OnSale(q) - Part(orders[x].side = "SELL" /\ q = orders[x].pair, orders[x].qty)
         /\ orders[x].side = "SELL" => OnSale(orders[x].pair) >= orders[x].qty
<1> DEFINE o == orders[x]
           Q(X) == SumFunctionOnSet(Quantity, X)
           C(X) == SumFunctionOnSet(Cost, X)
<1>0. WalletTypeOK /\ OrdersAreLegs
  BY DEF WalletInv
<1>1. New(x) /\ o.group = 0 /\ Siblings(x) = {} /\ \A i \in DOMAIN orders : x \notin Siblings(i)
  <2>1. New(x) /\ CancelKind(x) # "leg"
    BY DEF CancelWaiting, Cancel, LongOnly
  <2>2. o.group = 0
    BY <2>1 DEF CancelKind
  <2> QED BY <2>1, <2>2 DEF Siblings
<1>2. /\ Kept /\ DOMAIN orders' = DOMAIN orders
      /\ orders'[x].status = "CANCELED"
      /\ \A j \in DOMAIN orders : j # x => orders'[j] = orders[j]
  BY <1>0, CancelTyped
<1>3. /\ \A i \in DOMAIN orders : Siblings(i)' = Siblings(i) /\ Siblings(i) \subseteq DOMAIN orders
  BY <1>0, <1>2, SiblingsSame
<1>4. \A i \in DOMAIN orders : /\ orders'[i].side = orders[i].side /\ orders'[i].group = orders[i].group
                               /\ orders'[i].qty = orders[i].qty /\ orders'[i].price = orders[i].price
                               /\ orders'[i].pair = orders[i].pair
                               /\ FillPrice(orders'[i]) = FillPrice(orders[i])
  BY <1>0, <1>2, KeptFields
<1>5. AmountsKept
  BY <1>0, <1>2, KeptAmounts
<1>6. /\ o \in OrderType /\ o.qty \in Nat /\ o.price \in Nat /\ o.side \in OrderSides /\ o.pair \in Pairs
      /\ o.side \in {"BUY", "SELL"}
  BY <1>0, OrdersTyped DEF OrderType, OrderSides
<1>7. LongOrders'
  <2>1. \A i \in DOMAIN orders' :
           /\ orders'[i].qty > 0
           /\ orders'[i].side = "BUY" => orders'[i].group = 0
           /\ \A j \in Siblings(i)' : orders'[i].status = "NEW" <=> orders'[j].status = "NEW"
           /\ FillPrice(orders'[i]) = orders'[i].price
    <3> SUFFICES ASSUME NEW i \in DOMAIN orders
                 PROVE  /\ orders'[i].qty > 0
                        /\ orders'[i].side = "BUY" => orders'[i].group = 0
                        /\ \A j \in Siblings(i) : orders'[i].status = "NEW" <=> orders'[j].status = "NEW"
                        /\ FillPrice(orders'[i]) = orders'[i].price
      BY <1>2, <1>3
    <3>1. \A j \in Siblings(i) : orders'[i].status = "NEW" <=> orders'[j].status = "NEW"
      BY <1>1, <1>2, <1>3 DEF LongOrders, New
    <3> QED BY <1>4, <3>1 DEF LongOrders
  <2> QED BY <2>1 DEF LongOrders, New, FillPrice
<1>8. ASSUME NEW side \in OrderSides
      PROVE  Filled(side)' = Filled(side) /\ Waiting(side)' = Waiting(side) \ {x}
  <2>1. /\ Filled(side)' = {i \in DOMAIN orders' : orders'[i].status = "FILLED" /\ orders'[i].side = side}
        /\ Waiting(side)' = {i \in DOMAIN orders' :
                               /\ orders'[i].status = "NEW" /\ orders'[i].side = side
                               /\ \A j \in Siblings(i)' : orders'[j].status = "NEW" => i < j}
    BY DEF Filled, Waiting, New
  <2>2. Filled(side)' = Filled(side)
    BY <1>1, <1>2, <1>4, <2>1 DEF Filled, New
  <2>3. ASSUME NEW i \in DOMAIN orders, i # x
        PROVE  i \in Waiting(side)' <=> i \in Waiting(side)
    <3>1. \A j \in Siblings(i) : orders'[j] = orders[j]
      BY <1>1, <1>2, <1>3
    <3> QED BY <1>2, <1>3, <2>1, <2>3, <3>1 DEF Waiting, New
  <2>4. x \notin Waiting(side)' /\ Waiting(side)' \subseteq DOMAIN orders /\ Waiting(side) \subseteq DOMAIN orders
    BY <1>2, <2>1 DEF Waiting
  <2> QED BY <2>2, <2>3, <2>4
<1>9. x \in Waiting(o.side)
  BY <1>1 DEF Waiting
<1>10. \A X \in SUBSET DOMAIN orders :
         SumFunctionOnSet(Quantity', X) = Q(X) /\ SumFunctionOnSet(Cost', X) = C(X)
  BY <1>0, <1>5, SumsKept
<1>11. Quantity[x] = o.qty /\ Cost[x] = o.price * o.qty
  BY DEF Quantity, Cost
<1> DEFINE cost == o.price * o.qty
<1>12. cost \in Nat
  BY <1>6
<1> HIDE DEF o, cost
<1>13. /\ Filled("BUY") \in SUBSET DOMAIN orders /\ Filled("SELL") \in SUBSET DOMAIN orders
       /\ Waiting("BUY") \in SUBSET DOMAIN orders /\ Waiting("SELL") \in SUBSET DOMAIN orders
  BY SetsTyped, NamesTyped
<1>14. Earned' = Earned /\ Spent' = Spent
  BY <1>8, <1>10, <1>13, NamesTyped DEF Earned, Spent
<1>15. BuysLocked' = BuysLocked - Part(o.side = "BUY", cost)
  <2> DEFINE W == Waiting("BUY")
  <2>1. IsFiniteSet(W) /\ IntOn(Cost, W) /\ C(W) \in Nat /\ W \ {x} \in SUBSET DOMAIN orders
    BY <1>0, <1>13, SumsTyped
  <2>2. BuysLocked' = C(W \ {x})
    BY <1>8, <1>10, <2>1, NamesTyped DEF BuysLocked
  <2>3. BuysLocked = C(W)
    BY DEF BuysLocked
  <2>4. CASE o.side = "BUY"
    <3>1. x \in W
      BY <1>9, <2>4
    <3> HIDE DEF W
    <3>2. C(W) = cost + C(W \ {x})
      BY <1>11, <2>1, <3>1, SumRemove DEF cost, o
    <3>3. C(W \ {x}) \in Int
      BY <1>0, <2>1, SumsTyped
    <3> HIDE DEF C
    <3> QED BY <1>12, <2>1, <2>2, <2>3, <2>4, <3>2, <3>3 DEF Part
  <2>5. CASE o.side # "BUY"
    <3>1. W \ {x} = W
      BY <2>5 DEF Waiting, o
    <3> QED BY <2>1, <2>2, <2>3, <2>5, <3>1 DEF Part
  <2> QED BY <2>4, <2>5
<1>16. ASSUME NEW q \in Pairs
       PROVE  /\ BoughtOf(q)' = BoughtOf(q) /\ SoldOf(q)' = SoldOf(q)
              /\ OnSale(q)' = OnSale(q) - Part(o.side = "SELL" /\ q = o.pair, o.qty)
              /\ o.side = "SELL" /\ q = o.pair => OnSale(q) >= o.qty
  <2> DEFINE W == WaitingSales(q)
  <2>1. /\ FilledOf("BUY", q) \in SUBSET DOMAIN orders /\ FilledOf("SELL", q) \in SUBSET DOMAIN orders
        /\ W \in SUBSET DOMAIN orders
    BY SetsTyped, NamesTyped
  <2>2. FilledOf("BUY", q)' = FilledOf("BUY", q) /\ FilledOf("SELL", q)' = FilledOf("SELL", q)
    <3>1. /\ FilledOf("BUY", q)' = {i \in Filled("BUY")' : orders'[i].pair = q}
          /\ FilledOf("SELL", q)' = {i \in Filled("SELL")' : orders'[i].pair = q}
      BY DEF FilledOf
    <3> QED BY <1>4, <1>8, <1>13, <3>1, NamesTyped DEF FilledOf
  <2>3. WaitingSales(q)' = W \ {x}
    <3>1. WaitingSales(q)' = {i \in Waiting("SELL")' : orders'[i].pair = q}
      BY DEF WaitingSales
    <3> QED BY <1>4, <1>8, <1>13, <3>1, NamesTyped DEF WaitingSales
  <2>4. BoughtOf(q)' = BoughtOf(q) /\ SoldOf(q)' = SoldOf(q)
    BY <1>10, <2>1, <2>2 DEF BoughtOf, SoldOf
  <2>5. OnSale(q) = Q(W) /\ OnSale(q)' = Q(W \ {x})
    <3>1. W \ {x} \in SUBSET DOMAIN orders
      BY <2>1
    <3> QED BY <1>10, <2>3, <3>1 DEF OnSale
  <2>6. IsFiniteSet(W) /\ IntOn(Quantity, W) /\ Q(W) \in Nat /\ Q(W \ {x}) \in Nat
    <3>1. W \ {x} \in SUBSET DOMAIN orders
      BY <2>1
    <3> HIDE DEF W
    <3> QED BY <1>0, <2>1, <3>1, SumsTyped
  <2>7. CASE o.side = "SELL" /\ q = o.pair
    <3>1. x \in W
      BY <1>9, <2>7 DEF WaitingSales, o
    <3> HIDE DEF W
    <3>2. Q(W) = o.qty + Q(W \ {x})
      BY <1>11, <2>6, <3>1, SumRemove
    <3> HIDE DEF Q
    <3> QED BY <1>6, <2>4, <2>5, <2>6, <2>7, <3>2 DEF Part
  <2>8. CASE ~(o.side = "SELL" /\ q = o.pair)
    <3>1. W \ {x} = W
      BY <2>8 DEF WaitingSales, Waiting, o
    <3> HIDE DEF W, Q
    <3> QED BY <2>4, <2>5, <2>6, <2>8, <3>1 DEF Part
  <2> QED BY <2>7, <2>8
<1> QED BY <1>6, <1>7, <1>14, <1>15, <1>16 DEF o, cost

(* A cancellation unlocks what the order had locked; a buy that is          *)
(* cancelled while something is on sale leaves its money locked.            *)
LEMMA LongCancel ==
  ASSUME WalletInv, LongOnly, LongOrders, Funds, Books, NEW x \in DOMAIN orders, CancelWaiting(x)
  PROVE  LongOrders' /\ Funds' /\ Books'
<1>0. PICK o, p : o = orders[x] /\ p = orders[x].pair
  OBVIOUS
<1>1. WalletTypeOK
  BY DEF WalletInv
<1>2. /\ o.qty \in Nat /\ o.price \in Nat /\ o.side \in {"BUY", "SELL"} /\ p \in Pairs
      /\ o.qty > 0
  BY <1>0, <1>1, OrdersTyped DEF OrderType, LongOrders
<1> DEFINE cost == o.price * o.qty
<1>3. cost \in Nat
  BY <1>2
<1>4. /\ LongOrders' /\ Earned' = Earned /\ Spent' = Spent
      /\ BuysLocked' = BuysLocked - Part(o.side = "BUY", cost)
      /\ \A q \in Pairs : /\ BoughtOf(q)' = BoughtOf(q) /\ SoldOf(q)' = SoldOf(q)
                          /\ OnSale(q)' = OnSale(q) - Part(o.side = "SELL" /\ q = p, o.qty)
      /\ o.side = "SELL" => OnSale(p) >= o.qty
  BY <1>0, CancelBooks
<1>5. /\ quote.free \in Int /\ quote.lock \in Int
      /\ assets \in [Pairs -> BalanceType]
      /\ \A q \in Pairs : assets[q].free \in Int /\ assets[q].lock \in Int
      /\ Spent \in Nat /\ Earned \in Nat /\ BuysLocked \in Nat /\ InitQuote \in Nat
      /\ \A q \in Pairs : BoughtOf(q) \in Nat /\ SoldOf(q) \in Nat /\ OnSale(q) \in Nat
  BY <1>1, BooksTyped, WalletAssumption DEF WalletTypeOK, BalanceType
<1>6. /\ quote.free >= 0 /\ quote.lock >= BuysLocked
      /\ "buyWhileSelling" \notin style.cancels => quote.lock = BuysLocked
      /\ \A q \in Pairs : assets[q].free >= 0 /\ assets[q].lock = OnSale(q)
  BY DEF Funds
<1>7. style' = style /\ CancelKind(x) \in style.cancels /\ CancelKind(x) # "leg"
  BY DEF CancelWaiting, Cancel, LongOnly
<1> DEFINE give == o.side = "BUY" /\ assets[p].lock = 0
<1>8. o.side = "BUY" /\ ~give => "buyWhileSelling" \in style.cancels
  <2>1. assets[p].lock \in Nat
    BY <1>2, <1>5, <1>6
  <2>2. ASSUME o.side = "BUY", assets[p].lock > 0 PROVE "buyWhileSelling" \in style.cancels
    <3>1. CancelKind(x) = "leg" \/ CancelKind(x) = "buyWhileSelling"
      BY <1>0, <2>2 DEF CancelKind
    <3> QED BY <1>7, <3>1
  <2> QED BY <2>1, <2>2
<1>9. /\ quote'.free = quote.free + Part(give, cost) /\ quote'.lock = quote.lock - Part(give, cost)
      /\ \A q \in Pairs : /\ assets'[q].free = assets[q].free + Part(o.side = "SELL" /\ q = p, o.qty)
                          /\ assets'[q].lock = assets[q].lock - Part(o.side = "SELL" /\ q = p, o.qty)
  <2>1. Unlock(o)
    BY <1>0 DEF CancelWaiting, Cancel
  <2>2. CASE o.side = "SELL"
    <3>1. assets[p].lock > 0
      BY <1>2, <1>4, <1>5, <1>6, <2>2
    <3>2. /\ assets' = [assets EXCEPT ![p] = [free |-> @.free + o.qty, lock |-> @.lock - o.qty]]
          /\ quote' = quote
      BY <1>0, <2>1, <2>2, <3>1 DEF Unlock
    <3>3. /\ assets'[p].free = assets[p].free + o.qty /\ assets'[p].lock = assets[p].lock - o.qty
          /\ \A q \in Pairs : q # p => assets'[q] = assets[q]
      BY <1>2, <1>5, <3>2
    <3> QED BY <1>2, <1>5, <2>2, <3>2, <3>3 DEF Part
  <2>3. CASE o.side = "BUY"
    <3>1. /\ assets' = assets
          /\ quote' = IF assets[p].lock = 0 THEN [free |-> quote.free + cost, lock |-> quote.lock - cost]
                                            ELSE quote
      BY <1>0, <2>1, <2>3 DEF Unlock
    <3>2. /\ quote'.free = quote.free + Part(give, cost) /\ quote'.lock = quote.lock - Part(give, cost)
      <4> HIDE DEF cost
      <4> QED BY <1>3, <1>5, <2>3, <3>1 DEF Part
    <3> QED BY <1>5, <2>3, <3>1, <3>2 DEF Part
  <2> QED BY <1>2, <2>2, <2>3
<1>10. /\ Part(give, cost) \in Nat /\ Part(o.side = "BUY", cost) \in Nat
       /\ Part(give, cost) <= Part(o.side = "BUY", cost)
       /\ "buyWhileSelling" \notin style.cancels => Part(give, cost) = Part(o.side = "BUY", cost)
       /\ \A q \in Pairs : Part(o.side = "SELL" /\ q = p, o.qty) \in Nat
  <2> HIDE DEF cost
  <2> QED BY <1>2, <1>3, <1>8 DEF Part
<1> HIDE DEF cost, give
<1>11. Funds'
  <2>1. quote'.free >= 0 /\ quote'.lock >= BuysLocked'
    BY <1>4, <1>5, <1>6, <1>9, <1>10
  <2>2. "buyWhileSelling" \notin style.cancels => quote'.lock = BuysLocked'
    BY <1>4, <1>5, <1>6, <1>9, <1>10
  <2>3. ASSUME NEW q \in Pairs PROVE assets'[q].free >= 0 /\ assets'[q].lock = OnSale(q)'
    BY <1>4, <1>5, <1>6, <1>9, <1>10
  <2> QED BY <1>7, <2>1, <2>2, <2>3 DEF Funds
<1>12. Books'
  <2>1. InitQuote + Earned' - Spent' = quote'.free + quote'.lock
    BY <1>4, <1>5, <1>9, <1>10 DEF Books
  <2>2. ASSUME NEW q \in Pairs
        PROVE  InitAsset + BoughtOf(q)' - SoldOf(q)' = assets'[q].free + assets'[q].lock
    <3>1. InitAsset + BoughtOf(q) - SoldOf(q) = assets[q].free + assets[q].lock
      BY DEF Books
    <3> QED BY <1>4, <1>5, <1>9, <1>10, <3>1
  <2> QED BY <2>1, <2>2 DEF Books
<1> QED BY <1>4, <1>11, <1>12

(* A wallet starts with its initial balances and no orders.                 *)
LEMMA LongBooksInit == Init => LongOrders /\ Funds /\ Books
<1> SUFFICES ASSUME Init PROVE LongOrders /\ Funds /\ Books
  OBVIOUS
<1>1. orders = <<>> /\ DOMAIN orders = {}
  BY DEF Init
<1>2. /\ \A side \in OrderSides : Filled(side) = {} /\ Waiting(side) = {}
      /\ \A p \in Pairs : WaitingSales(p) = {} /\ \A side \in OrderSides : FilledOf(side, p) = {}
  BY <1>1 DEF Filled, Waiting, WaitingSales, FilledOf
<1>3. /\ BuysLocked = 0 /\ Spent = 0 /\ Earned = 0
      /\ \A p \in Pairs : BoughtOf(p) = 0 /\ SoldOf(p) = 0 /\ OnSale(p) = 0
  BY <1>2, SumEmpty, NamesTyped DEF BuysLocked, Spent, Earned, BoughtOf, SoldOf, OnSale
<1>4. /\ quote = [free |-> InitQuote, lock |-> 0] /\ InitQuote \in Nat /\ InitAsset \in Nat
      /\ \A p \in Pairs : assets[p] = [free |-> InitAsset, lock |-> 0]
  BY WalletAssumption DEF Init
<1>5. LongOrders
  BY <1>1 DEF LongOrders
<1>6. Funds
  BY <1>3, <1>4 DEF Funds
<1>7. Books
  BY <1>3, <1>4 DEF Books
<1> QED BY <1>5, <1>6, <1>7

(* So also where that is what is asked.                                     *)
LEMMA LongInvInit == Init => LongInv
  BY LongBooksInit DEF LongInv

(* A step that leaves the wallet alone.                                     *)
LEMMA LongBooksKept ==
  ASSUME LongOrders, Funds, Books, UNCHANGED vars
  PROVE  LongOrders' /\ Funds' /\ Books'
<1>1. style' = style /\ quote' = quote /\ assets' = assets /\ orders' = orders
  BY DEF vars, balVars
<1>2. Quantity' = Quantity /\ Cost' = Cost
  BY <1>1 DEF Quantity, Cost
<1>3. /\ \A side : Filled(side)' = Filled(side) /\ Waiting(side)' = Waiting(side)
      /\ \A i : Siblings(i)' = Siblings(i) /\ New(i)' = New(i)
  BY <1>1 DEF Filled, Waiting, Siblings, New
<1>4. /\ \A p : WaitingSales(p)' = WaitingSales(p)
      /\ \A side, p : FilledOf(side, p)' = FilledOf(side, p)
  BY <1>1, <1>3 DEF WaitingSales, FilledOf
<1>5. /\ BuysLocked' = BuysLocked /\ Spent' = Spent /\ Earned' = Earned
      /\ \A p : BoughtOf(p)' = BoughtOf(p) /\ SoldOf(p)' = SoldOf(p) /\ OnSale(p)' = OnSale(p)
  BY <1>2, <1>3, <1>4 DEF BuysLocked, Spent, Earned, BoughtOf, SoldOf, OnSale
<1>6. LongOrders' <=> LongOrders
  BY <1>1, <1>3 DEF LongOrders
<1>7. (Funds' <=> Funds) /\ (Books' <=> Books)
  BY <1>1, <1>5 DEF Funds, Books
<1> QED BY <1>6, <1>7

(* And every step keeps what the orders say.                                *)
LEMMA LongInvNext == WalletInv /\ LongInv /\ [Next]_vars => LongInv'
<1> SUFFICES ASSUME WalletInv, LongInv, [Next]_vars PROVE LongInv'
  OBVIOUS
<1>1. CASE UNCHANGED vars
  BY <1>1, LongBooksKept DEF LongInv, LongOnly, vars
<1>2. CASE Next
  <2>0. Step
    BY <1>2, NextIsStep DEF WalletInv
  <2>1. style' = style
    BY <2>0 DEF Step, PlaceOne, PlaceTwo, Trade, Wait, OnCandle, CancelWaiting, Cancel
  <2>2. SUFFICES ASSUME LongOnly PROVE LongOrders' /\ Funds' /\ Books'
    BY <2>1 DEF LongInv, LongOnly
  <2>3. LongOrders /\ Funds /\ Books
    BY <2>2 DEF LongInv
  <2>4. CASE \E p \in Pairs, o \in OrderType : PlaceOne(p, o) \/ Trade(p, o)
    <3>1. \A p \in Pairs, o \in OrderType : Trade(p, o) => Covered(p, o)
      BY <2>2 DEF Trade, Sellable, LongOnly, Covered
    <3> QED BY <2>2, <2>3, <2>4, <3>1, LongPlaceOne, LongTrade
  <2>5. CASE \E p \in Pairs, o \in OrderType, leg \in OrderType : PlaceTwo(p, o, leg)
    <3>1. \A p \in Pairs, o \in OrderType, leg \in OrderType :
             PlaceTwo(p, o, leg) => LegsSell(o, leg) /\ Covered(p, o)
      BY <2>2 DEF PlaceTwo, LegsSell, Sellable, LongOnly, Covered
    <3> QED BY <2>2, <2>3, <2>5, <3>1, LongPlaceTwo
  <2>6. CASE \E p \in Pairs, c \in Candles : OnCandle(p, c)
    BY <2>2, <2>3, <2>6, LongCandle
  <2>7. CASE \E i \in DOMAIN orders : CancelWaiting(i)
    BY <2>2, <2>3, <2>7, LongCancel
  <2> QED BY <2>0, <2>4, <2>5, <2>6, <2>7 DEF Step
<1> QED BY <1>1, <1>2

(* For a strategy that does not short, whatever it orders and cancels, and  *)
(* whatever the prices do, the balances are what the orders say.            *)
THEOREM LongInvCorrect == Spec => []LongInv
BY WalletInvInit, WalletInvNext, LongInvInit, LongInvNext, PTL DEF Spec

(* No money is spent that is not there: free and locked balances stay above *)
(* zero, since validateFunds refuses what they do not cover.                *)
THEOREM NoOverdraftCorrect == Spec => []NoOverdraft
<1>1. WalletInv /\ LongInv => NoOverdraft
  <2> SUFFICES ASSUME WalletInv, LongInv, LongOnly
               PROVE  /\ quote.free >= 0 /\ quote.lock >= 0
                      /\ \A p \in Pairs : assets[p].free >= 0 /\ assets[p].lock >= 0
    BY DEF NoOverdraft
  <2>1. Funds /\ WalletTypeOK
    BY DEF LongInv, WalletInv
  <2>2. BuysLocked \in Nat /\ \A p \in Pairs : OnSale(p) \in Nat
    BY <2>1, BooksTyped
  <2>3. quote.lock \in Int
    BY <2>1 DEF WalletTypeOK, BalanceType
  <2> QED BY <2>1, <2>2, <2>3 DEF Funds
<1> QED BY <1>1, WalletInvCorrect, LongInvCorrect, PTL

(* The replay of the orders by CalculateBalancesFromOrders gives what the   *)
(* wallet holds, free and locked together: what a resumed session starts    *)
(* with is what the stopped one had.                                        *)
THEOREM ReplayCorrect == Spec => []ReplayMatchesWallet
<1>1. LongInv => ReplayMatchesWallet
  BY DEF LongInv, Books, ReplayMatchesWallet, ReplayedQuote, ReplayedAsset, Earned, Spent, BoughtOf,
         SoldOf, FilledOf
<1> QED BY <1>1, LongInvCorrect, PTL

(* No strategy that does not short cancels a buy while its pair is on sale. *)
BuysStayWhileSelling ==
    \A s \in Styles :
        ~s.shorting /\ ~s.splitStops /\ s.ocoSides = {"SELL"} /\ "leg" \notin s.cancels
            => "buyWhileSelling" \notin s.cancels

(* Then nothing stays locked for an order that has gone. Without, Cancel    *)
(* leaves the buy's quote locked.                                           *)
THEOREM LocksMatchCorrect ==
  ASSUME BuysStayWhileSelling
  PROVE  Spec => []LocksMatchOrders
<1>1. WalletInv /\ LongInv => LocksMatchOrders
  <2> SUFFICES ASSUME WalletInv, LongInv, LongOnly
               PROVE  /\ quote.lock = SumFunctionOnSet(Cost, Waiting("BUY"))
                      /\ \A p \in Pairs :
                            assets[p].lock
                               = SumFunctionOnSet(Quantity, {i \in Waiting("SELL") : orders[i].pair = p})
    BY DEF LocksMatchOrders
  <2>1. "buyWhileSelling" \notin style.cancels
    BY DEF WalletInv, WalletTypeOK, LongOnly, BuysStayWhileSelling
  <2> QED BY <2>1 DEF LongInv, Funds, BuysLocked, OnSale, WaitingSales
<1> QED BY <1>1, WalletInvCorrect, LongInvCorrect, PTL

=============================================================================
