-------------------------- MODULE OrderController ---------------------------
(***************************************************************************)
(* The order controllers of order/controller.go: orders placed by          *)
(* strategies, their rows in the storage, the polling that notices fills,  *)
(* the positions that fills are applied to and the order feed of           *)
(* order/feed.go.  Each controller has its own paper wallet and bot        *)
(* goroutine (ninjabot.go) and, live, a ticker goroutine; the controllers  *)
(* of the realtime sessions share one database.                            *)
(*                                                                         *)
(* updateOrders reads the storage, asks the exchange and writes the        *)
(* storage without c.mtx, each of them a step; placing an order holds      *)
(* c.mtx throughout and changes nothing that a thread without c.mtx reads  *)
(* halfway, so it is one step.  Every order has quantity 1.  Storage       *)
(* failures are left out.                                                  *)
(***************************************************************************)
EXTENDS Integers, Sequences, FiniteSets, FiniteSetsExt, SequencesExt

CONSTANTS
    Controllers,  \* the bots that share the database, one session each
    Modes,        \* what a bot may be: "live" or "backtest"
    MaxOrders,    \* bound on the orders of one wallet
    Cancelling    \* do strategies cancel orders?

ASSUME ControllerAssumption ==
    /\ Controllers # {}
    /\ Modes \subseteq {"live", "backtest"} /\ Modes # {}
    /\ MaxOrders \in Nat
    /\ Cancelling \in BOOLEAN

VARIABLES
    mode,      \* live or backtest
    exch,      \* the orders of the wallet, by ExchangeID
    waiting,   \* its pendingOrders
    rows,      \* the orders table, by ID
    lock,      \* who holds c.mtx
    pc,        \* where the two threads of a bot are
    todo,      \* updateOrders: fetched rows that are still to be polled
    got,       \* updateOrders: the changed order that is to be saved
    updated,   \* updateOrders: the saved orders that are to be processed
    applied,   \* the trades that positions and Results have seen, in order
    flying,    \* goroutines that still have to publish a new order
    heard      \* the statuses of a row that order subscribers were told

walletVars == <<exch, waiting>>
pollVars   == <<todo, got, updated>>
feedVars   == <<flying, heard>>
vars == <<mode, walletVars, rows, lock, pc, pollVars, applied, feedVars>>

Threads  == {"bot", "ticker"}
Sides    == {"BUY", "SELL"}
Statuses == {"NEW", "FILLED", "CANCELED", "PENDING_CANCEL"}

BotPCs    == {"candle", "strategy", "cancelSave", "finish", "stopped"}
UpdatePCs == {"fetch", "poll", "save", "process"}

(* A row: profit says whether a realized profit is stored with the order.   *)
Row(c, xid, status, profit) ==
    [session |-> c, xid |-> xid, status |-> status, profit |-> profit]

(* The table: CreateOrder, UpdateOrder, which writes all of a row, and      *)
(* Orders with the filter WithStatusIn, in the order of the IDs.            *)
Inserted(new) == rows \o new

Overwritten(id, row) == [rows EXCEPT ![id] = row]

ByID(ids) ==
    CHOOSE s \in [1..Cardinality(ids) -> ids] : \A i, j \in DOMAIN s : i < j => s[i] < s[j]

Orders(statuses) == ByID({id \in DOMAIN rows : rows[id].status \in statuses})

(* An order as updateOrders knows it: its row and what the exchange says.   *)
Known(id, xid, status) == [id |-> id, xid |-> xid, status |-> status]

Nothing == Known(0, 0, "NEW")

Init ==
    /\ mode \in [Controllers -> Modes]
    /\ exch = [c \in Controllers |-> <<>>]
    /\ waiting = [c \in Controllers |-> {}]
    /\ rows = <<>>
    /\ lock = [c \in Controllers |-> "free"]
    /\ pc = [c \in Controllers |->
                [bot |-> "candle", ticker |-> IF mode[c] = "live" THEN "idle" ELSE "off"]]
    /\ todo = [c \in Controllers |-> [t \in Threads |-> <<>>]]
    /\ got = [c \in Controllers |-> [t \in Threads |-> Nothing]]
    /\ updated = [c \in Controllers |-> [t \in Threads |-> <<>>]]
    /\ applied = [c \in Controllers |-> <<>>]
    /\ flying = {}
    /\ heard = [id \in 1..0 |-> {}]

At(c, t, label)   == pc[c][t] = label
Goto(c, t, label) == pc' = [pc EXCEPT ![c][t] = label]

-----------------------------------------------------------------------------
(* processTrade.  The position is what the applied trades add up to; a      *)
(* trade against it realizes a profit, which is stored with its row.        *)
Net(c) ==
    LET sign(x) == IF exch[c][x].side = "BUY" THEN 1 ELSE -1 IN
    FoldLeft(LAMBDA sum, x : sum + sign(x), 0, applied[c])

Realizes(c, side) == (side = "BUY" /\ Net(c) < 0) \/ (side = "SELL" /\ Net(c) > 0)

(* The order feed hands an order to the subscribers of its pair.            *)
Hear(id, status) ==
    heard' = [i \in DOMAIN heard \cup {id} |->
                 (IF i \in DOMAIN heard THEN heard[i] ELSE {})
                     \cup (IF i = id THEN {status} ELSE {})]

-----------------------------------------------------------------------------
(* The wallet's side of a candle: some of the waiting orders fill, and some *)
(* are cancelled as the other leg of one that fills; such a leg may stay in *)
(* pendingOrders until the next candle (see PaperWallet).                   *)
Candle(c, filled, cancelled, kept) ==
    LET new(x) == exch[c][x].status = "NEW" IN
    /\ At(c, "bot", "candle")
    /\ \A x \in filled \cup cancelled : new(x)
    /\ cancelled # {} => filled # {}
    /\ exch' = [exch EXCEPT ![c] = [x \in DOMAIN @ |->
          CASE x \in filled -> [@[x] EXCEPT !.status = "FILLED"]
            [] x \in cancelled -> [@[x] EXCEPT !.status = "CANCELED"]
            [] OTHER -> @[x]]]
    /\ waiting' = [waiting EXCEPT ![c] =
          {x \in @ : new(x) /\ x \notin filled \cup cancelled} \cup kept]
    /\ UNCHANGED <<mode, rows, lock, pollVars, applied, feedVars>>

(* Mutant: backtestCandles asks for pending orders after the candle.        *)
PendingAfter(c) == waiting'[c] # {}

(* HasPendingOrders, before the candle.                                     *)
HasPendingOrders(c) == waiting[c] # {}

(* processCandle and backtestCandles: the wallet sees the candle first; a   *)
(* backtest then settles the orders, if there were any, before the strategy *)
(* reacts.                                                                  *)
OnCandle(c) ==
    \E filled \in SUBSET waiting[c] : \E cancelled \in SUBSET (waiting[c] \ filled) :
    \E kept \in SUBSET cancelled :
        /\ Candle(c, filled, cancelled, kept)
        /\ Goto(c, "bot", IF mode[c] = "backtest" /\ HasPendingOrders(c)
                          THEN "fetch" ELSE "strategy")

StrategyReturns(c) ==
    /\ At(c, "bot", "strategy")
    /\ Goto(c, "bot", "candle")
    /\ UNCHANGED <<mode, walletVars, rows, lock, pollVars, applied, feedVars>>

-----------------------------------------------------------------------------
(* CreateOrderLimit and CreateOrderStop place one order, CreateOrderOCO the *)
(* two legs of one.  Each row gets the session of the controller, and a     *)
(* goroutine publishes the new order.                                       *)
CreateOrders(c, sides) ==
    LET n  == Len(exch[c])
        id == Len(rows) IN
    /\ At(c, "bot", "strategy") /\ lock[c] = "free"
    /\ n + Len(sides) <= MaxOrders
    /\ exch' = [exch EXCEPT ![c] = @ \o
          [k \in DOMAIN sides |-> [side |-> sides[k], status |-> "NEW"]]]
    /\ waiting' = [waiting EXCEPT ![c] = @ \cup {n + k : k \in DOMAIN sides}]
    /\ rows' = Inserted([k \in DOMAIN sides |-> Row(c, n + k, "NEW", FALSE)])
    /\ flying' = flying \cup {[id |-> id + k, status |-> "NEW"] : k \in DOMAIN sides}
    /\ UNCHANGED <<mode, lock, pc, pollVars, applied, heard>>

CreateOrder(c, side)    == CreateOrders(c, <<side>>)
CreateOrderOCO(c, side) == CreateOrders(c, <<side, side>>)

(* CreateOrderMarket and CreateOrderMarketQuote: the order fills at once    *)
(* and is applied under the lock.                                           *)
CreateOrderMarket(c, side) ==
    LET x == Len(exch[c]) + 1 IN
    /\ At(c, "bot", "strategy") /\ lock[c] = "free"
    /\ x <= MaxOrders
    /\ exch' = [exch EXCEPT ![c] = Append(@, [side |-> side, status |-> "FILLED"])]
    /\ rows' = Inserted(<<Row(c, x, "FILLED", Realizes(c, side))>>)
    /\ applied' = [applied EXCEPT ![c] = Append(@, x)]
    /\ flying' = flying \cup {[id |-> Len(rows) + 1, status |-> "FILLED"]}
    /\ UNCHANGED <<mode, waiting, lock, pc, pollVars, heard>>

(* go orderFeed.Publish                                                     *)
PublishNew(m) ==
    /\ m \in flying
    /\ flying' = flying \ {m}
    /\ Hear(m.id, m.status)
    /\ UNCHANGED <<mode, walletVars, rows, lock, pc, pollVars, applied>>

(* Cancel: the exchange first, then the row, under the lock.                *)
CancelExchange(c, id) ==
    LET x == rows[id].xid IN
    /\ At(c, "bot", "strategy") /\ lock[c] = "free"
    /\ exch' = [exch EXCEPT ![c][x].status = "CANCELED"]
    /\ lock' = [lock EXCEPT ![c] = "bot"]
    /\ got' = [got EXCEPT ![c]["bot"] = Known(id, x, "PENDING_CANCEL")]
    /\ Goto(c, "bot", "cancelSave")
    /\ UNCHANGED <<mode, waiting, rows, todo, updated, applied, feedVars>>

CancelSave(c) ==
    LET o == got[c]["bot"] IN
    /\ At(c, "bot", "cancelSave")
    /\ rows' = Overwritten(o.id, Row(c, o.xid, o.status, FALSE))
    /\ lock' = [lock EXCEPT ![c] = "free"]
    /\ got' = [got EXCEPT ![c]["bot"] = Nothing]
    /\ Goto(c, "bot", "strategy")
    /\ UNCHANGED <<mode, walletVars, todo, updated, applied, feedVars>>

-----------------------------------------------------------------------------
(* updateOrders, by thread t of controller c.                               *)

(* The storage is asked for the orders that are open, whoever they belong   *)
(* to.                                                                      *)
OpenRows == Orders({"NEW", "PENDING_CANCEL"})

Fetch(c, t) ==
    /\ At(c, t, "fetch")
    /\ todo' = [todo EXCEPT ![c][t] =
          LET ids == OpenRows IN
          [k \in DOMAIN ids |-> Known(ids[k], rows[ids[k]].xid, rows[ids[k]].status)]]
    /\ Goto(c, t, "poll")
    /\ UNCHANGED <<mode, walletVars, rows, lock, got, updated, applied, feedVars>>

(* exchange.Order: an unknown id is only logged, and so is no change.       *)
Changed(c, o) == o.xid \in DOMAIN exch[c] /\ exch[c][o.xid].status # o.status

Poll(c, t) ==
    LET o == Head(todo[c][t]) IN
    /\ At(c, t, "poll") /\ todo[c][t] # <<>>
    /\ todo' = [todo EXCEPT ![c][t] = Tail(@)]
    /\ IF Changed(c, o)
       THEN /\ got' = [got EXCEPT ![c][t] = Known(o.id, o.xid, exch[c][o.xid].status)]
            /\ Goto(c, t, "save")
       ELSE UNCHANGED <<got, pc>>
    /\ UNCHANGED <<mode, walletVars, rows, lock, updated, applied, feedVars>>

(* Mutant: an order that was saved is not kept for processing.              *)
SavedNever(updates, o) == updates

Saved(updates, o) == Append(updates, o)

(* UpdateOrder writes the exchange's copy of the order over the row, with   *)
(* this controller's session.                                               *)
Save(c, t) ==
    LET o == got[c][t] IN
    /\ At(c, t, "save")
    /\ rows' = Overwritten(o.id, Row(c, o.xid, o.status, FALSE))
    /\ updated' = [updated EXCEPT ![c][t] = Saved(@, o)]
    /\ got' = [got EXCEPT ![c][t] = Nothing]
    /\ Goto(c, t, "poll")
    /\ UNCHANGED <<mode, walletVars, lock, todo, applied, feedVars>>

(* All rows have been polled: the rest holds c.mtx.                         *)
Lock(c, t) ==
    /\ At(c, t, "poll") /\ todo[c][t] = <<>> /\ lock[c] = "free"
    /\ lock' = [lock EXCEPT ![c] = t]
    /\ Goto(c, t, "process")
    /\ UNCHANGED <<mode, walletVars, rows, pollVars, applied, feedVars>>

(* processTrade, which stores a realized profit, and Publish, which waits   *)
(* for the feed goroutine.                                                  *)
Process(c, t) ==
    LET o    == Head(updated[c][t])
        gain == o.status = "FILLED" /\ Realizes(c, exch[c][o.xid].side) IN
    /\ At(c, t, "process") /\ updated[c][t] # <<>>
    /\ updated' = [updated EXCEPT ![c][t] = Tail(@)]
    /\ applied' = IF o.status = "FILLED" THEN [applied EXCEPT ![c] = Append(@, o.xid)]
                                         ELSE applied
    /\ rows' = IF gain THEN Overwritten(o.id, Row(c, o.xid, o.status, TRUE)) ELSE rows
    /\ Hear(o.id, o.status)
    /\ UNCHANGED <<mode, walletVars, lock, pc, todo, got, flying>>

(* Mutant: the goroutine of Start ends after one update.                    *)
AfterUpdateOnce(c, t) ==
    CASE t = "ticker" -> "off"
      [] t = "bot" /\ mode[c] = "backtest" -> "strategy"
      [] OTHER -> "finish"

(* Where updateOrders returns to: the ticker loop, the backtest loop, or    *)
(* Stop.                                                                    *)
AfterUpdate(c, t) ==
    CASE t = "ticker" -> "idle"
      [] t = "bot" /\ mode[c] = "backtest" -> "strategy"
      [] OTHER -> "finish"

Unlock(c, t) ==
    /\ At(c, t, "process") /\ updated[c][t] = <<>>
    /\ lock' = [lock EXCEPT ![c] = "free"]
    /\ Goto(c, t, AfterUpdate(c, t))
    /\ UNCHANGED <<mode, walletVars, rows, pollVars, applied, feedVars>>

-----------------------------------------------------------------------------
(* Start's goroutine.                                                       *)
Tick(c) ==
    /\ At(c, "ticker", "idle")
    /\ Goto(c, "ticker", "fetch")
    /\ UNCHANGED <<mode, walletVars, rows, lock, pollVars, applied, feedVars>>

(* Mutant: Stop only ends the ticker.                                       *)
StopSkipsUpdate == "finish"

(* Stop updates the orders itself before it ends the ticker.                *)
StopEntry == "fetch"

(* The context of a live bot is cancelled and Run stops the controller; a   *)
(* backtest ends when its candles have been used up.                        *)
Stop(c) ==
    /\ At(c, "bot", "candle")
    /\ Goto(c, "bot", IF mode[c] = "live" THEN StopEntry ELSE "stopped")
    /\ UNCHANGED <<mode, walletVars, rows, lock, pollVars, applied, feedVars>>

(* c.finish <- true is received by the ticker between two updates.          *)
Finish(c) ==
    /\ At(c, "bot", "finish") /\ At(c, "ticker", "idle")
    /\ pc' = [pc EXCEPT ![c] = [bot |-> "stopped", ticker |-> "off"]]
    /\ UNCHANGED <<mode, walletVars, rows, lock, pollVars, applied, feedVars>>

-----------------------------------------------------------------------------
UpdateOrders(c, t) ==
    Fetch(c, t) \/ Poll(c, t) \/ Save(c, t) \/ Lock(c, t)
        \/ Process(c, t) \/ Unlock(c, t)

(* A strategy cancels an order of its session that its wallet has not       *)
(* filled.                                                                  *)
CancelWaiting(c, id) ==
    /\ Cancelling /\ rows[id].session = c /\ exch[c][rows[id].xid].status = "NEW"
    /\ CancelExchange(c, id)

Strategy(c) ==
    \/ \E side \in Sides :
          CreateOrder(c, side) \/ CreateOrderOCO(c, side) \/ CreateOrderMarket(c, side)
    \/ \E id \in DOMAIN rows : CancelWaiting(c, id)

Publishing == \E m \in flying : PublishNew(m)

Next ==
    \/ \E c \in Controllers :
          \/ OnCandle(c) \/ Strategy(c) \/ StrategyReturns(c) \/ CancelSave(c)
          \/ Tick(c) \/ Stop(c) \/ Finish(c)
          \/ \E t \in Threads : UpdateOrders(c, t)
    \/ Publishing

(* Goroutines that can run do.  c.mtx hands itself over to a waiter, so a   *)
(* thread that asks for it again and again cannot starve the other one; the *)
(* ticker fires every second, and of the two that a ticker at rest waits    *)
(* for, select takes finish once in a while.  Candles need not come.        *)
Fairness ==
    /\ WF_vars(Publishing)
    /\ \A c \in Controllers :
        /\ \A t \in Threads : WF_vars(UpdateOrders(c, t)) /\ SF_vars(Lock(c, t))
        /\ WF_vars(StrategyReturns(c)) /\ WF_vars(CancelSave(c))
        /\ WF_vars(Tick(c)) /\ SF_vars(Finish(c))

Spec == Init /\ [][Next]_vars /\ Fairness

-----------------------------------------------------------------------------
(* What the wallet, the rows and the positions of a bot agree on when no    *)
(* update is under way: every row says what its order became, and every     *)
(* fill has been applied.                                                   *)
FilledOrders(c) == {x \in DOMAIN exch[c] : exch[c][x].status = "FILLED"}

Settled(c) ==
    /\ \A id \in DOMAIN rows : rows[id].session = c =>
          rows[id].status \in {exch[c][rows[id].xid].status, "PENDING_CANCEL"}
    /\ FilledOrders(c) = ToSet(applied[c])

(* A bot that has stopped has noticed every fill: nothing that its wallet   *)
(* did is missing in the table or in the summary, however the ticker and    *)
(* Stop interleave.                                                         *)
StopSettlesAll ==
    \A c \in Controllers : mode[c] = "live" /\ At(c, "bot", "stopped") =>
        /\ Settled(c)
        /\ \A id \in DOMAIN rows : rows[id].session = c => rows[id].status # "PENDING_CANCEL"

(* "Settle fills of this candle before the strategy reacts to it": in a     *)
(* backtest every fill has been applied, once, when the strategy runs.      *)
BacktestSettlesFirst ==
    \A c \in Controllers : mode[c] = "backtest" /\ At(c, "bot", "strategy") =>
        Settled(c) /\ IsInjective(applied[c])

(* Subscribers (chart, alerts) hear of every fill sooner or later, and not  *)
(* only of those that no Stop came in between.                              *)
HeardFilled(c, x) ==
    \E id \in DOMAIN heard :
        rows[id].xid = x /\ rows[id].session = c /\ "FILLED" \in heard[id]

FillsAreHeard ==
    \A c \in Controllers, x \in 1..MaxOrders :
        mode[c] = "live" /\ x \in FilledOrders(c) ~> HeardFilled(c, x)

(* A bot whose context is cancelled comes to its end.                       *)
StopReturns ==
    \A c \in Controllers :
        mode[c] = "live" /\ pc[c].bot \in UpdatePCs \cup {"finish"} ~> At(c, "bot", "stopped")

(* "Persist the realized profit so it survives a reload from storage": no   *)
(* write takes the profit of a row away again.                              *)
ProfitSurvives ==
    [][\A id \in DOMAIN rows : rows[id].profit => rows'[id].profit]_vars

(* CalculateBalancesFromOrders takes the session's filled rows for what its *)
(* wallet traded: when all bots have stopped, there are as many of them.    *)
ReplayCountsFills ==
    (\A c \in Controllers : At(c, "bot", "stopped")) =>
        \A c \in Controllers :
            Cardinality({id \in DOMAIN rows : rows[id].session = c /\ rows[id].status = "FILLED"})
                = Cardinality(FilledOrders(c))

============================================================================
