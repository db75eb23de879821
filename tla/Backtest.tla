------------------------------ MODULE Backtest -------------------------------
(***************************************************************************)
(* The backtests of the web application (server/handler/backtest.go) and   *)
(* the chart that all of them fill and the pages read (plot/chart.go,      *)
(* server/handler/chart.go).  A request downloads candles, resets the      *)
(* chart, runs a bot that shows candles and orders on it, and stores a     *)
(* summary; `running` admits one at a time.  New orders are published by   *)
(* goroutines, which the end of a run does not wait for.                   *)
(*                                                                         *)
(* One pair is traded.  What the strategy and the wallet do is free:       *)
(* orders are placed and fill when they like.  Prices, indicators and the  *)
(* figures of the summary are left out.                                    *)
(***************************************************************************)
EXTENDS HistoryFeed

CONSTANTS
    Requests,     \* POSTs to /api/backtest
    Plans,        \* what may be asked for: days, timeframe, highFrequency
    Day,          \* units in a day
    Today,        \* midnight of the current day
    Markets,      \* the candles that the exchange may have
    Warmup,       \* WarmupPeriod
    MinTradable,  \* minTradableCandles
    MaxOrders,    \* bound on the orders of a run
    Faults,       \* may downloads, the summary and the rest fail?
    Nobody

ASSUME BacktestAssumption ==
    /\ {Day, Today, Warmup, MinTradable, MaxOrders} \subseteq Nat
    /\ Faults \in BOOLEAN /\ Nobody \notin Requests

VARIABLES
    market,   \* the candles of the exchange
    plan,     \* what each request asks for
    history,  \* the candles it will be run on, once downloaded
    pc,       \* where each request is
    running,  \* h.running
    summary,  \* the request whose summary is stored (summaryJSON)
    pos,      \* candles that the data feed, then the bot, has gone through
    book,     \* orders in the storage of each run: where they are, status
    todo,     \* updateOrders: filled orders that are to be published
    flying,   \* goroutines that still have to publish a new order
    feeding,  \* the order that the goroutine of each order feed holds
    candles,  \* the chart's candles, each with the run it comes from
    orders,   \* its orders by ID
    owner     \* the runs of its strategy and wallet

given     == <<market, plan, history>>
botVars   == <<pos, book, todo>>
tradeVars == <<flying, feeding>>
chartVars  == <<candles, orders, owner>>
vars == <<given, pc, running, summary, botVars, tradeVars, chartVars>>

(* backtestSourceTimeframe                                                  *)
SourceTimeframe(p) == IF p.highFrequency THEN 1 ELSE p.timeframe

(* Download moves both ends to midnight: its own clock has moved on since   *)
(* the caller read the end.                                                 *)
Lines(m, p) == Download(m, SourceTimeframe(p), Today - p.days * Day, Today)

(* What NewCSVFeed makes of the files.                                      *)
History(m, p) ==
    LET lines == Lines(m, p) IN
    [opens   |-> Opening(lines, SourceTimeframe(p), p.timeframe) # {},
     candles |-> Resample(lines, SourceTimeframe(p), p.timeframe)]

(* Grouping keeps the times of candles what they are, points in time.       *)
ASSUME HistoryAssumption ==
    \A m \in Markets, p \in Plans :
        History(m, p).candles \in Seq([time : Int, parts : Seq(Int), complete : BOOLEAN])

NoOrders == [id \in 1..0 |-> 0]

Init ==
    /\ market \in Markets
    /\ plan \in [Requests -> Plans]
    /\ history = [r \in Requests |-> History(market, plan[r])]
    /\ pc = [r \in Requests |-> "new"]
    /\ running = FALSE /\ summary = Nobody
    /\ pos = [r \in Requests |-> 0]
    /\ book = [r \in Requests |-> <<>>]
    /\ todo = [r \in Requests |-> <<>>]
    /\ flying = {}
    /\ feeding = [r \in Requests |-> {}]
    /\ candles = <<>> /\ orders = NoOrders
    /\ owner = [strategy |-> Nobody, wallet |-> Nobody]

Goto(r, label) == pc' = [pc EXCEPT ![r] = label]

-----------------------------------------------------------------------------
(* HandleBacktest up to the run.                                            *)

Needed == Warmup + MinTradable

(* checkHistoryLength: days cover the warm-up and some candles to trade.    *)
EnoughHistory(p) == p.days * Day >= Needed * p.timeframe

(* parsePairs and the validation of the parameters.                         *)
Reject(r) ==
    /\ pc[r] = "new"
    /\ Goto(r, "done")
    /\ UNCHANGED <<given, running, summary, botVars, tradeVars, chartVars>>

Free == ~running

(* Only one backtest at a time; the others get 409.                         *)
Claim(r) ==
    /\ pc[r] = "new" /\ EnoughHistory(plan[r]) /\ Free
    /\ running' = TRUE
    /\ Goto(r, "drop")
    /\ UNCHANGED <<given, summary, botVars, tradeVars, chartVars>>

(* Mutant: the summary stays until the next one is ready.                   *)
SummaryKept == summary

SummaryDropped == Nobody

DropSummary(r) ==
    /\ pc[r] = "drop"
    /\ summary' = SummaryDropped
    /\ Goto(r, "download")
    /\ UNCHANGED <<given, running, botVars, tradeVars, chartVars>>

-----------------------------------------------------------------------------
(* runBacktest.                                                             *)

Fetch(r) ==
    /\ pc[r] = "download" /\ history[r].opens
    /\ Goto(r, "reset")
    /\ UNCHANGED <<given, running, summary, botVars, tradeVars, chartVars>>

(* NewCSVFeed panics when no candle opens a period.  Deferred functions run *)
(* on the way to WithRecovery, what follows runBacktest does not.           *)
FetchPanics(r) ==
    /\ pc[r] = "download" /\ ~history[r].opens
    /\ Goto(r, "release")
    /\ UNCHANGED <<given, running, summary, botVars, tradeVars, chartVars>>

RunFails(r) ==
    /\ Faults /\ pc[r] \in {"download", "reset", "candles", "summary"}
    /\ Goto(r, "fail")
    /\ UNCHANGED <<given, running, summary, botVars, tradeVars, chartVars>>

CandlesReset == <<>>

(* Chart.Reset                                                              *)
Reset ==
    /\ candles' = CandlesReset
    /\ orders' = NoOrders
    /\ owner' = [strategy |-> Nobody, wallet |-> Nobody]

ResetChart(r) ==
    /\ pc[r] = "reset"
    /\ Reset
    /\ Goto(r, "strategy")
    /\ UNCHANGED <<given, running, summary, botVars, tradeVars>>

SetStrategy(r) ==
    /\ pc[r] = "strategy"
    /\ owner' = [owner EXCEPT !.strategy = r]
    /\ Goto(r, "wallet")
    /\ UNCHANGED <<given, running, summary, botVars, tradeVars, candles, orders>>

SetPaperWallet(r) ==
    /\ pc[r] = "wallet"
    /\ owner' = [owner EXCEPT !.wallet = r]
    /\ Goto(r, "candles")
    /\ UNCHANGED <<given, running, summary, botVars, tradeVars, candles, orders>>

(* Chart.OnCandle: complete candles that are later than the last one.       *)
Shown(r, c) ==
    IF c.complete /\ (candles = <<>> \/ c.time > Last(candles).time)
    THEN Append(candles, [run |-> r, time |-> c.time, parts |-> c.parts])
    ELSE candles

(* Bot.Run: the data feed hands all candles to its subscribers before the   *)
(* bot starts.                                                              *)
OnCandle(r) ==
    /\ pc[r] = "candles" /\ pos[r] < Len(history[r].candles)
    /\ candles' = Shown(r, history[r].candles[pos[r] + 1])
    /\ pos' = [pos EXCEPT ![r] = @ + 1]
    /\ UNCHANGED <<given, pc, running, summary, book, todo, tradeVars, orders, owner>>

Drained(r) ==
    /\ pc[r] = "candles" /\ pos[r] = Len(history[r].candles)
    /\ pos' = [pos EXCEPT ![r] = 0]
    /\ Goto(r, "trade")
    /\ UNCHANGED <<given, running, summary, book, todo, tradeVars, chartVars>>

-----------------------------------------------------------------------------
(* backtestCandles.                                                         *)
Time(r) == history[r].candles[pos[r]].time

(* The storage in memory: IDs count up from 1.                              *)
Created(stored, order) == Append(stored, order)

Updated(stored, ids, order) ==
    [id \in DOMAIN stored |-> IF id \in ids THEN order ELSE stored[id]]

(* Orders with the filter of updateOrders.                                  *)
Waiting(stored) == {id \in DOMAIN stored : stored[id].status = "NEW"}

(* The index by update lists waiting orders as they were placed.            *)
ByID(ids) ==
    CHOOSE s \in [1..Cardinality(ids) -> ids] : \A i, j \in DOMAIN s : i < j => s[i] < s[j]

(* A candle: waiting orders fill, and updateOrders publishes them.          *)
BacktestCandle(r) ==
    \E filled \in SUBSET Waiting(book[r]) :
        /\ pc[r] = "trade" /\ todo[r] = <<>> /\ pos[r] < Len(history[r].candles)
        /\ pos' = [pos EXCEPT ![r] = @ + 1]
        /\ book' = [book EXCEPT ![r] = Updated(@, filled,
              [at |-> history[r].candles[pos[r] + 1].time, status |-> "FILLED"])]
        /\ todo' = [todo EXCEPT ![r] = ByID(filled)]
        /\ UNCHANGED <<given, pc, running, summary, tradeVars, chartVars>>

Message(r, id) == [run |-> r, id |-> id, at |-> book[r][id].at, status |-> book[r][id].status]

(* The channel of the feed is not buffered.                                 *)
Idle(r) == feeding[r] = {}

Publish(m) == feeding' = [feeding EXCEPT ![m.run] = @ \cup {m}]

(* Publish waits until the goroutine of the feed takes the order.           *)
PublishFill(r) ==
    /\ todo[r] # <<>> /\ Idle(r)
    /\ Publish(Message(r, Head(todo[r])))
    /\ todo' = [todo EXCEPT ![r] = Tail(@)]
    /\ UNCHANGED <<given, pc, running, summary, pos, book, flying, chartVars>>

(* The strategy trades from the last candle of its warm-up on, one of high  *)
(* frequency also on partial candles.                                       *)
PlaceOrder(r, status) ==
    LET new == [at |-> Time(r), status |-> status]
        id  == Len(book[r]) + 1 IN
    /\ pc[r] = "trade" /\ todo[r] = <<>> /\ Len(book[r]) < MaxOrders
    /\ pos[r] > 0
    /\ history[r].candles[pos[r]].complete \/ plan[r].highFrequency
    /\ Len(CompleteCandles(SubSeq(history[r].candles, 1, pos[r]))) >= Warmup
    /\ book' = [book EXCEPT ![r] = Created(@, new)]
    /\ flying' = flying \cup {[run |-> r, id |-> id, at |-> new.at, status |-> status]}
    /\ UNCHANGED <<given, pc, running, summary, pos, todo, feeding, chartVars>>

BotReturns(r) ==
    /\ pc[r] = "trade" /\ todo[r] = <<>> /\ pos[r] = Len(history[r].candles)
    /\ Goto(r, "summary")
    /\ UNCHANGED <<given, running, summary, botVars, tradeVars, chartVars>>

(* go orderFeed.Publish                                                     *)
PublishNew(m) ==
    /\ m \in flying /\ Idle(m.run)
    /\ flying' = flying \ {m}
    /\ Publish(m)
    /\ UNCHANGED <<given, pc, running, summary, botVars, chartVars>>

(* Mutant: the chart takes filled orders only.                              *)
RecordedIfFilled(m) ==
    IF m.status = "FILLED"
    THEN [id \in DOMAIN orders \cup {m.id} |->
             IF id = m.id THEN [run |-> m.run, at |-> m.at, status |-> m.status] ELSE orders[id]]
    ELSE orders

(* The chart knows an order by its ID: later news of it replace the first.  *)
Recorded(m) ==
    [id \in DOMAIN orders \cup {m.id} |->
        IF id = m.id THEN [run |-> m.run, at |-> m.at, status |-> m.status] ELSE orders[id]]

(* Chart.OnOrder, called by the goroutine of the order feed.                *)
OnOrder(r) ==
    \E m \in feeding[r] :
        /\ feeding' = [feeding EXCEPT ![r] = @ \ {m}]
        /\ orders' = Recorded(m)
        /\ UNCHANGED <<given, pc, running, summary, botVars, flying, candles, owner>>

-----------------------------------------------------------------------------
(* computeSummary and its storage.                                          *)
StoreSummary(r) ==
    /\ pc[r] = "summary"
    /\ summary' = r
    /\ Goto(r, "release")
    /\ UNCHANGED <<given, running, botVars, tradeVars, chartVars>>

(* An error of runBacktest: the chart is reset.                             *)
ResetFailed(r) ==
    /\ pc[r] = "fail"
    /\ Reset
    /\ Goto(r, "release")
    /\ UNCHANGED <<given, running, summary, botVars, tradeVars>>

(* Mutant: only a run that has a summary ends the claim.                    *)
ReleasedOnSuccess(r) == summary # r

Released(r) == FALSE

(* The deferred function: after success, failure and panic.                 *)
Release(r) ==
    /\ pc[r] = "release"
    /\ running' = Released(r)
    /\ Goto(r, "done")
    /\ UNCHANGED <<given, summary, botVars, tradeVars, chartVars>>

-----------------------------------------------------------------------------
(* Mutant: an order is also shown with the candle before its own.           *)
WithinOrNext(i, at) ==
    \/ at = candles[i].time
    \/ i < Len(candles) /\ candles[i].time < at /\ at <= candles[i + 1].time

(* Chart.CandlesByPair: the orders shown with the i-th candle.  Orders      *)
(* later than the last candle are left for it.                              *)
Within(i, at) ==
    \/ at = candles[i].time
    \/ i < Len(candles) /\ candles[i].time < at /\ at < candles[i + 1].time

OrdersOfCandle(i) ==
    LET placed(id) == \E j \in DOMAIN candles : Within(j, orders[id].at) IN
    {id \in DOMAIN orders :
        \/ Within(i, orders[id].at)
        \/ i = Len(candles) /\ ~placed(id) /\ orders[id].at > candles[i].time}

(* IndicatorsByPair: those of the strategy, once there are enough candles.  *)
RunsInIndicators ==
    {run \in {owner.strategy} : Len(candles) >= Warmup} \ {Nobody}

(* EquityValuesByPair                                                       *)
RunsInEquity == {owner.wallet} \ {Nobody}

(* The runs that an answer of HandleChartData is made of, if nothing        *)
(* happens between the locks it takes.                                      *)
RunsInData ==
    {candles[i].run : i \in DOMAIN candles} \cup RunsInIndicators \cup RunsInEquity

(* HandleSummary: nothing is 404.                                           *)
RunsInSummary == {summary} \ {Nobody}

-----------------------------------------------------------------------------
Handle(r) ==
    \/ DropSummary(r) \/ Fetch(r) \/ FetchPanics(r) \/ ResetChart(r) \/ SetStrategy(r) \/ SetPaperWallet(r)
    \/ OnCandle(r) \/ Drained(r) \/ BacktestCandle(r) \/ PublishFill(r) \/ BotReturns(r)
    \/ StoreSummary(r) \/ ResetFailed(r) \/ Release(r)

Next ==
    \/ \E r \in Requests :
          \/ Reject(r) \/ Claim(r) \/ Handle(r) \/ RunFails(r) \/ OnOrder(r)
          \/ \E status \in {"NEW", "FILLED"} : PlaceOrder(r, status)
    \/ \E m \in flying : PublishNew(m)

(* Goroutines run; a download ends, by the timeout of the run if need be.   *)
Fairness ==
    /\ \A r \in Requests : WF_vars(Handle(r)) /\ WF_vars(OnOrder(r))
    /\ WF_vars(\E m \in flying : PublishNew(m))

Spec == Init /\ [][Next]_vars /\ Fairness

-----------------------------------------------------------------------------
(* "Drop the previous result up front so /api/data and /api/summary never   *)
(* describe two different runs": the candles of the chart are of one run,   *)
(* in the order of time, with the strategy and the wallet of that run, a    *)
(* running backtest included; and while there is a summary, it is of the    *)
(* same run.                                                                *)
OneRunIsShown ==
    candles # <<>> =>
        /\ Cardinality(RunsInData \cup RunsInSummary) = 1
        /\ RunsInEquity # {}
        /\ \A i \in 2..Len(candles) : candles[i - 1].time < candles[i].time

Period(p, t) == t .. (t + p.timeframe - 1)

(* Batches and grouping neither lose nor double a candle: if the market has *)
(* no gap, a run that trades has exactly the periods of its days (with the  *)
(* one that has just begun, if candles are not grouped), each from all of   *)
(* its parts.  They are enough for the warm-up and some candles to trade,   *)
(* "so a run with no trades means no signal rather than not enough data".   *)
BacktestIsWhole ==
    \A r \in Requests :
        LET p     == plan[r]
            start == Today - p.days * Day
            shown == CompleteCandles(history[r].candles) IN
        pc[r] = "trade" /\ start..Today \subseteq market =>
            /\ Len(shown) = ((p.days * Day) \div p.timeframe) + (IF p.highFrequency THEN 0 ELSE 1)
            /\ \A i \in DOMAIN shown :
                  /\ shown[i].time = start + (i - 1) * p.timeframe
                  /\ p.highFrequency => Range(shown[i].parts) = Period(p, shown[i].time)
            /\ Len(shown) >= Warmup + MinTradable

(* The chart of a session, whenever it was created: every candle that has   *)
(* opened since its warm-up began is there, once and in order, across gaps  *)
(* of the market and also if the exchange answers with fewer candles than   *)
(* were asked for; those before the last ChartSize are not.                 *)
SessionChartIsWhole ==
    \A now \in 1..Today, step \in {1, 2}, limit \in 1..ChunkSize :
        \A created \in 0..now, ahead \in {{}, {now + 1}} :
            LET end   == ChartEnd(created, now, ahead, step)
                start == ChartStart(created, Warmup, step, end)
                shown == ChartCandles(market, step, start, end, limit)
                opened(times) == SelectSeq(times, LAMBDA t : t < end) IN
            opened(shown) = CandlesByPeriod(market, step, start, end - 1)

(* What is asked for piece by piece is put together without a gap or an     *)
(* overlap, for backtests and for charts.                                   *)
HistoryIsWhole ==
    /\ BacktestIsWhole
    /\ (\A r \in Requests : pc[r] = "new") => SessionChartIsWhole

(* An order is shown with one candle, whenever the chart is read: not lost  *)
(* between two candles and not in both.  Those from before the first candle *)
(* are not shown.                                                           *)
OrdersShownOnce ==
    candles # <<>> =>
        \A id \in DOMAIN orders : orders[id].at >= candles[1].time =>
            Cardinality({i \in DOMAIN candles : id \in OrdersOfCandle(i)}) = 1

(* A backtest that fails, panics or times out does not keep others out.     *)
BacktestsEnd == running ~> ~running

(* The orders of a run reach the chart, unless another run resets it.       *)
OrdersReachChart ==
    \A r \in Requests :
        summary = r ~> (summary # r \/ DOMAIN book[r] \subseteq DOMAIN orders)

==============================================================================
