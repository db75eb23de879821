# Ninjabot in TLA+

Specifications of ninjabot, a Go framework for trading bots with a web
application (`cmd/main.go`, `server/`) that runs backtests and realtime paper
trading sessions. The models are translated from the Go code; every definition
is tied to its lines in `PROJECT.json` ("map"). TLC checks them on small
instances. TLAPS proves, for every value of the constants, the registry and the
rows of the session manager, the order of candles, the queues of the WebSocket
manager and that it implements the safety part of an abstract push service, the
settlement of orders, and that backtests run one at a time and show every order
once.

## The system

| Component | State | Operations | Talks to |
|---|---|---|---|
| Session manager, `server/handler/signal_manager.go`, `signal.go` | `bots` and `starting` under one mutex; a goroutine per bot; rows and events in the database | start, resume, stop, delete, alert toggle, exit of a bot, recovery at start-up | storage, bots, WebSocket manager, Telegram alerter |
| Storage, `storage/sqlite`, `storage/buntdb` | sessions, events, orders | whole-row writes, no transactions across calls | all |
| Paper wallet, `exchange/paperwallet` | balances (free, locked), orders, `pendingOrders`, last candles | create (limit, stop, OCO, market), candle, cancel | order controller, bot loop |
| Order controller, `order/controller.go` | positions, results, status, ticker goroutine; order rows in the storage | create, cancel, `updateOrders` (ticker, Stop, backtest loop), restore | wallet or exchange, storage, order feed |
| Order feed, `order/feed.go` | one unbuffered channel and goroutine per pair | subscribe, publish, start | chart, alerter, Telegram |
| Bot, `ninjabot.go` | candle queue, strategy controllers | per candle: wallet, (backtest) settle, strategy; shutdown | all of the above |
| Candle queue and feeds, `model/priorityqueue.go`, `exchange/feed` | heap, callbacks, channels | push, pop, subscriptions, CSV resampling | bot |
| Strategy controller, `strategy/controller.go` | dataframe, `started` | partial and closed candles, late candles, warm-up | bot, strategy |
| Binance stream, `exchange/binance/stream.go` | one connection per feed | connect, deliver, back off, reconnect | feeds |
| WebSocket manager, `server/ws/ws.go` | clients with bounded queues, the active stream | add, remove, broadcast, switch stream | browser |
| Backtest handler, `server/handler/backtest.go` | `running` flag, summary, shared chart | run one backtest at a time | chart, bot |
| Chart, `plot/chart.go` | candles and orders seen so far, strategy, wallet | candle, order, reset, answers for a page | backtest handler, sessions |
| Download, `download/download.go`; session charts | none | ask for past candles piece by piece | exchange, CSV feed, chart |
| Strategies, `strategy/strategies`, `tools/trailing.go` | last buy, last leg traded, trailing stop | closed and partial candle | order controller |
| Reports | equity, results, session statistics | drawdown, profit, gain | wallet, order controller |

What is hard: HTTP requests, the goroutines of bots and a crash interleave over
rows that are saved whole and without transactions; a start can be cancelled
while its bot is being built; a fill is noticed by polling, from a ticker, from
`Stop` and (in a backtest) from the candle loop; order rows of all sessions
share one table; locked funds are shared by the legs of an OCO order and given
back on cancellation; new orders are announced by goroutines. The hazards, each
at its line, are listed in `PROJECT.json`.

## Modules

### SignalManager

`db` is the session row together with what the program reads of its event log
(nothing, open, reopened, closed; `saved` says whether its `UpdatedAt` is later
than its creation and its newest START or RESUME), `bots` and `starting` are the maps, `launch`,
`owner` and `cancelled` describe one reservation with the context, bot and
goroutine made from it, `exitRow` is the row `run` has read. `op`, `pc`, `on`,
`tok`, `snap`, `found` are a request's operation, program counter and locals.
`phase`, `todo`, `closing` are the life of the process and its recovery. Events are
shown in the order of their times: a STOP of the recovery has the row's `UpdatedAt`,
so it is the newest event only if the row was saved after the START or RESUME.

Each critical section of `m.mu` and each database call is one action, in the
order of the code: `BeginStart, StartEvent, Reserve, LaunchBot | LaunchCancelled
| LaunchFails, MarkFailed` is `StartSession`; `BeginResume, Reserve, ResumeSave,
ResumeEvent, ...` is `ResumeSession`; `BeginStop, BotDone | StopTimeout, StopGet,
StopSave, StopEvent` is `StopSession`, followed by `DeleteEvents, DeleteRow` for
a DELETE; `BotReturns, BotUnregister | BotDisowned, ExitRead, ExitSave,
ExitEvent` is `run`; `Crash, Restart, RecoverSave, RecoverEvent, Recovered` is
the death of the process and `RecoverStaleSessions`. `UpdateSession` writes the
whole row of the caller's copy, inserting it again when it has been deleted, as
gorm's `Save` does, events of the copy included.

A launch may be drawn again once nothing refers to it: this recycling bounds
`Launches` without bounding the length of behaviours. Session ids are never
drawn twice (uuids), so `Sessions` bounds the sessions ever created.

Fairness: weak fairness of every request in progress, every exiting bot and the
recovery, because goroutines are scheduled. None for new requests, crashes or
`BotReturns`: `Bot.Run` waits for feeds and subscribers, and `StopSession` has a
timeout because it may not return.

### PaperWallet

A pair has a balance in `assets`, the base coin in `quote`; `orders` is the
slice of all orders and `pending` the index `pendingOrders`. A method of the
wallet holds its mutex throughout and is one action. `OnCandle` is written as
the set of orders that `Fired`, the siblings they cancel and the indices that
`removeCompletedOrders` drops, which is what the loop over the pending indices
computes: orders are visited in creation order, and only an earlier leg of the
same OCO sale changes what happens to a later order. `LockFunds` and `FillFunds`
are `validateFunds` for a waiting and for a market order, short positions
included.

Money and quantities are integers, a quantity counts lot steps. Rounding of
float64 is not modelled; the one division (average short price) rounds down and
no property of a wallet that does not short depends on it. Volumes and the average
long price are reports and are left out; the equity series is in `Strategies`.

`style` is what the strategy of the wallet does, chosen once: how many orders
there may be, the sides of OCO orders, whether a stop may differ from its limit,
whether more is sold than is free, and the situations in which orders are
cancelled: a sale, a buy while nothing is locked, a buy while a sale waits, one
leg of an OCO. The wallet itself cancels an order whatever its status and trades at
price 0 before the first candle; `CancelWaiting` and `TradeAtMarket` say what callers
do: a strategy cancels orders that wait, and orders when it has seen a candle of
the pair. `LongOnly` are the styles of the repository's strategies, which
sell what they hold and place OCO sales with stop = stopLimit.

### OrderController

`exch` and `waiting` are the wallet as the controller sees it (any waiting order
may fill on a candle, its sibling may be cancelled), `rows` the orders table,
`lock` is `c.mtx`. Each bot has the goroutine of `Run` and, live, the ticker
goroutine; both execute `updateOrders` (`Fetch, Poll, Save, Lock, Process,
Unlock`), where only the last part holds the lock. `applied` is the sequence of
trades that `processTrade` has given to the positions and results. Orders have
quantity 1, so a position is the balance of the applied trades; prices and profits
are in `Strategies`. `flying` are the
goroutines that have yet to publish, `heard` is what subscribers were told.

Placing an order is one action: it holds `c.mtx`, and threads without the lock
only read the rows, of which each appears in one write; the row of a market
order is not open and is not fetched. Cancelling is two, because the ticker can
see the exchange's order cancelled and the row not yet; neither looks at the
status of the order (`CancelWaiting` is the strategy that calls it). In a backtest the same
goroutine settles the orders after a candle if there were pending ones before.

Fairness: goroutines that can run do; a mutex is handed to a waiter (`sync`
switches to hand-off after 1 ms), which is strong fairness of `Lock`; the ticker
fires every second, and a ticker at rest eventually chooses `finish`, which is
strong fairness of `Finish`. Candles need not come.

### CandleStream and CandlePipeline

`CandlePipeline` extends `CandleStream` and composes all goroutines between the
exchange and the strategy. A feed is the number of its pair in the order of
names; candles of a feed are numbered, an odd one is a partial update of the
period that the next, even one closes.

`CandleStream`: `loop` is the goroutine of `serveCandles` (`Dial`, `DialFails`,
`DialReported`, `Wake`, `ConnectionEnds`, `StopConnection`, `Join`, `LoopEnds`),
`reader` the read loop of go-binance that calls its handlers, `wire` what is on
its way through the connection, `receiver` the goroutine of
`DataFeedSubscription.Start` at the other end of both unbuffered channels. A
send on a channel is one action of sender and receiver (`Hand`); sends that also
watch the context may be given up (`DropCandle`, `ErrorReported`). The exchange
publishes whether or not a feed is connected, and what it publishes meanwhile is
lost. Time is free, so the back-off has no length. In a backtest `loop` is the
goroutine of the CSV feed.

`CandlePipeline`: `main` is `Bot.Run` (`Preload` per pair, `Connect` per feed,
`Start`, then `PopLock` and the select of `processCandles`, or `Drained` and
`backtestCandles`). `data` is the array of the priority queue with `Up` and
`Down` as in the code, counted from 1; `fresh` and `held` are the goroutines that
`Push` starts, before and after their `Pop`. `frame` has a row per period, named
by the candle last written to it; `acted` is the last candle `Strategy.OnCandle`
was called for. `Less` compares time, update and pair. `UpdatedAt` is the start of
the period in every candle of Binance and of a file with the strategy's timeframe,
so live a partial candle and the one that closes its period are equal. A file that
`resample` has grouped (`Resampled`) also has the partial candles of each period, with
the time of the period and the update of the source candle (this is why `Less`
depends on `mode`, which never changes); `CsvCandles` is what such
a feed sends. Two source candles make a period here. With more there are several
partial candles of a period, and some of a period that the file leaves open, as only
the last one is removed; they are ordered by their updates like these.

Further candle subscribers (charts) and what wallet and order controller do with
a candle are left out: they run in the same goroutines and change none of this.

Fairness: goroutines run (weak fairness of each); a stopped connection ends; a
dial succeeds if the loop dials again and again (strong fairness of `Dials`), an
assumption about the network that only `StreamsReconnect` needs. Publishing,
disconnection and cancellation are free.

### PushService and WsManager

`PushService` is what a browser may rely on, with neither queues nor goroutines:
it sees every message from the one after it joined, in order and without a gap,
until it is let go, and one that is behind is served or let go. `WsManager` is
`server/ws/ws.go` with the handler of `/ws/market`: `writer` is `writeLoop`,
`reader` the handler's loop, `send` and `closed` the queues, `hand` the message
being written. A critical section of `clientsMu` is one action. `owner` holds
`streamMu`, from `SwitchStream` or `TickerLocks` until the dial has succeeded or
failed. `NotifierBroadcasts` stands for the bots of sessions and the ticker
stream, `StreamBroadcasts` for candle streams; an old candle stream may still
broadcast after it was told to stop, as in the code. A ticker subscription may be
asked for again at any time, where the server asks once.

`KeepsPromise` is the refinement: `Promise == INSTANCE PushService WITH upto <-
..., member <- ...`. What a client is to see is the newest message while it is
registered, and the last one of its queue afterwards. Its part `KeepsOrder`,
initial states and steps, is proved in `WsManagerProofs`; the other part, the
fairness of the promise, is checked by TLC.

Fairness: writers run and a write ends (`writeTimeout`), a read of a connection
that the server has closed fails, a dial ends (handshake timeout), `streamMu` is
handed to a waiter, a stopped stream ends. Browsers need not read or ask.

### HistoryFeed and Backtest

`HistoryFeed` is the candles of the past, as operators: `Download` (batches),
`Resample` (the CSV feed's grouping) and `ChartCandles` (the loop of
`fetchSessionChartCandles`, from an exchange that may answer with fewer candles
than it was asked for). A candle of the exchange is its opening time, a grouped
candle the sequence of candles it is made of.

`Backtest` composes them with the handler of `/api/backtest` and the chart that
all pages share: `running`, `summary`, `pc` of each request (`Claim, DropSummary,
Fetch | FetchPanics, ResetChart, SetStrategy, SetPaperWallet, OnCandle ...,
Drained, BacktestCandle ..., BotReturns, StoreSummary, Release`, with `RunFails`
and `ResetFailed` on the way). The bot is reduced to what reaches the chart:
candles, which the data feed hands over before the bot starts, orders in the
storage in memory (`book`), fills published by the loop (`PublishFill`, which waits
for the unbuffered channel of the feed) and new orders published by goroutines
(`PublishNew`), which nobody waits for at the end of a run. `RunsInData` and
`RunsInSummary` are the answers of the two handlers, each taken in one moment.

`NewCSVFeed` panics when no downloaded candle opens a period: it runs into an
index out of range; the claim is released by the deferred function. `Download`
moves both ends to midnight, so the last daily candle is the one of today, which
counts as complete. Its batches of 500 candles have 501 opening times at most,
below the 1000 that the exchange returns.

Fairness: handlers and the goroutines of feeds run, publishing goroutines run. A
download that hangs is ended by the timeout of the run. Nobody needs to ask.

### FibonacciLegs and Strategies

`FibonacciLegs` is `fibLegs`, carried from candle to candle as its scan does.
`Strategies` extends `PaperWallet` and `FibonacciLegs`: the candles of two pairs
reach the wallet, fills are booked on the controller's positions
(`Position.Update`, `processTrade`), then the strategy may trade. All of it runs in
one goroutine, so an action is one call: `Candle`, then the decision of the
strategy, then, for an entry with an exit, `PlaceExit`. Whether an indicator gives
a signal is free; what the strategy checks about balances, legs and stops is not.
The wallet may refuse any buy that the strategies prepare for
(`ExitIfRejected`), as float64 rounding makes it do. `equity` is the wallet's
equity series; a candle may come `again` at the time of the last entry, from a pair that
has not closed that time (`closed`), and replaces it. `MaxDrawdown`, `Profit` and `PnL`
are the reports. The wallet may also reject the OCO order of an exit: it is logged,
and the asset is held without one. Warm-up is left out. `ById` books the fills of a
candle by ID, as sqlite lists them; BuntDB sorts by `updated_at`, which is the same
order for orders placed on different candles.

`trailing` has two fields beyond the code's, the highest price that the stop was
shown since the entry and the risk taken there, which only `StopProtects` reads;
the stop is shown the closes of partial candles, not those of complete ones; `bought` (the legs
bought) and `parts` (the pairs of which a position was not sold whole) are history
that no action reads.

### Proofs

`SignalManagerProofs`, `CandlePipelineProofs`, `WsManagerProofs`,
`OrderControllerProofs`, `BacktestProofs`, `PaperWalletProofs` and `StrategiesProofs`
each extend the module they are named after, and `StrategiesProofs` extends
`PaperWalletProofs` too. `SetLemmas` holds what they need of tables, sums and paths:
the rows of a table, sorted by ID, are a sequence with every row once; what
`SumFunctionOnSet` does when a set of orders grows, shrinks or splits, or when its
terms change; and what moving the items of an array along a path does. Its inductions
are over a set of naturals or of subsets, because the library's theorems take a
predicate as a parameter.

## What the runs check

| Run | Instance | Shows |
|---|---|---|
| `signal_registry` | 1 session, 2 requests, 2 launches, failing writes, bots that end on their own; symmetric requests and launches | `RegistryExclusive`, `NoOrphanBot`, `RegisteredBotIsWanted`: no interleaving leaves a bot that trades and is not registered, two bots of one session, or a cancelled start that is registered |
| `signal_sequential` | 2 sessions, 1 request at a time, crashes | `RowInSync`, `RunningSessionIsOpen`: rows agree with bots when nothing is in progress, and the page of a running session does not end with a STOP; `RequestsFinish` |
| `wallet_orders` | 1 pair, 2 prices; 4 orders of a long-only style or 3 of one that shorts, splits stops and cancels any order that waits | `NoOverdraft`, `LocksMatchOrders`, `ReplayMatchesWallet` (long-only): balances are what the order history says, as `CalculateBalancesFromOrders` assumes; `GroupExclusive`, `CandleFillsReached`: the legs of an OCO sale exclude one another and no candle forgets an order |
| `wallet_cancel` (violation) | long-only, but a buy may be cancelled while a sale waits | its quote stays locked |
| `orders_settle` | 1 bot, live or backtest, 2 orders, cancellation | `StopSettlesAll`, `BacktestSettlesFirst`, `FillsAreHeard`, `StopReturns` |
| `orders_profit` (violation) | 1 live bot, 2 orders | the updates of `Stop` and the ticker overlap and take a stored profit away |
| `orders_shared` (violation) | 2 live bots, 1 order each | one session's ticker marks the other session's order as filled |
| `candles_flow` | 2 pairs, live (three candles after the preload, any disconnections) or backtest (3 periods from a resampled file and 1 from another), with and without partial candles | `PopsTheEarliest`, `NotifyFindsCandle`, `NothingLost`, `StrategyMovesForward`, `BacktestMovesForward`: the queue and its goroutines keep every candle once, the strategy never goes back in time, and in a backtest partial candles and those that close their periods leave the queue in the order of the market; `NoSendAfterClose`, `StreamsReconnect`, `RunReturns`: streams neither give up nor outlive the bot |
| `candles_buffered` (violation) | 2 pairs, 1 candle each | a candle pushed before `PopLock` stays in the queue |
| `ws_clients` | 2 browsers, queues of 1, 2 feeds, 2 candle streams at once, 2 messages | `RegisteredIsServed`, `OneCandleStream`: no channel is closed twice or used when closed, no stream runs that nobody can stop; `ClientsCleared`; `SubscriptionsAnswered`; `KeepsPromise`, the refinement |
| `backtest_runs` | 2 requests, 4 plans (one too short, one of high frequency), markets that are whole, broken, late and empty, failures anywhere | `OneRunIsShown`, `HistoryIsWhole`, `OrdersShownOnce`, `BacktestsEnd`, `OrdersReachChart` |
| `strategies_trade` | 6 strategies, 2 interchangeable pairs, 4 shapes of candles, 5 candles (6 for Fibonacci) | `NeverShort`, `BooksMatchWallet`, `StopProtects`, `LegIsSwing`, `EachLegOnce` |

`HistoryIsWhole` has two parts. A backtest that trades has every period of its
days, from all of its parts. The chart of a session has every candle that has
opened since its warm-up, for every time of creation and of asking, every gap of
the market and every length of the exchange's answers; a candle at the very end
of what is asked for could be missing, but the end is one candle in the future.

`BooksMatchWallet` ties the reports together: positions are the assets held,
realized and open profits add up to the gain of the session, a resumed session
gets the same positions although its orders are booked in another order, and the
reported drawdown is the largest fall of the equity. It is the largest fall in
money, given as a ratio of the value it began at; a smaller fall from a lower
value may be larger as a ratio. Quantities are compared always; profits, and the
cost of a restored position, as long as no position was sold in parts (`parts`),
because `Position.Update` computes the profit of a partial sale for the part that
remains, and the average price depends on the order of fills then. OCOSell and
Fibonacci can sell in parts, the others never do.

`TypeOK` is checked for `SignalManager` and `CandlePipeline`, where it is the
base of proofs; in the other modules the properties would fail, or TLC would stop,
on a value of the wrong type.

Why the bounds are enough: two requests are the smallest number that can
disagree about a session, and the launches that matter at once are the bot that
is leaving and the one that comes; a third needs a third request. The wallet's
interesting cases are an OCO order (two legs) beside a buy and one more order,
and a price on either side of each trigger; amounts allow an order to be refused
for lack of funds. The controller's races are about one open order seen by two
threads; the second order opens the position the first one closes. For candles, two
closed periods and a partial candle between them are what can be delivered out
of order; the seven candles of a backtest give the heap nodes with one and two
children. A queue of one message is full with the first that is not taken; two
browsers can ask for different streams while a third party holds the lock. A
second backtest is what can meet the late goroutines of the first; a day of four
units has candles of one, two and four, batches of three end within and between
days, and pieces of three make a chart of four candles need more than one. The
shapes of candles have a swing low, higher lows and new highs; in six
candles a leg can be bought, sold and met again, in five the other strategies can
open, lose and open again a position of each pair.

`StopProtects` is about the prices the trailing stop is shown: the strategy calls
`TrailingStop.Update` for partial candles only, so after a complete candle that closes
higher the stop stays where it was, and may be further below that close than the
risk of the entry.

## What is proved

Every theorem is for every value of the constants that meets the `ASSUME` of its
module.

### Session manager

`SignalManagerProofs`, from `ManagerAssumption`:

- `RegistryCorrect`: `Spec => []RegistryInv`, the inductive invariant;
- `TypeCorrect`, `ExclusiveCorrect`, `NoOrphanCorrect`, `WantedCorrect`: the four
  invariants of `signal_registry`.

The three registry properties are not inductive alone: that `LaunchBot` keeps
`NoOrphanBot` needs to know that the request that launches is the one whose
launch `starting` names, and that no other request holds the same launch.
`RegistryInv` adds `ReservationHeld` (a request past `reserve` owns
`starting[id]`), `StartingIsReserved` (what `starting` names is a launch that is
not yet a bot), `ClaimsAreFresh` and `ClaimsDiffer` (requests that have drawn a
launch have drawn different, unused ones; in the code each `context.WithCancel`
is a new one). The proof goes by the actions of `Next`; requests that do not
touch the registry are covered by one lemma about changes of `pc`.

Under `OneAtATime` (one request at a time, no bot ends on its own, writes do not
fail; any number of sessions, and the process may die at any step), the
conditions of the run `signal_sequential`:

- `SequentialCorrect`: `Spec => []SequentialInv`;
- `RowInSyncCorrect`, `RunningIsOpenCorrect`: the two invariants of that run.

Without `OneAtATime` both are false (see the disagreements). `SequentialInv` says,
for each place a request can be at, what the row, the events and the maps of its
session are there (`Doing`), that a session no request works on is settled
(`SettledInStep`), that a reservation belongs to the request in progress
(`StartingIsHeld`), that bots return only when they were told to (`BotsAreTold`),
and that a process that recovers has no bots and leaves no row that says running
(`NothingRuns`).

### Candles

`CandlePipelineProofs`, from `StreamAssumption` and `PipelineAssumption`:

- `PipelineTypeCorrect`: `Spec => []TypeOK`;
- `CloseIsLast`: `Spec => []NoSendAfterClose`;
- `StrategyNeverGoesBack`: `Spec => StrategyMovesForward`;
- `NotifyFindsCandleCorrect`: `Spec => []NotifyFindsCandle`;
- `PopsTheEarliestCorrect`, `BacktestMovesForwardCorrect`, `NothingLostCorrect`: the
  action properties `PopsTheEarliest`, `BacktestMovesForward` and `NothingLost`.

`PipelineInv` adds `StreamsOpen` (a read loop runs only while its `serveCandles`
waits for it or joins it, a handler holds the first candle of the wire, a feed
that `Run` has not reached has no stream) and `ClosedRows` (without partial
candles every row is a closed candle and the last row is the candle the strategy
acted on last, so that the test for late candles compares with it). No
assumption about the order of delivery is used: the late test alone suffices.

`QueueInv` is the invariant of the queue: `HeapOrder` (no item of the array is less
than its parent), `NotifyFindsCandle` itself, `InOrder` (a connection carries its
candles in ascending order, and all of them are later than the candles of the pair
in flight, so that a pushed candle is a new one; live, none is later than what was
published) and `Phases` (nothing is received before `Start`, a backtest starts no
goroutine for a `Push`, `processCandles` holds a candle only between its two looks at
the context).

The recursive paths of `Up` and `Down` are treated as paths along links with a rank
that falls (`UpIsMove`, `DownIsMove`): everything on the path moves one place and its
start goes to its end. `SetLemmas` proves that such a path exists, that no two places
lead to the same one, and that the move is a permutation (`PathsArePaths`,
`MovedIsPermuted`). Hence `Pop` and `Push` keep the candles (`PopKept`, `PushKept`); that they
keep the heap compares each item with its parent according to whether the two are on
the path (`UpHeap`, `DownHeap`), and `HeadIsLeast` goes by induction from the root.

`BacktestMovesForward` also needs `BacktestOrder`: when a backtest runs, its feeds have
ended and the queued candles of a pair are later than the last row of its dataframe,
which a `Pop` keeps because the head of the heap precedes every other candle of its
pair, by time or, in one period, by update.

### WebSocket manager

`WsManagerProofs`, from `WsAssumption`:

- `WsInvCorrect`: `Spec => []WsInv`, the inductive invariant;
- `ServedCorrect`, `OneStreamCorrect`: the invariants `RegisteredIsServed` and
  `OneCandleStream`;
- `AnsweredCorrect`: the action property `SubscriptionsAnswered`;
- `OrderKept`: `Spec => KeepsOrder`, that is, every behaviour of the manager is one
  of `PushService` but for its fairness. The proof maps each action to a step of
  the push service (a broadcast to a publication that lets go of those whose
  queue is full, a write to a delivery) or to a stutter.

`WsInv` is `ClientInv` (a client in the map has an open queue, a writer and a
connection; a queue holds the messages that follow the one in the writer's hand,
in order and without a gap, which is what the refinement needs), `StreamInv` (who
dials holds `streamMu`, has asked for the active feed and finds no stream to stop;
the stream that `stopC` stops carries the active feed) and `ReaderWaits` (a client
that has not come has no reader).

### Order controller

`OrderControllerProofs`, from `ControllerAssumption` and `OneController`:

- `OrderInvCorrect`: `Spec => []OrderInv`, the inductive invariant;
- `StopSettlesAllCorrect`, `BacktestSettlesFirstCorrect`: the invariants of
  `orders_settle`.

`OneController` says that one bot uses the orders table. With two the
invariant is false, as the run `orders_shared` shows. Both threads of the
controller may be anywhere: that they process a fill twice (`orders_profit`) does
not break these invariants. `OrderInv` relates the table to
the exchange (`RowsAreOrders`, `RowsAreTrue`: a row is never ahead of its order),
what a thread remembers to both (`KnowledgeIsTrue`: what it has fetched or polled
was true when it did so, and the final states of orders do not change), and the
trades applied to the rows (`FillsAreApplied`, `EachFillOnce`), down to what is left
to do when `updateOrders` has gone through the list (`RestIsDone`, `BotSettles`).

### Backtests and the chart

`BacktestProofs`, from `BacktestAssumption` and `HistoryAssumption`:

- `RunInvCorrect`, `OneRunIsShownCorrect`: the claim `running` keeps runs apart;
- `OrdersShownOnceCorrect`: the invariant `OrdersShownOnce`, which also rests on
  `TimesAreTrue`: what is in the book, in flight and on the chart has times of the
  history, and the orders a run has yet to settle are in its book.

`RunInv` adds that the request that holds the claim is the only one past it
(`OneIsBusy`), what it has prepared at each of its steps (`RunPrepares`), and that
the candles of the chart ascend and are those of the run whose strategy and wallet
it has (`ChartIsOfOwner`, `ChartIsOrdered`). `HistoryAssumption` gives the type of the
candles that `History` returns, which the prover cannot derive because
`SelectSeq` has no definition it can expand; TLC evaluates it for the markets and
plans of `backtest_runs`.

### Paper wallet

`PaperWalletProofs`, from `WalletAssumption`, with the sums of `SetLemmas`:

- `WalletInvCorrect`, and from it `GroupExclusiveCorrect` and `FillsReachedCorrect`
  (`GroupExclusive`, `CandleFillsReached`): for every style, short sales and cancelled
  legs included;
- `LongInvCorrect`, and from it `NoOverdraftCorrect`, `ReplayCorrect` and
  `LocksMatchCorrect`: the three properties of the money in `wallet_orders`, for the
  styles that are `LongOnly`.

`WalletInv` says what the slice of orders looks like: the two legs of a group are next
to each other and differ in type and price only (`OrdersAreLegs`), and `pending` has
every order that waits, under its pair (`PendingIsIndex`). `GroupExclusive` needs both:
a fill cancels the legs it finds by group, and only orders in the index are visited.

`LongInv` has the balances as sums over the orders. `Funds` is what is locked, and that
nothing is below zero; `Books` is `ReplayMatchesWallet`. Neither is inductive alone: a
sale that fills takes the quantity of one order from the locked asset, which is right
only if its sibling was waiting with it and is cancelled now, and is booked at the
price of the order, which is what it was filled at only if its stop is its limit
(`LongOrders`). `Funds` keeps the locked quote *at least* at what the waiting buys cost,
and equal to it when no buy is cancelled while its pair is on sale: `LocksMatchCorrect`
assumes the latter of the styles that do not short (`BuysStayWhileSelling`, true of
those of `wallet_orders`), because the code does not unlock then, which is what
`wallet_cancel` shows. The other two theorems hold with or without such
cancellations.

The proof describes a step by the orders it adds, settles or cancels (`PlaceOne`,
`PlaceTwo`, `Trade`, `OnCandle`, `Cancel`; `NextIsStep`), how each changes the sums
(`OneMoreBooks`, `CandleBooks`, `CancelBooks`), and then what it does to the balances.
A candle settles any number of orders at once, so its part rests on lemmas about sums
over disjoint sets (`SumUnion`, `SumWithout`). The sums are `SumFunctionOnSet` of the
community modules; that their fold adds an element at a time is proved in `SetLemmas`
by induction over subsets, stated as a set of subsets that is closed under adding an
element.

### Strategies

`StrategiesProofs`, from `WalletAssumption`, `StrategiesAssumption` and
`PivotAssumption`:

- `LegIsSwingCorrect`: `AllSpec => []LegIsSwing`;
- `EachLegOnceCorrect`: `AllSpec => []EachLegOnce`;
- `TradeInvCorrect`: `InitAsset = 0 /\ AllSpec => []TradeInv`, and from it
  `NeverShortCorrect` (`NeverShort`) and `StopProtectsCorrect` (`StopProtects`);
- `BooksMatchWalletCorrect`: `InitAsset = 0 /\ AllSpec => []BooksMatchWallet`.

`LegsInv` says that what `fibLegs` returns is a leg (`LegsFollow`: its low is a swing
low that no candle since has undercut, its high the first of the highest since) and
that nothing starts before the leg that was traded last (`BoughtBefore`). The first is
kept because a swing low stays one until a candle is lower (`SwingStays`) and because a
new high is the highest of both the old leg and the one anchored at a later low. The
second holds since a leg is only ever moved to a later low, and a new one starts at a
low that was confirmed just now: remembering one leg is enough to trade each once.

`TradeInv` ties the books to the wallet. `MoneyInv` is the invariant of the wallet
without the premise that its style does not short: the styles here may let it, and that
no strategy does is the point. `HoldInv` says that the position of a pair is long and
as large as what the wallet holds of it, free and locked; `ExitInv` that only sales
wait, only in the two strategies that place OCO orders, and that the sale which follows
a purchase has the asset for it. A candle fills any number of sales, which
`ProcessTrades` books one after the other: `TradesInOrder` turns its `FoldLeft` into a
chain of positions, and `SalesReduce` shows that the position only shrinks along it,
because all that was on sale together is part of what it holds (`FillsInOrder`,
`CandleFrees`). Without that a fill could turn the position round. `StopInv` adds that
the trailing stop is armed exactly while there is a position and that the price it was
shown last was never above its peak, without which following the price would let the
stop fall behind (`FollowedProtects`). The premise `InitAsset = 0` is needed: a wallet that is given
the asset from the start sells more than the position has. Handlers give the
wallet of a backtest the base coin alone (`backtest.go:205`), and that of a new session
what the session was created with; a resumed session starts with what its orders left,
which is `ReplayCorrect`'s subject.

`BooksMatchWallet` compares folds over the whole history with the state, and its
invariant, on top of `TradeInv`, is `BooksInv`:

- `Tracked`: a pair that was never sold in parts has the position that
  `RestorePositions` would give it. Orders replay in the order of their creation, so
  this is not inductive alone: a sale that fills late replays before the purchases
  made while it waited, and must not look like a sale of the whole position there.
  `Tracked` therefore says of each waiting sale that every sale that has filled was
  created before it, and that it sells no more than what is held less what was bought
  since (`SaleIsLast`); `WholeSaleIsLast` concludes that a sale of the whole position
  has nothing behind it.
- `GainsAddUp`: what was realized, less what was paid for the open positions, is the
  change of the quote. A purchase moves quote to cost (`FlowIsBooked`), and a sale of
  the whole position (`WholeIsSold`) is where the rounded division of `ProfitValue` is
  exact. With the assets at the last prices this gives `PnL` (`GainsAreProfits`).
- the equity is a sequence of integers; what `MaxDrawdown` makes of one is proved
  without any other invariant (`DrawdownKnown`), by induction over its windows.

That the restored quantity is right whatever was sold in parts (`RestoredQuantity`)
needs no invariant of its own: it is what the filled orders sum up to, which `Books`
ties to the wallet. `RestorePositions` is written as a fold over the set of filled
orders, highest ID last, so that `ReplayedStep` and `ReplayedMore` can take one order
off it. `EmptySellsNothing` (nothing is on sale of which nothing is held) serves the
purchases that open a position.

### Model-checked only

Every invariant and every action property of the passing runs but one is a theorem.
What stays with TLC:

- `HistoryIsWhole`: the candles of a backtest and of the chart are computed by
  `SelectSeq`, `FlattenSeq` and a fetch that recurses over the exchange's answers.
  The prover cannot expand the first, and what the others compute for every input is
  an induction over data, for which its theorems cannot be instantiated.
- Liveness, which needs ENABLED: `RequestsFinish`, `FillsAreHeard`, `StopReturns`,
  `StreamsReconnect`, `RunReturns`, `ClientsCleared`, `BacktestsEnd`,
  `OrdersReachChart`, and the fairness part of `KeepsPromise`.
- The runs that end in a violation: their properties are false.

No theorem rests on a RECURSIVE operator, which the prover cannot treat.

## Disagreements found

`PROJECT.json` ("findings") quotes the lines. In short: cancelling a buy while a
sale waits never unlocks its quote; the ticker and `Stop` can both process a
fill, and the second takes the stored profit away; order polling ignores whose
row it reads; a candle that arrives before `processCandles` listens is kept back.

Known from the models without a run of their own: two requests at once make
whole-row saves lose updates, so `RowInSync` fails where they are allowed;
the recovery after a crash dates its STOP before the START or RESUME it ends, or
takes an old STOP for the new one and records none, so the page of a stopped
session ends with a START or RESUME; a candle stream that
ends on its own keeps its stop channel, so that nobody dials it again until
another pair is asked for; the orders of a run may be published after the next
run has reset the chart, and an answer of `HandleChartData` takes one lock per
part, so a reset in between makes it a mixture; a new order that is published
after its fill leaves NEW on the chart; Fibonacci may hold two trades of a pair at
once, although its comment says one (`fibonacci.go:255`): a position worth less than
the smallest order does not count, so a leg whose swing low has moved up since can be
bought while the first trade is open, and the pair is then sold in parts.

## Not modelled, and the plan

1. Telegram's commands as a second caller of the order controller (two calls of
   Stop may both find it running; a bot whose controller was stopped goes on
   placing orders that nobody polls), and storage failures in `OrderController`.
2. A composition of sessions with the order table, for the bot of a deleted
   session that still writes orders.

Left out for good: the orders of the Binance REST adapters (conversions between
types), indicators and metrics (floating-point numerics, most of it in a
library), the strategy registry, quotes and candles for the market page (no state
between requests), alerts, mail and Telegram transport, the web interface.
Storage drivers (gorm, SQLite, BuntDB) are modelled by what their callers rely on;
migrations are not. An ID counter that starts again at 1 when a BuntDB file is
opened (`storage/buntdb/buntdb.go:46`) makes new orders overwrite old ones; no
model opens a file twice.
