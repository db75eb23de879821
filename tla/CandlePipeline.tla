--------------------------- MODULE CandlePipeline ---------------------------
(***************************************************************************)
(* How candles reach the strategy (ninjabot.go): the streams of            *)
(* CandleStream, the goroutines of Start in exchange/feed/subscription.go  *)
(* that push what they receive into the priority queue of                  *)
(* model/priorityqueue.go, the goroutine that every Push starts once       *)
(* PopLock has been called, the goroutine of Run that takes candles from   *)
(* them, and the dataframes of strategy/controller.go.  A backtest loads   *)
(* the queue completely and then pops it until it is empty.                *)
(*                                                                         *)
(* What the wallet and the order controller do with a candle is in their   *)
(* own modules.                                                            *)
(***************************************************************************)
EXTENDS CandleStream, Functions, SequencesExt

CONSTANTS
    Modes,          \* what the bot may be: "live" or "backtest"
    WarmupPeriod,   \* candles the strategy needs before it is called
    HighFrequency,  \* does the strategy implement OnPartialCandle? (a set)
    Resampled       \* feeds whose CSV file is finer than the strategy's timeframe

ASSUME PipelineAssumption ==
    /\ Modes \subseteq {"live", "backtest"} /\ Modes # {}
    /\ WarmupPeriod \in Nat \ {0}
    /\ HighFrequency \subseteq BOOLEAN /\ HighFrequency # {}
    /\ Resampled \subseteq Feeds

VARIABLES
    mode,      \* live or backtest
    partials,  \* does the strategy take partial candles?
    main,      \* where the goroutine of Run is
    setup,     \* how many pairs Run has prepared, and then connected
    data,      \* the array of the priority queue
    hooked,    \* has PopLock registered its callback?
    fresh,     \* goroutines of Push that have not called Pop yet
    held,      \* candles that such goroutines offer to processCandles
    current,   \* the candle that processCandles has received, as a set
    frame,     \* the rows of each dataframe: the candle last written to them
    acted      \* the last candle of each pair that the strategy acted on

queueVars    == <<data, hooked, fresh, held>>
strategyVars == <<frame, acted>>
botVars      == <<main, setup, current>>
vars == <<streamVars, mode, partials, queueVars, botVars, strategyVars>>

MainPCs == {"setup", "connect", "listen", "drain", "backtest", "hook", "select", "check",
            "returned"}

Candles == UNION {{Candle(f, n) : n \in 1..LastCandle[f]} : f \in Feeds}

Init ==
    /\ StreamInit
    /\ mode \in Modes
    /\ partials \in HighFrequency
    /\ main = "setup"
    /\ setup = 0
    /\ data = <<>>
    /\ hooked = FALSE
    /\ fresh = 0
    /\ held = {}
    /\ current = {}
    /\ frame = [f \in Feeds |-> <<>>]
    /\ acted = [f \in Feeds |-> 0]

-----------------------------------------------------------------------------
(* The priority queue, its array counted from 1.                           *)

(* UpdatedAt, in halves of a period: Binance, and a CSV file of the         *)
(* strategy's timeframe, give a candle the time of its period; resample    *)
(* keeps the time of the source candle that it comes from.                 *)
UpdatedAt(c) == IF mode = "backtest" /\ c.feed \in Resampled THEN c.n ELSE 2 * Time(c) - 1

(* Mutant: candles of one period are not told apart by their update.       *)
LessByTime(c, d) ==
    \/ Time(c) < Time(d)
    \/ Time(c) = Time(d) /\ c.feed < d.feed

(* Candle.Less: by time, then by update, then by pair.                     *)
Less(c, d) ==
    \/ Time(c) < Time(d)
    \/ Time(c) = Time(d) /\ UpdatedAt(c) < UpdatedAt(d)
    \/ Time(c) = Time(d) /\ UpdatedAt(c) = UpdatedAt(d) /\ c.feed < d.feed

Parent(i) == i \div 2

(* up: the item at the end of q rises until it is not less than its parent; *)
(* path is where it passes.                                                *)
Up(q) ==
    LET n == Len(q)
        stays(i) == i = 1 \/ ~Less(q[n], q[Parent(i)])
        path[i \in 1..n] == IF stays(i) THEN {i} ELSE {i} \cup path[Parent(i)]
    IN  [j \in 1..n |->
            CASE j \notin path[n] -> q[j]
              [] j \in path[n] /\ stays(j)  -> q[n]
              [] j \in path[n] /\ ~stays(j) -> q[Parent(j)]]

(* Mutant: down looks at the left child only.                              *)
DownLeft(q) ==
    LET stays(i) == 2 * i > Len(q) \/ ~Less(q[2 * i], q[1])
        path[i \in 1..Len(q)] == IF stays(i) THEN {i} ELSE {i} \cup path[2 * i]
    IN  [j \in 1..Len(q) |->
            CASE j \notin path[1] -> q[j]
              [] j \in path[1] /\ stays(j)  -> q[1]
              [] j \in path[1] /\ ~stays(j) -> q[2 * j]]

(* down: the item at the root sinks below every smaller best child.        *)
Down(q) ==
    LET best(i) == IF 2 * i + 1 <= Len(q) /\ Less(q[2 * i + 1], q[2 * i])
                   THEN 2 * i + 1 ELSE 2 * i
        stays(i) == 2 * i > Len(q) \/ ~Less(q[best(i)], q[1])
        path[i \in 1..Len(q)] == IF stays(i) THEN {i} ELSE {i} \cup path[best(i)]
    IN  [j \in 1..Len(q) |->
            CASE j \notin path[1] -> q[j]
              [] j \in path[1] /\ stays(j)  -> q[1]
              [] j \in path[1] /\ ~stays(j) -> q[best(j)]]

(* Mutant: the item that moved to the root also stays at the end.          *)
PopKeepsLast(q) ==
    IF Len(q) <= 1 THEN <<>> ELSE Down(<<Last(q)>> \o SubSeq(q, 2, Len(q)))

Pop(q) == IF Len(q) <= 1 THEN <<>> ELSE Down(<<Last(q)>> \o SubSeq(q, 2, Len(q) - 1))

Push(c) ==
    /\ data' = Up(Append(data, c))
    /\ fresh' = IF hooked THEN fresh + 1 ELSE fresh

-----------------------------------------------------------------------------
(* The strategy controller.                                                *)

(* updateDataFrame: a candle of the last row's time replaces the row.      *)
UpdateDataFrame(rows, c) ==
    IF rows # <<>> /\ Time(Candle(c.feed, Last(rows))) = Time(c)
    THEN [rows EXCEPT ![Len(rows)] = c.n]
    ELSE Append(rows, c.n)

(* Mutant: a late candle is not noticed.                                   *)
NeverLate(rows, c) == FALSE

Late(rows, c) == rows # <<>> /\ Time(c) < Time(Candle(c.feed, Last(rows)))

(* processCandle: OnPartialCandle for any candle, OnCandle for a closed one.*)
ProcessCandle(c) ==
    LET f == c.feed
        write == [frame EXCEPT ![f] = UpdateDataFrame(@, c)]
    IN  CASE ~Complete(c) ->
               /\ frame' = IF partials /\ Len(frame[f]) >= WarmupPeriod THEN write ELSE frame
               /\ UNCHANGED acted
          [] Complete(c) /\ Late(frame[f], c) ->
               UNCHANGED strategyVars
          [] Complete(c) /\ ~Late(frame[f], c) ->
               /\ frame' = write
               /\ acted' = IF Len(write[f]) >= WarmupPeriod
                           THEN [acted EXCEPT ![f] = c.n] ELSE acted

-----------------------------------------------------------------------------
(* The goroutine of Run.                                                   *)

MainTo(from, to) == main = from /\ main' = to

(* Mutant: the open candle is not discarded.                               *)
CandlesWithOpen(f) ==
    LET known == (published[f] + 1) \div 2
        first == IF known > WarmupPeriod THEN known - WarmupPeriod ELSE 0
    IN  [i \in 1..(known - first) |-> 2 * (first + i)]

(* CandlesByLimit: the last closed candles, without the open one.          *)
CandlesByLimit(f) ==
    LET closed == published[f] \div 2
        first  == IF closed > WarmupPeriod THEN closed - WarmupPeriod ELSE 0
    IN  [i \in 1..(closed - first) |-> 2 * (first + i)]

NextPair == IF setup + 1 = NFeeds THEN 0 ELSE setup + 1

(* One round of the loop over the pairs: a controller, its preloaded       *)
(* candles, the subscription and Start.  The controller has not been        *)
(* started while it is preloaded, so the strategy is not called.           *)
Preload ==
    /\ main = "setup"
    /\ setup' = NextPair
    /\ main' = IF setup + 1 = NFeeds THEN "connect" ELSE "setup"
    /\ frame' = IF mode = "live"
                THEN [frame EXCEPT ![setup + 1] = CandlesByLimit(setup + 1)]
                ELSE frame
    /\ UNCHANGED <<streamVars, mode, partials, queueVars, current, acted>>

PreloadFails ==
    /\ mode = "live"
    /\ MainTo("setup", "returned")
    /\ UNCHANGED <<streamVars, mode, partials, queueVars, setup, current, strategyVars>>

(* What a CSV feed sends: closed candles only; resampled, with the partial  *)
(* candle of each period before the one that closes it (two candles of the *)
(* file make a period), and without the partial candle of an open end.     *)
CsvCandles(f) ==
    LET closed == LastCandle[f] \div 2
    IN  IF f \in Resampled THEN [i \in 1..(2 * closed) |-> i]
                           ELSE [i \in 1..closed |-> 2 * i]

(* Connect: CandlesSubscription of every feed, in the order of the pairs.  *)
Connect ==
    LET f == setup + 1 IN
    /\ main = "connect"
    /\ setup' = NextPair
    /\ main' = IF f = NFeeds THEN "listen" ELSE "connect"
    /\ loop' = [loop EXCEPT ![f] = IF mode = "live" THEN "head" ELSE "csv"]
    /\ wire' = IF mode = "live" THEN wire ELSE [wire EXCEPT ![f] = CsvCandles(f)]
    /\ UNCHANGED <<cancelled, published, reader, receiver, mode, partials, queueVars,
                   current, strategyVars>>

(* Start: a goroutine for every feed; a backtest waits for them to end.    *)
Start ==
    /\ MainTo("listen", IF mode = "live" THEN "hook" ELSE "drain")
    /\ receiver' = [f \in Feeds |-> "on"]
    /\ UNCHANGED <<cancelled, published, loop, reader, wire, mode, partials, queueVars,
                   setup, current, strategyVars>>

Drained ==
    /\ \A f \in Feeds : receiver[f] = "ended"
    /\ MainTo("drain", "backtest")
    /\ UNCHANGED <<streamVars, mode, partials, queueVars, setup, current, strategyVars>>

(* backtestCandles: while the queue is not empty.                          *)
BacktestCandle ==
    /\ main = "backtest" /\ data # <<>>
    /\ ProcessCandle(Head(data))
    /\ data' = Pop(data)
    /\ UNCHANGED <<streamVars, mode, partials, hooked, fresh, held, botVars>>

BacktestReturns ==
    /\ data = <<>>
    /\ MainTo("backtest", "returned")
    /\ UNCHANGED <<streamVars, mode, partials, queueVars, setup, current, strategyVars>>

(* processCandles registers its callback with the queue.                   *)
PopLock ==
    /\ MainTo("hook", "select")
    /\ hooked' = TRUE
    /\ UNCHANGED <<streamVars, mode, partials, data, fresh, held, setup, current,
                   strategyVars>>

(* The select of processCandles: the rendezvous with a goroutine of Push,  *)
(* or cancellation.                                                        *)
Receive(c) ==
    /\ MainTo("select", "check")
    /\ c \in held
    /\ held' = held \ {c}
    /\ current' = {c}
    /\ UNCHANGED <<streamVars, mode, partials, data, hooked, fresh, setup, strategyVars>>

Done ==
    /\ cancelled
    /\ MainTo("select", "returned")
    /\ UNCHANGED <<streamVars, mode, partials, queueVars, setup, current, strategyVars>>

(* It looks at the context again before it processes the candle.           *)
CancelledFirst ==
    /\ cancelled
    /\ MainTo("check", "returned")
    /\ current' = {}
    /\ UNCHANGED <<streamVars, mode, partials, queueVars, setup, strategyVars>>

ProcessCandles ==
    /\ ~cancelled
    /\ MainTo("check", "select")
    /\ \E c \in current : ProcessCandle(c)
    /\ current' = {}
    /\ UNCHANGED <<streamVars, mode, partials, queueVars, setup>>

-----------------------------------------------------------------------------
(* The other goroutines.                                                   *)

(* The goroutine of Start receives a candle and calls onCandle.            *)
OnCandle(f) ==
    /\ \E n \in 1..LastCandle[f] : Hand(f, n) /\ Push(Candle(f, n))
    /\ UNCHANGED <<mode, partials, hooked, held, botVars, strategyVars>>

(* Mutant: the callback does not wait for processCandles.                  *)
NotifyOnce ==
    /\ fresh > 0
    /\ fresh' = fresh - 1
    /\ data' = Pop(data)
    /\ held' = IF data = <<>> \/ main # "select" THEN held ELSE held \cup {Head(data)}
    /\ UNCHANGED <<streamVars, mode, partials, hooked, botVars, strategyVars>>

(* The callback of PopLock, in the goroutine that Push started for it:     *)
(* it pops whatever is first now, and then offers it.                      *)
Notify ==
    /\ fresh > 0
    /\ fresh' = fresh - 1
    /\ data' = Pop(data)
    /\ held' = IF data = <<>> THEN held ELSE held \cup {Head(data)}
    /\ UNCHANGED <<streamVars, mode, partials, hooked, botVars, strategyVars>>

(* Mutant: the callback does not watch the context.                        *)
NotifyBlocks(c) == FALSE /\ c \in held /\ UNCHANGED vars

NotifyDrops(c) ==
    /\ cancelled
    /\ c \in held
    /\ held' = held \ {c}
    /\ UNCHANGED <<streamVars, mode, partials, data, hooked, fresh, botVars, strategyVars>>

Environment ==
    /\ mode = "live"
    /\ Cancel \/ \E f \in Feeds : Publish(f)
    /\ UNCHANGED <<mode, partials, queueVars, botVars, strategyVars>>

ServeCandles(f) ==
    /\ \/ LoopEnds(f) \/ DialFails(f) \/ DialReported(f) \/ Wake(f)
       \/ ConnectionEnds(f) \/ StopConnection(f) \/ Join(f) \/ CsvCloses(f)
    /\ UNCHANGED <<mode, partials, queueVars, botVars, strategyVars>>

Dials(f) == Dial(f) /\ UNCHANGED <<mode, partials, queueVars, botVars, strategyVars>>

Reading(f) ==
    /\ Read(f) \/ DropCandle(f) \/ ErrorReported(f)
    /\ UNCHANGED <<mode, partials, queueVars, botVars, strategyVars>>

Disconnects(f) == Disconnect(f) /\ UNCHANGED <<mode, partials, queueVars, botVars, strategyVars>>

Receiving(f) == ReceiverEnds(f) /\ UNCHANGED <<mode, partials, queueVars, botVars, strategyVars>>

Run ==
    \/ Preload \/ Connect \/ Start \/ Drained \/ BacktestCandle \/ BacktestReturns
    \/ PopLock \/ Done \/ CancelledFirst \/ ProcessCandles
    \/ \E c \in Candles : Receive(c)

Notifying == Notify \/ \E c \in Candles : NotifyDrops(c)

Next ==
    \/ Environment \/ Run \/ PreloadFails \/ Notifying
    \/ \E f \in Feeds : \/ ServeCandles(f) \/ Dials(f) \/ Reading(f) \/ Disconnects(f)
                        \/ Receiving(f) \/ OnCandle(f)

(* Goroutines run; a connection that is stopped ends; the network lets some *)
(* dial succeed.  Nobody has to publish, disconnect or cancel.             *)
Fairness ==
    /\ WF_vars(Run) /\ WF_vars(Notifying)
    /\ \A f \in Feeds :
          /\ WF_vars(ServeCandles(f)) /\ SF_vars(Dials(f)) /\ WF_vars(Reading(f))
          /\ WF_vars(Receiving(f)) /\ WF_vars(OnCandle(f))
          /\ WF_vars(loop[f] = "join" /\ Disconnects(f))

Spec == Init /\ [][Next]_vars /\ Fairness

-----------------------------------------------------------------------------
Queued   == Range(data)
InFlight == Queued \cup held \cup current

(* Every variable holds a value of its kind, and the loops and goroutines   *)
(* are at one of their control points.                                     *)
TypeOK ==
    /\ cancelled \in BOOLEAN /\ hooked \in BOOLEAN
    /\ mode \in Modes /\ partials \in HighFrequency
    /\ main \in MainPCs /\ setup \in 0..(NFeeds - 1)
    /\ loop \in [Feeds -> LoopPCs] /\ reader \in [Feeds -> ReaderPCs]
    /\ receiver \in [Feeds -> {"off", "on", "ended"}]
    /\ published \in [Feeds -> Nat] /\ acted \in [Feeds -> Nat]
    /\ wire \in [Feeds -> Seq(Nat)] /\ frame \in [Feeds -> Seq(Nat)]
    /\ \A f \in Feeds : /\ published[f] <= LastCandle[f] /\ acted[f] <= LastCandle[f]
                        /\ wire[f] \in Seq(1..LastCandle[f])
                        /\ frame[f] \in Seq(1..LastCandle[f])
    /\ data \in Seq(Candles) /\ fresh \in Nat
    /\ held \subseteq Candles /\ current \subseteq Candles

(* Nobody sends on a channel that serveCandles has closed: the loop closes  *)
(* both only when no handler of a connection can still run.                *)
NoSendAfterClose ==
    \A f \in Feeds : loop[f] = "closed" => reader[f] \in {"none", "done"}

(* A goroutine of Push always finds a candle to pop (it would panic on nil  *)
(* in processCandles), and no candle is in two places.                     *)
NotifyFindsCandle ==
    /\ fresh <= Len(data)
    /\ IsInjective(data)
    /\ Queued \cap held = {} /\ (Queued \cup held) \cap current = {}

Earlier(d, c) ==
    Time(d) < Time(c) \/ (Time(d) = Time(c) /\ UpdatedAt(d) < UpdatedAt(c))

(* Every Pop takes a candle that no other queued candle is earlier than, by *)
(* period and, in one period, by update: "in chronological order", of all  *)
(* pairs (backtestCandles).                                                *)
PopsTheEarliest ==
    [][\A c \in Queued \ Queued' : \A d \in Queued' : ~Earlier(d, c)]_vars

(* A backtest writes the rows of a dataframe in the order in which the      *)
(* market made them: no partial candle after the one that closed its       *)
(* period, which it would overwrite, and none of an older period.          *)
BacktestMovesForward ==
    [][\A f \in Feeds : main = "backtest" /\ frame'[f] # frame[f] =>
          frame[f] = <<>> \/ Last(frame'[f]) > Last(frame[f])]_vars

(* The strategy is called for closed candles in the order of time, even     *)
(* when goroutines deliver candles out of order (the strategies that take   *)
(* partial candles are excepted: a late partial candle adds an older row).  *)
StrategyMovesForward ==
    [][\A f \in Feeds : ~partials /\ acted'[f] # acted[f] => acted'[f] > acted[f]]_vars

(* Until the bot is cancelled, a candle that was pushed leaves the queue    *)
(* and the goroutines only to be processed.                                *)
NothingLost ==
    [][\A c \in InFlight \ InFlight' :
          cancelled \/ c \in current \/ main = "backtest"]_vars

(* A feed that is not connected is connected again, or the bot is           *)
(* cancelled: serveCandles does not give up.                               *)
StreamsReconnect ==
    \A f \in Feeds : loop[f] \in {"head", "report", "sleep"}
                        ~> (loop[f] = "wait" \/ cancelled)

Quiet ==
    /\ main = "returned" /\ fresh = 0 /\ held = {}
    /\ \A f \in Feeds : /\ loop[f] \in {"unopened", "closed"}
                        /\ reader[f] \in {"none", "done"}
                        /\ receiver[f] # "on"

(* A backtest, and a live bot that is cancelled, returns and leaves no      *)
(* goroutine behind: all streams are closed, nobody waits on a channel.    *)
RunReturns == (mode = "backtest" \/ cancelled) ~> Quiet

(* "processCandles processes buffered candles until ctx is cancelled": a    *)
(* candle in the queue is eventually taken out of it.                      *)
BufferedIsProcessed ==
    \A c \in Candles : (c \in Queued) ~> (c \notin Queued \/ cancelled)
=============================================================================
