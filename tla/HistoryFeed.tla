----------------------------- MODULE HistoryFeed -----------------------------
(***************************************************************************)
(* Candles of the past.  Those a backtest runs on are downloaded from the  *)
(* exchange in batches (download/download.go) and grouped by the CSV feed  *)
(* into the candles of the strategy's timeframe (exchange/feed/csvfeed.go);*)
(* those of a realtime session's chart are asked for piece by piece        *)
(* (server/handler/signal_manager.go).                                     *)
(*                                                                         *)
(* Time is counted in units of the finest candle.  A candle of the         *)
(* exchange is known by its opening time, and a grouped candle by the      *)
(* candles it is made of: its open is that of the first, its close and     *)
(* UpdatedAt those of the last, its high, low and volume accumulate over   *)
(* all of them.                                                            *)
(***************************************************************************)
EXTENDS Integers, Sequences, FiniteSets, FiniteSetsExt, SequencesExt

CONSTANTS
    BatchSize,    \* candles per request of a download
    ChunkSize,    \* maxCandlesPerRequest, of a chart
    ChartSize     \* maxRealtimeChartCandles

ASSUME FeedAssumption == {BatchSize, ChunkSize, ChartSize} \subseteq Nat \ {0}

(* The candles of the market that open in begin..end, where candles take    *)
(* step units.                                                              *)
CandlesByPeriod(market, step, begin, end) ==
    SelectSeq([i \in 1..(end - begin + 1) |-> begin + i - 1],
              LAMBDA t : t \in market /\ t % step = 0)

(* Mutant: a batch includes the opening time of the next one.               *)
BatchEndIncluded(end, last) == IF end < last THEN end ELSE last

(* end.Add(-1 * time.Second), unless it is the last batch.                  *)
BatchEnd(end, last) == IF end < last THEN end - 1 ELSE last

(* Download: the file's lines.                                              *)
Download(market, step, start, end) ==
    LET length == BatchSize * step
        batches == IF start < end THEN (end - start + length - 1) \div length ELSE 0
        batch(i) == LET begin == start + (i - 1) * length IN
            CandlesByPeriod(market, step, begin, BatchEnd(begin + length, end)) IN
    FlattenSeq([i \in 1..batches |-> batch(i)])

-----------------------------------------------------------------------------
(* isLastCandlePeriod and isFirstCandlePeriod, for the timeframes that      *)
(* divide a day.                                                            *)
IsLast(t, from, target)  == from = target \/ (t + from) % target = 0
IsFirst(t, from, target) == IsLast(t - from, from, target)

Candle(time, parts, complete) == [time |-> time, parts |-> parts, complete |-> complete]

(* A candle continues the one before it, unless that was complete.          *)
NextCandle(candles, t, complete) ==
    IF candles # <<>> /\ ~Last(candles).complete
    THEN Candle(Last(candles).time, Append(Last(candles).parts, t), complete)
    ELSE Candle(t, <<t>>, complete)

(* The candles that open a period.                                          *)
Opening(lines, from, target) == {i \in DOMAIN lines : IsFirst(lines[i], from, target)}

(* resample: from the first candle that opens a period on; a last candle    *)
(* that is not complete is removed.                                         *)
Resample(lines, from, target) ==
    LET first   == Opening(lines, from, target)
        source  == IF first = {} THEN <<>> ELSE SubSeq(lines, Min(first), Len(lines))
        add(candles, t) == Append(candles, NextCandle(candles, t, IsLast(t, from, target)))
        candles == FoldLeft(add, <<>>, source) IN
    IF candles # <<>> /\ ~Last(candles).complete THEN Front(candles) ELSE candles

CompleteCandles(candles) == SelectSeq(candles, LAMBDA c : c.complete)

-----------------------------------------------------------------------------
(* realtimeChartEndTime and realtimeChartStartTime: from the warm-up of the *)
(* session to one candle after now or its newest order, whichever is later. *)
ChartEnd(created, now, orderTimes, step) == Max({now, created} \cup orderTimes) + step

ChartStart(created, warmup, step, end) ==
    Max({created - step * warmup, end - step * ChartSize})

(* Where fetchSessionChartCandles goes on: after the last candle that it    *)
(* got, but not beyond what it asked for.  Its millisecond is a unit here.  *)
NextCursor(chunk, chunkEnd, step) ==
    IF chunk = <<>> THEN chunkEnd + 1 ELSE Min({Last(chunk) + step, chunkEnd + 1})

(* fetchSessionChartCandles, from an exchange that returns the first limit  *)
(* candles of a request.                                                    *)
ChartCandles(market, step, start, end, limit) ==
    LET fetch[cursor \in start..(end + 1)] ==
            LET chunkEnd == Min({cursor + step * (ChunkSize - 1), end})
                found    == CandlesByPeriod(market, step, cursor, chunkEnd)
                chunk    == SubSeq(found, 1, Min({limit, Len(found)}))
                seen     == ToSet(chunk)
                next     == NextCursor(chunk, chunkEnd, step) IN
            CASE cursor >= end -> <<>>
              [] cursor < end /\ chunkEnd <= cursor -> chunk
              [] OTHER -> chunk \o SelectSeq(fetch[next], LAMBDA t : t \notin seen) IN
    fetch[start]

=============================================================================
