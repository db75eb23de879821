SPECIFICATION Spec
CONSTANTS
    NFeeds = 2
    Published = 3
    LastCandle <- Uneven
    Modes = {"live", "backtest"}
    WarmupPeriod = 1
    HighFrequency = {TRUE, FALSE}
    Resampled = {1}
INVARIANTS TypeOK NoSendAfterClose NotifyFindsCandle
PROPERTIES PopsTheEarliest StrategyMovesForward NothingLost BacktestMovesForward StreamsReconnect RunReturns
CHECK_DEADLOCK FALSE
