SPECIFICATION Spec
CONSTANTS
    Controllers = {c1}
    Modes = {"live", "backtest"}
    MaxOrders = 2
    Cancelling = TRUE
INVARIANTS StopSettlesAll BacktestSettlesFirst
PROPERTIES FillsAreHeard StopReturns
CHECK_DEADLOCK FALSE
