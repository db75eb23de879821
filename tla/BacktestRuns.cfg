SPECIFICATION Spec
CONSTANTS
    Requests = {r1, r2}
    Nobody = Nobody
    Plans <- SomePlans
    Markets <- SomeMarkets
    Day = 4
    Today = 8
    Warmup = 1
    MinTradable = 1
    MaxOrders = 1
    BatchSize = 3
    ChunkSize = 3
    ChartSize = 4
    Faults = TRUE
INVARIANTS OneRunIsShown HistoryIsWhole OrdersShownOnce
PROPERTIES BacktestsEnd OrdersReachChart
CHECK_DEADLOCK FALSE
