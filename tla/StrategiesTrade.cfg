SPECIFICATION AllSpec
CONSTANTS
    Pairs = {p1, p2}
    InitQuote = 9
    InitAsset = 0
    Prices = {1, 2, 3, 4, 5, 6, 7}
    Sizes = {1}
    QuoteAmounts = {2}
    MaxOrders = 7
    Styles <- AnyStyle
    Kinds = {"ocosell", "dca", "trailing", "turtle", "emacross", "fibonacci"}
    Shapes <- SomeShapes
    MaxCandles <- Bounds
    MinOrder = 3
    MaxSpend = 4
    Interval = 2
    BuyAmount = 5
    MaxPullback = 3
    Pivot = 1
INVARIANTS NeverShort BooksMatchWallet StopProtects LegIsSwing EachLegOnce
SYMMETRY Symmetry
CHECK_DEADLOCK FALSE
