SPECIFICATION Spec
CONSTANTS
    Pairs = {p1}
    InitQuote = 3
    InitAsset = 1
    Prices = {1, 2}
    Sizes = {1}
    QuoteAmounts = {2}
    MaxOrders = 4
    Styles <- SomeStyles
INVARIANTS NoOverdraft LocksMatchOrders ReplayMatchesWallet GroupExclusive
PROPERTY CandleFillsReached
