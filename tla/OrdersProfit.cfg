SPECIFICATION Spec
CONSTANTS
    Controllers = {c1}
    Modes = {"live"}
    MaxOrders = 2
    Cancelling = FALSE
PROPERTY ProfitSurvives
CHECK_DEADLOCK FALSE
