SPECIFICATION Spec
CONSTANTS
    NFeeds = 2
    Published = 2
    LastCandle <- Single
    Modes = {"live"}
    WarmupPeriod = 1
    HighFrequency = {FALSE}
    Resampled = {}
PROPERTY BufferedIsProcessed
CHECK_DEADLOCK FALSE
