SPECIFICATION Spec
CONSTANTS
    Clients = {c1, c2}
    Feeds = {f1, f2}
    BufferSize = 1
    Streams = {t1, t2}
    MaxMessages = 2
    Nobody = Nobody
INVARIANTS RegisteredIsServed OneCandleStream
PROPERTIES ClientsCleared SubscriptionsAnswered KeepsPromise
CHECK_DEADLOCK FALSE
