SPECIFICATION Spec
CONSTANTS
    Sessions = {s1}
    Handlers = {h1, h2}
    Launches = {l1, l2}
    NoLaunch = NoLaunch
    AlertValues = {TRUE}
    SelfExit = TRUE
    DBFaults = TRUE
    Crashes = FALSE
INVARIANTS TypeOK RegistryExclusive NoOrphanBot RegisteredBotIsWanted
SYMMETRY Symmetry
