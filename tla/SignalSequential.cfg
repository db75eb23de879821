SPECIFICATION Spec
CONSTANTS
    Sessions = {s1, s2}
    Handlers = {h1}
    Launches = {l1, l2}
    NoLaunch = NoLaunch
    AlertValues = {TRUE, FALSE}
    SelfExit = FALSE
    DBFaults = FALSE
    Crashes = TRUE
INVARIANTS RowInSync RunningSessionIsOpen
PROPERTY RequestsFinish
