SPECIFICATION ServiceSpec
CONSTANTS
    r1 = r1
    r2 = r2
    s1 = s1
    s2 = s2
    NoThread = NoThread
    Starters <- TwoStarters
    Stoppers <- TwoStoppers
    WaitStop = TRUE
    WaitReady = FALSE
    MayFail = TRUE
    MaxAccepted = 3
INVARIANTS ServiceTypeOK StopJoins
PROPERTIES CaughtRunEnds
CHECK_DEADLOCK FALSE
