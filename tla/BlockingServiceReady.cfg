SPECIFICATION ServiceSpec
CONSTANTS
    r1 = r1
    r2 = r2
    s1 = s1
    s2 = s2
    NoThread = NoThread
    Starters <- OneStarter
    Stoppers <- OneStopper
    WaitStop = TRUE
    WaitReady = TRUE
    MayFail = FALSE
    MaxAccepted = 1
PROPERTIES ReadyStopReturns
CHECK_DEADLOCK FALSE
