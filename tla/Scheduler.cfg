SPECIFICATION Spec
CONSTANTS
    dated = dated
    delayed = delayed
    none = none
    NoTask = none
    Tasks <- MCTasks
    RunAt <- MCRunAt
    RunIn <- MCRunIn
    Period <- MCPeriod
    Removable <- MCRemovable
    Preplay = 1
    Clears = TRUE
    MaxTime = 3
    MaxStarts = 2
INVARIANTS TypeOK OnePlace PauseHolds
PROPERTIES  StopReturns TaskPlayed
CHECK_DEADLOCK FALSE
