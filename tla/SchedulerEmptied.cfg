SPECIFICATION Spec
CONSTANTS
    dated = dated
    delayed = delayed
    none = none
    NoTask = none
    Tasks <- MCTasks
    RunAt <- MCRunAt
    RunIn <- MCRunIn
    Period <- MCPeriod
    Removable <- MCRemovable
    Preplay = 1
    Clears = FALSE
    MaxTime = 3
    MaxStarts = 1
INVARIANTS TaskToTake
CHECK_DEADLOCK FALSE
