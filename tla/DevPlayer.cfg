SPECIFICATION Spec
CONSTANTS
    Records = 4
    Limit = 1
    EndsWhenEmpty = TRUE
    MaxPlays = 4
    MaxStarts = 3
INVARIANTS TypeOK
PROPERTIES Refines EndAnnounced StopReturns
CHECK_DEADLOCK FALSE
