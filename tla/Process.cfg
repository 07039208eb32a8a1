SPECIFICATION Spec
CONSTANTS
    Capacity = 2
    Buffer = 1
    MaxSaid = 3
    Tries = 3
INVARIANTS TypeOK EndsClean AllGiven
PROPERTIES ExecuteReturns
CHECK_DEADLOCK FALSE
