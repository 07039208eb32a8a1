SPECIFICATION Spec
CONSTANTS
    Capacity = 2
    Buffer = 1
    MaxSaid = 1
    Tries = 1
PROPERTIES StopReturns
CHECK_DEADLOCK FALSE
