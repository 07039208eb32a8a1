SPECIFICATION Spec
CONSTANTS
    core = core
    first = first
    second = second
    inner = inner
    Devices <- FourDevices
    Root = core
    Children <- Tree
    MaxCalls = 5
    MaxFailures = 2
INVARIANTS TypeOK WholeOrNone
CHECK_DEADLOCK FALSE
