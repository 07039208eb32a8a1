SPECIFICATION Spec
CONSTANTS
    a = a
    b = b
    left = left
    mobile = mobile
    t1 = t1
    t2 = t2
    NoHandler = NoHandler
    NoThread = NoThread
    Subjects <- MCSubjects
    Handlers <- MCHandlers
    Threads <- MCThreads
    Movable <- MCMovable
    Writing <- MCWriting
    Notifying <- MCNotifying
    Bytes <- MCBytes
    Writes <- MCWrites
    FirstArray <- MCArray
    FirstObservers <- MCObservers
    Capacity = 2
    Resizable = TRUE
    OnChange = TRUE
    MaxWrites = 2
INVARIANTS TypeOK HandlersSeeWrite AllNotified ListIsSubscribed
PROPERTIES SilentWriteKeepsBytes CallsReturn
CHECK_DEADLOCK FALSE
