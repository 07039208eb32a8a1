SPECIFICATION Spec
CONSTANTS
    c1 = c1
    c2 = c2
    Callers <- TwoCallers
    MaxWrites = 4
    MaxStarts = 3
INVARIANTS TypeOK OneStepAfterPause
PROPERTIES CallsReturn Sampled
CHECK_DEADLOCK FALSE
