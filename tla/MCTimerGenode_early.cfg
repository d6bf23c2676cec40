SPECIFICATION Spec
CONSTANTS
    Durations = {1, 2, 3}
    Micro = 2
    MaxTime = 8
PROPERTY KeepsPromise
CHECK_DEADLOCK FALSE
