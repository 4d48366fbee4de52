SPECIFICATION Spec
CONSTANTS
    Ids = {1, 2, 3}
    Limit = 1
    Milli = 2
    MaxTime = 3
    Lag = 1
INVARIANT WalkIsComplete
