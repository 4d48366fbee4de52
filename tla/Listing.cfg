SPECIFICATION FairSpec
CONSTANTS
    Ids = {1, 2, 3, 4}
    Limit = 2
    Milli = 2
    MaxTime = 3
    Lag = 1
INVARIANT CompleteBeyondAMillisecond
INVARIANT NewestFirst
PROPERTY EveryWalkEnds
