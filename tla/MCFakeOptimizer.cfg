SPECIFICATION FairSpec
CONSTANTS
    Ids = {x, y}
    Points <- Line
    Origin = 0
    Distance <- LineDistance
    NaN = NaN
    MaxShipments = 2
    SharedIds = FALSE
    Null = Null
INVARIANT NoConstraintDeadlock
INVARIANT EveryStopOnce
INVARIANT DistanceIsDriven
PROPERTY ImplementsTour
PROPERTY EveryCallReturns
CHECK_DEADLOCK FALSE
