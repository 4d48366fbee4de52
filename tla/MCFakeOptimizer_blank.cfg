SPECIFICATION Spec
CONSTANTS
    Ids = {x, y}
    Points <- Line
    Origin = 0
    Distance <- LineDistance
    NaN = NaN
    MaxShipments = 2
    SharedIds = FALSE
    Null = Null
CHECK_DEADLOCK FALSE
INVARIANT OnlyShipmentsVisited
