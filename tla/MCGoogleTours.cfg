SPECIFICATION GoogleSpec
CONSTANTS
    Ids = {x, y}
    VehicleIds = {v}
    Points <- Corners
    MaxShipments = 3
    MaxVehicles = 1
    Null = Null
INVARIANT PrecedenceSurvives
INVARIANT NothingIsServedTwice
CHECK_DEADLOCK FALSE
