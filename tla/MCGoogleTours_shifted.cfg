SPECIFICATION GoogleSpec
CONSTANTS
    Ids = {x, y}
    VehicleIds = {v}
    Points <- Corners
    MaxShipments = 3
    MaxVehicles = 1
    Null = Null
INVARIANT LabelsComeBack
CHECK_DEADLOCK FALSE
