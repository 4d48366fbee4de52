SPECIFICATION Spec
CONSTANTS
    Calls = {c1, c2}
    MaxIds = 6
    Names = {google, fake}
    MaxAsked = 3
    Half = 2
    Null = Null
PROPERTY CreatedLimitIsPositive
SYMMETRY Symmetry
CHECK_DEADLOCK FALSE
