SPECIFICATION FairSpec
CONSTANTS
    Admins = {ana, bia}
    Emails = {x, y}
    Toggles = {t1}
    MaxTries = 2
    MaxCalls = 1
    Free = Free
    Gone = Gone
    Null = Null
INVARIANT IInv
PROPERTY ToastsAreTrue
PROPERTY ToastNamesTheSave
PROPERTY ErrorKeepsDialog
PROPERTY WarnedBeforeReset
PROPERTY CallsEnd
