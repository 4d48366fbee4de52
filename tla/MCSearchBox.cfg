SPECIFICATION ViewSpec
CONSTANTS
    Terms = {none, ana}
    NoSearch = none
    LastPage = 2
    l1 = l1
    l2 = l2
    Loads <- Slots
    Mutations = {m1}
    MaxVersion = 1
    MaxStack = 2
    Null = Null
INVARIANT BoxIsShown
SYMMETRY Symmetry
