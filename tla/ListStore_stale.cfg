SPECIFICATION Spec
CONSTANTS
    Terms = {none, ana}
    NoSearch = none
    LastPage = 2
    Loads = {l1, l2}
    Mutations = {m1}
    MaxVersion = 1
    MaxStack = 3
    Null = Null
INVARIANT MutationIsShown
