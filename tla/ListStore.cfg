SPECIFICATION FairSpec
CONSTANTS
    Terms = {none, ana}
    NoSearch = none
    LastPage = 3
    Loads = {l1, l2}
    Mutations = {m1}
    MaxVersion = 2
    MaxStack = 4
    Null = Null
INVARIANT ShowsWhatIsAsked
INVARIANT ShowsMutations
PROPERTY LoadingEnds
