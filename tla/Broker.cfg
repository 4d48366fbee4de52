SPECIFICATION FairSpec
CONSTANTS
    Customers = {acme, zeta}
    Names = {k1, k2}
    Requests = {r1, r2, r3}
    PoolSize = 2
    Null = Null
INVARIANT NoConnectionLeaks
INVARIANT AllOrNothing
INVARIANT AnswersAreTrue
INVARIANT NoCircularWait
PROPERTY ImplementsBackOffice
PROPERTY ShutdownEnds
