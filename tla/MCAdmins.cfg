SPECIFICATION FairSpec
CONSTANTS
    AdminIds = {a1, a2}
    Emails = {e1, e2}
    Requests = {r1, r2}
    Faults = {"statement", "answer", "restart"}
    Null = Null
INVARIANT UniqueEmails
INVARIANT CredentialFlag
PROPERTY NoResurrection
PROPERTY StatusFollowsRequests
PROPERTY PasswordLostByEditOnly
PROPERTY ImplementsRegistry
PROPERTY EveryRequestAnswered
