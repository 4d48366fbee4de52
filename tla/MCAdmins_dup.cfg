SPECIFICATION Spec
CONSTANTS
    AdminIds = {a1, a2}
    Emails = {e1, e2}
    Requests = {r1, r2}
    Faults = {}
    Null = Null
PROPERTY DuplicateAnswers409
