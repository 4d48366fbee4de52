SPECIFICATION Spec
CONSTANTS
    CustomerIds = {c1, c2}
    Cnpjs = {x1, x2}
    Requests = {r1, r2}
    Faults = {}
    Null = Null
PROPERTY DeletedAnswers404
