SPECIFICATION Spec
CONSTANTS
    CustomerIds = {c1, c2, c3}
    Cnpjs = {x1, x2}
    Requests = {r1, r2, r3}
    Faults = {"statement", "answer", "restart"}
    Null = Null
SYMMETRY Symmetric
INVARIANT UniqueLiveCnpj
PROPERTY DeletionIsFinal
PROPERTY ImplementsDirectory
