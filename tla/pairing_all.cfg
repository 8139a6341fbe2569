SPECIFICATION Spec
CONSTANTS
    f1 = f1
    f2 = f2
    c1 = c1
    c2 = c2
    p1 = p1
    p2 = p2
    Flows = {f1, f2}
    Controllers = {c1, c2}
    Paths = {p1, p2}
    Identity = id
    Other = other
    None = none
    MaxAttempts = 1
    MaxEvents = 1
SYMMETRY Symmetry
INVARIANTS OwnershipKept NoProofLeft
PROPERTIES RollbackIsOwn NoRivalBond
CHECK_DEADLOCK FALSE
