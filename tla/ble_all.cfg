SPECIFICATION Spec
CONSTANTS
    t = t
    MaxConns = 3
    Asks = {t}
    None = None
INVARIANTS OneOwner StoppedIsFree VerdictIsHonest
PROPERTIES AnswerIsOwn
CHECK_DEADLOCK FALSE
