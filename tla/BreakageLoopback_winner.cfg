SPECIFICATION Spec
CHECK_DEADLOCK FALSE
CONSTANTS
    Requests = {r1, r2}
    Ecos = {e1, e2}
    None = None
    r1 = r1
    r2 = r2
    e1 = e1
    e2 = e2
INVARIANTS
    OneWinner
