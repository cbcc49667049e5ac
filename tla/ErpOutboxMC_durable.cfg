SPECIFICATION Spec
CHECK_DEADLOCK FALSE
CONSTANTS
    Rows = {k1}
    Contents = {c1, c2}
    Requests = {q1, q2}
    k1 = k1
    c1 = c1
    c2 = c2
    q1 = q1
    q2 = q2
INVARIANTS
    EnqueueIsDurable
