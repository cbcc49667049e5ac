SPECIFICATION Spec
CHECK_DEADLOCK FALSE
CONSTANTS
    Items = {i1, i2}
    Contents = {"v1", "v2"}
    Requests = {r1}
    MaxPending = 2
    i1 = i1
    i2 = i2
    r1 = r1
INVARIANTS
    PublishedAfterCommit
