SPECIFICATION Spec
CONSTANTS
    Users = {u1, u2}
    Nobody = Nobody
    Files = {f1}
    Requests = {r1}
    MaxVersions = 3
    Branching = TRUE
    u1 = u1
    u2 = u2
    f1 = f1
    r1 = r1
SYMMETRY Symmetry
INVARIANTS
    TypeOK
    ItemAtCurrent
    OneCurrent
    SupersededWasReplaced
    LocksAgree
    ReleasedIsFree
