SPECIFICATION Spec
CONSTANTS
    Users = {u1}
    Nobody = Nobody
    Files = {}
    Requests = {r1, r2}
    MaxVersions = 3
    Branching = FALSE
    u1 = u1
    r1 = r1
    r2 = r2
SYMMETRY Symmetry
INVARIANTS
    OneSuccessor
