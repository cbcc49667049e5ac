SPECIFICATION Spec
CONSTANTS
    Users = {u1}
    Nobody = Nobody
    Files = {}
    Requests = {r1}
    MaxVersions = 3
    Branching = TRUE
    u1 = u1
    r1 = r1
SYMMETRY Symmetry
INVARIANTS
    AncestorsSuperseded
