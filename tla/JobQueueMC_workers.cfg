SPECIFICATION FairSpec
CONSTANTS
    Jobs = {1, 2}
    Keys = {k1, k2}
    Priorities = {1}
    Indexing = {FALSE}
    Clients = {c1}
    Workers = {w1, w2}
    MaxAttempts = 2
    Limit = 1
    Overrun = FALSE
    MaxCrashes = 1
    k1 = k1
    k2 = k2
    c1 = c1
    w1 = w1
    w2 = w2
INVARIANTS
    TypeOK
    AttemptsBounded
    RunsAreAttempts
    ClaimsKeptApart
PROPERTIES
    FinishedIsFinal
    Settles
