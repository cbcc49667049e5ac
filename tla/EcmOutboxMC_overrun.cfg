SPECIFICATION FairSpec
CONSTANTS
    Rows = {1}
    Fps = {f1}
    Workers = {w1, w2}
    MaxAttempts = 2
    BatchSize = 1
    Retention = TRUE
    MaxCrashes = 1
    MaxReplays = 0
    MaxOverruns = 1
    MaxRaces = 0
    Lineage <- SameLineage
    f1 = f1
    w1 = w1
    w2 = w2
INVARIANTS
    ClaimExclusive
    SentWasAcknowledged
PROPERTIES
    Settles
