SPECIFICATION Spec
CONSTANTS
    Rows = {1, 2}
    Fps = {f1}
    Workers = {w1}
    MaxAttempts = 1
    BatchSize = 2
    Retention = FALSE
    MaxCrashes = 1
    MaxReplays = 1
    MaxOverruns = 0
    MaxRaces = 1
    Lineage <- SameLineage
    f1 = f1
    w1 = w1
INVARIANTS
    TypeOK
PROPERTIES
    LatestWins
    SentIsFinal
    OutboxSpec
