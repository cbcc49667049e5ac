SPECIFICATION Spec
CONSTANTS
    Jobs = {1}
    Keys = {k1}
    Priorities = {1}
    Indexing = {FALSE, TRUE}
    Clients = {c1}
    Workers = {w1, w2}
    MaxAttempts = 2
    Limit = 2
    Overrun = FALSE
    MaxCrashes = 1
    k1 = k1
    c1 = c1
    w1 = w1
    w2 = w2
INVARIANTS
    NoDoubleProcessing
