SPECIFICATION MCSpec
CONSTANTS
    Endpoints = {e1, e2}
    Probers = {p1, p2, p3}
    EvictAbove = 1
    MaxGenerations = 3
    NoEndpoint = NoEndpoint
    Callers = {r1, r2}
    MaxTokens = 2
    RefillInterval = 2
    MaxClock = 5
    Senders = {s1, s2, s3}
    MaxBytes = 7
    MaxPayload = {0, 1, 3}
    MaxSseErrors = 2
INVARIANTS
    RateKept
    FailureRemembered
    SplitInvariant
    FinishTold
PROPERTIES
    EvidenceKept
CHECK_DEADLOCK FALSE
