\* A replica may break off a reply it has begun.
SPECIFICATION Spec
CONSTANTS
    Weight <- MCWeight
    TripScore = 2
    InitialOpen = 1
    MaxOpen = 1
    ProbeInterval = 1
    ProbesToClose = 2
    Probation = 1
    MaxLag = 0
    Never = Never
    N = 2
    Request = {r1, r2}
    MaxAttempts = 2
    Second = 1
    Observed = {"ok", "broken_reply"}
    BreakerEnabled = TRUE
    None = None
INVARIANTS
    RepeatedOnlyIfNothingSent
