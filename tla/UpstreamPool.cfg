\* Two replicas and two concurrent requests: every interleaving of their attempts,
\* their retries and the prober, with an outcome of each kind: retried or not, and
\* counted by the breaker or not.
SPECIFICATION Spec
CONSTANTS
    Weight <- MCWeight
    TripScore = 2
    InitialOpen = 1
    MaxOpen = 1
    ProbeInterval = 1
    ProbesToClose = 2
    Probation = 1
    MaxLag = 0
    Never = Never
    N = 2
    Request = {r1, r2}
    MaxAttempts = 2
    Second = 1
    Observed = {"ok", "throttled", "client_error", "connect_error", "read_timeout"}
    BreakerEnabled = TRUE
    None = None
SYMMETRY Alike
INVARIANTS
    BreakersSound
PROPERTIES
    TurnedAwayOnlyWhenAllOpen
    RetryGoesElsewhere
    OutageTakesNoTraffic
