\* Two replicas, one request whose attempts end in every way there is (a 502 to 504,
\* retried and counted like a failed connect, left out), and the clock running on
\* while a probe is awaited; outages that end at different times.
SPECIFICATION FairSpec
CONSTANTS
    Weight <- MCWeight
    TripScore = 2
    InitialOpen = 3
    MaxOpen = 3
    ProbeInterval = 1
    ProbesToClose = 2
    Probation = 0
    MaxLag = 1
    Never = Never
    N = 2
    Request = {r1}
    MaxAttempts = 2
    Second = 2
    Observed = {"ok", "throttled", "client_error", "server_error",
                "connect_error", "broken_reply", "read_timeout"}
    BreakerEnabled = TRUE
    None = None
INVARIANTS
    BoundedRetries
PROPERTIES
    RetryAfterNotTooLong
    EveryOutageProbed
    EveryRequestEnds
