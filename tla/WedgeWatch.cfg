\* A stall of three units is a wedge; the prober and the scraper run unsynchronised.
SPECIFICATION Spec
CONSTANTS
    Weight <- MCWeight
    TripScore = 2
    InitialOpen = 1
    MaxOpen = 1
    ProbeInterval = 1
    ProbesToClose = 2
    Probation = 1
    MaxLag = 0
    Never = Never
    Window = 3
    ScrapeTimeout = 1
INVARIANTS
    SuspicionIsDated
PROPERTIES
    NoRecloseUnderSignal
    WedgeIsRemoved
    WedgeIsForgiven
