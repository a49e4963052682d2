\* One replica, three attempts in flight; a unit of time is five seconds.
SPECIFICATION Spec
CONSTANTS
    Weight <- MCWeight
    TripScore = 6
    InitialOpen = 3
    MaxOpen = 12
    ProbeInterval = 1
    ProbesToClose = 2
    Probation = 12
    MaxLag = 1
    Never = Never
    MaxInFlight = 3
    VisitPeriod = 1
    ProbeTimeout = 1
INVARIANTS
    TypeOK
    ScoreBelowThreshold
    ProbeOwnsOutage
    RecoversInTime
PROPERTIES
    DeliberateTrip
    LateOutcomesInert
    ImplementsContract
    Recloses
