\* Two replicas that come and go, and two checks at a time.
SPECIFICATION FairSpec
CONSTANTS
    Replicas <- MCReplicas
    Check = {k1, k2}
CHECK_DEADLOCK FALSE
INVARIANTS
    ClientClosedLast
    ReadinessIsHonest
PROPERTIES
    ShutdownCompletes
