\* Three requests of any principal: two may be in flight for the limited key, and
\* the third meets what they left behind.
SPECIFICATION FairSpec
CONSTANTS
    Key = {key}
    Budget <- MCBudget
    Cap <- MCCap
    None = None
    Request = {r1, r2, r3}
    MaxCost = 2
    MaxChunks = 1
CHECK_DEADLOCK FALSE
INVARIANTS
    SlotsMatchHolders
    CapRespected
    OvershootBounded
    EverythingCharged
PROPERTIES
    EverySlotReturns
