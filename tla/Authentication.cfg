\* Three callers and one token make a queue of two, on either side of a restart.
SPECIFICATION FairSpec
CONSTANTS
    Caller = {c1, c2, c3}
    Credential = {"jwt", "unknown", "key"}
    Limit = 1
    None = None
INVARIANTS
    BoundedAndBusy
    ExpiryOvershootBounded
    RevocationHolds
PROPERTIES
    EveryCallerAnswered
CHECK_DEADLOCK FALSE
