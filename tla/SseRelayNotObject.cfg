\* The same streams, asked whether reading the usage can break one.
SPECIFICATION Spec
CONSTANTS
    Break = Break
    Data = Data
    u1 = u1
    u2 = u2
    Usage = {u1, u2}
    Delta = Delta
    Done = Done
    NotObject = NotObject
    Junk = Junk
    Error = Error
    Stream <- MCStream
    None = None
    Raised = Raised
INVARIANT ObservingNeverBreaks
CHECK_DEADLOCK FALSE
