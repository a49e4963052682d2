\* Every stream of up to two events and a last usage event, cut into chunks in every
\* way, broken off or left by its caller anywhere.
SPECIFICATION Spec
CONSTANTS
    Break = Break
    Data = Data
    u1 = u1
    u2 = u2
    Usage = {u1, u2}
    Delta = Delta
    Done = Done
    NotObject = NotObject
    Junk = Junk
    Error = Error
    Stream <- MCStream
    None = None
    Raised = Raised
INVARIANTS
    ChunkingImmaterial
    NoFreeAnswer
    TruncationMarked
    HoldsOneEvent
CHECK_DEADLOCK FALSE
