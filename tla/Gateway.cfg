\* Two requests of any principal, of which the cap admits one of the limited key at
\* a time; one flaw of each status a flaw can have.
SPECIFICATION GatewaySpec
CONSTANTS
    Key = {key}
    Budget <- MCBudget
    Cap <- MCCap
    None = None
    Request = {r1, r2}
    MaxCost = 2
    MaxChunks = 2
    Flaw = {"body_too_large", "scope_denied", "max_tokens_invalid"}
    OkStatus = {200, 302}
    ErrorStatus = {429, 503}
CHECK_DEADLOCK FALSE
INVARIANTS
    AuditedOnce
    LedgersAgree
    NothingLeaks
