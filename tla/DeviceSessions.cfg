SPECIFICATION Spec
CONSTANTS
    Users = {u1, u2}
    NoUser = NoUser
    Requests = {r1, r2}
    MaxTokens = 2
    MaxAttempts = 1
    MaxHandoffs = 1
    MaxCodes = 1
    MaxFaults = 1
INVARIANTS
    OwnersHaveClaimed
    SignedOutTokensAreDead
PROPERTIES
    DeadTokensStayDead
SYMMETRY Symmetry
CHECK_DEADLOCK FALSE
