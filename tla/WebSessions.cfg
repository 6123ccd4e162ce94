SPECIFICATION Spec
CONSTANTS
    b1 = b1
    b2 = b2
    r1 = r1
    r2 = r2
    Browsers = {b1, b2}
    NoBrowser = NoBrowser
    Requests = {r1, r2}
    MaxSessions = 2
    MaxTokens = 3
    MaxFaults = 1
INVARIANTS
    RefreshKeepsSignedIn
    QuietLogoutLasts
PROPERTIES
    DeadTokensStayDead
SYMMETRY Symmetry
CHECK_DEADLOCK FALSE
