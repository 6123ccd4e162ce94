SPECIFICATION Spec
CONSTANTS
    b1 = b1
    r1 = r1
    Browsers = {b1}
    NoBrowser = NoBrowser
    Requests = {r1}
    MaxSessions = 1
    MaxTokens = 2
    MaxFaults = 0
INVARIANTS
    RefreshedCallIsServed
CHECK_DEADLOCK FALSE
