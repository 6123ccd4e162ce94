SPECIFICATION FairSpec
CONSTANTS
    c1 = c1
    c2 = c2
    h1 = h1
    h2 = h2
    Commands = {c1}
    NoCommand = NoCommand
    Handlers = {h1}
    MaxConns = 2
    Results = {"ok", "rejected"}
    Mortal = {}
    SlowHello = FALSE
    MaxCrashes = 0
    MaxReboots = 1
PROPERTIES
    
    RejectionIsApplied
CHECK_DEADLOCK FALSE
