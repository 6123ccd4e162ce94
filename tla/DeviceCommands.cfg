SPECIFICATION Spec
CONSTANTS
    c1 = c1
    c2 = c2
    h1 = h1
    h2 = h2
    Commands = {c1}
    NoCommand = NoCommand
    Handlers = {h1}
    MaxConns = 2
    Results = {"ok", "busy"}
    Mortal = {c1}
    SlowHello = TRUE
    MaxCrashes = 1
    MaxReboots = 1
INVARIANTS
    
    OncePerLife
    OkMeansExecuted

    
CHECK_DEADLOCK FALSE
