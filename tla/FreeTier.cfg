SPECIFICATION FreeTierSpec
CONSTANTS
    c1 = c1
    c2 = c2
    Calls = {c1, c2}
    Limit <- SmallLimits
    Window <- ShortWindows
    MaxTime = 2
    MaxFailures = 2
INVARIANTS
    QuotaIsBounded
    RefusedHasUsedUp
SYMMETRY Symmetry
CHECK_DEADLOCK FALSE
