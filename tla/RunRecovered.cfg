SPECIFICATION Spec
CONSTANTS
    e1 = e1
    e2 = e2
    Engines = {e1, e2}
    NoEngine = NoEngine
    RecoveredStatus = "failed"
    MaxRestarts = 1
INVARIANTS
    RecoveredRunsAreOver
CHECK_DEADLOCK FALSE
