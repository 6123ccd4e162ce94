SPECIFICATION FairSpec
CONSTANTS
    e1 = e1
    e2 = e2
    Engines = {e1, e2}
    NoEngine = NoEngine
    RecoveredStatus = "failed"
    MaxRestarts = 2
INVARIANTS
    OneEngine
    ApprovalGate
    DoneMeansComplete
PROPERTIES
    
    EngineOutcome
CHECK_DEADLOCK FALSE
