SPECIFICATION FairSpec
CONSTANTS
    a1 = a1
    Actions = {a1}
    NoAction = NoAction
    MaxApprovals = 2
    MaxDrops = 1
    MaxRestarts = 1
    MaxLimited = 1
    MaxToggles = 2
INVARIANTS
    UnsettledIsUnderWay
    RunsMatchDecision
    RecordIsTrue
    
PROPERTIES
    
    EveryApprovalIsDecided
    EveryActionIsSettled
CHECK_DEADLOCK FALSE
