SPECIFICATION FairSpec
CONSTANTS
    c1 = c1
    c2 = c2
    a1 = a1
    a2 = a2
    Calls = {c1, c2}
    Amounts = {a1}
    NoAmount = NoAmount
    MaxDrafts = 2
    MaxSigned = 2
INVARIANTS
    SignedOnceAlone
    EveryDepositHasItsNote
    DraftIsShown
    BusyIsReal
PROPERTIES
    ConfirmedIsSaved
    DepositEnds
