SPECIFICATION FairSpec
CONSTANTS
    MaxProposals = 2
    NoProposal = NoProposal
    Message = Message
    MaxActions = 2
    MaxHolds = 1
INVARIANTS
    AwaitedIsAsked
    WorkIsReal
    OneAtATime
    ExecutesWhatWasApproved
PROPERTIES
    ProposalIsDecided
CHECK_DEADLOCK FALSE
