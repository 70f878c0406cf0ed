CONSTANTS
    N = 2
    Steps <- TwoDefinitions
    Timeouts = {2}
    Limit = 1
    MaxCancels = 1
    MaxTroubles = 1
SPECIFICATION FairSpec
INVARIANTS
    StepsRunOnce
    ApprovalGate
    ActiveWithinLimit
    
PROPERTIES
    QueuedIsClaimed
CHECK_DEADLOCK FALSE
