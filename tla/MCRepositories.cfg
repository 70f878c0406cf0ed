CONSTANTS
    Pushes = {"p"}
    Refs = {"main", "tag"}
    Configs <- MCConfigs
    Foreign = {"o", "q"}
    MaxTasks = 2
    MaxRequests = 3
    MaxTroubles = 1
    MaxChanges = 1
SPECIFICATION FairSpec
INVARIANTS
    PublishedIsUpstream
    PushedWithConsent
PROPERTIES
    
    RejectedStaysOut
    
CHECK_DEADLOCK FALSE
