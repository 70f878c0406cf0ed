CONSTANTS
    Rpcs = {"r"}
    Subs = {"s"}
    Timed = {"r"}
    HopOwns = {}
    QueueCap = 3
    ControlCap = 2
    Window = 1
    MaxActive = 1
    MaxOpens = 1
    MaxCredit = 2
    MaxEvents = 1
    MaxTroubles = 1
SPECIFICATION FairSpec
INVARIANTS
    
    CreditWithin
    CompletedIsComplete
PROPERTIES
    DrainIsComplete
    
CHECK_DEADLOCK FALSE
