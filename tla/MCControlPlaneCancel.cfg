CONSTANTS
    Rpcs = {"r"}
    Subs = {}
    Timed = {"r"}
    HopOwns = {}
    QueueCap = 3
    ControlCap = 2
    Window = 1
    MaxActive = 1
    MaxOpens = 1
    MaxCredit = 0
    MaxEvents = 0
    MaxTroubles = 0
SPECIFICATION Spec
INVARIANT
    LinksSurvive
CHECK_DEADLOCK FALSE
