CONSTANTS
    o1 = o1
    i1 = i1
    c1 = c1
    c2 = c2
    u1 = u1
    u2 = u2
    Ops = {o1}
    Inputs = {i1}
    Declared <- MCDeclared
    Timed = {o1}
    Calls = {c1, c2}
    Uploads = {u1, u2}
    MaxCalls = 4
    MaxFaults = 1
    MaxDrops = 1
    MaxCrashes = 1
SPECIFICATION FairSpec
INVARIANTS
    RunsOnceApproved
    
    FinishedHasNoProcess
PROPERTIES
    ExitIsRecorded
CHECK_DEADLOCK FALSE
