CONSTANTS
    w1 = w1
    c1 = c1
    c2 = c2
    k1 = k1
    k2 = k2
    k3 = k3
    Watcher = Watcher
    Closer = Closer
    None = None
    Names = {w1}
    Calls = {c1, c2}
    Workers = {k1, k2}
    Created = {w1}
    Resets = {w1}
    MaxWorkspaces = 1
    Ops = {"connect", "stop", "destroy", "create"}
    MaxCalls = 2
    MaxTroubles = 2
SPECIFICATION FairSpec
INVARIANTS OneVmPerPartition ShutdownIsComplete StopMeansStopped ResetOnce
PROPERTIES StartsEnd
CHECK_DEADLOCK FALSE
