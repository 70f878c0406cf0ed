SPECIFICATION FairSpec
CONSTANTS
    Consumers = {c1}
    Values <- MCValues
    Initial = {0}
    Mutations = {1, 2}
    Reduce <- MCReduce
    HistoryLimit = 2
    MaxVersion = 3
    Window = 2
    MaxChanges = 5
    MaxRestarts = 1
    MaxLosses = 1
INVARIANTS
    NoCacheError
PROPERTIES
    ReplicaSpec
    CatchesUp
CHECK_DEADLOCK FALSE
