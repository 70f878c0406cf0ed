SPECIFICATION Spec
CONSTANTS
    ControlBurst = 1
    MaxId = 5
    MaxChannels <- MCMaxChannels
    ControlQueueCapacity = 1
    ClosedChannelCapacity = 2
    Openers = {"client"}
    Writers <- MCWriters
    Stoppable = {"client"}
INVARIANTS
    
    TablesAgree
    OutcomesAgree
PROPERTIES
    OpensSettle
CHECK_DEADLOCK FALSE
