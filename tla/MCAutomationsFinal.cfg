CONSTANTS
    N = 1
    Steps <- OneAgent
    Timeouts = {1}
    Limit = 1
    MaxCancels = 0
    MaxTroubles = 0
SPECIFICATION FairSpec
PROPERTIES TerminalIsFinal
CHECK_DEADLOCK FALSE
