CONSTANTS
    Capacity = 2
    StaleProbes = 1
    MaxFrames = 2
SPECIFICATION ProbeSpec
INVARIANTS
    NoFrameBeforeSynchronization
PROPERTIES
    BothSynchronize
CHECK_DEADLOCK FALSE
