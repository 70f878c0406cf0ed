SPECIFICATION SchedulerSpec
CONSTANTS
    ControlBurst = 2
    Ids <- MCIds
    Overtakes = 2
INVARIANTS
    DataNotStarved
    ControlNotStarved
