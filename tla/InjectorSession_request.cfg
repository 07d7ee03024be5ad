SPECIFICATION Spec
CONSTANTS
    BeatTimeout = 1
    WaitTimeout = 1
    UnloadTimeout = 2
    InitTimeout = 2
    PollGap = 1
CHECK_DEADLOCK FALSE
PROPERTIES
    RequestIsPatient
