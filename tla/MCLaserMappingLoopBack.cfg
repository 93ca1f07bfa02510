SPECIFICATION Spec
CONSTANTS
    ScanLen = 3
    ImuPeriod = 2
    LidarDepth = 1
    ImuDepth = 1
    MAX_INI_COUNT = 1
    Uninitialised <- MCUninitialised
    MaxTime = 6
    MaxBacklog = 2
    MaxEpoch = 1
    MaxTimeAgain = 3
CHECK_DEADLOCK FALSE
INVARIANT LoopBackClearsBuffer
