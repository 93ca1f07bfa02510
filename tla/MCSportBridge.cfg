SPECIFICATION Spec
CONSTANTS
    CmdTimeout = 3
    OdomTimeout = 2
    LocTimeout = 3
    JumpWindow = 3
    TimerPeriod = 2
    ShutdownSleep = 2
    MaxAbs = 2
    MaxJump = 1
    Positions <- MCPositions
    RequireLocalization = TRUE
INVARIANTS TypeOK StopsWithinOnePeriod StopFlagTruthful
