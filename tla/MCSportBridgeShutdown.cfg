SPECIFICATION Spec
CONSTANTS
    CmdTimeout = 3
    OdomTimeout = 3
    LocTimeout = 3
    JumpWindow = 4
    TimerPeriod = 2
    ShutdownSleep = 2
    MaxAbs = 2
    MaxJump = 1
    Positions <- MCPositions
    RequireLocalization = FALSE
INVARIANT FinalRequestIsStop
