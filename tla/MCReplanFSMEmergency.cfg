SPECIFICATION Spec
CONSTANTS
    Modes <- MCReference
    NumTargets = 3
    MaxFail = 2
    Duration = 3
    AwayAt = 1
    MaxLate = 2
    MaxStep = 1
    EmergencyTime = 1
    FailSafe = TRUE
    ShortPaths = TRUE
INVARIANT EmergencyStopsRobot
