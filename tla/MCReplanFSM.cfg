SPECIFICATION FairSpec
CONSTANTS
    Modes <- MCModes
    NumTargets = 2
    MaxFail = 2
    Duration = 3
    AwayAt = 1
    MaxLate = 2
    MaxStep = 1
    EmergencyTime = 1
    FailSafe = TRUE
    ShortPaths = TRUE
INVARIANTS TypeOK WorkHasTarget TrajectoryExists HeadsForCurrentWaypoint
PROPERTIES TargetKept ClockSpec GivesUp
