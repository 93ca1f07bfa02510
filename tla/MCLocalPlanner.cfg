SPECIFICATION FairSpecPlanner
CONSTANTS
    Trajectory = {tr1, tr2}
    NoTrajectory = none
    Duration = 11
    MaxLate = 2
    MaxStep = 2
    QueueDepth = 3
INVARIANTS PlannerTypeOK ClocksAgree
PROPERTIES ArrivesWithTheRobot FreezesEnd
