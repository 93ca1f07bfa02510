SPECIFICATION FairSpec
CONSTANTS
    MaxFitness = 2
    threshold_fitness_init_ = 0
    threshold_fitness_ = 0
    Certain = 1
    queue_maxsize_ = 2
    MaxPoses = 2
INVARIANTS TypeOK OperatorPoseKept MatchedOnceInitialised ConfidenceSettled
PROPERTIES ExecutorFreed MatchesGoOn
