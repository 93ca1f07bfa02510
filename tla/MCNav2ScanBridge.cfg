SPECIFICATION FairSpec
CONSTANTS
    g1 = g1
    g2 = g2
    Goals = {g1, g2}
    MaxGoals = 3
    ReplanPeriod = 2
INVARIANTS TypeOK OneRequestInFlight StatusTruthful PlanningIsAnswered
PROPERTIES DeliversCurrentPathsOnly ReplannedUnlessNav2Dies
