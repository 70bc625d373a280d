SPECIFICATION Spec
CONSTANTS
    Threads = {agent, operator}
    Agent = agent
    MaxBuilds = 4
    Margin = 1
    Scores <- MCScores
    Bound <- MCBound
INVARIANTS
    OneActive
    ParentRestorable
    RollbackAgrees
PROPERTIES
    RegressionEnds
CHECK_DEADLOCK FALSE
