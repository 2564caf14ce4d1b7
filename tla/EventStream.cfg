SPECIFICATION FairSpec
CONSTANTS
    Workers = {w1, w2}
    MaxPolls = 2
    Budgets <- MCBudgets
CHECK_DEADLOCK FALSE
INVARIANTS
    FewAreMissed
    ClosedViewIsFinal
PROPERTIES
    StreamEnds
