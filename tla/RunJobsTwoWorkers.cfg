SPECIFICATION FairSpec
CONSTANTS
    j1 = j1
    j2 = j2
    w1 = w1
    w2 = w2
    exp = exp
    Jobs = {j1}
    Workers = {w1, w2}
    Experiments = {exp}
    NoJob = NoJob
    NoFile = NoFile
    Definitions <- MCDefinitions
    Request <- MCRequest
    Budgets <- CrashesAndMore
CHECK_DEADLOCK FALSE
INVARIANTS
    CompletedHasEvidence
    DownstreamBacked
PROPERTIES
    RewrittenOnlyAfterRequeue
    EventuallySettled
