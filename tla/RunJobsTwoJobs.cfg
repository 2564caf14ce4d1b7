SPECIFICATION Spec
CONSTANTS
    j1 = j1
    j2 = j2
    w1 = w1
    w2 = w2
    exp = exp
    Jobs = {j1, j2}
    Workers = {w1}
    Experiments = {exp}
    NoJob = NoJob
    NoFile = NoFile
    Definitions <- MCDefinitions
    Request <- MCRequest
    Budgets <- PairsOfFaults
CHECK_DEADLOCK FALSE
INVARIANTS
    TypeOK
    EvidenceWasAllowed
    PublishedNotLost
