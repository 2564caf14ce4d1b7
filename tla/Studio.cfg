SPECIFICATION Spec
CONSTANTS
    Requests = {r1, r2}
    Actors <- Team
    Contents = {c1, c2}
    MaxVersion = 2
    MaxJobs = 1
    Budgets <- MCBudgets
    NoVersion = NoVersion
    Idle = Idle
    Absent = Absent
    Empty = Empty
    Garbled = Garbled
    ann = ann
    ada = ada
SYMMETRY StudioSymmetry
CHECK_DEADLOCK FALSE
INVARIANTS
    RunsAreEndorsed
    AuditIsBacked
PROPERTIES
    RowsKeepLifecycle
