SPECIFICATION Spec
CONSTANTS
    Users = {ada, ann}
    Bootstrap = ada
    Sessions = {s1, s2}
    Requests = {r1, r2, r3}
    MAX_FAILED_LOGIN_ATTEMPTS = 2
    Roles = {"admin", "viewer"}
    LOCKOUT_DURATION = 1
    SESSION_TTL = 2
    Budgets <- MCBudgets
    None = None
    Unissued = Unissued
    Idle = Idle
SYMMETRY AuthSymmetry
CHECK_DEADLOCK FALSE
INVARIANTS
    LockIsNear
    RevokedAtOnce
PROPERTIES
    LockedOut
