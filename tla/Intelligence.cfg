SPECIFICATION Spec
CONSTANTS
    None = None
    c1 = c1
    c2 = c2
    CVEs = {c1, c2}
    Texts <- MCTexts
    Hits <- MCHits
    Syncs = {s1, s2}
    Workers = {w1, w2}
    Imports = {i1}
    Contributions <- MCContributions
    Advisories = {a1}
    Covered = {c2}
    Budgets <- MCBudgets
CHECK_DEADLOCK FALSE
SYMMETRY SyncSymmetry
INVARIANTS
    TrackedFieldsReplay
    HistoryWasTrue
    RatingsAreCurrent
    NoneForgotten
PROPERTIES
    OnlyReplacedIsLost
