SPECIFICATION Spec
CONSTANTS
    None = None
    c1 = c1
    c2 = c2
    CVEs = {c1, c2}
    Texts <- MCTexts
    Hits <- MCHits
    Syncs = {s1, s2}
    Workers = {w1, w2}
    Imports = {}
    Contributions <- MCContributions
    Advisories = {a1}
    Covered = {c2}
    Budgets <- TwoSyncs
CHECK_DEADLOCK FALSE
SYMMETRY SyncSymmetry
INVARIANTS
    PriorityDecides
