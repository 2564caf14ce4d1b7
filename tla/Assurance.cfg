SPECIFICATION AnalystSpec
CONSTANTS
    Runs = {r1, r2, r3}
    Labels = {v1, v2}
    Measured <- ThreeGrades
    Scans = {s1}
    Decisions = {d1}
    NewsTriggers <- MCNewsTriggers
    Budgets <- MCBudgets
    None = None
    c1 = c1
    c2 = c2
    c3 = c3
    CVEs = {c1, c2, c3}
    Facts <- MCFacts
    TextRatio <- MCTextRatio
    FirstTable <- MCFirstTable
    Domains = {"VPN", "TELECOM"}
    FailurePatterns <- MCPatterns
    Templates <- MCTemplates
    Proposals = {"invented"}
    Unknown = Unknown
    AnalystRequests = {a1, a2}
    Reviews = {q1, q2}
    ListLimit = 2
    RankLimit = 1
CHECK_DEADLOCK FALSE
SYMMETRY AssuranceSymmetry
INVARIANTS
    RegressionsAreReal
    OnePending
    ScanRaisesDue
    EveryPairCompared
    KnownControlKeepsValidation
    ExplainedIsRaised
    NamesAreReal
