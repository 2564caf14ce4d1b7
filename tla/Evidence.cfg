SPECIFICATION Spec
CONSTANTS
    Executions = {x1, x2, x3}
    s1 = s1
    s2 = s2
    Stamps = {s1, s2}
    Late = {x3}
    MaxShared = 2
    Stamp <- MCStamp
    Readers = {r1}
    Backends = {"local", "minio"}
    Absent = Absent
    Torn = Torn
SYMMETRY MCSymmetry
CONSTRAINT FewShared
CHECK_DEADLOCK FALSE
INVARIANTS
    BundleHasRuns
PROPERTIES
    EvidenceStays
    ImplementsLedger
