SPECIFICATION Spec
CONSTANTS
    None = None
    Garbled = Garbled
    Definitions <- MCDefinitions
    BaselineOutcomes <- MCBaselineOutcomes
    Draws <- MCDraws
    MitigationOutcomes <- MCMitigationOutcomes
INVARIANTS
    VerdictIsMonotone
    FavourableHasEvidence
    ScoredAsExecuted
    LabelsMatchMitigation
    PerfectIsEffective
    MitigationStopsMore
CHECK_DEADLOCK FALSE
