SPECIFICATION Spec
CONSTANTS
    PageOrder <- MCPageOrder
    PositivePages <- MCPositivePages
    CandidateOrder <- MCCandidateOrder
    AttackOrder <- MCAttackOrder
    Ids <- MCIds
    Repetitions = 3
    PilotScoreMin = 40
    MaxPilotHypotheses = 2
    MaxGeometryHypotheses = 3
    MessageBytes = 2
    ParitySymbols = 4
    InterleaveDepth = 4
    Runners = {r1, r2}
    Settings <- MCSettings
    RowBudgets = {5, 12}
    MaxStarts = 2
    MaxReads = 1
INVARIANTS
    SelectionIsEarned
    ReleaseIsEarned
    ReleaseHasItsReport
    OwnRowsAreAccepted
    DecodersOnlyRefuse
    CodewordsAreRecovered
    TemplateOnlyHelps
PROPERTY
    EvidenceIsFinal
SYMMETRY RunnerSymmetry
CHECK_DEADLOCK FALSE
