SPECIFICATION FairSpec
CONSTANTS
    w1 = w1
    w2 = w2
    t1 = t1
    t2 = t2
    Workers = {w1, w2}
    Tokens = {t1, t2}
    NoToken = NoToken
    PageCounts = {1, 6, 51}
    MaxPdfPages = 50
    EvidencePages = 5
    SourcePages = 5
    ExactOnly = FALSE
INVARIANTS
    DecoderNeverContradictsHash
    IInv
PROPERTIES
    VerdictIsFinal
    ImplementsJobLifecycle
    ClaimedVerificationSettles
