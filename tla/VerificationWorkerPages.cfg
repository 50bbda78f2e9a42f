SPECIFICATION Spec
CONSTANTS
    w1 = w1
    t1 = t1
    t2 = t2
    Workers = {w1}
    Tokens = {t1, t2}
    NoToken = NoToken
    PageCounts = {1, 6}
    MaxPdfPages = 50
    EvidencePages = 5
    SourcePages = 5
    ExactOnly = TRUE
INVARIANT
    AcceptedFilesCommit
