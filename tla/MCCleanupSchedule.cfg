SPECIFICATION Spec
CONSTANTS
    N = 2
    c1 = c1
    c2 = c2
    t1 = t1
    t2 = t2
    t3 = t3
    Cleaners = {c1, c2}
    Tokens = {t1, t2, t3}
    NoToken = NoToken
    Broken = {}
    BatchSize = 1
SYMMETRY Symmetry
INVARIANT
    IInv
PROPERTIES
    TakesTurns
    LiveClaimIsKept
    ClaimIsNotBypassed
