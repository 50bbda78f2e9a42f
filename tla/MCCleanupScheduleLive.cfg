SPECIFICATION FairSpec
CONSTANTS
    N = 2
    c1 = c1
    t1 = t1
    t2 = t2
    Cleaners = {c1}
    Tokens = {t1, t2}
    NoToken = NoToken
    Broken <- FirstUpload
    BatchSize = 3
PROPERTIES
    OrdinaryIsNotStarved
    LateCopyIsRemoved
