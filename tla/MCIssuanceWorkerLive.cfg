SPECIFICATION FairSpec
CONSTANTS
    w1 = w1
    t1 = t1
    t2 = t2
    t3 = t3
    Workers = {w1}
    Tokens = {t1, t2, t3}
    NoToken = NoToken
    MaxFailures = 1
PROPERTIES
    ClaimedJobSettlesWithRestarts
    FencedOutputIsRemovedForGood
