SPECIFICATION Spec
CONSTANTS
    w1 = w1
    w2 = w2
    t1 = t1
    t2 = t2
    t3 = t3
    t4 = t4
    Workers = {w1, w2}
    Tokens = {t1, t2, t3, t4}
    NoToken = NoToken
    MaxFailures = 2
SYMMETRY Symmetry
INVARIANTS
    PublishedOutputIsStored
    OneVerdict
    UnpublishedObjectIsOnRecord
    IInv
PROPERTIES
    FencedOwnerNeverWrites
    TombstoneIsPermanent
    ImplementsJobLifecycle
