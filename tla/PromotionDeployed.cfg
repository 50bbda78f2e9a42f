SPECIFICATION DeployedSpec
CONSTANTS
    r1 = r1
    r2 = r2
    Requests = {r1, r2}
    MaxAttempts = 2
PROPERTY
    NothingIsKeptForGood
CHECK_DEADLOCK FALSE
