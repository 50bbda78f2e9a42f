SPECIFICATION WebSpec
CONSTANTS
    r1 = r1
    r2 = r2
    Requests = {r1, r2}
    Mine = r1
    MaxAttempts = 2
INVARIANTS
    ActiveJobHasItsInput
    IInv
    JobPageTellsTheTruth
PROPERTIES
    ImplementsInputContract
    NothingIsKeptForGood
    ReservationEnds
    SubmissionIsAnswered
    LeavingStopsTheForm
\* The life of one upload ends.
CHECK_DEADLOCK FALSE
