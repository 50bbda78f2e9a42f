SPECIFICATION Spec
CONSTANTS
    Jobs = {1, 2}
    IssuanceJobs = {1}
    Limit = 1
    Registrations <- MCRegistrations
    PublicKey <- MCPublicKey
    KeyFiles <- MCKeyFiles
    MaxFaults = 2
    MaxKeyChanges = 3
    Ids <- MCIds
    Profiles <- MCProfiles
    PilotScoreMin = 40
    MaxPilotHypotheses = 2
    MaxGeometryHypotheses = 3
    MaxPdfBytes = 10
    MaxPdfPages = 2
    MaxImagePixels = 40
    MaxRasterPixels = 150
    CanvasHeight = 9
    CanvasWidth = 4
    MinMarkerHeight = 2
    MinMarkerWidth = 4
    MaxUserUnit = 3
    Ticks = 8
    Precision = 4
    PageIndexHypotheses = 2
INVARIANTS IssuedContentIsRecognized AttributionIsUnanimous
PROPERTIES EveryJobEnds TrustOnlyEnds
