SPECIFICATION FairSpec
CONSTANTS
    N = 3
    Limit = 2
INVARIANTS TypeOK BoundedParts CompleteWaitsForParts CancelStops WorkIsControlled
PROPERTIES NothingSentAfterAbort ImplementsLifecycle EveryPartSettles EveryUploadEnds
CHECK_DEADLOCK FALSE
