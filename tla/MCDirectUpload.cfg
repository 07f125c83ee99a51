SPECIFICATION Spec
CONSTANTS
    Owners = {p1, p2}
    Keys = {k1}
    Bodies <- TwoBodies
    FileIds = {f1, f2}
    Requests = {r1, r2}
    MaxSinglePartBytes = 0
    StoreEnforcesHeaders = TRUE
    NoFile = NoFile
    NoObject = NoObject
SYMMETRY Symmetry
INVARIANTS TypeOK ReadyMatchesObject IdempotentCreate AnswersAreTrue GetUrlsWereReady
PROPERTIES ImplementsLifecycle
