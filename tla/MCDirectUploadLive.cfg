SPECIFICATION FairSpec
CONSTANTS
    Owners = {p1}
    Keys = {k1}
    Bodies <- TwoFitOneTooLarge
    FileIds = {f1}
    Requests = {r1, r2}
    MaxSinglePartBytes = 2
    StoreEnforcesHeaders = FALSE
    NoFile = NoFile
    NoObject = NoObject
INVARIANTS ReadyHasObject
PROPERTIES RequestsAreAnswered
