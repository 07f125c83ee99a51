SPECIFICATION Spec
CONSTANTS
    Owners = {p1}
    Keys = {k1}
    Bodies <- OneBody
    FileIds = {f1}
    Requests = {r1, r2}
    MaxSinglePartBytes = 0
    StoreEnforcesHeaders = TRUE
    NoFile = NoFile
    NoObject = NoObject
INVARIANTS RetriedCreateReturnsSession
