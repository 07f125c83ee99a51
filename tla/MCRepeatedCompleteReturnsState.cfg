SPECIFICATION Spec
CONSTANTS
    Owners = {p1}
    Keys = {k1}
    Bodies <- TwoParts
    Sessions = {s1}
    Uploads = {u1}
    Parts = {n1, n2}
    ETags = {e1}
    Requests = {r1, r2}
    ClientOps <- AllOps
    MaxMultipartBytes = 0
    HandlersMayStop = FALSE
    NoETag = NoETag
    NoUpload = NoUpload
    NoSession = NoSession
INVARIANTS RepeatedCompleteReturnsState
