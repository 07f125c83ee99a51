SPECIFICATION Spec
CONSTANTS
    Owners = {p1, p2}
    Keys = {k1, k2}
    Bodies <- AnyBody
    Sessions = {s1, s2, s3}
    Uploads = {u1, u2, u3}
    Parts = {n1}
    ETags = {e1}
    Requests = {r1, r2}
    ClientOps = {"create", "abort"}
    MaxMultipartBytes = 2
    HandlersMayStop = TRUE
    NoETag = NoETag
    NoUpload = NoUpload
    NoSession = NoSession
SYMMETRY Symmetry
INVARIANTS IdempotentCreate
