SPECIFICATION Spec
CONSTANTS
    Owners = {p1}
    Keys = {k1}
    Bodies <- OnePart
    Sessions = {s1}
    Uploads = {u1, u2}
    Parts = {n1}
    ETags = {e1}
    Requests = {r1, r2, r3}
    ClientOps <- AllOps
    MaxMultipartBytes = 0
    HandlersMayStop = TRUE
    NoETag = NoETag
    NoUpload = NoUpload
    NoSession = NoSession
SYMMETRY Symmetry
INVARIANTS TypeOK SettledUploadIsClosed FileLacksObjectOnlyAfterAbort AnswersAreTrue
PROPERTIES ImplementsLifecycle
