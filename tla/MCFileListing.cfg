SPECIFICATION Spec
CONSTANTS
    c1 = c1
    p1 = p1
    p2 = p2
    p3 = p3
    t1 = t1
    t2 = t2
    Ids <- ThreeIds
    Times <- TwoTimes
    Owners = {p1, p2, p3}
    Tenants = {t1, t2}
    TenantOf <- Tenancy
    Clients = {c1}
    CallerOf <- Caller
    Queries <- Asked
    FirstCursors <- StartAt
    MaxLimit = 2
    MaxBatchSize = 2
    NoFilter = NoFilter
    NoCursor = NoCursor
    BadCursor = BadCursor
INVARIANTS TypeOK NoRowTwice NothingSkipped NothingForeign
