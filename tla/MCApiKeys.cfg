SPECIFICATION Spec
CONSTANTS
    p1 = p1
    p2 = p2
    t1 = t1
    t2 = t2
    k1 = k1
    k2 = k2
    k3 = k3
    Tenants = {t1, t2}
    Principals = {p1, p2}
    TenantOf <- Tenancy
    KeyIds = {k1, k2, k3}
    FirstKeys <- ByHand
    Requests = {r1, r2}
    MaxTime = 1
    Never = Never
    Nobody = Nobody
    NoKey = NoKey
SYMMETRY Symmetry
INVARIANTS TypeOK AuthenticatedWereLive RevokedOnce AnswersAreTrue
PROPERTIES ImplementsLifecycle
