\* A speech instance, and the admin service whose store fills no cache.
CONSTANTS
    Apps = {a1}
    Keys = {k1, k2}
    ClientFoundRows = FALSE
    AuthStores = {s1}
    AdminStores = {adm}
    Calls = {c1, c2}
    Admins = {o1}
    TTL = 1
    MaxSize = 1
    MaxDelay = 1
    Losses = {TRUE, FALSE}
    MaxTime = 3
    Promised = 1
    MaxRevoked = 2
SPECIFICATION Spec
INVARIANTS TypeOK CacheWithinLimit
PROPERTIES AnswersStayFresh WritesStayAuthorised KeepsPromise
SYMMETRY CallSymmetry
CONSTRAINT FewRevoked
