\* A request accepted from the cache after its app was deleted.
CONSTANTS
    Apps = {a1}
    Keys = {k1, k2}
    ClientFoundRows = FALSE
    AuthStores = {s1}
    AdminStores = {adm}
    Calls = {c1}
    Admins = {o1}
    TTL = 1
    MaxSize = 1
    MaxDelay = 1
    Losses = {TRUE, FALSE}
    MaxTime = 3
    Promised = 1
    MaxRevoked = 1
SPECIFICATION Spec
INVARIANTS NoOrphanRows
CONSTRAINT FewRevoked
