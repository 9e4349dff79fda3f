\* One store for requests and administrators, the contract of the type AppStore,
\* with three keys for two places: what is cleared, and what is given up.
CONSTANTS
    Apps = {a1}
    Keys = {k1, k2, k3}
    ClientFoundRows = FALSE
    AuthStores = {s1}
    AdminStores = {s1}
    Calls = {c1}
    Admins = {o1, o2}
    TTL = 2
    MaxSize = 2
    MaxDelay = 1
    Losses = {FALSE}
    MaxTime = 3
    Promised = 1
    MaxRevoked = 2
SPECIFICATION Spec
INVARIANTS InvalidationClears
PROPERTIES EvictionSparesLive
CONSTRAINT FewRevoked
