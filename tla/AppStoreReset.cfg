\* SPEECH_APP_CACHE_TTL above the promise of the page.
CONSTANTS
    Apps = {a1}
    Keys = {k1, k2}
    ClientFoundRows = FALSE
    AuthStores = {s1}
    AdminStores = {adm}
    Calls = {c1}
    Admins = {o1}
    TTL = 3
    MaxSize = 1
    MaxDelay = 0
    Losses = {TRUE, FALSE}
    MaxTime = 4
    Promised = 1
    MaxRevoked = 1
SPECIFICATION Spec
PROPERTIES OldKeyStops
CONSTRAINT FewRevoked
