\* One address may log in twice in three units; a decision lags by at most one.
CONSTANTS
    IPs = {i1, i2}
    Requests = {r1, r2, r3, r4}
    maxAttempts = 2
    window = 3
    MaxSkew = 1
    MaxTime = 6
SPECIFICATION Spec
INVARIANTS TypeOK RateIsLimited
PROPERTIES RejectionIsEarned
SYMMETRY RequestSymmetry
CHECK_DEADLOCK FALSE
