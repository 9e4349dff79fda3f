\* Four requests of several administrators about one app.
CONSTANTS
    Apps = {a1}
    Keys = {k1, k2, k3}
    NoKey = NoKey
    ClientFoundRows = FALSE
    Requests = {r1, r2, r3, r4}
SPECIFICATION Spec
INVARIANTS TypeOK ClaimsAreTrue RowsAreLastSet
SYMMETRY RequestSymmetry
CHECK_DEADLOCK FALSE
