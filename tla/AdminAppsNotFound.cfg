\* Setting the status an app already has, without clientFoundRows in the DSN.
CONSTANTS
    Apps = {a1}
    Keys = {k1}
    NoKey = NoKey
    ClientFoundRows = FALSE
    Requests = {r1, r2}
SPECIFICATION Spec
PROPERTIES NotFoundMeansAbsent
CHECK_DEADLOCK FALSE
