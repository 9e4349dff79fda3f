\* Two apps and the rows of app '*', one subject, the global and another scope.
CONSTANTS
    Apps = {a1, a2}
    Subjects = {u1}
    Scopes = {g, s}
    Global = g
    Anyone = any
    Unscoped = unscoped
    Texts = {t1, t2}
    Readers = {r1}
    Fields = {timeout, probe}
    default = default
    other = other
    Values = {other}
    Null = null
    DefaultEnabled = FALSE
    Defaults <- SameDefaults
    MaxProfiles = 3
    MaxBeside = 1
    MaxConfigs = 1
SPECIFICATION Spec
INVARIANTS TypeOK NothingForeign LastNamedCounts ResetTellsTheTruth
PROPERTIES ChosenByPriority
SYMMETRY AppSymmetry
CONSTRAINT FewRows
