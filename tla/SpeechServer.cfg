\* Two requests over a channel of one entry, half days, one day of retention.
CONSTANTS
    Handlers = {h1, h2}
    BufferSize = 1
    Mute = {h1}
    RetentionDays = 1
    PerDay = 2
    MaxTime = 3
    MaxFailures = 1
SPECIFICATION Spec
INVARIANTS TypeOK LossesWereAbandoned KeptOnDisk
PROPERTIES KeepsLogPromise RetentionKept StopsInTheEnd OldOnesGo
CHECK_DEADLOCK FALSE
