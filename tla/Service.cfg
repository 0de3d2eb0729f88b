SPECIFICATION ServiceSpec
CONSTANTS
    Runners = {s1, s2}
    Probers = {p1}
    NoOne = NoOne
    NoRow = NoRow
    Interval = 1
    MaxBackoff = 3
    RunImmediately = FALSE
    MaxFailures = 3
INVARIANTS
    LockIsHonest
    BackoffSequence
    PidMatchesStatus
PROPERTIES
    StopIsHonoured
