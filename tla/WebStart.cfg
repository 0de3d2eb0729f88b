SPECIFICATION WebSpec
CONSTANTS
    Runners = {web}
    Probers = {q1, q2}
    Web = web
    Requests = {q1, q2}
    NoOne = NoOne
    NoRow = NoRow
    Interval = 1
    MaxBackoff = 1
    RunImmediately = TRUE
    MaxFailures = 0
SYMMETRY Symmetry
PROPERTIES
    RefusedOnlyByService
