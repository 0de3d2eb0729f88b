SPECIFICATION WebSpec
CONSTANTS
    Runners = {web, cli}
    Probers = {q1, p1}
    Web = web
    Requests = {q1}
    NoOne = NoOne
    NoRow = NoRow
    Interval = 1
    MaxBackoff = 1
    RunImmediately = TRUE
    MaxFailures = 0
INVARIANTS
    FlagsAreTrue
PROPERTIES
    NoStartOverAnEnding
    ShutdownEnds
