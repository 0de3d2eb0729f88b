SPECIFICATION Spec
CONSTANTS
    Messages = {m1, m2}
    NoDeadline = NoDeadline
    Judgements <- MCJudgements
    Settings <- MCSettings
    SummaryHour = 1
    DeadlineWindow = 1
    RetryLimit = 2
    DayHours = 4
    ErrorTypes = {"OSError"}
    MaxTime = 3
    MaxFaults = 1
    MaxBackups = 1
INVARIANTS
    RepeatsBounded
    LedgerIsHonest
PROPERTIES
    DueAlertsSettle
