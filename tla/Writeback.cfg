SPECIFICATION Spec
CONSTANTS
    a1 = a1
    a2 = a2
    u1 = u1
    u2 = u2
    m1 = m1
    m2 = m2
    m3 = m3
    Actions = {a1}
    Workers = {w1, w2}
    Messages = {msg}
    Reasons = {r1, r2}
    MaxKey = 2
    MaxEdits = 1
    HistoryLimit = 8
    StaleClaims = TRUE
    TornAppends = TRUE
    NoSnapshot = NoSnapshot
    NoRollback = NoRollback
    Person = Person
    NoJob = NoJob
    Categories <- MCCategories
    Managed <- MCManaged
    Plan <- MCPlan
    InitialCats <- MCInitial
    UserEdits <- MCEdits
    MessageOf <- MCMessageOf
SYMMETRY Symmetry
CHECK_DEADLOCK FALSE
INVARIANTS
    TypeOK
    WriteAhead
    AtMostOnce
    AuditBehindQueue
    HistoryIsPath
    HumanGate
    NoBlindRetry
    RollbackFollowsSuccess
    RollbackContract
    SucceededWasApplied
    RolledBackWasRestored
    WritesAsPreviewed
    RollbackUndoesItsOwn
    KeepsWhatItRead
PROPERTIES
    PromiseKept
    ReasonIsKept
    DecisionsStand
