CONSTANTS
    Workers = {w1, w2}
    Actions = {a1, a2}
    Approvals = {yes}
    Rejections = {no}
    Splitting = {no}
    Torn = Torn
    NoFile = NoFile
    Partial = Partial
    Nobody = Nobody
    CutWrites = TRUE
SYMMETRY Symmetry
SPECIFICATION Spec
INVARIANTS
    LogBehindQueue
    NoLineTwice
    ReportedIsLogged
PROPERTIES
    StoreIsAtomic
