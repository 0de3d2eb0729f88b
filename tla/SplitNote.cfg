CONSTANTS
    Workers = {w1, w2}
    Actions = {a1, a2}
    Approvals = {yes}
    Rejections = {no}
    Splitting = {yes}
    Torn = Torn
    NoFile = NoFile
    Partial = Partial
    Nobody = Nobody
    CutWrites = FALSE
SYMMETRY Symmetry
SPECIFICATION Spec
INVARIANTS
    EachEventOnItsLine
