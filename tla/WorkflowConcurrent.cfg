CONSTANTS
    Messages = {m1}
    Contents = {c1, c2}
    Unmappable = {}
    Absent = Absent
    NoLink = NoLink
    NoFile = NoFile
    Runs = {r1, r2}
    MaxChanges = 2
    Decisions = {d1}
SYMMETRY Symmetry
SPECIFICATION Spec
INVARIANT CurrentMeansAnalysed
