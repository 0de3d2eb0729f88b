CONSTANTS
    Messages = {m1}
    Contents = {c1, c2, bad}
    Unmappable = {bad}
    Absent = Absent
    NoLink = NoLink
    NoFile = NoFile
    Runs = {r1}
    MaxChanges = 2
    Decisions = {d1}
SYMMETRY Symmetry
SPECIFICATION Spec
INVARIANT SkippedWasProposed
