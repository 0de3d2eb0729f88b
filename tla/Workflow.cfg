CONSTANTS
    Messages = {m1, m2}
    Contents = {c1, c2, bad}
    Unmappable = {bad}
    Absent = Absent
    NoLink = NoLink
    NoFile = NoFile
    Runs = {r1}
    MaxChanges = 2
    Decisions = {d1}
SYMMETRY Symmetry
SPECIFICATION Spec
INVARIANTS
    CursorIsCovered
    TrailFollowsQueue
PROPERTIES
    ProposedWhenComplete
    CompletedLeavesNothing
