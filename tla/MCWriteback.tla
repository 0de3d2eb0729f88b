----------------------------- MODULE MCWriteback -----------------------------
(* Instances of Writeback for TLC.                                         *)
EXTENDS WritebackRefinement, TLC

CONSTANTS a1, a2, u1, u2, m1, m2, m3

MCCategories == {u1, m1, m2, m3}
MCManaged    == {m1, m2, m3}
MCPlan       == [a \in Actions |-> IF a = a1 THEN {m1, m2} ELSE {m1, m3}]
MCInitial    == {u1, m1}
MCEdits      == { {m1, m2}, {m3} }
MCMessageOf  == [a \in Actions |-> CHOOSE m \in Messages : TRUE]
Symmetry     == Permutations(Workers) \cup Permutations(Reasons)
=============================================================================
