------------------------------ MODULE Previews ------------------------------
(***************************************************************************)
(* What the dry runs promise (actions/dry_run.py, actions/rollback.py):    *)
(* plans computed from the stored proposal alone, before anything is read  *)
(* from Outlook, and the checks they must pass to be shown.                *)
(***************************************************************************)
EXTENDS ActionModel

WouldWrite(p) == p.add # {} \/ p.remove # {}

(* _plan_action: the diff between the synced categories and the plan.      *)
DryRunPlan(snap, plan) ==
    [ current |-> snap.cats,
      managed |-> plan,
      add     |-> plan \ snap.cats,
      remove  |-> (snap.cats \cap Managed) \ plan,
      final   |-> (snap.cats \ Managed) \cup plan ]

(* ActionDryRunPlan.validate_category_difference.                          *)
ValidDryRun(p) ==
    /\ p.managed \subseteq Managed \cap p.final
    /\ p.current \ Managed \subseteq p.final
    /\ p.add = p.managed \ p.current
    /\ p.remove = (p.current \cap Managed) \ p.managed

(* build_rollback_dry_run: the state the action leaves behind, and the way *)
(* back from it to the original snapshot.                                  *)
RollbackPlan(snap, plan) ==
    LET expected == (snap.cats \ Managed) \cup plan
        restore  == snap.cats \cap Managed
    IN  [ original |-> snap.cats,
          forward  |-> plan,
          expected |-> expected,
          restore  |-> restore,
          add      |-> restore \ expected,
          remove   |-> (expected \cap Managed) \ restore,
          final    |-> snap.cats ]

(* RollbackDryRunPlan.validate_rollback_difference.                        *)
ValidRollbackPlan(p) ==
    /\ p.restore \cup p.forward \subseteq Managed
    /\ p.restore = p.original \cap Managed
    /\ p.final = p.original
    /\ p.expected \ Managed = p.original \ Managed
    /\ p.expected \cap Managed = p.forward
    /\ p.original \ Managed \subseteq p.expected \cap p.final
    /\ p.add = p.restore \ p.expected
    /\ p.remove = (p.expected \cap Managed) \ p.restore
=============================================================================
