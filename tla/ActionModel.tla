----------------------------- MODULE ActionModel -----------------------------
(***************************************************************************)
(* The reviewed mailbox action (inbox_agent/actions/models.py): its        *)
(* lifecycle, and the category sets its write and its rollback aim at.     *)
(* A category is an opaque value; Managed is the set of those whose name   *)
(* starts with "InboxPilot/", compared without case.  A category tuple is  *)
(* the set of its members: every comparison in the code is made on sets of *)
(* casefolded names.                                                       *)
(***************************************************************************)
EXTENDS Naturals, Sequences

CONSTANTS
    Actions,        \* proposals the pipeline may generate
    Categories,     \* Outlook category names
    Managed,        \* those in the InboxPilot/ namespace
    Plan,           \* write_plan.managed_categories of each action
    Reasons,        \* reasons a user can give for a rollback
    MaxKey          \* bound: change keys of one message

ASSUME ManagedAssumption == Managed \subseteq Categories
ASSUME PlanAssumption    == Plan \in [Actions -> SUBSET Managed]
ASSUME MaxKeyAssumption  == MaxKey \in Nat \ {0}

(* change_key is optional in a synced snapshot: NoKey is None.             *)
NoKey == 0

Statuses ==
    { "pending_review", "approved", "rejected", "executing",
      "write_in_flight", "succeeded", "failed", "outcome_unknown",
      "rollback_executing", "rollback_write_in_flight", "rollback_failed",
      "rollback_outcome_unknown", "rolled_back" }

(* _ALLOWED_TRANSITIONS, as pairs.                                         *)
AllowedTransitions ==
    UNION {
      {"pending_review"}     \X {"approved", "rejected"},
      {"approved"}           \X {"executing", "rejected"},
      {"executing"}          \X {"succeeded", "failed", "write_in_flight"},
      {"write_in_flight"}    \X {"succeeded", "failed", "outcome_unknown"},
      {"succeeded"}          \X {"rollback_executing"},
      {"failed"}             \X {"executing", "rejected"},
      {"outcome_unknown"}    \X {"succeeded", "failed"},
      {"rollback_executing"} \X
          {"rolled_back", "rollback_failed", "rollback_write_in_flight"},
      {"rollback_write_in_flight"} \X
          {"rolled_back", "rollback_failed", "rollback_outcome_unknown"},
      {"rollback_failed"}    \X {"rollback_executing"},
      {"rollback_outcome_unknown"} \X {"rolled_back", "rollback_failed"} }

(* Plausible bugs: a rejected, or a rolled back, action can be approved     *)
(* again.                                                                  *)
CanTransitionReopening(from, to) ==
    <<from, to>> \in AllowedTransitions \cup {<<"rejected", "approved">>}
CanTransitionRedoing(from, to) ==
    <<from, to>> \in AllowedTransitions \cup {<<"rolled_back", "approved">>}

CanTransition(from, to) == <<from, to>> \in AllowedTransitions

Targets(from) == { to \in Statuses : CanTransition(from, to) }

(* The statuses whose mailbox effect is not known, one pair per direction. *)
UncertainExecution == {"write_in_flight", "outcome_unknown"}
UncertainRollback  == {"rollback_write_in_flight", "rollback_outcome_unknown"}

(* OutlookCategorySnapshot: what the sync saw when the action was built.   *)
Snapshots == [cats : SUBSET Categories, key : NoKey .. MaxKey]

(* RollbackExecutionSnapshot: the live state a rollback starts from, the   *)
(* state it writes, and why.  Its idempotency key is a function of the     *)
(* action alone, so only the reason tells two attempts apart.              *)
RollbackSnapshots ==
    [reason : Reasons, observed : SUBSET Categories, target : SUBSET Categories]

(* validate_unmanaged_preservation, and the rule of validate_action_contract *)
(* that a rollback restores exactly the original managed categories.       *)
ValidRollback(snap, rb) ==
    /\ rb.observed \ Managed = rb.target \ Managed
    /\ rb.target \cap Managed = snap.cats \cap Managed

(* Plausible bug: the plan replaces every category.                        *)
FinalCategoriesReplacing(snap, plan) == plan

(* _final_categories: the user's categories of the snapshot and the plan.  *)
FinalCategories(snap, plan) == (snap.cats \ Managed) \cup plan

(* The restoration target: live user categories, original managed ones.    *)
RollbackTarget(live, snap) == (live \ Managed) \cup (snap.cats \cap Managed)
=============================================================================
