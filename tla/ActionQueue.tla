----------------------------- MODULE ActionQueue -----------------------------
(***************************************************************************)
(* The private review queue (inbox_agent/actions/queue.py).  Every method  *)
(* of ActionQueueRepository loads, validates and atomically replaces the   *)
(* JSON file under one operating-system lock, so each is one action here.  *)
(* The caller is arbitrary: a method whose guard fails raises and leaves   *)
(* the file as it was, which is the disabled action.                       *)
(***************************************************************************)
EXTENDS ActionModel

CONSTANTS
    NoSnapshot,     \* the action is not in the queue
    NoRollback,     \* rollback_snapshot is None
    HistoryLimit,   \* max_length of transition_history (100 in the code)
    StaleClaims     \* whether a caller passes stale_after_seconds

ASSUME NoSnapshotAssumption   == NoSnapshot \notin Snapshots
ASSUME NoRollbackAssumption   == NoRollback \notin RollbackSnapshots
ASSUME HistoryLimitAssumption == HistoryLimit \in Nat
ASSUME StaleClaimsAssumption  == StaleClaims \in BOOLEAN

VARIABLES
    snapshot,       \* current_snapshot of each queued action
    history,        \* to_status of each entry of transition_history
    rollback        \* rollback_snapshot

queueVars == <<snapshot, history, rollback>>

Queued(a) == snapshot[a] # NoSnapshot

(* status equals the last transition (validate_transition_history).        *)
LastStatus(h) == IF h = <<>> THEN "pending_review" ELSE h[Len(h)]
Status(a) == LastStatus(history[a])

QueueInit ==
    /\ snapshot = [a \in Actions |-> NoSnapshot]
    /\ history  = [a \in Actions |-> <<>>]
    /\ rollback = [a \in Actions |-> NoRollback]

(* Plausible bug: a copy made without validation escapes max_length.       *)
TransitionUnbounded(a, to) ==
    /\ Queued(a)
    /\ CanTransition(Status(a), to)
    /\ history' = [history EXCEPT ![a] = Append(@, to)]
    /\ UNCHANGED snapshot

(* MailboxAction.transition followed by _replace_unlocked: the transition  *)
(* must be allowed and transition_history has a maximum length.            *)
Transition(a, to) ==
    /\ Queued(a)
    /\ CanTransition(Status(a), to)
    /\ Len(history[a]) < HistoryLimit
    /\ history' = [history EXCEPT ![a] = Append(@, to)]
    /\ UNCHANGED snapshot

-----------------------------------------------------------------------------
(* enqueue: a new action starts pending; one already there is left alone.  *)
Enqueue(a, snap) ==
    /\ ~Queued(a)
    /\ snapshot' = [snapshot EXCEPT ![a] = snap]
    /\ UNCHANGED <<history, rollback>>

(* transition(actor=USER), the only targets a person controls.             *)
Review(a, to) ==
    /\ to \in {"approved", "rejected"}
    /\ Transition(a, to)
    /\ UNCHANGED rollback

ClaimExecution(a) ==
    /\ Status(a) \in {"approved", "failed"}
    /\ Transition(a, "executing")
    /\ UNCHANGED rollback

(* claim_execution with an expired lease: failed and executing in one save. *)
ClaimStaleExecution(a) ==
    /\ StaleClaims
    /\ Queued(a)
    /\ Status(a) = "executing"
    /\ Len(history[a]) + 2 <= HistoryLimit
    /\ history' = [history EXCEPT ![a] = @ \o <<"failed", "executing">>]
    /\ UNCHANGED <<snapshot, rollback>>

(* Plausible bug: marking a write that is already in flight marks it again. *)
MarkWriteInFlightAgain(a) ==
    /\ Queued(a)
    /\ Status(a) \in {"executing", "write_in_flight"}
    /\ Len(history[a]) < HistoryLimit
    /\ history' = [history EXCEPT ![a] = Append(@, "write_in_flight")]
    /\ UNCHANGED <<snapshot, rollback>>

MarkWriteInFlight(a) ==
    /\ Status(a) = "executing"
    /\ Transition(a, "write_in_flight")
    /\ UNCHANGED rollback

(* complete_execution, fail_execution and mark_execution_unknown.          *)
FinalizeExecution(a, to) ==
    /\ to \in {"succeeded", "failed", "outcome_unknown"}
    /\ Status(a) \in {"executing", "write_in_flight"}
    /\ Transition(a, to)
    /\ UNCHANGED rollback

ResolveUncertainExecution(a, to) ==
    /\ to \in {"succeeded", "failed"}
    /\ Status(a) \in UncertainExecution
    /\ Transition(a, to)
    /\ UNCHANGED rollback

(* Plausible bug: the reason of a retry is not compared.                   *)
SameRollbackUnchecked(a, reason) == TRUE

(* _require_rollback_identity when a reason is supplied: a retry must give *)
(* the reason that the persisted snapshot holds.                           *)
SameRollback(a, reason) ==
    rollback[a] # NoRollback => rollback[a].reason = reason

ClaimRollback(a, reason) ==
    /\ SameRollback(a, reason)
    /\ Status(a) \in {"succeeded", "rollback_failed"}
    /\ Transition(a, "rollback_executing")
    /\ UNCHANGED rollback

(* Plausible bug: the snapshot is saved when the rollback ends, not before. *)
PrepareRollbackUnsaved(a, rb, to) ==
    /\ to \in {"rollback_write_in_flight", "rolled_back"}
    /\ Status(a) = "rollback_executing"
    /\ Transition(a, to)
    /\ rollback' = IF to = "rolled_back" THEN [rollback EXCEPT ![a] = rb] ELSE rollback

(* mark_rollback_write_in_flight and complete_rollback_without_write.      *)
PrepareOrCompleteRollback(a, rb, to) ==
    /\ to \in {"rollback_write_in_flight", "rolled_back"}
    /\ Status(a) = "rollback_executing"
    /\ ValidRollback(snapshot[a], rb)
    /\ Transition(a, to)
    /\ rollback' = [rollback EXCEPT ![a] = rb]

(* complete_rollback, fail_rollback and mark_rollback_unknown; a rolled    *)
(* back action must hold a snapshot (validate_action_contract).            *)
FinalizeRollback(a, to) ==
    /\ to \in {"rolled_back", "rollback_failed", "rollback_outcome_unknown"}
    /\ Status(a) \in {"rollback_executing", "rollback_write_in_flight"}
    /\ to # "rollback_failed" => rollback[a] # NoRollback
    /\ Transition(a, to)
    /\ UNCHANGED rollback

ResolveUncertainRollback(a, to) ==
    /\ to \in {"rolled_back", "rollback_failed"}
    /\ Status(a) \in UncertainRollback
    /\ Transition(a, to)
    /\ UNCHANGED rollback

QueueNext ==
    \E a \in Actions :
        \/ \E snap \in Snapshots : Enqueue(a, snap)
        \/ ClaimExecution(a)
        \/ ClaimStaleExecution(a)
        \/ MarkWriteInFlight(a)
        \/ \E reason \in Reasons : ClaimRollback(a, reason)
        \/ \E to \in Targets(Status(a)) :
                \/ Review(a, to)
                \/ FinalizeExecution(a, to)
                \/ ResolveUncertainExecution(a, to)
                \/ \E rb \in RollbackSnapshots :
                        PrepareOrCompleteRollback(a, rb, to)
                \/ FinalizeRollback(a, to)
                \/ ResolveUncertainRollback(a, to)

QueueSpec == QueueInit /\ [][QueueNext]_queueVars

-----------------------------------------------------------------------------
QueueTypeOK ==
    /\ snapshot \in [Actions -> Snapshots \cup {NoSnapshot}]
    /\ history  \in [Actions -> Seq(Statuses)]
    /\ rollback \in [Actions -> RollbackSnapshots \cup {NoRollback}]
    /\ \A a \in Actions : Len(history[a]) <= HistoryLimit

(* Every persisted history is a path of the state graph that starts at     *)
(* pending_review: a later load validates it (_validate_transition_history) *)
(* and would otherwise refuse the whole queue file.                        *)
HistoryIsPath ==
    \A a \in Actions : \A i \in 1 .. Len(history[a]) :
        CanTransition(IF i = 1 THEN "pending_review" ELSE history[a][i - 1],
                      history[a][i])

(* No execution is ever claimed unless the user's approval comes first and *)
(* no rejection comes before it, over any sequence of repository calls.    *)
HumanGate ==
    \A a \in Actions : \A i \in 1 .. Len(history[a]) :
        history[a][i] = "executing" =>
            /\ history[a][1] = "approved"
            /\ \A j \in 1 .. i : history[a][j] # "rejected"

(* Between two write intents of one action a verdict "failed" is recorded: *)
(* an uncertain write is never simply tried again.                         *)
NoBlindRetry ==
    \A a \in Actions : \A i, j \in 1 .. Len(history[a]) :
        /\ i < j
        /\ history[a][i] = "write_in_flight"
        /\ history[a][j] = "write_in_flight"
        => \E k \in i .. j : history[a][k] = "failed"

(* A rollback starts only after a recorded success, and once it has started *)
(* the forward write is never attempted again.                             *)
RollbackFollowsSuccess ==
    \A a \in Actions : \A i \in 1 .. Len(history[a]) :
        history[a][i] = "rollback_executing" =>
            /\ \E j \in 1 .. i : history[a][j] = "succeeded"
            /\ \A j \in i .. Len(history[a]) :
                    history[a][j] \notin {"executing", "write_in_flight"}

(* While a rollback is uncertain or done, the queue holds the states that  *)
(* reconciliation compares with, and they change managed categories only.  *)
RollbackContract ==
    \A a \in Actions :
        /\ Status(a) \in UncertainRollback \cup {"rolled_back"} =>
                rollback[a] # NoRollback
        /\ rollback[a] # NoRollback => ValidRollback(snapshot[a], rollback[a])

(* What an action went through before people: it was proposed, it was      *)
(* approved, and it stands rejected.                                       *)
Stages(a) ==
    IF ~Queued(a) THEN {}
    ELSE {"pending_review"}
         \cup ({"approved"} \cap {history[a][i] : i \in DOMAIN history[a]})
         \cup ({"rejected"} \cap {Status(a)})

Store == INSTANCE QueueStore
    WITH content <- [a \in Actions |-> Stages(a)],
         Approvals <- {"approved"},
         Rejections <- {"rejected"}

(* The queue is the store that module QueueStore promises.  A proposal is  *)
(* enqueued once; nothing is first approved after it was rejected; a       *)
(* person may take an approval back, also after a failed execution, and    *)
(* then the action stays rejected, whatever claims, verdicts,              *)
(* reconciliations, rollbacks or proposals made again follow.              *)
DecisionsStand == Store!StoreSpec
=============================================================================
