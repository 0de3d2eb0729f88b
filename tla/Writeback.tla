------------------------------ MODULE Writeback ------------------------------
(***************************************************************************)
(* Controlled mailbox writes: the queue of module ActionQueue driven by    *)
(* ApprovedActionGraphExecutor, UncertainActionReconciler,                 *)
(* ControlledRollbackExecutor and UncertainRollbackReconciler, with the    *)
(* append-only audit log and the Microsoft Graph mailbox.                  *)
(*                                                                         *)
(* A worker is one CLI command or web request.  Each queue call, audit     *)
(* append, GET and PATCH is a step of its own, since each takes and frees  *)
(* its own lock or connection, and a worker may stop between any two: a    *)
(* crash, a lock timeout, a storage error or a guard that raises all end   *)
(* the call and leave the files as they are.                               *)
(***************************************************************************)
EXTENDS ActionQueue, Previews, FiniteSets

CONSTANTS
    Workers,        \* concurrent commands and requests
    Messages,       \* Outlook messages
    MessageOf,      \* message_id of each action
    InitialCats,    \* categories of every message at first
    UserEdits,      \* category sets the user may choose in Outlook
    MaxEdits,       \* bound: user edits of one message
    TornAppends,    \* whether an append may be cut short
    Person,         \* author of a version no action wrote
    NoJob           \* the action of an idle worker

ASSUME MessageOfAssumption == MessageOf \in [Actions -> Messages]
ASSUME InitialCatsAssumption == InitialCats \in SUBSET Categories
ASSUME UserEditsAssumption == UserEdits \subseteq SUBSET Categories
ASSUME MaxEditsAssumption  == MaxEdits \in Nat
ASSUME AuthorAssumption == Person \notin Actions /\ NoJob \notin Actions

VARIABLES
    box,            \* per message, its versions; the changeKey is the length
    wire,           \* PATCH requests sent and not yet handled by Graph
    audited,        \* per action, how many of its events the log holds
    log,            \* state of the last line of the log file
    pc, job,        \* per worker: next step, and the action it works on
    seen,           \* length of the history in the worker's copy of the action
    base,           \* version its GET returned
    held            \* rollback snapshot it built or loaded

writeVars  == <<box, wire, audited, log>>
workerVars == <<pc, job, seen, base, held>>
vars == <<queueVars, writeVars, workerVars>>

(* A version of a message and the PATCH that makes one have the same form: *)
(* `at` is the index of the write intent in the history of `by`.           *)
Writes == [ cats : SUBSET Categories, by : Actions \cup {Person},
            at : Nat, base : Nat ]
ByPerson(cats) == [cats |-> cats, by |-> Person, at |-> 0, base |-> 0]

LogStates == {"clean", "unterminated", "corrupt"}

Box(a)  == box[MessageOf[a]]
Live(a) == Box(a)[Len(Box(a))].cats
Applied(r) == \E i \in 1 .. Len(Box(r.by)) : Box(r.by)[i] = r

ExecutorSteps ==
    {"x_audit_claim", "x_get", "x_fail", "x_complete", "x_mark",
     "x_audit_wif", "x_send", "x_wait", "x_unknown"}
ReconcilerSteps == {"c_audit", "c_get", "c_applied", "c_not_applied"}
RollbackSteps ==
    {"r_audit_claim", "r_get", "r_fail", "r_no_change", "r_mark",
     "r_audit_wif", "r_send", "r_wait", "r_complete", "r_unknown"}
RollbackReconcilerSteps == {"k_get", "k_applied", "k_not_applied"}
Steps ==
    {"idle", "audit_history", "audit_outcome"} \cup ExecutorSteps
        \cup ReconcilerSteps \cup RollbackSteps \cup RollbackReconcilerSteps

Init ==
    /\ QueueInit
    /\ box = [m \in Messages |-> << ByPerson(InitialCats) >>]
    /\ wire = {}
    /\ audited = [a \in Actions |-> 0]
    /\ log = "clean"
    /\ pc   = [w \in Workers |-> "idle"]
    /\ job  = [w \in Workers |-> NoJob]
    /\ seen = [w \in Workers |-> 0]
    /\ base = [w \in Workers |-> 0]
    /\ held = [w \in Workers |-> NoRollback]

-----------------------------------------------------------------------------
(* Worker bookkeeping.                                                     *)

Goto(w, step) == pc' = [pc EXCEPT ![w] = step]

(* Begin(w, a, step): take up action a, as the queue returned it.          *)
Begin(w, a, step) ==
    /\ Goto(w, step)
    /\ job'  = [job EXCEPT ![w] = a]
    /\ seen' = [seen EXCEPT ![w] = Len(history'[a])]

(* Continue(w, step): keep the action the queue just returned.             *)
Continue(w, step) ==
    /\ Goto(w, step)
    /\ seen' = [seen EXCEPT ![w] = Len(history'[job[w]])]
    /\ UNCHANGED <<job, base, held>>

GoIdle(w) ==
    /\ Goto(w, "idle")
    /\ job'  = [job EXCEPT ![w] = NoJob]
    /\ seen' = [seen EXCEPT ![w] = 0]
    /\ base' = [base EXCEPT ![w] = 0]
    /\ held' = [held EXCEPT ![w] = NoRollback]

(* Any exception, or the end of the process.                               *)
Stop(w) ==
    /\ pc[w] # "idle"
    /\ GoIdle(w)
    /\ UNCHANGED <<queueVars, writeVars>>

-----------------------------------------------------------------------------
(* The audit log.  audit_events_for_action derives the generation event    *)
(* and one event per history entry of the worker's copy; append_unique     *)
(* refuses a log it cannot parse, skips known events and writes the rest.  *)
(* Only the last line can be damaged: it may lack its newline, and the     *)
(* next append then runs into it and makes the log unreadable.             *)

MissingEvents(w) == audited[job[w]] < seen[w] + 1

(* Plausible bug: the next transition is logged before it is saved.        *)
AppendUniqueEarly(w, fresh) ==
    /\ log # "corrupt"
    /\ fresh
    /\ audited' = [audited EXCEPT ![job[w]] = seen[w] + 2]
    /\ UNCHANGED log

(* An outcome or a preview adds an event of its own, told apart from all   *)
(* others by its time; a review or a proposal adds the history alone.      *)
AddsOwnEvent(w) == pc[w] = "audit_outcome"

(* append_unique; `fresh` says whether any event has to be written.        *)
AppendUnique(w, fresh) ==
    /\ log # "corrupt"
    /\ MissingEvents(w) => fresh
    /\ fresh => MissingEvents(w) \/ AddsOwnEvent(w)
    /\ audited' = IF MissingEvents(w)
                    THEN [audited EXCEPT ![job[w]] = seen[w] + 1]
                    ELSE audited
    /\ log' = IF fresh /\ log = "unterminated" THEN "corrupt" ELSE log

(* What follows an append in the middle of a call.                         *)
AfterAudit ==
    { <<"x_audit_claim", "x_get">>, <<"x_audit_wif", "x_send">>,
      <<"c_audit", "c_get">>,
      <<"r_audit_claim", "r_get">>, <<"r_audit_wif", "r_send">> }

MidAudits == {"x_audit_claim", "x_audit_wif", "c_audit",
              "r_audit_claim", "r_audit_wif"}
LastAudits == {"audit_history", "audit_outcome"}

Audit(w) ==
    /\ pc[w] \in MidAudits
    /\ \E fresh \in BOOLEAN : AppendUnique(w, fresh)
    /\ \E step \in Steps : <<pc[w], step>> \in AfterAudit /\ Goto(w, step)
    /\ UNCHANGED <<queueVars, box, wire, job, seen, base, held>>

LastAudit(w) ==
    /\ pc[w] \in LastAudits
    /\ \E fresh \in BOOLEAN : AppendUnique(w, fresh)
    /\ GoIdle(w)
    /\ UNCHANGED <<queueVars, box, wire>>

(* A crash or a full disk ends the append after n whole events: at a line   *)
(* boundary, just before a newline, or inside event n + 1.                 *)
TornAudit(w) ==
    /\ TornAppends
    /\ pc[w] \in MidAudits \cup LastAudits
    /\ log # "corrupt"
    /\ MissingEvents(w)
    /\ \E n \in audited[job[w]] .. seen[w] + 1, tail \in LogStates :
          /\ tail = "unterminated" => n > audited[job[w]]
          /\ tail = "corrupt" => n < seen[w] + 1
          /\ audited' = [audited EXCEPT ![job[w]] = n]
          /\ log' = IF log = "unterminated" THEN "corrupt" ELSE tail
    /\ GoIdle(w)
    /\ UNCHANGED <<queueVars, box, wire>>

-----------------------------------------------------------------------------
(* Proposing and reviewing.                                                *)

(* build_review_actions: the proposal from a synced copy of the message.   *)
ProposalFrom(a, k, key) == [cats |-> Box(a)[k].cats, key |-> key]

(* The workflow and actions build: enqueue, then audit.  The copy may be   *)
(* an old version k and may lack its changeKey.                            *)
Propose(w, a) ==
    /\ pc[w] = "idle"
    /\ \E k \in 1 .. MaxKey, key \in NoKey .. MaxKey :
          /\ k <= Len(Box(a))
          /\ key \in {NoKey, k}
          /\ Enqueue(a, ProposalFrom(a, k, key))
    /\ Begin(w, a, "audit_history")
    /\ UNCHANGED <<writeVars, base, held>>

(* WebActionService._review: the transition, then its audit.               *)
Decide(w, a, to) ==
    /\ pc[w] = "idle"
    /\ Review(a, to)
    /\ Begin(w, a, "audit_history")
    /\ UNCHANGED <<writeVars, base, held>>

(* actions apply and rollback, preview and rollback_preview: a dry run      *)
(* changes nothing but is audited.                                         *)
Preview(w, a) ==
    /\ pc[w] = "idle"
    /\ Queued(a)
    /\ UNCHANGED <<queueVars, writeVars, base, held>>
    /\ Begin(w, a, "audit_outcome")

-----------------------------------------------------------------------------
(* ApprovedActionGraphExecutor.execute.                                    *)

ExecuteClaim(w, a) ==
    /\ pc[w] = "idle"
    /\ ClaimExecution(a) \/ ClaimStaleExecution(a)
    /\ Begin(w, a, "x_audit_claim")
    /\ UNCHANGED <<writeVars, base, held>>

(* ALREADY_SUCCEEDED and ALREADY_ROLLED_BACK: an audited no-op.            *)
ClaimDone(w, a) ==
    /\ pc[w] = "idle"
    /\ \/ Status(a) = "succeeded"
       \/ Status(a) = "rolled_back" /\ \E r \in Reasons : SameRollback(a, r)
    /\ UNCHANGED <<queueVars, writeVars, base, held>>
    /\ Begin(w, a, "audit_outcome")

(* The approved snapshot still describes the live message.                 *)
Unchanged(a) ==
    /\ snapshot[a].key = Len(Box(a))
    /\ snapshot[a].cats = Live(a)

Target(a) == FinalCategories(snapshot[a], Plan[a])

(* Plausible bug: the live message is not compared with what was approved. *)
ExecuteGetUnchecked(w) ==
    LET a == job[w] IN
    /\ pc[w] = "x_get"
    /\ Goto(w, IF Live(a) = Target(a) THEN "x_complete" ELSE "x_mark")
    /\ base' = [base EXCEPT ![w] = Len(Box(a))]
    /\ UNCHANGED <<queueVars, writeVars, job, seen, held>>

(* Preflight GET: a read error or a conflict fails the attempt, a message  *)
(* that already has the target completes it, else the write is prepared.   *)
ExecuteGet(w) ==
    LET a == job[w] IN
    /\ pc[w] = "x_get"
    /\ \/ Goto(w, "x_fail")
       \/ Unchanged(a) /\ Live(a) = Target(a) /\ Goto(w, "x_complete")
       \/ Unchanged(a) /\ Live(a) # Target(a) /\ Goto(w, "x_mark")
    /\ base' = [base EXCEPT ![w] = Len(Box(a))]
    /\ UNCHANGED <<queueVars, writeVars, job, seen, held>>

(* Plausible bug: the PATCH is sent before its intent is logged.           *)
ExecuteMarkUnlogged(w) ==
    /\ pc[w] = "x_mark"
    /\ MarkWriteInFlight(job[w])
    /\ Continue(w, "x_send")
    /\ UNCHANGED writeVars

ExecuteMark(w) ==
    /\ pc[w] = "x_mark"
    /\ MarkWriteInFlight(job[w])
    /\ Continue(w, "x_audit_wif")
    /\ UNCHANGED writeVars

ExecutionWrite(w) ==
    [cats |-> Target(job[w]), by |-> job[w], at |-> seen[w], base |-> base[w]]

ExecuteSend(w) ==
    /\ pc[w] = "x_send"
    /\ wire' = wire \cup {ExecutionWrite(w)}
    /\ Goto(w, "x_wait")
    /\ UNCHANGED <<queueVars, box, audited, log, job, seen, base, held>>

(* Plausible bugs: a transport error is retried, or taken for a success.   *)
ExecuteReplyRetrying(w) ==
    /\ pc[w] = "x_wait"
    /\ \/ Applied(ExecutionWrite(w)) /\ Goto(w, "x_complete")
       \/ Goto(w, "x_fail")
       \/ Goto(w, "x_send")
    /\ UNCHANGED <<queueVars, writeVars, job, seen, base, held>>
ExecuteReplyTrusting(w) ==
    /\ pc[w] = "x_wait"
    /\ Goto(w, "x_complete") \/ Goto(w, "x_fail")
    /\ UNCHANGED <<queueVars, writeVars, job, seen, base, held>>

(* set_categories: success needs a verified 200; any 3xx, 4xx or 5xx is a  *)
(* definite failure, also when a gateway answers for a server that has or  *)
(* will have applied the write; a transport error leaves it unknown.       *)
ExecuteReply(w) ==
    /\ pc[w] = "x_wait"
    /\ \/ Applied(ExecutionWrite(w)) /\ Goto(w, "x_complete")
       \/ Goto(w, "x_fail")
       \/ Goto(w, "x_unknown")
    /\ UNCHANGED <<queueVars, writeVars, job, seen, base, held>>

(* The call each of the last steps before the outcome's audit makes.       *)
Verdicts ==
    { <<"x_complete", "succeeded">>, <<"x_fail", "failed">>,
      <<"x_unknown", "outcome_unknown">>,
      <<"c_applied", "succeeded">>, <<"c_not_applied", "failed">>,
      <<"r_complete", "rolled_back">>, <<"r_fail", "rollback_failed">>,
      <<"r_unknown", "rollback_outcome_unknown">>,
      <<"k_applied", "rolled_back">>, <<"k_not_applied", "rollback_failed">> }

ExecuteFinish(w) ==
    /\ pc[w] \in {"x_fail", "x_complete", "x_unknown"}
    /\ \E to \in Statuses :
          /\ <<pc[w], to>> \in Verdicts
          /\ FinalizeExecution(job[w], to)
    /\ Continue(w, "audit_outcome")
    /\ UNCHANGED writeVars

-----------------------------------------------------------------------------
(* UncertainActionReconciler.reconcile: one GET, no PATCH.                 *)

ReconcileLoad(w, a) ==
    /\ pc[w] = "idle"
    /\ Status(a) \in UncertainExecution
    /\ UNCHANGED <<queueVars, writeVars, base, held>>
    /\ Begin(w, a, "c_audit")

(* A conflict is recorded as failed, like a write found not applied; a     *)
(* failed read is audited and leaves the status alone.                     *)
ReconcileGet(w) ==
    LET a == job[w] IN
    /\ pc[w] = "c_get"
    /\ \/ Goto(w, "audit_outcome")
       \/ Live(a) = Target(a) /\ Goto(w, "c_applied")
       \/ Live(a) # Target(a) /\ Goto(w, "c_not_applied")
    /\ UNCHANGED <<queueVars, writeVars, job, seen, base, held>>

ReconcileResolve(w) ==
    /\ pc[w] \in {"c_applied", "c_not_applied"}
    /\ \E to \in Statuses :
          /\ <<pc[w], to>> \in Verdicts
          /\ ResolveUncertainExecution(job[w], to)
    /\ Continue(w, "audit_outcome")
    /\ UNCHANGED writeVars

-----------------------------------------------------------------------------
(* ControlledRollbackExecutor.execute.  held starts as the reason given.   *)

RollbackClaim(w, a, reason) ==
    /\ pc[w] = "idle"
    /\ ClaimRollback(a, reason)
    /\ Begin(w, a, "r_audit_claim")
    /\ held' = [held EXCEPT ![w] =
                  [reason |-> reason, observed |-> {}, target |-> {}]]
    /\ UNCHANGED <<writeVars, base>>

(* Plausible bug: the live managed categories are not compared.            *)
RollbackGetUnchecked(w) ==
    LET a == job[w]
        found == [ reason |-> held[w].reason, observed |-> Live(a),
                   target |-> RollbackTarget(Live(a), snapshot[a]) ]
    IN  /\ pc[w] = "r_get"
        /\ held' = [held EXCEPT ![w] = found]
        /\ Goto(w, IF found.target = Live(a) THEN "r_no_change" ELSE "r_mark")
        /\ base' = [base EXCEPT ![w] = Len(Box(a))]
        /\ UNCHANGED <<queueVars, writeVars, job, seen>>

(* Preflight GET: only the managed categories are compared with the plan.  *)
RollbackGet(w) ==
    LET a == job[w]
        found == [ reason |-> held[w].reason, observed |-> Live(a),
                   target |-> RollbackTarget(Live(a), snapshot[a]) ]
    IN  /\ pc[w] = "r_get"
        /\ \/ Goto(w, "r_fail") /\ UNCHANGED held
           \/ /\ Live(a) \cap Managed = Plan[a]
              /\ held' = [held EXCEPT ![w] = found]
              /\ Goto(w, IF found.target = Live(a) THEN "r_no_change" ELSE "r_mark")
        /\ base' = [base EXCEPT ![w] = Len(Box(a))]
        /\ UNCHANGED <<queueVars, writeVars, job, seen>>

RollbackMark(w) ==
    /\ pc[w] = "r_mark"
    /\ PrepareOrCompleteRollback(job[w], held[w], "rollback_write_in_flight")
    /\ Continue(w, "r_audit_wif")
    /\ UNCHANGED writeVars

RollbackNoChange(w) ==
    /\ pc[w] = "r_no_change"
    /\ PrepareOrCompleteRollback(job[w], held[w], "rolled_back")
    /\ Continue(w, "audit_outcome")
    /\ UNCHANGED writeVars

RestoringWrite(w) ==
    [cats |-> held[w].target, by |-> job[w], at |-> seen[w], base |-> base[w]]

RollbackSend(w) ==
    /\ pc[w] = "r_send"
    /\ wire' = wire \cup {RestoringWrite(w)}
    /\ Goto(w, "r_wait")
    /\ UNCHANGED <<queueVars, box, audited, log, job, seen, base, held>>

RollbackReply(w) ==
    /\ pc[w] = "r_wait"
    /\ \/ Applied(RestoringWrite(w)) /\ Goto(w, "r_complete")
       \/ Goto(w, "r_fail")
       \/ Goto(w, "r_unknown")
    /\ UNCHANGED <<queueVars, writeVars, job, seen, base, held>>

RollbackFinish(w) ==
    /\ pc[w] \in {"r_fail", "r_complete", "r_unknown"}
    /\ \E to \in Statuses :
          /\ <<pc[w], to>> \in Verdicts
          /\ FinalizeRollback(job[w], to)
    /\ Continue(w, "audit_outcome")
    /\ UNCHANGED writeVars

-----------------------------------------------------------------------------
(* UncertainRollbackReconciler.reconcile: the loaded snapshot is compared  *)
(* with the live message; unlike the forward one it audits only at the end. *)

RollbackReconcileLoad(w, a) ==
    /\ pc[w] = "idle"
    /\ Status(a) \in UncertainRollback
    /\ UNCHANGED <<queueVars, writeVars, base>>
    /\ Begin(w, a, "k_get")
    /\ held' = [held EXCEPT ![w] = rollback[a]]

(* Plausible bug: the live state is compared with the observed one.        *)
RollbackReconcileGetObserved(w) ==
    LET a == job[w] IN
    /\ pc[w] = "k_get"
    /\ \/ Goto(w, "audit_outcome")
       \/ Live(a) = held[w].observed /\ Goto(w, "k_applied")
       \/ Live(a) # held[w].observed /\ Goto(w, "k_not_applied")
    /\ UNCHANGED <<queueVars, writeVars, job, seen, base, held>>

RollbackReconcileGet(w) ==
    LET a == job[w] IN
    /\ pc[w] = "k_get"
    /\ \/ Goto(w, "audit_outcome")
       \/ Live(a) = held[w].target /\ Goto(w, "k_applied")
       \/ Live(a) # held[w].target /\ Goto(w, "k_not_applied")
    /\ UNCHANGED <<queueVars, writeVars, job, seen, base, held>>

RollbackReconcileResolve(w) ==
    /\ pc[w] \in {"k_applied", "k_not_applied"}
    /\ \E to \in Statuses :
          /\ <<pc[w], to>> \in Verdicts
          /\ ResolveUncertainRollback(job[w], to)
    /\ Continue(w, "audit_outcome")
    /\ UNCHANGED writeVars

-----------------------------------------------------------------------------
(* Microsoft Graph and the person using Outlook.                           *)

(* Graph replaces the categories with no precondition: no If-Match is sent. *)
Deliver(r) ==
    /\ wire' = wire \ {r}
    /\ box' = [box EXCEPT ![MessageOf[r.by]] = Append(@, r)]
    /\ UNCHANGED <<queueVars, audited, log, workerVars>>

(* The request is refused, or lost on the way.                             *)
Drop(r) ==
    /\ wire' = wire \ {r}
    /\ UNCHANGED <<queueVars, box, audited, log, workerVars>>

Edits(m) == { i \in 2 .. Len(box[m]) : box[m][i].by = Person }

UserEdit(m) ==
    /\ \E c \in UserEdits : box' = [box EXCEPT ![m] = Append(@, ByPerson(c))]
    /\ Cardinality(Edits(m)) < MaxEdits
    /\ UNCHANGED <<queueVars, wire, audited, log, workerVars>>

-----------------------------------------------------------------------------
Start(w) ==
    \E a \in Actions :
        \/ Propose(w, a)
        \/ \E to \in Targets(Status(a)) : Decide(w, a, to)
        \/ Preview(w, a)
        \/ ExecuteClaim(w, a)
        \/ ClaimDone(w, a)
        \/ ReconcileLoad(w, a)
        \/ \E reason \in Reasons : RollbackClaim(w, a, reason)
        \/ RollbackReconcileLoad(w, a)

Execute(w) ==
    \/ ExecuteGet(w)
    \/ ExecuteMark(w)
    \/ ExecuteSend(w)
    \/ ExecuteReply(w)
    \/ ExecuteFinish(w)

Reconcile(w) == ReconcileGet(w) \/ ReconcileResolve(w)

Rollback(w) ==
    \/ RollbackGet(w)
    \/ RollbackMark(w)
    \/ RollbackNoChange(w)
    \/ RollbackSend(w)
    \/ RollbackReply(w)
    \/ RollbackFinish(w)

RollbackReconcile(w) == RollbackReconcileGet(w) \/ RollbackReconcileResolve(w)

WorkerStep(w) ==
    \/ Start(w) \/ Audit(w) \/ LastAudit(w) \/ TornAudit(w) \/ Stop(w)
    \/ Execute(w) \/ Reconcile(w) \/ Rollback(w) \/ RollbackReconcile(w)

Next ==
    \/ \E w \in Workers : WorkerStep(w)
    \/ \E r \in wire : Deliver(r) \/ Drop(r)
    \/ \E m \in Messages : UserEdit(m)

Spec == Init /\ [][Next]_vars

-----------------------------------------------------------------------------
TypeOK ==
    /\ QueueTypeOK
    /\ box \in [Messages -> Seq(Writes)]
    /\ wire \subseteq Writes
    /\ audited \in [Actions -> Nat]
    /\ log \in LogStates
    /\ pc   \in [Workers -> Steps]
    /\ job  \in [Workers -> Actions \cup {NoJob}]
    /\ seen \in [Workers -> Nat]
    /\ base \in [Workers -> Nat]
    /\ held \in [Workers -> RollbackSnapshots \cup {NoRollback}]

WriteIntents == {"write_in_flight", "rollback_write_in_flight"}

(* The intent a PATCH was sent for is in the queue and in the audit log.   *)
Intended(r) ==
    /\ r.at \in 1 .. Len(history[r.by])
    /\ history[r.by][r.at] \in WriteIntents
    /\ r.at < audited[r.by]

(* Every PATCH that is on the wire or in the mailbox stems from one write  *)
(* intent that the queue persisted and the audit log recorded before the   *)
(* request was sent, whatever crashed, raced or arrived late since.        *)
WriteAhead ==
    /\ \A r \in wire : Intended(r)
    /\ \A m \in Messages : \A i \in 1 .. Len(box[m]) :
            box[m][i].by # Person => Intended(box[m][i])

(* Two requests of one intent.                                             *)
Same(r, s) == r.by = s.by /\ r.at = s.at

(* One intent sends one PATCH: no request is in the mailbox twice, or both *)
(* there and still on the wire.                                            *)
AtMostOnce ==
    /\ \A r, s \in wire : Same(r, s) => r = s
    /\ \A m \in Messages : \A i \in 1 .. Len(box[m]) :
          box[m][i].by # Person =>
            /\ \A r \in wire : ~Same(r, box[m][i])
            /\ \A j \in 1 .. Len(box[m]) : Same(box[m][i], box[m][j]) => i = j

(* The log never tells of a transition the queue does not hold: events are *)
(* appended after the queue is saved, by every one of the callers.         *)
AuditBehindQueue ==
    \A a \in Actions :
        audited[a] <= IF Queued(a) THEN Len(history[a]) + 1 ELSE 0

(* A succeeded action's target really was the category set of the message  *)
(* at some version no older than the one the proposal was built from.      *)
SucceededWasApplied ==
    \A a \in Actions :
        Status(a) = "succeeded" =>
            \E i \in 1 .. Len(Box(a)) :
                i >= snapshot[a].key /\ Box(a)[i].cats = Target(a)

(* A rolled-back message had the planned managed categories and, from then *)
(* on or later, the original ones.                                         *)
RolledBackWasRestored ==
    \A a \in Actions :
        Status(a) = "rolled_back" =>
            \E i, j \in 1 .. Len(Box(a)) :
                /\ i <= j
                /\ Box(a)[i].cats \cap Managed = Plan[a]
                /\ Box(a)[j].cats \cap Managed = snapshot[a].cats \cap Managed

(* The preview of a write or of a rollback: what it may add and take away. *)
Previewed(r) ==
    IF history[r.by][r.at] = "write_in_flight"
      THEN DryRunPlan(snapshot[r.by], Plan[r.by])
      ELSE RollbackPlan(snapshot[r.by], Plan[r.by])

(* A write that reaches the message in the version its preflight read does *)
(* what the dry run said, which was computed from the stored proposal: it  *)
(* adds and removes exactly the previewed categories, all of them managed, *)
(* although a rollback starts from categories the preview never saw.       *)
WritesAsPreviewed ==
    \A m \in Messages : \A i \in 2 .. Len(box[m]) :
        LET r == box[m][i]
            found == box[m][i - 1].cats
        IN  /\ r.by # Person
            /\ r.base = i - 1
            => /\ WouldWrite(Previewed(r))
               /\ r.cats \ found = Previewed(r).add
               /\ found \ r.cats = Previewed(r).remove
               /\ Previewed(r).add \cup Previewed(r).remove \subseteq Managed

(* A rollback that reaches the version its preflight read finds there the  *)
(* managed categories of its own action's plan: it never takes away what a *)
(* later action or the user put in their place.                            *)
RollbackUndoesItsOwn ==
    \A m \in Messages : \A i \in 2 .. Len(box[m]) :
        LET r == box[m][i] IN
        /\ r.by # Person
        /\ r.base = i - 1
        /\ history[r.by][r.at] = "rollback_write_in_flight"
        => box[m][i - 1].cats \cap Managed = Plan[r.by]

(* A PATCH has no precondition and may overwrite what the user changed in  *)
(* the meantime, but nothing older: what it makes of the categories that   *)
(* are not InboxPilot's is what its preflight read found, in a version not *)
(* older than the proposal, whichever worker sends it and however late.    *)
KeepsWhatItRead ==
    \A m \in Messages : \A i \in 1 .. Len(box[m]) :
        LET r == box[m][i] IN
        r.by # Person =>
            /\ r.base \in 1 .. i - 1
            /\ snapshot[r.by].key <= r.base
            /\ r.cats \ Managed = box[m][r.base].cats \ Managed

(* Once a rollback snapshot is persisted every executor at the rollback, a *)
(* retry after a failure included, was given the snapshot's reason, and    *)
(* whoever replaces the snapshot keeps it: the idempotency key does not    *)
(* hold the reason, and the call that replaces a snapshot compares none.   *)
ReasonIsKept ==
    /\ [](\A w \in Workers :
            pc[w] \in RollbackSteps /\ rollback[job[w]] # NoRollback =>
                held[w].reason = rollback[job[w]].reason)
    /\ [][\A a \in Actions :
            rollback[a] # NoRollback =>
                rollback'[a] # NoRollback /\ rollback'[a].reason = rollback[a].reason]_vars

-----------------------------------------------------------------------------
(* What the documents say and the code does not do.                        *)

Executing(w) == pc[w] \in ExecutorSteps

(* stage3_idempotency_and_retry.md: the claim stops two executors from     *)
(* processing the same action at the same time.                            *)
OneExecutorPerAction ==
    \A w, v \in Workers :
        Executing(w) /\ Executing(v) /\ job[w] = job[v] => w = v

-----------------------------------------------------------------------------
(* A claim whose worker has ended: by a crash, or by an error before the    *)
(* verdict was saved.  No command passes stale_after_seconds, so for them   *)
(* StaleClaims is FALSE.                                                    *)

AtRollback(w) == pc[w] \in RollbackSteps

Abandoned(a) ==
    \/ /\ Status(a) = "executing" /\ ~StaleClaims
       /\ \A w \in Workers : Executing(w) => job[w] # a
    \/ /\ Status(a) = "rollback_executing"
       /\ \A w \in Workers : AtRollback(w) => job[w] # a

(* An abandoned claim is abandoned for good: no review, retry, reconciler   *)
(* or rollback ever takes the action over, or moves it at all.              *)
AbandonedForGood ==
    [][\A a \in Actions :
          Abandoned(a) => Abandoned(a)' /\ history'[a] = history[a]]_vars
=============================================================================
