------------------------------ MODULE Workflow -------------------------------
(***************************************************************************)
(* The incremental workflow (workflow/orchestrator.py over the SQLite      *)
(* repositories, the action queue and the audit log): synchronize, load,   *)
(* import, analyze, persist, build review actions.  Each transaction and   *)
(* each file update is a step, and a run may fail or die between any two.  *)
(* Several processes may run it: the command line takes no lock.           *)
(* One analysis profile: another starts from no analysis.                  *)
(***************************************************************************)
EXTENDS GraphSync

CONSTANT Decisions  \* what an analysis may conclude: priority, category, review

ASSUME OutcomesAssumption == {"failed", "llm_failed"} \cap Decisions = {}

VARIABLES
    stored,         \* messages.content_hash: the content last imported
    analyses,       \* message_analyses: the row of each message and content
    queue,          \* ids of the actions of the queue file
    audit,          \* actions whose creation the audit log records
    sql,            \* action_id of the mailbox_actions rows
    row,            \* workflow_runs.status of the last run of each process
    work            \* per run: what it holds in memory

flowVars == <<stored, analyses, queue, audit, sql, row, work>>
vars     == <<syncVars, flowVars>>

Mappable == Contents \ Unmappable
Actions  == [msg : Messages, content : Mappable, decision : Decisions]
Analyses == [of : Mappable, complete : BOOLEAN] \cup {Absent}
Outcomes == Decisions \cup {"failed", "llm_failed"}

ASSUME AbsentRowAssumption == Absent \notin [of : Mappable, complete : BOOLEAN]

Works == [ force : BOOLEAN, loaded : Copies, todo : SUBSET Messages,
           at : Messages \cup {Absent}, eligible : SUBSET Messages,
           outcome : [Messages -> Outcomes],
           failures : BOOLEAN ]
NoWork == [ force |-> FALSE, loaded |-> Nothing, todo |-> {}, at |-> Absent,
            eligible |-> {}, outcome |-> [m \in Messages |-> "failed"],
            failures |-> FALSE ]

FlowSteps == {"idle", "load", "import", "select", "analyze", "persist",
              "enqueue", "audit", "record"}

(* The results of a run, and those whose analysis is complete.             *)
Analyzed(r) == {m \in Messages : work[r].outcome[m] # "failed"}
Complete(r) == {m \in Analyzed(r) : work[r].outcome[m] # "llm_failed"}

(* build_review_actions: the action of each complete result.  The id is a  *)
(* digest of the message, its content and the decision.                    *)
ActionOf(r, m) ==
    [msg |-> m, content |-> work[r].loaded[m], decision |-> work[r].outcome[m]]

(* Plausible bug: an action for each result, complete or not.              *)
ActionsOfAnalyzed(r) == {ActionOf(r, m) : m \in Analyzed(r)}

ActionsOf(r) == {ActionOf(r, m) : m \in Complete(r)}

(* has_current: the current content has a complete analysis.               *)
HasCurrent(m) ==
    /\ stored[m] # Absent
    /\ analyses[m][stored[m]] # Absent
    /\ analyses[m][stored[m]].complete

Init ==
    /\ SyncInit
    /\ stored = Nothing
    /\ analyses = [m \in Messages |-> [c \in Mappable |-> Absent]]
    /\ queue = {}
    /\ audit = {}
    /\ sql = {}
    /\ row = [r \in Runs |-> "none"]
    /\ work = [r \in Runs |-> NoWork]

-----------------------------------------------------------------------------
database == <<stored, analyses, sql>>
trail    == <<queue, audit>>

(* execute_workflow, with or without the read-only synchronization.        *)
Begin(r, force, syncing) ==
    /\ pc[r] = "idle"
    /\ row' = [row EXCEPT ![r] = "running"]
    /\ work' = [work EXCEPT ![r].force = force]
    /\ Goto(r, IF syncing THEN "read_state" ELSE "load")
    /\ UNCHANGED <<mailbox, syncFiles, round, database, trail>>

(* load_dataset on the dataset that the synchronization writes, which is   *)
(* also the one configured.  An incomplete round is a failure of the run.  *)
Load(r) ==
    /\ pc[r] \in {"synced", "load"}
    /\ work' = [work EXCEPT ![r].loaded = dataset,
                            ![r].todo = {m \in Messages : dataset[m] # Absent},
                            ![r].failures = round[r].failed]
    /\ round' = [round EXCEPT ![r] = NoRound]
    /\ Goto(r, "import")
    /\ UNCHANGED <<mailbox, syncFiles, database, trail, row>>

(* The first transaction of _import_step on a message: messages.upsert.    *)
Upsert(r) ==
    /\ pc[r] = "import"
    /\ \E m \in work[r].todo :
          /\ stored' = [stored EXCEPT ![m] = work[r].loaded[m]]
          /\ work' = [work EXCEPT ![r].todo = @ \ {m}, ![r].at = m]
    /\ Goto(r, "select")
    /\ UNCHANGED <<mailbox, syncFiles, round, analyses, sql, trail, row>>

(* The rest of _import_step on the message: it may fail to normalize, and  *)
(* is else analyzed if that is forced or there is no current analysis.     *)
Select(r) ==
    /\ pc[r] = "select"
    /\ \/ work' = [work EXCEPT ![r].at = Absent, ![r].failures = TRUE]
       \/ /\ work[r].force \/ ~HasCurrent(work[r].at)
          /\ work' = [work EXCEPT ![r].at = Absent, ![r].eligible = @ \cup {work[r].at}]
       \/ /\ ~work[r].force /\ HasCurrent(work[r].at)
          /\ work' = [work EXCEPT ![r].at = Absent]
    /\ Goto(r, "import")
    /\ UNCHANGED <<mailbox, syncFiles, round, database, trail, row>>

(* analyze_dataset: each message comes out with a decision, with the       *)
(* decision of the rules because the LLM failed, or not at all.            *)
Analyze(r) ==
    /\ pc[r] = "import"
    /\ work[r].todo = {}
    /\ \E outcome \in [work[r].eligible -> Outcomes] :
          work' = [work EXCEPT
            ![r].outcome = [m \in Messages |->
                IF m \in work[r].eligible THEN outcome[m] ELSE "failed"],
            ![r].todo = {m \in work[r].eligible : outcome[m] # "failed"},
            ![r].failures = @ \/ \E m \in work[r].eligible : outcome[m] \notin Decisions]
    /\ Goto(r, "persist")
    /\ UNCHANGED <<mailbox, syncFiles, round, database, trail, row>>

(* Plausible bug: save keeps a row it finds as it is.                      *)
PersistOnce(r) ==
    /\ pc[r] = "persist"
    /\ \E m \in work[r].todo :
          /\ analyses' = [analyses EXCEPT ![m][stored[m]] =
                IF @ # Absent THEN @
                ELSE [of |-> work[r].loaded[m], complete |-> m \in Complete(r)]]
          /\ work' = [work EXCEPT ![r].todo = @ \ {m}]
    /\ UNCHANGED <<mailbox, syncFiles, pc, round, stored, sql, trail, row>>

(* AnalysisRepository.save: the row is the one of the content that the     *)
(* database now holds for the message.                                     *)
Persist(r) ==
    /\ pc[r] = "persist"
    /\ \E m \in work[r].todo :
          /\ analyses' = [analyses EXCEPT ![m][stored[m]] =
                [of |-> work[r].loaded[m], complete |-> m \in Complete(r)]]
          /\ work' = [work EXCEPT ![r].todo = @ \ {m}]
    /\ UNCHANGED <<mailbox, syncFiles, pc, round, stored, sql, trail, row>>

(* Plausible bug: an action is a duplicate if its message has one already. *)
EnqueueByMessage(r) ==
    /\ pc[r] = "persist"
    /\ work[r].todo = {}
    /\ queue' = queue \cup {a \in ActionsOf(r) : \A b \in queue : b.msg # a.msg}
    /\ Goto(r, "audit")
    /\ UNCHANGED <<mailbox, syncFiles, round, database, audit, row, work>>

(* _action_step: the actions are added to the queue, under its lock.       *)
Enqueue(r) ==
    /\ pc[r] = "persist"
    /\ work[r].todo = {}
    /\ queue' = queue \cup ActionsOf(r)
    /\ Goto(r, "audit")
    /\ UNCHANGED <<mailbox, syncFiles, round, database, audit, row, work>>

(* Then the events of their creation are appended to the audit log.        *)
Audit(r) ==
    /\ pc[r] = "audit"
    /\ audit' = audit \cup ActionsOf(r)
    /\ work' = [work EXCEPT ![r].todo = Complete(r)]
    /\ Goto(r, "record")
    /\ UNCHANGED <<mailbox, syncFiles, round, database, queue, row>>

(* And their rows are written, one transaction each.                       *)
Record(r) ==
    /\ pc[r] = "record"
    /\ \E m \in work[r].todo :
          /\ sql' = sql \cup {ActionOf(r, m)}
          /\ work' = [work EXCEPT ![r].todo = @ \ {m}]
    /\ UNCHANGED <<mailbox, syncFiles, pc, round, stored, analyses, trail, row>>

(* The process of the run forgets what it held.                            *)
Ends(r) ==
    /\ Goto(r, "idle")
    /\ round' = [round EXCEPT ![r] = NoRound]
    /\ work' = [work EXCEPT ![r] = NoWork]

Finish(r) ==
    /\ pc[r] = "record"
    /\ work[r].todo = {}
    /\ row' = [row EXCEPT ![r] =
          IF work[r].failures THEN "completed_with_failures" ELSE "completed"]
    /\ Ends(r)
    /\ UNCHANGED <<mailbox, syncFiles, database, trail>>

(* An exception of any step: Graph, a storage error, a lock not obtained   *)
(* in time.  _atomic_write removes the temporary file it was writing.      *)
Fail(r) ==
    /\ pc[r] # "idle"
    /\ row' = [row EXCEPT ![r] = "failed"]
    /\ staged' = IF pc[r] \in {"stage", "publish"} THEN NoFile ELSE staged
    /\ stagedLink' = IF pc[r] \in {"stage_link", "publish_link"} THEN NoFile ELSE stagedLink
    /\ Ends(r)
    /\ UNCHANGED <<mailbox, dataset, link, origin, database, trail>>

(* The process dies: the row says running and temporary files stay.        *)
Crash(r) ==
    /\ pc[r] # "idle"
    /\ Ends(r)
    /\ UNCHANGED <<mailbox, syncFiles, database, trail, row>>

FlowStep(r) ==
    \/ Load(r) \/ Upsert(r) \/ Select(r) \/ Analyze(r) \/ Persist(r)
    \/ Enqueue(r) \/ Audit(r) \/ Record(r) \/ Finish(r)

Next ==
    \/ (MailChanges \/ Upgrade) /\ UNCHANGED flowVars
    \/ \E r \in Runs :
          \/ \E force, syncing \in BOOLEAN : Begin(r, force, syncing)
          \/ SyncStep(r) /\ UNCHANGED flowVars
          \/ FlowStep(r) \/ Fail(r) \/ Crash(r)

Spec == Init /\ [][Next]_vars

-----------------------------------------------------------------------------
TypeOK ==
    /\ SyncTypeOK
    /\ pc \in [Runs -> SyncSteps \cup FlowSteps]
    /\ stored \in Copies
    /\ analyses \in [Messages -> [Mappable -> Analyses]]
    /\ queue \subseteq Actions
    /\ audit \subseteq Actions
    /\ sql \subseteq Actions
    /\ row \in [Runs -> {"none", "running", "completed", "completed_with_failures", "failed"}]
    /\ work \in [Runs -> Works]

(* has_current decides what is analyzed: the row it finds complete must    *)
(* have been computed from the content the message now has.                *)
CurrentMeansAnalysed ==
    \A m \in Messages : HasCurrent(m) => analyses[m][stored[m]].of = stored[m]

(* Only a complete analysis leads to a proposal: when an action enters the *)
(* queue, the row of its content is complete.                              *)
ProposedWhenComplete ==
    [][\A a \in queue' \ queue :
          /\ analyses[a.msg][a.content] # Absent
          /\ analyses[a.msg][a.content].complete]_vars

(* The queue is written first, then the audit log, then the rows, so a run *)
(* that dies leaves no record of an action that nobody can review.         *)
TrailFollowsQueue == sql \subseteq audit /\ audit \subseteq queue

(* A run that reports "completed" leaves nothing to retry: each message it *)
(* loaded is imported and has a complete analysis of that content.         *)
CompletedLeavesNothing ==
    [][\A r \in Runs :
          row[r] = "running" /\ row'[r] = "completed" =>
             \A m \in Messages :
                 work[r].loaded[m] # Absent =>
                     /\ stored[m] = work[r].loaded[m]
                     /\ HasCurrent(m)]_vars

(* A message is passed over only when what its analysis proposed is in the *)
(* queue: the documented order ends every message there.                   *)
SkippedWasProposed ==
    \A r \in Runs :
        pc[r] = "select" /\ ~work[r].force /\ HasCurrent(work[r].at) =>
            \E a \in queue :
                a.msg = work[r].at /\ a.content = work[r].loaded[work[r].at]
=============================================================================
