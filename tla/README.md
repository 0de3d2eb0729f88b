# InboxPilot: TLA+ verification project

InboxPilot reads an Outlook inbox, classifies each message (rules and an optional
LLM) and proposes category changes. A person approves each proposal; only then is a
single message's category set written back, under a write-ahead queue, an audit log,
live preflight reads, reconciliation and controlled rollback. This directory holds
TLA+ models of that program, TLC configurations that check them on small instances and
TLAPS proofs of what matters most. Paths below are relative to `src/inbox_agent/`.

## Inventory

| Component | State it keeps | Operations | What is hard about it |
|---|---|---|---|
| `actions/models.py`, `actions/queue.py` | the action queue file: per action its snapshot, status, transition history and rollback snapshot | enqueue, review, claim, mark, complete / fail / unknown, resolve, and the rollback twins | long legal call sequences; every save is revalidated as a whole; history has a maximum length |
| `actions/graph_executor.py` | none of its own: it walks claim, GET, mark, PATCH, verdict, with an audit append between | `execute`, `reconcile` | crash between any two of three stores; late PATCH; reconciling a live executor; the user edits in between |
| `actions/rollback_executor.py`, `rollback.py` | as above, plus the snapshot it builds from the live message | `execute`, `reconcile`, dry run | as above, and later actions on the same message |
| `actions/audit.py` | an append-only JSONL file | `append_unique`, `load` | torn last line; events derived from a worker's copy of the action |
| `actions/locking.py` | an advisory lock on a file | acquire within a timeout, release | everything else relies on it; a probe takes it too |
| `graph/write_client.py` | none | GET snapshot, PATCH categories | definite and unknown outcomes |
| `graph/sync.py`, `client.py`, `auth.py`, `mapper.py` | delta cursor, synced dataset, token cache | initial, incremental, recovery sync | two files written one after the other; expired cursor |
| `workflow/orchestrator.py`, `storage/` | SQLite rows of messages, analyses, actions, runs | run = sync, load, import, analyse, persist, queue actions | a crash between the steps; concurrent runs; what a rerun skips |
| `service/` | scheduler lock, one service-state row | `serve`, `run_once`, `status` | lock probes, restarts, stale read-modify-write of the row, stop requests |
| `web/agent_manager.py`, `web/shutdown.py` | scheduler thread, flags, transient key | start, stop, status, shutdown | start/stop/finish races of threads |
| `actions/dry_run.py`, `rollback.py` | none: plans shown before a write or a rollback | plan, validate | the plan is made of the stored proposal, the write of the live message |
| `web/actions.py`, `app.py`, `console.py`, `query.py` | none | request handlers | concurrent requests on one action |
| `rule_engine.py`, `pipeline.py`, `normalizer.py` | the results, failures and analyses of one pass | `analyze_dataset`: rules, routing, LLM, fusion per message | partial failures that must not reach other messages; thresholds and margins |
| `llm/` | none | route, ask, fuse | which answer may replace a decision of the rules, and when a person must look |
| `notifications/` | delivery ledger rows | claim, deliver, mark | crash between claim and mark; uncertain toasts; retry limit; restored ledgers |
| `observability/` | database backups; events and logs | backup, restore; record | restore against a starting scheduler |
| `cli.py` | none | commands that call the parts above | the order of checks before a write |
| `evaluation.py`, `loader.py`, `llm/evaluation.py` | none | load files, compare results | reports only |

## How the parts interact

The scheduler (or `workflow run`) calls the workflow; the workflow calls the Graph
synchronization, imports its dataset into SQLite, runs the triage pipeline on what is new
and puts proposals into the action queue, the audit log and the SQL action rows. A person
reviews proposals in the web console or on the command line; execution, reconciliation and
rollback then work on the same queue file and audit log and talk to Graph. After each run the
scheduler hands its result to the notifications, which read the analyses and keep a ledger in
the same database; backup and restore copy that database as a whole, ledger included. The web
console also runs the scheduler as a thread. Shared state is therefore: the queue file, the audit
log (each under a lock of its own, held for one call), the dataset and the delta link (no
lock), the SQLite database (one transaction per repository call), and the scheduler's lock
file, which status probes take as well.

## Modules

| Module | Extends | What it models |
|---|---|---|
| `ActionModel` | | lifecycle of an action, its snapshots, the category sets a write and a rollback aim at (`actions/models.py`, `_final_categories`, `_rollback_categories`) |
| `ActionQueue` | `ActionModel` | every method of `ActionQueueRepository` that changes the file, called by anyone in any order; implements `QueueStore` (`DecisionsStand`) |
| `ControlledWrite` | | the abstract promise of the write path: a message changes by a person's hand, or by spending, once, an intent that was logged for an approved action |
| `Previews` | `ActionModel` | the dry runs of a write and of a rollback, with the checks a plan must pass to be shown |
| `Writeback` | `ActionQueue`, `Previews` | executor, reconciler, rollback and their reconciler as workers, with the audit log, the mailbox and PATCHes on the wire |
| `WritebackRefinement` | `Writeback` | the mapping under which `Writeback` implements `ControlledWrite` (`PromiseKept`) |
| `Service` | | `ServiceRunner.serve`, `run_once`, stop requests, the state row, status probes |
| `WebAgent` | `Service` | `LocalAgentManager`: start, stop, status, the end of the thread, shutdown of the server |
| `GraphSync` | | a delta round over dataset and state file, the Outlook folder beneath it |
| `Workflow` | `GraphSync` | `execute_workflow` from the synchronization to the SQL action rows |
| `RuleEngine` | | `RuleEngine.evaluate` with the facts `normalizer.py` takes from a message, category and confidence (`pipeline.py`) |
| `Fusion` | `RuleEngine` | routing (`llm/routing.py`), which answers count (`llm/openai_compatible.py`), fusion (`llm/fusion.py`) |
| `Triage` | `Fusion` | the pass of `OfflinePipeline.analyze_dataset` with its failures per message and stage |
| `Recovery` | | backup and restore of the database against the scheduler's lock (`observability/recovery.py`) |
| `Notifications` | `Recovery` | `NotificationCoordinator.process` over the delivery ledger, with the runs, crashes and errors around it |
| `QueueStore` | | the abstract store: a build or a review changes the queue in one step; an action is approved only while nobody has decided on it, a rejection may take the approval back, and stands |
| `StateFiles` | | the queue file and the audit log as files: lock, temporary file, rename, append, with the commands that build, review and preview (`locking.py`, `queue.py`, `audit.py`, `cli.py`, `web/actions.py`) |
| `MC*` | | values of the constants and symmetry sets for TLC |
| `*Proofs` | | the theorems |

The reading of the code that the modules share:

- **One lock, one step.** A queue method loads, validates and replaces the file under one
  operating-system lock, so it is one action (`StateFiles` opens it up and shows that it may be
  taken for one); an audit append, a GET, a PATCH and a SQLite
  transaction are one action each. Everything between two of them can be interleaved.
- **A guard that raises is a disabled action**, and `Stop` (in `Writeback`), `Raise` (in
  `Service`) and `Fail` (in `Workflow`) end the call at any step: they stand for a raised
  guard, a storage error, a lock not obtained in time, a wall clock that was set back (the
  history must be chronological) or a crash. `Workflow` and `Service` tell crash and error
  apart because clean-up code runs in one and not in the other.
- **A PATCH is a record** with the category set it writes, the action and history position
  it was sent for and the version its preflight read. It is delivered, or lost, at any later
  time; a timeout is an answer that comes before the delivery.
- **Category names are opaque**; every comparison of the code is made on casefolded sets, so
  a category tuple is a set, and `Managed` is the `InboxPilot/` namespace.
- **The mailbox of `GraphSync` is the list of its changes** and a delta link is the number
  of changes it covers, which makes "the link covers a change that the dataset lacks" a
  statement about two numbers and a copy.
- **Triage is an outcome per message** in `Workflow`: decided, decided by the rules because
  the LLM failed, or failed. `Triage` is the pass that computes it.
- **A message in `Triage` is its clauses**: which words of the keyword lists stand in it, which
  dates, and the facts about sender and headers that the rules weigh. Confidences, scores and
  deadlines are integers (percent, points, minutes); the word lists, weights, thresholds,
  margin, policies and answers are constants, and the TLC instance takes those of
  `config/rules.yaml`.
- **An event of `Notifications` is its dedupe key.** A key holds a fingerprint of the analysis,
  which holds the time of it, so every saved analysis has a print of its own. What a toast that
  timed out did is not known: it is shown or not, and marked failed in either case.
- **Analyses are saved between two calls of `process`**, since one scheduler runs the workflow
  and then the notifications; a forced `workflow run` beside it is left out. The time passes
  when a run ends.
- **A restore is three steps** (probe of the lock, safety copy, replacement), between which
  the scheduler may start. The deployment is Windows, where the file of a running process
  cannot be replaced: the replacement is guarded by it, and aborts otherwise.

- **A line of the audit log in `StateFiles` is its event, or `Torn`**: a part of a line, two
  lines glued together, or the line of a note that the reader takes for two. A cut append leaves
  some whole lines and of the next nothing, a part, or all but its line end. A worker that does
  not get a lock while it is idle takes no step.

How state corresponds to the code, where the names do not say it:

| TLA+ | Code |
|---|---|
| `snapshot`, `history`, `rollback` | `current_snapshot`, the `to_status` of `transition_history`, `rollback_snapshot` |
| `box`, `wire` | versions of each Outlook message, PATCHes that Graph may still apply |
| `audited`, `log` | how many events of each action the audit log holds; whether its last line is whole, cut short, or unreadable |
| `pc`, `job`, `seen`, `base`, `held` | where a command is, and its copies of the action, the live message and the rollback snapshot |
| `lock`, `row`, `prev`, `report` | `scheduler.lock`, the service state row, a runner's last read of it, what a probe found |
| `mutex`, `thread`, `managed`, `stopping` | the manager's `RLock`, the thread, `_runner`/`_database`/`_thread` set, `_stopping` |
| `dataset`, `link`, `staged`, `stagedLink` | `outlook_inbox.json`, the delta link of the state file, their temporary files |
| `at`, `step`, `successful`, `llm_*`, `results` | the loop of `analyze_dataset`, its local lists and dictionaries, the report |
| `database.rows`, `database.ledger` | `message_analyses`, `notification_deliveries` |
| `phase`, `todo`, `claimed`, `delivery` | which alert `process` is at, its items, the claimed ones, how their delivery ended |
| `shown`, `stranded` | observers: how often the user saw an event; events left pending by a crash, an error or a restore |
| `queue`, `temp`, `queueHolder` (`StateFiles`) | `action_queue.json` (per action its history, as the set of what it was: proposed, approved, rejected), `.action_queue.json.tmp`, the holder of its lock |
| `log`, `open`, `logHolder`, `reported` (`StateFiles`) | the lines of `actions.jsonl`, whether the last lacks its end, its lock, an observer of what `append_unique` reported |
| `backups`, `restoreStep`, `source` | the backup files, what a restore has done, the copy it restores |
| `stored`, `analyses`, `queue`, `audit`, `sql`, `row` | `messages.content_hash`, `message_analyses`, queue file, audit log, `mailbox_actions`, `workflow_runs.status` |

## Runs

All runs finish with every state explored, except those marked *violation*, which end at
the counterexample they exist for.

| Run | Instance | Distinct states | What it shows |
|---|---|---|---|
| `writeback` | one action, two workers, two reasons, keys of two versions, one user edit, history of 8, stale claims, torn audit appends | 925,000 | write-ahead, at-most-once and audit order, and the refinement of `ControlledWrite`; the lifecycle of an action over its whole history; what "succeeded" and "rolled_back" mean for the mailbox; a write does what its preview showed and overwrites nothing its preflight could have seen, a rollback takes back its own action's categories only; no approval follows a rejection, and a rejection stands |
| `one_executor` | as `writeback`, one version and reason, no stale claims, whole appends | *violation* | two executors on one action after a reconciliation of a live one |
| `service` | two schedulers, one probe, up to three failures in a row | 778,149 | lock, backoff, pid and stop of the scheduler |
| `web_agent` | one request, the thread, another scheduler, a foreign probe | 234,366 | flags, start over an ending thread, shutdown |
| `web_start` | two requests, the thread | *violation* | a start refused by the start request's own status probe |
| `workflow` | two messages, two mailbox changes, one run after another | 1,301,645 | cursor, trail, completeness |
| `concurrent_runs` | one message, two contents, two runs | *violation* | the analysis of an older content filed under the newer one |
| `skipped_message` | one message | *violation* | a message whose proposal was lost is passed over for good |
| `triage` | two messages of seven kinds, five configurations, 27 answers | 126,578 | the rules are a floor, departures are reviewed, failures stay with their message, the review margin is exact |
| `alerts` | two messages, two analyses, one fault, one restore, one backup kept, a deadline whose window opens and closes | 521,902 | bounded repeats, a truthful ledger, due alerts settle |
| `files` | two workers, two actions, a note that breaks its line, cut appends | 2,439,790 | the queue file implements `QueueStore`; the log tells of saved reviews, of each once, and keeps what was reported as logged for as long as it loads |
| `split_note` | as `files`, such a note on approvals, whole appends | *violation* | a note with a line separator makes its event two lines |

Why these bounds are enough to meet the interesting cases: a history of 8 holds a claim, an
intent, a failure, a second claim with its intent and its verdict; an execution and its rollback,
one of the two with an unknown outcome that a reconciliation resolves; and an execution, a rollback
that fails with its snapshot saved, and the claim of its retry, for any reason offered. The snapshot
that retry would save is a ninth entry: that it keeps the reason is left to `ReasonTheorem`, while
the run checks what makes it so, that the retry was given the reason of the first. The code's limit of
100 behaves like any other limit, and histories of the run do reach theirs; what is said of
histories and of the mailbox is proved for every limit. Two workers suffice for every pair of concurrent
calls; a third can only repeat one of them. Two versions and one edit make a preflight read
stale and a plan outdated. Three failures reach the maximum of the backoff and stay there.
Two mailbox changes let a message change, or go, while a round is under way, and two
messages let one fail where the other succeeds. The bounds are the constants `MaxKey`,
`MaxEdits`, `HistoryLimit`, `MaxFailures` and `MaxChanges`.

`triage` holds a message on each side of what the rules tell apart (a score on a threshold,
within the margin, clamped; a deadline past, near, far, in conflict; an action word inside a
no-action phrase; an invalid message) and answers on each side of what fusion tells apart
(confidence at and below the minimum, a deadline at and beyond the tolerance, both directions
of priority, each error). Two messages are enough for a failure at one to reach the other.
In `alerts` the bounds are per configuration (`MCSettings`): two analyses make two alerts of one
message or of two, one analysis with a restore lets the ledger go back, and the summary has no
analyses; `MaxFaults` is one crash, database error, failed run or restore, with `MaxBackups`
of one copy, kept from any moment, and `RetryLimit` of 2 has a first attempt, a retry and a
limit. Hours are the unit of time. Three of them pass and the window of deadlines is one hour, so the
deadline, at hour 2, enters its window at 1 and has left it at 3, in any state of its alert; all
of it lies in one day, and the next day's failure alert and summary are other events.

In `files` each action can be approved, rejected, or approved and then rejected. Two workers and two actions are enough for a lost update, for one command to log what
another already has, and for an append of several lines (a build logs up to six) to be cut
after any of them.

`CHECK_DEADLOCK FALSE` is set in the write-path and triage runs only: a finished
lifecycle, a history at its limit, or a finished report has no further step. Symmetry is used over workers, requests,
messages and mappable contents, in runs without liveness properties.

## Fairness

The write path and the workflow have safety properties only: nothing in the code promises
that a person reviews, that Graph answers or that a run is started again. `Service` and
`WebAgent` have weak fairness for the steps of a scheduler, of requests, of the thread and of
the shutdown: operating-system threads are scheduled, HTTP requests carry timeouts, so a
workflow ends. Weak fairness is enough because each such step stays enabled until taken, and
nothing is assumed of starts, crashes, stop requests or probes of other processes.
`StopIsHonoured` and `ShutdownEnds` rest on it.

`Notifications` has weak fairness for the steps of `process` (a sequential function whose
toast has a timeout) and for the start of the scheduler (it is the deployment that alerts are
for), and strong fairness for runs that succeed: a scheduler that never completes a run alerts
of nothing but its failures, and a run can succeed only while the scheduler is up and between
two calls of `process`, so the action is enabled again and again, not always. `DueAlertsSettle`
rests on it; it excepts what a crash, an error or a restore left pending, because the code
never claims such a row again, and `LedgerIsHonest` says that nothing else is so left.

## Proofs

The type invariants of all modules but `Writeback` are theorems only (`QueueTypeInvariant` and
the like); TLC checks that of `Writeback`, which contains the queue's (`TypeOK` in `writeback`). The statements on histories are proved for the queue under any caller and run in
`writeback` under the callers the code has; two actions on one message are proved, not run.

All theorems hold for every value of the constants that satisfies the named assumptions of
the modules (types of constants, and default values that are not data). Two
assumptions of `Service` say more. `PowerAssumption` is arithmetic that the provers lack and TLC
evaluates: `2 ^ 0 = 1`, and up to 20 that `2 ^ n` is a natural number and `2 ^ (n + 1)` its double.
`CapAssumption`, that the maximum delay is at most 2^20 intervals, follows from the bounds of the
settings (`service/config.py:107`: an interval of at least a minute, a maximum of at most a week).

An invariant that a documented claim needs but the code does not keep is proved under the weakest
condition found that restores it: see *Why the documented claims break* below.

- **Queue.** `QueueInv` (types, absent actions are blank, the rollback contract, histories
  are paths of the transition graph) is inductive; that histories are paths is what makes
  the statements about whole histories provable. `DecisionsStand` is the refinement of `QueueStore`,
  the store that `StateFiles` implements: the stages that
  an action went through before people are read off its whole history and its status, so a review
  that follows others counts (`OneActionMoves`, `TransitionReviews`): an approval never follows a
  rejection, a rejection may follow an approval or a failed execution, and no method takes it back. Every
  method but enqueue and review maps to a stutter (`QueueStepKinds` sorts the methods by what they write). `HumanGate`, `NoBlindRetry` and
  `RollbackFollowsSuccess` speak of positions in a history; `Answered` and `Undoing` are the
  strengthenings that survive an append.
- **Write path.** `QueueRefinement` shows each step of `Writeback` to be a step of the queue
  or none, so what is proved of the queue holds of the composition. `BaseInv` types the
  workers and ties what each holds to its step; `AheadInv` adds that a worker about to send
  has its own intent in queue and log; `OnceInv` adds that an intent being sent is nobody
  else's and unused. They give `WriteAhead`, `AuditBehindQueue`, `AtMostOnce` and, step by
  step, `PromiseKept`: the refinement of `ControlledWrite`. `EffectInv` goes on to what the writes
  did: keys exist (`KeysExist`), what each status and snapshot tells of the mailbox (`StatusesTold`),
  what a worker knows at each step from its own reads (`WorkersKnow`), and that each request and
  each version does what its kind of intent is for (`RequestsSound`). `SucceededWasApplied`,
  `RolledBackWasRestored`, `WritesAsPreviewed`, `RollbackUndoesItsOwn` and `KeepsWhatItRead` follow. `ReasonsAgree`, that
  until an action has a rollback snapshot one worker at most is at its rollback and from then
  on all give its reason, yields `ReasonIsKept`: the reason of each executor, and of the snapshot it replaces. `AbandonedForGood`, theorem only, shows a limit: a
  claim whose worker ended before its verdict is never taken over (`ExecutionMoves` and
  `ClaimedMoves`: only the claim's own worker moves such an action), so the action stays.
- **Scheduler and console.** `ServiceInv` is types, honest lock and pid. `WebImplementsService`
  lets it carry over to the console. `WebInv` adds that the manager's lock spans a whole start or stop
  request (`MutexSpansRequest`) and that a launch finds no thread (`StartFindsNoThread`); `FlagsAreTrue`
  and `NoStartOverAnEnding` follow, for any number of requests. `BackoffSequence` compares with a recursive function; its two
  equations (`DoubledDefined`) come from the well-foundedness of `<` without an induction rule, and
  the two ways the code and the property cut the delay agree below the cap of the exponent
  (`DelayDoubles`). `StopComesNearer` and `JoinIsSafe` are the safety cores of `StopIsHonoured` and
  `ShutdownEnds`: `Remaining` is a rank that each step of a stopping runner lowers and nothing
  raises, and a closing server waits with the manager's lock free, for a thread that was asked to
  stop. With the fairness of those steps, which TLC has and the provers lack, they make the liveness.
- **Triage.** `TypeInv` types the pass by its step; `Provenance` says where each result came
  from: it is the rules' result for its message, or the fusion of that with an answer that was
  usable. From lemmas about `Fuse` (what happens to priority, deadline, review and confidence)
  follow `RulesAreAFloor` and `DeparturesAreReviewed`, for every rule table, policy and answer;
  `MarginCoversFlips` follows from the definition of the margin, by cases on the thresholds.
  `Account` says that the results so far are in the order of their messages, one for each of
  those done that is valid, and `Stops` that what was asked, fused and failed is about those, and
  that after a failure with `stop_on_llm_failure` no message is pending: `EveryMessageAccounted`.
- **Notifications.** `IInv` adds to the types that a batch belongs to an active scheduler,
  that its claims are the pending records of the ledger, that a delivery that counts has been shown, and
  the same of every backup: that is what a restore needs. `Paid` says that the attempts in the ledger,
  with `RetryLimit` for each restore, pay for what was shown and for the one show that an
  open claim may still make. `LedgerIsHonest` and `RepeatsBounded` follow, for any number of
  messages, analyses, crashes and restores.
- **Workflow.** `FlowInv` types what a run holds by its step; `TrailInv` adds that a run about
  to log has queued and one about to record has logged, which needs no assumption on
  concurrency. With `OneAtATime`, `AloneInv` says which loaded messages are settled at each
  step and that each analysis row was computed from its own content; it gives
  `CompletedLeavesNothing`. `ReadyInv`, that a run about to queue has
  saved what it proposes, gives `ProposedWhenComplete`, and `CursorInv` gives `CursorIsCovered`: the
  copy of a round lacks nothing that the link covers, nor, unless a message was rejected,
  anything the round has listed. With two elements in `Runs` TLC finds
  `CompletedLeavesNothing` and `CursorIsCovered` violated, so the assumption is needed. That a row
  was computed from its own content is also proved for any number of runs: `UnsavedAreCurrent` says that the
  messages a run has yet to file are as it loaded them, which only another run's import can end. `MaxIsLast` (the maximum of a nonempty set of positions) is proved from the
  well-foundedness of `<`.

- **Files.** `FilesInv` says who holds which lock at which step (`Locking`), that a version
  about to be saved is that of a build or a legal review (a later rejection included) of the queue as it is now, and that the
  temporary file is that version when it is renamed (`Saving`), and that what will be appended is
  what the log lacks of the history of a saved queue (`Telling`). `StoreIsAtomic`, the refinement
  of `QueueStore`, follows step by step, as do `LogBehindQueue` and `NoLineTwice`, from lemmas on
  what an append, cut or whole, makes of a log whose last line may be open. `ReportedIsLogged`
  rests on `LoadableLogGrew`: a cut append or a broken line makes the log unreadable before an
  event is lost.

### Why the documented claims break

For four of the five violation runs a theorem says that what the run shows is the only way to break
the claim; the conditions are step formulas or constants of the model, and TLC explored
instances of the runs under them (of `concurrent_runs` 23 million states without an end).

| Claim, and the run that breaks it | Theorem | What must not happen |
|---|---|---|
| an action has one executor (`one_executor`) | `OneExecutorUnlessReconciled` | a stale claim (`~StaleClaims`), or a verdict of a reconciliation recorded under a live executor (`ReconcilesTheDead`); then each verdict is also about its own attempt (`VerdictsAreTheirOwn`) |
| what counts as current was computed from the current content (`concurrent_runs`) | `CurrentMeansAnalysedUnlessReplaced` | an import that gives other content to a message whose analysis another run has yet to save (`NoneReplaced`) |
| a message is passed over only after its proposal is queued (`skipped_message`) | `SkippedWasProposedUnlessLost` | runs at the same time (`OneAtATime`), or a run that ends between saving a complete analysis and queueing its actions (`QueuesWhatItSaved`) |
| each event is one line and the log loads (`split_note`) | `LogLoadsUnlessCutOrSplit` | a note with a line separator (`Splitting = {}`), or an append cut short (`~CutWrites`) |

Crashes, torn or late writes, errors and any number of workers are still in each of them, except
as the last column says. `OneAtATime` is needed in the third: with two runs TLC finds
`SkippedWasProposed` violated although each queues what it saved. The fifth run, `web_start`,
shows a probe that takes the lock; no theorem is stated about it.

Model-checked only: liveness (`StopIsHonoured`, `ShutdownEnds`, `DueAlertsSettle`). Liveness under
fairness, `ENABLED`, induction over data and recursive operators are out of the prover's reach.

## Known divergences

Shown by a run: `one_executor`, `web_start`, `concurrent_runs`, `skipped_message`, `split_note`
(see `findings` in PROJECT.json). Known without a run of their own:

- A category that the user sets between the preflight GET and the PATCH is overwritten: the
  PATCH carries no precondition (`docs/stage3_preflight_executor.md:28` promises to keep it).
  `WritesAsPreviewed` is about the version that the preflight read; `KeepsWhatItRead` says that
  nothing older than that read is lost.
- `docs/stage4_notifications.md` says that unchanged mail does not pop up again. The fingerprint
  in the dedupe key holds `evaluated_at`, and the content hash holds the change key and the
  categories, so InboxPilot's own write, or a forced run, makes a message alert again: in
  `Notifications` every saved analysis is an event of its own, and the properties are per event.
- A delivery left pending by a crash, or by an error between claim and mark, is never claimed
  again (`notifications/repository.py:70`), so its alert is lost: `stranded` in `Notifications`.
- An append that is cut short leaves a log that no later command can parse, so the missing
  events are not filled in by the next `actions build` (`docs/stage3_audit_log.md:90`). Cut just
  before its line end, the event loads, is skipped as present, and is destroyed by the next append.
- `docs/stage3_preflight_executor.md:49` says that a stale `executing` can still be recovered. Only
  `claim_execution` has the parameter for it (`actions/queue.py:342`) and no caller passes it; a stale
  `rollback_executing` has no such parameter at all. A crash there strands the action for good, which
  `AbandonedForGood` states and `AbandonedTheorem` proves.
- With `transition_history` at its maximum of 100 (`actions/models.py:328`), an uncertain write can
  no longer be reconciled (`docs/stage3_execution_audit_and_reconciliation.md:82` promises that it
  can): with a limit of 6 TLC finds `write_in_flight` as the last entry after one retry.
- A service marks itself stopped after it has released the lock (`service/runner.py:123`; the
  reverse of the order in `docs/stage4_local_scheduler.md:57-58`), and so may replace the row of
  one that started in between, which then works under a row that says stopped and names no
  process; `PidMatchesStatus` holds nevertheless, of each row for itself.
- `restore` probes the scheduler's lock and frees it (`observability/recovery.py:128`), so a
  scheduler may start before the replacement. On Windows that then fails, which is what
  `RestoreReplace` has; elsewhere it would put the old database under a running scheduler.
- With two runs at a time `CompletedLeavesNothing` is violated too: another run may change what
  this one has settled.
- The console may show `external` because of another request's probe, or its own thread
  (`web/agent_manager.py:193-196`).
- No review or execution updates an SQL action row, so `action_backlog`
  (`observability/repository.py:118`) counts decided actions.
- Two concurrent synchronizations can leave a delta link that covers a change which the
  dataset lacks: `CursorIsCovered` is violated with two elements in `Runs`.
- A first round cannot list removals: a message removed before it, but still in an older
  dataset, stays there after an upgrade of the query contract. `CursorIsCovered` excepts it.
- A forced rerun in which the LLM fails turns a complete analysis into an incomplete one.

## Abstractions

Messages stand for those within the window of the first round; ages are not modelled. One
analysis profile: a change of the configuration makes every row absent. The dataset the
workflow loads is the one the synchronization writes. Temporary files of the synchronization
are written whole: their content matters only once it is renamed. Timestamps, notes, error
texts, telemetry events and counters are left out. `ServiceStateRecord` keeps status, pid,
failures and delay.
HTTP status codes are three outcomes: verified, definite failure, unknown. `StateFiles` logs the
events of histories and leaves out the one that each dry run adds of its own; it has the crash of
a process but not the loss of power, which could undo a rename that was not flushed.

Not modelled: prompts, credentials and token counts of the LLM services, their offline
evaluation and `validate-llm` (a pass of `analyze_dataset` that changes nothing), authentication
(MSAL), HTML, texts of summaries, toasts and reports, queries, loading of files and policies,
log records and events, schema migrations. Of the command line, what changes state is modelled
where its state is (`Writeback`, `Service`, `Notifications`); the rest parses and prints.

## Plan

Done: the write path with its previews, the files beneath it, the scheduler, the console's
manager, the synchronization, the workflow, triage, notifications and recovery. Left, in this
order:

1. The state of SQL action rows, to say what `action_backlog` counts; a second process that
   saves analyses while the notifications run.
2. The methods of the write path in `StateFiles` (claims, marks and verdicts save and append in
   the same way), so that `Writeback` could be shown to run on these files.
