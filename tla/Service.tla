------------------------------- MODULE Service -------------------------------
(***************************************************************************)
(* The local scheduler (inbox_agent/service/runner.py) and its status      *)
(* probe (status.py): processes that run the workflow under one operating- *)
(* system lock and keep one state row in SQLite.  Reading the row and      *)
(* replacing it are two transactions, so two steps here.                   *)
(***************************************************************************)
EXTENDS Naturals

CONSTANTS
    Runners,        \* commands and threads that run the scheduler
    Probers,        \* commands and requests that ask whether it is active
    NoOne,          \* the lock is free, or the pid is None
    NoRow,          \* the state row does not exist
    Interval,       \* interval_minutes
    MaxBackoff,     \* max_backoff_minutes
    RunImmediately, \* settings.run_immediately
    MaxFailures     \* bound: consecutive failures

ASSUME RunnersAssumption == Runners \cap Probers = {} /\ NoOne \notin Runners \cup Probers
ASSUME IntervalAssumption ==
    Interval \in Nat \ {0} /\ MaxBackoff \in Nat /\ Interval <= MaxBackoff
(* ServiceSettings: the maximum is at most a week, far below the cap that   *)
(* _retry_delay puts on the exponent.                                      *)
ASSUME CapAssumption == MaxBackoff <= Interval * 2 ^ 20
(* Facts of arithmetic, evaluated by TLC: the provers do not know powers.   *)
ASSUME PowerAssumption ==
    /\ 2 ^ 0 = 1
    /\ \A n \in 0 .. 20 : 2 ^ n \in Nat /\ 2 ^ (n + 1) = 2 * 2 ^ n
ASSUME RunImmediatelyAssumption == RunImmediately \in BOOLEAN
ASSUME MaxFailuresAssumption == MaxFailures \in Nat

VARIABLES
    lock,           \* who holds the scheduler lock
    row,            \* the service state row
    pc,             \* per runner: next step
    once,           \* whether it is a run-once
    prev,           \* the row it read last
    stop,           \* _stop_event
    report          \* per prober: what its probe found

runnerVars  == <<pc, once, prev, stop>>
serviceVars == <<lock, row, runnerVars, report>>

RowStatuses == {"running", "sleeping", "backoff", "idle", "stopped"}
Rows == [ status : RowStatuses, pid : Runners \cup {NoOne},
          failures : Nat, delay : 0 .. MaxBackoff ]

ASSUME NoRowAssumption == NoRow \notin Rows

Steps == {"idle", "acquire", "refused", "start_get", "start_save", "delay_get",
          "delay_save", "run_get", "run_save", "workflow", "wait", "release",
          "stop_get", "stop_save"}
Locked == {"start_get", "start_save", "delay_get", "delay_save", "run_get",
           "run_save", "workflow", "wait", "release"}

Failures(r) == IF prev[r] = NoRow THEN 0 ELSE prev[r].failures

Smaller(m, n) == IF m < n THEN m ELSE n

(* Plausible bug: the first failure already doubles the interval.          *)
RetryDelayDoubled(failures) ==
    Smaller(Interval * 2 ^ Smaller(failures, 20), MaxBackoff)

RetryDelay(failures) ==
    Smaller(Interval * 2 ^ Smaller(IF failures = 0 THEN 0 ELSE failures - 1, 20),
            MaxBackoff)

ServiceInit ==
    /\ lock = NoOne
    /\ row = NoRow
    /\ pc = [r \in Runners |-> "idle"]
    /\ once = [r \in Runners |-> FALSE]
    /\ prev = [r \in Runners |-> NoRow]
    /\ stop = [r \in Runners |-> FALSE]
    /\ report = [p \in Probers |-> "none"]

-----------------------------------------------------------------------------
Goto(r, step) == pc' = [pc EXCEPT ![r] = step]

(* The process or thread ends; the next one has a stop event of its own.   *)
Exit(r) ==
    /\ Goto(r, "idle")
    /\ once' = [once EXCEPT ![r] = FALSE]
    /\ prev' = [prev EXCEPT ![r] = NoRow]
    /\ stop' = [stop EXCEPT ![r] = FALSE]

Start(r, single) ==
    /\ pc[r] = "idle"
    /\ Goto(r, "acquire")
    /\ once' = [once EXCEPT ![r] = single]
    /\ UNCHANGED <<lock, row, prev, stop, report>>

(* ActionFileLock with timeout_seconds=0: one attempt.                     *)
Acquire(r) ==
    /\ pc[r] = "acquire"
    /\ lock = NoOne
    /\ lock' = r
    /\ Goto(r, IF once[r] THEN "run_get" ELSE "start_get")
    /\ UNCHANGED <<row, once, prev, stop, report>>

(* ServiceAlreadyRunningError.                                             *)
Refuse(r) ==
    /\ pc[r] = "acquire"
    /\ lock # NoOne
    /\ Goto(r, "refused")
    /\ UNCHANGED <<lock, row, once, prev, stop, report>>

LeaveRefused(r) ==
    /\ pc[r] = "refused"
    /\ Exit(r)
    /\ UNCHANGED <<lock, row, report>>

(* repository.get, at the start of each of the methods that save.          *)
Reads == { <<"start_get", "start_save">>, <<"delay_get", "delay_save">>,
           <<"run_get", "run_save">>, <<"stop_get", "stop_save">> }

Get(r) ==
    /\ \E step \in Steps : <<pc[r], step>> \in Reads /\ Goto(r, step)
    /\ prev' = [prev EXCEPT ![r] = row]
    /\ UNCHANGED <<lock, row, once, stop, report>>

Save(status, pid, failures, delay) ==
    row' = [status |-> status, pid |-> pid, failures |-> failures, delay |-> delay]

(* The test of the while loop.                                             *)
NextRound(r) == Goto(r, IF stop[r] THEN "release" ELSE "run_get")

MarkStarted(r) ==
    /\ pc[r] = "start_save"
    /\ Save("running", r, Failures(r), 0)
    /\ IF RunImmediately THEN NextRound(r) ELSE Goto(r, "delay_get")
    /\ UNCHANGED <<lock, once, prev, stop, report>>

(* Plausible bug: the shared helper names no process.                      *)
MarkWaitingUnnamed(r) ==
    /\ pc[r] = "delay_save"
    /\ Save("sleeping", NoOne, Failures(r), Interval)
    /\ Goto(r, "wait")
    /\ UNCHANGED <<lock, once, prev, stop, report>>

MarkWaiting(r) ==
    /\ pc[r] = "delay_save"
    /\ Save("sleeping", r, Failures(r), Interval)
    /\ Goto(r, "wait")
    /\ UNCHANGED <<lock, once, prev, stop, report>>

MarkRunning(r) ==
    /\ pc[r] = "run_save"
    /\ Save("running", r, Failures(r), 0)
    /\ Goto(r, "workflow")
    /\ UNCHANGED <<lock, once, prev, stop, report>>

(* The workflow returns a report or raises; the result is saved and the    *)
(* alerts, whose errors are swallowed, are processed.  A service may have  *)
(* been told how many runs to make.                                        *)
RunEnds(r, successful) ==
    LET failures == IF successful THEN 0 ELSE Failures(r) + 1 IN
    /\ pc[r] = "workflow"
    /\ failures <= MaxFailures
    /\ IF once[r] THEN Save("idle", NoOne, failures, 0)
       ELSE IF successful THEN Save("sleeping", r, 0, Interval)
       ELSE Save("backoff", r, failures, RetryDelay(failures))
    /\ \/ Goto(r, "release")
       \/ ~once[r] /\ Goto(r, "wait")
    /\ UNCHANGED <<lock, once, prev, stop, report>>

(* Plausible bug: the loop does not test the stop event.                   *)
WaitDeaf(r) ==
    /\ pc[r] = "wait"
    /\ Goto(r, "run_get")
    /\ UNCHANGED <<lock, row, once, prev, stop, report>>

(* The waiter returns when the delay is over, or at once when asked to stop. *)
Wait(r) ==
    /\ pc[r] = "wait"
    /\ NextRound(r)
    /\ UNCHANGED <<lock, row, once, prev, stop, report>>

(* Leaving the with statement; only a service that held the lock is marked *)
(* stopped, and only now.                                                  *)
Release(r) ==
    /\ pc[r] = "release"
    /\ lock' = NoOne
    /\ IF once[r] THEN Exit(r)
       ELSE Goto(r, "stop_get") /\ UNCHANGED <<once, prev, stop>>
    /\ UNCHANGED <<row, report>>

MarkStopped(r) ==
    /\ pc[r] = "stop_save"
    /\ IF prev[r] = NoRow THEN UNCHANGED row
       ELSE Save("stopped", NoOne, Failures(r), 0)
    /\ Exit(r)
    /\ UNCHANGED <<lock, report>>

(* Plausible bug: an error leaves the scheduler with the lock held.         *)
RaiseLocked(r) ==
    /\ pc[r] \in Locked
    /\ Goto(r, "stop_get")
    /\ UNCHANGED <<lock, row, once, prev, stop, report>>

(* A database error, or Ctrl+C in the terminal: the lock is released and a *)
(* service still tries to mark itself stopped.                             *)
Raise(r) ==
    /\ \/ pc[r] \in Locked /\ Goto(r, "release") /\ UNCHANGED <<once, prev, stop>>
       \/ pc[r] \in {"stop_get", "stop_save"} /\ Exit(r)
    /\ UNCHANGED <<lock, row, report>>

(* The operating system frees the lock of a process that dies.             *)
Crash(r) ==
    /\ pc[r] # "idle"
    /\ Exit(r)
    /\ lock' = IF lock = r THEN NoOne ELSE lock
    /\ UNCHANGED <<row, report>>

RequestStop(r) ==
    /\ pc[r] # "idle"
    /\ ~once[r]
    /\ stop' = [stop EXCEPT ![r] = TRUE]
    /\ UNCHANGED <<lock, row, pc, once, prev, report>>

-----------------------------------------------------------------------------
(* service_is_active: the probe takes the lock when it is free.            *)

ProbeFree(p) ==
    /\ report[p] = "none"
    /\ lock = NoOne
    /\ lock' = p
    /\ report' = [report EXCEPT ![p] = "inactive"]
    /\ UNCHANGED <<row, runnerVars>>

ProbeBusy(p) ==
    /\ report[p] = "none"
    /\ lock # NoOne
    /\ report' = [report EXCEPT ![p] = "active"]
    /\ UNCHANGED <<lock, row, runnerVars>>

ProbeEnds(p) ==
    /\ lock = p
    /\ lock' = NoOne
    /\ UNCHANGED <<row, runnerVars, report>>

(* The caller has used the report.                                         *)
Dismiss(p) ==
    /\ report[p] # "none"
    /\ lock # p
    /\ report' = [report EXCEPT ![p] = "none"]
    /\ UNCHANGED <<lock, row, runnerVars>>

-----------------------------------------------------------------------------
(* What a runner does by itself, and what happens to it.                   *)
Step(r) ==
    \/ Acquire(r) \/ Refuse(r) \/ LeaveRefused(r) \/ Get(r)
    \/ MarkStarted(r) \/ MarkWaiting(r) \/ MarkRunning(r)
    \/ \E successful \in BOOLEAN : RunEnds(r, successful)
    \/ Wait(r) \/ Release(r) \/ MarkStopped(r)

Mishap(r) == Raise(r) \/ Crash(r)

Probe(p) == ProbeFree(p) \/ ProbeBusy(p) \/ ProbeEnds(p) \/ Dismiss(p)

ServiceNext ==
    \/ \E r \in Runners :
          \/ \E single \in BOOLEAN : Start(r, single)
          \/ Step(r) \/ Mishap(r) \/ RequestStop(r)
    \/ \E p \in Probers : Probe(p)

(* Processes are scheduled, and the workflow's requests time out.          *)
ServiceSpec ==
    /\ ServiceInit /\ [][ServiceNext]_serviceVars
    /\ \A r \in Runners : WF_serviceVars(Step(r))

-----------------------------------------------------------------------------
ServiceTypeOK ==
    /\ lock \in Runners \cup Probers \cup {NoOne}
    /\ row \in Rows \cup {NoRow}
    /\ pc \in [Runners -> Steps]
    /\ once \in [Runners -> BOOLEAN]
    /\ prev \in [Runners -> Rows \cup {NoRow}]
    /\ stop \in [Runners -> BOOLEAN]
    /\ report \in [Probers -> {"none", "active", "inactive"}]

(* Only the holder of the lock reads mail, analyses and queues actions, and *)
(* no one holds the lock without a step that gives it back: this survives  *)
(* probes, errors, crashes and restarts in any order.                      *)
LockIsHonest ==
    /\ \A r \in Runners : pc[r] \in Locked <=> lock = r
    /\ \A p \in Probers : lock = p => report[p] = "inactive"

(* stage4_local_scheduler.md: the n-th failure in a row waits for interval *)
(* times 2^(n-1), and never longer than the maximum.                       *)
Doubled[n \in Nat] == IF n = 0 THEN Interval ELSE 2 * Doubled[n - 1]
BackoffSequence ==
    row # NoRow /\ row.status = "backoff" =>
        /\ row.failures > 0
        /\ row.delay = Smaller(Doubled[row.failures - 1], MaxBackoff)

(* A row that tells of a live process names it; a row that tells of none   *)
(* does not, whoever wrote it and whoever wrote before.                    *)
PidMatchesStatus ==
    row # NoRow => (row.status \in {"idle", "stopped"} <=> row.pid = NoOne)

(* A service that is asked to stop does so, whatever it is doing then: its *)
(* stop is neither lost at the start nor while it sleeps or works.         *)
StopIsHonoured == \A r \in Runners : stop[r] ~> pc[r] = "idle"

(* How many steps a runner that was asked to stop may still take.          *)
Remaining ==
    [ step \in Steps |->
        CASE step = "acquire"                    -> 9
          [] step = "start_get"                  -> 8
          [] step = "start_save"                 -> 7
          [] step \in {"delay_get", "run_get"}   -> 6
          [] step \in {"delay_save", "run_save"} -> 5
          [] step = "workflow"                   -> 4
          [] step = "wait"                       -> 3
          [] step = "release"                    -> 2
          [] step = "stop_get"                   -> 1
          [] OTHER                               -> 0 ]

(* A runner that was asked to stop never forgets it before its end, starts *)
(* no other round, and comes nearer to its end with each step of its own;  *)
(* no error, probe or other scheduler takes it back.                       *)
StopComesNearer ==
    [][\A r \in Runners :
          stop[r] =>
            /\ pc'[r] = "idle" \/ stop'[r]
            /\ pc'[r] = "idle" \/ Remaining[pc'[r]] <= Remaining[pc[r]]
            /\ Step(r) => pc'[r] = "idle" \/ Remaining[pc'[r]] < Remaining[pc[r]]
      ]_serviceVars
=============================================================================
