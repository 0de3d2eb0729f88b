----------------------------- MODULE Notifications -----------------------------
(***************************************************************************)
(* Local alerts and the daily summary (inbox_agent/notifications/), sent   *)
(* after each run of the scheduler and deduplicated by a ledger in the     *)
(* same SQLite database as the analyses; with backup and restore of that   *)
(* database.  One scheduler runs at a time (Service); every claim and      *)
(* every mark is one transaction, and the process may die between two.     *)
(***************************************************************************)
EXTENDS Recovery

CONSTANTS
    Messages,
    Judgements,     \* what an analysis may say: [priority, deadline]
    NoDeadline,
    Settings,       \* how alerts may be configured (desktop, summary), and how
                    \* many analyses may be saved and restores made: bounds
    SummaryHour,    \* settings.daily_summary_hour
    DeadlineWindow, \* settings.deadline_window_hours
    RetryLimit,     \* settings.retry_limit
    DayHours,       \* hours of a day
    ErrorTypes,     \* error classes or outcomes of runs that do not succeed
    MaxTime,        \* bound: hours
    MaxFaults       \* bound: crashes, database errors, restores, failed runs

ASSUME SettingsAssumption ==
    /\ Settings \subseteq [desktop : BOOLEAN, summary : BOOLEAN,
                          analyses : Nat, restores : Nat]
    /\ SummaryHour \in Nat /\ DeadlineWindow \in Nat
    /\ RetryLimit \in Nat \ {0} /\ DayHours \in Nat \ {0}
    /\ MaxTime \in Nat /\ MaxFaults \in Nat
ASSUME JudgementsAssumption ==
    /\ NoDeadline \notin Nat
    /\ Judgements \subseteq [priority : 1 .. 5, deadline : Nat \cup {NoDeadline}]

VARIABLES
    settings,   \* the configuration
    now,        \* hours passed when the last run ended
    prints,     \* fingerprints given out: one per analysis, it holds the time
    phase,      \* what process is doing: "none" between runs
    todo,       \* events of this batch not yet claimed
    claimed,    \* events claimed for this batch
    delivery,   \* "none", or how the delivery of the batch ended
    shown,      \* how often the user was shown each event
    stranded,   \* events left pending by a crash, an error or a restore
    faults

batchVars == <<phase, todo, claimed, delivery>>
vars == <<settings, database, serviceActive, recoveryVars, now, prints, batchVars,
          shown, stranded, faults>>

Prints == UNION {1 .. s.analyses : s \in Settings}
Phases == {"P1", "P2", "deadline", "failure", "summary"}
Day(t)  == t \div DayHours
Hour(t) == t % DayHours

(* A row of message_analyses and what a DigestItem keeps of it.            *)
Rows == [message : Messages, print : Nat, complete : BOOLEAN, says : Judgements]

-----------------------------------------------------------------------------
(* The ledger: a record for each dedupe_key seen.                          *)
Known(ledger, key) == key \in DOMAIN ledger

Put(ledger, key, status, attempts) ==
    [k \in DOMAIN ledger \cup {key} |->
        IF k = key THEN [status |-> status, attempts |-> attempts] ELSE ledger[k]]

(* Plausible bugs: attempts are not counted against the limit; a failed    *)
(* delivery is as final as one that succeeded.                             *)
ClaimableAlways(ledger, key) == Known(ledger, key) => ledger[key].status = "failed"

ClaimableOnce(ledger, key) == ~Known(ledger, key)

(* NotificationDeliveryRepository.claim.                                   *)
Claimable(ledger, key) ==
    Known(ledger, key) => /\ ledger[key].status = "failed"
                          /\ ledger[key].attempts < RetryLimit

Claimed(ledger, key) ==
    Put(ledger, key, "pending", IF Known(ledger, key) THEN ledger[key].attempts + 1 ELSE 1)

(* mark_delivered and mark_failed: all keys in one transaction.            *)
Marked(ledger, keys, status) ==
    [k \in DOMAIN ledger |->
        IF k \in keys THEN [ledger[k] EXCEPT !.status = status] ELSE ledger[k]]

-----------------------------------------------------------------------------
(* latest_items: the newest complete row of each message, whether or not   *)
(* it is of the content the message has now.                               *)
LatestItems ==
    LET rows == database.rows IN
    {rows[i] : i \in {j \in DOMAIN rows :
        /\ rows[j].complete
        /\ \A k \in DOMAIN rows :
              k > j /\ rows[k].complete => rows[k].message # rows[j].message}}

DeadlineItems ==
    {r \in LatestItems : /\ r.says.deadline # NoDeadline
                         /\ r.says.deadline \in now .. now + DeadlineWindow}

(* The dedupe keys.                                                        *)
PriorityKey(r)   == <<"priority_alert", r.message, r.print, r.says.priority>>
DeadlineKey(r)   == <<"deadline_alert", r.message, r.print, r.says.deadline>>
FailureKey(time, error) == <<"workflow_failure", Day(time), error>>
SummaryKey(time) == <<"daily_summary", Day(time)>>

PriorityKeys(priority) ==
    {PriorityKey(r) : r \in {q \in LatestItems : q.says.priority = priority}}
DeadlineKeys == {DeadlineKey(r) : r \in DeadlineItems}

-----------------------------------------------------------------------------
Init ==
    /\ settings \in Settings
    /\ database = [rows |-> <<>>, ledger |-> <<>>]
    /\ serviceActive = FALSE
    /\ RecoveryInit
    /\ now = 0 /\ prints = 0
    /\ phase = "none" /\ todo = {} /\ claimed = {} /\ delivery = "none"
    /\ shown = <<>> /\ stranded = {} /\ faults = 0

(* AnalysisRepository.save, by the run of the workflow that precedes       *)
(* process: a row for a new content, or the row of the content again.      *)
SaveAnalysis ==
    /\ phase = "none"
    /\ prints < settings.analyses
    /\ prints' = prints + 1
    /\ \E m \in Messages, complete \in BOOLEAN, says \in Judgements :
          LET row == [message |-> m, print |-> prints', complete |-> complete, says |-> says]
              rows == database.rows
          IN  \/ database' = [database EXCEPT !.rows = Append(rows, row)]
              \/ \E i \in DOMAIN rows :
                    /\ rows[i].message = m
                    /\ database' = [database EXCEPT !.rows[i] = row]
    /\ UNCHANGED <<settings, serviceActive, recoveryVars, now, batchVars, shown,
                   stranded, faults>>

(* The scheduler takes its lock, or leaves it between two runs.            *)
StartService ==
    /\ ~serviceActive
    /\ serviceActive' = TRUE
    /\ UNCHANGED <<settings, database, recoveryVars, now, prints, batchVars, shown,
                   stranded, faults>>

StopService ==
    /\ serviceActive
    /\ phase = "none"
    /\ serviceActive' = FALSE
    /\ UNCHANGED <<settings, database, recoveryVars, now, prints, batchVars, shown,
                   stranded, faults>>

-----------------------------------------------------------------------------
(* Each phase of process begins with its query and no claim.               *)
Begin(next, events) ==
    /\ phase' = next
    /\ todo' = events
    /\ claimed' = {}
    /\ delivery' = "none"

BeginSummary ==
    IF settings.summary /\ Hour(now') >= SummaryHour
    THEN Begin("summary", {SummaryKey(now')})
    ELSE Begin("none", {})

(* A run of the workflow ends, and process is called with the time.        *)
RunEnds ==
    /\ serviceActive
    /\ phase = "none"
    /\ now' \in now .. MaxTime

(* process on a run that succeeded.                                        *)
RunSucceeds ==
    /\ RunEnds
    /\ IF settings.desktop THEN Begin("P1", PriorityKeys(1)) ELSE BeginSummary
    /\ UNCHANGED <<settings, database, serviceActive, recoveryVars, prints, shown,
                   stranded, faults>>

(* process on a run that failed or left failures behind.                   *)
RunFails ==
    /\ RunEnds
    /\ faults < MaxFaults
    /\ faults' = faults + 1
    /\ IF settings.desktop
       THEN \E error \in ErrorTypes : Begin("failure", {FailureKey(now', error)})
       ELSE BeginSummary
    /\ UNCHANGED <<settings, database, serviceActive, recoveryVars, prints, shown,
                   stranded>>

NextPhase ==
    CASE phase = "P1" -> Begin("P2", PriorityKeys(2))
      [] phase = "P2" -> Begin("deadline", DeadlineKeys)
      [] phase \in {"deadline", "failure"} -> BeginSummary
      [] phase = "summary" -> Begin("none", {})

(* _claim_items: one transaction for each event of the batch.              *)
Claim ==
    /\ phase # "none"
    /\ \E key \in todo :
          /\ todo' = todo \ {key}
          /\ IF Claimable(database.ledger, key)
             THEN /\ database' = [database EXCEPT !.ledger = Claimed(@, key)]
                  /\ claimed' = claimed \cup {key}
             ELSE UNCHANGED <<database, claimed>>
    /\ UNCHANGED <<settings, serviceActive, recoveryVars, now, prints, phase,
                   delivery, shown, stranded, faults>>

NothingToDeliver ==
    /\ phase # "none"
    /\ todo = {}
    /\ claimed = {}
    /\ UNCHANGED now /\ NextPhase
    /\ UNCHANGED <<settings, database, serviceActive, recoveryVars, prints, shown,
                   stranded, faults>>

Count(key) == IF key \in DOMAIN shown THEN shown[key] ELSE 0

ShownOnce(keys) ==
    [k \in DOMAIN shown \cup keys |-> Count(k) + IF k \in keys THEN 1 ELSE 0]

(* One toast for the whole batch, or the summary file.  A toast may be     *)
(* rejected; one that times out may have been shown; a file that is not    *)
(* written leaves the old one.                                             *)
Deliver ==
    /\ phase # "none"
    /\ todo = {}
    /\ claimed # {}
    /\ delivery = "none"
    /\ \/ shown' = ShownOnce(claimed) /\ delivery' = "delivered"
       \/ shown' = ShownOnce(claimed) /\ delivery' = "failed" /\ phase # "summary"
       \/ UNCHANGED shown /\ delivery' = "failed"
    /\ UNCHANGED <<settings, database, serviceActive, recoveryVars, now, prints, phase,
                   todo, claimed, stranded, faults>>

(* Plausible bug: a toast that raised is marked like one that did not.     *)
MarkDelivered ==
    /\ delivery # "none"
    /\ database' = [database EXCEPT !.ledger = Marked(@, claimed, "delivered")]
    /\ UNCHANGED now /\ NextPhase
    /\ UNCHANGED <<settings, serviceActive, recoveryVars, prints, shown, stranded,
                   faults>>

Mark ==
    /\ delivery # "none"
    /\ database' = [database EXCEPT !.ledger = Marked(@, claimed, delivery)]
    /\ UNCHANGED now /\ NextPhase
    /\ UNCHANGED <<settings, serviceActive, recoveryVars, prints, shown, stranded,
                   faults>>

(* A query, a claim or a mark raises: the rest of the desktop alerts is    *)
(* dropped, the summary still comes; its own errors end process.           *)
LedgerFails ==
    /\ phase # "none"
    /\ claimed = {} \/ todo # {} \/ delivery # "none"
    /\ faults < MaxFaults
    /\ faults' = faults + 1
    /\ stranded' = stranded \cup claimed
    /\ UNCHANGED now
    /\ IF phase = "summary" THEN Begin("none", {}) ELSE BeginSummary
    /\ UNCHANGED <<settings, database, serviceActive, recoveryVars, prints, shown>>

Crash ==
    /\ serviceActive
    /\ faults < MaxFaults
    /\ faults' = faults + 1
    /\ serviceActive' = FALSE
    /\ stranded' = stranded \cup claimed
    /\ Begin("none", {})
    /\ UNCHANGED <<settings, database, recoveryVars, now, prints, shown>>

PendingOf(ledger) == {k \in DOMAIN ledger : ledger[k].status = "pending"}

(* Backup and restore of the database, and nothing else.                   *)
Recover ==
    /\ restores < settings.restores
    /\ \/ /\ Backup \/ RestoreProbe \/ RestoreSave \/ RestoreAborts
          /\ UNCHANGED <<stranded, faults>>
       \/ /\ faults < MaxFaults
          /\ faults' = faults + 1
          /\ RestoreReplace
          /\ stranded' = stranded \cup PendingOf(database'.ledger)
    /\ UNCHANGED <<settings, now, prints, batchVars, shown>>

Process == Claim \/ NothingToDeliver \/ Deliver \/ Mark

Next ==
    \/ SaveAnalysis
    \/ StartService \/ StopService
    \/ RunSucceeds \/ RunFails
    \/ Claim \/ NothingToDeliver \/ Deliver \/ Mark
    \/ LedgerFails \/ Crash
    \/ Recover

(* A step of process is taken when it can be; the scheduler is started     *)
(* again and, now and then, one of its runs succeeds.                      *)
Spec == /\ Init /\ [][Next]_vars
        /\ WF_vars(Process)
        /\ WF_vars(StartService)
        /\ SF_vars(RunSucceeds)

-----------------------------------------------------------------------------
Entries == [status : {"pending", "delivered", "failed"}, attempts : 1 .. RetryLimit]

AlertsTypeOK ==
    /\ \A value \in backups \cup {database} :
          /\ value.rows \in Seq(Rows)
          /\ \A k \in DOMAIN value.ledger : value.ledger[k] \in Entries
    /\ settings \in Settings /\ serviceActive \in BOOLEAN
    /\ restoreStep \in {"none", "probed", "saved"}
    /\ restoreStep # "none" => source[1] \in backups
    /\ restores \in 0 .. settings.restores
    /\ now \in 0 .. MaxTime
    /\ prints \in 0 .. settings.analyses
    /\ phase \in Phases \cup {"none"}
    /\ todo \cap claimed = {}
    /\ delivery \in {"none", "delivered", "failed"}
    /\ \A k \in DOMAIN shown : shown[k] \in Nat
    /\ faults \in 0 .. MaxFaults

(* The user is shown one event at most as often as it may be attempted,    *)
(* and again as often only after a restore took the ledger back            *)
(* (repository.py claim, recovery.py).                                     *)
RepeatsBounded ==
    \A k \in DOMAIN shown : shown[k] <= RetryLimit * (1 + restores)

(* What the ledger calls delivered was shown; what it calls pending is     *)
(* being delivered, or was left behind by a crash, an error or a restore   *)
(* (repository.py claim, manager.py _deliver).                             *)
LedgerIsHonest ==
    \A k \in DOMAIN database.ledger :
        CASE database.ledger[k].status = "delivered" -> Count(k) > 0
          [] database.ledger[k].status = "pending"   -> k \in claimed \cup stranded
          [] OTHER -> k \notin claimed

DueKeys == PriorityKeys(1) \cup PriorityKeys(2) \cup DeadlineKeys

(* Delivered, or tried as often as allowed.                                *)
Settled(key) ==
    /\ Known(database.ledger, key)
    /\ \/ database.ledger[key].status = "delivered"
       \/ /\ database.ledger[key].status = "failed"
          /\ database.ledger[key].attempts >= RetryLimit

(* An alert that stays due is delivered or given up, whatever fails and    *)
(* however often, unless it was stranded (manager.py process).             *)
DueAlertsSettle ==
    settings.desktop =>
        \A m \in Messages, p \in Prints :
            LET Due == {k \in DueKeys : k[2] = m /\ k[3] = p} IN
            (Due # {}) ~> \A k \in Due : Settled(k) \/ k \in stranded
=============================================================================
