--------------------------- MODULE NotificationProofs ---------------------------
(***************************************************************************)
(* Proofs about the delivery ledger of notifications: its types, that what *)
(* it says is true, and that the repeats of one event are bounded.  The    *)
(* inductive invariant adds to them that a batch belongs to an active      *)
(* scheduler, that its claims are the pending records, that the copies of  *)
(* the ledger are as honest as the ledger, and what each attempt has paid. *)
(***************************************************************************)
EXTENDS Notifications, TLAPS

Fields == \A value \in backups \cup {database} : DOMAIN value = {"rows", "ledger"}

Control ==
    /\ phase = "none" => todo = {} /\ delivery = "none"
    /\ ~serviceActive => phase = "none"
    /\ delivery # "none" => todo = {}
    /\ phase = "none" => claimed = {}
    /\ \A k \in claimed : /\ k \in DOMAIN database.ledger
                          /\ database.ledger[k].status = "pending"

Backed ==
    /\ delivery = "delivered" => \A k \in claimed : Count(k) > 0
    /\ \A copy \in backups : \A k \in DOMAIN copy.ledger :
          copy.ledger[k].status = "delivered" => Count(k) > 0

Attempts(k) == IF Known(database.ledger, k) THEN database.ledger[k].attempts ELSE 0

Owed(k) == IF k \in claimed /\ delivery = "none" THEN 1 ELSE 0

Paid == \A k \in DOMAIN shown \cup claimed :
            Count(k) + Owed(k) <= RetryLimit * restores + Attempts(k)

IInv == AlertsTypeOK /\ Fields /\ Control /\ LedgerIsHonest /\ Backed /\ Paid

-----------------------------------------------------------------------------
(* A phase begins without claims.                                          *)
Fresh ==
    /\ phase' \in Phases \cup {"none"}
    /\ claimed' = {}
    /\ delivery' = "none"
    /\ phase' = "none" => todo' = {}

(* Both ways for a phase to begin are fresh.                               *)
LEMMA SummaryIsFresh ==
    BeginSummary => Fresh
BY DEF BeginSummary, Begin, Fresh, Phases

LEMMA NextIsFresh ==
    ASSUME phase \in Phases, NextPhase PROVE Fresh
<1>1. CASE phase = "P1"
  BY <1>1 DEF NextPhase, Begin, Fresh, Phases
<1>2. CASE phase = "P2"
  BY <1>2 DEF NextPhase, Begin, Fresh, Phases
<1>3. CASE phase \in {"deadline", "failure"}
  <2>1. BeginSummary
    BY <1>3 DEF NextPhase
  <2> QED BY <2>1, SummaryIsFresh
<1>4. CASE phase = "summary"
  BY <1>4 DEF NextPhase, Begin, Fresh, Phases
<1> QED BY <1>1, <1>2, <1>3, <1>4 DEF Phases

(* Copies are only added.                                                  *)
LEMMA PublishedCopies ==
    ASSUME NEW copy
    PROVE  /\ backups \subseteq Published(copy)
           /\ Published(copy) \subseteq backups \cup {copy}
BY DEF Published

(* A count is a natural number.                                            *)
LEMMA CountType ==
    ASSUME AlertsTypeOK PROVE \A k : Count(k) \in Nat
BY DEF AlertsTypeOK, Count

(* What the ledger says, one status at a time.                             *)
LEMMA HonestByStatus ==
    ASSUME AlertsTypeOK
    PROVE  LedgerIsHonest <=>
             \A k \in DOMAIN database.ledger :
               /\ database.ledger[k].status = "delivered" => Count(k) > 0
               /\ database.ledger[k].status = "pending" => k \in claimed \cup stranded
               /\ database.ledger[k].status = "failed" => k \notin claimed
<1>1. \A k \in DOMAIN database.ledger :
        database.ledger[k].status \in {"pending", "delivered", "failed"}
  BY DEF AlertsTypeOK, Entries
<1> QED BY <1>1 DEF LedgerIsHonest

LEMMA HonestByStatusNext ==
    ASSUME AlertsTypeOK'
    PROVE  LedgerIsHonest' <=>
             \A k \in DOMAIN database'.ledger :
               /\ database'.ledger[k].status = "delivered" => Count(k)' > 0
               /\ database'.ledger[k].status = "pending" => k \in claimed' \cup stranded'
               /\ database'.ledger[k].status = "failed" => k \notin claimed'
<1>1. \A k \in DOMAIN database'.ledger :
        database'.ledger[k].status \in {"pending", "delivered", "failed"}
  BY DEF AlertsTypeOK, Entries
<1> QED BY <1>1 DEF LedgerIsHonest

-----------------------------------------------------------------------------
(* The types of the stored content, and the rest of the types.             *)
StoredOK(value) ==
    /\ value.rows \in Seq(Rows)
    /\ \A k \in DOMAIN value.ledger : value.ledger[k] \in Entries

RestOK ==
    /\ settings \in Settings /\ serviceActive \in BOOLEAN
    /\ restoreStep \in {"none", "probed", "saved"}
    /\ restoreStep # "none" => source[1] \in backups
    /\ restores \in 0 .. settings.restores
    /\ now \in 0 .. MaxTime
    /\ prints \in 0 .. settings.analyses
    /\ phase \in Phases \cup {"none"}
    /\ todo \cap claimed = {}
    /\ delivery \in {"none", "delivered", "failed"}
    /\ \A k \in DOMAIN shown : shown[k] \in Nat
    /\ faults \in 0 .. MaxFaults

LEMMA TypeByParts ==
    AlertsTypeOK <=> (\A value \in backups \cup {database} : StoredOK(value)) /\ RestOK
BY DEF AlertsTypeOK, StoredOK, RestOK

LEMMA TypeByPartsNext ==
    AlertsTypeOK' <=> (\A value \in backups' \cup {database'} : StoredOK(value)) /\ RestOK'
BY DEF AlertsTypeOK, StoredOK, RestOK

LEMMA InitHolds == Init => IInv
<1> SUFFICES ASSUME Init PROVE IInv
  OBVIOUS
<1> USE SettingsAssumption, MaxBackupsAssumption
<1>1. /\ database = [rows |-> <<>>, ledger |-> <<>>]
      /\ DOMAIN database.ledger = {} /\ backups = {} /\ shown = <<>> /\ DOMAIN shown = {}
      /\ claimed = {} /\ todo = {} /\ phase = "none" /\ delivery = "none"
  BY DEF Init, RecoveryInit
<1>2. AlertsTypeOK
  <2>1. settings \in Settings /\ settings.analyses \in Nat /\ settings.restores \in Nat
    BY DEF Init
  <2>2. database.rows \in Seq(Rows)
    BY <1>1
  <2>3. \A value \in backups \cup {database} : StoredOK(value)
    BY <1>1, <2>2 DEF StoredOK
  <2>4. RestOK
    <3>1. \A k \in DOMAIN shown : shown[k] \in Nat
      BY <1>1
    <3>2. /\ restores = 0 /\ now = 0 /\ prints = 0 /\ faults = 0
          /\ serviceActive \in BOOLEAN /\ restoreStep = "none"
      BY DEF Init, RecoveryInit
    <3>3. 0 \in 0 .. settings.restores /\ 0 \in 0 .. MaxTime /\ 0 \in 0 .. settings.analyses
          /\ 0 \in 0 .. MaxFaults
      BY <2>1
    <3>4. todo \cap claimed = {}
      BY <1>1
    <3> QED BY <1>1, <2>1, <3>1, <3>2, <3>3, <3>4 DEF RestOK
  <2> QED BY <2>3, <2>4, TypeByParts
<1>3. Fields /\ Control /\ LedgerIsHonest /\ Backed /\ Paid
  BY <1>1 DEF Fields, Control, LedgerIsHonest, Backed, Paid
<1> QED BY <1>2, <1>3 DEF IInv

-----------------------------------------------------------------------------
(* A step that leaves the ledger, the batch and what was shown alone.      *)
LEMMA QuietStep ==
    ASSUME IInv, AlertsTypeOK',
           database'.ledger = database.ledger, DOMAIN database' = DOMAIN database,
           backups' \subseteq backups \cup {database},
           restores' = restores, UNCHANGED <<batchVars, shown, stranded>>,
           ~serviceActive' => phase = "none"
    PROVE  IInv'
<1> USE DEF IInv, batchVars
<1>1. Fields'
  BY DEF Fields
<1>2. Control'
  BY DEF Control
<1>3. \A k : Count(k)' = Count(k)
  BY DEF Count
<1>4. LedgerIsHonest'
  BY <1>3, HonestByStatus, HonestByStatusNext
<1>5. Backed'
  <2>1. \A k \in DOMAIN database.ledger :
          database.ledger[k].status = "delivered" => Count(k) > 0
    BY HonestByStatus
  <2> QED BY <1>3, <2>1 DEF Backed
<1>6. Paid'
  BY <1>3 DEF Paid, Attempts, Known, Owed
<1> QED BY <1>1, <1>2, <1>4, <1>5, <1>6

(* A phase begins, and the claims of the one before it are marked, none,   *)
(* or stranded.                                                            *)
LEMMA FreshStep ==
    ASSUME IInv, AlertsTypeOK', Fresh,
           UNCHANGED <<database, backups, restores, shown>>,
           stranded \cup claimed \subseteq stranded',
           ~serviceActive' => phase' = "none"
    PROVE  IInv'
<1> USE DEF IInv, Fresh
<1>1. Fields'
  BY DEF Fields
<1>2. Control'
  BY DEF Control
<1>3. \A k : Count(k)' = Count(k)
  BY DEF Count
<1>4. LedgerIsHonest'
  BY <1>3, HonestByStatus, HonestByStatusNext
<1>5. Backed'
  BY <1>3 DEF Backed
<1>6. Paid'
  <2>1. \A k : Count(k) \in Nat /\ Owed(k) \in 0 .. 1
    BY CountType DEF Owed
  <2>2. \A k : Attempts(k)' = Attempts(k) /\ Owed(k)' = 0
    BY DEF Attempts, Known, Owed
  <2>3. \A k \in DOMAIN shown : Count(k) <= RetryLimit * restores + Attempts(k)
    <3> SUFFICES ASSUME NEW k \in DOMAIN shown
                 PROVE  Count(k) <= RetryLimit * restores + Attempts(k)
      OBVIOUS
    <3>1. Attempts(k) \in Nat
      BY DEF AlertsTypeOK, Attempts, Known, Entries
    <3>2. RetryLimit * restores \in Nat
      BY SettingsAssumption DEF AlertsTypeOK
    <3> QED BY <2>1, <3>1, <3>2 DEF Paid
  <2> QED BY <1>3, <2>1, <2>2, <2>3 DEF Paid
<1> QED BY <1>1, <1>2, <1>4, <1>5, <1>6

-----------------------------------------------------------------------------
(* What a claim does to the ledger.                                        *)
ClaimRecorded(old, new, key) ==
    /\ DOMAIN new = DOMAIN old \cup {key}
    /\ new[key].status = "pending"
    /\ new[key].attempts = IF key \in DOMAIN old THEN old[key].attempts + 1 ELSE 1
    /\ \A k \in DOMAIN old : k # key => new[k] = old[k]
    /\ key \in DOMAIN old => old[key].status = "failed"

LEMMA ClaimedLedger ==
    ASSUME NEW ledger, NEW key, Claimable(ledger, key),
           \A k \in DOMAIN ledger : ledger[k] \in Entries
    PROVE  /\ ClaimRecorded(ledger, Claimed(ledger, key), key)
           /\ \A k \in DOMAIN Claimed(ledger, key) : Claimed(ledger, key)[k] \in Entries
<1> DEFINE n == IF key \in DOMAIN ledger THEN ledger[key].attempts + 1 ELSE 1
           entry == [status |-> "pending", attempts |-> n]
<1>1. n \in 1 .. RetryLimit
  BY SettingsAssumption DEF Claimable, Known, Entries
<1>2. entry \in Entries
  BY <1>1 DEF Entries
<1>3. Claimed(ledger, key) = [k \in DOMAIN ledger \cup {key} |->
                                IF k = key THEN entry ELSE ledger[k]]
  BY DEF Claimed, Put, Known
<1>4. key \in DOMAIN ledger => ledger[key].status = "failed"
  BY DEF Claimable, Known
<1>5. entry.status = "pending" /\ entry.attempts = n
  OBVIOUS
<1> HIDE DEF entry
<1> QED BY <1>2, <1>3, <1>4, <1>5 DEF ClaimRecorded

(* What a mark does to the ledger.                                         *)
LEMMA MarkedLedger ==
    ASSUME NEW ledger, NEW keys, NEW status \in {"delivered", "failed"},
           \A k \in DOMAIN ledger : ledger[k] \in Entries
    PROVE  /\ DOMAIN Marked(ledger, keys, status) = DOMAIN ledger
           /\ \A k \in DOMAIN ledger :
                /\ Marked(ledger, keys, status)[k] \in Entries
                /\ Marked(ledger, keys, status)[k].attempts = ledger[k].attempts
                /\ k \in keys => Marked(ledger, keys, status)[k].status = status
                /\ k \notin keys => Marked(ledger, keys, status)[k] = ledger[k]
<1>1. \A k \in DOMAIN ledger :
        Marked(ledger, keys, status)[k]
          = IF k \in keys THEN [ledger[k] EXCEPT !.status = status] ELSE ledger[k]
  BY DEF Marked
<1>2. \A e \in Entries : /\ [e EXCEPT !.status = status] \in Entries
                        /\ [e EXCEPT !.status = status].status = status
                        /\ [e EXCEPT !.status = status].attempts = e.attempts
  BY DEF Entries
<1>3. DOMAIN Marked(ledger, keys, status) = DOMAIN ledger
  BY DEF Marked
<1> QED BY <1>1, <1>2, <1>3

-----------------------------------------------------------------------------
(* The types, action by action.                                            *)
LEMMA TypeStep ==
    ASSUME IInv, Next PROVE AlertsTypeOK'
<1> USE SettingsAssumption, JudgementsAssumption
<1>1. /\ \A value \in backups \cup {database} : StoredOK(value)
      /\ RestOK
      /\ DOMAIN database = {"rows", "ledger"}
      /\ settings \in Settings
  BY TypeByParts DEF IInv, Fields, RestOK
<1>2. settings.analyses \in Nat /\ settings.restores \in Nat
  BY <1>1
<1>3. ASSUME Fresh, UNCHANGED <<settings, database, recoveryVars, prints, shown>>,
             serviceActive' \in BOOLEAN, now' \in 0 .. MaxTime, faults' \in 0 .. MaxFaults
      PROVE  AlertsTypeOK'
  BY <1>1, <1>3, TypeByPartsNext DEF Fresh, RestOK, recoveryVars
<1>4. CASE SaveAnalysis
  <2>1. PICK m \in Messages, complete \in BOOLEAN, says \in Judgements :
          LET row == [message |-> m, print |-> prints', complete |-> complete, says |-> says]
              rows == database.rows
          IN  \/ database' = [database EXCEPT !.rows = Append(rows, row)]
              \/ \E i \in DOMAIN rows :
                    /\ rows[i].message = m
                    /\ database' = [database EXCEPT !.rows[i] = row]
    BY <1>4 DEF SaveAnalysis
  <2> DEFINE row == [message |-> m, print |-> prints', complete |-> complete, says |-> says]
  <2>2. prints' \in 0 .. settings.analyses
    BY <1>1, <1>2, <1>4 DEF SaveAnalysis, RestOK
  <2>3. row \in Rows
    BY <2>2 DEF Rows
  <2>4. database.rows \in Seq(Rows)
    BY <1>1 DEF StoredOK
  <2>5. database'.ledger = database.ledger
    BY <1>1, <2>1
  <2>6. database'.rows \in Seq(Rows)
    <3> HIDE DEF row
    <3>1. CASE database' = [database EXCEPT !.rows = Append(database.rows, row)]
      BY <1>1, <2>3, <2>4, <3>1
    <3>2. CASE \E i \in DOMAIN database.rows : database' = [database EXCEPT !.rows[i] = row]
      <4>1. PICK i \in DOMAIN database.rows : database' = [database EXCEPT !.rows[i] = row]
        BY <3>2
      <4>2. database'.rows = [database.rows EXCEPT ![i] = row]
        BY <1>1, <4>1
      <4> QED BY <2>3, <2>4, <4>1, <4>2
    <3> QED BY <2>1, <3>1, <3>2 DEF row
  <2>7. StoredOK(database')
    BY <1>1, <2>5, <2>6 DEF StoredOK
  <2>8. RestOK'
    BY <1>1, <1>4, <2>2 DEF SaveAnalysis, RestOK, recoveryVars, batchVars
  <2> QED BY <1>1, <1>4, <2>7, <2>8, TypeByPartsNext DEF SaveAnalysis, recoveryVars
<1>5. CASE StartService \/ StopService
  <2>1. RestOK'
    BY <1>1, <1>5 DEF StartService, StopService, RestOK, recoveryVars, batchVars
  <2> QED BY <1>1, <1>5, <2>1, TypeByPartsNext DEF StartService, StopService, recoveryVars
<1>6. CASE RunSucceeds
  <2>1. Fresh
    BY <1>6, SummaryIsFresh DEF RunSucceeds, Begin, Fresh, Phases
  <2> QED BY <1>1, <1>3, <1>6, <2>1 DEF RunSucceeds, RunEnds, RestOK
<1>7. CASE RunFails
  <2>1. Fresh
    BY <1>7, SummaryIsFresh DEF RunFails, Begin, Fresh, Phases
  <2> QED BY <1>1, <1>3, <1>7, <2>1 DEF RunFails, RunEnds, RestOK
<1>8. CASE NothingToDeliver
  <2>1. Fresh
    BY <1>1, <1>8, NextIsFresh DEF NothingToDeliver, RestOK
  <2> QED BY <1>1, <1>3, <1>8, <2>1 DEF NothingToDeliver, RestOK
<1>9. CASE LedgerFails
  <2>1. Fresh
    BY <1>9, SummaryIsFresh DEF LedgerFails, Begin, Fresh, Phases
  <2> QED BY <1>1, <1>3, <1>9, <2>1 DEF LedgerFails, RestOK
<1>10. CASE Crash
  <2>1. Fresh
    BY <1>10 DEF Crash, Begin, Fresh, Phases
  <2>2. now' \in 0 .. MaxTime /\ faults' \in 0 .. MaxFaults
    BY <1>1, <1>10 DEF Crash, RestOK
  <2>3. /\ UNCHANGED <<settings, database, recoveryVars, prints, shown>>
        /\ serviceActive' \in BOOLEAN
    BY <1>10 DEF Crash
  <2> QED BY <1>3, <2>1, <2>2, <2>3
<1>11. CASE Claim
  <2>1. PICK key \in todo :
          /\ todo' = todo \ {key}
          /\ IF Claimable(database.ledger, key)
             THEN /\ database' = [database EXCEPT !.ledger = Claimed(@, key)]
                  /\ claimed' = claimed \cup {key}
             ELSE UNCHANGED <<database, claimed>>
    BY <1>11 DEF Claim
  <2>2. StoredOK(database')
    <3>1. CASE Claimable(database.ledger, key)
      <4>1. /\ database'.rows = database.rows
            /\ database'.ledger = Claimed(database.ledger, key)
        BY <1>1, <2>1, <3>1
      <4>2. \A k \in DOMAIN Claimed(database.ledger, key) :
              Claimed(database.ledger, key)[k] \in Entries
        BY <1>1, <3>1, ClaimedLedger DEF StoredOK
      <4> QED BY <1>1, <4>1, <4>2 DEF StoredOK
    <3>2. CASE ~Claimable(database.ledger, key)
      BY <1>1, <2>1, <3>2
    <3> QED BY <3>1, <3>2
  <2>3. todo' \cap claimed' = {}
    BY <1>1, <2>1 DEF RestOK
  <2>4. RestOK'
    BY <1>1, <1>11, <2>3 DEF Claim, RestOK, recoveryVars
  <2> QED BY <1>1, <1>11, <2>2, <2>4, TypeByPartsNext DEF Claim, recoveryVars
<1>12. CASE Deliver
  <2>1. \A k \in DOMAIN shown' : shown'[k] \in Nat
    <3>1. \A k : Count(k) \in Nat
      BY CountType DEF IInv
    <3>2. \A k \in DOMAIN ShownOnce(claimed) : ShownOnce(claimed)[k] \in Nat
      BY <3>1 DEF ShownOnce
    <3> QED BY <1>1, <1>12, <3>2 DEF Deliver, RestOK
  <2>2. RestOK'
    BY <1>1, <1>12, <2>1 DEF Deliver, RestOK, recoveryVars
  <2> QED BY <1>1, <1>12, <2>2, TypeByPartsNext DEF Deliver, recoveryVars
<1>13. CASE Mark
  <2>1. Fresh /\ delivery \in {"delivered", "failed"}
    BY <1>1, <1>13, NextIsFresh DEF Mark, RestOK, IInv, Control
  <2>2. /\ database'.rows = database.rows
        /\ database'.ledger = Marked(database.ledger, claimed, delivery)
    BY <1>1, <1>13 DEF Mark
  <2>3. StoredOK(database')
    BY <1>1, <2>1, <2>2, MarkedLedger DEF StoredOK
  <2>4. RestOK'
    BY <1>1, <1>13, <2>1 DEF Mark, Fresh, RestOK, recoveryVars
  <2> QED BY <1>1, <1>13, <2>3, <2>4, TypeByPartsNext DEF Mark, recoveryVars
<1>14. CASE Recover
  <2>1. /\ backups \subseteq Published(database)
        /\ Published(database) \subseteq backups \cup {database}
    BY PublishedCopies
  <2>2. CASE Backup
    <3>1. RestOK'
      BY <1>1, <1>14, <2>1, <2>2 DEF Recover, Backup, RestOK, batchVars
    <3> QED BY <1>1, <1>14, <2>1, <2>2, <3>1, TypeByPartsNext DEF Backup
  <2>3. CASE RestoreProbe
    <3>1. RestOK'
      BY <1>1, <1>14, <2>3 DEF Recover, RestoreProbe, RestOK, batchVars
    <3> QED BY <1>1, <2>3, <3>1, TypeByPartsNext DEF RestoreProbe
  <2>4. CASE RestoreSave
    <3>1. RestOK'
      BY <1>1, <1>14, <2>1, <2>4 DEF Recover, RestoreSave, RestOK, batchVars
    <3> QED BY <1>1, <2>1, <2>4, <3>1, TypeByPartsNext DEF RestoreSave
  <2>5. CASE RestoreAborts
    <3>1. RestOK'
      BY <1>1, <1>14, <2>5 DEF Recover, RestoreAborts, RestOK, batchVars
    <3> QED BY <1>1, <2>5, <3>1, TypeByPartsNext DEF RestoreAborts
  <2>6. CASE RestoreReplace
    <3>1. database' \in backups /\ restores' \in 0 .. settings.restores
      BY <1>1, <1>2, <1>14, <2>6 DEF Recover, RestoreReplace, RestOK
    <3>2. RestOK'
      BY <1>1, <1>14, <2>6, <3>1 DEF Recover, RestoreReplace, RestOK, batchVars
    <3> QED BY <1>1, <2>6, <3>1, <3>2, TypeByPartsNext DEF RestoreReplace
  <2> QED BY <1>14, <2>2, <2>3, <2>4, <2>5, <2>6 DEF Recover
<1> QED BY <1>4, <1>5, <1>6, <1>7, <1>8, <1>9, <1>10, <1>11, <1>12, <1>13, <1>14 DEF Next

-----------------------------------------------------------------------------
LEMMA ProductType ==
    ASSUME AlertsTypeOK
    PROVE  restores \in Nat /\ RetryLimit * restores \in Nat
BY SettingsAssumption DEF AlertsTypeOK

LEMMA AttemptsType ==
    ASSUME AlertsTypeOK PROVE \A k : Attempts(k) \in 0 .. RetryLimit
BY SettingsAssumption DEF AlertsTypeOK, Attempts, Known, Entries

(* A claim counts one attempt and allows one more show.                    *)
LEMMA ClaimStep ==
    ASSUME IInv, AlertsTypeOK', Claim PROVE IInv'
<1> USE DEF IInv
<1>1. PICK key \in todo :
        /\ todo' = todo \ {key}
        /\ IF Claimable(database.ledger, key)
           THEN /\ database' = [database EXCEPT !.ledger = Claimed(@, key)]
                /\ claimed' = claimed \cup {key}
           ELSE UNCHANGED <<database, claimed>>
  BY DEF Claim
<1>2. /\ phase # "none" /\ delivery = "none" /\ serviceActive
      /\ UNCHANGED <<settings, serviceActive, recoveryVars, phase, delivery, shown, stranded>>
  BY <1>1 DEF Claim, Control
<1>3. \A k : Count(k)' = Count(k) /\ Count(k) \in Nat
  BY <1>2, CountType DEF Count
<1>4. CASE ~Claimable(database.ledger, key)
  <2>1. UNCHANGED <<database, claimed>>
    BY <1>1, <1>4
  <2>2. Fields' /\ Control'
    BY <1>1, <1>2, <2>1 DEF Fields, Control, recoveryVars
  <2>3. LedgerIsHonest'
    BY <1>2, <1>3, <2>1, HonestByStatus, HonestByStatusNext
  <2>4. Backed'
    BY <1>2, <1>3, <2>1 DEF Backed, recoveryVars
  <2>5. Paid'
    BY <1>2, <1>3, <2>1 DEF Paid, Owed, Attempts, Known, recoveryVars
  <2> QED BY <2>2, <2>3, <2>4, <2>5
<1>5. CASE Claimable(database.ledger, key)
  <2>1. /\ DOMAIN database' = DOMAIN database
        /\ database'.ledger = Claimed(database.ledger, key)
        /\ claimed' = claimed \cup {key}
    BY <1>1, <1>5 DEF Fields
  <2>2. /\ DOMAIN database'.ledger = DOMAIN database.ledger \cup {key}
        /\ database'.ledger[key].status = "pending"
        /\ database'.ledger[key].attempts
             = IF key \in DOMAIN database.ledger THEN database.ledger[key].attempts + 1 ELSE 1
        /\ \A k \in DOMAIN database.ledger :
              k # key => database'.ledger[k] = database.ledger[k]
        /\ key \in DOMAIN database.ledger => database.ledger[key].status = "failed"
    <3>1. \A k \in DOMAIN database.ledger : database.ledger[k] \in Entries
      BY DEF AlertsTypeOK
    <3>2. ClaimRecorded(database.ledger, Claimed(database.ledger, key), key)
      BY <1>5, <3>1, ClaimedLedger
    <3>3. ClaimRecorded(database.ledger, database'.ledger, key)
      BY <2>1, <3>2
    <3> QED BY <3>3 DEF ClaimRecorded
  <2>3. Fields'
    BY <1>2, <2>1 DEF Fields, recoveryVars
  <2>4. Control'
    BY <1>2, <2>1, <2>2 DEF Control
  <2>5. LedgerIsHonest'
    BY <1>2, <1>3, <2>1, <2>2, HonestByStatus, HonestByStatusNext
  <2>6. Backed'
    BY <1>2, <1>3 DEF Backed, recoveryVars
  <2>7. Paid'
    <3> SUFFICES ASSUME NEW k \in DOMAIN shown' \cup claimed'
                 PROVE  (Count(k) + Owed(k) <= RetryLimit * restores + Attempts(k))'
      BY DEF Paid
    <3>1. key \notin claimed
      BY <2>2 DEF Control
    <3>2. /\ Attempts(key)' = Attempts(key) + 1
          /\ k # key => Attempts(k)' = Attempts(k) /\ Owed(k)' = Owed(k)
          /\ Owed(key) = 0 /\ Owed(key)' = 1
      BY <1>2, <2>1, <2>2, <3>1 DEF Attempts, Known, Owed
    <3>3. Count(k) + Owed(k) <= RetryLimit * restores + Attempts(k)
      <4>1. CASE k \in DOMAIN shown \cup claimed
        BY <4>1 DEF Paid
      <4>2. CASE k \notin DOMAIN shown \cup claimed
        <5>1. Count(k) = 0 /\ Owed(k) = 0
          BY <4>2 DEF Count, Owed
        <5> QED BY <5>1, ProductType, AttemptsType, SettingsAssumption
      <4> QED BY <4>1, <4>2
    <3>4. restores' = restores
      BY <1>2 DEF recoveryVars
    <3> DEFINE paid == RetryLimit * restores
    <3>5. paid \in Nat /\ Attempts(k) \in Nat /\ Owed(k) \in 0 .. 1 /\ Count(k) \in Nat
      BY ProductType, AttemptsType, SettingsAssumption, <1>3 DEF Owed
    <3>6. Count(k) + Owed(k) <= paid + Attempts(k)
      BY <3>3
    <3> HIDE DEF paid
    <3>7. Count(k)' + Owed(k)' <= paid + Attempts(k)'
      BY <1>3, <3>2, <3>5, <3>6
    <3> QED BY <3>4, <3>7 DEF paid
  <2> QED BY <2>3, <2>4, <2>5, <2>6, <2>7
<1> QED BY <1>4, <1>5

(* A delivery shows what was claimed once, or nothing.                     *)
LEMMA DeliverStep ==
    ASSUME IInv, AlertsTypeOK', Deliver PROVE IInv'
<1> USE DEF IInv
<1>1. /\ shown' = ShownOnce(claimed) \/ shown' = shown
      /\ delivery' \in {"delivered", "failed"}
      /\ delivery' = "delivered" => shown' = ShownOnce(claimed)
      /\ phase # "none" /\ todo = {} /\ delivery = "none"
      /\ UNCHANGED <<database, serviceActive, recoveryVars, phase, todo, claimed, stranded>>
  BY DEF Deliver
<1>2. \A k : Count(k) \in Nat
  BY CountType
<1>3. shown' = ShownOnce(claimed) =>
        \A k : Count(k)' = Count(k) + IF k \in claimed THEN 1 ELSE 0
  <2> SUFFICES ASSUME shown' = ShownOnce(claimed), NEW k
               PROVE  Count(k)' = Count(k) + IF k \in claimed THEN 1 ELSE 0
    OBVIOUS
  <2>1. /\ DOMAIN shown' = DOMAIN shown \cup claimed
        /\ \A j \in DOMAIN shown \cup claimed :
              shown'[j] = Count(j) + IF j \in claimed THEN 1 ELSE 0
    BY DEF ShownOnce
  <2>2. CASE k \in DOMAIN shown \cup claimed
    BY <2>1, <2>2 DEF Count
  <2>3. CASE k \notin DOMAIN shown \cup claimed
    BY <2>1, <2>3 DEF Count
  <2> QED BY <2>2, <2>3
<1>4. shown' = shown => \A k : Count(k)' = Count(k)
  BY DEF Count
<1>5. \A k : /\ Count(k)' \in Nat
             /\ Count(k) <= Count(k)'
             /\ Count(k)' <= Count(k) + IF k \in claimed THEN 1 ELSE 0
  BY <1>1, <1>2, <1>3, <1>4
<1>6. DOMAIN shown' \subseteq DOMAIN shown \cup claimed
  BY <1>1 DEF ShownOnce
<1>7. Fields'
  BY <1>1 DEF Fields, recoveryVars
<1>8. Control'
  BY <1>1 DEF Control
<1>9. LedgerIsHonest'
  BY <1>1, <1>2, <1>5, HonestByStatus, HonestByStatusNext
<1>10. Backed'
  <2>1. delivery' = "delivered" => \A k \in claimed' : Count(k)' > 0
    BY <1>1, <1>2, <1>3
  <2> QED BY <1>1, <1>2, <1>5, <2>1 DEF Backed, recoveryVars
<1>11. Paid'
  <2> SUFFICES ASSUME NEW k \in DOMAIN shown \cup claimed
               PROVE  (Count(k) + Owed(k) <= RetryLimit * restores + Attempts(k))'
    BY <1>1, <1>6 DEF Paid
  <2> DEFINE paid == RetryLimit * restores
  <2>1. paid \in Nat /\ Attempts(k) \in Nat
    BY ProductType, AttemptsType, SettingsAssumption
  <2>2. Count(k) + Owed(k) <= paid + Attempts(k)
    BY DEF Paid
  <2>3. /\ Owed(k) = IF k \in claimed THEN 1 ELSE 0
        /\ Owed(k)' = 0 /\ Attempts(k)' = Attempts(k) /\ restores' = restores
    BY <1>1 DEF Owed, Attempts, Known, recoveryVars
  <2> HIDE DEF paid
  <2>4. Count(k)' + Owed(k)' <= paid + Attempts(k)'
    BY <1>2, <1>5, <2>1, <2>2, <2>3
  <2> QED BY <2>3, <2>4 DEF paid
<1> QED BY <1>7, <1>8, <1>9, <1>10, <1>11

(* A mark says of the claims what the delivery said.                       *)
LEMMA MarkStep ==
    ASSUME IInv, AlertsTypeOK', Mark PROVE IInv'
<1> USE DEF IInv
<1>1. /\ delivery \in {"delivered", "failed"} /\ phase \in Phases
      /\ database' = [database EXCEPT !.ledger = Marked(@, claimed, delivery)]
      /\ UNCHANGED <<serviceActive, recoveryVars, shown, stranded>>
  BY DEF Mark, Control, AlertsTypeOK
<1>2. Fresh
  BY <1>1, NextIsFresh DEF Mark
<1>3. /\ DOMAIN database' = DOMAIN database
      /\ database'.ledger = Marked(database.ledger, claimed, delivery)
  BY <1>1 DEF Fields
<1>4. /\ DOMAIN database'.ledger = DOMAIN database.ledger
      /\ \A k \in DOMAIN database.ledger :
           /\ database'.ledger[k].attempts = database.ledger[k].attempts
           /\ k \in claimed => database'.ledger[k].status = delivery
           /\ k \notin claimed => database'.ledger[k] = database.ledger[k]
  <2>1. \A k \in DOMAIN database.ledger : database.ledger[k] \in Entries
    BY DEF AlertsTypeOK
  <2> QED BY <1>1, <1>3, <2>1, MarkedLedger
<1>5. \A k : Count(k)' = Count(k) /\ Count(k) \in Nat
  BY <1>1, CountType DEF Count
<1>6. Fields'
  BY <1>1, <1>3 DEF Fields, recoveryVars
<1>7. Control'
  BY <1>1, <1>2 DEF Control, Fresh, Phases
<1>8. LedgerIsHonest'
  BY <1>1, <1>2, <1>4, <1>5, HonestByStatus, HonestByStatusNext DEF Backed, Fresh
<1>9. Backed'
  BY <1>1, <1>2, <1>5 DEF Backed, Fresh, recoveryVars
<1>10. Paid'
  <2> SUFFICES ASSUME NEW k \in DOMAIN shown
               PROVE  (Count(k) + Owed(k) <= RetryLimit * restores + Attempts(k))'
    BY <1>1, <1>2 DEF Paid, Fresh
  <2>1. Count(k) + Owed(k) <= RetryLimit * restores + Attempts(k)
    BY DEF Paid
  <2>2. /\ Owed(k) = 0 /\ Owed(k)' = 0 /\ Attempts(k)' = Attempts(k)
        /\ restores' = restores /\ Count(k)' = Count(k)
    BY <1>1, <1>2, <1>4, <1>5 DEF Owed, Attempts, Known, Fresh, recoveryVars
  <2> QED BY <2>1, <2>2
<1> QED BY <1>6, <1>7, <1>8, <1>9, <1>10

(* A restore finds no batch; it may lose every attempt, and allows as many *)
(* again.                                                                  *)
LEMMA ReplaceStep ==
    ASSUME IInv, AlertsTypeOK', RestoreReplace,
           UNCHANGED <<batchVars, shown>>,
           stranded' = stranded \cup PendingOf(database'.ledger)
    PROVE  IInv'
<1> USE DEF IInv, batchVars
<1>1. /\ database' \in backups /\ backups' = backups /\ restores' = restores + 1
      /\ ~serviceActive /\ ~serviceActive'
  BY DEF RestoreReplace, AlertsTypeOK
<1>2. phase = "none" /\ claimed = {} /\ delivery = "none"
  BY <1>1 DEF Control
<1>3. \A k : Count(k)' = Count(k) /\ Count(k) \in Nat
  BY CountType DEF Count
<1>4. Fields'
  BY <1>1 DEF Fields
<1>5. Control'
  BY <1>1, <1>2 DEF Control
<1>6. LedgerIsHonest'
  BY <1>1, <1>2, <1>3, HonestByStatusNext DEF Backed, PendingOf
<1>7. Backed'
  BY <1>1, <1>2, <1>3 DEF Backed
<1>8. Paid'
  <2> SUFFICES ASSUME NEW k \in DOMAIN shown
               PROVE  (Count(k) + Owed(k) <= RetryLimit * restores + Attempts(k))'
    BY <1>2 DEF Paid
  <2>1. Count(k) <= RetryLimit * restores + Attempts(k)
    BY <1>2, <1>3 DEF Paid, Owed
  <2>2. Owed(k)' = 0
    BY <1>2 DEF Owed
  <2>3. Attempts(k) \in 0 .. RetryLimit /\ RetryLimit \in Nat /\ restores \in Nat
    BY AttemptsType, ProductType, SettingsAssumption
  <2>4. Attempts(k)' \in Nat
    BY SettingsAssumption DEF AlertsTypeOK, Attempts, Known, Entries
  <2>5. RetryLimit * (restores + 1) = RetryLimit * restores + RetryLimit
    BY <2>3
  <2> DEFINE paid == RetryLimit * restores
             next == RetryLimit * (restores + 1)
  <2>6. paid \in Nat /\ next = paid + RetryLimit /\ Count(k) <= paid + Attempts(k)
    BY <2>1, <2>5, ProductType
  <2> HIDE DEF paid, next
  <2>7. Count(k)' + Owed(k)' <= next + Attempts(k)'
    BY <1>3, <2>2, <2>3, <2>4, <2>6
  <2> QED BY <1>1, <2>7 DEF next
<1> QED BY <1>4, <1>5, <1>6, <1>7, <1>8

-----------------------------------------------------------------------------
LEMMA StepHolds == IInv /\ [Next]_vars => IInv'
<1> SUFFICES ASSUME IInv, [Next]_vars PROVE IInv'
  OBVIOUS
<1>1. CASE UNCHANGED vars
  <2>1. AlertsTypeOK'
    BY <1>1 DEF IInv, AlertsTypeOK, vars, batchVars, recoveryVars
  <2> QED BY <1>1, <2>1, QuietStep DEF IInv, Control, vars, batchVars, recoveryVars
<1>2. CASE Next
  <2>0. AlertsTypeOK'
    BY <1>2, TypeStep
  <2>1. CASE SaveAnalysis \/ StartService \/ StopService
    <3>1. DOMAIN database' = DOMAIN database /\ database'.ledger = database.ledger
      BY <2>1 DEF SaveAnalysis, StartService, StopService, IInv, Fields
    <3>2. /\ UNCHANGED <<batchVars, shown, stranded, recoveryVars>>
          /\ ~serviceActive' => phase = "none"
      BY <2>1 DEF SaveAnalysis, StartService, StopService, IInv, Control
    <3> QED BY <2>0, <3>1, <3>2, QuietStep DEF recoveryVars
  <2>2. CASE RunSucceeds
    <3>1. Fresh /\ claimed = {} /\ serviceActive
      BY <2>2, SummaryIsFresh
      DEF RunSucceeds, RunEnds, Begin, Fresh, Phases, IInv, Control
    <3> QED BY <2>0, <2>2, <3>1, FreshStep DEF RunSucceeds, recoveryVars
  <2>3. CASE RunFails
    <3>1. Fresh /\ claimed = {} /\ serviceActive
      BY <2>3, SummaryIsFresh
      DEF RunFails, RunEnds, Begin, Fresh, Phases, IInv, Control
    <3> QED BY <2>0, <2>3, <3>1, FreshStep DEF RunFails, recoveryVars
  <2>4. CASE Claim
    BY <2>0, <2>4, ClaimStep
  <2>5. CASE NothingToDeliver
    <3>1. phase \in Phases /\ serviceActive /\ claimed = {}
      BY <2>5 DEF NothingToDeliver, IInv, Control, AlertsTypeOK
    <3>2. Fresh
      BY <2>5, <3>1, NextIsFresh DEF NothingToDeliver
    <3> QED BY <2>0, <2>5, <3>1, <3>2, FreshStep DEF NothingToDeliver, recoveryVars
  <2>6. CASE Deliver
    BY <2>0, <2>6, DeliverStep
  <2>7. CASE Mark
    BY <2>0, <2>7, MarkStep
  <2>8. CASE LedgerFails
    <3>1. Fresh
      BY <2>8, SummaryIsFresh DEF LedgerFails, Begin, Fresh, Phases
    <3>2. serviceActive
      BY <2>8 DEF LedgerFails, IInv, Control
    <3> QED BY <2>0, <2>8, <3>1, <3>2, FreshStep DEF LedgerFails, recoveryVars
  <2>9. CASE Crash
    <3>1. Fresh /\ phase' = "none"
      BY <2>9 DEF Crash, Begin, Fresh, Phases
    <3> QED BY <2>0, <2>9, <3>1, FreshStep DEF Crash, recoveryVars
  <2>10. CASE Recover
    <3>1. /\ UNCHANGED <<batchVars, shown>>
          /\ ~serviceActive => phase = "none"
      BY <2>10 DEF Recover, IInv, Control
    <3>2. CASE /\ Backup \/ RestoreProbe \/ RestoreSave \/ RestoreAborts
               /\ stranded' = stranded
      <4>1. /\ UNCHANGED <<database, serviceActive, restores>>
            /\ backups' \subseteq backups \cup {database}
        BY <3>2, PublishedCopies DEF Backup, RestoreProbe, RestoreSave, RestoreAborts
      <4> QED BY <2>0, <3>1, <3>2, <4>1, QuietStep
    <3>3. CASE /\ RestoreReplace
               /\ stranded' = stranded \cup PendingOf(database'.ledger)
      BY <2>0, <3>1, <3>3, ReplaceStep
    <3> QED BY <2>10, <3>2, <3>3 DEF Recover
  <2> QED BY <1>2, <2>1, <2>2, <2>3, <2>4, <2>5, <2>6, <2>7, <2>8, <2>9, <2>10 DEF Next
<1> QED BY <1>1, <1>2

LEMMA InvariantHolds == Spec => []IInv
BY InitHolds, StepHolds, PTL DEF Spec

(* The variables keep the types of their code counterparts (models.py).    *)
THEOREM AlertsTypeInvariant == Spec => []AlertsTypeOK
<1>1. IInv => AlertsTypeOK
  BY DEF IInv
<1> QED BY <1>1, InvariantHolds, PTL

(* However many messages, runs, crashes and restores: what the ledger      *)
(* calls delivered was shown, and what it calls pending is in delivery or  *)
(* was stranded (repository.py claim, mark_delivered, mark_failed).        *)
THEOREM LedgerInvariant == Spec => []LedgerIsHonest
<1>1. IInv => LedgerIsHonest
  BY DEF IInv
<1> QED BY <1>1, InvariantHolds, PTL

(* One event is shown at most retry_limit times, and as often again after  *)
(* each restore (repository.py claim, recovery.py).                        *)
THEOREM RepeatsInvariant == Spec => []RepeatsBounded
<1>1. IInv => RepeatsBounded
  <2> SUFFICES ASSUME IInv, NEW k \in DOMAIN shown
               PROVE  shown[k] <= RetryLimit * (1 + restores)
    BY DEF RepeatsBounded
  <2>1. Count(k) + Owed(k) <= RetryLimit * restores + Attempts(k)
    BY DEF IInv, Paid
  <2>2. Count(k) = shown[k] /\ Count(k) \in Nat /\ Owed(k) \in 0 .. 1
    BY CountType DEF IInv, Count, Owed
  <2>3. Attempts(k) \in 0 .. RetryLimit /\ RetryLimit \in Nat /\ restores \in Nat
    BY AttemptsType, ProductType, SettingsAssumption DEF IInv
  <2>4. RetryLimit * (1 + restores) = RetryLimit * restores + RetryLimit
    BY <2>3
  <2> DEFINE paid == RetryLimit * restores
  <2>5. paid \in Nat /\ Count(k) + Owed(k) <= paid + Attempts(k)
    BY <2>1, ProductType DEF IInv
  <2> HIDE DEF paid
  <2>6. shown[k] <= paid + RetryLimit
    BY <2>2, <2>3, <2>5
  <2> QED BY <2>4, <2>6 DEF paid
<1> QED BY <1>1, InvariantHolds, PTL
=============================================================================
