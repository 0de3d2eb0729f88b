------------------------------- MODULE Recovery -------------------------------
(***************************************************************************)
(* The backup and restore commands (observability/recovery.py): a private  *)
(* copy of the SQLite database, and its replacement by such a copy under a *)
(* probe of the scheduler's lock.  The probe frees the lock again, so the  *)
(* scheduler may start before the replacement; on Windows, the platform of *)
(* the deployment, the file of a running process cannot be replaced.       *)
(***************************************************************************)
EXTENDS Naturals, FiniteSets, Sequences

CONSTANT MaxBackups \* bound: copies that are kept for a restore

ASSUME MaxBackupsAssumption == MaxBackups \in Nat

VARIABLES
    database,       \* the content of the database file
    serviceActive,  \* a process holds the scheduler's lock and the file
    backups,        \* contents of the verified copies
    restoreStep,    \* what a restore has done
    source,         \* <<the copy it restores>>, <<>> without a restore
    restores        \* restores that replaced the database

recoveryVars == <<backups, restoreStep, source, restores>>

RecoveryInit ==
    /\ backups = {}
    /\ restoreStep = "none"
    /\ source = <<>>
    /\ restores = 0

Published(copy) ==
    IF Cardinality(backups) < MaxBackups THEN backups \cup {copy} ELSE backups

(* create_database_backup: the online copy is consistent, checked, and     *)
(* published by one rename; until then it does not count.                  *)
Backup ==
    /\ backups' = Published(database)
    /\ UNCHANGED <<database, serviceActive, restoreStep, source, restores>>

(* A confirmed restore of an intact copy of the current revision, when no  *)
(* scheduler is active; any other request changes nothing.                 *)
RestoreProbe ==
    /\ restoreStep = "none"
    /\ ~serviceActive
    /\ \E copy \in backups : source' = <<copy>>
    /\ restoreStep' = "probed"
    /\ UNCHANGED <<database, serviceActive, backups, restores>>

(* The pre-restore backup.                                                 *)
RestoreSave ==
    /\ restoreStep = "probed"
    /\ backups' = Published(database)
    /\ restoreStep' = "saved"
    /\ UNCHANGED <<database, serviceActive, source, restores>>

(* The temporary copy is checked and os.replace puts it in place.          *)
RestoreReplace ==
    /\ restoreStep = "saved"
    /\ ~serviceActive
    /\ database' = source[1]
    /\ restores' = restores + 1
    /\ restoreStep' = "none"
    /\ source' = <<>>
    /\ UNCHANGED <<serviceActive, backups>>

(* A check fails, the file is in use, or the command dies.                 *)
RestoreAborts ==
    /\ restoreStep # "none"
    /\ restoreStep' = "none"
    /\ source' = <<>>
    /\ UNCHANGED <<database, serviceActive, backups, restores>>
=============================================================================
