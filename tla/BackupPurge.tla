----------------------------- MODULE BackupPurge -----------------------------
(***************************************************************************)
(* templates/scripts/clean_backups.sh, against the daily snapshots it      *)
(* purges.  Snapshots differ only in being past the retention or not.      *)
(***************************************************************************)
EXTENDS Naturals

CONSTANT MaxSnapshots   \* bound on the snapshots ever taken

\* MIN_RETAIN
MinRetain == 5

VARIABLES recent,  \* how many snapshots are within RETENTION_DAYS
          aged,    \* how many are older
          taken,   \* how many were ever taken
          stage    \* "purge" between the count and the end of find

vars == <<recent, aged, taken, stage>>

Init == recent = 0 /\ aged = 0 /\ taken = 0 /\ stage = "idle"

\* The cron job of the host takes a snapshot, or fails to for a while.
TakeSnapshot ==
    /\ taken < MaxSnapshots
    /\ taken' = taken + 1
    /\ recent' = recent + 1
    /\ UNCHANGED <<aged, stage>>

Age ==
    /\ recent > 0
    /\ recent' = recent - 1
    /\ aged' = aged + 1
    /\ UNCHANGED <<taken, stage>>

\* TOTAL_BACKUPS; with at most MIN_RETAIN the script exits.
Count ==
    /\ stage = "idle"
    /\ recent + aged > MinRetain
    /\ stage' = "purge"
    /\ UNCHANGED <<recent, aged, taken>>

\* find -mtime +RETENTION_DAYS -exec rm; interrupted, it has removed some.
Purge ==
    /\ stage = "purge"
    /\ aged' \in 0..aged
    /\ stage' = "idle"
    /\ UNCHANGED <<recent, taken>>

Next == TakeSnapshot \/ Age \/ Count \/ Purge

Spec == Init /\ [][Next]_vars

(***************************************************************************)
(* clean_backups.sh 3: it "purges database snapshots older than 30 days    *)
(* while retaining at least 5 backups".                                    *)
(***************************************************************************)
RetainsMinimum ==
    [][recent + aged >= MinRetain => recent' + aged' >= MinRetain]_vars
=============================================================================
