--------------------------------- MODULE Backup ---------------------------------
(***************************************************************************)
(* scripts/backup.sh next to the running system: the database is dumped,   *)
(* the dump is copied off the machine, then the bucket is mirrored, object *)
(* by object.  set -e ends the script at the first failure, and what is    *)
(* off the machine by then stays there.  Of a receipt's images all or none *)
(* are in the bucket: its row is created after the last of them.           *)
(***************************************************************************)
EXTENDS ReceiptPipeline

VARIABLES
  bucket,      \* receipts whose images are in the bucket
  stage,       \* where the script stands
  dump,        \* receipts with a row in the dump it has made
  mirror,      \* receipts whose images are in the off-site copy of the bucket
  listed,      \* objects the sync under way has found in the bucket
  complete     \* receipts in the dump of the last backup that was completed

backupVars == <<stage, dump, mirror, listed, complete>>
allVars == <<vars, bucket, backupVars>>

BackupInit ==
  /\ Init /\ bucket = {}
  /\ stage = "idle" /\ dump = {} /\ mirror = {} /\ listed = {} /\ complete = {}

\* Mutant: the bucket first.
NextStageMirrorFirst(s) ==
  CASE s = "idle" -> "mirror" [] s = "mirror" -> "dump"
    [] s = "dump" -> "upload" [] s = "upload" -> "idle"

NextStage(s) ==
  CASE s = "idle" -> "dump" [] s = "dump" -> "upload"
    [] s = "upload" -> "mirror" [] s = "mirror" -> "idle"

Rows == {r \in Receipts : status[r] # "NONE"}

\* On to the next command, with the rows dumped so far.  The sync starts by
\* listing the bucket; the script's end removes its local dump.
Proceed(rows) ==
  /\ stage' = NextStage(stage)
  /\ listed' = IF stage' = "mirror" THEN bucket ELSE {}
  /\ IF stage' = "idle" THEN complete' = rows /\ dump' = {}
                        ELSE complete' = complete /\ dump' = rows
  /\ UNCHANGED mirror

Cron == stage = "idle" /\ Proceed({})

\* pg_dump reads one snapshot.
PgDump == stage = "dump" /\ Proceed(Rows)

CopyDump == stage = "upload" /\ Proceed(dump)

\* An object that comes while the sync is under way is copied or not.
CopyImages(r) ==
  /\ stage = "mirror" /\ r \in bucket \ mirror
  /\ mirror' = mirror \cup {r}
  /\ UNCHANGED <<stage, dump, listed, complete>>

Synced == stage = "mirror" /\ listed \subseteq mirror /\ Proceed(dump)

\* A command fails: the trap removes the local dump, and cron mails the error.
BackupFails ==
  /\ stage # "idle" /\ stage' = "idle"
  /\ dump' = {} /\ listed' = {}
  /\ UNCHANGED <<mirror, complete>>

BackupNext ==
  \/ Next /\ bucket' = bucket \cup {r \in Receipts : intake'[r] = "stored"} /\ UNCHANGED backupVars
  \/ /\ \/ Cron \/ PgDump \/ CopyDump \/ Synced \/ BackupFails
        \/ \E r \in Receipts : CopyImages(r)
     /\ UNCHANGED <<vars, bucket>>

BackupSpec == BackupInit /\ [][BackupNext]_allVars

-----------------------------------------------------------------------------
(* Properties *)

\* The last completed backup can be restored: every receipt in its dump has its
\* images in the mirror, whatever was uploaded while it ran and however far the
\* backups after it came.
RestorableBackup == complete \subseteq mirror

=============================================================================
