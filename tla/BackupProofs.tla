------------------------------ MODULE BackupProofs ------------------------------
(***************************************************************************)
(* Proofs that a completed backup can be restored and that backups leave   *)
(* the pipeline as it is, for any workers and receipts, any retry limits   *)
(* and any of ReceiptPipeline's faults.                                    *)
(***************************************************************************)
EXTENDS Backup, ReceiptPipelineProofs

\* What the handlers name has its images in the bucket: a row, a job, a run, and
\* a Confirm button; so does an upload on its way from the bucket to its job.
RowsHaveImages ==
  /\ \A r \in Receipts :
       \/ intake[r] \in {"stored", "created"}
       \/ status[r] # "NONE"
       \/ job[r] # "none"
       \/ offered[r] > 0
       => r \in bucket
  /\ \A w \in Workers : pc[w] # "idle" => cur[w] \in bucket

\* The dump under way names what is in the bucket, from the start of the sync
\* what the sync has listed; and the last completed backup is whole.
CopiesAreOrdered ==
  /\ dump \subseteq bucket
  /\ stage = "mirror" => dump \subseteq listed
  /\ stage = "dump" => dump = {}
  /\ RestorableBackup

BackupInv == RowsHaveImages /\ CopiesAreOrdered

\* Nothing is stored, dumped or mirrored at first.
LEMMA BackupInvInit == BackupInit => BackupInv
BY DEF BackupInit, Init, BackupInv, RowsHaveImages, CopiesAreOrdered, RestorableBackup

\* An upload puts its images into the bucket before anything names them, and
\* every other step names only what was named before it.
LEMMA PipelineKeepsImages ==
  ASSUME TypeOK, QueueConsistent, RowsHaveImages, Next,
         bucket' = bucket \cup {r \in Receipts : intake'[r] = "stored"}
  PROVE  RowsHaveImages'
<1> USE PipelineAssumption
    DEF RowsHaveImages, TypeOK, QueueConsistent, IntakeStates, JobStates, RunStates,
        Statuses, rowVars, jobVars, workerVars, dashboardVars, historyVars
<1>1. ASSUME NEW r \in Receipts, UploadImages(r) PROVE RowsHaveImages'
  BY <1>1 DEF UploadImages
<1>2. ASSUME NEW r \in Receipts, CreatePending(r) PROVE RowsHaveImages'
  BY <1>2 DEF CreatePending
<1>3. ASSUME NEW r \in Receipts, Enqueue(r) PROVE RowsHaveImages'
  BY <1>3 DEF Enqueue
<1>4. ASSUME NEW r \in Receipts, IntakeAborts(r) PROVE RowsHaveImages'
  BY <1>4 DEF IntakeAborts
<1>5. ASSUME NEW r \in Receipts, BackoffExpires(r) PROVE RowsHaveImages'
  BY <1>5 DEF BackoffExpires
<1>6. ASSUME NEW r \in Receipts, StalledJob(r) PROVE RowsHaveImages'
  BY <1>6 DEF StalledJob
<1>7. ASSUME NEW r \in Receipts, Poll(r) PROVE RowsHaveImages'
  BY <1>7 DEF Poll
<1>8. ASSUME NEW r \in Receipts, Confirm(r) PROVE RowsHaveImages'
  BY <1>8 DEF Confirm, ConfirmRow, SetStatus
<1>9. ASSUME NEW r \in Receipts, ConfirmDirectly(r) PROVE RowsHaveImages'
  BY <1>9 DEF ConfirmDirectly, ConfirmRow, SetStatus
<1>10. ASSUME NEW w \in Workers, MarkProcessing(w) PROVE RowsHaveImages'
  BY <1>10 DEF MarkProcessing, SetStatus, Goto
<1>11. ASSUME NEW w \in Workers, MarkProcessingThrows(w) PROVE RowsHaveImages'
  BY <1>11 DEF MarkProcessingThrows, SetStatus, Goto
<1>12. ASSUME NEW w \in Workers, ReadImages(w) PROVE RowsHaveImages'
  BY <1>12 DEF ReadImages, Goto
<1>13. ASSUME NEW w \in Workers, ExtractReceipt(w) PROVE RowsHaveImages'
  BY <1>13 DEF ExtractReceipt, Goto
<1>14. ASSUME NEW w \in Workers, TryThrows(w) PROVE RowsHaveImages'
  BY <1>14 DEF TryThrows, Goto
<1>15. ASSUME NEW w \in Workers, ApplyParsedResult(w) PROVE RowsHaveImages'
  BY <1>15 DEF ApplyParsedResult, CommitParsedResult, SetStatus, Goto
<1>16. ASSUME NEW w \in Workers, ApplyAckLost(w) PROVE RowsHaveImages'
  BY <1>16 DEF ApplyAckLost, CommitParsedResult, SetStatus, Goto
<1>17. ASSUME NEW w \in Workers, MarkFailed(w) PROVE RowsHaveImages'
  BY <1>17 DEF MarkFailed, SetStatus, Goto
<1>18. ASSUME NEW w \in Workers, JobCompletes(w) PROVE RowsHaveImages'
  BY <1>18 DEF JobCompletes, FinishJob, Goto
<1>19. ASSUME NEW w \in Workers, JobFails(w) PROVE RowsHaveImages'
  BY <1>19 DEF JobFails, FinishJob, Goto
<1>20. ASSUME NEW w \in Workers, Crash(w) PROVE RowsHaveImages'
  BY <1>20 DEF Crash, Goto
<1>21. ASSUME NEW w \in Workers, LoseLock(w) PROVE RowsHaveImages'
  BY <1>21 DEF LoseLock
<1>22. ASSUME NEW w \in Workers, NEW r \in Receipts, Fetch(w, r) PROVE RowsHaveImages'
  BY <1>22 DEF Fetch, Goto
<1>23. QED
  BY <1>1, <1>2, <1>3, <1>4, <1>5, <1>6, <1>7, <1>8, <1>9, <1>10, <1>11,
     <1>12, <1>13, <1>14, <1>15, <1>16, <1>17, <1>18, <1>19, <1>20, <1>21,
     <1>22
     DEF Next, Intake, WorkerStep

\* A step of the script keeps the order of the copies: the dump is of rows whose
\* images are in the bucket, and the sync lists the bucket after the dump.
LEMMA ScriptKeepsOrder ==
  ASSUME RowsHaveImages, CopiesAreOrdered, UNCHANGED <<vars, bucket>>,
         \/ Cron \/ PgDump \/ CopyDump \/ Synced \/ BackupFails
         \/ \E r \in Receipts : CopyImages(r)
  PROVE  CopiesAreOrdered'
<1> USE DEF CopiesAreOrdered, RestorableBackup, Proceed, NextStage
<1>1. CASE Cron
  BY <1>1 DEF Cron
<1>2. CASE PgDump
  <2>1. Rows \subseteq bucket
    BY DEF Rows, RowsHaveImages
  <2>2. QED
    BY <1>2, <2>1 DEF PgDump
<1>3. CASE CopyDump
  BY <1>3 DEF CopyDump
<1>4. CASE Synced
  BY <1>4 DEF Synced
<1>5. CASE BackupFails
  BY <1>5 DEF BackupFails
<1>6. ASSUME NEW r \in Receipts, CopyImages(r) PROVE CopiesAreOrdered'
  BY <1>6 DEF CopyImages
<1>7. QED
  BY <1>1, <1>2, <1>3, <1>4, <1>5, <1>6

\* Next to backups, the pipeline does nothing that it does not do alone: every
\* theorem of ReceiptPipelineProofs holds while backup.sh runs.
THEOREM BackupsOnlyCopy == BackupSpec => Spec
<1>1. BackupInit => Init
  BY DEF BackupInit
<1>2. [BackupNext]_allVars => [Next]_vars
  BY DEF BackupNext, allVars
<1>3. QED
  BY <1>1, <1>2, PTL DEF BackupSpec, Spec

LEMMA PipelineRuns == BackupSpec => []CreditInv
BY BackupsOnlyCopy, CreditInvariant, PTL

\* So, with backups under way, a receipt follows its lifecycle and a confirmation
\* is of what was shown, unless a run of its job is repeated.
THEOREM LifecycleNextToBackups ==
  ASSUME "api" \notin Clients, Faults \cap {"crash", "lockLoss", "lostAck"} = {}
  PROVE  BackupSpec => FollowsLifecycle /\ []ConfirmedAsShown
<1>1. Spec => FollowsLifecycle
  BY PipelineFollowsLifecycle
<1>2. QED
  BY <1>1, BackupsOnlyCopy, ConfirmedIsAsShown, PTL

\* Whatever is uploaded, read, crashes or fails while backups run, every receipt
\* in the last completed dump has its images in the mirror: backup.sh dumps the
\* database before it mirrors the bucket, and rows are created after images.
THEOREM BackupsAreRestorable == BackupSpec => []RestorableBackup
<1>1. CreditInv /\ BackupInv /\ [BackupNext]_allVars => BackupInv'
  <2> SUFFICES ASSUME CreditInv, BackupInv, [BackupNext]_allVars PROVE BackupInv'
    OBVIOUS
  <2> USE DEF BackupInv
  <2>1. CASE /\ Next /\ UNCHANGED backupVars
             /\ bucket' = bucket \cup {r \in Receipts : intake'[r] = "stored"}
    <3>1. RowsHaveImages'
      BY <2>1, PipelineKeepsImages DEF CreditInv
    <3>2. CopiesAreOrdered'
      BY <2>1 DEF CopiesAreOrdered, RestorableBackup, backupVars
    <3>3. QED
      BY <3>1, <3>2
  <2>2. CASE /\ \/ Cron \/ PgDump \/ CopyDump \/ Synced \/ BackupFails
                \/ \E r \in Receipts : CopyImages(r)
             /\ UNCHANGED <<vars, bucket>>
    <3>1. RowsHaveImages'
      BY <2>2 DEF RowsHaveImages, vars, rowVars, jobVars, workerVars, dashboardVars
    <3>2. CopiesAreOrdered'
      BY <2>2, ScriptKeepsOrder
    <3>3. QED
      BY <3>1, <3>2
  <2>3. CASE UNCHANGED allVars
    BY <2>3 DEF RowsHaveImages, CopiesAreOrdered, RestorableBackup, allVars, vars,
       backupVars, rowVars, jobVars, workerVars, dashboardVars
  <2>4. QED
    BY <2>1, <2>2, <2>3 DEF BackupNext
<1>2. BackupInv => RestorableBackup
  BY DEF BackupInv, CopiesAreOrdered
<1>3. QED
  BY <1>1, <1>2, BackupInvInit, PipelineRuns, PTL DEF BackupSpec

=============================================================================
