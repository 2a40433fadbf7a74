--------------------------- MODULE ReceiptPipeline ---------------------------
(***************************************************************************)
(* From an uploaded photo to a confirmed receipt: the intake handlers of   *)
(* the API (web, LINE, Telegram), the BullMQ queue, the worker process     *)
(* that calls Claude, the receipt rows in Postgres and the dashboard that  *)
(* confirms them.  One action per awaited call, so every interleaving of   *)
(* API, workers, queue and dashboard, and a crash between any two calls,   *)
(* is a behaviour.  A receipt has one job (queue.add is called once per    *)
(* row), so jobs are indexed by receipt.                                   *)
(***************************************************************************)
EXTENDS Integers, FiniteSets

CONSTANTS
  Receipts,     \* rows the intake may create
  Workers,      \* worker processes, each of concurrency 1
  None,         \* "no receipt" and "no worker"
  MaxAttempts,  \* defaultJobOptions.attempts
  MaxStalled,   \* BullMQ's maxStalledCount
  Faults,       \* the failures of the environment that may happen
  Clients       \* who may confirm: "dashboard", "api"

(***************************************************************************)
(* intake   - the API dies, or a call of the handler throws, half-way      *)
(* crash    - a worker process is killed (deploy, OOM)                     *)
(* lockLoss - a worker fails to renew its job lock and runs on regardless  *)
(* dbDown   - a status update of the worker throws without effect          *)
(* lostAck  - a commit of the worker takes effect but is reported failed   *)
(***************************************************************************)
FaultKinds == {"intake", "crash", "lockLoss", "dbDown", "lostAck"}

ASSUME PipelineAssumption ==
  /\ IsFiniteSet(Workers)
  /\ None \notin Receipts \cup Workers
  /\ MaxAttempts \in Nat \ {0}
  /\ MaxStalled \in Nat
  /\ Faults \subseteq FaultKinds
  /\ Clients \subseteq {"dashboard", "api"}

VARIABLES
  intake,     \* where the API handler of each receipt stands
  status,     \* Receipt.status, "NONE" while there is no row
  items,      \* how many times the receipt's line items have been created
  usage,      \* UsageLog rows of the receipt
  job,        \* state of the receipt's BullMQ job
  attempts,   \* the job's attemptsMade
  stalls,     \* the job's stalled counter
  lock,       \* the worker holding the job's lock
  pc,         \* where each worker's process() stands
  cur,        \* the receipt each worker is processing
  offered,    \* item sets shown next to the Confirm button, 0 if no button
  confirmed,  \* history: item sets the last confirming user was shown
  calls,      \* history: Claude calls billed for the receipt
  lostAcks    \* history: applied results that were reported failed

rowVars == <<status, items, usage>>
jobVars == <<job, attempts, stalls, lock>>
workerVars == <<pc, cur>>
dashboardVars == <<offered, confirmed>>
historyVars == <<calls, lostAcks>>
vars == <<intake, rowVars, jobVars, workerVars, dashboardVars, historyVars>>

Statuses == {"PENDING", "PROCESSING", "PARSED", "CONFIRMED", "FAILED"}
IntakeStates == {"new", "stored", "created", "enqueued", "aborted"}
JobStates == {"none", "wait", "active", "delayed", "completed", "failed"}
RunStates == {"marking", "reading", "extracting", "applying",
              "failing", "acking", "nacking"}

\* The statuses the monthly summary and the month picker count.
COUNTED_STATUSES == {"PARSED", "CONFIRMED"}

TypeOK ==
  /\ intake \in [Receipts -> IntakeStates]
  /\ status \in [Receipts -> Statuses \cup {"NONE"}]
  /\ items \in [Receipts -> Nat]
  /\ usage \in [Receipts -> Nat]
  /\ job \in [Receipts -> JobStates]
  /\ attempts \in [Receipts -> 0..MaxAttempts]
  /\ stalls \in [Receipts -> 0..(MaxStalled + 1)]
  /\ lock \in [Receipts -> Workers \cup {None}]
  /\ pc \in [Workers -> RunStates \cup {"idle"}]
  /\ cur \in [Workers -> Receipts \cup {None}]
  /\ offered \in [Receipts -> Nat]
  /\ confirmed \in [Receipts -> Nat]
  /\ calls \in [Receipts -> Nat]
  /\ lostAcks \in [Receipts -> Nat]

Init ==
  /\ intake = [r \in Receipts |-> "new"]
  /\ status = [r \in Receipts |-> "NONE"]
  /\ items = [r \in Receipts |-> 0]
  /\ usage = [r \in Receipts |-> 0]
  /\ job = [r \in Receipts |-> "none"]
  /\ attempts = [r \in Receipts |-> 0]
  /\ stalls = [r \in Receipts |-> 0]
  /\ lock = [r \in Receipts |-> None]
  /\ pc = [w \in Workers |-> "idle"]
  /\ cur = [w \in Workers |-> None]
  /\ offered = [r \in Receipts |-> 0]
  /\ confirmed = [r \in Receipts |-> 0]
  /\ calls = [r \in Receipts |-> 0]
  /\ lostAcks = [r \in Receipts |-> 0]

If1(condition) == IF condition THEN 1 ELSE 0

-----------------------------------------------------------------------------
(* Intake: upload the images, create the row, enqueue the job.             *)

\* The images are in the bucket before anything names them.
UploadImages(r) ==
  /\ intake[r] = "new"
  /\ intake' = [intake EXCEPT ![r] = "stored"]
  /\ UNCHANGED <<rowVars, jobVars, workerVars, dashboardVars, historyVars>>

CreatePending(r) ==
  /\ intake[r] = "stored"
  /\ intake' = [intake EXCEPT ![r] = "created"]
  /\ status' = [status EXCEPT ![r] = "PENDING"]
  /\ UNCHANGED <<items, usage, jobVars, workerVars, dashboardVars, historyVars>>

Enqueue(r) ==
  /\ intake[r] = "created"
  /\ intake' = [intake EXCEPT ![r] = "enqueued"]
  /\ job' = [job EXCEPT ![r] = "wait"]
  /\ UNCHANGED <<rowVars, attempts, stalls, lock,
                 workerVars, dashboardVars, historyVars>>

\* A call of the handler throws or the API process dies: what is written stays.
IntakeAborts(r) ==
  /\ "intake" \in Faults
  /\ intake[r] \in {"new", "stored", "created"}
  /\ intake' = [intake EXCEPT ![r] = "aborted"]
  /\ UNCHANGED <<rowVars, jobVars, workerVars, dashboardVars, historyVars>>

-----------------------------------------------------------------------------
(* The worker's process(job), one action per awaited call.                 *)

Goto(w, state) == pc' = [pc EXCEPT ![w] = state]
SetStatus(r, s) == status' = [status EXCEPT ![r] = s]

\* BullMQ hands a waiting job to a free worker and locks it.
Fetch(w, r) ==
  /\ pc[w] = "idle"
  /\ job[r] = "wait"
  /\ job' = [job EXCEPT ![r] = "active"]
  /\ lock' = [lock EXCEPT ![r] = w]
  /\ cur' = [cur EXCEPT ![w] = r]
  /\ Goto(w, "marking")
  /\ UNCHANGED <<intake, rowVars, attempts, stalls, dashboardVars, historyVars>>

MarkProcessing(w) ==
  /\ pc[w] = "marking"
  /\ SetStatus(cur[w], "PROCESSING")
  /\ Goto(w, "reading")
  /\ UNCHANGED <<intake, items, usage, jobVars, cur, dashboardVars, historyVars>>

\* markProcessing is outside the try block: no markFailed follows.
MarkProcessingThrows(w) ==
  /\ pc[w] = "marking"
  /\ \/ "dbDown" \in Faults /\ UNCHANGED status
     \/ "lostAck" \in Faults /\ SetStatus(cur[w], "PROCESSING")
  /\ Goto(w, "nacking")
  /\ UNCHANGED <<intake, items, usage, jobVars, cur, dashboardVars, historyVars>>

\* Mutant: the try block reaches past applyParsedResult.
TryThrowsAfterApply(w) ==
  /\ pc[w] \in {"reading", "extracting", "applying", "acking"}
  /\ Goto(w, "failing")
  /\ UNCHANGED <<intake, rowVars, jobVars, cur, dashboardVars, historyVars>>

\* The rest is inside the try block: whatever throws there is caught.
TryThrows(w) ==
  /\ pc[w] \in {"reading", "extracting", "applying"}
  /\ Goto(w, "failing")
  /\ UNCHANGED <<intake, rowVars, jobVars, cur, dashboardVars, historyVars>>

\* receipts.get and the image downloads.
ReadImages(w) ==
  /\ pc[w] = "reading"
  /\ Goto(w, "extracting")
  /\ UNCHANGED <<intake, rowVars, jobVars, cur, dashboardVars, historyVars>>

\* Claude answers and bills; the answer is used, or rejected by a check.
ExtractReceipt(w) ==
  /\ pc[w] = "extracting"
  /\ calls' = [calls EXCEPT ![cur[w]] = @ + 1]
  /\ Goto(w, "applying") \/ Goto(w, "failing")
  /\ UNCHANGED <<intake, rowVars, jobVars, cur, dashboardVars, lostAcks>>

\* Mutant: a receipt that has items already is left as it is.
CommitParsedResultOnce(r) ==
  IF items[r] > 0 THEN UNCHANGED rowVars
  ELSE /\ SetStatus(r, "PARSED")
       /\ items' = [items EXCEPT ![r] = @ + 1]
       /\ usage' = [usage EXCEPT ![r] = @ + 1]

\* The writes of applyParsedResult: one transaction, items only ever added.
CommitParsedResult(r) ==
  /\ SetStatus(r, "PARSED")
  /\ items' = [items EXCEPT ![r] = @ + 1]
  /\ usage' = [usage EXCEPT ![r] = @ + 1]

ApplyParsedResult(w) ==
  /\ pc[w] = "applying"
  /\ CommitParsedResult(cur[w])
  /\ Goto(w, "acking")
  /\ UNCHANGED <<intake, jobVars, cur, dashboardVars, historyVars>>

ApplyAckLost(w) ==
  /\ "lostAck" \in Faults
  /\ pc[w] = "applying"
  /\ CommitParsedResult(cur[w])
  /\ lostAcks' = [lostAcks EXCEPT ![cur[w]] = @ + 1]
  /\ Goto(w, "failing")
  /\ UNCHANGED <<intake, jobVars, cur, dashboardVars, calls>>

\* Mutant: a receipt that has items already is not marked failed.
MarkFailedUnlessRead(w) ==
  /\ pc[w] = "failing"
  /\ IF items[cur[w]] > 0 THEN UNCHANGED status ELSE SetStatus(cur[w], "FAILED")
  /\ Goto(w, "nacking")
  /\ UNCHANGED <<intake, items, usage, jobVars, cur, dashboardVars, historyVars>>

\* The catch block; if markFailed throws too, the job still fails.
MarkFailed(w) ==
  /\ pc[w] = "failing"
  /\ \/ SetStatus(cur[w], "FAILED")
     \/ "dbDown" \in Faults /\ UNCHANGED status
  /\ Goto(w, "nacking")
  /\ UNCHANGED <<intake, items, usage, jobVars, cur, dashboardVars, historyVars>>

\* process() is over: what the queue keeps of it if w still holds the lock.
FinishJob(w, next) ==
  LET r == cur[w]
      held == lock[r] = w
  IN /\ job' = IF held THEN [job EXCEPT ![r] = next] ELSE job
     /\ attempts' = IF held THEN [attempts EXCEPT ![r] = @ + 1] ELSE attempts
     /\ lock' = IF held THEN [lock EXCEPT ![r] = None] ELSE lock
     /\ cur' = [cur EXCEPT ![w] = None]
     /\ Goto(w, "idle")
     /\ UNCHANGED <<intake, rowVars, stalls, dashboardVars, historyVars>>

JobCompletes(w) == pc[w] = "acking" /\ FinishJob(w, "completed")

\* Mutant: the attempt that is ending is not counted.
JobFailsLate(w) ==
  /\ pc[w] = "nacking"
  /\ FinishJob(w, IF attempts[cur[w]] < MaxAttempts THEN "delayed" ELSE "failed")

JobFails(w) ==
  /\ pc[w] = "nacking"
  /\ FinishJob(w, IF attempts[cur[w]] + 1 < MaxAttempts
                    THEN "delayed" ELSE "failed")

-----------------------------------------------------------------------------
(* What the queue and the deployment do to a job and to a worker.          *)

BackoffExpires(r) ==
  /\ job[r] = "delayed"
  /\ job' = [job EXCEPT ![r] = "wait"]
  /\ UNCHANGED <<intake, rowVars, attempts, stalls, lock,
                 workerVars, dashboardVars, historyVars>>

\* Mutant: the lock of a dead run does not expire.
CrashKeepsLock(w) ==
  /\ "crash" \in Faults
  /\ pc[w] # "idle"
  /\ Goto(w, "idle")
  /\ cur' = [cur EXCEPT ![w] = None]
  /\ UNCHANGED <<intake, rowVars, jobVars, dashboardVars, historyVars>>

\* worker.ts installs no shutdown hook: a deploy, too, kills the run half-way.
\* The container restarts idle; the lock of the dead run expires.
Crash(w) ==
  /\ "crash" \in Faults
  /\ pc[w] # "idle"
  /\ lock' = [r \in Receipts |-> IF lock[r] = w THEN None ELSE lock[r]]
  /\ Goto(w, "idle")
  /\ cur' = [cur EXCEPT ![w] = None]
  /\ UNCHANGED <<intake, rowVars, job, attempts, stalls,
                 dashboardVars, historyVars>>

\* The lock expires under a live run, which is not told and goes on.
LoseLock(w) ==
  /\ "lockLoss" \in Faults
  /\ pc[w] # "idle"
  /\ lock[cur[w]] = w
  /\ lock' = [lock EXCEPT ![cur[w]] = None]
  /\ UNCHANGED <<intake, rowVars, job, attempts, stalls,
                 workerVars, dashboardVars, historyVars>>

\* The stalled-job check: requeue, or fail past the limit, outside process().
StalledJob(r) ==
  /\ job[r] = "active"
  /\ lock[r] = None
  /\ stalls' = [stalls EXCEPT ![r] = @ + 1]
  /\ job' = [job EXCEPT ![r] = IF stalls[r] < MaxStalled THEN "wait" ELSE "failed"]
  /\ UNCHANGED <<intake, rowVars, attempts, lock,
                 workerVars, dashboardVars, historyVars>>

-----------------------------------------------------------------------------
(* The dashboard polls the list and offers Confirm on a PARSED receipt;    *)
(* the endpoint itself confirms whatever the row's status is by then.      *)

\* Mutant: Confirm is offered while the receipt is still being read.
PollOffersEarly(r) ==
  /\ "dashboard" \in Clients
  /\ status[r] # "NONE"
  /\ offered' = [offered EXCEPT ![r] = If1(status[r] \in {"PROCESSING", "PARSED"})]
  /\ UNCHANGED <<intake, rowVars, jobVars, workerVars, confirmed, historyVars>>

Poll(r) ==
  /\ "dashboard" \in Clients
  /\ status[r] # "NONE"
  /\ offered' = [offered EXCEPT ![r] = IF status[r] = "PARSED" THEN items[r] ELSE 0]
  /\ UNCHANGED <<intake, rowVars, jobVars, workerVars, confirmed, historyVars>>

\* ReceiptsService.confirm: no condition on the status.
ConfirmRow(r, shown) ==
  /\ SetStatus(r, "CONFIRMED")
  /\ confirmed' = [confirmed EXCEPT ![r] = shown]
  /\ UNCHANGED <<intake, items, usage, jobVars, workerVars, offered, historyVars>>

Confirm(r) == offered[r] > 0 /\ ConfirmRow(r, offered[r])

\* A client of the API that knows the id needs no button.
ConfirmDirectly(r) ==
  /\ "api" \in Clients
  /\ status[r] # "NONE"
  /\ ConfirmRow(r, items[r])

-----------------------------------------------------------------------------
Intake(r) ==
  UploadImages(r) \/ CreatePending(r) \/ Enqueue(r) \/ IntakeAborts(r)

WorkerStep(w) ==
  \/ MarkProcessing(w) \/ MarkProcessingThrows(w)
  \/ ReadImages(w) \/ ExtractReceipt(w) \/ TryThrows(w)
  \/ ApplyParsedResult(w) \/ ApplyAckLost(w)
  \/ MarkFailed(w) \/ JobCompletes(w) \/ JobFails(w)

Next ==
  \/ \E r \in Receipts : \/ Intake(r) \/ BackoffExpires(r) \/ StalledJob(r)
                         \/ Poll(r) \/ Confirm(r) \/ ConfirmDirectly(r)
  \/ \E w \in Workers : WorkerStep(w) \/ Crash(w) \/ LoseLock(w)
  \/ \E w \in Workers, r \in Receipts : Fetch(w, r)

(***************************************************************************)
(* Handlers and workers that are not killed finish each awaited call, the  *)
(* backoff timer and the stalled-job check come round, and the FIFO wait   *)
(* list reaches every job some worker is free for again and again.         *)
(* Nobody has to poll or confirm.                                          *)
(***************************************************************************)
Fairness ==
  /\ \A r \in Receipts : /\ WF_vars(CreatePending(r)) /\ WF_vars(Enqueue(r))
                         /\ WF_vars(BackoffExpires(r)) /\ WF_vars(StalledJob(r))
                         /\ SF_vars(\E w \in Workers : Fetch(w, r))
  /\ \A w \in Workers : WF_vars(WorkerStep(w))

Spec == Init /\ [][Next]_vars
FairSpec == Spec /\ Fairness

-----------------------------------------------------------------------------
(* Properties.                                                             *)

Reruns(r) == stalls[r] + lostAcks[r]
RunsIn(r, phases) == {w \in Workers : cur[w] = r /\ pc[w] \in phases}

\* Item sets in excess of one are each paid for by a stalled run or by a commit
\* reported as failed, and a job that ended "failed" has no other: redelivery
\* (applyParsedResult only creates rows) duplicates nothing else.
DuplicatesAccounted ==
  \A r \in Receipts :
    items[r] <= Reruns(r) + If1(job[r] \in {"active", "completed"})

\* Retries, stalls and runs without a lock together bill a receipt at most
\* attempts + maxStalledCount Claude calls, and never fewer than it logs.
CostCapped ==
  \A r \in Receipts : usage[r] <= calls[r] /\ calls[r] <= MaxAttempts + MaxStalled

\* A receipt counted toward spend has been read: its items are there, however
\* stale the dashboard was whose Confirm set the status.
CountedIsRead ==
  "api" \notin Clients =>
    \A r \in Receipts : status[r] \in COUNTED_STATUSES => items[r] > 0

\* While no run outlives its lock, a job the queue calls completed is counted:
\* no retry or late failure report of an earlier run can undo it.
CompletedIsCounted ==
  "lockLoss" \notin Faults =>
    \A r \in Receipts : job[r] = "completed" => status[r] \in COUNTED_STATUSES

\* When the retries are used up the user is told (FAILED), except where the
\* queue gave up on a stalled job or the user confirmed a reading shown before.
ExhaustedIsReported ==
  Faults \subseteq {"intake", "crash"} /\ "api" \notin Clients =>
    \A r \in Receipts :
      job[r] = "failed" /\ stalls[r] <= MaxStalled =>
        status[r] = "FAILED" \/ (status[r] = "CONFIRMED" /\ items[r] > 0)

\* With no rerun, what the user confirmed is what the receipt holds, for good.
ConfirmedAsShown ==
  Faults \cap {"crash", "lockLoss", "lostAck"} = {} =>
    \A r \in Receipts :
      confirmed[r] > 0 => status[r] = "CONFIRMED" /\ items[r] = confirmed[r]

\* A job given to the queue ends, whatever crashes, stalls and retries happen.
EnqueuedSettles ==
  \A r \in Receipts : job[r] = "wait" ~> job[r] \in {"completed", "failed"}

\* With API and database up, an uploaded receipt whose worker is not killed
\* past the stall limit ends up counted or reported as failed, its job over.
UploadSettles ==
  Faults \subseteq {"crash"} =>
    \A r \in Receipts :
      status[r] = "PENDING" ~>
        \/ /\ job[r] \in {"completed", "failed"}
           /\ status[r] \in COUNTED_STATUSES \cup {"FAILED"}
        \/ stalls[r] > MaxStalled

\* Without reruns the pipeline keeps the promise of ReceiptLifecycle.
Lifecycle == INSTANCE ReceiptLifecycle
FollowsLifecycle == Lifecycle!Spec

-----------------------------------------------------------------------------
(***************************************************************************)
(* The inductive invariant behind DuplicatesAccounted and CostCapped.  A   *)
(* run that is still open holds a credit for the rows it may write and for *)
(* the call it may make; fetching a job, a stall and a lost commit are     *)
(* what grants credits.                                                    *)
(***************************************************************************)
QueueConsistent ==
  /\ \A w \in Workers : pc[w] = "idle" <=> cur[w] = None
  /\ \A r \in Receipts :
       /\ intake[r] # "enqueued" => job[r] = "none"
       /\ lock[r] # None => job[r] = "active" /\ cur[lock[r]] = r
       /\ job[r] \notin {"completed", "failed"} =>
            attempts[r] < MaxAttempts /\ stalls[r] <= MaxStalled
       /\ stalls[r] > MaxStalled => attempts[r] < MaxAttempts

Unacked == RunStates \ {"acking"}
Unbilled == {"marking", "reading", "extracting"}

ItemsPaid(r) ==
  items[r] + Cardinality(RunsIn(r, Unacked))
    <= Reruns(r) + If1(job[r] \in {"active", "completed"})

CallsPaid(r) ==
  calls[r] + Cardinality(RunsIn(r, Unbilled))
    <= attempts[r] + stalls[r] + If1(job[r] = "active")

UsagePaid(r) == usage[r] + Cardinality(RunsIn(r, {"applying"})) <= calls[r]

CreditInv ==
  /\ TypeOK
  /\ QueueConsistent
  /\ \A r \in Receipts : ItemsPaid(r) /\ CallsPaid(r) /\ UsagePaid(r)

=============================================================================
