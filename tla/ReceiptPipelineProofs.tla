------------------------ MODULE ReceiptPipelineProofs ------------------------
(***************************************************************************)
(* Proofs about ReceiptPipeline, for any finite set of workers, any set of *)
(* receipts, any retry limits and any of the faults.                       *)
(***************************************************************************)
EXTENDS ReceiptPipeline, FiniteSetTheorems, TLAPS

-----------------------------------------------------------------------------
(* Counting runs.                                                          *)

\* Two sets of workers that agree outside w differ by w's membership.
LEMMA CountMove ==
  ASSUME NEW A \in SUBSET Workers, NEW B \in SUBSET Workers,
         NEW w \in Workers, A \ {w} = B \ {w}
  PROVE  /\ Cardinality(A) \in Nat /\ Cardinality(B) \in Nat
         /\ Cardinality(B) = Cardinality(A) - If1(w \in A) + If1(w \in B)
<1>1. IsFiniteSet(A) /\ IsFiniteSet(B)
  BY FS_Subset, PipelineAssumption
<1>2. Cardinality(A) \in Nat /\ Cardinality(B) \in Nat
  BY <1>1, FS_CardinalityType
<1>3. Cardinality(A \ {w}) = Cardinality(A) - If1(w \in A)
  <2>1. Cardinality(A \ {w}) =
          IF w \in A THEN Cardinality(A) - 1 ELSE Cardinality(A)
    BY <1>1, FS_RemoveElement, Zenon
  <2>2. CASE w \in A
    BY <1>2, <2>1, <2>2 DEF If1
  <2>3. CASE w \notin A
    BY <1>2, <2>1, <2>3 DEF If1
  <2>4. QED
    BY <2>2, <2>3
<1>4. Cardinality(B \ {w}) = Cardinality(B) - If1(w \in B)
  <2>1. Cardinality(B \ {w}) =
          IF w \in B THEN Cardinality(B) - 1 ELSE Cardinality(B)
    BY <1>1, FS_RemoveElement, Zenon
  <2>2. CASE w \in B
    BY <1>2, <2>1, <2>2 DEF If1
  <2>3. CASE w \notin B
    BY <1>2, <2>1, <2>3 DEF If1
  <2>4. QED
    BY <2>2, <2>3
<1>5. If1(w \in A) \in {0, 1} /\ If1(w \in B) \in {0, 1}
  BY DEF If1
<1>6. Cardinality(A) - If1(w \in A) = Cardinality(B) - If1(w \in B)
  BY <1>3, <1>4, Zenon
<1>7. QED
  BY <1>2, <1>5, <1>6

\* RunsIn in the next state, for constant arguments.
NextRunsIn(r, phases) == {w \in Workers : cur'[w] = r /\ pc'[w] \in phases}

\* A step that moves only the run of w moves every count of runs by that run.
LEMMA RunMoves ==
  ASSUME TypeOK, NEW w \in Workers, NEW r \in Receipts, NEW phases,
         NEW there, NEW c,
         pc' = [pc EXCEPT ![w] = there], cur' = [cur EXCEPT ![w] = c]
  PROVE  /\ Cardinality(RunsIn(r, phases)) \in Nat
         /\ Cardinality(NextRunsIn(r, phases)) \in Nat
         /\ Cardinality(NextRunsIn(r, phases)) =
              Cardinality(RunsIn(r, phases))
                - If1(cur[w] = r /\ pc[w] \in phases)
                + If1(c = r /\ there \in phases)
<1> DEFINE A == RunsIn(r, phases)
           B == NextRunsIn(r, phases)
<1>1. A \in SUBSET Workers /\ B \in SUBSET Workers
  BY DEF RunsIn, NextRunsIn
<1>2. A \ {w} = B \ {w}
  BY DEF RunsIn, NextRunsIn, TypeOK
<1>3. /\ w \in A <=> cur[w] = r /\ pc[w] \in phases
      /\ w \in B <=> c = r /\ there \in phases
  BY DEF RunsIn, NextRunsIn, TypeOK
<1> HIDE DEF A, B
<1>4. /\ Cardinality(A) \in Nat /\ Cardinality(B) \in Nat
      /\ Cardinality(B) = Cardinality(A) - If1(w \in A) + If1(w \in B)
  BY <1>1, <1>2, CountMove
<1>5. /\ If1(w \in A) = If1(cur[w] = r /\ pc[w] \in phases)
      /\ If1(w \in B) = If1(c = r /\ there \in phases)
  BY <1>3, Zenon DEF If1
<1>6. /\ Cardinality(A) \in Nat /\ Cardinality(B) \in Nat
      /\ Cardinality(B) = Cardinality(A)
                            - If1(cur[w] = r /\ pc[w] \in phases)
                            + If1(c = r /\ there \in phases)
  BY <1>4, <1>5, Zenon
<1>7. QED
  BY <1>6, Zenon DEF A, B

\* A step that moves no run moves no count of runs.
LEMMA RunsStay ==
  ASSUME NEW r \in Receipts, NEW phases, UNCHANGED workerVars
  PROVE  /\ Cardinality(RunsIn(r, phases)) \in Nat
         /\ Cardinality(NextRunsIn(r, phases)) = Cardinality(RunsIn(r, phases))
<1>1. NextRunsIn(r, phases) = RunsIn(r, phases)
  BY DEF RunsIn, NextRunsIn, workerVars
<1>2. IsFiniteSet(RunsIn(r, phases))
  BY FS_Subset, PipelineAssumption DEF RunsIn
<1>3. QED
  BY <1>1, <1>2, FS_CardinalityType

-----------------------------------------------------------------------------
(* Type correctness and the consistency of jobs, locks and runs.           *)

\* Every action keeps the types; the counters stay within their limits.
LEMMA TypeStep ==
  ASSUME TypeOK, QueueConsistent, [Next]_vars
  PROVE  TypeOK'
<1> USE PipelineAssumption
    DEF TypeOK, QueueConsistent, Statuses, IntakeStates, JobStates, RunStates,
        rowVars, jobVars, workerVars, dashboardVars, historyVars
<1>1. ASSUME NEW r \in Receipts, UploadImages(r) PROVE TypeOK'
  BY <1>1 DEF UploadImages
<1>2. ASSUME NEW r \in Receipts, CreatePending(r) PROVE TypeOK'
  BY <1>2 DEF CreatePending
<1>3. ASSUME NEW r \in Receipts, Enqueue(r) PROVE TypeOK'
  BY <1>3 DEF Enqueue
<1>4. ASSUME NEW r \in Receipts, IntakeAborts(r) PROVE TypeOK'
  BY <1>4 DEF IntakeAborts
<1>5. ASSUME NEW r \in Receipts, BackoffExpires(r) PROVE TypeOK'
  BY <1>5 DEF BackoffExpires
<1>6. ASSUME NEW r \in Receipts, StalledJob(r) PROVE TypeOK'
  BY <1>6 DEF StalledJob
<1>7. ASSUME NEW r \in Receipts, Poll(r) PROVE TypeOK'
  BY <1>7 DEF Poll
<1>8. ASSUME NEW r \in Receipts, Confirm(r) PROVE TypeOK'
  BY <1>8 DEF Confirm, ConfirmRow, SetStatus
<1>9. ASSUME NEW r \in Receipts, ConfirmDirectly(r) PROVE TypeOK'
  BY <1>9 DEF ConfirmDirectly, ConfirmRow, SetStatus
<1>10. ASSUME NEW w \in Workers, MarkProcessing(w) PROVE TypeOK'
  BY <1>10 DEF MarkProcessing, SetStatus, Goto
<1>11. ASSUME NEW w \in Workers, MarkProcessingThrows(w) PROVE TypeOK'
  BY <1>11 DEF MarkProcessingThrows, SetStatus, Goto
<1>12. ASSUME NEW w \in Workers, ReadImages(w) PROVE TypeOK'
  BY <1>12 DEF ReadImages, Goto
<1>13. ASSUME NEW w \in Workers, ExtractReceipt(w) PROVE TypeOK'
  BY <1>13 DEF ExtractReceipt, Goto
<1>14. ASSUME NEW w \in Workers, TryThrows(w) PROVE TypeOK'
  BY <1>14 DEF TryThrows, Goto
<1>15. ASSUME NEW w \in Workers, ApplyParsedResult(w) PROVE TypeOK'
  BY <1>15 DEF ApplyParsedResult, CommitParsedResult, SetStatus, Goto
<1>16. ASSUME NEW w \in Workers, ApplyAckLost(w) PROVE TypeOK'
  BY <1>16 DEF ApplyAckLost, CommitParsedResult, SetStatus, Goto
<1>17. ASSUME NEW w \in Workers, MarkFailed(w) PROVE TypeOK'
  BY <1>17 DEF MarkFailed, SetStatus, Goto
<1>18. ASSUME NEW w \in Workers, JobCompletes(w) PROVE TypeOK'
  BY <1>18 DEF JobCompletes, FinishJob, Goto
<1>19. ASSUME NEW w \in Workers, JobFails(w) PROVE TypeOK'
  BY <1>19 DEF JobFails, FinishJob, Goto
<1>20. ASSUME NEW w \in Workers, Crash(w) PROVE TypeOK'
  BY <1>20 DEF Crash, Goto
<1>21. ASSUME NEW w \in Workers, LoseLock(w) PROVE TypeOK'
  BY <1>21 DEF LoseLock
<1>22. ASSUME NEW w \in Workers, NEW r \in Receipts, Fetch(w, r) PROVE TypeOK'
  BY <1>22 DEF Fetch, Goto
<1>23. CASE UNCHANGED vars
  BY <1>23 DEF vars
<1>24. QED
  BY <1>1, <1>2, <1>3, <1>4, <1>5, <1>6, <1>7, <1>8, <1>9, <1>10, <1>11, <1>12,
     <1>13, <1>14, <1>15, <1>16, <1>17, <1>18, <1>19, <1>20, <1>21, <1>22, <1>23
     DEF Next, Intake, WorkerStep

\* Every action keeps jobs, locks and runs consistent with each other.
LEMMA QueueStep ==
  ASSUME TypeOK, QueueConsistent, [Next]_vars
  PROVE  QueueConsistent'
<1> USE PipelineAssumption
    DEF TypeOK, QueueConsistent, Statuses, IntakeStates, JobStates, RunStates,
        rowVars, jobVars, workerVars, dashboardVars, historyVars
<1>1. ASSUME NEW r \in Receipts, UploadImages(r) PROVE QueueConsistent'
  BY <1>1 DEF UploadImages
<1>2. ASSUME NEW r \in Receipts, CreatePending(r) PROVE QueueConsistent'
  BY <1>2 DEF CreatePending
<1>3. ASSUME NEW r \in Receipts, Enqueue(r) PROVE QueueConsistent'
  BY <1>3 DEF Enqueue
<1>4. ASSUME NEW r \in Receipts, IntakeAborts(r) PROVE QueueConsistent'
  BY <1>4 DEF IntakeAborts
<1>5. ASSUME NEW r \in Receipts, BackoffExpires(r) PROVE QueueConsistent'
  BY <1>5 DEF BackoffExpires
<1>6. ASSUME NEW r \in Receipts, StalledJob(r) PROVE QueueConsistent'
  BY <1>6 DEF StalledJob
<1>7. ASSUME NEW r \in Receipts, Poll(r) PROVE QueueConsistent'
  BY <1>7 DEF Poll
<1>8. ASSUME NEW r \in Receipts, Confirm(r) PROVE QueueConsistent'
  BY <1>8 DEF Confirm, ConfirmRow, SetStatus
<1>9. ASSUME NEW r \in Receipts, ConfirmDirectly(r) PROVE QueueConsistent'
  BY <1>9 DEF ConfirmDirectly, ConfirmRow, SetStatus
<1>10. ASSUME NEW w \in Workers, MarkProcessing(w) PROVE QueueConsistent'
  BY <1>10 DEF MarkProcessing, SetStatus, Goto
<1>11. ASSUME NEW w \in Workers, MarkProcessingThrows(w) PROVE QueueConsistent'
  BY <1>11 DEF MarkProcessingThrows, SetStatus, Goto
<1>12. ASSUME NEW w \in Workers, ReadImages(w) PROVE QueueConsistent'
  BY <1>12 DEF ReadImages, Goto
<1>13. ASSUME NEW w \in Workers, ExtractReceipt(w) PROVE QueueConsistent'
  BY <1>13 DEF ExtractReceipt, Goto
<1>14. ASSUME NEW w \in Workers, TryThrows(w) PROVE QueueConsistent'
  BY <1>14 DEF TryThrows, Goto
<1>15. ASSUME NEW w \in Workers, ApplyParsedResult(w) PROVE QueueConsistent'
  BY <1>15 DEF ApplyParsedResult, CommitParsedResult, SetStatus, Goto
<1>16. ASSUME NEW w \in Workers, ApplyAckLost(w) PROVE QueueConsistent'
  BY <1>16 DEF ApplyAckLost, CommitParsedResult, SetStatus, Goto
<1>17. ASSUME NEW w \in Workers, MarkFailed(w) PROVE QueueConsistent'
  BY <1>17 DEF MarkFailed, SetStatus, Goto
<1>18. ASSUME NEW w \in Workers, JobCompletes(w) PROVE QueueConsistent'
  BY <1>18 DEF JobCompletes, FinishJob, Goto
<1>19. ASSUME NEW w \in Workers, JobFails(w) PROVE QueueConsistent'
  BY <1>19 DEF JobFails, FinishJob, Goto
<1>20. ASSUME NEW w \in Workers, Crash(w) PROVE QueueConsistent'
  BY <1>20 DEF Crash, Goto
<1>21. ASSUME NEW w \in Workers, LoseLock(w) PROVE QueueConsistent'
  BY <1>21 DEF LoseLock
<1>22. ASSUME NEW w \in Workers, NEW r \in Receipts, Fetch(w, r) PROVE QueueConsistent'
  BY <1>22 DEF Fetch, Goto
<1>23. CASE UNCHANGED vars
  BY <1>23 DEF vars
<1>24. QED
  BY <1>1, <1>2, <1>3, <1>4, <1>5, <1>6, <1>7, <1>8, <1>9, <1>10, <1>11, <1>12,
     <1>13, <1>14, <1>15, <1>16, <1>17, <1>18, <1>19, <1>20, <1>21, <1>22, <1>23
     DEF Next, Intake, WorkerStep

-----------------------------------------------------------------------------
(* Credits: no step lets a receipt be written or billed without paying.    *)

\* Every action keeps the credits: what it writes or bills it pays for.
LEMMA CreditStep ==
  ASSUME CreditInv, [Next]_vars, NEW x \in Receipts
  PROVE  ItemsPaid(x)' /\ CallsPaid(x)' /\ UsagePaid(x)'
<1> DEFINE
      unacked == Cardinality(RunsIn(x, Unacked))
      unacked2 == Cardinality(NextRunsIn(x, Unacked))
      unbilled == Cardinality(RunsIn(x, Unbilled))
      unbilled2 == Cardinality(NextRunsIn(x, Unbilled))
      applying == Cardinality(RunsIn(x, {"applying"}))
      applying2 == Cardinality(NextRunsIn(x, {"applying"}))
      MovedIn(w, there, c, phases, n, n2) ==
        n2 = n - If1(cur[w] = x /\ pc[w] \in phases) + If1(c = x /\ there \in phases)
      Moved(w, there, c) ==
        /\ MovedIn(w, there, c, Unacked, unacked, unacked2)
        /\ MovedIn(w, there, c, Unbilled, unbilled, unbilled2)
        /\ MovedIn(w, there, c, {"applying"}, applying, applying2)
      Goal ==
        /\ items'[x] + unacked2
             <= stalls'[x] + lostAcks'[x] + If1(job'[x] \in {"active", "completed"})
        /\ calls'[x] + unbilled2 <= attempts'[x] + stalls'[x] + If1(job'[x] = "active")
        /\ usage'[x] + applying2 <= calls'[x]
<1>type. TypeOK /\ TypeOK' /\ QueueConsistent
  BY TypeStep DEF CreditInv
<1>nat. /\ unacked \in Nat /\ unbilled \in Nat /\ applying \in Nat
        /\ unacked2 \in Nat /\ unbilled2 \in Nat /\ applying2 \in Nat
  <2>1. \A phases : /\ IsFiniteSet(RunsIn(x, phases))
                    /\ IsFiniteSet(NextRunsIn(x, phases))
    BY FS_Subset, PipelineAssumption DEF RunsIn, NextRunsIn
  <2>2. QED
    BY <2>1, FS_CardinalityType
<1>move. ASSUME NEW w \in Workers, NEW there, NEW c,
                pc' = [pc EXCEPT ![w] = there], cur' = [cur EXCEPT ![w] = c]
         PROVE  Moved(w, there, c)
  <2>1. MovedIn(w, there, c, Unacked, unacked, unacked2)
    BY <1>type, <1>move, RunMoves DEF If1
  <2>2. MovedIn(w, there, c, Unbilled, unbilled, unbilled2)
    BY <1>type, <1>move, RunMoves DEF If1
  <2>3. MovedIn(w, there, c, {"applying"}, applying, applying2)
    BY <1>type, <1>move, RunMoves DEF If1
  <2>4. QED
    BY <2>1, <2>2, <2>3
<1>goto. ASSUME NEW w \in Workers, NEW there, Goto(w, there), UNCHANGED cur
         PROVE  Moved(w, there, cur[w])
  <2>1. cur' = [cur EXCEPT ![w] = cur[w]]
    BY <1>type, <1>goto DEF TypeOK
  <2>2. QED
    BY <1>goto, <2>1, <1>move, Zenon DEF Goto
<1>stay. ASSUME UNCHANGED workerVars
         PROVE  unacked2 = unacked /\ unbilled2 = unbilled /\ applying2 = applying
  BY <1>stay, RunsStay
<1>before. /\ items[x] + unacked
                <= stalls[x] + lostAcks[x] + If1(job[x] \in {"active", "completed"})
           /\ calls[x] + unbilled <= attempts[x] + stalls[x] + If1(job[x] = "active")
           /\ usage[x] + applying <= calls[x]
  BY DEF CreditInv, ItemsPaid, CallsPaid, UsagePaid, Reruns
<1> HIDE DEF unacked, unacked2, unbilled, unbilled2, applying, applying2
<1>step. Goal
  <2> USE <1>type, <1>nat, <1>before, PipelineAssumption
      DEF TypeOK, QueueConsistent, Statuses, IntakeStates, JobStates, RunStates,
          Unacked, Unbilled, If1,
          rowVars, jobVars, workerVars, dashboardVars, historyVars
  <2>1. ASSUME NEW r \in Receipts, UploadImages(r) PROVE Goal
    <3>1. UNCHANGED workerVars
      BY <2>1 DEF UploadImages
    <3>2. QED
      BY <2>1, <3>1, <1>stay DEF UploadImages
  <2>2. ASSUME NEW r \in Receipts, CreatePending(r) PROVE Goal
    <3>1. UNCHANGED workerVars
      BY <2>2 DEF CreatePending
    <3>2. QED
      BY <2>2, <3>1, <1>stay DEF CreatePending
  <2>3. ASSUME NEW r \in Receipts, Enqueue(r) PROVE Goal
    <3>1. UNCHANGED workerVars
      BY <2>3 DEF Enqueue
    <3>2. QED
      BY <2>3, <3>1, <1>stay DEF Enqueue
  <2>4. ASSUME NEW r \in Receipts, IntakeAborts(r) PROVE Goal
    <3>1. UNCHANGED workerVars
      BY <2>4 DEF IntakeAborts
    <3>2. QED
      BY <2>4, <3>1, <1>stay DEF IntakeAborts
  <2>5. ASSUME NEW r \in Receipts, BackoffExpires(r) PROVE Goal
    <3>1. UNCHANGED workerVars
      BY <2>5 DEF BackoffExpires
    <3>2. QED
      BY <2>5, <3>1, <1>stay DEF BackoffExpires
  <2>6. ASSUME NEW r \in Receipts, StalledJob(r) PROVE Goal
    <3>1. UNCHANGED workerVars
      BY <2>6 DEF StalledJob
    <3>2. QED
      BY <2>6, <3>1, <1>stay DEF StalledJob
  <2>7. ASSUME NEW r \in Receipts, Poll(r) PROVE Goal
    <3>1. UNCHANGED workerVars
      BY <2>7 DEF Poll
    <3>2. QED
      BY <2>7, <3>1, <1>stay DEF Poll
  <2>8. ASSUME NEW r \in Receipts, Confirm(r) PROVE Goal
    <3>1. UNCHANGED workerVars
      BY <2>8 DEF Confirm, ConfirmRow, SetStatus
    <3>2. QED
      BY <2>8, <3>1, <1>stay DEF Confirm, ConfirmRow, SetStatus
  <2>9. ASSUME NEW r \in Receipts, ConfirmDirectly(r) PROVE Goal
    <3>1. UNCHANGED workerVars
      BY <2>9 DEF ConfirmDirectly, ConfirmRow, SetStatus
    <3>2. QED
      BY <2>9, <3>1, <1>stay DEF ConfirmDirectly, ConfirmRow, SetStatus
  <2>10. ASSUME NEW w \in Workers, MarkProcessing(w) PROVE Goal
    <3>1. Moved(w, "reading", cur[w])
      BY <2>10, <1>goto DEF MarkProcessing
    <3>2. QED
      BY <2>10, <3>1 DEF MarkProcessing, SetStatus, Goto
  <2>11. ASSUME NEW w \in Workers, MarkProcessingThrows(w) PROVE Goal
    <3>1. Moved(w, "nacking", cur[w])
      BY <2>11, <1>goto DEF MarkProcessingThrows
    <3>2. QED
      BY <2>11, <3>1 DEF MarkProcessingThrows, SetStatus, Goto
  <2>12. ASSUME NEW w \in Workers, ReadImages(w) PROVE Goal
    <3>1. Moved(w, "extracting", cur[w])
      BY <2>12, <1>goto DEF ReadImages
    <3>2. QED
      BY <2>12, <3>1 DEF ReadImages, Goto
  <2>13. ASSUME NEW w \in Workers, ExtractReceipt(w) PROVE Goal
    <3>1. PICK there \in {"applying", "failing"} :
            Moved(w, there, cur[w]) /\ Goto(w, there)
      BY <2>13, <1>goto DEF ExtractReceipt
    <3>2. QED
      BY <2>13, <3>1 DEF ExtractReceipt, Goto
  <2>14. ASSUME NEW w \in Workers, TryThrows(w) PROVE Goal
    <3>1. Moved(w, "failing", cur[w])
      BY <2>14, <1>goto DEF TryThrows
    <3>2. QED
      BY <2>14, <3>1 DEF TryThrows, Goto
  <2>15. ASSUME NEW w \in Workers, ApplyParsedResult(w) PROVE Goal
    <3>1. Moved(w, "acking", cur[w])
      BY <2>15, <1>goto DEF ApplyParsedResult
    <3>2. QED
      BY <2>15, <3>1 DEF ApplyParsedResult, CommitParsedResult, SetStatus, Goto
  <2>16. ASSUME NEW w \in Workers, ApplyAckLost(w) PROVE Goal
    <3>1. Moved(w, "failing", cur[w])
      BY <2>16, <1>goto DEF ApplyAckLost
    <3>2. QED
      BY <2>16, <3>1 DEF ApplyAckLost, CommitParsedResult, SetStatus, Goto
  <2>17. ASSUME NEW w \in Workers, MarkFailed(w) PROVE Goal
    <3>1. Moved(w, "nacking", cur[w])
      BY <2>17, <1>goto DEF MarkFailed
    <3>2. QED
      BY <2>17, <3>1 DEF MarkFailed, SetStatus, Goto
  <2>18. ASSUME NEW w \in Workers, JobCompletes(w) PROVE Goal
    <3>1. Moved(w, "idle", None)
      BY <2>18, <1>move DEF JobCompletes, FinishJob, Goto
    <3>2. QED
      BY <2>18, <3>1 DEF JobCompletes, FinishJob, Goto
  <2>19. ASSUME NEW w \in Workers, JobFails(w) PROVE Goal
    <3>1. Moved(w, "idle", None)
      BY <2>19, <1>move DEF JobFails, FinishJob, Goto
    <3>2. QED
      BY <2>19, <3>1 DEF JobFails, FinishJob, Goto
  <2>20. ASSUME NEW w \in Workers, Crash(w) PROVE Goal
    <3>1. Moved(w, "idle", None)
      BY <2>20, <1>move DEF Crash, Goto
    <3>2. QED
      BY <2>20, <3>1 DEF Crash, Goto
  <2>21. ASSUME NEW w \in Workers, LoseLock(w) PROVE Goal
    <3>1. UNCHANGED workerVars
      BY <2>21 DEF LoseLock
    <3>2. QED
      BY <2>21, <3>1, <1>stay DEF LoseLock
  <2>22. ASSUME NEW w \in Workers, NEW r \in Receipts, Fetch(w, r) PROVE Goal
    <3>1. Moved(w, "marking", r)
      BY <2>22, <1>move DEF Fetch, Goto
    <3>2. QED
      BY <2>22, <3>1 DEF Fetch, Goto
  <2>23. CASE UNCHANGED vars
    <3>1. UNCHANGED workerVars
      BY <2>23 DEF vars
    <3>2. QED
      BY <2>23, <3>1, <1>stay DEF vars
  <2>24. QED
    BY <2>1, <2>2, <2>3, <2>4, <2>5, <2>6, <2>7, <2>8, <2>9, <2>10, <2>11,
       <2>12, <2>13, <2>14, <2>15, <2>16, <2>17, <2>18, <2>19, <2>20, <2>21,
       <2>22, <2>23 DEF Next, Intake, WorkerStep
<1>next. /\ NextRunsIn(x, Unacked) = RunsIn(x, Unacked)'
         /\ NextRunsIn(x, Unbilled) = RunsIn(x, Unbilled)'
         /\ NextRunsIn(x, {"applying"}) = RunsIn(x, {"applying"})'
  BY DEF NextRunsIn, RunsIn, Unacked, Unbilled, RunStates
<1>done. QED
  BY <1>step, <1>next DEF ItemsPaid, CallsPaid, UsagePaid, Reruns,
                          unacked2, unbilled2, applying2

-----------------------------------------------------------------------------
(* The theorems.                                                           *)

\* Nothing is owed at first.
LEMMA CreditInit == Init => CreditInv
<1> SUFFICES ASSUME Init PROVE CreditInv
  OBVIOUS
<1>1. TypeOK /\ QueueConsistent
  BY PipelineAssumption DEF Init, TypeOK, QueueConsistent, Statuses,
     IntakeStates, JobStates, RunStates
<1>2. ASSUME NEW r \in Receipts PROVE ItemsPaid(r) /\ CallsPaid(r) /\ UsagePaid(r)
  <2>2. /\ RunsIn(r, Unacked) = {}
        /\ RunsIn(r, Unbilled) = {}
        /\ RunsIn(r, {"applying"}) = {}
    BY DEF Init, RunsIn, Unacked, Unbilled, RunStates
  <2>3. Cardinality({}) = 0
    BY FS_EmptySet
  <2>4. QED
    BY <2>2, <2>3 DEF Init, ItemsPaid, CallsPaid, UsagePaid, Reruns, If1
<1>3. QED
  BY <1>1, <1>2 DEF CreditInv

\* The inductive invariant of the two bounds, for any faults and clients.
THEOREM CreditInvariant == Spec => []CreditInv
<1>1. CreditInv /\ [Next]_vars => CreditInv'
  <2> SUFFICES ASSUME CreditInv, [Next]_vars PROVE CreditInv'
    OBVIOUS
  <2>1. TypeOK' /\ QueueConsistent'
    BY TypeStep, QueueStep DEF CreditInv
  <2>2. \A r \in Receipts : ItemsPaid(r)' /\ CallsPaid(r)' /\ UsagePaid(r)'
    BY CreditStep
  <2>3. QED
    BY <2>1, <2>2 DEF CreditInv
<1>2. QED
  BY CreditInit, <1>1, PTL DEF Spec

\* Every variable keeps its type: in particular attemptsMade and the stalled
\* counter never pass their limits.
THEOREM TypeCorrect == Spec => []TypeOK
<1>1. CreditInv => TypeOK
  BY DEF CreditInv
<1>2. QED
  BY CreditInvariant, <1>1, PTL

\* A set of line items beyond the first is paid for by a stalled run or by a
\* commit reported as failed, whatever the interleaving of workers.
THEOREM DuplicatesAreAccounted == Spec => []DuplicatesAccounted
<1>1. CreditInv => DuplicatesAccounted
  <2> SUFFICES ASSUME CreditInv, NEW r \in Receipts
               PROVE  items[r] <= Reruns(r) + If1(job[r] \in {"active", "completed"})
    BY DEF DuplicatesAccounted
  <2>1. Cardinality(RunsIn(r, Unacked)) \in Nat
    BY FS_Subset, FS_CardinalityType, PipelineAssumption DEF RunsIn
  <2>2. QED
    BY <2>1, PipelineAssumption
       DEF CreditInv, TypeOK, ItemsPaid, Reruns, If1
<1>2. QED
  BY CreditInvariant, <1>1, PTL

\* The Claude calls billed to a receipt never exceed attempts + stalls allowed.
THEOREM CostIsCapped == Spec => []CostCapped
<1>1. CreditInv => CostCapped
  <2> SUFFICES ASSUME CreditInv, NEW r \in Receipts
               PROVE  usage[r] <= calls[r] /\ calls[r] <= MaxAttempts + MaxStalled
    BY DEF CostCapped
  <2>1. /\ Cardinality(RunsIn(r, Unbilled)) \in Nat
        /\ Cardinality(RunsIn(r, {"applying"})) \in Nat
    BY FS_Subset, FS_CardinalityType, PipelineAssumption DEF RunsIn
  <2>2. QED
    BY <2>1, PipelineAssumption
       DEF CreditInv, TypeOK, QueueConsistent, CallsPaid, UsagePaid, If1
<1>2. QED
  BY CreditInvariant, <1>1, PTL

-----------------------------------------------------------------------------
(* Statuses: the invariants behind CountedIsRead, CompletedIsCounted,      *)
(* ExhaustedIsReported and ConfirmedAsShown, each under its own faults.    *)

ReadInv ==
  \A r \in Receipts :
    offered[r] <= items[r] /\ (status[r] \in COUNTED_STATUSES => items[r] > 0)

\* No run outlives its lock.
RunsAreLocked == \A w \in Workers : pc[w] # "idle" => lock[cur[w]] = w

CompletedInv ==
  /\ \A r \in Receipts : job[r] = "completed" => status[r] \in COUNTED_STATUSES
  /\ \A w \in Workers : pc[w] = "acking" => status[cur[w]] \in COUNTED_STATUSES

Reported(r) == status[r] = "FAILED" \/ (status[r] = "CONFIRMED" /\ items[r] > 0)

ReportedInv ==
  /\ \A r \in Receipts : job[r] = "failed" /\ stalls[r] <= MaxStalled => Reported(r)
  /\ \A w \in Workers : pc[w] = "nacking" => Reported(cur[w])

\* Nothing is ever rerun: a written receipt is about to be acked, or done.
OnceInv ==
  \A r \in Receipts :
    /\ stalls[r] = 0 /\ lostAcks[r] = 0
    /\ job[r] = "active" => lock[r] # None
    /\ offered[r] <= items[r]
    /\ items[r] > 0 =>
         /\ status[r] \in COUNTED_STATUSES
         /\ job[r] = "completed" \/ (job[r] = "active" /\ pc[lock[r]] = "acking")
    /\ confirmed[r] > 0 => status[r] = "CONFIRMED" /\ items[r] = confirmed[r]

\* Every action keeps ReadInv: a counted or offered receipt has its items.
LEMMA ReadStep ==
  ASSUME "api" \notin Clients, TypeOK, QueueConsistent, ReadInv, [Next]_vars
  PROVE  ReadInv'
<1> USE PipelineAssumption
    DEF ReadInv, TypeOK, QueueConsistent,
        Statuses, IntakeStates, JobStates, RunStates, COUNTED_STATUSES,
        rowVars, jobVars, workerVars, dashboardVars, historyVars
<1>1. ASSUME NEW r \in Receipts, UploadImages(r) PROVE ReadInv'
  BY <1>1 DEF UploadImages
<1>2. ASSUME NEW r \in Receipts, CreatePending(r) PROVE ReadInv'
  BY <1>2 DEF CreatePending
<1>3. ASSUME NEW r \in Receipts, Enqueue(r) PROVE ReadInv'
  BY <1>3 DEF Enqueue
<1>4. ASSUME NEW r \in Receipts, IntakeAborts(r) PROVE ReadInv'
  BY <1>4 DEF IntakeAborts
<1>5. ASSUME NEW r \in Receipts, BackoffExpires(r) PROVE ReadInv'
  BY <1>5 DEF BackoffExpires
<1>6. ASSUME NEW r \in Receipts, StalledJob(r) PROVE ReadInv'
  BY <1>6 DEF StalledJob
<1>7. ASSUME NEW r \in Receipts, Poll(r) PROVE ReadInv'
  BY <1>7 DEF Poll
<1>8. ASSUME NEW r \in Receipts, Confirm(r) PROVE ReadInv'
  BY <1>8 DEF Confirm, ConfirmRow, SetStatus
<1>9. ASSUME NEW r \in Receipts, ConfirmDirectly(r) PROVE ReadInv'
  BY <1>9 DEF ConfirmDirectly, ConfirmRow, SetStatus
<1>10. ASSUME NEW w \in Workers, MarkProcessing(w) PROVE ReadInv'
  BY <1>10 DEF MarkProcessing, SetStatus, Goto
<1>11. ASSUME NEW w \in Workers, MarkProcessingThrows(w) PROVE ReadInv'
  BY <1>11 DEF MarkProcessingThrows, SetStatus, Goto
<1>12. ASSUME NEW w \in Workers, ReadImages(w) PROVE ReadInv'
  BY <1>12 DEF ReadImages, Goto
<1>13. ASSUME NEW w \in Workers, ExtractReceipt(w) PROVE ReadInv'
  BY <1>13 DEF ExtractReceipt, Goto
<1>14. ASSUME NEW w \in Workers, TryThrows(w) PROVE ReadInv'
  BY <1>14 DEF TryThrows, Goto
<1>15. ASSUME NEW w \in Workers, ApplyParsedResult(w) PROVE ReadInv'
  BY <1>15 DEF ApplyParsedResult, CommitParsedResult, SetStatus, Goto
<1>16. ASSUME NEW w \in Workers, ApplyAckLost(w) PROVE ReadInv'
  BY <1>16 DEF ApplyAckLost, CommitParsedResult, SetStatus, Goto
<1>17. ASSUME NEW w \in Workers, MarkFailed(w) PROVE ReadInv'
  BY <1>17 DEF MarkFailed, SetStatus, Goto
<1>18. ASSUME NEW w \in Workers, JobCompletes(w) PROVE ReadInv'
  BY <1>18 DEF JobCompletes, FinishJob, Goto
<1>19. ASSUME NEW w \in Workers, JobFails(w) PROVE ReadInv'
  BY <1>19 DEF JobFails, FinishJob, Goto
<1>20. ASSUME NEW w \in Workers, Crash(w) PROVE ReadInv'
  BY <1>20 DEF Crash, Goto
<1>21. ASSUME NEW w \in Workers, LoseLock(w) PROVE ReadInv'
  BY <1>21 DEF LoseLock
<1>22. ASSUME NEW w \in Workers, NEW r \in Receipts, Fetch(w, r) PROVE ReadInv'
  BY <1>22 DEF Fetch, Goto
<1>23. CASE UNCHANGED vars
  BY <1>23 DEF vars
<1>24. QED
  BY <1>1, <1>2, <1>3, <1>4, <1>5, <1>6, <1>7, <1>8, <1>9, <1>10, <1>11, <1>12,
     <1>13, <1>14, <1>15, <1>16, <1>17, <1>18, <1>19, <1>20, <1>21, <1>22, <1>23
     DEF Next, Intake, WorkerStep

\* Every action keeps RunsAreLocked while no run loses its lock.
LEMMA LockedStep ==
  ASSUME "lockLoss" \notin Faults, TypeOK, QueueConsistent, RunsAreLocked, [Next]_vars
  PROVE  RunsAreLocked'
<1> USE PipelineAssumption
    DEF RunsAreLocked, TypeOK, QueueConsistent,
        Statuses, IntakeStates, JobStates, RunStates, COUNTED_STATUSES,
        rowVars, jobVars, workerVars, dashboardVars, historyVars
<1>1. ASSUME NEW r \in Receipts, UploadImages(r) PROVE RunsAreLocked'
  BY <1>1 DEF UploadImages
<1>2. ASSUME NEW r \in Receipts, CreatePending(r) PROVE RunsAreLocked'
  BY <1>2 DEF CreatePending
<1>3. ASSUME NEW r \in Receipts, Enqueue(r) PROVE RunsAreLocked'
  BY <1>3 DEF Enqueue
<1>4. ASSUME NEW r \in Receipts, IntakeAborts(r) PROVE RunsAreLocked'
  BY <1>4 DEF IntakeAborts
<1>5. ASSUME NEW r \in Receipts, BackoffExpires(r) PROVE RunsAreLocked'
  BY <1>5 DEF BackoffExpires
<1>6. ASSUME NEW r \in Receipts, StalledJob(r) PROVE RunsAreLocked'
  BY <1>6 DEF StalledJob
<1>7. ASSUME NEW r \in Receipts, Poll(r) PROVE RunsAreLocked'
  BY <1>7 DEF Poll
<1>8. ASSUME NEW r \in Receipts, Confirm(r) PROVE RunsAreLocked'
  BY <1>8 DEF Confirm, ConfirmRow, SetStatus
<1>9. ASSUME NEW r \in Receipts, ConfirmDirectly(r) PROVE RunsAreLocked'
  BY <1>9 DEF ConfirmDirectly, ConfirmRow, SetStatus
<1>10. ASSUME NEW w \in Workers, MarkProcessing(w) PROVE RunsAreLocked'
  BY <1>10 DEF MarkProcessing, SetStatus, Goto
<1>11. ASSUME NEW w \in Workers, MarkProcessingThrows(w) PROVE RunsAreLocked'
  BY <1>11 DEF MarkProcessingThrows, SetStatus, Goto
<1>12. ASSUME NEW w \in Workers, ReadImages(w) PROVE RunsAreLocked'
  BY <1>12 DEF ReadImages, Goto
<1>13. ASSUME NEW w \in Workers, ExtractReceipt(w) PROVE RunsAreLocked'
  BY <1>13 DEF ExtractReceipt, Goto
<1>14. ASSUME NEW w \in Workers, TryThrows(w) PROVE RunsAreLocked'
  BY <1>14 DEF TryThrows, Goto
<1>15. ASSUME NEW w \in Workers, ApplyParsedResult(w) PROVE RunsAreLocked'
  BY <1>15 DEF ApplyParsedResult, CommitParsedResult, SetStatus, Goto
<1>16. ASSUME NEW w \in Workers, ApplyAckLost(w) PROVE RunsAreLocked'
  BY <1>16 DEF ApplyAckLost, CommitParsedResult, SetStatus, Goto
<1>17. ASSUME NEW w \in Workers, MarkFailed(w) PROVE RunsAreLocked'
  BY <1>17 DEF MarkFailed, SetStatus, Goto
<1>18. ASSUME NEW w \in Workers, JobCompletes(w) PROVE RunsAreLocked'
  BY <1>18 DEF JobCompletes, FinishJob, Goto
<1>19. ASSUME NEW w \in Workers, JobFails(w) PROVE RunsAreLocked'
  BY <1>19 DEF JobFails, FinishJob, Goto
<1>20. ASSUME NEW w \in Workers, Crash(w) PROVE RunsAreLocked'
  BY <1>20 DEF Crash, Goto
<1>21. ASSUME NEW w \in Workers, LoseLock(w) PROVE RunsAreLocked'
  BY <1>21 DEF LoseLock
<1>22. ASSUME NEW w \in Workers, NEW r \in Receipts, Fetch(w, r) PROVE RunsAreLocked'
  BY <1>22 DEF Fetch, Goto
<1>23. CASE UNCHANGED vars
  BY <1>23 DEF vars
<1>24. QED
  BY <1>1, <1>2, <1>3, <1>4, <1>5, <1>6, <1>7, <1>8, <1>9, <1>10, <1>11, <1>12,
     <1>13, <1>14, <1>15, <1>16, <1>17, <1>18, <1>19, <1>20, <1>21, <1>22, <1>23
     DEF Next, Intake, WorkerStep

\* Every action keeps CompletedInv: a job that is over is not touched.
LEMMA CompletedStep ==
  ASSUME TypeOK, QueueConsistent, RunsAreLocked, CompletedInv, [Next]_vars
  PROVE  CompletedInv'
<1> USE PipelineAssumption
    DEF CompletedInv, RunsAreLocked, TypeOK, QueueConsistent,
        Statuses, IntakeStates, JobStates, RunStates, COUNTED_STATUSES,
        rowVars, jobVars, workerVars, dashboardVars, historyVars
<1>1. ASSUME NEW r \in Receipts, UploadImages(r) PROVE CompletedInv'
  BY <1>1 DEF UploadImages
<1>2. ASSUME NEW r \in Receipts, CreatePending(r) PROVE CompletedInv'
  BY <1>2 DEF CreatePending
<1>3. ASSUME NEW r \in Receipts, Enqueue(r) PROVE CompletedInv'
  BY <1>3 DEF Enqueue
<1>4. ASSUME NEW r \in Receipts, IntakeAborts(r) PROVE CompletedInv'
  BY <1>4 DEF IntakeAborts
<1>5. ASSUME NEW r \in Receipts, BackoffExpires(r) PROVE CompletedInv'
  BY <1>5 DEF BackoffExpires
<1>6. ASSUME NEW r \in Receipts, StalledJob(r) PROVE CompletedInv'
  BY <1>6 DEF StalledJob
<1>7. ASSUME NEW r \in Receipts, Poll(r) PROVE CompletedInv'
  BY <1>7 DEF Poll
<1>8. ASSUME NEW r \in Receipts, Confirm(r) PROVE CompletedInv'
  BY <1>8 DEF Confirm, ConfirmRow, SetStatus
<1>9. ASSUME NEW r \in Receipts, ConfirmDirectly(r) PROVE CompletedInv'
  BY <1>9 DEF ConfirmDirectly, ConfirmRow, SetStatus
<1>10. ASSUME NEW w \in Workers, MarkProcessing(w) PROVE CompletedInv'
  BY <1>10 DEF MarkProcessing, SetStatus, Goto
<1>11. ASSUME NEW w \in Workers, MarkProcessingThrows(w) PROVE CompletedInv'
  BY <1>11 DEF MarkProcessingThrows, SetStatus, Goto
<1>12. ASSUME NEW w \in Workers, ReadImages(w) PROVE CompletedInv'
  BY <1>12 DEF ReadImages, Goto
<1>13. ASSUME NEW w \in Workers, ExtractReceipt(w) PROVE CompletedInv'
  BY <1>13 DEF ExtractReceipt, Goto
<1>14. ASSUME NEW w \in Workers, TryThrows(w) PROVE CompletedInv'
  BY <1>14 DEF TryThrows, Goto
<1>15. ASSUME NEW w \in Workers, ApplyParsedResult(w) PROVE CompletedInv'
  BY <1>15 DEF ApplyParsedResult, CommitParsedResult, SetStatus, Goto
<1>16. ASSUME NEW w \in Workers, ApplyAckLost(w) PROVE CompletedInv'
  BY <1>16 DEF ApplyAckLost, CommitParsedResult, SetStatus, Goto
<1>17. ASSUME NEW w \in Workers, MarkFailed(w) PROVE CompletedInv'
  BY <1>17 DEF MarkFailed, SetStatus, Goto
<1>18. ASSUME NEW w \in Workers, JobCompletes(w) PROVE CompletedInv'
  BY <1>18 DEF JobCompletes, FinishJob, Goto
<1>19. ASSUME NEW w \in Workers, JobFails(w) PROVE CompletedInv'
  BY <1>19 DEF JobFails, FinishJob, Goto
<1>20. ASSUME NEW w \in Workers, Crash(w) PROVE CompletedInv'
  BY <1>20 DEF Crash, Goto
<1>21. ASSUME NEW w \in Workers, LoseLock(w) PROVE CompletedInv'
  BY <1>21 DEF LoseLock
<1>22. ASSUME NEW w \in Workers, NEW r \in Receipts, Fetch(w, r) PROVE CompletedInv'
  BY <1>22 DEF Fetch, Goto
<1>23. CASE UNCHANGED vars
  BY <1>23 DEF vars
<1>24. QED
  BY <1>1, <1>2, <1>3, <1>4, <1>5, <1>6, <1>7, <1>8, <1>9, <1>10, <1>11, <1>12,
     <1>13, <1>14, <1>15, <1>16, <1>17, <1>18, <1>19, <1>20, <1>21, <1>22, <1>23
     DEF Next, Intake, WorkerStep

\* Every action keeps ReportedInv: a run that ends in failure has said so.
LEMMA ReportedStep ==
  ASSUME Faults \subseteq {"intake", "crash"}, "api" \notin Clients,
         TypeOK, QueueConsistent, RunsAreLocked, ReadInv, ReportedInv, [Next]_vars
  PROVE  ReportedInv'
<1> USE PipelineAssumption
    DEF ReportedInv, Reported, RunsAreLocked, ReadInv, TypeOK, QueueConsistent,
        Statuses, IntakeStates, JobStates, RunStates, COUNTED_STATUSES,
        rowVars, jobVars, workerVars, dashboardVars, historyVars
<1>1. ASSUME NEW r \in Receipts, UploadImages(r) PROVE ReportedInv'
  BY <1>1 DEF UploadImages
<1>2. ASSUME NEW r \in Receipts, CreatePending(r) PROVE ReportedInv'
  BY <1>2 DEF CreatePending
<1>3. ASSUME NEW r \in Receipts, Enqueue(r) PROVE ReportedInv'
  BY <1>3 DEF Enqueue
<1>4. ASSUME NEW r \in Receipts, IntakeAborts(r) PROVE ReportedInv'
  BY <1>4 DEF IntakeAborts
<1>5. ASSUME NEW r \in Receipts, BackoffExpires(r) PROVE ReportedInv'
  BY <1>5 DEF BackoffExpires
<1>6. ASSUME NEW r \in Receipts, StalledJob(r) PROVE ReportedInv'
  BY <1>6 DEF StalledJob
<1>7. ASSUME NEW r \in Receipts, Poll(r) PROVE ReportedInv'
  BY <1>7 DEF Poll
<1>8. ASSUME NEW r \in Receipts, Confirm(r) PROVE ReportedInv'
  BY <1>8 DEF Confirm, ConfirmRow, SetStatus
<1>9. ASSUME NEW r \in Receipts, ConfirmDirectly(r) PROVE ReportedInv'
  BY <1>9 DEF ConfirmDirectly, ConfirmRow, SetStatus
<1>10. ASSUME NEW w \in Workers, MarkProcessing(w) PROVE ReportedInv'
  BY <1>10 DEF MarkProcessing, SetStatus, Goto
<1>11. ASSUME NEW w \in Workers, MarkProcessingThrows(w) PROVE ReportedInv'
  BY <1>11 DEF MarkProcessingThrows, SetStatus, Goto
<1>12. ASSUME NEW w \in Workers, ReadImages(w) PROVE ReportedInv'
  BY <1>12 DEF ReadImages, Goto
<1>13. ASSUME NEW w \in Workers, ExtractReceipt(w) PROVE ReportedInv'
  BY <1>13 DEF ExtractReceipt, Goto
<1>14. ASSUME NEW w \in Workers, TryThrows(w) PROVE ReportedInv'
  BY <1>14 DEF TryThrows, Goto
<1>15. ASSUME NEW w \in Workers, ApplyParsedResult(w) PROVE ReportedInv'
  BY <1>15 DEF ApplyParsedResult, CommitParsedResult, SetStatus, Goto
<1>16. ASSUME NEW w \in Workers, ApplyAckLost(w) PROVE ReportedInv'
  BY <1>16 DEF ApplyAckLost, CommitParsedResult, SetStatus, Goto
<1>17. ASSUME NEW w \in Workers, MarkFailed(w) PROVE ReportedInv'
  BY <1>17 DEF MarkFailed, SetStatus, Goto
<1>18. ASSUME NEW w \in Workers, JobCompletes(w) PROVE ReportedInv'
  BY <1>18 DEF JobCompletes, FinishJob, Goto
<1>19. ASSUME NEW w \in Workers, JobFails(w) PROVE ReportedInv'
  BY <1>19 DEF JobFails, FinishJob, Goto
<1>20. ASSUME NEW w \in Workers, Crash(w) PROVE ReportedInv'
  BY <1>20 DEF Crash, Goto
<1>21. ASSUME NEW w \in Workers, LoseLock(w) PROVE ReportedInv'
  BY <1>21 DEF LoseLock
<1>22. ASSUME NEW w \in Workers, NEW r \in Receipts, Fetch(w, r) PROVE ReportedInv'
  BY <1>22 DEF Fetch, Goto
<1>23. CASE UNCHANGED vars
  BY <1>23 DEF vars
<1>24. QED
  BY <1>1, <1>2, <1>3, <1>4, <1>5, <1>6, <1>7, <1>8, <1>9, <1>10, <1>11, <1>12,
     <1>13, <1>14, <1>15, <1>16, <1>17, <1>18, <1>19, <1>20, <1>21, <1>22, <1>23
     DEF Next, Intake, WorkerStep

\* Every action keeps OnceInv while nothing makes a run repeat.
LEMMA OnceStep ==
  ASSUME Faults \cap {"crash", "lockLoss", "lostAck"} = {},
         TypeOK, QueueConsistent, DuplicatesAccounted', RunsAreLocked, OnceInv, [Next]_vars
  PROVE  OnceInv'
<1> USE PipelineAssumption
    DEF OnceInv, RunsAreLocked, DuplicatesAccounted, Reruns, If1, TypeOK, QueueConsistent,
        Statuses, IntakeStates, JobStates, RunStates, COUNTED_STATUSES,
        rowVars, jobVars, workerVars, dashboardVars, historyVars
<1>1. ASSUME NEW r \in Receipts, UploadImages(r) PROVE OnceInv'
  BY <1>1 DEF UploadImages
<1>2. ASSUME NEW r \in Receipts, CreatePending(r) PROVE OnceInv'
  BY <1>2 DEF CreatePending
<1>3. ASSUME NEW r \in Receipts, Enqueue(r) PROVE OnceInv'
  BY <1>3 DEF Enqueue
<1>4. ASSUME NEW r \in Receipts, IntakeAborts(r) PROVE OnceInv'
  BY <1>4 DEF IntakeAborts
<1>5. ASSUME NEW r \in Receipts, BackoffExpires(r) PROVE OnceInv'
  BY <1>5 DEF BackoffExpires
<1>6. ASSUME NEW r \in Receipts, StalledJob(r) PROVE OnceInv'
  BY <1>6 DEF StalledJob
<1>7. ASSUME NEW r \in Receipts, Poll(r) PROVE OnceInv'
  BY <1>7 DEF Poll
<1>8. ASSUME NEW r \in Receipts, Confirm(r) PROVE OnceInv'
  BY <1>8 DEF Confirm, ConfirmRow, SetStatus
<1>9. ASSUME NEW r \in Receipts, ConfirmDirectly(r) PROVE OnceInv'
  BY <1>9 DEF ConfirmDirectly, ConfirmRow, SetStatus
<1>10. ASSUME NEW w \in Workers, MarkProcessing(w) PROVE OnceInv'
  BY <1>10 DEF MarkProcessing, SetStatus, Goto
<1>11. ASSUME NEW w \in Workers, MarkProcessingThrows(w) PROVE OnceInv'
  BY <1>11 DEF MarkProcessingThrows, SetStatus, Goto
<1>12. ASSUME NEW w \in Workers, ReadImages(w) PROVE OnceInv'
  BY <1>12 DEF ReadImages, Goto
<1>13. ASSUME NEW w \in Workers, ExtractReceipt(w) PROVE OnceInv'
  BY <1>13 DEF ExtractReceipt, Goto
<1>14. ASSUME NEW w \in Workers, TryThrows(w) PROVE OnceInv'
  BY <1>14 DEF TryThrows, Goto
<1>15. ASSUME NEW w \in Workers, ApplyParsedResult(w) PROVE OnceInv'
  BY <1>15 DEF ApplyParsedResult, CommitParsedResult, SetStatus, Goto
<1>16. ASSUME NEW w \in Workers, ApplyAckLost(w) PROVE OnceInv'
  BY <1>16 DEF ApplyAckLost, CommitParsedResult, SetStatus, Goto
<1>17. ASSUME NEW w \in Workers, MarkFailed(w) PROVE OnceInv'
  BY <1>17 DEF MarkFailed, SetStatus, Goto
<1>18. ASSUME NEW w \in Workers, JobCompletes(w) PROVE OnceInv'
  BY <1>18 DEF JobCompletes, FinishJob, Goto
<1>19. ASSUME NEW w \in Workers, JobFails(w) PROVE OnceInv'
  BY <1>19 DEF JobFails, FinishJob, Goto
<1>20. ASSUME NEW w \in Workers, Crash(w) PROVE OnceInv'
  BY <1>20 DEF Crash, Goto
<1>21. ASSUME NEW w \in Workers, LoseLock(w) PROVE OnceInv'
  BY <1>21 DEF LoseLock
<1>22. ASSUME NEW w \in Workers, NEW r \in Receipts, Fetch(w, r) PROVE OnceInv'
  BY <1>22 DEF Fetch, Goto
<1>23. CASE UNCHANGED vars
  BY <1>23 DEF vars
<1>24. QED
  BY <1>1, <1>2, <1>3, <1>4, <1>5, <1>6, <1>7, <1>8, <1>9, <1>10, <1>11, <1>12,
     <1>13, <1>14, <1>15, <1>16, <1>17, <1>18, <1>19, <1>20, <1>21, <1>22, <1>23
     DEF Next, Intake, WorkerStep

-----------------------------------------------------------------------------
\* The invariants about statuses hold at first.
LEMMA StatusInit == Init => ReadInv /\ RunsAreLocked /\ CompletedInv /\ ReportedInv /\ OnceInv
BY PipelineAssumption
   DEF Init, ReadInv, RunsAreLocked, CompletedInv, ReportedInv, Reported, OnceInv,
       COUNTED_STATUSES

\* However stale the dashboard, a counted receipt has its items.
THEOREM CountedReceiptsAreRead == Spec => []CountedIsRead
<1>1. CASE "api" \in Clients
  <2>1. CountedIsRead
    BY <1>1 DEF CountedIsRead
  <2>2. QED
    BY <2>1, PTL
<1>2. CASE "api" \notin Clients
  <2>1. CreditInv /\ ReadInv /\ [Next]_vars => ReadInv'
    BY <1>2, ReadStep DEF CreditInv
  <2>2. ReadInv => CountedIsRead
    BY DEF ReadInv, CountedIsRead
  <2>3. QED
    BY <2>1, <2>2, StatusInit, CreditInvariant, PTL DEF Spec
<1>3. QED
  BY <1>1, <1>2

\* While no lock is lost, whoever processes a job holds its lock.
LEMMA LockedInvariant ==
  ASSUME "lockLoss" \notin Faults
  PROVE  Spec => []RunsAreLocked
<1>1. CreditInv /\ RunsAreLocked /\ [Next]_vars => RunsAreLocked'
  BY LockedStep DEF CreditInv
<1>2. QED
  BY <1>1, StatusInit, CreditInvariant, PTL DEF Spec

\* What the queue reports as completed is counted, unless a run outlives its lock.
THEOREM CompletedJobsAreCounted == Spec => []CompletedIsCounted
<1>1. CASE "lockLoss" \in Faults
  <2>1. CompletedIsCounted
    BY <1>1 DEF CompletedIsCounted
  <2>2. QED
    BY <2>1, PTL
<1>2. CASE "lockLoss" \notin Faults
  <2>1. CreditInv /\ RunsAreLocked /\ CompletedInv /\ [Next]_vars => CompletedInv'
    BY CompletedStep DEF CreditInv
  <2>2. CompletedInv => CompletedIsCounted
    BY DEF CompletedInv, CompletedIsCounted
  <2>3. Spec => []RunsAreLocked
    BY <1>2, LockedInvariant
  <2>4. QED
    BY <2>1, <2>2, <2>3, StatusInit, CreditInvariant, PTL DEF Spec
<1>3. QED
  BY <1>1, <1>2

\* A job out of attempts shows as FAILED, unless the user confirmed meanwhile.
THEOREM ExhaustedJobsAreReported == Spec => []ExhaustedIsReported
<1> DEFINE Reliable == Faults \subseteq {"intake", "crash"} /\ "api" \notin Clients
<1>1. CASE ~Reliable
  <2>1. ExhaustedIsReported
    BY <1>1 DEF ExhaustedIsReported
  <2>2. QED
    BY <2>1, PTL
<1>2. CASE Reliable
  <2>1. CreditInv /\ ReadInv /\ [Next]_vars => ReadInv'
    BY <1>2, ReadStep DEF CreditInv
  <2>2. ASSUME CreditInv, RunsAreLocked, ReadInv, ReportedInv, [Next]_vars
        PROVE  ReportedInv'
    BY <1>2, <2>2, ReportedStep DEF CreditInv
  <2>3. ReportedInv => ExhaustedIsReported
    BY DEF ReportedInv, Reported, ExhaustedIsReported
  <2>4. Spec => []RunsAreLocked
    BY <1>2, LockedInvariant
  <2>5. QED
    BY <2>1, <2>2, <2>3, <2>4, StatusInit, CreditInvariant, PTL DEF Spec
<1>3. QED
  BY <1>1, <1>2

\* While nothing makes a run repeat, a receipt is read at most once.
LEMMA OnceInvariant ==
  ASSUME Faults \cap {"crash", "lockLoss", "lostAck"} = {}
  PROVE  Spec => []OnceInv
<1>1. ASSUME CreditInv, RunsAreLocked, DuplicatesAccounted', OnceInv, [Next]_vars
      PROVE  OnceInv'
  BY <1>1, OnceStep DEF CreditInv
<1>2. Spec => []RunsAreLocked
  BY LockedInvariant
<1>3. QED
  BY <1>1, <1>2, StatusInit, CreditInvariant, DuplicatesAreAccounted, PTL DEF Spec

\* Without reruns a confirmation is final and is of what the receipt holds.
THEOREM ConfirmedIsAsShown == Spec => []ConfirmedAsShown
<1> DEFINE NoRerun == Faults \cap {"crash", "lockLoss", "lostAck"} = {}
<1>1. CASE ~NoRerun
  <2>1. ConfirmedAsShown
    BY <1>1 DEF ConfirmedAsShown
  <2>2. QED
    BY <2>1, PTL
<1>2. CASE NoRerun
  <2>1. OnceInv => ConfirmedAsShown
    BY DEF OnceInv, ConfirmedAsShown
  <2>2. Spec => []OnceInv
    BY <1>2, OnceInvariant
  <2>3. QED
    BY <2>1, <2>2, PTL
<1>3. QED
  BY <1>1, <1>2

-----------------------------------------------------------------------------
(* Refinement: with nothing rerun, the rows follow ReceiptLifecycle.       *)

Unread == {"PENDING", "PROCESSING", "FAILED"}

\* What the status can be at each point of the intake and of a run.
LifecycleInv ==
  /\ \A r \in Receipts :
       /\ intake[r] \in {"new", "stored"} => status[r] = "NONE"
       /\ intake[r] \in {"created", "enqueued"} => status[r] # "NONE"
       /\ items[r] = 0 => status[r] \in Unread \cup {"NONE"}
       /\ items[r] \in {0, 1}
  /\ \A w \in Workers :
       /\ pc[w] \in {"marking", "nacking"} => status[cur[w]] \in Unread
       /\ pc[w] \in {"reading", "extracting", "applying", "failing"} =>
            status[cur[w]] = "PROCESSING"

\* The initial states are those of the lifecycle.
LEMMA LifecycleInit == Init => LifecycleInv /\ Lifecycle!Init
BY PipelineAssumption DEF Init, LifecycleInv, Lifecycle!Init, Unread

\* Every action keeps what the mapping of a step to the lifecycle needs.
LEMMA LifecycleInvStep ==
  ASSUME "api" \notin Clients, Faults \cap {"crash", "lockLoss", "lostAck"} = {},
         TypeOK, QueueConsistent, RunsAreLocked, OnceInv, OnceInv',
         DuplicatesAccounted', LifecycleInv, [Next]_vars
  PROVE  LifecycleInv'
<1> USE PipelineAssumption
    DEF LifecycleInv, Unread, RunsAreLocked, OnceInv, DuplicatesAccounted,
        Reruns, If1, TypeOK, QueueConsistent,
        Statuses, IntakeStates, JobStates, RunStates, COUNTED_STATUSES,
        rowVars, jobVars, workerVars, dashboardVars, historyVars
<1>1. ASSUME NEW r \in Receipts, UploadImages(r) PROVE LifecycleInv'
  BY <1>1 DEF UploadImages
<1>2. ASSUME NEW r \in Receipts, CreatePending(r) PROVE LifecycleInv'
  BY <1>2 DEF CreatePending
<1>3. ASSUME NEW r \in Receipts, Enqueue(r) PROVE LifecycleInv'
  BY <1>3 DEF Enqueue
<1>4. ASSUME NEW r \in Receipts, IntakeAborts(r) PROVE LifecycleInv'
  BY <1>4 DEF IntakeAborts
<1>5. ASSUME NEW r \in Receipts, BackoffExpires(r) PROVE LifecycleInv'
  BY <1>5 DEF BackoffExpires
<1>6. ASSUME NEW r \in Receipts, StalledJob(r) PROVE LifecycleInv'
  BY <1>6 DEF StalledJob
<1>7. ASSUME NEW r \in Receipts, Poll(r) PROVE LifecycleInv'
  BY <1>7 DEF Poll
<1>8. ASSUME NEW r \in Receipts, Confirm(r) PROVE LifecycleInv'
  BY <1>8 DEF Confirm, ConfirmRow, SetStatus
<1>9. ASSUME NEW r \in Receipts, ConfirmDirectly(r) PROVE LifecycleInv'
  BY <1>9 DEF ConfirmDirectly, ConfirmRow, SetStatus
<1>10. ASSUME NEW w \in Workers, MarkProcessing(w) PROVE LifecycleInv'
  BY <1>10 DEF MarkProcessing, SetStatus, Goto
<1>11. ASSUME NEW w \in Workers, MarkProcessingThrows(w) PROVE LifecycleInv'
  BY <1>11 DEF MarkProcessingThrows, SetStatus, Goto
<1>12. ASSUME NEW w \in Workers, ReadImages(w) PROVE LifecycleInv'
  BY <1>12 DEF ReadImages, Goto
<1>13. ASSUME NEW w \in Workers, ExtractReceipt(w) PROVE LifecycleInv'
  BY <1>13 DEF ExtractReceipt, Goto
<1>14. ASSUME NEW w \in Workers, TryThrows(w) PROVE LifecycleInv'
  BY <1>14 DEF TryThrows, Goto
<1>15. ASSUME NEW w \in Workers, ApplyParsedResult(w) PROVE LifecycleInv'
  BY <1>15 DEF ApplyParsedResult, CommitParsedResult, SetStatus, Goto
<1>16. ASSUME NEW w \in Workers, ApplyAckLost(w) PROVE LifecycleInv'
  BY <1>16 DEF ApplyAckLost, CommitParsedResult, SetStatus, Goto
<1>17. ASSUME NEW w \in Workers, MarkFailed(w) PROVE LifecycleInv'
  BY <1>17 DEF MarkFailed, SetStatus, Goto
<1>18. ASSUME NEW w \in Workers, JobCompletes(w) PROVE LifecycleInv'
  BY <1>18 DEF JobCompletes, FinishJob, Goto
<1>19. ASSUME NEW w \in Workers, JobFails(w) PROVE LifecycleInv'
  BY <1>19 DEF JobFails, FinishJob, Goto
<1>20. ASSUME NEW w \in Workers, Crash(w) PROVE LifecycleInv'
  BY <1>20 DEF Crash, Goto
<1>21. ASSUME NEW w \in Workers, LoseLock(w) PROVE LifecycleInv'
  BY <1>21 DEF LoseLock
<1>22. ASSUME NEW w \in Workers, NEW r \in Receipts, Fetch(w, r) PROVE LifecycleInv'
  BY <1>22 DEF Fetch, Goto
<1>23. CASE UNCHANGED vars
  BY <1>23 DEF vars
<1>24. QED
  BY <1>1, <1>2, <1>3, <1>4, <1>5, <1>6, <1>7, <1>8, <1>9, <1>10, <1>11, <1>12,
     <1>13, <1>14, <1>15, <1>16, <1>17, <1>18, <1>19, <1>20, <1>21, <1>22, <1>23
     DEF Next, Intake, WorkerStep

\* Every step of the pipeline is a step of the lifecycle or leaves it alone.
LEMMA LifecycleStep ==
  ASSUME "api" \notin Clients, Faults \cap {"crash", "lockLoss", "lostAck"} = {},
         TypeOK, QueueConsistent, RunsAreLocked, OnceInv, LifecycleInv, [Next]_vars
  PROVE  [Lifecycle!Next]_(Lifecycle!vars)
<1> USE PipelineAssumption
    DEF LifecycleInv, Unread, RunsAreLocked, OnceInv, Lifecycle!Next,
        Lifecycle!vars, Lifecycle!Becomes, Lifecycle!Upload, Lifecycle!PickUp,
        Lifecycle!Fail, Lifecycle!Confirm, Lifecycle!Parse, TypeOK, QueueConsistent,
        Statuses, IntakeStates, JobStates, RunStates, COUNTED_STATUSES,
        rowVars, jobVars, workerVars, dashboardVars, historyVars
<1>1. ASSUME NEW r \in Receipts, UploadImages(r) PROVE [Lifecycle!Next]_(Lifecycle!vars)
  BY <1>1 DEF UploadImages
<1>2. ASSUME NEW r \in Receipts, CreatePending(r) PROVE [Lifecycle!Next]_(Lifecycle!vars)
  BY <1>2 DEF CreatePending
<1>3. ASSUME NEW r \in Receipts, Enqueue(r) PROVE [Lifecycle!Next]_(Lifecycle!vars)
  BY <1>3 DEF Enqueue
<1>4. ASSUME NEW r \in Receipts, IntakeAborts(r) PROVE [Lifecycle!Next]_(Lifecycle!vars)
  BY <1>4 DEF IntakeAborts
<1>5. ASSUME NEW r \in Receipts, BackoffExpires(r) PROVE [Lifecycle!Next]_(Lifecycle!vars)
  BY <1>5 DEF BackoffExpires
<1>6. ASSUME NEW r \in Receipts, StalledJob(r) PROVE [Lifecycle!Next]_(Lifecycle!vars)
  BY <1>6 DEF StalledJob
<1>7. ASSUME NEW r \in Receipts, Poll(r) PROVE [Lifecycle!Next]_(Lifecycle!vars)
  BY <1>7 DEF Poll
<1>8. ASSUME NEW r \in Receipts, Confirm(r) PROVE [Lifecycle!Next]_(Lifecycle!vars)
  <2> USE <1>8 DEF Confirm, ConfirmRow, SetStatus
  <2>1. status[r] \in {"PARSED", "CONFIRMED"}
    OBVIOUS
  <2>2. CASE status[r] = "PARSED"
    <3>1. Lifecycle!Confirm(r)
      BY <2>2
    <3>2. QED
      BY <3>1
  <2>3. CASE status[r] = "CONFIRMED"
    BY <2>3
  <2>4. QED
    BY <2>1, <2>2, <2>3
<1>9. ASSUME NEW r \in Receipts, ConfirmDirectly(r) PROVE [Lifecycle!Next]_(Lifecycle!vars)
  BY <1>9 DEF ConfirmDirectly, ConfirmRow, SetStatus
<1>10. ASSUME NEW w \in Workers, MarkProcessing(w) PROVE [Lifecycle!Next]_(Lifecycle!vars)
  <2> USE <1>10 DEF MarkProcessing, SetStatus, Goto
  <2>1. cur[w] \in Receipts /\ status[cur[w]] \in Unread
    OBVIOUS
  <2>2. CASE status[cur[w]] = "PROCESSING"
    BY <2>1, <2>2
  <2>3. CASE status[cur[w]] \in {"PENDING", "FAILED"}
    <3>1. Lifecycle!PickUp(cur[w])
      BY <2>1, <2>3
    <3>2. QED
      BY <2>1, <3>1
  <2>4. QED
    BY <2>1, <2>2, <2>3
<1>11. ASSUME NEW w \in Workers, MarkProcessingThrows(w) PROVE [Lifecycle!Next]_(Lifecycle!vars)
  BY <1>11 DEF MarkProcessingThrows, SetStatus, Goto
<1>12. ASSUME NEW w \in Workers, ReadImages(w) PROVE [Lifecycle!Next]_(Lifecycle!vars)
  BY <1>12 DEF ReadImages, Goto
<1>13. ASSUME NEW w \in Workers, ExtractReceipt(w) PROVE [Lifecycle!Next]_(Lifecycle!vars)
  BY <1>13 DEF ExtractReceipt, Goto
<1>14. ASSUME NEW w \in Workers, TryThrows(w) PROVE [Lifecycle!Next]_(Lifecycle!vars)
  BY <1>14 DEF TryThrows, Goto
<1>15. ASSUME NEW w \in Workers, ApplyParsedResult(w) PROVE [Lifecycle!Next]_(Lifecycle!vars)
  <2> USE <1>15 DEF ApplyParsedResult, CommitParsedResult, SetStatus, Goto
  <2>1. cur[w] \in Receipts /\ status[cur[w]] = "PROCESSING" /\ items[cur[w]] = 0
    OBVIOUS
  <2>2. Lifecycle!Parse(cur[w])
    BY <2>1
  <2>3. QED
    BY <2>1, <2>2
<1>16. ASSUME NEW w \in Workers, ApplyAckLost(w) PROVE [Lifecycle!Next]_(Lifecycle!vars)
  BY <1>16 DEF ApplyAckLost, CommitParsedResult, SetStatus, Goto
<1>17. ASSUME NEW w \in Workers, MarkFailed(w) PROVE [Lifecycle!Next]_(Lifecycle!vars)
  BY <1>17 DEF MarkFailed, SetStatus, Goto
<1>18. ASSUME NEW w \in Workers, JobCompletes(w) PROVE [Lifecycle!Next]_(Lifecycle!vars)
  BY <1>18 DEF JobCompletes, FinishJob, Goto
<1>19. ASSUME NEW w \in Workers, JobFails(w) PROVE [Lifecycle!Next]_(Lifecycle!vars)
  BY <1>19 DEF JobFails, FinishJob, Goto
<1>20. ASSUME NEW w \in Workers, Crash(w) PROVE [Lifecycle!Next]_(Lifecycle!vars)
  BY <1>20 DEF Crash, Goto
<1>21. ASSUME NEW w \in Workers, LoseLock(w) PROVE [Lifecycle!Next]_(Lifecycle!vars)
  BY <1>21 DEF LoseLock
<1>22. ASSUME NEW w \in Workers, NEW r \in Receipts, Fetch(w, r) PROVE [Lifecycle!Next]_(Lifecycle!vars)
  BY <1>22 DEF Fetch, Goto
<1>23. CASE UNCHANGED vars
  BY <1>23 DEF vars
<1>24. QED
  BY <1>1, <1>2, <1>3, <1>4, <1>5, <1>6, <1>7, <1>8, <1>9, <1>10, <1>11, <1>12,
     <1>13, <1>14, <1>15, <1>16, <1>17, <1>18, <1>19, <1>20, <1>21, <1>22, <1>23
     DEF Next, Intake, WorkerStep

\* While no worker is killed, loses its lock or has a commit misreported, a
\* receipt moves only as the documented lifecycle allows and is itemised once.
THEOREM PipelineFollowsLifecycle ==
  ASSUME "api" \notin Clients, Faults \cap {"crash", "lockLoss", "lostAck"} = {}
  PROVE  Spec => FollowsLifecycle
<1>1. ASSUME CreditInv, RunsAreLocked, OnceInv, OnceInv', DuplicatesAccounted',
             LifecycleInv, [Next]_vars
      PROVE  LifecycleInv'
  BY <1>1, LifecycleInvStep DEF CreditInv
<1>2. ASSUME CreditInv, RunsAreLocked, OnceInv, LifecycleInv, [Next]_vars
      PROVE  [Lifecycle!Next]_(Lifecycle!vars)
  BY <1>2, LifecycleStep DEF CreditInv
<1>3. Spec => []RunsAreLocked
  BY LockedInvariant
<1>4. Spec => []OnceInv
  BY OnceInvariant
<1>5. QED
  BY <1>1, <1>2, <1>3, <1>4, LifecycleInit, CreditInvariant, DuplicatesAreAccounted,
     PTL DEF Spec, FollowsLifecycle, Lifecycle!Spec

=============================================================================
