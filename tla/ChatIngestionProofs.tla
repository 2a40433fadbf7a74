-------------------------- MODULE ChatIngestionProofs --------------------------
(***************************************************************************)
(* Proofs about ChatIngestion, for any requests with any events, chats and *)
(* workspaces, any number of deliveries and either of the faults.          *)
(***************************************************************************)
EXTENDS ChatIngestion, TLAPS

\* What a run has done is what its place in the handler says, and what it knows
\* of its chat's link has been so since it began.
RunOK(r) ==
  /\ pc[r] # "none" => link[Chat(r)] \in seen[r]
  /\ pc[r] = "replying" => None \in seen[r]
  /\ pc[r] \in {"downloading", "storing", "creating", "queueing"} =>
       dest[r] \in seen[r] \ {None} /\ Kind(r) = "image"
  /\ pc[r] \in {"none", "start", "replying", "downloading", "storing"} => images[r] = None
  /\ pc[r] \in {"none", "start", "replying", "downloading", "storing", "creating"} =>
       rows[r] = None
  /\ pc[r] \in {"creating", "queueing"} => images[r] = dest[r]
  /\ pc[r] = "queueing" => rows[r] = dest[r]
  /\ pc[r] = "done" /\ Kind(r) = "image" => r \in jobs \cup told
  /\ rows[r] # None => rows[r] \in seen[r] /\ images[r] = rows[r]
  /\ r \in jobs => pc[r] = "done"
  /\ r \in told => /\ pc[r] = "done" /\ None \in seen[r]
                    /\ rows[r] = None /\ images[r] = None

\* A run is there from its delivery on.
Delivered ==
  \A q \in Requests : \A e \in EventsOf[q], n \in 1..MaxDeliveries[q] :
    pc[<<e, n>>] = "none" <=> n > sends[q]

IngestInv ==
  /\ TypeOK /\ sends \in [Requests -> Nat]
  /\ Delivered
  /\ \A r \in Runs : RunOK(r)

-----------------------------------------------------------------------------
(* The runs.                                                               *)

\* A run is a delivery of an event of one request.
LEMMA RunsOfRequests ==
  ASSUME NEW q \in Requests, NEW e \in EventsOf[q], NEW n \in 1..MaxDeliveries[q]
  PROVE  <<e, n>> \in Runs
BY DEF Runs

\* Every run is of some request's event.
LEMMA RunHasRequest ==
  ASSUME NEW r \in Runs
  PROVE  /\ \E q \in Requests : \E e \in EventsOf[q], n \in 1..MaxDeliveries[q] : r = <<e, n>>
         /\ Event(r) \in Events /\ Chat(r) \in Chats
         /\ Kind(r) \in {"image", "code", "other"}
<1>1. PICK q \in Requests : r \in EventsOf[q] \X (1..MaxDeliveries[q])
  BY DEF Runs
<1>2. PICK e \in EventsOf[q], n \in 1..MaxDeliveries[q] : r = <<e, n>>
  BY <1>1
<1>3. e \in Events
  BY IngestionAssumption
<1>4. QED
  BY <1>2, <1>3, IngestionAssumption DEF Event, Chat, Kind

\* A step that leaves deliveries and the absent runs alone keeps Delivered.
LEMMA DeliveredStays ==
  ASSUME Delivered, UNCHANGED sends,
         \A r \in Runs : pc'[r] = "none" <=> pc[r] = "none"
  PROVE  Delivered'
BY RunsOfRequests DEF Delivered

\* A delivery starts runs that were absent until then.
LEMMA DeliverKeeps ==
  ASSUME IngestInv, NEW q \in Requests, Deliver(q)
  PROVE  IngestInv'
<1> DEFINE n == sends[q] + 1
           started == {<<e, n>> : e \in EventsOf[q]}
<1> USE IngestionAssumption DEF IngestInv
<1>1. /\ n \in 1..MaxDeliveries[q] /\ n > sends[q]
      /\ sends' = [sends EXCEPT ![q] = n]
      /\ pc' = [r \in Runs |-> IF r \in started THEN "start" ELSE pc[r]]
      /\ seen' = [r \in Runs |-> IF r \in started THEN {link[Chat(r)]} ELSE seen[r]]
      /\ UNCHANGED <<linkVars, dest, filedVars, told>>
  <2>1. sends[q] \in Nat /\ MaxDeliveries[q] \in Nat /\ sends[q] < MaxDeliveries[q]
    BY DEF Deliver
  <2>2. n \in 1..MaxDeliveries[q] /\ n > sends[q]
    BY <2>1
  <2>3. QED
    BY <2>2 DEF Deliver
<1> HIDE DEF n
<1>2. \A r \in started : r \in Runs /\ pc[r] = "none"
  <2>1. \A e \in EventsOf[q] : <<e, n>> \in Runs /\ pc[<<e, n>>] = "none"
    BY <1>1, RunsOfRequests DEF Delivered
  <2>2. QED
    BY <2>1
<1>3. Delivered'
  <2>1. ASSUME NEW p \in Requests, NEW e \in EventsOf[p], NEW m \in 1..MaxDeliveries[p]
        PROVE  (pc[<<e, m>>] = "none" <=> m > sends[p])'
    <3>1. <<e, m>> \in Runs /\ (pc[<<e, m>>] = "none" <=> m > sends[p])
      BY RunsOfRequests DEF Delivered
    <3>2. <<e, m>> \in started <=> p = q /\ m = n
      <4>1. ASSUME <<e, m>> \in started PROVE p = q /\ m = n
        <5>1. m = n /\ e \in EventsOf[q] \cap EventsOf[p]
          BY <4>1
        <5>2. EventsOf[p] \cap EventsOf[q] # {}
          BY <5>1
        <5>3. p = q
          BY <5>2
        <5>4. QED
          BY <5>1, <5>3
      <4>2. QED
        BY <4>1
    <3>3. sends'[p] = IF p = q THEN n ELSE sends[p]
      BY <1>1
    <3>4. n = sends[q] + 1 /\ sends[q] \in Nat /\ sends[p] \in Nat
      BY DEF n
    <3> HIDE DEF started
    <3>5. pc'[<<e, m>>] = IF p = q /\ m = n THEN "start" ELSE pc[<<e, m>>]
      BY <1>1, <3>1, <3>2
    <3>6. QED
      BY <3>1, <3>3, <3>4, <3>5
  <2>2. QED
    BY <2>1 DEF Delivered
<1> HIDE DEF started
<1>4. TypeOK' /\ sends' \in [Requests -> Nat]
  <2>1. \A r \in Runs : link[Chat(r)] \in MaybeWorkspace
    BY RunHasRequest DEF TypeOK
  <2>2. pc' \in [Runs -> Phases] /\ seen' \in [Runs -> SUBSET MaybeWorkspace]
    BY <1>1, <2>1 DEF TypeOK, Phases
  <2>3. sends' \in [Requests -> Nat] /\ \A p \in Requests : sends'[p] \in 0..MaxDeliveries[p]
    BY <1>1 DEF TypeOK
  <2>4. QED
    BY <1>1, <2>2, <2>3 DEF TypeOK, linkVars, filedVars
<1>5. ASSUME NEW r \in Runs PROVE RunOK(r)'
  <2>1. RunOK(r)
    OBVIOUS
  <2>2. CASE r \in started
    BY <1>1, <1>2, <2>1, <2>2 DEF RunOK, linkVars, filedVars, Chat, Event
  <2>3. CASE r \notin started
    BY <1>1, <2>1, <2>3 DEF RunOK, linkVars, filedVars, Chat, Kind, Event
  <2>4. QED
    BY <2>2, <2>3
<1>6. QED
  BY <1>3, <1>4, <1>5

\* A change of the links is seen by every run there is.
LEMMA RelinkKeeps ==
  ASSUME IngestInv, NEW l \in [Chats -> MaybeWorkspace], Relink(l)
  PROVE  /\ link' \in [Chats -> MaybeWorkspace]
         /\ seen' \in [Runs -> SUBSET MaybeWorkspace]
         /\ \A r \in Runs : pc[r] # "none" =>
              link'[Chat(r)] \in seen'[r] /\ seen[r] \subseteq seen'[r]
BY RunHasRequest DEF IngestInv, TypeOK, Relink

-----------------------------------------------------------------------------
(* The steps of a handler.                                                 *)

\* A step of one run that leaves the links alone.
LEMMA RunKeeps ==
  ASSUME IngestInv, NEW r \in Runs,
         \/ HelpUnlessLinked(r) \/ LookUpWorkspace(r) \/ Reply(r) \/ DownloadContent(r)
         \/ UploadImage(r) \/ CreatePending(r) \/ Enqueue(r) \/ HandlerThrows(r)
  PROVE  IngestInv'
<1> USE DEF IngestInv
<1> DEFINE Untouched(s) == /\ pc'[s] = pc[s] /\ dest'[s] = dest[s]
                           /\ images'[s] = images[s] /\ rows'[s] = rows[s]
                           /\ s \in jobs' <=> s \in jobs
                           /\ s \in told' <=> s \in told
<1>1. link[Chat(r)] \in MaybeWorkspace /\ Kind(r) \in {"image", "code", "other"}
  BY RunHasRequest DEF TypeOK
<1>2. TypeOK' /\ UNCHANGED <<sends, linkVars, seen>>
  BY <1>1 DEF TypeOK, linkVars, filedVars, HelpUnlessLinked, LookUpWorkspace, Reply,
     DownloadContent, UploadImage, CreatePending, Enqueue, HandlerThrows, Goto, Phases
<1>3. ASSUME NEW s \in Runs, s # r PROVE Untouched(s)
  BY <1>3 DEF TypeOK, filedVars, HelpUnlessLinked, LookUpWorkspace, Reply,
     DownloadContent, UploadImage, CreatePending, Enqueue, HandlerThrows, Goto
<1>4. RunOK(r)' /\ pc[r] # "none" /\ pc'[r] # "none"
  <2>1. RunOK(r)
    OBVIOUS
  <2> USE <1>1, <1>2, <2>1 DEF RunOK, TypeOK, filedVars, linkVars, Goto, Chat, Kind, Event
  <2>2. CASE HelpUnlessLinked(r)
    BY <2>2 DEF HelpUnlessLinked
  <2>3. CASE LookUpWorkspace(r)
    BY <2>3 DEF LookUpWorkspace
  <2>4. CASE Reply(r)
    BY <2>4 DEF Reply
  <2>5. CASE DownloadContent(r)
    BY <2>5 DEF DownloadContent
  <2>6. CASE UploadImage(r)
    BY <2>6 DEF UploadImage
  <2>7. CASE CreatePending(r)
    BY <2>7 DEF CreatePending
  <2>8. CASE Enqueue(r)
    BY <2>8 DEF Enqueue
  <2>9. CASE HandlerThrows(r)
    BY <2>9 DEF HandlerThrows, Running, Phases
  <2>10. QED
    BY <2>2, <2>3, <2>4, <2>5, <2>6, <2>7, <2>8, <2>9
<1>5. ASSUME NEW s \in Runs, s # r PROVE RunOK(s)'
  <2>1. RunOK(s)
    OBVIOUS
  <2>2. QED
    BY <1>2, <1>3, <1>5, <2>1 DEF RunOK, linkVars, Chat, Kind, Event
<1>6. Delivered'
  BY <1>2, <1>3, <1>4, DeliveredStays
<1>7. QED
  BY <1>2, <1>4, <1>5, <1>6

\* A code may link the chat anew; every other run sees what its chat is linked
\* to from then on.
LEMMA RedeemKeeps ==
  ASSUME IngestInv, NEW r \in Runs, RedeemCode(r)
  PROVE  IngestInv'
<1> USE DEF IngestInv
<1>1. /\ pc[r] = "start" /\ Kind(r) = "code" /\ pc' = [pc EXCEPT ![r] = "done"]
      /\ UNCHANGED <<sends, dest, filedVars, told>>
  BY DEF RedeemCode, Goto
<1>2. /\ link' \in [Chats -> MaybeWorkspace] /\ spent' \subseteq Events
      /\ seen' \in [Runs -> SUBSET MaybeWorkspace]
      /\ \A s \in Runs : pc[s] # "none" => link'[Chat(s)] \in seen'[s] /\ seen[s] \subseteq seen'[s]
  <2>1. CASE UNCHANGED <<linkVars, seen>>
    BY <2>1 DEF TypeOK, linkVars, RunOK
  <2>2. CASE ~UNCHANGED <<linkVars, seen>>
    <3>1. Event(r) \in Events /\ CodeFor[Event(r)] \in Workspaces
      BY RunHasRequest, IngestionAssumption
    <3>2. PICK l : l \in [Chats -> MaybeWorkspace] /\ Relink(l)
      BY <2>2, <3>1 DEF RedeemCode, MaybeWorkspace, TypeOK
    <3>3. spent' = spent \cup {Event(r)}
      BY <2>2 DEF RedeemCode
    <3>4. QED
      BY <3>1, <3>2, <3>3, RelinkKeeps DEF TypeOK
  <2>3. QED
    BY <2>1, <2>2
<1>3. TypeOK'
  BY <1>1, <1>2 DEF TypeOK, filedVars, Phases
<1>4. Delivered'
  BY <1>1, DeliveredStays DEF TypeOK
<1>5. ASSUME NEW s \in Runs PROVE RunOK(s)'
  <2>1. RunOK(s)
    OBVIOUS
  <2>2. pc'[s] = IF s = r THEN "done" ELSE pc[s]
    BY <1>1 DEF TypeOK
  <2>3. pc[s] = "none" => rows[s] = None /\ s \notin jobs \cup told
    BY <2>1 DEF RunOK
  <2>4. QED
    BY <1>1, <1>2, <2>1, <2>2, <2>3 DEF RunOK, filedVars, Chat, Kind, Event
<1>6. QED
  BY <1>1, <1>3, <1>4, <1>5

\* So does a chat that is unlinked.
LEMMA UnlinkKeeps ==
  ASSUME IngestInv, NEW c \in Chats, Unlink(c)
  PROVE  IngestInv'
<1> USE DEF IngestInv
<1>1. UNCHANGED <<sends, spent, pc, dest, filedVars, told>>
  BY DEF Unlink
<1>2. /\ link' \in [Chats -> MaybeWorkspace]
      /\ seen' \in [Runs -> SUBSET MaybeWorkspace]
      /\ \A s \in Runs : pc[s] # "none" => link'[Chat(s)] \in seen'[s] /\ seen[s] \subseteq seen'[s]
  <2>1. [link EXCEPT ![c] = None] \in [Chats -> MaybeWorkspace]
    BY DEF TypeOK, MaybeWorkspace
  <2>2. QED
    BY <2>1, RelinkKeeps DEF Unlink
<1>3. TypeOK'
  BY <1>1, <1>2 DEF TypeOK, filedVars
<1>4. Delivered'
  BY <1>1 DEF Delivered
<1>5. ASSUME NEW s \in Runs PROVE RunOK(s)'
  <2>1. RunOK(s)
    OBVIOUS
  <2>2. pc[s] = "none" => rows[s] = None /\ s \notin jobs \cup told
    BY <2>1 DEF RunOK
  <2>3. QED
    BY <1>1, <1>2, <2>1, <2>2 DEF RunOK, filedVars, Chat, Kind, Event
<1>6. QED
  BY <1>1, <1>3, <1>4, <1>5

\* A crash ends every run; what it had done stays done.
LEMMA CrashKeeps ==
  ASSUME IngestInv, Crash
  PROVE  IngestInv'
<1> USE DEF IngestInv
<1>1. /\ pc' = [r \in Runs |-> IF pc[r] \in Running THEN "failed" ELSE pc[r]]
      /\ UNCHANGED <<sends, linkVars, dest, filedVars, told, seen>>
  BY DEF Crash
<1>2. TypeOK'
  BY <1>1 DEF TypeOK, linkVars, filedVars, Phases
<1>3. Delivered'
  BY <1>1, DeliveredStays DEF Running, Phases
<1>4. ASSUME NEW s \in Runs PROVE RunOK(s)'
  <2>1. RunOK(s)
    OBVIOUS
  <2>2. QED
    BY <1>1, <2>1 DEF RunOK, linkVars, filedVars, Chat, Kind, Event, Running, Phases
<1>5. QED
  BY <1>1, <1>2, <1>3, <1>4

-----------------------------------------------------------------------------
(* The inductive invariant.                                                *)

\* Before the first delivery there is no run.
LEMMA IngestInit == Init => IngestInv
<1> SUFFICES ASSUME Init PROVE IngestInv
  OBVIOUS
<1> USE IngestionAssumption
<1>1. TypeOK /\ sends \in [Requests -> Nat]
  BY DEF Init, TypeOK, Phases, MaybeWorkspace
<1>2. Delivered
  <2>1. ASSUME NEW q \in Requests, NEW e \in EventsOf[q], NEW n \in 1..MaxDeliveries[q]
        PROVE  pc[<<e, n>>] = "none" /\ n > sends[q]
    <3>1. pc[<<e, n>>] = "none"
      BY RunsOfRequests DEF Init
    <3>2. n \in Int /\ n >= 1 /\ sends[q] = 0
      BY DEF Init
    <3>3. QED
      BY <3>1, <3>2
  <2>2. QED
    BY <2>1 DEF Delivered
<1>3. \A r \in Runs : RunOK(r)
  BY DEF Init, RunOK
<1>4. QED
  BY <1>1, <1>2, <1>3 DEF IngestInv

\* The inductive invariant of the chat handlers.
LEMMA IngestInvariant == Spec => []IngestInv
<1>1. IngestInv /\ [Next]_vars => IngestInv'
  <2> SUFFICES ASSUME IngestInv, [Next]_vars PROVE IngestInv'
    OBVIOUS
  <2>1. ASSUME NEW q \in Requests, LineWebhook(q) \/ TelegramWebhook(q) PROVE IngestInv'
    BY <2>1, DeliverKeeps DEF LineWebhook, TelegramWebhook
  <2>2. ASSUME NEW r \in Runs, HandlerStep(r) \/ HandlerThrows(r) PROVE IngestInv'
    BY <2>2, RunKeeps, RedeemKeeps DEF HandlerStep
  <2>3. CASE UNCHANGED vars
    <3>1. TypeOK' /\ Delivered' /\ sends' \in [Requests -> Nat]
      BY <2>3 DEF IngestInv, TypeOK, Delivered, vars, linkVars, filedVars
    <3>2. \A r \in Runs : RunOK(r)'
      BY <2>3 DEF IngestInv, RunOK, vars, linkVars, filedVars, Chat, Kind, Event
    <3>3. QED
      BY <3>1, <3>2 DEF IngestInv
  <2>4. QED
    BY <2>1, <2>2, <2>3, UnlinkKeeps, CrashKeeps DEF Next
<1>2. QED
  BY <1>1, IngestInit, PTL DEF Spec

-----------------------------------------------------------------------------
(* The theorems.                                                           *)

\* A photo is filed, in the bucket and in the database alike, under a workspace
\* its chat was linked to after its delivery, however links change meanwhile.
THEOREM PhotosAreFiledWhereLinked == Spec => []FiledWhereLinked
<1>1. IngestInv => FiledWhereLinked
  BY DEF IngestInv, RunOK, FiledWhereLinked
<1>2. QED
  BY <1>1, IngestInvariant, PTL

\* The how-to goes only to a chat that was without a workspace meanwhile.
THEOREM HelpIsForTheUnlinked == Spec => []HelpOnlyIfUnlinked
<1>1. IngestInv => HelpOnlyIfUnlinked
  BY DEF IngestInv, RunOK, HelpOnlyIfUnlinked, TypeOK
<1>2. QED
  BY <1>1, IngestInvariant, PTL

\* A delivered photo is under way, filed or answered, unless its own handler
\* failed or the API died, whatever the other events of its request did.
THEOREM PhotosAreNotDropped == Spec => []NoPhotoDropped
<1>1. IngestInv => NoPhotoDropped
  <2> SUFFICES ASSUME IngestInv, NEW q \in Requests, NEW e \in EventsOf[q],
                      NEW n \in 1..sends[q], KindOf[e] = "image"
               PROVE  \/ pc[<<e, n>>] \in Running \cup {"failed"}
                      \/ <<e, n>> \in jobs \cup told
    BY DEF NoPhotoDropped
  <2>1. sends[q] \in Nat /\ MaxDeliveries[q] \in Nat /\ sends[q] <= MaxDeliveries[q]
    BY IngestionAssumption DEF IngestInv, TypeOK
  <2>2. n \in 1..MaxDeliveries[q] /\ ~(n > sends[q])
    BY <2>1
  <2>3. <<e, n>> \in Runs /\ pc[<<e, n>>] # "none"
    BY <2>2, RunsOfRequests DEF IngestInv, Delivered
  <2>4. pc[<<e, n>>] \in Phases
    BY <2>3 DEF IngestInv, TypeOK
  <2>5. RunOK(<<e, n>>) /\ Kind(<<e, n>>) = "image"
    BY <2>3 DEF IngestInv, Kind, Event
  <2>6. QED
    BY <2>3, <2>4, <2>5 DEF RunOK, Running
<1>2. QED
  BY <1>1, IngestInvariant, PTL

-----------------------------------------------------------------------------
(* Refinement: the chat handlers keep ReceiptIntake's promise.             *)

\* The stage of a photo, which is decided by its run's place in the handler.
StageAt(r) ==
  IF r \in jobs THEN "enqueued"
  ELSE IF pc[r] = "failed" THEN "aborted"
  ELSE IF pc[r] = "queueing" THEN "created"
  ELSE IF pc[r] = "creating" THEN "stored" ELSE "new"

\* The mapping, which looks at what was stored, agrees with it.
StagesAgree == \A r \in Photos : Stage(r) = StageAt(r)

LEMMA StageByPlace == IngestInv => StagesAgree
<1> SUFFICES ASSUME IngestInv, NEW r \in Photos PROVE Stage(r) = StageAt(r)
  BY DEF StagesAgree
<1>1. RunOK(r) /\ TypeOK /\ r \in Runs /\ Kind(r) = "image"
  BY DEF IngestInv, Photos
<1>2. pc[r] \in Phases
  BY <1>1 DEF TypeOK
<1>3. QED
  BY <1>1, <1>2 DEF RunOK, Stage, StageAt, Phases

\* Initially every photo's intake is new.
LEMMA IntakeInit == Init => Intake!Init
BY DEF Init, Intake!Init, Stage, Photos

\* Every step is one step of one intake, an abort, or nothing to the intakes.
LEMMA IntakeStep ==
  ASSUME IngestInv, StagesAgree, StagesAgree', [Next]_vars
  PROVE  [Intake!Next]_[r \in Photos |-> Stage(r)]
<1> DEFINE at == [r \in Photos |-> Stage(r)]
           Stays(s) == Stage(s)' = Stage(s)
<1> USE DEF IngestInv
<1>1. \A r \in Photos : r \in Runs /\ at[r] = StageAt(r) /\ Stage(r)' = StageAt(r)'
  BY DEF StagesAgree, Photos
<1>2. at' = [r \in Photos |-> Stage(r)']
  BY DEF Photos, Kind, Event
<1>3. SUFFICES \/ at' = at
               \/ \E r \in Photos : \/ Intake!Moves(r, "new", "stored")
                                    \/ Intake!Moves(r, "stored", "created")
                                    \/ Intake!Moves(r, "created", "enqueued")
               \/ Intake!Abort
  BY DEF Intake!Next, Intake!UploadImages, Intake!CreatePending, Intake!Enqueue
<1>4. ASSUME NEW q \in Requests, LineWebhook(q) \/ TelegramWebhook(q) PROVE at' = at
  <2>1. \A r \in Runs : \/ pc'[r] = pc[r]
                        \/ pc'[r] = "start" /\ pc[r] = "none"
    <3> DEFINE started == {<<e, sends[q] + 1>> : e \in EventsOf[q]}
    <3>1. /\ pc' = [r \in Runs |-> IF r \in started THEN "start" ELSE pc[r]]
          /\ sends[q] < MaxDeliveries[q]
      BY <1>4 DEF LineWebhook, TelegramWebhook, Deliver
    <3>2. sends[q] \in Nat /\ MaxDeliveries[q] \in Nat
      BY IngestionAssumption
    <3>3. sends[q] + 1 \in 1..MaxDeliveries[q] /\ sends[q] + 1 > sends[q]
      BY <3>1, <3>2
    <3>4. \A e \in EventsOf[q] : pc[<<e, sends[q] + 1>>] = "none"
      BY <3>3 DEF Delivered
    <3>5. \A r \in started : pc[r] = "none"
      BY <3>4
    <3> HIDE DEF started
    <3>6. QED
      BY <3>1, <3>5
  <2>2. jobs' = jobs
    BY <1>4 DEF LineWebhook, TelegramWebhook, Deliver, filedVars
  <2>3. \A r \in Photos : Stage(r)' = at[r]
    BY <1>1, <2>1, <2>2 DEF StageAt
  <2>4. QED
    BY <1>2, <2>3
<1>5. CASE Crash
  <2> DEFINE gone == {r \in Photos : pc[r] \in Running}
  <2>1. /\ pc' = [r \in Runs |-> IF pc[r] \in Running THEN "failed" ELSE pc[r]]
        /\ jobs' = jobs
    BY <1>5 DEF Crash, filedVars
  <2>2. \A r \in Photos : r \in jobs => pc[r] = "done"
    BY <1>1 DEF RunOK
  <2>3. \A r \in Photos : Stage(r)' = IF r \in gone THEN "aborted" ELSE at[r]
    BY <1>1, <2>1, <2>2 DEF StageAt, Running, Phases
  <2>4. gone \subseteq {r \in Photos : at[r] \in {"new", "stored", "created"}}
    BY <1>1, <2>2 DEF StageAt, Running, Phases
  <2>5. Intake!Abort
    BY <1>2, <2>3, <2>4 DEF Intake!Abort, Intake!UnderWay
  <2>6. QED
    BY <2>5
<1>6. CASE UNCHANGED vars \/ \E c \in Chats : Unlink(c)
  <2>1. UNCHANGED <<pc, jobs>>
    BY <1>6 DEF vars, filedVars, Unlink
  <2>2. \A r \in Photos : Stage(r)' = at[r]
    BY <1>1, <2>1 DEF StageAt
  <2>3. QED
    BY <1>2, <2>2
<1>7. ASSUME NEW r \in Runs, HandlerStep(r) \/ HandlerThrows(r)
      PROVE  \/ at' = at
             \/ /\ r \in Photos
                /\ \/ Intake!Moves(r, "new", "stored")
                   \/ Intake!Moves(r, "stored", "created")
                   \/ Intake!Moves(r, "created", "enqueued")
             \/ Intake!Abort
  <2>1. /\ RunOK(r) /\ pc[r] \in Phases
        /\ \A s \in Runs \ {r} : pc'[s] = pc[s] /\ (s \in jobs' <=> s \in jobs)
    BY <1>7 DEF TypeOK, filedVars, HandlerStep, HelpUnlessLinked, RedeemCode, LookUpWorkspace,
       Reply, DownloadContent, UploadImage, CreatePending, Enqueue, HandlerThrows, Goto
  <2>2. \A s \in Photos \ {r} : Stage(s)' = at[s]
    BY <1>1, <2>1 DEF StageAt
  <2>3. r \in Photos \/ at' = at
    BY <1>2, <2>2
  <2>4. ASSUME NEW to, r \in Photos, StageAt(r)' = to PROVE at' = [at EXCEPT ![r] = to]
    BY <1>1, <1>2, <2>2, <2>4
  <2>5. CASE r \notin Photos
    BY <2>3, <2>5
  <2>6. CASE UploadImage(r) /\ r \in Photos
    <3>1. StageAt(r) = "new" /\ StageAt(r)' = "stored"
      BY <2>1, <2>6 DEF UploadImage, Goto, StageAt, RunOK, TypeOK
    <3>2. Intake!Moves(r, "new", "stored")
      BY <1>1, <2>4, <2>6, <3>1 DEF Intake!Moves
    <3>3. QED
      BY <2>6, <3>2
  <2>7. CASE CreatePending(r) /\ r \in Photos
    <3>1. StageAt(r) = "stored" /\ StageAt(r)' = "created"
      BY <2>1, <2>7 DEF CreatePending, Goto, StageAt, RunOK, TypeOK
    <3>2. Intake!Moves(r, "stored", "created")
      BY <1>1, <2>4, <2>7, <3>1 DEF Intake!Moves
    <3>3. QED
      BY <2>7, <3>2
  <2>8. CASE Enqueue(r) /\ r \in Photos
    <3>1. StageAt(r) = "created" /\ StageAt(r)' = "enqueued"
      BY <2>1, <2>8 DEF Enqueue, Goto, StageAt, RunOK, TypeOK
    <3>2. Intake!Moves(r, "created", "enqueued")
      BY <1>1, <2>4, <2>8, <3>1 DEF Intake!Moves
    <3>3. QED
      BY <2>8, <3>2
  <2>9. CASE HandlerThrows(r) /\ r \in Photos
    <3>1. StageAt(r) \in {"new", "stored", "created"} /\ StageAt(r)' = "aborted"
      BY <2>1, <2>9 DEF HandlerThrows, Goto, StageAt, RunOK, TypeOK, Running, Phases, filedVars
    <3>2. at' = [s \in Photos |-> IF s \in {r} THEN "aborted" ELSE at[s]]
      BY <2>4, <2>9, <3>1
    <3>3. {r} \subseteq {s \in Photos : at[s] \in {"new", "stored", "created"}}
      BY <1>1, <2>9, <3>1
    <3>4. Intake!Abort
      BY <3>2, <3>3 DEF Intake!Abort, Intake!UnderWay
    <3>5. QED
      BY <3>4
  <2>10. CASE /\ HelpUnlessLinked(r) \/ RedeemCode(r) \/ LookUpWorkspace(r) \/ Reply(r)
                 \/ DownloadContent(r)
              /\ r \in Photos
    <3>1. StageAt(r)' = StageAt(r)
      BY <2>1, <2>10 DEF HelpUnlessLinked, RedeemCode, LookUpWorkspace, Reply, DownloadContent,
         Goto, StageAt, RunOK, TypeOK, filedVars
    <3>2. \A s \in Photos : Stage(s)' = at[s]
      BY <1>1, <2>2, <3>1
    <3>3. QED
      BY <1>2, <3>2
  <2>11. QED
    BY <1>7, <2>5, <2>6, <2>7, <2>8, <2>9, <2>10 DEF HandlerStep
<1>8. QED
  BY <1>4, <1>5, <1>6, <1>7 DEF Next

\* Photos sent to a chat enter the system as every other upload does: image,
\* then row, then job, and nothing once an intake was given up.
THEOREM ChatsFollowIntake == Spec => FollowsIntake
<1>1. Spec => []StagesAgree
  BY IngestInvariant, StageByPlace, PTL
<1>2. QED
  BY <1>1, IngestInvariant, IntakeInit, IntakeStep, PTL DEF Spec, FollowsIntake, Intake!Spec

=============================================================================
