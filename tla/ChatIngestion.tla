----------------------------- MODULE ChatIngestion -----------------------------
(***************************************************************************)
(* The LINE and Telegram webhooks.  A request is answered at once, its     *)
(* events are handled after that, each on its own and concurrently; a      *)
(* platform that gets no answer delivers the request again.  A run is one  *)
(* event of one delivery; its awaited calls are actions.                   *)
(*                                                                         *)
(* Only requests that pass the signature or secret check are modelled.     *)
(***************************************************************************)
EXTENDS Integers

CONSTANTS
  Workspaces, Chats, None,
  LineRequests, TelegramRequests, Events,
  EventsOf,        \* the events of a request: one, for Telegram
  ChatOf,          \* the chat an event comes from
  KindOf,          \* "image", "code" (a text with a link code), "other"
  CodeFor,         \* the workspace whose link code a "code" event carries
  ChannelOf,       \* "LINE" or "TELEGRAM", of a chat
  MaxDeliveries,   \* how often the platform sends a request
  Faults           \* "throw", "crash"

Requests == LineRequests \cup TelegramRequests
Runs == UNION {EventsOf[q] \X (1..MaxDeliveries[q]) : q \in Requests}

ASSUME IngestionAssumption ==
  /\ None \notin Workspaces
  /\ MaxDeliveries \in [Requests -> Nat]
  /\ EventsOf \in [Requests -> SUBSET Events]
  /\ \A q1, q2 \in Requests : EventsOf[q1] \cap EventsOf[q2] # {} => q1 = q2
  /\ ChatOf \in [Events -> Chats]
  /\ KindOf \in [Events -> {"image", "code", "other"}]
  /\ CodeFor \in [Events -> Workspaces]
  /\ Faults \subseteq {"throw", "crash"}

VARIABLES
  sends,      \* deliveries of each request so far
  link,       \* Workspace.lineUserId / telegramChatId, by chat
  spent,      \* link codes used, by the event that carries them
  pc,         \* where each run stands
  dest,       \* the workspace a run read
  images,     \* objects in the bucket: the workspace in the key
  rows,       \* PENDING receipts: their workspaceId
  jobs,       \* runs whose job is in the queue
  told,       \* the runs that replied how to connect
  seen        \* history: what the run's chat was linked to since it began

linkVars == <<link, spent>>
filedVars == <<images, rows, jobs>>
vars == <<sends, linkVars, pc, dest, filedVars, told, seen>>

Phases == {"none", "start", "replying", "downloading", "storing", "creating",
           "queueing", "done", "failed"}
Running == Phases \ {"none", "done", "failed"}
MaybeWorkspace == Workspaces \cup {None}

TypeOK ==
  /\ \A q \in Requests : sends[q] \in 0..MaxDeliveries[q]
  /\ link \in [Chats -> MaybeWorkspace]
  /\ spent \subseteq Events
  /\ pc \in [Runs -> Phases]
  /\ dest \in [Runs -> MaybeWorkspace]
  /\ images \in [Runs -> MaybeWorkspace]
  /\ rows \in [Runs -> MaybeWorkspace]
  /\ jobs \subseteq Runs /\ told \subseteq Runs
  /\ seen \in [Runs -> SUBSET MaybeWorkspace]

\* A workspace has one chat of each channel.
LinkUnique(l) ==
  \A c1, c2 \in Chats :
    l[c1] = l[c2] /\ l[c1] # None /\ ChannelOf[c1] = ChannelOf[c2] => c1 = c2

\* Chats may have been linked earlier.
Init ==
  /\ sends = [q \in Requests |-> 0]
  /\ link \in [Chats -> MaybeWorkspace] /\ LinkUnique(link)
  /\ spent = {}
  /\ pc = [r \in Runs |-> "none"]
  /\ dest = [r \in Runs |-> None]
  /\ images = [r \in Runs |-> None]
  /\ rows = [r \in Runs |-> None]
  /\ jobs = {} /\ told = {}
  /\ seen = [r \in Runs |-> {}]

Event(r) == r[1]
Kind(r) == KindOf[Event(r)]
Chat(r) == ChatOf[Event(r)]
Goto(r, phase) == pc' = [pc EXCEPT ![r] = phase]

-----------------------------------------------------------------------------
(* A request is answered before its handlers have ended, if the process    *)
(* lives; the platform sends it again if the answer does not arrive.       *)

Deliver(q) ==
  LET started == {<<e, sends[q] + 1>> : e \in EventsOf[q]}
  IN /\ sends[q] < MaxDeliveries[q]
     /\ sends' = [sends EXCEPT ![q] = @ + 1]
     /\ pc' = [r \in Runs |-> IF r \in started THEN "start" ELSE pc[r]]
     /\ seen' = [r \in Runs |-> IF r \in started THEN {link[Chat(r)]} ELSE seen[r]]
     /\ UNCHANGED <<linkVars, dest, filedVars, told>>

\* One call of handleEvent per event, none awaited.
LineWebhook(q) == q \in LineRequests /\ Deliver(q)

\* One call of handleUpdate, not awaited.
TelegramWebhook(q) == q \in TelegramRequests /\ Deliver(q)

-----------------------------------------------------------------------------
(* Links come and go meanwhile (see ChannelLinking).                       *)

Relink(l) ==
  /\ link' = l
  /\ seen' = [r \in Runs |-> IF pc[r] = "none" THEN {} ELSE seen[r] \cup {l[Chat(r)]}]

Unlink(c) ==
  /\ link[c] # None
  /\ Relink([link EXCEPT ![c] = None])
  /\ UNCHANGED <<sends, spent, pc, dest, filedVars, told>>

-----------------------------------------------------------------------------
(* handleEvent and handleUpdate, for each kind of event.                   *)

\* Mutant: the help is sent without asking isLinked.
HelpAlways(r) ==
  /\ pc[r] = "start" /\ Kind(r) = "other"
  /\ Goto(r, "replying")
  /\ UNCHANGED <<sends, linkVars, dest, filedVars, told, seen>>

\* A new follower, or a text without a code: no answer to a linked chat.
HelpUnlessLinked(r) ==
  /\ pc[r] = "start" /\ Kind(r) = "other"
  /\ Goto(r, IF link[Chat(r)] = None THEN "replying" ELSE "done")
  /\ UNCHANGED <<sends, linkVars, dest, filedVars, told, seen>>

\* handleText with a code: redeem links the chat, or refuses a code that was
\* spent, superseded or has expired, or a chat linked elsewhere.  A reply that
\* tells which goes out in any case.
RedeemCode(r) ==
  LET e == Event(r)
      works == e \notin spent /\ link[Chat(r)] \in {None, CodeFor[e]}
      replaced(c) == ChannelOf[c] = ChannelOf[Chat(r)] /\ link[c] = CodeFor[e]
  IN /\ pc[r] = "start" /\ Kind(r) = "code"
     /\ \/ /\ works
           /\ spent' = spent \cup {e}
           /\ Relink([c \in Chats |-> IF c = Chat(r) THEN CodeFor[e]
                                      ELSE IF replaced(c) THEN None ELSE link[c]])
        \/ UNCHANGED <<linkVars, seen>>
     /\ Goto(r, "done")
     /\ UNCHANGED <<sends, dest, filedVars, told>>

LookUpWorkspace(r) ==
  /\ pc[r] = "start" /\ Kind(r) = "image"
  /\ dest' = [dest EXCEPT ![r] = link[Chat(r)]]
  /\ Goto(r, IF link[Chat(r)] = None THEN "replying" ELSE "downloading")
  /\ UNCHANGED <<sends, linkVars, filedVars, told, seen>>

\* The messenger logs what goes wrong and never throws.
Reply(r) ==
  /\ pc[r] = "replying"
  /\ told' = told \cup {r}
  /\ Goto(r, "done")
  /\ UNCHANGED <<sends, linkVars, dest, filedVars, seen>>

\* One request to LINE, two to Telegram.
DownloadContent(r) ==
  /\ pc[r] = "downloading"
  /\ Goto(r, "storing")
  /\ UNCHANGED <<sends, linkVars, dest, filedVars, told, seen>>

\* Mutant: the row is forgotten.
UploadImageOnly(r) ==
  /\ pc[r] = "storing"
  /\ images' = [images EXCEPT ![r] = dest[r]]
  /\ Goto(r, "queueing")
  /\ UNCHANGED <<sends, linkVars, dest, rows, jobs, told, seen>>

UploadImage(r) ==
  /\ pc[r] = "storing"
  /\ images' = [images EXCEPT ![r] = dest[r]]
  /\ Goto(r, "creating")
  /\ UNCHANGED <<sends, linkVars, dest, rows, jobs, told, seen>>

\* Mutant: the workspace is looked up again.
CreatePendingAnew(r) ==
  /\ pc[r] = "creating"
  /\ rows' = [rows EXCEPT ![r] = link[Chat(r)]]
  /\ Goto(r, "queueing")
  /\ UNCHANGED <<sends, linkVars, dest, images, jobs, told, seen>>

\* createPending: nothing looks at sourceRef.
CreatePending(r) ==
  /\ pc[r] = "creating"
  /\ rows' = [rows EXCEPT ![r] = dest[r]]
  /\ Goto(r, "queueing")
  /\ UNCHANGED <<sends, linkVars, dest, images, jobs, told, seen>>

Enqueue(r) ==
  /\ pc[r] = "queueing"
  /\ jobs' = jobs \cup {r}
  /\ Goto(r, "done")
  /\ UNCHANGED <<sends, linkVars, dest, images, rows, told, seen>>

\* Mutant: the events are awaited in turn, an error ends the whole request.
HandlerThrowsAll(r) ==
  /\ "throw" \in Faults
  /\ pc[r] \in Running \ {"replying"}
  /\ pc' = [s \in Runs |-> IF s = r THEN "failed"
                           ELSE IF s[2] = r[2] THEN "none" ELSE pc[s]]
  /\ UNCHANGED <<sends, linkVars, dest, filedVars, told, seen>>

\* An awaited call rejects; .catch logs it and this run is over.
HandlerThrows(r) ==
  /\ "throw" \in Faults
  /\ pc[r] \in Running \ {"replying"}
  /\ Goto(r, "failed")
  /\ UNCHANGED <<sends, linkVars, dest, filedVars, told, seen>>

\* The API process dies, before or after it has answered; a call whose effect
\* was not reported ends its run in the same way.
Crash ==
  /\ "crash" \in Faults
  /\ \E r \in Runs : pc[r] \in Running
  /\ pc' = [r \in Runs |-> IF pc[r] \in Running THEN "failed" ELSE pc[r]]
  /\ UNCHANGED <<sends, linkVars, dest, filedVars, told, seen>>

-----------------------------------------------------------------------------
HandlerStep(r) ==
  \/ HelpUnlessLinked(r) \/ RedeemCode(r) \/ LookUpWorkspace(r)
  \/ Reply(r) \/ DownloadContent(r) \/ UploadImage(r) \/ CreatePending(r)
  \/ Enqueue(r)

Next ==
  \/ \E q \in Requests : LineWebhook(q) \/ TelegramWebhook(q)
  \/ \E c \in Chats : Unlink(c)
  \/ \E r \in Runs : HandlerStep(r) \/ HandlerThrows(r)
  \/ Crash

Spec == Init /\ [][Next]_vars

-----------------------------------------------------------------------------
(* Properties.                                                             *)

\* A photo is filed under a workspace its chat was linked to after the message
\* was delivered, in the bucket and in the database alike, even if the chat is
\* unlinked or linked anew while the photo is downloaded: once a chat has been
\* disconnected its messages are not added any more.
FiledWhereLinked ==
  /\ TypeOK
  /\ \A r \in Runs : rows[r] # None => rows[r] \in seen[r] /\ images[r] = rows[r]

\* The how-to goes only to a chat that was without a workspace meanwhile.
HelpOnlyIfUnlinked == \A r \in told : None \in seen[r]

\* One bad event does not hold up the rest of the request: a photo that was
\* delivered is under way, filed or answered, unless its own handler failed or
\* the API died.
NoPhotoDropped ==
  \A q \in Requests : \A e \in EventsOf[q], n \in 1..sends[q] :
    KindOf[e] = "image" =>
      \/ pc[<<e, n>>] \in Running \cup {"failed"}
      \/ <<e, n>> \in jobs \cup told

\* A message that is delivered again adds no second receipt: what sourceRef is
\* there for, according to the schema.
OneReceiptPerMessage ==
  \A r1, r2 \in Runs :
    rows[r1] # None /\ rows[r2] # None /\ Event(r1) = Event(r2) => r1 = r2

\* The chat handlers keep the promise of ReceiptIntake.
Stage(r) ==
  CASE r \in jobs                       -> "enqueued"
    [] r \notin jobs /\ pc[r] = "failed" -> "aborted"
    [] OTHER -> IF rows[r] # None THEN "created"
                ELSE IF images[r] # None THEN "stored" ELSE "new"

Photos == {r \in Runs : Kind(r) = "image"}
Intake == INSTANCE ReceiptIntake
            WITH Intakes <- Photos, intake <- [r \in Photos |-> Stage(r)]
FollowsIntake == Intake!Spec

=============================================================================
