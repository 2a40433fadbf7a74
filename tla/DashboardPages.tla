---------------------------- MODULE DashboardPages ----------------------------
(***************************************************************************)
(* The dashboard's three pages in one browser tab.  A call to the API is   *)
(* sent, served and answered in three steps, calls overtake each other,    *)
(* and an answer is applied to whatever the page is by then: the user may  *)
(* have switched workspace, month or page.  Receipts and Connect poll; the *)
(* Summary page loads once for each workspace and month chosen.  The cards *)
(* of the Connect page are there while a status is; one of its two         *)
(* channels is modelled.                                                   *)
(* Everybody else (worker, bot, other members) is the environment.         *)
(***************************************************************************)
EXTENDS Calendar

CONSTANTS
  Workspaces, Receipts, None,
  HomeOf,     \* the workspace of a receipt
  ThisMonth,  \* the clock's
  OldestMonth,\* bounds how far back the user steps
  Calls       \* bounds the calls under way at a time

ASSUME DashboardAssumption ==
  /\ None \notin Workspaces \cup Receipts
  /\ HomeOf \in [Receipts -> Workspaces]
  /\ ThisMonth \in Months /\ OldestMonth \in Months

VARIABLES
  status,     \* Receipt.status; PENDING, PROCESSING and FAILED are "READING"
  linked,     \* whether a workspace has a chat
  page,       \* the page that is open
  selected,   \* useWorkspace's workspaceId
  month,      \* the month in the Summary page's heading
  shown,      \* the last answer applied, and the workspace it is of
  code,       \* the workspace of the link code on the card
  call,       \* the calls under way
  disturbed   \* history: the last load of the open Summary page overlapped or failed

serverVars == <<status, linked>>
viewVars == <<page, selected, month>>
pageVars == <<viewVars, shown, code, disturbed>>
vars == <<serverVars, pageVars, call>>

Statuses == {"READING", "PARSED", "CONFIRMED"}
Pages == {"receipts", "connect", "summary"}
ReceiptsOf(ws) == {r \in Receipts : HomeOf[r] = ws}
View(p, ws) ==
  [of |-> ws,
   data |-> IF p = "receipts" THEN [r \in ReceiptsOf(ws) |-> status[r]] ELSE linked[ws]]

\* Whom an answer still reaches: the card that asked, its page only, nobody.
Reaches == {"card", "page", "nobody"}
Kinds == {"none", "read", "load", "confirm", "generate", "disconnect", "status"}
NoCall == [kind |-> "none", ws |-> None, arg |-> None, reaches |-> "nobody",
           answer |-> None]
Free(c) == call[c].kind = "none"
Waiting(c, kinds) == call[c].kind \in kinds /\ call[c].answer = None
Loading == \E c \in Calls : call[c].kind = "load"
Answered(c, kinds) == call[c].kind \in kinds /\ call[c].answer # None

TypeOK ==
  /\ status \in [Receipts -> Statuses]
  /\ linked \in [Workspaces -> BOOLEAN]
  /\ page \in Pages /\ selected \in Workspaces
  /\ month \in Months /\ disturbed \in BOOLEAN
  /\ code \in Workspaces \cup {None}
  /\ \A c \in Calls : /\ call[c].kind \in Kinds /\ call[c].reaches \in Reaches
                      /\ call[c].ws \in Workspaces \cup {None}
                      /\ call[c].arg \in Receipts \cup Months \cup {None}

Init ==
  /\ status \in [Receipts -> Statuses]
  /\ linked \in [Workspaces -> BOOLEAN]
  /\ page = "receipts" /\ selected \in Workspaces
  /\ month = ThisMonth /\ disturbed = FALSE
  /\ shown = None /\ code = None
  /\ call = [c \in Calls |-> NoCall]

-----------------------------------------------------------------------------
(* What the user and the timers do.                                        *)

Sent(c, kind, ws, arg, reaches) ==
  /\ Free(c)
  /\ call' = [call EXCEPT ![c] = [kind |-> kind, ws |-> ws, arg |-> arg,
                                  reaches |-> reaches, answer |-> None]]

Send(c, kind, ws, arg, reaches) ==
  Sent(c, kind, ws, arg, reaches) /\ UNCHANGED <<serverVars, pageVars>>

\* Mutant: a page that shows a connected chat has nothing left to wait for.
PollUntilLinked(c) ==
  /\ page # "summary"
  /\ ~(page = "connect" /\ shown # None /\ shown.data)
  /\ Send(c, "read", selected, None, "page")


\* refresh(), by the interval or at once after a switch.
Poll(c) == page # "summary" /\ Send(c, "read", selected, None, "page")

\* Mutant: the effect that a switch runs does not clear the page.
SwitchWorkspaceKept(ws) ==
  /\ page # "summary" /\ ws # selected /\ selected' = ws
  /\ code' = None
  /\ UNCHANGED <<serverVars, page, month, shown, disturbed, call>>

\* The effects of a switch clear list, selection and status; without a status
\* the cards are gone, and what they have asked for reaches the page at most.
SwitchWorkspace(ws) ==
  /\ page # "summary" /\ ws # selected /\ selected' = ws
  /\ shown' = None /\ code' = None
  /\ call' = [c \in Calls |-> IF call[c].reaches = "card"
                                THEN [call[c] EXCEPT !.reaches = "page"] ELSE call[c]]
  /\ UNCHANGED <<serverVars, page, month, disturbed>>

\* Of the calls of a page that is left only what they do to the rows counts:
\* the answers reach nobody and are dropped.
LeavePage ==
  [c \in Calls |-> IF Waiting(c, {"confirm", "disconnect"})
                   THEN [call[c] EXCEPT !.reaches = "nobody"] ELSE NoCall]

\* The selection outlives the page (setStoredWorkspaceId).
OpenPage(p) ==
  /\ p \notin {page, "summary"} /\ page' = p
  /\ shown' = None /\ code' = None
  /\ month' = ThisMonth /\ disturbed' = FALSE
  /\ call' = LeavePage
  /\ UNCHANGED <<serverVars, selected>>

\* The Summary page starts with this month, and its effect loads it.
OpenSummary(c) ==
  /\ page # "summary" /\ page' = "summary"
  /\ shown' = None /\ code' = None
  /\ LeavePage[c] = NoCall
  /\ call' = [LeavePage EXCEPT ![c] = [kind |-> "load", ws |-> selected, arg |-> ThisMonth,
                                       reaches |-> "page", answer |-> None]]
  /\ UNCHANGED <<serverVars, selected, month, disturbed>>

\* setWorkspaceId or setMonth on the Summary page makes a new "load", which its
\* effect calls; what is shown stays until the answer.
Reload(c, ws, m) ==
  /\ selected' = ws /\ month' = m
  /\ Sent(c, "load", ws, m, "page")
  /\ disturbed' = Loading
  /\ UNCHANGED <<serverVars, page, shown, code>>

SwitchOnSummary(c, ws) ==
  page = "summary" /\ ws # selected /\ Reload(c, ws, month)

\* Mutant: load does not depend on the month.
StepMonthUnloaded(c, delta) ==
  /\ page = "summary" /\ Free(c)
  /\ month' = shiftMonth(month, delta) /\ month' \in {OldestMonth, ThisMonth}
  /\ UNCHANGED <<serverVars, page, selected, shown, code, disturbed, call>>

\* The buttons to either side of the heading; the right one ends at this month.
StepMonth(c, delta) ==
  /\ page = "summary"
  /\ IF delta = 1 THEN Earlier(month, ThisMonth) ELSE Earlier(OldestMonth, month)
  /\ Reload(c, selected, shiftMonth(month, delta))

\* The button is next to a receipt of the list, whichever list that is.
ClickConfirm(c, r) ==
  /\ page = "receipts" /\ shown # None
  /\ r \in ReceiptsOf(shown.of) /\ shown.data[r] = "PARSED"
  /\ Send(c, "confirm", selected, r, "page")

Busy == \E c \in Calls : /\ call[c].kind \in {"generate", "disconnect", "status"}
                         /\ call[c].reaches = "card"
Card == page = "connect" /\ shown # None

ClickGenerate(c) ==
  /\ Card /\ ~Busy
  /\ Send(c, "generate", selected, None, "card")

ClickDisconnect(c) ==
  /\ Card /\ ~Busy /\ shown.data
  /\ Send(c, "disconnect", selected, None, "card")

\* The countdown has reached zero.
CodeExpires ==
  /\ code # None /\ code' = None
  /\ UNCHANGED <<serverVars, viewVars, shown, disturbed, call>>

-----------------------------------------------------------------------------
(* What the API does with a call.                                          *)

Reply(c, answer) ==
  call' = [call EXCEPT ![c] = IF @.reaches = "nobody" THEN NoCall
                              ELSE [@ EXCEPT !.answer = answer]]
End(c) == call' = [call EXCEPT ![c] = NoCall]

ServeRead(c) ==
  /\ Waiting(c, {"read", "status"})
  /\ Reply(c, View(IF call[c].kind = "read" THEN page ELSE "connect", call[c].ws))
  /\ UNCHANGED <<serverVars, pageVars>>

\* What the summary says of a month is MonthlySummary's; here, of which it is.
ServeLoad(c) ==
  /\ Waiting(c, {"load"})
  /\ Reply(c, [of |-> call[c].ws, data |-> call[c].arg])
  /\ UNCHANGED <<serverVars, pageVars>>

\* A row of another workspace is hidden from the update: 404.
ServeConfirm(c) ==
  /\ Waiting(c, {"confirm"})
  /\ IF HomeOf[call[c].arg] = call[c].ws
       THEN /\ status' = [status EXCEPT ![call[c].arg] = "CONFIRMED"]
            /\ Reply(c, "done")
       ELSE End(c) /\ UNCHANGED status
  /\ UNCHANGED <<linked, pageVars>>

ServeGenerate(c) ==
  /\ Waiting(c, {"generate"})
  /\ Reply(c, call[c].ws)
  /\ UNCHANGED <<serverVars, pageVars>>

\* unlink: the update, then status() reads what it answers.
ServeDisconnect(c) ==
  /\ Waiting(c, {"disconnect"})
  /\ linked' = [linked EXCEPT ![call[c].ws] = FALSE]
  /\ call' = [call EXCEPT ![c].kind = "status"]
  /\ UNCHANGED <<status, pageVars>>

\* Somebody else: the worker and other members, the bot.
StatusChanges(r, s) ==
  /\ s # status[r]
  /\ status' = [status EXCEPT ![r] = s]
  /\ UNCHANGED <<linked, pageVars, call>>

LinkChanges(ws) ==
  /\ linked' = [linked EXCEPT ![ws] = ~@]
  /\ UNCHANGED <<status, pageVars, call>>

-----------------------------------------------------------------------------
(* What the page does with an answer.                                      *)

\* setReceipts or setStatus; a chat that is newly linked takes the code away.
ApplyView(c) ==
  /\ Answered(c, {"read", "load", "status"})
  /\ shown' = call[c].answer
  /\ code' = IF page = "connect" /\ shown # None /\ ~shown.data /\ call[c].answer.data
                THEN None ELSE code
  /\ End(c)
  /\ UNCHANGED <<serverVars, viewVars, disturbed>>

\* handleConfirm goes on with the refresh it closed over: of the workspace the
\* click was made in.
RefreshAfterConfirm(c) ==
  /\ Answered(c, {"confirm"})
  /\ call' = [call EXCEPT ![c] = [@ EXCEPT !.kind = "read", !.arg = None, !.answer = None]]
  /\ UNCHANGED <<serverVars, pageVars>>

\* setCode of a card that is gone does nothing.
ApplyCode(c) ==
  /\ Answered(c, {"generate"})
  /\ code' = IF call[c].reaches = "card" THEN call[c].answer ELSE code
  /\ End(c)
  /\ UNCHANGED <<serverVars, viewVars, shown, disturbed>>

\* The call fails, before it was served or after: an error is shown, no more.
CallFails(c) ==
  /\ ~Free(c)
  /\ End(c)
  /\ disturbed' = (disturbed \/ call[c].kind = "load")
  /\ UNCHANGED <<serverVars, viewVars, shown, code>>

-----------------------------------------------------------------------------
Serve(c) ==
  ServeRead(c) \/ ServeLoad(c) \/ ServeConfirm(c) \/ ServeGenerate(c) \/ ServeDisconnect(c)
Apply(c) == ApplyView(c) \/ RefreshAfterConfirm(c) \/ ApplyCode(c)

Next ==
  \/ \E c \in Calls : \/ Poll(c) \/ ClickGenerate(c) \/ ClickDisconnect(c)
                      \/ Serve(c) \/ Apply(c) \/ CallFails(c)
                      \/ OpenSummary(c) \/ \E delta \in {-1, 1} : StepMonth(c, delta)
                      \/ \E ws \in Workspaces : SwitchOnSummary(c, ws)
  \/ \E c \in Calls, r \in Receipts : ClickConfirm(c, r)
  \/ \E ws \in Workspaces : SwitchWorkspace(ws) \/ LinkChanges(ws)
  \/ \E p \in Pages : OpenPage(p)
  \/ \E r \in Receipts, s \in Statuses : StatusChanges(r, s)
  \/ CodeExpires

(***************************************************************************)
(* The interval fires again and again while a page is open, and a call is  *)
(* served and answered unless it fails.  Nobody has to click anything.     *)
(***************************************************************************)
Fairness ==
  /\ WF_vars(\E c \in Calls : Poll(c))
  /\ \A c \in Calls : WF_vars(Serve(c)) /\ WF_vars(Apply(c))

Spec == Init /\ [][Next]_vars
FairSpec == Spec /\ Fairness

-----------------------------------------------------------------------------
(* Properties.                                                             *)

\* A link code on the page is one of the workspace selected, however late it
\* came: a user who sends it to the bot connects what the page says.
CodeOfSelected == TypeOK /\ (code # None => code = selected)

\* With no load under way the Summary page shows the workspace and the month of
\* its heading, unless the last load overlapped another (the later answer stays,
\* whichever it is: summary/page.tsx 47) or failed (the old figures stay).
SummaryOfHeading ==
  page = "summary" /\ shown # None /\ ~Loading /\ ~disturbed =>
    shown = [of |-> selected, data |-> month]

\* Once nothing but polling happens any more, a page that polls shows the
\* workspace selected as it is, for good: every late answer is overwritten.
PollingOnly == \E c \in Calls : Poll(c) \/ ServeRead(c) \/ ApplyView(c)
ViewSettles == <>[][PollingOnly]_vars => <>[](page # "summary" => shown = View(page, selected))

\* Once the user stays in a workspace and calls fail no more, a polling page shows
\* that workspace and no other, for good, although clicks, other members and the
\* worker go on: answers of the workspace before, and the refresh that follows a
\* confirm made there, come to an end.
Staying == selected' = selected /\ page' = page /\ \A c \in Calls : ~CallFails(c)

=============================================================================
