------------------------- MODULE DashboardPagesProofs -------------------------
(***************************************************************************)
(* Proofs about DashboardPages, for any workspaces and receipts, any       *)
(* number of calls under way and any number of months to step through.     *)
(***************************************************************************)
EXTENDS DashboardPages, TLAPS

Heading == [of |-> selected, data |-> month]

\* What is known of a call by who may still get its answer: a card's call is of
\* the workspace selected, a load is the Summary page's and, while nothing has
\* disturbed it, of the heading; a page that was left gets no answer.
CallAt(k, p, ws, m, undisturbed) ==
  /\ DOMAIN k = {"kind", "ws", "arg", "reaches", "answer"}
  /\ k.kind \in Kinds /\ k.reaches \in Reaches
  /\ k.ws \in Workspaces \cup {None}
  /\ k.arg \in Receipts \cup Months \cup {None}
  /\ k.reaches = "nobody" => k.answer = None
  /\ k.reaches = "card" => k.ws = ws
  /\ k.kind = "generate" /\ k.answer # None => k.answer = k.ws
  /\ p = "summary" => k.kind = "load" \/ k.reaches = "nobody"
  /\ k.kind = "load" =>
       /\ p = "summary" /\ k.reaches = "page"
       /\ k.answer # None => k.answer = [of |-> k.ws, data |-> k.arg]
       /\ undisturbed => k.ws = ws /\ k.arg = m
  /\ k.kind \in {"read", "status"} /\ k.answer # None => k.answer.of = k.ws

CallOK(k) == CallAt(k, page, selected, month, ~disturbed)

CallsOK == DOMAIN call = Calls /\ \A c \in Calls : CallOK(call[c])

\* An undisturbed Summary page has one load under way, or the figures it asked for.
LoadsOK ==
  /\ page # "summary" => ~disturbed /\ month = ThisMonth
  /\ ~disturbed => \A c, d \in Calls : call[c].kind = "load" /\ call[d].kind = "load" => c = d
  /\ page = "summary" /\ ~disturbed /\ ~Loading => shown = Heading

RowsOK ==
  /\ status \in [Receipts -> Statuses]
  /\ linked \in [Workspaces -> BOOLEAN]

ViewOK ==
  /\ page \in Pages /\ selected \in Workspaces
  /\ month \in Months /\ disturbed \in BOOLEAN
  /\ code \in {None, selected}
  /\ page = "summary" => code = None

PagesInv == CallsOK /\ LoadsOK /\ RowsOK /\ ViewOK

-----------------------------------------------------------------------------
(* Records and calls.                                                      *)

\* Changing one field leaves the others.
LEMMA FieldChanged ==
  ASSUME NEW f, NEW a, NEW b
  PROVE  /\ DOMAIN [f EXCEPT ![a] = b] = DOMAIN f
         /\ \A c \in DOMAIN f : [f EXCEPT ![a] = b][c] = IF c = a THEN b ELSE f[c]
OBVIOUS

\* No call is a good call on every page.
LEMMA NoCallOK == CallOK(NoCall)
BY DEF CallOK, CallAt, NoCall, Kinds, Reaches

\* A call that is replaced on an unchanged page leaves the others as they are.
LEMMA OneCall ==
  ASSUME CallsOK, NEW c \in Calls, NEW n, CallOK(n), call' = [call EXCEPT ![c] = n],
         UNCHANGED <<viewVars, disturbed>>
  PROVE  /\ CallsOK'
         /\ \A d \in Calls : call'[d] = IF d = c THEN n ELSE call[d]
<1>1. DOMAIN call' = Calls /\ \A d \in Calls : call'[d] = IF d = c THEN n ELSE call[d]
  BY FieldChanged DEF CallsOK
<1>2. ASSUME NEW d \in Calls PROVE CallOK(call[d])' 
  <2>1. CallOK(call'[d])
    BY <1>1 DEF CallsOK
  <2>2. QED
    BY <2>1 DEF CallOK, CallAt, viewVars
<1>3. QED
  BY <1>1, <1>2 DEF CallsOK

\* What is a load stays one: then the Summary page is as good as before.
LEMMA LoadsStay ==
  ASSUME LoadsOK, UNCHANGED <<viewVars, disturbed, shown>>,
         \A d \in Calls : call'[d].kind = "load" <=> call[d].kind = "load"
  PROVE  LoadsOK'
BY DEF LoadsOK, viewVars, Loading, Heading

\* A call sent from the Receipts or the Connect page.
LEMMA SendKeeps ==
  ASSUME PagesInv, NEW c \in Calls, NEW kind \in Kinds \ {"load"},
         NEW arg \in Receipts \cup {None}, NEW reaches \in Reaches,
         page # "summary", Send(c, kind, selected, arg, reaches)
  PROVE  PagesInv'
<1> DEFINE n == [kind |-> kind, ws |-> selected, arg |-> arg, reaches |-> reaches,
                 answer |-> None]
<1> USE DEF PagesInv
<1>1. CallOK(n) /\ n.kind # "load"
  BY DEF CallOK, CallAt, ViewOK
<1>2. call' = [call EXCEPT ![c] = n] /\ call[c].kind = "none"
  BY DEF Send, Sent, Free
<1> HIDE DEF n
<1>3. UNCHANGED <<serverVars, viewVars, shown, code, disturbed>>
  BY DEF Send, pageVars
<1>4. CallsOK' /\ \A d \in Calls : call'[d] = IF d = c THEN n ELSE call[d]
  <2>1. CallsOK /\ CallOK(n)
    BY <1>1
  <2>2. UNCHANGED <<viewVars, disturbed>> /\ call' = [call EXCEPT ![c] = n]
    BY <1>2, <1>3
  <2>3. QED
    BY <2>1, <2>2, OneCall, Zenon
<1>5. LoadsOK'
  BY <1>1, <1>2, <1>3, <1>4, LoadsStay
<1>6. RowsOK' /\ ViewOK'
  BY <1>3 DEF RowsOK, ViewOK, serverVars, viewVars
<1>7. QED
  BY <1>4, <1>5, <1>6

\* The API answers a call: a page that was left gets nothing.
LEMMA ReplyKeeps ==
  ASSUME CallsOK, LoadsOK, NEW c \in Calls, NEW answer, call[c].kind # "none",
         call[c].kind = "generate" => answer = call[c].ws,
         call[c].kind = "load" => answer = [of |-> call[c].ws, data |-> call[c].arg],
         call[c].kind \in {"read", "status"} => answer.of = call[c].ws,
         Reply(c, answer), UNCHANGED pageVars
  PROVE  CallsOK' /\ LoadsOK'
<1> DEFINE n == IF call[c].reaches = "nobody" THEN NoCall
                ELSE [call[c] EXCEPT !.answer = answer]
<1>1. CallOK(n) /\ (n.kind = "load" <=> call[c].kind = "load")
  <2>1. CASE call[c].reaches = "nobody"
    BY <2>1, NoCallOK DEF CallsOK, CallOK, CallAt, NoCall
  <2>2. CASE call[c].reaches # "nobody"
    <3> DEFINE k == call[c]
               m == [k EXCEPT !.answer = answer]
    <3>1. CallOK(k)
      BY DEF CallsOK
    <3> HIDE DEF k
    <3>2. DOMAIN m = DOMAIN k /\ \A f \in DOMAIN k : m[f] = IF f = "answer" THEN answer ELSE k[f]
      BY FieldChanged
    <3>3. n = m
      BY <2>2 DEF k
    <3>4. /\ k.reaches # "nobody"
          /\ k.kind = "generate" => answer = k.ws
          /\ k.kind = "load" => answer = [of |-> k.ws, data |-> k.arg]
          /\ k.kind \in {"read", "status"} => answer.of = k.ws
      BY <2>2 DEF k
    <3> HIDE DEF m, n
    <3>5. CallOK(m) /\ m.kind = k.kind
      BY <3>1, <3>2, <3>4 DEF CallOK, CallAt
    <3>6. QED
      BY <3>3, <3>5 DEF k
  <2>3. QED
    BY <2>1, <2>2
<1>2. call' = [call EXCEPT ![c] = n]
  BY DEF Reply
<1> HIDE DEF n
<1>3. CallsOK' /\ \A d \in Calls : call'[d] = IF d = c THEN n ELSE call[d]
  BY <1>1, <1>2, OneCall DEF pageVars
<1>4. LoadsOK'
  BY <1>1, <1>3, LoadsStay DEF pageVars
<1>5. QED
  BY <1>3, <1>4

\* A call that is over, and was no load.
LEMMA EndKeeps ==
  ASSUME CallsOK, NEW c \in Calls, End(c), UNCHANGED <<viewVars, disturbed>>
  PROVE  /\ CallsOK'
         /\ \A d \in Calls : call'[d] = IF d = c THEN NoCall ELSE call[d]
BY NoCallOK, OneCall DEF End

\* Leaving a page drops what was under way, but for what changes rows.
LEMMA LeavePageKeeps ==
  ASSUME CallsOK, NEW c \in Calls
  PROVE  LET k == LeavePage[c]
         IN  /\ DOMAIN k = {"kind", "ws", "arg", "reaches", "answer"}
             /\ k.kind \in {"none", "confirm", "disconnect"}
             /\ k.ws \in Workspaces \cup {None}
             /\ k.arg \in Receipts \cup Months \cup {None}
             /\ k.reaches = "nobody" /\ k.answer = None
<1>1. CASE Waiting(c, {"confirm", "disconnect"})
  <2> DEFINE k == call[c]
             m == [k EXCEPT !.reaches = "nobody"]
  <2>1. CallOK(k) /\ k.kind \in {"confirm", "disconnect"} /\ k.answer = None
    BY <1>1 DEF CallsOK, Waiting
  <2>2. LeavePage[c] = m
    BY <1>1 DEF LeavePage
  <2> HIDE DEF k
  <2>3. DOMAIN m = DOMAIN k /\ \A f \in DOMAIN k : m[f] = IF f = "reaches" THEN "nobody" ELSE k[f]
    BY FieldChanged
  <2> HIDE DEF m
  <2>4. QED
    BY <2>1, <2>2, <2>3 DEF CallOK, CallAt
<1>2. CASE ~Waiting(c, {"confirm", "disconnect"})
  BY <1>2 DEF LeavePage, NoCall
<1>3. QED
  BY <1>1, <1>2

-----------------------------------------------------------------------------
(* The user's steps.                                                       *)

\* After a switch on a polling page no call is a card's any more.
LEMMA SwitchKeeps ==
  ASSUME PagesInv, NEW ws \in Workspaces, SwitchWorkspace(ws)
  PROVE  PagesInv'
<1> USE DEF PagesInv
<1>1. ASSUME NEW c \in Calls PROVE CallOK(call[c])' /\ call'[c].kind = call[c].kind
  <2> DEFINE k == call[c]
             m == [k EXCEPT !.reaches = "page"]
  <2>1. CallOK(k)
    BY DEF CallsOK
  <2>2. call'[c] = IF k.reaches = "card" THEN m ELSE k
    BY DEF SwitchWorkspace
  <2> HIDE DEF k
  <2>3. DOMAIN m = DOMAIN k /\ \A f \in DOMAIN k : m[f] = IF f = "reaches" THEN "page" ELSE k[f]
    BY FieldChanged
  <2> HIDE DEF m
  <2>4. page' = page /\ month' = month /\ disturbed' = disturbed /\ page # "summary"
    BY DEF SwitchWorkspace
  <2>5. CASE k.reaches = "card"
    <3>1. /\ DOMAIN m = {"kind", "ws", "arg", "reaches", "answer"}
          /\ m.kind = k.kind /\ m.ws = k.ws /\ m.arg = k.arg /\ m.answer = k.answer
          /\ m.reaches = "page"
      BY <2>1, <2>3 DEF CallOK, CallAt
    <3>2. CallAt(m, page', selected', month', ~disturbed')
      BY <2>1, <2>4, <2>5, <3>1 DEF CallOK, CallAt, Reaches
    <3>3. call'[c] = m
      BY <2>2, <2>5
    <3>4. QED
      BY <3>1, <3>2, <3>3 DEF CallOK, k
  <2>6. CASE k.reaches # "card"
    <3>1. call'[c] = k
      BY <2>2, <2>6
    <3>2. CallAt(k, page', selected', month', ~disturbed')
      BY <2>1, <2>4, <2>6 DEF CallOK, CallAt
    <3>3. QED
      BY <3>1, <3>2 DEF CallOK, k
  <2>7. QED
    BY <2>5, <2>6
<1>2. DOMAIN call' = Calls
  BY DEF SwitchWorkspace
<1>3. LoadsOK'
  BY <1>1 DEF LoadsOK, SwitchWorkspace
<1>4. RowsOK' /\ ViewOK'
  BY DEF RowsOK, ViewOK, SwitchWorkspace, serverVars
<1>5. QED
  BY <1>1, <1>2, <1>3, <1>4 DEF CallsOK

\* Another polling page starts without a load.
LEMMA OpenPageKeeps ==
  ASSUME PagesInv, NEW p \in Pages, OpenPage(p)
  PROVE  PagesInv'
<1> USE DEF PagesInv
<1>1. ASSUME NEW c \in Calls PROVE CallOK(call[c])' /\ call'[c].kind # "load"
  BY LeavePageKeeps DEF OpenPage, CallOK, CallAt, Kinds, Reaches
<1>2. DOMAIN call' = Calls
  BY DEF OpenPage, LeavePage
<1>3. LoadsOK'
  BY <1>1 DEF LoadsOK, OpenPage
<1>4. RowsOK' /\ ViewOK'
  BY DashboardAssumption DEF RowsOK, ViewOK, OpenPage, serverVars
<1>5. QED
  BY <1>1, <1>2, <1>3, <1>4 DEF CallsOK

\* The Summary page starts with one load, of its heading.
LEMMA OpenSummaryKeeps ==
  ASSUME PagesInv, NEW c \in Calls, OpenSummary(c)
  PROVE  PagesInv'
<1> DEFINE n == [kind |-> "load", ws |-> selected, arg |-> ThisMonth,
                 reaches |-> "page", answer |-> None]
<1> USE DEF PagesInv
<1>1. ThisMonth = month /\ ~disturbed /\ page # "summary" /\ page' = "summary"
  BY DEF OpenSummary, LoadsOK
<1>2. UNCHANGED <<serverVars, selected, month, disturbed>> /\ code' = None
  BY DEF OpenSummary
<1>3. CallAt(n, page', selected', month', ~disturbed') /\ n.kind = "load"
  BY <1>1, <1>2 DEF CallOK, CallAt, ViewOK, Kinds, Reaches
<1>4. call' = [LeavePage EXCEPT ![c] = n] /\ DOMAIN LeavePage = Calls
  BY DEF OpenSummary, LeavePage
<1> HIDE DEF n
<1>5. DOMAIN call' = Calls /\ \A d \in Calls : call'[d] = IF d = c THEN n ELSE LeavePage[d]
  BY <1>4, FieldChanged
<1>6. ASSUME NEW d \in Calls, d # c PROVE CallOK(call[d])' /\ call'[d].kind # "load"
  <2>1. call'[d] = LeavePage[d]
    BY <1>5, <1>6
  <2>2. CallAt(LeavePage[d], page', selected', month', ~disturbed') /\ LeavePage[d].kind # "load"
    BY LeavePageKeeps DEF CallAt, Kinds, Reaches
  <2>3. QED
    BY <2>1, <2>2 DEF CallOK
<1>7. CallOK(call[c])' /\ call'[c].kind = "load"
  <2>1. call'[c] = n
    BY <1>5
  <2>2. QED
    BY <1>3, <2>1 DEF CallOK, CallAt
<1>8. CallsOK'
  BY <1>5, <1>6, <1>7 DEF CallsOK
<1>9. LoadsOK'
  BY <1>1, <1>2, <1>6, <1>7 DEF LoadsOK, Loading
<1>10. RowsOK' /\ ViewOK'
  BY <1>1, <1>2 DEF RowsOK, ViewOK, serverVars, Pages
<1>11. QED
  BY <1>8, <1>9, <1>10

\* One more load, of the new heading; if another was under way it is disturbed.
LEMMA ReloadKeeps ==
  ASSUME PagesInv, NEW c \in Calls, NEW ws \in Workspaces, NEW m \in Months,
         page = "summary", Reload(c, ws, m)
  PROVE  PagesInv'
<1> DEFINE n == [kind |-> "load", ws |-> ws, arg |-> m, reaches |-> "page",
                 answer |-> None]
<1> USE DEF PagesInv
<1>1. /\ selected' = ws /\ month' = m /\ page' = page
      /\ disturbed' = Loading /\ UNCHANGED <<serverVars, shown, code>>
  BY DEF Reload
<1>2. CallAt(n, page', selected', month', ~disturbed') /\ n.kind = "load"
  BY <1>1 DEF CallOK, CallAt, Kinds, Reaches
<1>3. call' = [call EXCEPT ![c] = n] /\ DOMAIN call = Calls
  BY DEF Reload, Sent, CallsOK
<1> HIDE DEF n
<1>4. DOMAIN call' = Calls /\ \A d \in Calls : call'[d] = IF d = c THEN n ELSE call[d]
  BY <1>3, FieldChanged
<1>5. ASSUME NEW d \in Calls, d # c PROVE CallOK(call[d])'
  <2>1. call'[d] = call[d] /\ CallOK(call[d])
    BY <1>4, <1>5 DEF CallsOK
  <2>2. call[d].kind = "load" => disturbed'
    BY <1>1 DEF Loading
  <2>3. call[d].reaches # "card"
    BY <2>1 DEF CallOK, CallAt
  <2>4. QED
    BY <1>1, <2>1, <2>2, <2>3 DEF CallOK, CallAt
<1>6. CallOK(call[c])' /\ call'[c].kind = "load"
  <2>1. call'[c] = n
    BY <1>4
  <2>2. QED
    BY <1>2, <2>1 DEF CallOK, CallAt
<1>7. CallsOK'
  BY <1>4, <1>5, <1>6 DEF CallsOK
<1>8. LoadsOK'
  BY <1>1, <1>4, <1>6 DEF LoadsOK, Loading
<1>9. RowsOK'
  BY <1>1 DEF RowsOK, serverVars
<1>10. ViewOK'
  <2>1. Loading \in BOOLEAN
    BY DEF Loading
  <2>2. QED
    BY <1>1, <2>1 DEF ViewOK
<1>11. QED
  BY <1>7, <1>8, <1>9, <1>10

\* Stepping from a month to a neighbour stays among the months.
LEMMA ShiftKeepsMonths ==
  ASSUME NEW m \in Months,
         NEW delta \in {-1, 1}, delta = -1 => Earlier(OldestMonth, m)
  PROVE  shiftMonth(m, delta) \in Months
<1>1. PICK y \in Years, i \in 1..12 : m = <<y, i>>
  BY DEF Months
<1>2. PICK oy \in Years, oi \in 1..12 : OldestMonth = <<oy, oi>>
  BY DashboardAssumption DEF Months
<1>3. y \in Nat /\ oy \in Nat /\ y > 99 /\ oy > 99 /\ FullYear(y) = y
  BY DEF Years, FullYear
<1>4. shiftMonth(m, delta) = <<y + ((i - 1 + delta) \div 12), ((i - 1 + delta) % 12) + 1>>
  BY <1>1, <1>3 DEF shiftMonth, FirstOf, MonthOf
<1>5. ((i - 1 + delta) % 12) + 1 \in 1..12
  OBVIOUS
<1>6. y + ((i - 1 + delta) \div 12) \in Years
  <2>1. CASE delta = 1
    <3>1. (i - 1 + delta) \div 12 \in {0, 1}
      BY <2>1
    <3>2. QED
      BY <1>3, <3>1 DEF Years
  <2>2. CASE delta = -1 /\ i = 1
    <3>1. (i - 1 + delta) \div 12 = -1
      <4> DEFINE x == i - 1 + delta
                 q == x \div 12
      <4>1. x \in Int
        BY <2>2
      <4>2. x = -1
        BY <2>2
      <4> HIDE DEF x
      <4>3. q \in Int /\ 12 * q <= x /\ 12 * q > x - 12
        BY <4>1
      <4> HIDE DEF q
      <4>4. q = -1
        BY <4>1, <4>2, <4>3
      <4>5. QED
        BY <4>4 DEF q, x
    <3>2. oy < y
      BY <1>1, <1>2, <1>3, <2>2 DEF Earlier
    <3>3. QED
      BY <1>3, <3>1, <3>2 DEF Years
  <2>3. CASE delta = -1 /\ i # 1
    <3>1. (i - 1 + delta) \div 12 = 0
      BY <2>3
    <3>2. QED
      BY <1>3, <3>1 DEF Years
  <2>4. QED
    BY <2>1, <2>2, <2>3
<1>7. QED
  BY <1>4, <1>5, <1>6 DEF Months

-----------------------------------------------------------------------------
(* Calls served and answered.                                              *)

\* A served call changes rows in its own workspace only, and the page not yet.
LEMMA ServeKeeps ==
  ASSUME PagesInv, NEW c \in Calls, Serve(c)
  PROVE  PagesInv'
<1> USE DEF PagesInv
<1>1. pageVars' = pageVars
  BY DEF Serve, ServeRead, ServeLoad, ServeConfirm, ServeGenerate, ServeDisconnect
<1>2. ViewOK'
  BY <1>1 DEF ViewOK, pageVars, viewVars
<1>3. CASE ServeRead(c)
  <2>1. CallsOK' /\ LoadsOK'
    BY <1>1, <1>3, ReplyKeeps DEF ServeRead, Waiting, View
  <2>2. RowsOK'
    BY <1>3 DEF ServeRead, RowsOK, serverVars
  <2>3. QED
    BY <1>2, <2>1, <2>2
<1>4. CASE ServeLoad(c)
  <2>1. CallsOK' /\ LoadsOK'
    BY <1>1, <1>4, ReplyKeeps DEF ServeLoad, Waiting
  <2>2. RowsOK'
    BY <1>4 DEF ServeLoad, RowsOK, serverVars
  <2>3. QED
    BY <1>2, <2>1, <2>2
<1>5. CASE ServeGenerate(c)
  <2>1. CallsOK' /\ LoadsOK'
    BY <1>1, <1>5, ReplyKeeps DEF ServeGenerate, Waiting
  <2>2. RowsOK'
    BY <1>5 DEF ServeGenerate, RowsOK, serverVars
  <2>3. QED
    BY <1>2, <2>1, <2>2
<1>6. CASE ServeConfirm(c)
  <2>1. call[c].kind = "confirm"
    BY <1>6 DEF ServeConfirm, Waiting
  <2>2. CASE HomeOf[call[c].arg] = call[c].ws
    <3>1. Reply(c, "done")
      BY <1>6, <2>2 DEF ServeConfirm
    <3>2. CallsOK' /\ LoadsOK'
      BY <1>1, <2>1, <3>1, ReplyKeeps
    <3>3. RowsOK'
      BY <1>6, <2>2 DEF ServeConfirm, RowsOK, Statuses
    <3>4. QED
      BY <1>2, <3>2, <3>3
  <2>3. CASE HomeOf[call[c].arg] # call[c].ws
    <3>1. End(c) /\ UNCHANGED serverVars
      BY <1>6, <2>3 DEF ServeConfirm, serverVars
    <3>2. CallsOK' /\ \A d \in Calls : call'[d] = IF d = c THEN NoCall ELSE call[d]
      BY <1>1, <3>1, EndKeeps DEF pageVars
    <3>3. LoadsOK'
      BY <1>1, <2>1, <3>2, LoadsStay DEF NoCall, pageVars
    <3>4. RowsOK'
      BY <3>1 DEF RowsOK, serverVars
    <3>5. QED
      BY <1>2, <3>2, <3>3, <3>4
  <2>4. QED
    BY <2>2, <2>3
<1>7. CASE ServeDisconnect(c)
  <2> DEFINE k == call[c]
             n == [k EXCEPT !.kind = "status"]
  <2>1. CallOK(k) /\ k.kind = "disconnect" /\ k.answer = None
    BY <1>7 DEF CallsOK, ServeDisconnect, Waiting
  <2>2. call' = [call EXCEPT ![c] = n]
    BY <1>7 DEF ServeDisconnect
  <2> HIDE DEF k
  <2>3. DOMAIN n = DOMAIN k /\ \A f \in DOMAIN k : n[f] = IF f = "kind" THEN "status" ELSE k[f]
    BY FieldChanged
  <2> HIDE DEF n
  <2>4. CallOK(n) /\ n.kind = "status"
    BY <2>1, <2>3 DEF CallOK, CallAt, Kinds
  <2>5. CallsOK' /\ \A d \in Calls : call'[d] = IF d = c THEN n ELSE call[d]
    BY <1>1, <2>2, <2>4, OneCall DEF pageVars
  <2>6. LoadsOK'
    BY <1>1, <2>1, <2>4, <2>5, LoadsStay DEF k, pageVars
  <2>7. linked' \in [Workspaces -> BOOLEAN]
    BY <1>7 DEF ServeDisconnect, RowsOK
  <2>8. RowsOK'
    BY <1>7, <2>7 DEF ServeDisconnect, RowsOK
  <2>9. QED
    BY <1>2, <2>5, <2>6, <2>8
<1>8. QED
  BY <1>3, <1>4, <1>5, <1>6, <1>7 DEF Serve

\* An answer that still reaches a page or a card is one it may show.
LEMMA ApplyKeeps ==
  ASSUME PagesInv, NEW c \in Calls, Apply(c)
  PROVE  PagesInv'
<1> USE DEF PagesInv
<1> DEFINE k == call[c]
<1>1. CallOK(k)
  BY DEF CallsOK
<1>2. UNCHANGED <<serverVars, viewVars, disturbed>>
  BY DEF Apply, ApplyView, RefreshAfterConfirm, ApplyCode, pageVars
<1>3. RowsOK'
  BY <1>2 DEF RowsOK, serverVars
<1>4. CASE ApplyView(c)
  <2>1. CallsOK' /\ \A d \in Calls : call'[d] = IF d = c THEN NoCall ELSE call[d]
    BY <1>2, <1>4, EndKeeps DEF ApplyView
  <2>2. /\ k.answer # None /\ k.reaches # "nobody" /\ shown' = k.answer
        /\ code' \in {None, code}
    BY <1>1, <1>4 DEF ApplyView, Answered, CallOK, CallAt
  <2>3. CASE page # "summary"
    <3>1. \A d \in Calls : call'[d].kind # "load"
      <4>1. \A d \in Calls : call[d].kind # "load"
        BY <2>3 DEF CallsOK, CallOK, CallAt
      <4>2. QED
        BY <2>1, <4>1 DEF NoCall
    <3>2. LoadsOK'
      BY <1>2, <2>3, <3>1 DEF LoadsOK, viewVars
    <3>3. QED
      BY <1>2, <1>3, <2>1, <2>2, <3>2 DEF ViewOK, viewVars
  <2>4. CASE page = "summary"
    <3>1. k.kind = "load" /\ k.answer = [of |-> k.ws, data |-> k.arg]
      BY <1>1, <2>2, <2>4 DEF CallOK, CallAt
    <3>2. ~disturbed => k.answer = Heading
      BY <1>1, <3>1 DEF CallOK, CallAt, Heading
    <3>3. \A a, b \in Calls : call'[a].kind = "load" /\ call'[b].kind = "load"
                                => call[a].kind = "load" /\ call[b].kind = "load"
      BY <2>1 DEF NoCall
    <3>4. LoadsOK'
      BY <1>2, <2>2, <2>4, <3>2, <3>3 DEF LoadsOK, Heading, viewVars
    <3>5. QED
      BY <1>2, <1>3, <2>1, <2>2, <3>4 DEF ViewOK, viewVars
  <2>5. QED
    BY <1>2, <1>3, <2>1, <2>2, <2>3, <2>4 DEF ViewOK, viewVars
<1>5. CASE RefreshAfterConfirm(c)
  <2> DEFINE k1 == [k EXCEPT !.kind = "read"]
             k2 == [k1 EXCEPT !.arg = None]
             n == [k2 EXCEPT !.answer = None]
  <2>1. k.kind = "confirm"
    BY <1>5 DEF RefreshAfterConfirm, Answered
  <2>2. call' = [call EXCEPT ![c] = n]
    BY <1>5 DEF RefreshAfterConfirm
  <2> HIDE DEF k
  <2>3. DOMAIN k1 = DOMAIN k /\ \A f \in DOMAIN k : k1[f] = IF f = "kind" THEN "read" ELSE k[f]
    BY FieldChanged
  <2> HIDE DEF k1
  <2>4. DOMAIN k2 = DOMAIN k1 /\ \A f \in DOMAIN k1 : k2[f] = IF f = "arg" THEN None ELSE k1[f]
    BY FieldChanged
  <2> HIDE DEF k2
  <2>5. DOMAIN n = DOMAIN k2 /\ \A f \in DOMAIN k2 : n[f] = IF f = "answer" THEN None ELSE k2[f]
    BY FieldChanged
  <2> HIDE DEF n
  <2>6. CallOK(n) /\ n.kind = "read"
    BY <1>1, <2>1, <2>3, <2>4, <2>5 DEF CallOK, CallAt, Kinds
  <2>7. CallsOK' /\ \A d \in Calls : call'[d] = IF d = c THEN n ELSE call[d]
    BY <1>2, <2>2, <2>6, OneCall
  <2>8. UNCHANGED <<shown, code>>
    BY <1>5 DEF RefreshAfterConfirm, pageVars
  <2>9. LoadsOK'
    BY <1>2, <2>1, <2>6, <2>7, <2>8, LoadsStay DEF k
  <2>10. ViewOK'
    BY <1>2, <2>8 DEF ViewOK, viewVars
  <2>11. QED
    BY <1>3, <2>7, <2>9, <2>10
<1>6. CASE ApplyCode(c)
  <2>1. CallsOK' /\ \A d \in Calls : call'[d] = IF d = c THEN NoCall ELSE call[d]
    BY <1>2, <1>6, EndKeeps DEF ApplyCode
  <2>2. k.kind = "generate" /\ k.answer # None /\ UNCHANGED shown
    BY <1>6 DEF ApplyCode, Answered
  <2>3. LoadsOK'
    BY <1>2, <2>1, <2>2, LoadsStay DEF NoCall
  <2>4. page # "summary" /\ code' \in {code, selected}
    BY <1>1, <1>6, <2>2 DEF ApplyCode, CallOK, CallAt
  <2>5. ViewOK'
    BY <1>2, <2>4 DEF ViewOK, viewVars
  <2>6. QED
    BY <1>3, <2>1, <2>3, <2>5
<1>7. QED
  BY <1>4, <1>5, <1>6 DEF Apply

\* A failed load leaves the page disturbed, any other failure as it is.
LEMMA FailKeeps ==
  ASSUME PagesInv, NEW c \in Calls, CallFails(c)
  PROVE  PagesInv'
<1> USE DEF PagesInv
<1>1. /\ UNCHANGED <<serverVars, viewVars, shown, code>> /\ End(c)
      /\ disturbed' = (disturbed \/ call[c].kind = "load")
  BY DEF CallFails
<1>2. call' = [call EXCEPT ![c] = NoCall] /\ DOMAIN call = Calls
  BY <1>1 DEF End, CallsOK
<1>3. DOMAIN call' = Calls /\ \A d \in Calls : call'[d] = IF d = c THEN NoCall ELSE call[d]
  BY <1>2, FieldChanged
<1>4. ASSUME NEW d \in Calls PROVE CallOK(call[d])'
  <2>1. CallAt(call'[d], page, selected, month, ~disturbed)
    BY <1>3, NoCallOK DEF CallsOK, CallOK
  <2>2. QED
    BY <1>1, <2>1 DEF CallOK, CallAt, viewVars
<1>5. LoadsOK'
  <2>1. CASE call[c].kind = "load"
    <3>1. page = "summary" /\ disturbed'
      BY <1>1, <2>1 DEF CallsOK, CallOK, CallAt
    <3>2. QED
      BY <1>1, <3>1 DEF LoadsOK, viewVars
  <2>2. CASE call[c].kind # "load"
    <3>1. disturbed' = disturbed
      BY <1>1, <2>2 DEF ViewOK
    <3>2. \A d \in Calls : call'[d].kind = "load" <=> call[d].kind = "load"
      BY <1>3, <2>2 DEF NoCall
    <3>3. QED
      BY <1>1, <3>1, <3>2, LoadsStay
  <2>3. QED
    BY <2>1, <2>2
<1>6. RowsOK'
  BY <1>1 DEF RowsOK, serverVars
<1>7. disturbed' \in BOOLEAN
  BY <1>1
<1>8. ViewOK'
  BY <1>1, <1>7 DEF ViewOK, viewVars
<1>9. QED
  BY <1>3, <1>4, <1>5, <1>6, <1>8 DEF CallsOK

-----------------------------------------------------------------------------
(* Answers of another workspace.                                           *)

\* Nothing on the page is of another workspace than the one selected, and nothing
\* that still reaches it.
CallHome(k) == k.reaches # "nobody" => k.ws = selected
CallsHome == \A c \in Calls : CallHome(call[c])
AtHome == CallsHome /\ (shown # None => shown.of = selected)

\* A call that is replaced by one of the workspace selected.
LEMMA OneCallHome ==
  ASSUME CallsOK, CallsHome, NEW c \in Calls, NEW n, CallHome(n),
         call' = [call EXCEPT ![c] = n], selected' = selected
  PROVE  CallsHome'
<1>1. \A d \in Calls : call'[d] = IF d = c THEN n ELSE call[d]
  BY FieldChanged DEF CallsOK
<1>2. QED
  BY <1>1 DEF CallsHome, CallHome

\* A call keeps its workspace and its page when it is answered, or ends.
LEMMA ReplyHome ==
  ASSUME CallsOK, CallsHome, NEW c \in Calls, selected' = selected,
         End(c) \/ \E answer : Reply(c, answer)
  PROVE  CallsHome'
<1>1. CallHome(NoCall)
  BY DEF CallHome, NoCall
<1>2. CASE End(c)
  BY <1>1, <1>2, OneCallHome DEF End
<1>3. ASSUME NEW answer, Reply(c, answer) PROVE CallsHome'
  <2> DEFINE k == call[c]
             m == [k EXCEPT !.answer = answer]
             n == IF k.reaches = "nobody" THEN NoCall ELSE m
  <2>1. DOMAIN m = DOMAIN k /\ \A f \in DOMAIN k : m[f] = IF f = "answer" THEN answer ELSE k[f]
    BY FieldChanged
  <2>2. CallOK(k) /\ CallHome(k)
    BY DEF CallsOK, CallsHome
  <2>3. call' = [call EXCEPT ![c] = n]
    BY <1>3 DEF Reply
  <2> HIDE DEF k, m
  <2>4. CallHome(m)
    BY <2>1, <2>2 DEF CallHome, CallOK, CallAt
  <2>5. CallHome(n)
    BY <1>1, <2>4
  <2> HIDE DEF n
  <2>6. QED
    BY <2>3, <2>5, OneCallHome
<1>4. QED
  BY <1>2, <1>3

\* While the workspace stays selected, what is sent is of it.
LEMMA SentHome ==
  ASSUME CallsOK, CallsHome, NEW c \in Calls, NEW kind, NEW arg, NEW reaches,
         Sent(c, kind, selected, arg, reaches), selected' = selected
  PROVE  CallsHome'
BY OneCallHome DEF Sent, CallHome

\* The steps of the API.
LEMMA ServeHome ==
  ASSUME PagesInv, AtHome, NEW c \in Calls, Serve(c)
  PROVE  AtHome'
<1> USE DEF PagesInv, AtHome
<1>1. pageVars' = pageVars
  BY DEF Serve, ServeRead, ServeLoad, ServeConfirm, ServeGenerate, ServeDisconnect
<1>2. CASE ServeDisconnect(c)
  <2> DEFINE k == call[c]
             n == [k EXCEPT !.kind = "status"]
  <2>1. CallOK(k) /\ CallHome(k)
    BY DEF CallsOK, CallsHome
  <2>2. call' = [call EXCEPT ![c] = n]
    BY <1>2 DEF ServeDisconnect
  <2>3. DOMAIN n = DOMAIN k /\ \A f \in DOMAIN k : n[f] = IF f = "kind" THEN "status" ELSE k[f]
    BY FieldChanged
  <2> HIDE DEF k, n
  <2>4. CallHome(n)
    BY <2>1, <2>3 DEF CallHome, CallOK, CallAt
  <2>5. QED
    BY <1>1, <2>2, <2>4, OneCallHome DEF pageVars, viewVars
<1>3. CASE ~ServeDisconnect(c)
  <2>1. End(c) \/ \E answer : Reply(c, answer)
    BY <1>3 DEF Serve, ServeRead, ServeLoad, ServeConfirm, ServeGenerate
  <2>2. QED
    BY <1>1, <2>1, ReplyHome DEF pageVars, viewVars
<1>4. QED
  BY <1>2, <1>3

\* The steps of the page: the refresh after a confirm is of the confirm's workspace.
LEMMA ApplyHome ==
  ASSUME PagesInv, AtHome, NEW c \in Calls, Apply(c)
  PROVE  AtHome'
<1> USE DEF PagesInv, AtHome
<1> DEFINE k == call[c]
<1>1. CallOK(k) /\ CallHome(k)
  BY DEF CallsOK, CallsHome
<1>2. selected' = selected
  BY DEF Apply, ApplyView, RefreshAfterConfirm, ApplyCode, pageVars, viewVars
<1>3. CASE ApplyView(c)
  <2>1. CallsHome'
    BY <1>2, <1>3, ReplyHome DEF ApplyView
  <2>2. /\ k.kind \in {"read", "load", "status"} /\ k.answer # None
        /\ shown' = k.answer
    BY <1>3 DEF ApplyView, Answered
  <2>3. k.answer.of = k.ws /\ k.reaches # "nobody"
    BY <1>1, <2>2 DEF CallOK, CallAt
  <2>4. QED
    BY <1>1, <1>2, <2>1, <2>2, <2>3 DEF CallHome
<1>4. CASE RefreshAfterConfirm(c)
  <2> DEFINE k1 == [k EXCEPT !.kind = "read"]
             k2 == [k1 EXCEPT !.arg = None]
             n == [k2 EXCEPT !.answer = None]
  <2>1. call' = [call EXCEPT ![c] = n] /\ shown' = shown
    BY <1>4 DEF RefreshAfterConfirm, pageVars
  <2> HIDE DEF k
  <2>2. DOMAIN k1 = DOMAIN k /\ \A f \in DOMAIN k : k1[f] = IF f = "kind" THEN "read" ELSE k[f]
    BY FieldChanged
  <2> HIDE DEF k1
  <2>3. DOMAIN k2 = DOMAIN k1 /\ \A f \in DOMAIN k1 : k2[f] = IF f = "arg" THEN None ELSE k1[f]
    BY FieldChanged
  <2> HIDE DEF k2
  <2>4. DOMAIN n = DOMAIN k2 /\ \A f \in DOMAIN k2 : n[f] = IF f = "answer" THEN None ELSE k2[f]
    BY FieldChanged
  <2> HIDE DEF n
  <2>5. CallHome(n)
    BY <1>1, <2>2, <2>3, <2>4 DEF CallHome, CallOK, CallAt
  <2>6. QED
    BY <1>2, <2>1, <2>5, OneCallHome
<1>5. CASE ApplyCode(c)
  BY <1>2, <1>5, ReplyHome DEF ApplyCode
<1>6. QED
  BY <1>3, <1>4, <1>5 DEF Apply

\* Leaving a page lets nothing of it reach the next one.
LEMMA LeaveHome ==
  ASSUME CallsOK, NEW c \in Calls
  PROVE  CallHome(LeavePage[c])
BY LeavePageKeeps DEF CallHome

-----------------------------------------------------------------------------
(* The theorems.                                                           *)

\* Every tab starts on its Receipts page, with nothing under way.
LEMMA PagesInvInit == Init => PagesInv
<1> SUFFICES ASSUME Init PROVE PagesInv
  OBVIOUS
<1>1. CallsOK /\ \A c \in Calls : call[c].kind = "none"
  BY NoCallOK DEF Init, CallsOK, NoCall
<1>2. LoadsOK
  BY <1>1 DEF Init, LoadsOK
<1>3. RowsOK
  BY DEF Init, RowsOK
<1>4. ViewOK
  BY DashboardAssumption DEF Init, ViewOK, Pages
<1>5. QED
  BY <1>1, <1>2, <1>3, <1>4 DEF PagesInv

\* Every step of the user, the timers, the API and everybody else keeps it.
LEMMA PagesInvStep ==
  ASSUME PagesInv, [Next]_vars
  PROVE  PagesInv'
<1>1. ASSUME NEW c \in Calls, Poll(c) PROVE PagesInv'
  BY <1>1, SendKeeps DEF Poll, Kinds, Reaches
<1>2. ASSUME NEW c \in Calls, ClickGenerate(c) PROVE PagesInv'
  <2>1. page # "summary"
    BY <1>2 DEF ClickGenerate, Card
  <2>2. QED
    BY <1>2, <2>1, SendKeeps DEF ClickGenerate, Kinds, Reaches
<1>3. ASSUME NEW c \in Calls, ClickDisconnect(c) PROVE PagesInv'
  <2>1. page # "summary"
    BY <1>3 DEF ClickDisconnect, Card
  <2>2. QED
    BY <1>3, <2>1, SendKeeps DEF ClickDisconnect, Kinds, Reaches
<1>4. ASSUME NEW c \in Calls, NEW r \in Receipts, ClickConfirm(c, r) PROVE PagesInv'
  <2>1. page # "summary"
    BY <1>4 DEF ClickConfirm
  <2>2. QED
    BY <1>4, <2>1, SendKeeps DEF ClickConfirm, Kinds, Reaches
<1>5. ASSUME NEW c \in Calls, OpenSummary(c) PROVE PagesInv'
  BY <1>5, OpenSummaryKeeps
<1>6. ASSUME NEW c \in Calls, NEW delta \in {-1, 1}, StepMonth(c, delta) PROVE PagesInv'
  <2>1. selected \in Workspaces /\ month \in Months
    BY DEF PagesInv, ViewOK
  <2>2. shiftMonth(month, delta) \in Months
    BY <1>6, <2>1, ShiftKeepsMonths DEF StepMonth
  <2>3. QED
    BY <1>6, <2>1, <2>2, ReloadKeeps DEF StepMonth
<1>7. ASSUME NEW c \in Calls, NEW ws \in Workspaces, SwitchOnSummary(c, ws) PROVE PagesInv'
  <2>1. month \in Months
    BY DEF PagesInv, ViewOK
  <2>2. QED
    BY <1>7, <2>1, ReloadKeeps DEF SwitchOnSummary
<1>8. ASSUME NEW ws \in Workspaces, LinkChanges(ws) PROVE PagesInv'
  <2>1. UNCHANGED <<status, pageVars, call>>
    BY <1>8 DEF LinkChanges
  <2>2. linked' \in [Workspaces -> BOOLEAN]
    BY <1>8 DEF LinkChanges, PagesInv, RowsOK
  <2>3. RowsOK'
    BY <2>1, <2>2 DEF PagesInv, RowsOK
  <2>4. CallsOK' /\ LoadsOK' /\ ViewOK'
    BY <2>1 DEF PagesInv, CallsOK, CallOK, LoadsOK, ViewOK, Loading, Heading, pageVars, viewVars
  <2>5. QED
    BY <2>3, <2>4 DEF PagesInv
<1>9. ASSUME NEW r \in Receipts, NEW s \in Statuses, StatusChanges(r, s) PROVE PagesInv'
  <2>1. UNCHANGED <<linked, pageVars, call>>
    BY <1>9 DEF StatusChanges
  <2>2. RowsOK'
    BY <1>9, <2>1 DEF StatusChanges, PagesInv, RowsOK
  <2>3. CallsOK' /\ LoadsOK' /\ ViewOK'
    BY <2>1 DEF PagesInv, CallsOK, CallOK, LoadsOK, ViewOK, Loading, Heading, pageVars, viewVars
  <2>4. QED
    BY <2>2, <2>3 DEF PagesInv
<1>10. CASE CodeExpires
  <2>1. UNCHANGED <<serverVars, viewVars, shown, disturbed, call>> /\ code' = None
    BY <1>10 DEF CodeExpires
  <2>2. CallsOK' /\ LoadsOK' /\ RowsOK' /\ ViewOK'
    BY <2>1 DEF PagesInv, CallsOK, CallOK, LoadsOK, ViewOK, RowsOK, Loading, Heading,
       serverVars, viewVars
  <2>3. QED
    BY <2>2 DEF PagesInv
<1>11. CASE UNCHANGED vars
  <2>1. CallsOK' /\ LoadsOK' /\ RowsOK' /\ ViewOK'
    BY <1>11 DEF PagesInv, CallsOK, CallOK, LoadsOK, ViewOK, RowsOK, Loading, Heading,
       vars, serverVars, pageVars, viewVars
  <2>2. QED
    BY <2>1 DEF PagesInv
<1>12. QED
  BY <1>1, <1>2, <1>3, <1>4, <1>5, <1>6, <1>7, <1>8, <1>9, <1>10, <1>11,
     SwitchKeeps, OpenPageKeeps, ServeKeeps, ApplyKeeps, FailKeeps
     DEF Next

\* The inductive invariant of the pages.
LEMMA PagesInvariant == Spec => []PagesInv
<1>1. PagesInv /\ [Next]_vars => PagesInv'
  BY PagesInvStep
<1>2. QED
  BY <1>1, PagesInvInit, PTL DEF Spec

\* A link code on the page is one of the workspace selected, whatever switches
\* and late answers come between its request and its showing.
THEOREM CodesAreOfTheSelection == Spec => []CodeOfSelected
<1>1. PagesInv => CodeOfSelected
  BY DEF PagesInv, RowsOK, ViewOK, CallsOK, CallOK, CallAt, CodeOfSelected, TypeOK
<1>2. QED
  BY <1>1, PagesInvariant, PTL

\* Once neither the page nor a call that may still reach it is of another workspace
\* than the one selected, that stays so until the next switch: what the user
\* clicks, however calls overtake each other or fail, and the refresh that follows
\* a confirm bring nothing of the workspace before back.
THEOREM NoAnswerComesBack == Spec => [][AtHome /\ selected' = selected => AtHome']_vars
<1>1. ASSUME PagesInv, [Next]_vars, AtHome, selected' = selected PROVE AtHome'
  <2> USE DEF PagesInv, AtHome
  <2> USE <1>1
  <2>1. ASSUME NEW c \in Calls, CallFails(c) PROVE AtHome'
    BY <2>1, ReplyHome DEF CallFails
  <2>2. ASSUME NEW c \in Calls,
               \/ Poll(c) \/ ClickGenerate(c) \/ ClickDisconnect(c)
               \/ \E r \in Receipts : ClickConfirm(c, r)
        PROVE  AtHome'
    BY <2>2, SentHome
       DEF Poll, ClickGenerate, ClickDisconnect, ClickConfirm, Send, pageVars, viewVars
  <2>3. ASSUME NEW c \in Calls, NEW ws, NEW m, Reload(c, ws, m) PROVE AtHome'
    BY <2>3, SentHome DEF Reload
  <2>4. ASSUME NEW p \in Pages, OpenPage(p) PROVE AtHome'
    BY <2>4, LeaveHome DEF OpenPage, CallsHome, CallHome
  <2>5. ASSUME NEW c \in Calls, OpenSummary(c) PROVE AtHome'
    <3> DEFINE n == [kind |-> "load", ws |-> selected, arg |-> ThisMonth,
                     reaches |-> "page", answer |-> None]
    <3>1. n.ws = selected
      OBVIOUS
    <3>2. call' = [LeavePage EXCEPT ![c] = n] /\ DOMAIN LeavePage = Calls /\ shown' = None
      BY <2>5 DEF OpenSummary, LeavePage
    <3> HIDE DEF n
    <3>3. \A d \in Calls : call'[d] = IF d = c THEN n ELSE LeavePage[d]
      BY <3>2, FieldChanged
    <3>4. QED
      BY <3>1, <3>2, <3>3, LeaveHome DEF CallsHome, CallHome
  <2>6. ASSUME NEW ws \in Workspaces, SwitchWorkspace(ws) PROVE FALSE
    BY <2>6 DEF SwitchWorkspace
  <2>7. CASE \/ \E ws \in Workspaces : LinkChanges(ws)
             \/ \E r \in Receipts, s \in Statuses : StatusChanges(r, s)
             \/ CodeExpires
             \/ UNCHANGED vars
    <3>1. UNCHANGED <<call, shown>>
      BY <2>7 DEF LinkChanges, StatusChanges, CodeExpires, vars, pageVars
    <3>2. QED
      BY <3>1 DEF CallsHome, CallHome
  <2>8. QED
    BY <2>1, <2>2, <2>3, <2>4, <2>5, <2>6, <2>7, ServeHome, ApplyHome
       DEF Next, SwitchOnSummary, StepMonth
<1>2. PagesInv /\ [Next]_vars => [AtHome /\ selected' = selected => AtHome']_vars
  BY <1>1
<1>3. QED
  BY <1>2, PagesInvariant, PTL DEF Spec

\* The Summary page shows what its heading says, for any number of calls under
\* way, unless its last load overlapped another or failed.
THEOREM SummariesFitTheirHeading == Spec => []SummaryOfHeading
<1>1. PagesInv => SummaryOfHeading
  BY DEF PagesInv, LoadsOK, SummaryOfHeading, Heading
<1>2. QED
  BY <1>1, PagesInvariant, PTL

=============================================================================
