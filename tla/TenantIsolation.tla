---------------------------- MODULE TenantIsolation ----------------------------
(***************************************************************************)
(* Who reads and writes whose receipts.  A request of the API passes       *)
(* WorkspaceGuard and then runs a transaction of PrismaService.withWorkspace*)
(* on a pooled connection: BEGIN, set_config, its statements, COMMIT; a    *)
(* worker's applyParsedResult does the same with the workspace of its job. *)
(* Postgres shows a statement the rows whose workspace is the connection's *)
(* setting, unless the role bypasses row-level security.  Rows that a      *)
(* transaction has written are locked until it ends.                       *)
(***************************************************************************)
EXTENDS StartUp, Accounts, Naturals, Sequences

CONSTANTS
  Receipts,
  NewReceipt,  \* the receipt that requests create
  HomeOf,      \* the workspace of each receipt that is there at first, else None
  Requests,    \* bounds the requests of the API under way
  Jobs,        \* jobs of the queue
  ReceiptOf, NamesOf,  \* a job's receipt and the categories of its items, in order
  ProcessOf,   \* the process of a request or job
  Api,         \* the one that listens for requests, sign-ups and log-ins
  Conns, PoolOf,       \* the connections, and the process of each
  MaxTries     \* attempts of a job

Tasks == Requests \cup Jobs
Workspaces == Forms

ASSUME TenantAssumption ==
  /\ Requests \cap Jobs = {} /\ None \notin Conns \cup Receipts
  /\ NewReceipt \in Receipts
  /\ HomeOf \in [Receipts -> Workspaces \cup {None}]
  /\ ReceiptOf \in [Jobs -> Receipts] /\ \A j \in Jobs : HomeOf[ReceiptOf[j]] # None
  /\ Api \in Processes
  /\ ProcessOf \in [Tasks -> Processes] /\ \A t \in Requests : ProcessOf[t] = Api
  /\ PoolOf \in [Conns -> Processes]

VARIABLES
  home,        \* Receipt.workspaceId, None while there is no row
  status,      \* Receipt.status
  itemsOf,     \* the categories of a receipt's items
  categories,  \* the rows of Category: workspace and name
  setting,     \* app.current_workspace_id of each connection
  task         \* the requests and jobs

dataVars == <<home, status, itemsOf, categories>>
tenantVars == <<dataVars, setting, task>>
vars == <<startUpVars, accountVars, tenantVars>>

Idle == [pc |-> "idle", kind |-> "none", user |-> None, ws |-> None, receipt |-> None,
         conn |-> None, seen |-> {}, upserts |-> 0, tries |-> 0]
Waiting(kind, user, ws, receipt, tries) ==
  [pc |-> "waiting", kind |-> kind, user |-> user, ws |-> ws, receipt |-> receipt,
   conn |-> None, seen |-> {}, upserts |-> 0, tries |-> tries]
JobOf(j, tries) == Waiting("apply", None, HomeOf[ReceiptOf[j]], ReceiptOf[j], tries)

TenantInit ==
  /\ \A r \in Receipts : HomeOf[r] # None => HomeOf[r] \in accounts
  /\ home = HomeOf
  /\ status = [r \in Receipts |-> IF HomeOf[r] = None THEN "NONE" ELSE "PENDING"]
  /\ itemsOf = [r \in Receipts |-> {}]
  /\ categories = {}
  /\ setting = [c \in Conns |-> None]
  /\ \E queued \in SUBSET Jobs :
       task = [t \in Tasks |-> IF t \in queued THEN JobOf(t, 0) ELSE Idle]

Init == StartUpInit /\ AccountsInit /\ TenantInit

-----------------------------------------------------------------------------
Goto(t, pc) == task' = [task EXCEPT ![t].pc = pc]
InTransaction(t) == task[t].conn # None
\* CREATE POLICY workspace_isolation: USING and WITH CHECK
Passes(t, ws) == bypass \/ setting[task[t].conn] = ws
Visible(t, r) == home[r] # None /\ Passes(t, home[r])

\* Row locks: a written receipt, an upserted category (whether it was there).
RowFree(t, r) ==
  \A u \in Tasks \ {t} : ~(task[u].pc = "written" /\ task[u].receipt = r)
Upserted(t) == {<<task[t].ws, NamesOf[t][k]>> : k \in 1..task[t].upserts}
NextCategory(t) == <<task[t].ws, NamesOf[t][task[t].upserts + 1]>>
Upserting(t) ==
  task[t].pc = "set" /\ task[t].kind = "apply" /\ task[t].upserts < Len(NamesOf[t])
CategoryFree(t) == \A u \in Jobs \ {t} : NextCategory(t) \notin Upserted(u)

\* Mutant: a controller without WorkspaceGuard.
AdmitUnguarded(t, s, ws, kind, r) ==
  /\ task[t].pc = "idle" /\ Serving(ProcessOf[t])
  /\ token[s] # None
  /\ IF kind \in {"get", "confirm"} THEN r \in Receipts
     ELSE r = IF kind = "list" THEN None ELSE NewReceipt
  /\ task' = [task EXCEPT ![t] = Waiting(kind, token[s], ws, r, 0)]
  /\ UNCHANGED <<dataVars, setting>>

\* JwtAuthGuard and WorkspaceGuard, with the user of the token.
Admit(t, s, ws, kind, r) ==
  /\ task[t].pc = "idle" /\ Serving(ProcessOf[t])
  /\ token[s] # None /\ Member(token[s], ws)
  /\ IF kind \in {"get", "confirm"} THEN r \in Receipts
     ELSE r = IF kind = "list" THEN None ELSE NewReceipt
  /\ task' = [task EXCEPT ![t] = Waiting(kind, token[s], ws, r, 0)]
  /\ UNCHANGED <<dataVars, setting>>

Begin(t, c) ==
  /\ task[t].pc = "waiting" /\ Serving(ProcessOf[t])
  /\ PoolOf[c] = ProcessOf[t] /\ \A u \in Tasks : task[u].conn # c
  /\ task' = [task EXCEPT ![t].pc = "begun", ![t].conn = c]
  /\ UNCHANGED <<dataVars, setting>>

SetConfig(t) ==
  /\ task[t].pc = "begun"
  /\ setting' = [setting EXCEPT ![task[t].conn] = task[t].ws]
  /\ Goto(t, "set")
  /\ UNCHANGED dataVars

\* Mutant: set_config(..., false), for the session.
ReleaseSet(t) == UNCHANGED setting

\* The end of a transaction takes the setting back, and the connection.
Release(t) == setting' = [setting EXCEPT ![task[t].conn] = None]
End(t, next) ==
  /\ Release(t)
  /\ task' = [task EXCEPT ![t] = next]

\* findMany: the condition on workspaceId, and the policy.
List(t) ==
  /\ task[t].pc = "set" /\ task[t].kind = "list"
  /\ task' = [task EXCEPT ![t].pc = "read",
                          ![t].seen = {r \in Receipts : home[r] = task[t].ws /\ Visible(t, r)}]
  /\ UNCHANGED <<dataVars, setting>>

\* findUnique by id alone; 404 if it is not visible.
Get(t) ==
  /\ task[t].pc = "set" /\ task[t].kind = "get"
  /\ task' = [task EXCEPT ![t].pc = "read",
                          ![t].seen = {r \in {task[t].receipt} : Visible(t, r)}]
  /\ UNCHANGED <<dataVars, setting>>

\* update by id alone; P2025 and a rollback if it is not visible.
Confirm(t) ==
  /\ task[t].pc = "set" /\ task[t].kind = "confirm"
  /\ IF Visible(t, task[t].receipt)
       THEN RowFree(t, task[t].receipt) /\ Goto(t, "written") /\ UNCHANGED setting
       ELSE End(t, Idle)
  /\ UNCHANGED dataVars

Create(t) ==
  /\ task[t].pc = "set" /\ task[t].kind = "create"
  /\ home[task[t].receipt] = None /\ RowFree(t, task[t].receipt)
  /\ Passes(t, task[t].ws)
  /\ Goto(t, "written")
  /\ UNCHANGED <<dataVars, setting>>

\* Mutant: on this.prisma, beside the transaction.
UpsertCategoryBeside(t) ==
  /\ Upserting(t)
  /\ categories' = categories \cup {NextCategory(t)}
  /\ task' = [task EXCEPT ![t].upserts = @ + 1]
  /\ UNCHANGED <<home, status, itemsOf, setting>>

\* One upsert of applyParsedResult.  It waits for a transaction that has the row.
UpsertCategory(t) ==
  /\ Upserting(t) /\ CategoryFree(t)
  /\ Passes(t, task[t].ws)
  /\ task' = [task EXCEPT ![t].upserts = @ + 1]
  /\ UNCHANGED <<dataVars, setting>>

\* The receipt with its items, and the usage row.
UpdateReceipt(t) ==
  /\ task[t].pc = "set" /\ task[t].kind = "apply"
  /\ task[t].upserts = Len(NamesOf[t])
  /\ Visible(t, task[t].receipt) /\ RowFree(t, task[t].receipt)
  /\ Goto(t, "written")
  /\ UNCHANGED <<dataVars, setting>>

\* COMMIT: what was written is there for everybody.
Commit(t) ==
  LET r == task[t].receipt ws == task[t].ws
  IN /\ task[t].pc \in {"read", "written"}
     /\ CASE task[t].kind = "confirm" ->
               /\ status' = [status EXCEPT ![r] = "CONFIRMED"]
               /\ UNCHANGED <<home, itemsOf, categories>>
          [] task[t].kind = "create" ->
               /\ home' = [home EXCEPT ![r] = ws]
               /\ status' = [status EXCEPT ![r] = "PENDING"]
               /\ UNCHANGED <<itemsOf, categories>>
          [] task[t].kind = "apply" ->
               /\ status' = [status EXCEPT ![r] = "PARSED"]
               /\ itemsOf' = [itemsOf EXCEPT ![r] = @ \cup Upserted(t)]
               /\ categories' = categories \cup Upserted(t)
               /\ UNCHANGED home
          [] OTHER -> UNCHANGED dataVars
     /\ End(t, Idle)

\* ROLLBACK: a statement fails, or the connection.  The queue runs a job again.
Rollback(t) ==
  /\ InTransaction(t)
  /\ End(t, IF t \in Jobs /\ task[t].tries + 1 < MaxTries
              THEN JobOf(t, task[t].tries + 1) ELSE Idle)
  /\ UNCHANGED dataVars

\* A statement that waits for a row.
Waits(t) ==
  \/ Upserting(t) /\ ~CategoryFree(t)
  \/ /\ task[t].pc = "set" /\ ~RowFree(t, task[t].receipt)
     /\ \/ task[t].kind = "confirm"
        \/ task[t].kind = "apply" /\ task[t].upserts = Len(NamesOf[t])

\* Mutant: the transaction is not rolled back when the call gives up.
GiveUpKept(t) ==
  /\ Waits(t)
  /\ Goto(t, "waiting")
  /\ UNCHANGED <<dataVars, setting>>

\* Nothing waits for ever: Postgres aborts one transaction of a circle, and
\* Prisma any transaction after its timeout.
GiveUp(t) ==
  /\ Waits(t)
  /\ Rollback(t)

-----------------------------------------------------------------------------
TransactionStep(t) ==
  \/ \E c \in Conns : Begin(t, c)
  \/ SetConfig(t)
  \/ List(t) \/ Get(t) \/ Confirm(t) \/ Create(t)
  \/ UpsertCategory(t) \/ UpdateReceipt(t)
  \/ Commit(t)

Kinds == {"list", "get", "confirm", "create"}
TenantNext ==
  \/ \E t \in Requests, s \in Forms, ws \in Workspaces, kind \in Kinds, r \in Receipts \cup {None} :
       Admit(t, s, ws, kind, r)
  \/ \E t \in Tasks : TransactionStep(t) \/ Rollback(t) \/ GiveUp(t)

Next ==
  \/ StartUpNext /\ UNCHANGED <<accountVars, tenantVars>>
  \/ Serving(Api) /\ AccountsNext /\ UNCHANGED <<startUpVars, tenantVars>>
  \/ TenantNext /\ UNCHANGED <<startUpVars, accountVars>>

\* Hooks and jobs go on; of the users' requests nothing is assumed.
Fairness ==
  /\ WF_vars(StorageAnswers /\ UNCHANGED <<accountVars, tenantVars>>)
  /\ WF_vars(\E p \in Processes : StartUpStep(p) /\ UNCHANGED <<accountVars, tenantVars>>)
  /\ WF_vars(\E j \in Jobs : /\ TransactionStep(j) \/ GiveUp(j)
                           /\ UNCHANGED <<startUpVars, accountVars>>)

Spec == Init /\ [][Next]_vars
FairSpec == Spec /\ Fairness

-----------------------------------------------------------------------------
(* Properties *)

\* What a request was shown is of the workspace it was admitted to, of which its
\* user is a member: get and list run behind the guard and under the policies.
ReadsStayHome ==
  \A t \in Requests : \A r \in task[t].seen :
    home[r] = task[t].ws /\ Member(task[t].user, task[t].ws)

\* A receipt, its items or its status change only by the commit of a transaction
\* that ran with the receipt's workspace as its setting, for a member or a job.
WritesStayHome ==
  [][\A r \in Receipts :
       \/ home'[r] = home[r] /\ status'[r] = status[r] /\ itemsOf'[r] = itemsOf[r]
       \/ \E t \in Tasks :
            /\ InTransaction(t) /\ task[t].receipt = r
            /\ setting[task[t].conn] = home'[r]
            /\ t \in Jobs \/ Member(task[t].user, home'[r])]_vars

\* A connection goes back to the pool without a workspace, so that a query
\* outside a transaction sees no rows and no transaction begins with another's.
IdleClean ==
  \A c \in Conns :
    \/ setting[c] = None
    \/ \E t \in Tasks : task[t].conn = c /\ setting[c] = task[t].ws

\* A result is applied as a whole: items refer to categories that are there, of
\* the receipt's workspace, and no apply that was rolled back leaves a category.
ApplyIsWhole ==
  /\ \A r \in Receipts : \A row \in itemsOf[r] : row \in categories /\ row[1] = home[r]
  /\ \A row \in categories : \E r \in Receipts : row \in itemsOf[r]

\* Two applies that wait for each other's categories both end, by themselves or
\* when the queue runs them again, if their processes may start at all: the role
\* is not refused, the bucket is there or may be made, and Postgres stays up.
MayStart == ~bypass /\ (bucket = "ours" \/ (bucket = "none" /\ mayCreate))
AppliesEnd == MayStart /\ <>[]postgresUp => <>(\A j \in Jobs : task[j] = Idle)

=============================================================================
