-------------------------- MODULE TenantIsolationProofs --------------------------
(***************************************************************************)
(* Proofs about TenantIsolation, for any number of processes, connections, *)
(* forms, receipts, requests and jobs.  The inductive invariant says what  *)
(* holds of a transaction under way: its connection is its own and carries *)
(* its workspace, its rows are locked and still where it found them.       *)
(***************************************************************************)
EXTENDS TenantIsolation, TLAPS

InTransactionPCs == {"begun", "set", "read", "written"}

TaskType ==
  {n \in [pc : InTransactionPCs \cup {"idle", "waiting"},
          kind : Kinds \cup {"none", "apply"},
          user : Forms \cup {None}, ws : Workspaces \cup {None},
          receipt : Receipts \cup {None}, conn : Conns \cup {None},
          seen : SUBSET Receipts, upserts : Nat, tries : Nat] :
     n.kind \notin {"none", "list"} => n.receipt \in Receipts}

TypeOK ==
  /\ home \in [Receipts -> Workspaces \cup {None}]
  /\ DOMAIN status = Receipts /\ DOMAIN itemsOf = Receipts
  /\ setting \in [Conns -> Workspaces \cup {None}]
  /\ task \in [Tasks -> TaskType]

\* A process of a strict deployment does not serve with a role that bypasses
\* the policies, so there is nothing but waiting jobs.
Refused ==
  Strict /\ bypass =>
    /\ prismaHook \in [Processes -> {"todo", "connected"}]
    /\ \A t \in Tasks : task[t].conn = None /\ (t \in Requests => task[t].pc = "idle")

\* A transaction has a connection, of its own, with its workspace once set.
Owned ==
  \A t \in Tasks :
    /\ task[t].pc \in InTransactionPCs <=> task[t].conn # None
    /\ task[t].pc \in InTransactionPCs \ {"begun"} => setting[task[t].conn] = task[t].ws
Unshared == \A t, u \in Tasks : task[t].conn = task[u].conn /\ task[t].conn # None => t = u

\* The guard let the request in, and what it saw is of that workspace.
Admitted ==
  \A t \in Requests :
    /\ task[t].pc = "idle" => task[t].seen = {}
    /\ task[t].pc # "idle" => Member(task[t].user, task[t].ws)
    /\ \A r \in task[t].seen : home[r] = task[t].ws /\ home[r] # None

\* A row that was written is locked for others, and is where it was found.
Locked ==
  \A t \in Tasks :
    /\ task[t].pc = "read" => task[t].kind \in {"list", "get"}
    /\ task[t].pc = "written" =>
         /\ task[t].receipt \in Receipts
         /\ task[t].kind \in {"confirm", "create", "apply"}
         /\ task[t].kind = "create" => home[task[t].receipt] = None
         /\ task[t].kind # "create" =>
              home[task[t].receipt] = task[t].ws /\ home[task[t].receipt] # None
Exclusive ==
  \A t, u \in Tasks : task[t].pc = "written" /\ task[u].pc = "written"
                        /\ task[t].receipt = task[u].receipt => t = u
Empty == \A r \in Receipts : home[r] = None => itemsOf[r] = {}
IInv ==
  TypeOK /\ Refused /\ Owned /\ Unshared /\ IdleClean /\ Admitted /\ Locked /\ Exclusive
  /\ Empty /\ ApplyIsWhole

USE TenantAssumption DEF Tasks, Workspaces, InTransactionPCs

\* A step of a task leaves the others as they are.
LEMMA OneTask ==
  ASSUME TypeOK, NEW t \in Tasks, NEW n \in TaskType, task' = [task EXCEPT ![t] = n]
  PROVE  /\ task' \in [Tasks -> TaskType] /\ task'[t] = n
         /\ \A u \in Tasks : u # t => task'[u] = task[u]
  BY DEF TypeOK

\* A task stays one when it goes on,
LEMMA TaskGoes ==
  ASSUME NEW m \in TaskType, NEW to \in InTransactionPCs
  PROVE  [m EXCEPT !.pc = to] \in TaskType
<1>1. /\ m.kind \notin {"none", "list"} => m.receipt \in Receipts
      /\ m \in [pc : InTransactionPCs \cup {"idle", "waiting"},
                 kind : Kinds \cup {"none", "apply"},
                 user : Forms \cup {None}, ws : Workspaces \cup {None},
                 receipt : Receipts \cup {None}, conn : Conns \cup {None},
                 seen : SUBSET Receipts, upserts : Nat, tries : Nat]
  BY DEF TaskType
<1> QED  BY <1>1 DEF TaskType

\* when it takes a connection,
LEMMA TaskBegins ==
  ASSUME NEW m \in TaskType, NEW to \in InTransactionPCs, NEW c \in Conns
  PROVE  [m EXCEPT !.pc = to, !.conn = c] \in TaskType
<1>1. /\ m.kind \notin {"none", "list"} => m.receipt \in Receipts
      /\ m \in [pc : InTransactionPCs \cup {"idle", "waiting"},
                 kind : Kinds \cup {"none", "apply"},
                 user : Forms \cup {None}, ws : Workspaces \cup {None},
                 receipt : Receipts \cup {None}, conn : Conns \cup {None},
                 seen : SUBSET Receipts, upserts : Nat, tries : Nat]
  BY DEF TaskType
<1> QED  BY <1>1 DEF TaskType

\* when it has seen rows,
LEMMA TaskSees ==
  ASSUME NEW m \in TaskType, NEW to \in InTransactionPCs, NEW S \in SUBSET Receipts
  PROVE  [m EXCEPT !.pc = to, !.seen = S] \in TaskType
<1>1. /\ m.kind \notin {"none", "list"} => m.receipt \in Receipts
      /\ m \in [pc : InTransactionPCs \cup {"idle", "waiting"},
                 kind : Kinds \cup {"none", "apply"},
                 user : Forms \cup {None}, ws : Workspaces \cup {None},
                 receipt : Receipts \cup {None}, conn : Conns \cup {None},
                 seen : SUBSET Receipts, upserts : Nat, tries : Nat]
  BY DEF TaskType
<1> QED  BY <1>1 DEF TaskType

\* and when it counts an upsert.
LEMMA TaskUpserts ==
  ASSUME NEW m \in TaskType
  PROVE  [m EXCEPT !.upserts = m.upserts + 1] \in TaskType
<1>1. /\ m.kind \notin {"none", "list"} => m.receipt \in Receipts
      /\ m \in [pc : InTransactionPCs \cup {"idle", "waiting"},
                 kind : Kinds \cup {"none", "apply"},
                 user : Forms \cup {None}, ws : Workspaces \cup {None},
                 receipt : Receipts \cup {None}, conn : Conns \cup {None},
                 seen : SUBSET Receipts, upserts : Nat, tries : Nat]
  BY DEF TaskType
<1> QED  BY <1>1 DEF TaskType

\* A request is admitted for a member of the workspace, and has seen nothing.
LEMMA AdmitInv ==
  ASSUME IInv, NEW t \in Requests, NEW s \in Forms, NEW ws \in Workspaces,
         NEW kind \in Kinds, NEW r \in Receipts \cup {None},
         Admit(t, s, ws, kind, r), UNCHANGED <<startUpVars, accountVars>>
  PROVE  IInv'
<1> DEFINE n == Waiting(kind, token[s], ws, r, 0)
<1>1. task' = [task EXCEPT ![t] = n]
  BY DEF Admit
<1>2. n \in TaskType
  BY DEF Admit, Member, Kinds, TaskType, Waiting
<1>3. /\ task' \in [Tasks -> TaskType] /\ task'[t] = n
      /\ \A u \in Tasks : u # t => task'[u] = task[u]
  BY <1>1, <1>2, OneTask DEF IInv
<1>4. UNCHANGED <<home, status, itemsOf, categories, setting, bypass, prismaHook, accounts>>
  BY DEF Admit, dataVars, startUpVars, environmentVars, hookVars, accountVars
<1>5. task[t].pc = "idle" /\ task[t].conn = None /\ Member(token[s], ws)
  BY DEF Admit, IInv, Owned
<1>6. prismaHook[ProcessOf[t]] = "done"
  BY DEF Admit, Serving
<1>7. ProcessOf[t] \in Processes
  OBVIOUS
<1> HIDE DEF n
<1>10. TypeOK'
  BY <1>3, <1>4 DEF IInv, TypeOK
<1>11. Refused'
  BY <1>4, <1>6, <1>7 DEF IInv, Refused
<1>12. Owned'
  BY <1>3, <1>4, <1>5 DEF IInv, Owned, n, Waiting
<1>13. Unshared'
  BY <1>3, <1>4, <1>5 DEF IInv, Unshared, n, Waiting
<1>14. IdleClean'
  BY <1>3, <1>4, <1>5 DEF IInv, IdleClean, TypeOK
<1>15. Admitted'
  BY <1>3, <1>4, <1>5 DEF IInv, Admitted, Member, n, Waiting
<1>16. Locked'
  BY <1>3, <1>4 DEF IInv, Locked, n, Waiting
<1>17. Exclusive'
  BY <1>3, <1>4 DEF IInv, Exclusive, n, Waiting
<1>18. Empty' /\ ApplyIsWhole'
  BY <1>4 DEF IInv, Empty, ApplyIsWhole
<1> QED  BY <1>10, <1>11, <1>12, <1>13, <1>14, <1>15, <1>16, <1>17, <1>18 DEF IInv

\* A transaction begins on a free connection, which carries no workspace.
LEMMA BeginInv ==
  ASSUME Strict, IInv, NEW t \in Tasks, NEW c \in Conns, Begin(t, c),
         UNCHANGED <<startUpVars, accountVars>>
  PROVE  IInv'
<1> DEFINE n == [task[t] EXCEPT !.pc = "begun", !.conn = c]
<1>0. task' = [task EXCEPT ![t] = n]
  BY DEF IInv, TypeOK, Begin
<1>1. n \in TaskType
  BY TaskBegins DEF IInv, TypeOK
<1>3. /\ task' \in [Tasks -> TaskType] /\ task'[t] = n
      /\ \A u \in Tasks : u # t => task'[u] = task[u]
  BY <1>0, <1>1, OneTask DEF IInv
<1>2. UNCHANGED <<home, status, itemsOf, categories, setting, bypass, prismaHook, accounts>>
  BY DEF Begin, dataVars, startUpVars, environmentVars, hookVars, accountVars
<1>4. /\ task[t].pc = "waiting" /\ c # None /\ \A u \in Tasks : task[u].conn # c
      /\ ~bypass
  BY ProcessOf[t] \in Processes DEF Begin, Serving, IInv, Refused
<1>5. n.pc = "begun" /\ n.conn = c /\ n.ws = task[t].ws /\ n.user = task[t].user /\ n.seen = task[t].seen
  BY DEF IInv, TypeOK, TaskType
<1> HIDE DEF n
<1>10. TypeOK'
  BY <1>2, <1>3, <1>4, <1>5 DEF IInv, TypeOK
<1>11. Refused'
  BY <1>2, <1>3, <1>4, <1>5 DEF IInv, TypeOK, Refused
<1>12. Owned'
  BY <1>2, <1>3, <1>4, <1>5 DEF IInv, TypeOK, Owned
<1>13. Unshared'
  BY <1>2, <1>3, <1>4, <1>5 DEF IInv, TypeOK, Unshared
<1>14. IdleClean'
  BY <1>2, <1>3, <1>4, <1>5 DEF IInv, TypeOK, IdleClean, Owned
<1>15. Admitted'
  BY <1>2, <1>3, <1>4, <1>5 DEF IInv, TypeOK, Admitted, Member
<1>16. Locked'
  BY <1>2, <1>3, <1>4, <1>5 DEF IInv, TypeOK, Locked
<1>17. Exclusive'
  BY <1>2, <1>3, <1>4, <1>5 DEF IInv, TypeOK, Exclusive
<1>18. Empty'
  BY <1>2, <1>3, <1>4, <1>5 DEF IInv, TypeOK, Empty
<1>19. ApplyIsWhole'
  BY <1>2, <1>3, <1>4, <1>5 DEF IInv, TypeOK, ApplyIsWhole
<1> QED  BY <1>10, <1>11, <1>12, <1>13, <1>14, <1>15,
            <1>16, <1>17, <1>18, <1>19 DEF IInv

\* set_config puts the task's workspace on the connection that is its own.
LEMMA SetConfigInv ==
  ASSUME Strict, IInv, NEW t \in Tasks, SetConfig(t),
         UNCHANGED <<startUpVars, accountVars>>
  PROVE  IInv'
<1> DEFINE n == [task[t] EXCEPT !.pc = "set"]
<1>0. task' = [task EXCEPT ![t] = n]
  BY DEF IInv, TypeOK, SetConfig, Goto
<1>1. n \in TaskType
  BY TaskGoes DEF IInv, TypeOK
<1>3. /\ task' \in [Tasks -> TaskType] /\ task'[t] = n
      /\ \A u \in Tasks : u # t => task'[u] = task[u]
  BY <1>0, <1>1, OneTask DEF IInv
<1>2. UNCHANGED <<home, status, itemsOf, categories, bypass, prismaHook, accounts>>
  BY DEF SetConfig, dataVars, startUpVars, environmentVars, hookVars, accountVars
<1>4. task[t].pc = "begun" /\ setting' = [setting EXCEPT ![task[t].conn] = task[t].ws]
  BY DEF SetConfig
<1>5. n.pc = "set" /\ n.conn = task[t].conn /\ n.ws = task[t].ws /\ n.user = task[t].user /\ n.seen = task[t].seen
  BY DEF IInv, TypeOK, TaskType
<1>6. ~bypass
  BY <1>4 DEF IInv, Refused, Owned
<1> HIDE DEF n
<1>10. TypeOK'
  BY <1>2, <1>3, <1>4, <1>5, <1>6 DEF IInv, TypeOK, TaskType
<1>11. Refused'
  BY <1>2, <1>3, <1>4, <1>5, <1>6 DEF IInv, TypeOK, Refused
<1>12. Owned'
  BY <1>2, <1>3, <1>4, <1>5, <1>6 DEF IInv, TypeOK, Owned, Unshared, TaskType
<1>13. Unshared'
  BY <1>2, <1>3, <1>4, <1>5, <1>6 DEF IInv, TypeOK, Unshared
<1>14. IdleClean'
  BY <1>2, <1>3, <1>4, <1>5, <1>6 DEF IInv, TypeOK, IdleClean, TaskType
<1>15. Admitted'
  BY <1>2, <1>3, <1>4, <1>5, <1>6 DEF IInv, TypeOK, Admitted, Member
<1>16. Locked'
  BY <1>2, <1>3, <1>4, <1>5, <1>6 DEF IInv, TypeOK, Locked
<1>17. Exclusive'
  BY <1>2, <1>3, <1>4, <1>5, <1>6 DEF IInv, TypeOK, Exclusive
<1>18. Empty'
  BY <1>2, <1>3, <1>4, <1>5, <1>6 DEF IInv, TypeOK, Empty
<1>19. ApplyIsWhole'
  BY <1>2, <1>3, <1>4, <1>5, <1>6 DEF IInv, TypeOK, ApplyIsWhole
<1> QED  BY <1>10, <1>11, <1>12, <1>13, <1>14, <1>15,
            <1>16, <1>17, <1>18, <1>19 DEF IInv

\* What list and get find is visible, and so of the task's workspace.
LEMMA ReadInv ==
  ASSUME Strict, IInv, NEW t \in Tasks, List(t) \/ Get(t),
         UNCHANGED <<startUpVars, accountVars>>
  PROVE  IInv'
<1> DEFINE S == task'[t].seen
<1> DEFINE n == [task[t] EXCEPT !.pc = "read", !.seen = S]
<1> HIDE DEF n
<1>4. task[t].pc = "set"
  BY DEF List, Get
<1>6. ~bypass /\ setting[task[t].conn] = task[t].ws
  BY <1>4 DEF IInv, Refused, Owned
<1>7. /\ S \subseteq Receipts /\ \A r \in S : home[r] = task[t].ws /\ home[r] # None
      /\ task' = [task EXCEPT ![t] = [task[t] EXCEPT !.pc = "read", !.seen = S]]
  <2>1. CASE List(t)
    <3>1. S = {r \in Receipts : home[r] = task[t].ws /\ Visible(t, r)}
      BY <2>1 DEF List, IInv, TypeOK, TaskType
    <3> HIDE DEF S
    <3> QED  BY <2>1, <3>1 DEF List, Visible, IInv, TypeOK, TaskType
  <2>2. CASE Get(t)
    <3>1. S = {r \in {task[t].receipt} : Visible(t, r)} /\ task[t].receipt \in Receipts
      BY <2>2 DEF Get, IInv, TypeOK, TaskType
    <3> HIDE DEF S
    <3> QED  BY <2>2, <3>1, <1>6 DEF Get, Visible, Passes, IInv, TypeOK, TaskType
  <2> QED  BY <2>1, <2>2
<1> HIDE DEF S
<1>1. n \in TaskType
  BY <1>7, TaskSees DEF IInv, TypeOK, n
<1>3. /\ task' \in [Tasks -> TaskType] /\ task'[t] = n
      /\ \A u \in Tasks : u # t => task'[u] = task[u]
  BY <1>1, <1>7, OneTask DEF IInv, n
<1>2. UNCHANGED <<home, status, itemsOf, categories, setting, bypass, prismaHook, accounts>>
  BY DEF List, Get, dataVars, startUpVars, environmentVars, hookVars, accountVars
<1>5. /\ n.pc = "read" /\ n.seen = S /\ n.kind \in {"list", "get"}
      /\ n.conn = task[t].conn /\ n.ws = task[t].ws /\ n.user = task[t].user
  BY DEF IInv, TypeOK, TaskType, n, List, Get
<1>10. TypeOK'
  BY <1>2, <1>3, <1>4, <1>5, <1>6, <1>7 DEF IInv, TypeOK
<1>11. Refused'
  BY <1>2, <1>3, <1>4, <1>5, <1>6, <1>7 DEF IInv, TypeOK, Refused
<1>12. Owned'
  BY <1>2, <1>3, <1>4, <1>5, <1>6, <1>7 DEF IInv, TypeOK, Owned
<1>13. Unshared'
  BY <1>2, <1>3, <1>4, <1>5, <1>6, <1>7 DEF IInv, TypeOK, Unshared
<1>14. IdleClean'
  BY <1>2, <1>3, <1>4, <1>5, <1>6, <1>7 DEF IInv, TypeOK, IdleClean
<1>15. Admitted'
  BY <1>2, <1>3, <1>4, <1>5, <1>6, <1>7 DEF IInv, TypeOK, Admitted, Member
<1>16. Locked'
  BY <1>2, <1>3, <1>5 DEF IInv, TypeOK, Locked
<1>17. Exclusive'
  BY <1>2, <1>3, <1>4, <1>5, <1>6, <1>7 DEF IInv, TypeOK, Exclusive
<1>18. Empty'
  BY <1>2, <1>3, <1>4, <1>5, <1>6, <1>7 DEF IInv, TypeOK, Empty
<1>19. ApplyIsWhole'
  BY <1>2, <1>3, <1>4, <1>5, <1>6, <1>7 DEF IInv, TypeOK, ApplyIsWhole
<1> QED  BY <1>10, <1>11, <1>12, <1>13, <1>14, <1>15,
            <1>16, <1>17, <1>18, <1>19 DEF IInv

\* What confirm, create and the apply write is locked by nobody else, and visible.
LEMMA WriteInv ==
  ASSUME Strict, IInv, NEW t \in Tasks,
         (Confirm(t) /\ Visible(t, task[t].receipt)) \/ Create(t) \/ UpdateReceipt(t),
         UNCHANGED <<startUpVars, accountVars>>
  PROVE  IInv'
<1> DEFINE n == [task[t] EXCEPT !.pc = "written"]
<1>0. task' = [task EXCEPT ![t] = n]
  BY DEF IInv, TypeOK, Confirm, Create, UpdateReceipt, Goto
<1>1. n \in TaskType
  BY TaskGoes DEF IInv, TypeOK
<1>3. /\ task' \in [Tasks -> TaskType] /\ task'[t] = n
      /\ \A u \in Tasks : u # t => task'[u] = task[u]
  BY <1>0, <1>1, OneTask DEF IInv
<1>2. UNCHANGED <<home, status, itemsOf, categories, setting, bypass, prismaHook, accounts>>
  BY DEF Confirm, Create, UpdateReceipt, dataVars, startUpVars, environmentVars, hookVars,
         accountVars
<1>4. /\ task[t].pc = "set" /\ RowFree(t, task[t].receipt)
      /\ task[t].kind \in {"confirm", "create", "apply"}
  BY DEF Confirm, Create, UpdateReceipt
<1>5. n.pc = "written" /\ n.conn = task[t].conn /\ n.ws = task[t].ws /\ n.user = task[t].user /\ n.seen = task[t].seen /\ n.receipt = task[t].receipt /\ n.kind = task[t].kind
  BY DEF IInv, TypeOK, TaskType
<1>6. ~bypass /\ setting[task[t].conn] = task[t].ws
  BY <1>4 DEF IInv, Refused, Owned
<1>7. IF task[t].kind = "create" THEN home[task[t].receipt] = None
      ELSE home[task[t].receipt] = task[t].ws /\ home[task[t].receipt] # None
  BY <1>6 DEF Confirm, Create, UpdateReceipt, Visible, Passes
<1>8. task[t].receipt \in Receipts
  BY <1>4 DEF IInv, TypeOK, TaskType
<1> HIDE DEF n
<1>10. TypeOK'
  BY <1>2, <1>3, <1>4, <1>5, <1>6 DEF IInv, TypeOK
<1>11. Refused'
  BY <1>2, <1>3, <1>4, <1>5, <1>6 DEF IInv, TypeOK, Refused
<1>12. Owned'
  BY <1>2, <1>3, <1>4, <1>5, <1>6 DEF IInv, TypeOK, Owned
<1>13. Unshared'
  BY <1>2, <1>3, <1>4, <1>5, <1>6 DEF IInv, TypeOK, Unshared
<1>14. IdleClean'
  BY <1>2, <1>3, <1>4, <1>5, <1>6 DEF IInv, TypeOK, IdleClean
<1>15. Admitted'
  BY <1>2, <1>3, <1>4, <1>5, <1>6 DEF IInv, TypeOK, Admitted, Member
<1>16. Locked'
  BY <1>2, <1>3, <1>4, <1>5, <1>6, <1>7, <1>8 DEF IInv, TypeOK, Locked
<1>17. Exclusive'
  BY <1>2, <1>3, <1>4, <1>5, <1>6 DEF IInv, TypeOK, Exclusive, RowFree
<1>18. Empty'
  BY <1>2, <1>3, <1>4, <1>5, <1>6 DEF IInv, TypeOK, Empty
<1>19. ApplyIsWhole'
  BY <1>2, <1>3, <1>4, <1>5, <1>6 DEF IInv, TypeOK, ApplyIsWhole
<1> QED  BY <1>10, <1>11, <1>12, <1>13, <1>14, <1>15,
            <1>16, <1>17, <1>18, <1>19 DEF IInv

\* An upsert only counts on.
LEMMA UpsertCategoryInv ==
  ASSUME Strict, IInv, NEW t \in Tasks, UpsertCategory(t),
         UNCHANGED <<startUpVars, accountVars>>
  PROVE  IInv'
<1> DEFINE n == [task[t] EXCEPT !.upserts = task[t].upserts + 1]
<1>0. task' = [task EXCEPT ![t] = n]
  BY DEF IInv, TypeOK, UpsertCategory
<1>1. n \in TaskType
  BY TaskUpserts DEF IInv, TypeOK
<1>3. /\ task' \in [Tasks -> TaskType] /\ task'[t] = n
      /\ \A u \in Tasks : u # t => task'[u] = task[u]
  BY <1>0, <1>1, OneTask DEF IInv
<1>2. UNCHANGED <<home, status, itemsOf, categories, setting, bypass, prismaHook, accounts>>
  BY DEF UpsertCategory, dataVars, startUpVars, environmentVars, hookVars, accountVars
<1>4. task[t].pc = "set"
  BY DEF UpsertCategory, Upserting
<1>5. n.pc = "set" /\ n.conn = task[t].conn /\ n.ws = task[t].ws /\ n.user = task[t].user /\ n.seen = task[t].seen
  BY <1>4 DEF IInv, TypeOK, TaskType
<1>6. ~bypass
  BY <1>4 DEF IInv, Refused, Owned
<1> HIDE DEF n
<1>10. TypeOK'
  BY <1>2, <1>3, <1>4, <1>5, <1>6 DEF IInv, TypeOK
<1>11. Refused'
  BY <1>2, <1>3, <1>4, <1>5, <1>6 DEF IInv, TypeOK, Refused
<1>12. Owned'
  BY <1>2, <1>3, <1>4, <1>5, <1>6 DEF IInv, TypeOK, Owned
<1>13. Unshared'
  BY <1>2, <1>3, <1>4, <1>5, <1>6 DEF IInv, TypeOK, Unshared
<1>14. IdleClean'
  BY <1>2, <1>3, <1>4, <1>5, <1>6 DEF IInv, TypeOK, IdleClean
<1>15. Admitted'
  BY <1>2, <1>3, <1>4, <1>5, <1>6 DEF IInv, TypeOK, Admitted, Member
<1>16. Locked'
  BY <1>2, <1>3, <1>4, <1>5, <1>6 DEF IInv, TypeOK, Locked
<1>17. Exclusive'
  BY <1>2, <1>3, <1>4, <1>5, <1>6 DEF IInv, TypeOK, Exclusive
<1>18. Empty'
  BY <1>2, <1>3, <1>4, <1>5, <1>6 DEF IInv, TypeOK, Empty
<1>19. ApplyIsWhole'
  BY <1>2, <1>3, <1>4, <1>5, <1>6 DEF IInv, TypeOK, ApplyIsWhole
<1> QED  BY <1>10, <1>11, <1>12, <1>13, <1>14, <1>15,
            <1>16, <1>17, <1>18, <1>19 DEF IInv

\* A transaction that ends gives back its connection without a workspace.
LEMMA EndKeeps ==
  ASSUME Strict, IInv, NEW t \in Tasks, InTransaction(t),
         NEW next, next = Idle \/ (t \in Jobs /\ \E k \in Nat : next = JobOf(t, k)),
         End(t, next), UNCHANGED <<startUpVars, accountVars>>
  PROVE  /\ setting' \in [Conns -> Workspaces \cup {None}]
         /\ task' \in [Tasks -> TaskType]
         /\ \A u \in Tasks : u # t => task'[u] = task[u]
         /\ task'[t].pc \in {"idle", "waiting"} /\ task'[t].seen = {}
         /\ t \in Requests => task'[t].pc = "idle"
         /\ UNCHANGED accounts
         /\ Refused' /\ Owned' /\ Unshared' /\ IdleClean' /\ Exclusive'
<1>1. /\ next \in TaskType /\ next.conn = None /\ next.pc \in {"idle", "waiting"}
      /\ next.seen = {} /\ (t \in Requests => next.pc = "idle")
  BY DEF Idle, JobOf, Waiting, TaskType
<1>2. UNCHANGED <<bypass, prismaHook, accounts>>
  BY DEF startUpVars, environmentVars, hookVars, accountVars
<1>3. /\ task' \in [Tasks -> TaskType] /\ task'[t] = next
      /\ \A u \in Tasks : u # t => task'[u] = task[u]
  BY <1>1, OneTask DEF IInv, End
<1>4. task[t].conn \in Conns /\ setting' = [setting EXCEPT ![task[t].conn] = None]
  BY DEF InTransaction, End, Release, IInv, TypeOK, TaskType
<1>5. \A u \in Tasks : u # t => task[u].conn # task[t].conn
  BY <1>4 DEF IInv, Unshared
<1>6. ~bypass
  BY <1>4 DEF IInv, Refused
<1>10. setting' \in [Conns -> Workspaces \cup {None}]
  BY <1>4 DEF IInv, TypeOK
<1>11. Refused'
  BY <1>2, <1>6 DEF Refused
<1>12. Owned'
  <2>1. ASSUME NEW u \in Tasks, u # t
        PROVE  /\ task[u].pc \in InTransactionPCs <=> task[u].conn # None
               /\ task[u].pc \in InTransactionPCs \ {"begun"} =>
                    setting'[task[u].conn] = task[u].ws
    <3>1. CASE task[u].pc \in InTransactionPCs
      <4>1. task[u].conn \in Conns /\ task[u].conn # task[t].conn
        BY <3>1, <2>1, <1>5 DEF IInv, TypeOK, TaskType, Owned
      <4> QED  BY <3>1, <4>1, <1>4 DEF IInv, TypeOK, Owned
    <3>2. CASE task[u].pc \notin InTransactionPCs
      BY <3>2 DEF IInv, Owned
    <3> QED  BY <3>1, <3>2
  <2> QED  BY <2>1, <1>1, <1>3 DEF Owned
<1>13. Unshared'
  BY <1>1, <1>3, <1>4 DEF IInv, Unshared
<1>14. IdleClean'
  BY <1>1, <1>2, <1>3, <1>4, <1>5, <1>6 DEF IInv, TypeOK, IdleClean, Unshared, TaskType
<1>15. Exclusive'
  BY <1>1, <1>3 DEF IInv, Exclusive
<1> QED  BY <1>1, <1>2, <1>3, <1>10, <1>11, <1>12, <1>13, <1>14, <1>15

\* A rollback leaves the data as it was.
LEMMA RollbackInv ==
  ASSUME Strict, IInv, NEW t \in Tasks, InTransaction(t),
         NEW next, next = Idle \/ (t \in Jobs /\ \E k \in Nat : next = JobOf(t, k)),
         End(t, next), UNCHANGED <<startUpVars, accountVars>>,
         UNCHANGED <<home, itemsOf, categories>>, DOMAIN status' = Receipts
  PROVE  IInv'
<1>1. /\ setting' \in [Conns -> Workspaces \cup {None}]
      /\ task' \in [Tasks -> TaskType]
      /\ \A u \in Tasks : u # t => task'[u] = task[u]
      /\ task'[t].pc \in {"idle", "waiting"} /\ task'[t].seen = {}
      /\ t \in Requests => task'[t].pc = "idle"
      /\ UNCHANGED accounts
      /\ Refused' /\ Owned' /\ Unshared' /\ IdleClean' /\ Exclusive'
  BY EndKeeps
<1>2. TypeOK'
  BY <1>1 DEF IInv, TypeOK
<1>3. Admitted'
  BY <1>1 DEF IInv, Admitted, Member
<1>4. Locked'
  BY <1>1 DEF IInv, Locked
<1>5. Empty' /\ ApplyIsWhole'
  BY DEF IInv, Empty, ApplyIsWhole
<1> QED  BY <1>1, <1>2, <1>3, <1>4, <1>5 DEF IInv

\* A commit moves a row only from nowhere to the task's workspace, and adds the
\* items of an apply together with their categories.
LEMMA CommitInv ==
  ASSUME Strict, IInv, NEW t \in Tasks, Commit(t), UNCHANGED <<startUpVars, accountVars>>
  PROVE  IInv'
<1> DEFINE r == task[t].receipt
<1> DEFINE ws == task[t].ws
<1>1. InTransaction(t) /\ End(t, Idle)
  BY DEF Commit, InTransaction, IInv, Owned
<1>2. /\ setting' \in [Conns -> Workspaces \cup {None}]
      /\ task' \in [Tasks -> TaskType]
      /\ \A u \in Tasks : u # t => task'[u] = task[u]
      /\ task'[t].pc \in {"idle", "waiting"} /\ task'[t].seen = {}
      /\ t \in Requests => task'[t].pc = "idle"
      /\ UNCHANGED accounts
      /\ Refused' /\ Owned' /\ Unshared' /\ IdleClean' /\ Exclusive'
  BY <1>1, EndKeeps
<1>3. CASE task[t].kind = "create"
  <2>1. /\ task[t].pc = "written" /\ r \in Receipts /\ home[r] = None
        /\ home' = [home EXCEPT ![r] = ws] /\ UNCHANGED <<itemsOf, categories>>
        /\ DOMAIN status' = Receipts /\ ws \in Workspaces \cup {None}
    BY <1>3 DEF Commit, IInv, TypeOK, TaskType, Locked
  <2>2. \A u \in Tasks : u # t /\ task[u].pc = "written" => task[u].receipt # r
    BY <2>1 DEF IInv, Exclusive
  <2>3. \A q \in Receipts : home[q] # None => home'[q] = home[q]
    BY <2>1 DEF IInv, TypeOK
  <2>4. TypeOK'
    BY <1>2, <2>1 DEF IInv, TypeOK
  <2>5. Admitted'
    BY <1>2, <2>3 DEF IInv, TypeOK, TaskType, Admitted, Member
  <2>6. Locked'
    BY <1>2, <2>1, <2>2 DEF IInv, TypeOK, Locked
  <2>7. Empty'
    BY <2>1, <2>3 DEF IInv, Empty
  <2>8. ApplyIsWhole'
    BY <2>1, <2>3 DEF IInv, ApplyIsWhole, Empty
  <2> QED  BY <1>2, <2>4, <2>5, <2>6, <2>7, <2>8 DEF IInv
<1>4. CASE task[t].kind = "apply"
  <2>1. /\ r \in Receipts /\ home[r] = ws /\ home[r] # None
        /\ itemsOf' = [itemsOf EXCEPT ![r] = @ \cup Upserted(t)]
        /\ categories' = categories \cup Upserted(t)
        /\ UNCHANGED home /\ DOMAIN status' = Receipts
    BY <1>4 DEF Commit, IInv, TypeOK, Locked
  <2>2. \A row \in Upserted(t) : row[1] = ws
    BY DEF Upserted
  <2>3. /\ itemsOf'[r] = itemsOf[r] \cup Upserted(t)
        /\ \A q \in Receipts : q # r => itemsOf'[q] = itemsOf[q]
    BY <2>1 DEF IInv, TypeOK
  <2>4. TypeOK'
    BY <1>2, <2>1 DEF IInv, TypeOK
  <2>5. Admitted'
    BY <1>2, <2>1 DEF IInv, Admitted, Member
  <2>6. Locked'
    BY <1>2, <2>1 DEF IInv, Locked
  <2>7. Empty'
    BY <2>1, <2>3 DEF IInv, Empty
  <2>8. ApplyIsWhole'
    BY <2>1, <2>2, <2>3 DEF IInv, ApplyIsWhole
  <2> QED  BY <1>2, <2>4, <2>5, <2>6, <2>7, <2>8 DEF IInv
<1>5. CASE task[t].kind \notin {"create", "apply"}
  <2>1. UNCHANGED <<home, itemsOf, categories>> /\ DOMAIN status' = Receipts
    BY <1>5 DEF Commit, dataVars, IInv, TypeOK
  <2> QED  BY <1>1, <2>1, RollbackInv
<1> QED  BY <1>3, <1>4, <1>5

\* A process that starts does not serve before its role was asked for, and the
\* tasks do not move meanwhile.
LEMMA StartUpInv ==
  ASSUME Strict, IInv, StartUpNext, UNCHANGED <<accountVars, tenantVars>>
  PROVE  IInv'
<1>1. UNCHANGED <<home, status, itemsOf, categories, setting, task, accounts, bypass>>
  BY DEF accountVars, tenantVars, dataVars, StartUpNext, PostgresChanges, StorageAnswers,
         StartUpStep, Connect, AssertRlsEnforced, BucketExists, MakeBucket, MakeBucketUnless,
         Restart, environmentVars
<1>2. bypass /\ prismaHook \in [Processes -> {"todo", "connected"}]
        => prismaHook' \in [Processes -> {"todo", "connected"}]
  BY DEF StartUpNext, PostgresChanges, StorageAnswers, StartUpStep, Throws, PrismaAt, StorageAt,
         Connect, AssertRlsEnforced, BucketExists, MakeBucket, MakeBucketUnless, Restart, hookVars
<1> QED  BY <1>1, <1>2 DEF IInv, TypeOK, Refused, Owned, Unshared, IdleClean, Admitted, Member,
              Locked, Exclusive, Empty, ApplyIsWhole

\* Accounts are only added.
LEMMA AccountsInv ==
  ASSUME IInv, AccountsNext, UNCHANGED <<startUpVars, tenantVars>>
  PROVE  IInv'
<1>1. UNCHANGED <<home, status, itemsOf, categories, setting, task, bypass, prismaHook>>
  BY DEF startUpVars, environmentVars, hookVars, tenantVars, dataVars
<1>2. accounts \subseteq accounts'
  BY DEF AccountsNext, SignUpFinds, SignUpCreates, Login
<1> QED  BY <1>1, <1>2 DEF IInv, TypeOK, Refused, Owned, Unshared, IdleClean, Admitted,
              Member, Locked, Exclusive, Empty, ApplyIsWhole

\* The tasks begin idle, or as jobs of the queue.
LEMMA InitInv == Init => IInv
<1> SUFFICES ASSUME Init PROVE IInv
  OBVIOUS
<1>1. /\ \A t \in Tasks : /\ task[t] \in TaskType
                          /\ task[t].pc \in {"idle", "waiting"} /\ task[t].conn = None
                          /\ task[t].seen = {} /\ (t \in Requests => task[t].pc = "idle")
      /\ task \in [Tasks -> TaskType]
  BY DEF Init, TenantInit, Idle, JobOf, Waiting, TaskType
<1>2. /\ home = HomeOf /\ DOMAIN status = Receipts /\ itemsOf = [r \in Receipts |-> {}]
      /\ categories = {} /\ setting = [c \in Conns |-> None]
      /\ prismaHook \in [Processes -> {"todo", "connected"}]
  BY DEF Init, TenantInit, StartUpInit
<1>3. TypeOK
  BY <1>1, <1>2 DEF TypeOK
<1>4. Refused /\ Owned /\ Unshared /\ IdleClean
  BY <1>1, <1>2 DEF Refused, Owned, Unshared, IdleClean
<1>5. Admitted /\ Locked /\ Exclusive /\ Empty /\ ApplyIsWhole
  BY <1>1, <1>2 DEF Admitted, Locked, Exclusive, Empty, ApplyIsWhole
<1> QED  BY <1>3, <1>4, <1>5 DEF IInv

\* Every step keeps the invariant.
LEMMA NextInv ==
  ASSUME Strict, IInv, [Next]_vars
  PROVE  IInv'
<1>1. CASE StartUpNext /\ UNCHANGED <<accountVars, tenantVars>>
  BY <1>1, StartUpInv
<1>2. CASE AccountsNext /\ UNCHANGED <<startUpVars, tenantVars>>
  BY <1>2, AccountsInv
<1>3. CASE TenantNext /\ UNCHANGED <<startUpVars, accountVars>>
  <2>1. CASE \E t \in Requests, s \in Forms, ws \in Workspaces, kind \in Kinds,
                r \in Receipts \cup {None} : Admit(t, s, ws, kind, r)
    BY <1>3, <2>1, AdmitInv
  <2>2. ASSUME NEW t \in Tasks, TransactionStep(t)
        PROVE  IInv'
    <3>1. CASE \E c \in Conns : Begin(t, c)
      BY <1>3, <3>1, BeginInv
    <3>2. CASE SetConfig(t)
      BY <1>3, <3>2, SetConfigInv
    <3>3. CASE List(t) \/ Get(t)
      BY <1>3, <3>3, ReadInv
    <3>4. CASE (Confirm(t) /\ Visible(t, task[t].receipt)) \/ Create(t) \/ UpdateReceipt(t)
      BY <1>3, <3>4, WriteInv
    <3>5. CASE Confirm(t) /\ ~Visible(t, task[t].receipt)
      <4>1. InTransaction(t) /\ End(t, Idle) /\ UNCHANGED dataVars
        BY <3>5 DEF Confirm, InTransaction, IInv, Owned
      <4>2. UNCHANGED <<home, itemsOf, categories>> /\ DOMAIN status' = Receipts
        BY <4>1 DEF dataVars, IInv, TypeOK
      <4> QED  BY <1>3, <4>1, <4>2, RollbackInv
    <3>6. CASE UpsertCategory(t)
      BY <1>3, <3>6, UpsertCategoryInv
    <3>7. CASE Commit(t)
      BY <1>3, <3>7, CommitInv
    <3> QED  BY <2>2, <3>1, <3>2, <3>3, <3>4, <3>5, <3>6, <3>7 DEF TransactionStep
  <2>3. ASSUME NEW t \in Tasks, Rollback(t)
        PROVE  IInv'
    <3>1. task[t].tries + 1 \in Nat
      BY DEF IInv, TypeOK, TaskType
    <3>2. \E next : /\ next = Idle \/ (t \in Jobs /\ \E k \in Nat : next = JobOf(t, k))
                    /\ End(t, next)
      BY <2>3, <3>1 DEF Rollback
    <3>3. UNCHANGED <<home, itemsOf, categories>> /\ DOMAIN status' = Receipts
      BY <2>3 DEF Rollback, dataVars, IInv, TypeOK
    <3> QED  BY <1>3, <2>3, <3>2, <3>3, RollbackInv DEF Rollback
  <2> QED  BY <1>3, <2>1, <2>2, <2>3 DEF TenantNext, GiveUp
<1>4. CASE UNCHANGED vars
  BY <1>4 DEF vars, startUpVars, environmentVars, hookVars, accountVars, tenantVars, dataVars,
     IInv, TypeOK, Refused,
     Owned, Unshared, IdleClean, Admitted, Member, Locked, Exclusive, Empty, ApplyIsWhole
<1> QED  BY <1>1, <1>2, <1>3, <1>4 DEF Next

\* The invariant holds throughout, in a deployment that is strict about its role.
THEOREM Isolated ==
  ASSUME Strict
  PROVE  Spec => []IInv
  BY InitInv, NextInv, PTL DEF Spec

\* Nobody is shown a receipt of a workspace of which he is no member.
THEOREM ReadsAreIsolated ==
  ASSUME Strict
  PROVE  Spec => []ReadsStayHome
<1>1. ASSUME IInv PROVE ReadsStayHome
  <2> SUFFICES ASSUME NEW t \in Requests, NEW r \in task[t].seen
               PROVE  home[r] = task[t].ws /\ Member(task[t].user, task[t].ws)
    BY DEF ReadsStayHome
  <2> QED  BY <1>1 DEF IInv, Admitted
<1> QED  BY <1>1, Isolated, PTL

\* No connection is idle with a workspace set.
THEOREM PoolIsClean ==
  ASSUME Strict
  PROVE  Spec => []IdleClean
<1>1. IInv => IdleClean
  BY DEF IInv
<1> QED  BY <1>1, Isolated, PTL

\* Applies are all or nothing, whoever else holds their categories.
THEOREM AppliesAreWhole ==
  ASSUME Strict
  PROVE  Spec => []ApplyIsWhole
<1>1. IInv => ApplyIsWhole
  BY DEF IInv
<1> QED  BY <1>1, Isolated, PTL

\* Receipts are written only by commits of transactions of their own workspace.
THEOREM WritesAreIsolated ==
  ASSUME Strict
  PROVE  Spec => WritesStayHome
<1> DEFINE Same(r) == home'[r] = home[r] /\ status'[r] = status[r] /\ itemsOf'[r] = itemsOf[r]
<1> DEFINE By(t, r) == /\ InTransaction(t) /\ task[t].receipt = r
                       /\ setting[task[t].conn] = home'[r]
                       /\ t \in Jobs \/ Member(task[t].user, home'[r])
<1>1. ASSUME IInv, NEW t \in Tasks, Commit(t), NEW r \in Receipts
      PROVE  Same(r) \/ By(t, r)
  <2>1. InTransaction(t) /\ setting[task[t].conn] = task[t].ws
    BY <1>1 DEF Commit, InTransaction, IInv, Owned
  <2>2. t \in Jobs \/ Member(task[t].user, task[t].ws)
    BY <1>1 DEF Commit, IInv, Admitted
  <2>3. CASE task[t].receipt # r \/ task[t].kind \notin {"create", "confirm", "apply"}
    BY <1>1, <2>3 DEF Commit, dataVars, IInv, TypeOK
  <2>4. CASE task[t].receipt = r /\ task[t].kind \in {"create", "confirm", "apply"}
    <3>1. home'[r] = task[t].ws
      BY <1>1, <2>4 DEF Commit, IInv, TypeOK, Locked
    <3> QED  BY <2>1, <2>2, <2>4, <3>1
  <2> QED  BY <2>3, <2>4
<1>2. ASSUME IInv, [Next]_vars, ~\E t \in Tasks : Commit(t)
      PROVE  UNCHANGED <<home, status, itemsOf>>
  BY <1>2 DEF Next, vars, tenantVars, dataVars, TenantNext, TransactionStep, Rollback, GiveUp,
     Admit, Begin, SetConfig, List, Get, Confirm, Create, UpsertCategory, UpdateReceipt
<1>3. IInv /\ [Next]_vars =>
        [\A r \in Receipts :
           \/ home'[r] = home[r] /\ status'[r] = status[r] /\ itemsOf'[r] = itemsOf[r]
           \/ \E t \in Tasks :
                /\ InTransaction(t) /\ task[t].receipt = r
                /\ setting[task[t].conn] = home'[r]
                /\ t \in Jobs \/ Member(task[t].user, home'[r])]_vars
  BY <1>1, <1>2
<1> HIDE DEF Same, By
<1> QED  BY <1>3, Isolated, PTL DEF Spec, WritesStayHome

\* The tokens are for accounts, of which there is one for an email.
AccountInv ==
  /\ token \in [Forms -> Forms \cup {None}] /\ accounts \subseteq Forms
  /\ OneAccountPerEmail

\* Sign-ups that race for an email, and who logs in afterwards, get one account.
THEOREM AccountsAreUnique == Spec => []OneAccountPerEmail
<1> USE AccountsAssumption
<1>1. Init => AccountInv
  BY DEF Init, AccountsInit, AccountInv, OneAccountPerEmail, WithEmail
<1>2. ASSUME AccountInv, [Next]_vars
      PROVE  AccountInv'
  <2>1. CASE UNCHANGED accountVars
    BY <1>2, <2>1 DEF accountVars, AccountInv, OneAccountPerEmail, WithEmail
  <2>2. ASSUME NEW s \in Forms, SignUpFinds(s)
        PROVE  AccountInv'
    BY <1>2, <2>2 DEF SignUpFinds, AccountInv, OneAccountPerEmail, WithEmail
  <2>3. ASSUME NEW s \in Forms, SignUpCreates(s)
        PROVE  AccountInv'
    BY <1>2, <2>3 DEF SignUpCreates, AccountInv, OneAccountPerEmail, WithEmail
  <2>4. ASSUME NEW s \in Forms, Login(s)
        PROVE  AccountInv'
    BY <1>2, <2>4 DEF Login, AccountInv, OneAccountPerEmail, WithEmail
  <2> QED  BY <1>2, <2>1, <2>2, <2>3, <2>4 DEF Next, vars, AccountsNext
<1>3. AccountInv => OneAccountPerEmail
  BY DEF AccountInv
<1> QED  BY <1>1, <1>2, <1>3, PTL DEF Spec

-----------------------------------------------------------------------------
(* The start of the processes.                                             *)

\* A hook is done only if what it is there for is so.
StartInv ==
  /\ DOMAIN prismaHook = Processes /\ DOMAIN storageHook = Processes
  /\ DOMAIN exited = Processes
  /\ bucket \in Buckets
  /\ \A p \in Processes : storageHook[p] = "done" => bucket = "ours"
  /\ \A p \in Processes : prismaHook[p] = "done" => ~(bypass /\ Strict)

\* What a step may do to the processes.
Sound(p) ==
  /\ ~exited[p] /\ exited'[p] => Unfit
  /\ ~Serving(p) /\ Serving(p)' => bucket' = "ours" /\ ~(bypass' /\ Strict)

\* makeBucket leaves the deployment with its own bucket, or throws for a reason.
LEMMA BucketMadeOrNot ==
  ASSUME StartInv, NEW p \in Processes, MakeBucket(p)
  PROVE  \/ bucket' = "ours" /\ StorageAt(p, "done") /\ UNCHANGED environmentVars
         \/ Unfit /\ Throws(p) /\ UNCHANGED <<environmentVars, bucket>>
<1>1. bucket = "theirs" \/ bucket = "ours" \/ bucket = "none"
  BY DEF StartInv, Buckets
<1>2. CASE ~storageUp
  <2>1. Answer = "unreachable"
    BY <1>2 DEF Answer
  <2> QED  BY <1>2, <2>1 DEF MakeBucket, MakeBucketUnless, Unfit
<1>3. CASE storageUp /\ ~mayCreate
  <2>1. Answer = "AccessDenied"
    BY <1>3 DEF Answer
  <2> QED  BY <1>3, <2>1 DEF MakeBucket, MakeBucketUnless, Unfit
<1>4. CASE storageUp /\ mayCreate /\ bucket = "theirs"
  <2>1. Answer = "BucketAlreadyExists"
    BY <1>4 DEF Answer
  <2> QED  BY <1>4, <2>1 DEF MakeBucket, MakeBucketUnless, Unfit
<1>5. CASE storageUp /\ mayCreate /\ bucket = "ours"
  <2>1. Answer = "BucketAlreadyOwnedByYou"
    BY <1>5 DEF Answer
  <2> QED  BY <1>5, <2>1 DEF MakeBucket, MakeBucketUnless
<1>6. CASE storageUp /\ mayCreate /\ bucket = "none"
  <2>1. Answer = "made"
    BY <1>6 DEF Answer
  <2> QED  BY <2>1 DEF MakeBucket, MakeBucketUnless
<1> QED  BY <1>1, <1>2, <1>3, <1>4, <1>5, <1>6

\* Every step of a process keeps it so, and ends a process for a reason only.
LEMMA StartKeeps ==
  ASSUME StartInv, NEW p \in Processes, StartUpStep(p)
  PROVE  StartInv' /\ \A q \in Processes : Sound(q)
<1> USE DEF StartInv, Sound, Serving, environmentVars
<1>1. CASE Connect(p)
  BY <1>1 DEF Connect, PrismaAt, Throws, Unfit
<1>2. CASE AssertRlsEnforced(p)
  BY <1>2 DEF AssertRlsEnforced, PrismaAt, Throws, Unfit
<1>3. CASE BucketExists(p)
  BY <1>3 DEF BucketExists, StorageAt
<1>4. CASE MakeBucket(p)
  BY <1>4, BucketMadeOrNot DEF StorageAt, Throws, Buckets
<1>5. CASE Restart(p)
  BY <1>5 DEF Restart
<1> QED  BY <1>1, <1>2, <1>3, <1>4, <1>5 DEF StartUpStep

\* Processes that start together do not end each other, whatever the order of
\* their hooks; and none of them serves that its hooks should have ended.
THEOREM StartsAreHarmless == Spec => RaceIsHarmless
<1>1. Init => StartInv
  BY DEF Init, StartUpInit, StartInv
<1>2. ASSUME StartInv, [Next]_vars
      PROVE  StartInv' /\ \A p \in Processes : Sound(p)
  <2>1. CASE UNCHANGED startUpVars
    BY <1>2, <2>1 DEF startUpVars, environmentVars, hookVars, StartInv, Sound, Serving
  <2>2. CASE PostgresChanges \/ StorageAnswers
    BY <1>2, <2>2 DEF PostgresChanges, StorageAnswers, hookVars, StartInv, Sound, Serving
  <2>3. ASSUME NEW p \in Processes, StartUpStep(p)
        PROVE  StartInv' /\ \A q \in Processes : Sound(q)
    BY <1>2, <2>3, StartKeeps
  <2> QED  BY <1>2, <2>1, <2>2, <2>3 DEF Next, vars, StartUpNext
<1>3. StartInv /\ [Next]_vars =>
        [\A p \in Processes :
           /\ ~exited[p] /\ exited'[p] => Unfit
           /\ ~Serving(p) /\ Serving(p)' => bucket' = "ours" /\ ~(bypass' /\ Strict)]_startUpVars
  BY <1>2 DEF Sound
<1>4. StartInv /\ [Next]_vars => StartInv'
  BY <1>2
<1> QED  BY <1>1, <1>3, <1>4, PTL DEF Spec, RaceIsHarmless

=============================================================================
