---------------------------- MODULE ChannelLinking ----------------------------
(***************************************************************************)
(* ChannelLinkService: one-time codes that link a LINE or Telegram chat to *)
(* a workspace.  Its transactions run in Postgres at READ COMMITTED, so    *)
(* each statement is an action: it reads what is committed, waits for the  *)
(* row locks of other transactions, and after the wait evaluates its WHERE *)
(* again.  A transaction's writes take effect when it commits; until then  *)
(* its place in the code (pc) says what it has locked.                     *)
(***************************************************************************)
EXTENDS Integers, FiniteSets

CONSTANTS
  Workspaces, Channels,
  Chats,       \* LINE user ids and Telegram chat ids
  Codes,       \* the codes generateCode can still produce
  Redeems,     \* concurrent redeem() calls of the webhooks
  Creates,     \* concurrent createCode() calls of the dashboards
  None

ASSUME LinkingAssumption ==
  /\ None \notin Workspaces \cup Chats \cup Codes
  /\ IsFiniteSet(Codes)

VARIABLES
  row,      \* ChannelLinkCode rows: "unborn", "live" (usedAt null), "used", "gone"
  age,      \* "fresh", "expired" (TTL passed), "old" (a day past that)
  pair,     \* the (workspace, channel) a code is for
  link,     \* link[ch][ws]: Workspace.lineUserId / telegramChatId
  redeem,   \* the redeem() calls
  create,   \* the createCode() calls
  linksBy   \* history: links made with each code

vars == <<row, age, pair, link, redeem, create, linksBy>>

Pairs == Workspaces \X Channels
RedeemPCs == {"idle", "found", "free", "spent", "locked", "linked"}
IdleRedeem == [pc |-> "idle", channel |-> None, chat |-> None, code |-> None]
IdleCreate == [pc |-> "idle", pair |-> None, doomed |-> {}]

TypeOK ==
  /\ row \in [Codes -> {"unborn", "live", "used", "gone"}]
  /\ age \in [Codes -> {"fresh", "expired", "old"}]
  /\ pair \in [Codes -> Pairs \cup {None}]
  /\ link \in [Channels -> [Workspaces -> Chats \cup {None}]]
  /\ redeem \in [Redeems -> [pc : RedeemPCs, channel : Channels \cup {None},
                             chat : Chats \cup {None}, code : Codes \cup {None}]]
  /\ create \in [Creates -> [pc : {"idle", "deleted"}, pair : Pairs \cup {None},
                             doomed : SUBSET Codes]]
  /\ linksBy \in [Codes -> Nat]

Init ==
  /\ row = [c \in Codes |-> "unborn"]
  /\ age = [c \in Codes |-> "fresh"]
  /\ pair = [c \in Codes |-> None]
  /\ link = [ch \in Channels |-> [ws \in Workspaces |-> None]]
  /\ redeem = [q \in Redeems |-> IdleRedeem]
  /\ create = [g \in Creates |-> IdleCreate]
  /\ linksBy = [c \in Codes |-> 0]

Exists(c) == row[c] \in {"live", "used"}
WorkspaceOf(c) == pair[c][1]

-----------------------------------------------------------------------------
(* Row locks.                                                              *)

HoldsCode(q, c) == redeem[q].pc \in {"spent", "locked", "linked"} /\ redeem[q].code = c
HoldsWorkspace(q, ws) ==
  redeem[q].pc \in {"locked", "linked"} /\ WorkspaceOf(redeem[q].code) = ws

CodeLocked(c) ==
  (\E q \in Redeems : HoldsCode(q, c)) \/ (\E g \in Creates : c \in create[g].doomed)
WorkspaceLocked(ws) == \E q \in Redeems : HoldsWorkspace(q, ws)

-----------------------------------------------------------------------------
(* Time: CODE_TTL_MS after its creation a code expires; a day later it is  *)
(* old enough for createCode to clear away even if it was used.            *)

TimePasses(c) ==
  /\ Exists(c) /\ age[c] # "old"
  /\ age' = [age EXCEPT ![c] = IF @ = "fresh" THEN "expired" ELSE "old"]
  /\ UNCHANGED <<row, pair, link, redeem, create, linksBy>>

-----------------------------------------------------------------------------
(* createCode: deleteMany, then create, in one transaction.                *)

\* Mutant: only codes that have expired are cleared away.
SupersededExpired(p) ==
  {c \in Codes : Exists(c) /\ pair[c] = p /\ age[c] # "fresh"}

\* The rows deleteMany's WHERE matches among those committed.
Superseded(p) ==
  {c \in Codes : Exists(c) /\ pair[c] = p /\ (row[c] = "live" \/ age[c] = "old")}

\* deleteMany waits for whoever holds one of the rows it wants.
DeleteSuperseded(g, p) ==
  /\ create[g].pc = "idle"
  /\ \A c \in Superseded(p) : ~CodeLocked(c)
  /\ create' = [create EXCEPT ![g] = [pc |-> "deleted", pair |-> p,
                                      doomed |-> Superseded(p)]]
  /\ UNCHANGED <<row, age, pair, link, redeem, linksBy>>

\* The new code is random: no row has its hash.  Its foreign key waits for an
\* update of the workspace's unique columns.
CreateCode(g) ==
  /\ create[g].pc = "deleted"
  /\ ~WorkspaceLocked(create[g].pair[1])
  /\ \E new \in Codes :
       /\ row[new] = "unborn"
       /\ row' = [c \in Codes |-> IF c = new THEN "live"
                                  ELSE IF c \in create[g].doomed THEN "gone"
                                  ELSE row[c]]
       /\ pair' = [pair EXCEPT ![new] = create[g].pair]
  /\ create' = [create EXCEPT ![g] = IdleCreate]
  /\ UNCHANGED <<age, link, redeem, linksBy>>

CreateAborts(g) ==
  /\ create[g].pc = "deleted"
  /\ create' = [create EXCEPT ![g] = IdleCreate]
  /\ UNCHANGED <<row, age, pair, link, redeem, linksBy>>

-----------------------------------------------------------------------------
(* redeem: find the code, refuse a chat linked elsewhere, spend the code,  *)
(* link the workspace.  A refusal or an error rolls everything back.       *)

Advance(q, pc) == redeem' = [redeem EXCEPT ![q].pc = pc]
End(q) == redeem' = [redeem EXCEPT ![q] = IdleRedeem]
Chat(q) == redeem[q].chat
Code(q) == redeem[q].code
LinkedTo(q) == link[redeem[q].channel]

\* `now` is read once: what has not expired when redeem() starts never does for it.
\* A code that is refused here leaves no trace, and no action stands for it.
FindCode(q, ch, chat, c) ==
  /\ redeem[q].pc = "idle"
  /\ row[c] = "live" /\ age[c] = "fresh" /\ pair[c][2] = ch
  /\ redeem' = [redeem EXCEPT ![q] = [pc |-> "found", channel |-> ch,
                                      chat |-> chat, code |-> c]]
  /\ UNCHANGED <<row, age, pair, link, create, linksBy>>

CheckTaken(q) ==
  /\ redeem[q].pc = "found"
  /\ IF \E ws \in Workspaces \ {WorkspaceOf(Code(q))} : LinkedTo(q)[ws] = Chat(q)
       THEN End(q)
       ELSE Advance(q, "free")
  /\ UNCHANGED <<row, age, pair, link, create, linksBy>>

\* Mutant: updateMany by id alone, as if the first check were still good.
SpendCodeById(q) ==
  /\ redeem[q].pc = "free"
  /\ ~CodeLocked(Code(q))
  /\ Advance(q, "spent")
  /\ UNCHANGED <<row, age, pair, link, create, linksBy>>

\* updateMany ... usedAt: null, evaluated once nobody else holds the row.
SpendCode(q) ==
  /\ redeem[q].pc = "free"
  /\ ~CodeLocked(Code(q))
  /\ IF row[Code(q)] = "live" THEN Advance(q, "spent") ELSE End(q)
  /\ UNCHANGED <<row, age, pair, link, create, linksBy>>

LockWorkspace(q) ==
  /\ redeem[q].pc = "spent"
  /\ ~WorkspaceLocked(WorkspaceOf(Code(q)))
  /\ Advance(q, "locked")
  /\ UNCHANGED <<row, age, pair, link, create, linksBy>>

\* Mutant: lineUserId and telegramChatId without @unique.
SetLinkUnchecked(q) ==
  /\ redeem[q].pc = "locked"
  /\ Advance(q, "linked")
  /\ UNCHANGED <<row, age, pair, link, create, linksBy>>

\* The unique index: wait for a transaction that is writing or replacing the
\* same chat id, then fail (P2002) if another workspace has it.
SetLink(q) ==
  LET mine == WorkspaceOf(Code(q))
      holders == {ws \in Workspaces \ {mine} : LinkedTo(q)[ws] = Chat(q)}
      writers == {p \in Redeems \ {q} : /\ redeem[p].pc = "linked"
                                        /\ redeem[p].channel = redeem[q].channel
                                        /\ redeem[p].chat = Chat(q)}
  IN /\ redeem[q].pc = "locked"
     /\ writers = {} /\ \A ws \in holders : ~WorkspaceLocked(ws)
     /\ IF holders = {} THEN Advance(q, "linked") ELSE End(q)
     /\ UNCHANGED <<row, age, pair, link, create, linksBy>>

CommitRedeem(q) ==
  /\ redeem[q].pc = "linked"
  /\ row' = [row EXCEPT ![Code(q)] = "used"]
  /\ link' = [link EXCEPT ![redeem[q].channel][WorkspaceOf(Code(q))] = Chat(q)]
  /\ linksBy' = [linksBy EXCEPT ![Code(q)] = @ + 1]
  /\ End(q)
  /\ UNCHANGED <<age, pair, create>>

\* Mutant: the code is spent even if the link is not made.
RedeemAbortsSpent(q) ==
  /\ redeem[q].pc # "idle"
  /\ row' = IF redeem[q].pc \in {"spent", "locked", "linked"}
              THEN [row EXCEPT ![Code(q)] = "used"] ELSE row
  /\ End(q)
  /\ UNCHANGED <<age, pair, link, create, linksBy>>

\* The interactive transaction times out, deadlocks or loses its connection.
RedeemAborts(q) ==
  /\ redeem[q].pc # "idle"
  /\ End(q)
  /\ UNCHANGED <<row, age, pair, link, create, linksBy>>

Unlink(ws, ch) ==
  /\ ~WorkspaceLocked(ws)
  /\ link' = [link EXCEPT ![ch][ws] = None]
  /\ UNCHANGED <<row, age, pair, redeem, create, linksBy>>

-----------------------------------------------------------------------------
RedeemStep(q) ==
  \/ CheckTaken(q) \/ SpendCode(q) \/ LockWorkspace(q) \/ SetLink(q)
  \/ CommitRedeem(q)

Next ==
  \/ \E c \in Codes : TimePasses(c)
  \/ \E g \in Creates : CreateCode(g) \/ CreateAborts(g)
  \/ \E g \in Creates, p \in Pairs : DeleteSuperseded(g, p)
  \/ \E q \in Redeems : RedeemStep(q) \/ RedeemAborts(q)
  \/ \E q \in Redeems, ch \in Channels, chat \in Chats, c \in Codes :
       FindCode(q, ch, chat, c)
  \/ \E ws \in Workspaces, ch \in Channels : Unlink(ws, ch)

Spec == Init /\ [][Next]_vars

-----------------------------------------------------------------------------
(* Properties.                                                             *)

\* A chat routes to one workspace: the `taken` check alone would let two
\* concurrent redeems link it twice.
OneWorkspacePerChat ==
  \A ch \in Channels : \A ws1, ws2 \in Workspaces :
    link[ch][ws1] = link[ch][ws2] /\ link[ch][ws1] # None => ws1 = ws2

\* A code links once, even if two chats redeem it at once, and it is spent only
\* if it did.
CodeLinksOnce ==
  \A c \in Codes : linksBy[c] <= 1 /\ (row[c] = "used" => linksBy[c] = 1)

\* A chat appears on a workspace only in the step that spends a live code made
\* for that workspace and channel: a code that was superseded or used while the
\* redeem was under way links nothing.
LinkSpendsItsCode ==
  [][\A ch \in Channels, ws \in Workspaces :
       link'[ch][ws] \notin {link[ch][ws], None} =>
         \E c \in Codes : pair[c] = <<ws, ch>> /\ row[c] = "live" /\ row'[c] = "used"
    ]_vars

Usable(c) == row[c] = "live" /\ age[c] = "fresh"

\* While one dashboard at a time asks for codes, a workspace and a channel have
\* at most one code that works, whatever redeems are under way.
OneUsableCode ==
  \A c, d \in Codes : Usable(c) /\ Usable(d) /\ pair[c] = pair[d] => c = d

-----------------------------------------------------------------------------
(***************************************************************************)
(* The inductive invariant behind them: what a transaction still under way *)
(* has read or locked is still so.  CreatesAlone holds of one dashboard at *)
(* a time and is what OneUsableCode needs besides.                         *)
(***************************************************************************)
CodesBorn ==
  /\ \A c \in Codes : row[c] # "unborn" => pair[c] \in Pairs
  /\ \A q \in Redeems :
       redeem[q].pc # "idle" =>
         /\ Code(q) \in Codes /\ row[Code(q)] # "unborn"
         /\ redeem[q].channel = pair[Code(q)][2]
         /\ Chat(q) \in Chats
  /\ \A g \in Creates : create[g].pc = "deleted" => create[g].pair \in Pairs
  /\ \A g \in Creates : \A c \in create[g].doomed : row[c] # "unborn"

LinksCounted ==
  \A c \in Codes : /\ row[c] \in {"unborn", "live"} => linksBy[c] = 0
                   /\ row[c] = "used" => linksBy[c] = 1
                   /\ linksBy[c] <= 1

LocksExclusive ==
  /\ \A q \in Redeems, c \in Codes :
       HoldsCode(q, c) => /\ row[c] = "live"
                          /\ \A g \in Creates : c \notin create[g].doomed
  /\ \A p, q \in Redeems, c \in Codes : HoldsCode(p, c) /\ HoldsCode(q, c) => p = q
  /\ \A p, q \in Redeems, ws \in Workspaces :
       HoldsWorkspace(p, ws) /\ HoldsWorkspace(q, ws) => p = q

\* A link about to be committed is to a chat nobody else has or is about to have.
PendingLinksFree ==
  \A q \in Redeems :
    redeem[q].pc = "linked" =>
      /\ \A ws \in Workspaces : LinkedTo(q)[ws] = Chat(q) => ws = WorkspaceOf(Code(q))
      /\ \A p \in Redeems :
           /\ redeem[p].pc = "linked" /\ Chat(p) = Chat(q)
           /\ redeem[p].channel = redeem[q].channel
           => p = q

LockInv ==
  /\ TypeOK /\ CodesBorn /\ LinksCounted /\ LocksExclusive
  /\ PendingLinksFree /\ OneWorkspacePerChat

CreatesAlone ==
  /\ \A c, d \in Codes : row[c] = "live" /\ row[d] = "live" /\ pair[c] = pair[d] => c = d
  /\ \A g \in Creates, c \in Codes :
       create[g].pc = "deleted" /\ row[c] = "live" /\ pair[c] = create[g].pair
         => c \in create[g].doomed

=============================================================================
