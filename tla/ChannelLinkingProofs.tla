------------------------- MODULE ChannelLinkingProofs -------------------------
(***************************************************************************)
(* Proofs about ChannelLinking, for every number of workspaces, chats,     *)
(* codes and concurrent calls.  One lemma per action shows that it keeps   *)
(* LockInv: what a transaction under way has read or locked stays so.      *)
(***************************************************************************)
EXTENDS ChannelLinking, TLAPS

\* Nothing is under way and nothing is linked at first.
LEMMA InitInv == Init => LockInv
  BY DEF Init, LockInv, TypeOK, CodesBorn, LinksCounted, LocksExclusive,
     PendingLinksFree, OneWorkspacePerChat, HoldsCode, HoldsWorkspace,
     IdleRedeem, IdleCreate, RedeemPCs

\* Each step keeps what transactions under way rely on (LockInv).
LEMMA TimePassesInv ==
  ASSUME LockInv, NEW c \in Codes, TimePasses(c)
  PROVE  LockInv'
<1>1. TypeOK'
  BY DEF TimePasses, TypeOK, LockInv
<1>2. CodesBorn'
  BY DEF TimePasses, CodesBorn, TypeOK, Code, Chat, LockInv
<1>3. LinksCounted'
  BY DEF TimePasses, LinksCounted, TypeOK, LockInv
<1>4. LocksExclusive'
  BY DEF TimePasses, LocksExclusive, TypeOK, HoldsCode, HoldsWorkspace,
     WorkspaceOf, LockInv
<1>5. PendingLinksFree'
  BY DEF TimePasses, PendingLinksFree, TypeOK, Code, Chat, WorkspaceOf,
     LinkedTo, LockInv
<1>6. OneWorkspacePerChat'
  BY DEF TimePasses, OneWorkspacePerChat, TypeOK, LockInv
<1> QED  BY <1>1, <1>2, <1>3, <1>4, <1>5, <1>6 DEF LockInv

\* deleteMany takes only rows no redeem has locked.
LEMMA DeleteSupersededInv ==
  ASSUME LockInv, NEW g \in Creates, NEW p \in Pairs, DeleteSuperseded(g, p)
  PROVE  LockInv'
<1>1. TypeOK'
  BY DEF DeleteSuperseded, Superseded, TypeOK, LockInv
<1>2. CodesBorn'
  BY DEF DeleteSuperseded, Superseded, CodesBorn, TypeOK, Code, Chat, Exists,
     LockInv
<1>3. LinksCounted'
  BY DEF DeleteSuperseded, LinksCounted, TypeOK, LockInv
<1>4. LocksExclusive'
  BY DEF DeleteSuperseded, LocksExclusive, TypeOK, HoldsCode, HoldsWorkspace,
     WorkspaceOf, CodeLocked, LockInv
<1>5. PendingLinksFree'
  BY DEF DeleteSuperseded, PendingLinksFree, TypeOK, Code, Chat, WorkspaceOf,
     LinkedTo, LockInv
<1>6. OneWorkspacePerChat'
  BY DEF DeleteSuperseded, OneWorkspacePerChat, TypeOK, LockInv
<1> QED  BY <1>1, <1>2, <1>3, <1>4, <1>5, <1>6 DEF LockInv

\* The new code is one that no redeem can have found.
LEMMA CreateCodeInv ==
  ASSUME LockInv, NEW g \in Creates, CreateCode(g)
  PROVE  LockInv'
<1>1. TypeOK'
  BY DEF CreateCode, IdleCreate, TypeOK, LockInv
<1>2. CodesBorn'
  BY DEF CreateCode, IdleCreate, CodesBorn, TypeOK, Code, Chat, LockInv
<1>3. LinksCounted'
  BY DEF CreateCode, LinksCounted, TypeOK, LockInv
<1>4. LocksExclusive'
  BY DEF CreateCode, IdleCreate, LocksExclusive, TypeOK, HoldsCode,
     HoldsWorkspace, WorkspaceOf, LockInv
<1>5. PendingLinksFree'
  BY DEF CreateCode, PendingLinksFree, TypeOK, CodesBorn, Code, Chat,
     WorkspaceOf, LinkedTo, LockInv
<1>6. OneWorkspacePerChat'
  BY DEF CreateCode, OneWorkspacePerChat, TypeOK, LockInv
<1> QED  BY <1>1, <1>2, <1>3, <1>4, <1>5, <1>6 DEF LockInv

\* A createCode that is rolled back releases its rows.
LEMMA CreateAbortsInv ==
  ASSUME LockInv, NEW g \in Creates, CreateAborts(g)
  PROVE  LockInv'
<1>1. TypeOK'
  BY DEF CreateAborts, IdleCreate, TypeOK, LockInv
<1>2. CodesBorn'
  BY DEF CreateAborts, IdleCreate, CodesBorn, TypeOK, Code, Chat, LockInv
<1>3. LinksCounted'
  BY DEF CreateAborts, LinksCounted, TypeOK, LockInv
<1>4. LocksExclusive'
  BY DEF CreateAborts, IdleCreate, LocksExclusive, TypeOK, HoldsCode,
     HoldsWorkspace, WorkspaceOf, LockInv
<1>5. PendingLinksFree'
  BY DEF CreateAborts, PendingLinksFree, TypeOK, Code, Chat, WorkspaceOf,
     LinkedTo, LockInv
<1>6. OneWorkspacePerChat'
  BY DEF CreateAborts, OneWorkspacePerChat, TypeOK, LockInv
<1> QED  BY <1>1, <1>2, <1>3, <1>4, <1>5, <1>6 DEF LockInv

\* redeem starts from a row that exists.
LEMMA FindCodeInv ==
  ASSUME LockInv, NEW q \in Redeems, NEW ch \in Channels,
         NEW chat \in Chats, NEW c \in Codes, FindCode(q, ch, chat, c)
  PROVE  LockInv'
<1>1. TypeOK'
  BY DEF FindCode, TypeOK, RedeemPCs, LockInv
<1>2. CodesBorn'
  BY DEF FindCode, CodesBorn, TypeOK, Code, Chat, LockInv
<1>3. LinksCounted'
  BY DEF FindCode, LinksCounted, TypeOK, LockInv
<1>4. LocksExclusive'
  BY DEF FindCode, LocksExclusive, TypeOK, HoldsCode, HoldsWorkspace,
     WorkspaceOf, LockInv
<1>5. PendingLinksFree'
  BY DEF FindCode, PendingLinksFree, TypeOK, Code, Chat, WorkspaceOf, LinkedTo,
     LockInv
<1>6. OneWorkspacePerChat'
  BY DEF FindCode, OneWorkspacePerChat, TypeOK, LockInv
<1> QED  BY <1>1, <1>2, <1>3, <1>4, <1>5, <1>6 DEF LockInv

\* A commit spends the code it alone has locked and links a chat nobody has.
LEMMA CommitRedeemInv ==
  ASSUME LockInv, NEW q \in Redeems, CommitRedeem(q)
  PROVE  LockInv'
<1>1. TypeOK'
  BY DEF CommitRedeem, End, IdleRedeem, WorkspaceOf, TypeOK, Pairs, RedeemPCs,
     CodesBorn, LockInv
<1>2. CodesBorn'
  BY DEF CommitRedeem, End, IdleRedeem, Code, Chat, CodesBorn, TypeOK, LockInv
<1>3. LinksCounted'
  BY DEF CommitRedeem, Code, LinksCounted, TypeOK, LocksExclusive, HoldsCode,
     LockInv
<1>4. LocksExclusive'
  BY DEF CommitRedeem, End, IdleRedeem, Code, WorkspaceOf, LocksExclusive,
     TypeOK, HoldsCode, HoldsWorkspace, LockInv
<1>5. PendingLinksFree'
  BY DEF CommitRedeem, End, IdleRedeem, Code, WorkspaceOf, Chat,
     PendingLinksFree, TypeOK, LinkedTo, LockInv
<1>6. OneWorkspacePerChat'
  BY DEF CommitRedeem, OneWorkspacePerChat, TypeOK, PendingLinksFree, LinkedTo,
     LockInv
<1> QED  BY <1>1, <1>2, <1>3, <1>4, <1>5, <1>6 DEF LockInv

\* An unlink takes a chat away.
LEMMA UnlinkInv ==
  ASSUME LockInv, NEW ws \in Workspaces, NEW ch \in Channels, Unlink(ws, ch)
  PROVE  LockInv'
<1>1. TypeOK'
  BY DEF Unlink, TypeOK, LockInv
<1>2. CodesBorn'
  BY DEF Unlink, CodesBorn, TypeOK, Code, Chat, LockInv
<1>3. LinksCounted'
  BY DEF Unlink, LinksCounted, TypeOK, LockInv
<1>4. LocksExclusive'
  BY DEF Unlink, LocksExclusive, TypeOK, HoldsCode, HoldsWorkspace, WorkspaceOf,
     LockInv
<1>5. PendingLinksFree'
  BY LinkingAssumption DEF Unlink, WorkspaceLocked, PendingLinksFree, TypeOK,
     CodesBorn, Code, Chat, WorkspaceOf, LinkedTo, Pairs, HoldsWorkspace,
     LockInv
<1>6. OneWorkspacePerChat'
  BY DEF Unlink, OneWorkspacePerChat, TypeOK, LockInv
<1> QED  BY <1>1, <1>2, <1>3, <1>4, <1>5, <1>6 DEF LockInv

\* A redeem that ends without a commit leaves everything else as it was.
LEMMA EndInv ==
  ASSUME LockInv, NEW q \in Redeems, End(q),
         UNCHANGED <<row, age, pair, link, create, linksBy>>
  PROVE  LockInv'
<1>1. TypeOK'
  BY DEF End, IdleRedeem, TypeOK, RedeemPCs, LockInv
<1>2. CodesBorn'
  BY DEF End, IdleRedeem, CodesBorn, TypeOK, Code, Chat, LockInv
<1>3. LinksCounted'
  BY DEF End, LinksCounted, TypeOK, LockInv
<1>4. LocksExclusive'
  BY DEF End, IdleRedeem, LocksExclusive, TypeOK, HoldsCode, HoldsWorkspace,
     WorkspaceOf, LockInv
<1>5. PendingLinksFree'
  BY DEF End, IdleRedeem, PendingLinksFree, TypeOK, Code, Chat, WorkspaceOf,
     LinkedTo, LockInv
<1>6. OneWorkspacePerChat'
  BY DEF End, OneWorkspacePerChat, TypeOK, LockInv
<1> QED  BY <1>1, <1>2, <1>3, <1>4, <1>5, <1>6 DEF LockInv

\* What does not change when a redeem only moves on in its code.
LEMMA AdvanceFacts ==
  ASSUME LockInv, NEW q \in Redeems, NEW pc \in RedeemPCs \ {"idle"},
         redeem[q].pc # "idle", Advance(q, pc),
         UNCHANGED <<row, age, pair, link, create, linksBy>>
  PROVE  /\ TypeOK' /\ CodesBorn' /\ LinksCounted' /\ OneWorkspacePerChat'
         /\ redeem'[q] = [redeem[q] EXCEPT !.pc = pc]
         /\ redeem'[q].pc = pc /\ redeem'[q].channel = redeem[q].channel
         /\ redeem'[q].chat = redeem[q].chat /\ redeem'[q].code = redeem[q].code
         /\ \A p \in Redeems \ {q} : redeem'[p] = redeem[p]
<1>1. /\ redeem'[q] = [redeem[q] EXCEPT !.pc = pc]
      /\ redeem'[q].pc = pc /\ redeem'[q].channel = redeem[q].channel
      /\ redeem'[q].chat = redeem[q].chat /\ redeem'[q].code = redeem[q].code
      /\ \A p \in Redeems \ {q} : redeem'[p] = redeem[p]
  BY DEF Advance, LockInv, TypeOK
<1>2. TypeOK'
  <2>1. redeem' \in [Redeems -> [pc : RedeemPCs, channel : Channels \cup {None},
                                 chat : Chats \cup {None}, code : Codes \cup {None}]]
    <3> DEFINE Calls == [pc : RedeemPCs, channel : Channels \cup {None},
                         chat : Chats \cup {None}, code : Codes \cup {None}]
    <3>1. redeem \in [Redeems -> Calls]
      BY DEF LockInv, TypeOK
    <3>2. [redeem[q] EXCEPT !.pc = pc] \in Calls
      BY <3>1
    <3>3. redeem' = [redeem EXCEPT ![q] = [redeem[q] EXCEPT !.pc = pc]]
      BY <3>1 DEF Advance
    <3> QED
      <4> HIDE DEF Calls
      <4>1. redeem' \in [Redeems -> Calls]
        BY <3>1, <3>2, <3>3
      <4> QED  BY <4>1 DEF Calls
  <2> QED  BY <2>1 DEF LockInv, TypeOK
<1>3. CodesBorn'
  <2>1. \A p \in Redeems : redeem'[p].pc # "idle" =>
           /\ redeem'[p].code \in Codes /\ row[redeem'[p].code] # "unborn"
           /\ redeem'[p].channel = pair[redeem'[p].code][2]
           /\ redeem'[p].chat \in Chats
    <3>1. \A p \in Redeems : redeem[p].pc # "idle" =>
             /\ redeem[p].code \in Codes /\ row[redeem[p].code] # "unborn"
             /\ redeem[p].channel = pair[redeem[p].code][2]
             /\ redeem[p].chat \in Chats
      BY DEF LockInv, CodesBorn, Code, Chat
    <3>2. \A p \in Redeems : /\ redeem'[p].pc # "idle" => redeem[p].pc # "idle"
                             /\ redeem'[p].code = redeem[p].code
                             /\ redeem'[p].channel = redeem[p].channel
                             /\ redeem'[p].chat = redeem[p].chat
      BY <1>1
    <3> QED  BY <3>1, <3>2
  <2> QED  BY <2>1 DEF LockInv, CodesBorn, Code, Chat
<1>4. LinksCounted' /\ OneWorkspacePerChat'
  BY DEF LockInv, LinksCounted, OneWorkspacePerChat
<1> QED  BY <1>1, <1>2, <1>3, <1>4

\* The check of `taken` locks nothing.
LEMMA CheckTakenInv ==
  ASSUME LockInv, NEW q \in Redeems, CheckTaken(q)
  PROVE  LockInv'
<1> DEFINE goes == /\ redeem[q].pc = "found"
<1>0. UNCHANGED <<row, age, pair, link, create, linksBy>>
  BY DEF CheckTaken
<1>1. End(q) \/ (goes /\ Advance(q, "free"))
  BY DEF CheckTaken
<1>2. CASE End(q)
  BY <1>0, <1>2, EndInv
<1>3. CASE goes /\ Advance(q, "free")
  <2>1. /\ TypeOK' /\ CodesBorn' /\ LinksCounted' /\ OneWorkspacePerChat'
        /\ redeem'[q].pc = "free" /\ redeem'[q].channel = redeem[q].channel
        /\ redeem'[q].chat = redeem[q].chat /\ redeem'[q].code = redeem[q].code
        /\ \A p \in Redeems \ {q} : redeem'[p] = redeem[p]
    BY <1>0, <1>3, AdvanceFacts DEF RedeemPCs
  <2>2. LocksExclusive'
    <3>1. \A p \in Redeems, c \in Codes :
            HoldsCode(p, c)' => /\ row[c] = "live"
                                /\ \A g \in Creates : c \notin create[g].doomed
      BY <1>0, <1>3, <2>1 DEF LockInv, LocksExclusive, HoldsCode, CodeLocked,
         Code
    <3>2. \A p1, p2 \in Redeems, c \in Codes :
            HoldsCode(p1, c)' /\ HoldsCode(p2, c)' => p1 = p2
      BY <1>0, <1>3, <2>1 DEF LockInv, LocksExclusive, HoldsCode, CodeLocked,
         Code
    <3>3. \A p1, p2 \in Redeems, ws \in Workspaces :
            HoldsWorkspace(p1, ws)' /\ HoldsWorkspace(p2, ws)' => p1 = p2
      BY <1>0, <1>3, <2>1
         DEF LockInv, LocksExclusive, HoldsWorkspace, WorkspaceLocked, Code,
             WorkspaceOf
    <3> QED  BY <1>0, <3>1, <3>2, <3>3 DEF LocksExclusive
  <2>3. PendingLinksFree'
    <3>1. ASSUME NEW p \in Redeems, redeem'[p].pc = "linked",
                 NEW ws \in Workspaces, link[redeem[p].channel][ws] = redeem[p].chat
          PROVE  ws = pair[redeem[p].code][1]
      BY <1>3, <2>1, <3>1
         DEF LockInv, PendingLinksFree, LinkedTo, Chat, Code, WorkspaceOf
    <3>2. ASSUME NEW p1 \in Redeems, NEW p2 \in Redeems,
                 redeem'[p1].pc = "linked", redeem'[p2].pc = "linked",
                 redeem[p1].chat = redeem[p2].chat,
                 redeem[p1].channel = redeem[p2].channel
          PROVE  p1 = p2
      BY <1>3, <2>1, <3>2 DEF LockInv, PendingLinksFree, Chat
    <3>3. \A p \in Redeems : /\ redeem'[p].code = redeem[p].code
                             /\ redeem'[p].chat = redeem[p].chat
                             /\ redeem'[p].channel = redeem[p].channel
      BY <2>1
    <3> QED
      BY <1>0, <3>1, <3>2, <3>3
         DEF PendingLinksFree, LinkedTo, Chat, Code, WorkspaceOf
  <2> QED  BY <2>1, <2>2, <2>3 DEF LockInv
<1> QED  BY <1>1, <1>2, <1>3

\* updateMany locks a live row that nobody else has locked.
LEMMA SpendCodeInv ==
  ASSUME LockInv, NEW q \in Redeems, SpendCode(q)
  PROVE  LockInv'
<1> DEFINE goes == /\ redeem[q].pc = "free" /\ ~CodeLocked(Code(q)) /\ row[Code(q)] = "live"
<1>0. UNCHANGED <<row, age, pair, link, create, linksBy>>
  BY DEF SpendCode
<1>1. End(q) \/ (goes /\ Advance(q, "spent"))
  BY DEF SpendCode
<1>2. CASE End(q)
  BY <1>0, <1>2, EndInv
<1>3. CASE goes /\ Advance(q, "spent")
  <2>1. /\ TypeOK' /\ CodesBorn' /\ LinksCounted' /\ OneWorkspacePerChat'
        /\ redeem'[q].pc = "spent" /\ redeem'[q].channel = redeem[q].channel
        /\ redeem'[q].chat = redeem[q].chat /\ redeem'[q].code = redeem[q].code
        /\ \A p \in Redeems \ {q} : redeem'[p] = redeem[p]
    BY <1>0, <1>3, AdvanceFacts DEF RedeemPCs
  <2>2. LocksExclusive'
    <3>1. \A p \in Redeems, c \in Codes :
            HoldsCode(p, c)' => /\ row[c] = "live"
                                /\ \A g \in Creates : c \notin create[g].doomed
      BY <1>0, <1>3, <2>1 DEF LockInv, LocksExclusive, HoldsCode, CodeLocked,
         Code
    <3>2. \A p1, p2 \in Redeems, c \in Codes :
            HoldsCode(p1, c)' /\ HoldsCode(p2, c)' => p1 = p2
      BY <1>0, <1>3, <2>1 DEF LockInv, LocksExclusive, HoldsCode, CodeLocked,
         Code
    <3>3. \A p1, p2 \in Redeems, ws \in Workspaces :
            HoldsWorkspace(p1, ws)' /\ HoldsWorkspace(p2, ws)' => p1 = p2
      BY <1>0, <1>3, <2>1
         DEF LockInv, LocksExclusive, HoldsWorkspace, WorkspaceLocked, Code,
             WorkspaceOf
    <3> QED  BY <1>0, <3>1, <3>2, <3>3 DEF LocksExclusive
  <2>3. PendingLinksFree'
    <3>1. ASSUME NEW p \in Redeems, redeem'[p].pc = "linked",
                 NEW ws \in Workspaces, link[redeem[p].channel][ws] = redeem[p].chat
          PROVE  ws = pair[redeem[p].code][1]
      BY <1>3, <2>1, <3>1
         DEF LockInv, PendingLinksFree, LinkedTo, Chat, Code, WorkspaceOf
    <3>2. ASSUME NEW p1 \in Redeems, NEW p2 \in Redeems,
                 redeem'[p1].pc = "linked", redeem'[p2].pc = "linked",
                 redeem[p1].chat = redeem[p2].chat,
                 redeem[p1].channel = redeem[p2].channel
          PROVE  p1 = p2
      BY <1>3, <2>1, <3>2 DEF LockInv, PendingLinksFree, Chat
    <3>3. \A p \in Redeems : /\ redeem'[p].code = redeem[p].code
                             /\ redeem'[p].chat = redeem[p].chat
                             /\ redeem'[p].channel = redeem[p].channel
      BY <2>1
    <3> QED
      BY <1>0, <3>1, <3>2, <3>3
         DEF PendingLinksFree, LinkedTo, Chat, Code, WorkspaceOf
  <2> QED  BY <2>1, <2>2, <2>3 DEF LockInv
<1> QED  BY <1>1, <1>2, <1>3

\* The update locks a workspace nobody else has locked.
LEMMA LockWorkspaceInv ==
  ASSUME LockInv, NEW q \in Redeems, LockWorkspace(q)
  PROVE  LockInv'
<1> DEFINE goes == /\ redeem[q].pc = "spent" /\ ~WorkspaceLocked(WorkspaceOf(Code(q)))
<1>0. UNCHANGED <<row, age, pair, link, create, linksBy>>
  BY DEF LockWorkspace
<1>1. End(q) \/ (goes /\ Advance(q, "locked"))
  BY DEF LockWorkspace
<1>2. CASE End(q)
  BY <1>0, <1>2, EndInv
<1>3. CASE goes /\ Advance(q, "locked")
  <2>1. /\ TypeOK' /\ CodesBorn' /\ LinksCounted' /\ OneWorkspacePerChat'
        /\ redeem'[q].pc = "locked" /\ redeem'[q].channel = redeem[q].channel
        /\ redeem'[q].chat = redeem[q].chat /\ redeem'[q].code = redeem[q].code
        /\ \A p \in Redeems \ {q} : redeem'[p] = redeem[p]
    BY <1>0, <1>3, AdvanceFacts DEF RedeemPCs
  <2>2. LocksExclusive'
    <3>1. \A p \in Redeems, c \in Codes :
            HoldsCode(p, c)' => /\ row[c] = "live"
                                /\ \A g \in Creates : c \notin create[g].doomed
      BY <1>0, <1>3, <2>1 DEF LockInv, LocksExclusive, HoldsCode, CodeLocked,
         Code
    <3>2. \A p1, p2 \in Redeems, c \in Codes :
            HoldsCode(p1, c)' /\ HoldsCode(p2, c)' => p1 = p2
      BY <1>0, <1>3, <2>1 DEF LockInv, LocksExclusive, HoldsCode, CodeLocked,
         Code
    <3>3. \A p1, p2 \in Redeems, ws \in Workspaces :
            HoldsWorkspace(p1, ws)' /\ HoldsWorkspace(p2, ws)' => p1 = p2
      BY <1>0, <1>3, <2>1
         DEF LockInv, LocksExclusive, HoldsWorkspace, WorkspaceLocked, Code,
             WorkspaceOf
    <3> QED  BY <1>0, <3>1, <3>2, <3>3 DEF LocksExclusive
  <2>3. PendingLinksFree'
    <3>1. ASSUME NEW p \in Redeems, redeem'[p].pc = "linked",
                 NEW ws \in Workspaces, link[redeem[p].channel][ws] = redeem[p].chat
          PROVE  ws = pair[redeem[p].code][1]
      BY <1>3, <2>1, <3>1
         DEF LockInv, PendingLinksFree, LinkedTo, Chat, Code, WorkspaceOf
    <3>2. ASSUME NEW p1 \in Redeems, NEW p2 \in Redeems,
                 redeem'[p1].pc = "linked", redeem'[p2].pc = "linked",
                 redeem[p1].chat = redeem[p2].chat,
                 redeem[p1].channel = redeem[p2].channel
          PROVE  p1 = p2
      BY <1>3, <2>1, <3>2 DEF LockInv, PendingLinksFree, Chat
    <3>3. \A p \in Redeems : /\ redeem'[p].code = redeem[p].code
                             /\ redeem'[p].chat = redeem[p].chat
                             /\ redeem'[p].channel = redeem[p].channel
      BY <2>1
    <3> QED
      BY <1>0, <3>1, <3>2, <3>3
         DEF PendingLinksFree, LinkedTo, Chat, Code, WorkspaceOf
  <2> QED  BY <2>1, <2>2, <2>3 DEF LockInv
<1> QED  BY <1>1, <1>2, <1>3

\* The unique index lets only a free chat through.
LEMMA SetLinkInv ==
  ASSUME LockInv, NEW q \in Redeems, SetLink(q)
  PROVE  LockInv'
<1> DEFINE goes == /\ redeem[q].pc = "locked"
                   /\ \A ws \in Workspaces \ {WorkspaceOf(Code(q))} :
                       LinkedTo(q)[ws] # Chat(q)
                   /\ \A p \in Redeems \ {q} :
                       ~(/\ redeem[p].pc = "linked"
                         /\ redeem[p].channel = redeem[q].channel
                         /\ redeem[p].chat = Chat(q))
<1>0. UNCHANGED <<row, age, pair, link, create, linksBy>>
  BY DEF SetLink
<1>1. End(q) \/ (goes /\ Advance(q, "linked"))
  BY DEF SetLink, LinkedTo, WorkspaceOf, Chat
<1>2. CASE End(q)
  BY <1>0, <1>2, EndInv
<1>3. CASE goes /\ Advance(q, "linked")
  <2>1. /\ TypeOK' /\ CodesBorn' /\ LinksCounted' /\ OneWorkspacePerChat'
        /\ redeem'[q].pc = "linked" /\ redeem'[q].channel = redeem[q].channel
        /\ redeem'[q].chat = redeem[q].chat /\ redeem'[q].code = redeem[q].code
        /\ \A p \in Redeems \ {q} : redeem'[p] = redeem[p]
    BY <1>0, <1>3, AdvanceFacts DEF RedeemPCs
  <2>2. LocksExclusive'
    <3>1. \A p \in Redeems, c \in Codes :
            HoldsCode(p, c)' => /\ row[c] = "live"
                                /\ \A g \in Creates : c \notin create[g].doomed
      BY <1>0, <1>3, <2>1 DEF LockInv, LocksExclusive, HoldsCode, CodeLocked,
         Code
    <3>2. \A p1, p2 \in Redeems, c \in Codes :
            HoldsCode(p1, c)' /\ HoldsCode(p2, c)' => p1 = p2
      BY <1>0, <1>3, <2>1 DEF LockInv, LocksExclusive, HoldsCode, CodeLocked,
         Code
    <3>3. \A p1, p2 \in Redeems, ws \in Workspaces :
            HoldsWorkspace(p1, ws)' /\ HoldsWorkspace(p2, ws)' => p1 = p2
      BY <1>0, <1>3, <2>1
         DEF LockInv, LocksExclusive, HoldsWorkspace, WorkspaceLocked, Code,
             WorkspaceOf
    <3> QED  BY <1>0, <3>1, <3>2, <3>3 DEF LocksExclusive
  <2>3. PendingLinksFree'
    <3>1. ASSUME NEW p \in Redeems, redeem'[p].pc = "linked",
                 NEW ws \in Workspaces, link[redeem[p].channel][ws] = redeem[p].chat
          PROVE  ws = pair[redeem[p].code][1]
      BY <1>3, <2>1, <3>1
         DEF LockInv, PendingLinksFree, LinkedTo, Chat, Code, WorkspaceOf
    <3>2. ASSUME NEW p1 \in Redeems, NEW p2 \in Redeems,
                 redeem'[p1].pc = "linked", redeem'[p2].pc = "linked",
                 redeem[p1].chat = redeem[p2].chat,
                 redeem[p1].channel = redeem[p2].channel
          PROVE  p1 = p2
      BY <1>3, <2>1, <3>2 DEF LockInv, PendingLinksFree, Chat
    <3>3. \A p \in Redeems : /\ redeem'[p].code = redeem[p].code
                             /\ redeem'[p].chat = redeem[p].chat
                             /\ redeem'[p].channel = redeem[p].channel
      BY <2>1
    <3> QED
      BY <1>0, <3>1, <3>2, <3>3
         DEF PendingLinksFree, LinkedTo, Chat, Code, WorkspaceOf
  <2> QED  BY <2>1, <2>2, <2>3 DEF LockInv
<1> QED  BY <1>1, <1>2, <1>3

\* A redeem that is rolled back.
LEMMA RedeemAbortsInv ==
  ASSUME LockInv, NEW q \in Redeems, RedeemAborts(q)
  PROVE  LockInv'
  BY EndInv DEF RedeemAborts

\* TypeOK and LockInv hold in every state, for any number of workspaces,
\* chats, codes and concurrent calls (channel-link.service.ts, createCode and redeem).
THEOREM LocksHold == Spec => []LockInv
<1>1. LockInv /\ [Next]_vars => LockInv'
  <2> SUFFICES ASSUME LockInv, [Next]_vars PROVE LockInv'
    OBVIOUS
  <2>1. CASE UNCHANGED vars
    BY <2>1 DEF vars, LockInv, TypeOK, CodesBorn, LinksCounted, LocksExclusive,
       PendingLinksFree, OneWorkspacePerChat, HoldsCode, HoldsWorkspace, Code,
       Chat, WorkspaceOf, LinkedTo
  <2>2. ASSUME NEW c \in Codes, TimePasses(c) PROVE LockInv'
    BY <2>2, TimePassesInv
  <2>3. ASSUME NEW g \in Creates, CreateCode(g) \/ CreateAborts(g) PROVE LockInv'
    BY <2>3, CreateCodeInv, CreateAbortsInv
  <2>4. ASSUME NEW g \in Creates, NEW p \in Pairs, DeleteSuperseded(g, p) PROVE LockInv'
    BY <2>4, DeleteSupersededInv
  <2>5. ASSUME NEW q \in Redeems, RedeemStep(q) \/ RedeemAborts(q) PROVE LockInv'
    BY <2>5, CheckTakenInv, SpendCodeInv, LockWorkspaceInv, SetLinkInv,
       CommitRedeemInv, RedeemAbortsInv DEF RedeemStep
  <2>6. ASSUME NEW q \in Redeems, NEW ch \in Channels, NEW chat \in Chats,
               NEW c \in Codes, FindCode(q, ch, chat, c)
        PROVE LockInv'
    BY <2>6, FindCodeInv
  <2>7. ASSUME NEW ws \in Workspaces, NEW ch \in Channels, Unlink(ws, ch)
        PROVE LockInv'
    BY <2>7, UnlinkInv
  <2> QED  BY <2>1, <2>2, <2>3, <2>4, <2>5, <2>6, <2>7 DEF Next
<1> QED  BY InitInv, <1>1, PTL DEF Spec

\* A LINE user or Telegram chat is linked to at most one workspace, whatever
\* redeems and unlinks run at once (redeem's P2002 branch).
THEOREM ChatsHaveOneWorkspace == Spec => []OneWorkspacePerChat
<1>1. LockInv => OneWorkspacePerChat  BY DEF LockInv
<1> QED  BY <1>1, LocksHold, PTL

\* A code links at most one chat and is used only if it linked one (the
\* updateMany on usedAt: null).
THEOREM CodesLinkOnce == Spec => []CodeLinksOnce
<1>1. LockInv => CodeLinksOnce
  BY DEF LockInv, LinksCounted, CodeLinksOnce
<1> QED  BY <1>1, LocksHold, PTL

\* A link is made only by spending a live code of that workspace and channel.
THEOREM LinksSpendTheirCode == Spec => LinkSpendsItsCode
<1> DEFINE Spends ==
      \A ch \in Channels, ws \in Workspaces :
        link'[ch][ws] \notin {link[ch][ws], None} =>
          \E c \in Codes : pair[c] = <<ws, ch>> /\ row[c] = "live" /\ row'[c] = "used"
<1>1. LockInv /\ [Next]_vars => [Spends]_vars
  <2> SUFFICES ASSUME LockInv, Next,
                      NEW ch \in Channels, NEW ws \in Workspaces,
                      link'[ch][ws] # link[ch][ws], link'[ch][ws] # None
               PROVE  \E c \in Codes : /\ pair[c] = <<ws, ch>>
                                       /\ row[c] = "live" /\ row'[c] = "used"
    OBVIOUS
  <2>1. PICK q \in Redeems : CommitRedeem(q)
    <3>1. ~ UNCHANGED link
      OBVIOUS
    <3>2. ASSUME NEW v \in Workspaces, NEW d \in Channels, Unlink(v, d) PROVE FALSE
      BY <3>2 DEF Unlink, LockInv, TypeOK
    <3> QED
      BY <3>1, <3>2 DEF Next, TimePasses, CreateCode, CreateAborts,
         DeleteSuperseded,
         RedeemStep, CheckTaken, SpendCode, LockWorkspace, SetLink, RedeemAborts, FindCode
  <2>2. /\ Code(q) \in Codes /\ pair[Code(q)] \in Pairs
        /\ redeem[q].channel = pair[Code(q)][2]
        /\ row[Code(q)] = "live" /\ row'[Code(q)] = "used"
    <3>1. redeem[q].pc = "linked"  BY <2>1 DEF CommitRedeem
    <3>2. /\ Code(q) \in Codes /\ pair[Code(q)] \in Pairs
          /\ redeem[q].channel = pair[Code(q)][2]
      BY <3>1 DEF LockInv, CodesBorn
    <3>3. HoldsCode(q, Code(q))  BY <3>1 DEF HoldsCode, Code
    <3>4. row[Code(q)] = "live"
      BY <3>2, <3>3 DEF LockInv, LocksExclusive
    <3>5. row'[Code(q)] = "used"
      BY <2>1, <3>2 DEF CommitRedeem, LockInv, TypeOK
    <3> QED  BY <3>2, <3>4, <3>5
  <2>3. ws = pair[Code(q)][1] /\ ch = pair[Code(q)][2]
    BY <2>1, <2>2 DEF CommitRedeem, LockInv, TypeOK, WorkspaceOf
  <2> QED  BY <2>2, <2>3 DEF Pairs
<1> QED  BY <1>1, LocksHold, PTL DEF Spec, LinkSpendsItsCode

\* If createCode calls do not overlap, a workspace and channel have at most
\* one usable code (the deleteMany in createCode).
THEOREM OneDashboardOneCode ==
  ASSUME \A g, h \in Creates : g = h
  PROVE  Spec => []OneUsableCode
<1>1. Init => CreatesAlone
  BY DEF Init, CreatesAlone
<1>2. LockInv /\ CreatesAlone /\ [Next]_vars => CreatesAlone'
  <2> SUFFICES ASSUME LockInv, CreatesAlone, [Next]_vars
               PROVE  CreatesAlone'
    OBVIOUS
  <2>1. CASE UNCHANGED <<row, pair, create>>
    BY <2>1 DEF CreatesAlone
  <2>2. ASSUME NEW g \in Creates, NEW p \in Pairs, DeleteSuperseded(g, p)
        PROVE  CreatesAlone'
    BY <2>2 DEF DeleteSuperseded, Superseded, Exists, CreatesAlone, LockInv,
       TypeOK
  <2>3. ASSUME NEW g \in Creates, CreateCode(g) PROVE CreatesAlone'
    <3>1. PICK new \in Codes :
            /\ row[new] = "unborn"
            /\ row' = [c \in Codes |-> IF c = new THEN "live"
                                       ELSE IF c \in create[g].doomed THEN "gone"
                                       ELSE row[c]]
            /\ pair' = [pair EXCEPT ![new] = create[g].pair]
      BY <2>3 DEF CreateCode
    <3>2. \A c \in Codes : row'[c] = "live" /\ c # new =>
            /\ row[c] = "live" /\ pair'[c] = pair[c] /\ pair[c] # create[g].pair
      BY <2>3, <3>1 DEF CreateCode, CreatesAlone, LockInv, TypeOK
    <3>3. pair'[new] = create[g].pair
      BY <3>1 DEF LockInv, TypeOK
    <3>4. \A h \in Creates : create'[h].pc = "idle"
      BY <2>3 DEF CreateCode, IdleCreate, LockInv, TypeOK
    <3> QED  BY <3>2, <3>3, <3>4 DEF CreatesAlone
  <2>4. ASSUME NEW g \in Creates, CreateAborts(g) PROVE CreatesAlone'
    BY <2>4 DEF CreateAborts, IdleCreate, CreatesAlone, LockInv, TypeOK
  <2>5. ASSUME NEW q \in Redeems, CommitRedeem(q) PROVE CreatesAlone'
    BY <2>5 DEF CommitRedeem, CreatesAlone, LockInv, TypeOK
  <2> QED
    BY <2>1, <2>2, <2>3, <2>4, <2>5
       DEF Next, vars, TimePasses, RedeemStep, CheckTaken, SpendCode, LockWorkspace,
           SetLink, RedeemAborts, FindCode, Unlink
<1>3. CreatesAlone => OneUsableCode
  BY DEF CreatesAlone, OneUsableCode, Usable
<1> QED  BY <1>1, <1>2, <1>3, LocksHold, PTL DEF Spec

===============================================================================
