SPECIFICATION Spec
CONSTANTS
  Workspaces = {ws1, ws2}
  Channels = {LINE, TELEGRAM}
  Chats = {u1, u2}
  Codes = {c1, c2}
  Redeems = {q1, q2}
  Creates = {g1}
  None = None
INVARIANTS LockInv OneWorkspacePerChat CodeLinksOnce OneUsableCode
PROPERTIES LinkSpendsItsCode
SYMMETRY Symmetry
