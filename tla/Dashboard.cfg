SPECIFICATION FairSpec
CONSTANTS
  Workspaces = {ws1, ws2}
  Receipts = {r1}
  None = None
  ws1 = ws1
  HomeOf <- MCHomeOf
  ThisMonth <- MCThisMonth
  OldestMonth <- MCOldestMonth
  Calls = {c1, c2}
INVARIANTS CodeOfSelected SummaryOfHeading
PROPERTIES ViewSettles 
