SPECIFICATION MCSpec
CONSTANTS
  None = None
  Processes = {api, w1, w2}
  Strict = TRUE
  Forms = {s1, s2, s3, s4}
  Receipts = {r1, r2, r3}
  NewReceipt = r3
  Requests = {q}
  Jobs = {j1, j2}
  Conns = {a1, b1, b2}
  MaxTries = 2
  s1 = s1 s2 = s2 s3 = s3 s4 = s4
  r1 = r1 r2 = r2 r3 = r3
  j1 = j1 j2 = j2
  Api = api
  api = api w1 = w1 w2 = w2
  a1 = a1 b1 = b1 b2 = b2
  EmailOf <- MCEmailOf
  PasswordOf <- MCPasswordOf
  HomeOf <- MCHomeOf
  ReceiptOf <- MCReceiptOf
  NamesOf <- MCNamesOf
  ProcessOf <- MCProcessOf
  PoolOf <- MCPoolOf
INVARIANTS ReadsStayHome IdleClean ApplyIsWhole OneAccountPerEmail
PROPERTIES WritesStayHome RaceIsHarmless AppliesEnd
