SPECIFICATION FairSpec
CONSTANTS
  Receipts = {r1}
  Workers = {w1, w2}
  None = None
  MaxAttempts = 3
  MaxStalled = 1
  Faults = {"intake", "crash", "lockLoss", "dbDown", "lostAck"}
  Clients = {"dashboard", "api"}
INVARIANTS TypeOK CreditInv DuplicatesAccounted CostCapped
PROPERTIES EnqueuedSettles
\* If every upload fails before its row is there, nothing is left to do.
CHECK_DEADLOCK FALSE
