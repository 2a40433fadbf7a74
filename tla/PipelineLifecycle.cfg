SPECIFICATION BackupSpec
CONSTANTS
  Receipts = {r1, r2}
  Workers = {w1, w2}
  None = None
  MaxAttempts = 3
  MaxStalled = 1
  Faults = {"intake", "dbDown"}
  Clients = {"dashboard"}
INVARIANTS ConfirmedAsShown RestorableBackup
PROPERTIES FollowsLifecycle
SYMMETRY Symmetry
\* If every upload fails before its row is there, nothing is left to do.
CHECK_DEADLOCK FALSE
