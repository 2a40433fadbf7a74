SPECIFICATION Spec
CONSTANTS
  Receipts = {r1}
  Workers = {w1}
  None = None
  MaxAttempts = 3
  MaxStalled = 1
  Faults = {"crash"}
  Clients = {"dashboard"}
INVARIANTS OneReceiptItemPerLineItem
