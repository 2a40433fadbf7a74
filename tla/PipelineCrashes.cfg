SPECIFICATION FairSpec
CONSTANTS
  Receipts = {r1, r2}
  Workers = {w1}
  None = None
  MaxAttempts = 2
  MaxStalled = 1
  Faults = {"crash"}
  Clients = {"dashboard"}
INVARIANTS CountedIsRead CompletedIsCounted ExhaustedIsReported
PROPERTIES UploadSettles
