CONSTANTS
  u1 = u1
  u2 = u2
  Uploads <- Uploads1
  Size <- Chunks2
  Reencodes = {r1}
  Clean = clean
  Found = found
  None = none
  Capacity = 1
  MaxCrashes = 2
  MaxRequests = 3
SPECIFICATION FairSpec
INVARIANTS
  NoLostJob
  InputWhole
  EncodedOnce
PROPERTIES
  DeletedStays
  QueuedRuns
CHECK_DEADLOCK FALSE
