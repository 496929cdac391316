CONSTANTS
  Clients = {c1, c2}
  MaxFrames = 2
  Buffer = 1
  MaxSeq = 3
  MaxRestarts = 1
SPECIFICATION FairSpec
INVARIANTS
  HolesExplained
  ToldMissing
  NeverBlocks
PROPERTIES
  InOrder
  NewestArrives
CHECK_DEADLOCK FALSE
