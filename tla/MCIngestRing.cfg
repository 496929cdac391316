CONSTANTS
  Writers = {w1}
  Readers = {r1}
  MaxRows = 2
  PrintOf <- Distinct
  FlushBatch = 2
  SubBuf = 1
  Window = 2
  LiveWindow = 1
  InsertTime = 1
  BackfillTime = 1
SPECIFICATION FairSpec
INVARIANTS
  ReadableSomewhere
  NoSendOnClosed
  
PROPERTIES
  RowsSettle
