CONSTANTS
  Value = {a, b}
  RecSize = 1
  Bsiz = 3
  MaxLen = 7
  MaxParLen = 4
  MaxFailLen = 5
  Failures = 1
SPECIFICATION FairBufferSpec
INVARIANTS BufferIsFile WriteBufferInBounds FsizIsSize
PROPERTIES ImplementsRecordFile LossIsReported CallsReturn
CHECK_DEADLOCK FALSE
