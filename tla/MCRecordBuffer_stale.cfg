CONSTANTS
  Value = {a}
  RecSize = 1
  Bsiz = 3
  MaxLen = 7
  MaxParLen = 4
  MaxFailLen = 7
  Failures = 1
SPECIFICATION BufferSpec
INVARIANTS BufferStaysFile
CHECK_DEADLOCK FALSE
