CONSTANTS
  Value = {a, b}
  RecSize = 2
  MaxLen = 10
  MaxParLen = 7
SPECIFICATION RecordSpec
INVARIANTS WholeFile
PROPERTIES ReadsSucceed BackIsForward PartsMakeRecord
