CONSTANTS
  Proc = {p1, p2}
  Server = {p1}
  Keys = 2
  MaxPlace = 2
  MaxFaults = 1
SPECIFICATION Spec
INVARIANTS KeysHaveRecords NoLockLeft
PROPERTIES ReadsTheKey NoUpdateLost
