\* Two programs that wait without limit for lists of two files.
CONSTANTS
  Proc = {p1, p2}
  File = {1, 2}
  Handle = {1, 2}
  Pos = {}
  OpenMode = {"SHR"}
  Calls = {"fiolock", "fioflck"}
  SemLock = TRUE
  FileWait = "forever"
  RecWait = "forever"
  OpenLimit = 2
  MaxCount = 2
  ResetFpi = FALSE
  Traps = FALSE
  Disciplined = TRUE
SPECIFICATION FilepiFair
INVARIANTS NoDeadlock
PROPERTIES FilepiReturns IoReturns
