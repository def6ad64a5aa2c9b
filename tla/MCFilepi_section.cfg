\* Filepi sections of programs that also lock files outside of the list.
CONSTANTS
  Proc = {p1, p2}
  File = {1, 2}
  Handle = {1, 2}
  Pos = {}
  OpenMode = {"SHR"}
  Calls = {"fiolock", "fioflck", "close"}
  SemLock = FALSE
  FileWait = "timed"
  RecWait = "forever"
  OpenLimit = 1
  MaxCount = 2
  ResetFpi = TRUE
  Traps = TRUE
  Disciplined = FALSE
SPECIFICATION FilepiSpec
SYMMETRY Processes
INVARIANTS SectionHasLocks SectionIsCounted
PROPERTIES FilepiAllOrNothing IsLockManager
