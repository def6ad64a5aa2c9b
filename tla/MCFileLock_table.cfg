\* Two processes, one file for writing or reading through two handles each;
\* writers take semaphores for file locks.
CONSTANTS
  Proc = {p1, p2}
  File = {1}
  Handle = {1, 2}
  Pos = {1, 2}
  OpenMode = {"SHR", "SRA", "EXC"}
  Calls = {"fiolock", "fioflck", "fiolckpos", "fiotstpos", "close", "fioclru", "rollout", "flush", "crash"}
  SemLock = TRUE
  FileWait = "timed"
  RecWait = "forever"
  OpenLimit = 1
SPECIFICATION Spec
SYMMETRY Processes
INVARIANTS TypeOK TableAgrees RecordOwner FileExclusion RecordExclusion SemaphoreCount
PROPERTIES IsLockManager
