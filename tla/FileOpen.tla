----------------------------- MODULE FileOpen -----------------------------
(***************************************************************************)
(* Several processes open one file (fioopen, fioxop and fioaopen of the    *)
(* Unix build, with FIO_FLAG_EXCLOPENLOCK, which is the default): every    *)
(* open takes a lock on the byte at excloffset, and each system call is a  *)
(* step between which the others run.                                      *)
(***************************************************************************)
EXTENDS Naturals

CONSTANTS
  Proc,   \* processes
  Modes,  \* the modes that programs open the file with
  Nobody  \* no process

\* The modes that behave alike: SHR also stands for SRO and SRA, EXC for MXC
\* and PRP for MTC.
FioModes == {"SHR", "ERO", "EXC", "PRP", "EFC"}
ASSUME FileOpenAssumption == Modes \subseteq FioModes /\ Nobody \notin Proc

VARIABLES
  exists,  \* the file exists
  data,    \* who wrote what is in the file, Nobody if it is empty
  lock,    \* lock[p]: the lock of p on the byte: "none", "read", "write"
  mode,    \* mode[p]: the mode p opens the file with
  type,    \* type[p]: the parameter type of fioaopen, 0, 1 (create), 2 (reopen)
  stage    \* stage[p]: where p is in fioaopen, see Stage

ovars == <<exists, data, lock, mode, type, stage>>

\* closed: not open; opening: before open(); locking: before fioalock();
\* probed: open only to see whether it can be; open; tempclosed: by fioclru.
Stage == {"closed", "opening", "locking", "probed", "open", "tempclosed"}

Exclusive == {"EXC", "PRP", "EFC"}
\* Mutant of LockKind: a prepared file is locked like a shared one.
LockKindPrepare(m) == IF m = "EXC" THEN "write" ELSE "read"
LockKind(m) == IF m \in Exclusive THEN "write" ELSE "read"
CanLock(p, kind) == \A q \in Proc \ {p} :
  lock[q] = "none" \/ (kind = "read" /\ lock[q] = "read")

Goto(p, s) == stage' = [stage EXCEPT ![p] = s]
\* What an open that fails leaves: a file that was open stays closed for now.
Failed(p) == Goto(p, IF type[p] = 2 THEN "tempclosed" ELSE "closed")

\* An open of type 0 for PRP and EFC only finds out that the file exists and
\* that nobody has it open.
Probes(p) == type[p] = 0 /\ mode[p] \in {"PRP", "EFC"}

\* fioopen tries to open first and creates only a file that is not found.
Fioopen(p) == \E m \in Modes :
  /\ stage[p] = "closed"
  /\ mode' = [mode EXCEPT ![p] = m]
  /\ type' = [type EXCEPT ![p] = 0]
  /\ Goto(p, "opening")
  /\ UNCHANGED <<exists, data, lock>>

OpenExisting(p) ==
  /\ stage[p] = "opening" /\ type[p] # 1
  /\ exists
  /\ Goto(p, "locking")
  /\ UNCHANGED <<exists, data, lock, mode, type>>

NotFound(p) ==
  /\ stage[p] = "opening" /\ type[p] # 1
  /\ ~exists
  /\ IF Probes(p)
     THEN type' = [type EXCEPT ![p] = 1] /\ UNCHANGED stage
     ELSE Failed(p) /\ UNCHANGED type
  /\ UNCHANGED <<exists, data, lock, mode>>

\* Mutant of Create: EFC truncates like PRP.
CreateAlways(p) ==
  /\ stage[p] = "opening" /\ type[p] = 1
  /\ exists' = TRUE
  /\ data' = Nobody
  /\ Goto(p, "locking")
  /\ UNCHANGED <<lock, mode, type>>

\* O_CREAT with O_TRUNC, or with O_EXCL: before the lock is asked for.
Create(p) ==
  /\ stage[p] = "opening" /\ type[p] = 1
  /\ mode[p] = "EFC" => ~exists
  /\ exists' = TRUE
  /\ data' = Nobody
  /\ Goto(p, "locking")
  /\ UNCHANGED <<lock, mode, type>>

CreateRefused(p) ==
  /\ stage[p] = "opening" /\ type[p] = 1
  /\ mode[p] = "EFC" /\ exists
  /\ Failed(p)
  /\ UNCHANGED <<exists, data, lock, mode, type>>

Locked(p) ==
  /\ stage[p] = "locking"
  /\ CanLock(p, LockKind(mode[p]))
  /\ lock' = [lock EXCEPT ![p] = LockKind(mode[p])]
  /\ Goto(p, IF Probes(p) THEN "probed" ELSE "open")
  /\ UNCHANGED <<exists, data, mode, type>>

LockRefused(p) ==
  /\ stage[p] = "locking"
  /\ ~CanLock(p, LockKind(mode[p]))
  /\ Failed(p)
  /\ UNCHANGED <<exists, data, lock, mode, type>>

\* The probe unlocks and closes the file; then PRP opens it again to truncate
\* it, and EFC fails because it exists.
ProbeEnds(p) ==
  /\ stage[p] = "probed"
  /\ lock' = [lock EXCEPT ![p] = "none"]
  /\ IF mode[p] = "PRP" THEN type' = [type EXCEPT ![p] = 1] /\ Goto(p, "opening")
                        ELSE Goto(p, "closed") /\ UNCHANGED type
  /\ UNCHANGED <<exists, data, mode>>

\* The program writes to the file.
Write(p) ==
  /\ stage[p] = "open" /\ mode[p] # "ERO"
  /\ data' = p
  /\ UNCHANGED <<exists, lock, mode, type, stage>>

\* fioclose, or the death of the process at any point.
Close(p) ==
  /\ stage[p] # "closed"
  /\ lock' = [lock EXCEPT ![p] = "none"]
  /\ Goto(p, "closed")
  /\ UNCHANGED <<exists, data, mode, type>>

\* fioclru closes a file, a shared one to stay below openlimit, one of any mode
\* when its flush fails; fiotouch reopens it.
TempClose(p) ==
  /\ stage[p] = "open"
  /\ lock' = [lock EXCEPT ![p] = "none"]
  /\ Goto(p, "tempclosed")
  /\ UNCHANGED <<exists, data, mode, type>>

\* Mutant of Fiotouch: the reopen does not ask for the lock.
FiotouchUnlocked(p) ==
  /\ stage[p] = "tempclosed"
  /\ exists
  /\ Goto(p, "open")
  /\ UNCHANGED <<exists, data, lock, mode, type>>

Fiotouch(p) ==
  /\ stage[p] = "tempclosed"
  /\ type' = [type EXCEPT ![p] = 2]
  /\ Goto(p, "opening")
  /\ UNCHANGED <<exists, data, lock, mode>>

OpenInit ==
  /\ exists \in BOOLEAN
  /\ data = Nobody
  /\ lock = [p \in Proc |-> "none"]
  /\ mode = [p \in Proc |-> "SHR"]
  /\ type = [p \in Proc |-> 0]
  /\ stage = [p \in Proc |-> "closed"]

OpenStep(p) ==
  \/ Fioopen(p) \/ OpenExisting(p) \/ NotFound(p) \/ Create(p) \/ CreateRefused(p)
  \/ Locked(p) \/ LockRefused(p) \/ ProbeEnds(p) \/ Write(p) \/ Close(p)
  \/ TempClose(p) \/ Fiotouch(p)

OpenNext == \E p \in Proc : OpenStep(p)

OpenSpec == OpenInit /\ [][OpenNext]_ovars

-----------------------------------------------------------------------------
OpenTypeOK ==
  /\ exists \in BOOLEAN
  /\ data \in Proc \cup {Nobody}
  /\ lock \in [Proc -> {"none", "read", "write"}]
  /\ mode \in [Proc -> FioModes]
  /\ type \in [Proc -> 0 .. 2]
  /\ stage \in [Proc -> Stage]

Opened(p) == stage[p] = "open"

\* What keeps ExclusiveIsAlone: the kernel gives no lock beside one for writing,
\* and who has the file open, or probes it, has the lock of its mode.
LocksExclude == \A p, q \in Proc : p # q /\ lock[p] = "write" => lock[q] = "none"
OpenIsLocked == \A p \in Proc : stage[p] \in {"probed", "open"} => lock[p] = LockKind(mode[p])
OpenInv == OpenTypeOK /\ LocksExclude /\ OpenIsLocked

\* A process that has the file open for exclusive writing is the only one
\* that has it open, whatever opens, probes, reopens and deaths went before
\* (fioaopen 149-174, fioaclose 252-262).
ExclusiveIsAlone == \A p \in Proc : Opened(p) /\ mode[p] \in Exclusive =>
  \A q \in Proc \ {p} : ~Opened(q)

\* While a process has the file open for exclusive writing, nobody else changes
\* what is in it, but for the truncation of a prepare, which gives the lock of
\* its probe back and comes before the next one: a process that opened the file
\* in between loses its data, although the prepare is refused (fioaopen 106-121,
\* 151-177).
Keeps(p) == Opened(p) /\ Opened(p)' /\ mode[p] \in Exclusive => data' \in {data, p}
OnlyPrepareIntrudes ==
  [][(\A p \in Proc : Keeps(p)) \/ \E q \in Proc : mode[q] = "PRP" /\ Create(q)]_ovars
=============================================================================
