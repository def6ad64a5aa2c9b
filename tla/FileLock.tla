------------------------------ MODULE FileLock ------------------------------
(***************************************************************************)
(* File and record locks of the file layer (common/support/fio.c) over the *)
(* locks of the operating system (fioalock in fioaunx.c).                  *)
(*                                                                         *)
(* Every process keeps a table of file handles (ftab) that point at one    *)
(* structure per file (htab): its open mode, whether the operating system  *)
(* handle is really open, the file lock flags and the list of record       *)
(* locks.  The locks themselves live in the kernel: bytes of the file      *)
(* locked with fcntl or, with SEMLOCK, a semaphore for the file lock of a  *)
(* writer.  A call that waits for a lock is a call, some grants and a      *)
(* return; everything a process does between two waits is one step.        *)
(***************************************************************************)
EXTENDS Naturals, FiniteSets

CONSTANTS
  Proc,       \* processes that share the files
  File,       \* files, numbered in the strcmp order of their names
  Handle,     \* slots of ftab, 1 .. the largest in use
  Pos,        \* record positions
  OpenMode,   \* open modes the programs use
  Calls,      \* the fio calls the programs use
  SemLock,    \* FIO_FLAG_SEMLOCK: file locks of mode SHR are semaphores
  FileWait,   \* filetimeout: "forever", "timed" or "none"
  RecWait,    \* rectimeout
  OpenLimit   \* openlimit

Mode == {"SRO", "SRA", "SHR", "EXC"}  \* EXC stands for every mode above SHR
WaitKind == {"forever", "timed", "none"}

ASSUME FileLockAssumption ==
  /\ File \subseteq Nat \ {0}
  /\ Pos \subseteq Nat \ {0}
  /\ Handle \subseteq Nat \ {0}
  /\ OpenMode \subseteq Mode
  /\ SemLock \in BOOLEAN
  /\ FileWait \in WaitKind
  /\ RecWait \in WaitKind
  /\ OpenLimit \in Nat \ {0}

VARIABLES
  ftab,    \* ftab[p][n]: the file of handle n, or NULL
  mode,    \* mode[p][f]: h->mode, or "none" when f has no htab
  hopen,   \* hopen[p]: the files with h->hndl # -1
  lckflg,  \* lckflg[p][f]: h->lckflg, a set of FIOX_LLK and FIOX_HLK
  plist,   \* plist[p]: every ptab entry, as <<file, pos, filenum>>
  oslk,    \* oslk[p][<<f, b>>]: what the kernel holds for p on byte b of f
  sem,     \* sem[f]: value of the semaphore of f
  call     \* call[p]: the lock call p is in

vars == <<ftab, mode, hopen, lckflg, plist, oslk, sem, call>>
table == <<ftab, mode>>

NULL == 0
FLLCK == 0  \* the byte of the file lock (fileoffset); the others are records
Byte == Pos \cup {FLLCK}
Ranges == File \X Byte
LockFlag == {"LLK", "HLK"}
LockKind == {"none", "rd", "wr", "sem"}
Op == {"idle", "fiolock", "fioflck", "fiolckpos", "fiotstpos"}
Idle == [op |-> "idle", fns |-> {}, pos |-> FLLCK]

(***************************************************************************)
(* The kernel.                                                             *)
(***************************************************************************)
UsesSem(p, f, b) == SemLock /\ b = FLLCK /\ mode[p][f] = "SHR"

\* The lock fioalock asks for: a semaphore, or fcntl's F_WRLCK for mode SHR
\* and F_RDLCK for SRA and SRO.
KindOf(p, f, b) ==
  IF UsesSem(p, f, b) THEN "sem" ELSE IF mode[p][f] = "SHR" THEN "wr" ELSE "rd"

Holders(f, b, K) == {q \in Proc : oslk[q][<<f, b>>] \in K}

\* Who keeps p from locking byte b of f: fcntl looks only at fcntl locks.
Blockers(p, f, b) ==
  CASE KindOf(p, f, b) = "sem" -> Holders(f, b, {"sem"}) \ {p}
    [] KindOf(p, f, b) = "wr"  -> Holders(f, b, {"rd", "wr"}) \ {p}
    [] OTHER                   -> Holders(f, b, {"wr"}) \ {p}

CanLock(p, f, b) ==
  IF UsesSem(p, f, b) THEN sem[f] > 0 ELSE Blockers(p, f, b) = {}

\* What the kernel holds for p after an unlock of the bytes B and a close of
\* the files F: a close drops every fcntl lock p has on the file.
LocksWithout(p, B, F) ==
  [x \in Ranges |-> IF x \in B \/ (x[1] \in F /\ oslk[p][x] # "sem")
                   THEN "none" ELSE oslk[p][x]]

Release(p, B, F) ==
  /\ oslk' = [oslk EXCEPT ![p] = LocksWithout(p, B, F)]
  /\ sem' = [f \in File |-> IF <<f, FLLCK>> \in B /\ UsesSem(p, f, FLLCK)
                            THEN sem[f] + 1 ELSE sem[f]]

AcquireAlways(p, f, b, V) ==  \* mutant: the answer of the kernel is ignored
  /\ oslk' = [oslk EXCEPT ![p] =
                [LocksWithout(p, {}, V) EXCEPT ![<<f, b>>] = KindOf(p, f, b)]]
  /\ sem' = [sem EXCEPT ![f] = IF UsesSem(p, f, b) THEN @ - 1 ELSE @]

\* fioalock grants the lock after fiotouch closed the files V.
Acquire(p, f, b, V) ==
  /\ CanLock(p, f, b)
  /\ oslk' = [oslk EXCEPT ![p] =
                [LocksWithout(p, {}, V) EXCEPT ![<<f, b>>] = KindOf(p, f, b)]]
  /\ sem' = [sem EXCEPT ![f] = IF UsesSem(p, f, b) THEN @ - 1 ELSE @]

(***************************************************************************)
(* The handle table.                                                       *)
(***************************************************************************)
Shared(p, f) == mode[p][f] \in {"SRO", "SRA", "SHR"}
RecordLocks(p, f) == {e \in plist[p] : e[1] = f}
RecordBytes(E) == {<<e[1], e[2]>> : e \in E}

EvictableLocked(p) ==  \* mutant: lckflg is not looked at
  {f \in hopen[p] : Shared(p, f) /\ RecordLocks(p, f) = {}}

\* The files fioclru(0) may close: shared, open and without any lock.
Evictable(p) ==
  {f \in hopen[p] : Shared(p, f) /\ lckflg[p][f] = {} /\ RecordLocks(p, f) = {}}

\* The closes made to stay below openlimit, and for EMFILE.  The order of
\* last use is not kept here: any unlocked shared file may be the victim.
Evicts(p, V) ==
  /\ V \subseteq Evictable(p)
  /\ V = Evictable(p) \/ Cardinality(hopen[p] \ V) < OpenLimit

\* fiotouch of f: nothing when it is open, a reopen after some closes if not.
Touch(p, f, V) == IF f \in hopen[p] THEN V = {} ELSE Evicts(p, V)

FirstFree(p, n) ==
  ftab[p][n] = NULL /\ \A k \in Handle : k < n => ftab[p][k] # NULL

Open(p, n, f, m) ==
  /\ call[p] = Idle
  /\ FirstFree(p, n)
  /\ mode[p][f] = "none" \/ (m = mode[p][f] /\ Shared(p, f))
  /\ \E V \in SUBSET hopen[p] :
       /\ Evicts(p, V)
       /\ hopen' = [hopen EXCEPT ![p] =
                      (@ \ V) \cup IF mode[p][f] = "none" THEN {f} ELSE {}]
       /\ Release(p, {}, V)
  /\ mode' = [mode EXCEPT ![p][f] = m]
  /\ ftab' = [ftab EXCEPT ![p][n] = f]
  /\ UNCHANGED <<lckflg, plist, call>>

HandleLocksNone(p, n) == {}  \* mutant: fioulkpos finds nothing

\* The record locks that were taken through handle n.
HandleLocks(p, n) == {e \in RecordLocks(p, ftab[p][n]) : e[3] = n}

LastHandle(p, n) == \A k \in Handle \ {n} : ftab[p][k] # ftab[p][n]

\* fioclose: the record locks of the handle go, and with the last handle the
\* file lock and the operating system handle.
Close(p, n) ==
  LET f == ftab[p][n]
      E == HandleLocks(p, n)
      last == LastHandle(p, n)
      B == RecordBytes(E) \cup
             IF last /\ f \in hopen[p] /\ lckflg[p][f] # {}
             THEN {<<f, FLLCK>>} ELSE {}
  IN /\ "close" \in Calls
     /\ call[p] = Idle
     /\ f # NULL
     /\ plist' = [plist EXCEPT ![p] = @ \ E]
     /\ Release(p, B, IF last THEN {f} ELSE {})
     /\ ftab' = [ftab EXCEPT ![p][n] = NULL]
     /\ IF last
        THEN /\ mode' = [mode EXCEPT ![p][f] = "none"]
             /\ hopen' = [hopen EXCEPT ![p] = @ \ {f}]
             /\ lckflg' = [lckflg EXCEPT ![p][f] = {}]
        ELSE UNCHANGED <<mode, hopen, lckflg>>
     /\ UNCHANGED call

(***************************************************************************)
(* File locks.                                                             *)
(***************************************************************************)
HighLocked(p) == {f \in File : "HLK" \in lckflg[p][f]}

\* fiounlock of the files F, a call that may end another one.
UnlockHigh(p, F) ==
  /\ Release(p, {<<f, FLLCK>> : f \in F}, {})
  /\ lckflg' = [lckflg EXCEPT ![p] =
                  [f \in File |-> IF f \in F THEN @[f] \ {"HLK"} ELSE @[f]]]

\* The files of a list that fiolock has yet to lock.
Todo(p) ==
  {f \in File : /\ \E n \in call[p].fns : ftab[p][n] = f
                /\ Shared(p, f)
                /\ "HLK" \notin lckflg[p][f]}

NextToLockAny(p, f) == f \in Todo(p)  \* mutant: in the order of the list

NextToLock(p, f) == f \in Todo(p) /\ \A g \in Todo(p) : f <= g

\* fiolock is called with the list L.  A lock already held by fioflck is
\* turned into one of fiolock without asking the kernel.
FiolockCall(p, L) ==
  /\ "fiolock" \in Calls
  /\ call[p] = Idle
  /\ IF \E n \in L : ftab[p][n] = NULL
     THEN /\ UnlockHigh(p, HighLocked(p))
          /\ UNCHANGED call
     ELSE /\ lckflg' = [lckflg EXCEPT ![p] =
               [f \in File |->
                  IF /\ \E n \in L : ftab[p][n] = f
                     /\ Shared(p, f)
                     /\ "LLK" \in @[f]
                  THEN {"HLK"} ELSE @[f]]]
          /\ call' = [call EXCEPT ![p] = [op |-> "fiolock", fns |-> L, pos |-> FLLCK]]
          /\ UNCHANGED <<oslk, sem>>
  /\ UNCHANGED <<table, hopen, plist>>

\* One pass of the loop of fiolock gets the first file by name.
FiolockGrant(p) ==
  /\ call[p].op = "fiolock"
  /\ \E f \in File, V \in SUBSET hopen[p] :
       /\ NextToLock(p, f)
       /\ Touch(p, f, V)
       /\ Acquire(p, f, FLLCK, V)
       /\ hopen' = [hopen EXCEPT ![p] = (@ \ V) \cup {f}]
       /\ lckflg' = [lckflg EXCEPT ![p][f] = @ \cup {"HLK"}]
  /\ UNCHANGED <<table, plist, call>>

FiolockReturn(p) ==
  /\ call[p].op = "fiolock"
  /\ Todo(p) = {}
  /\ call' = [call EXCEPT ![p] = Idle]
  /\ UNCHANGED <<table, hopen, lckflg, plist, oslk, sem>>

Fiounlock(p, F) ==
  /\ "fiolock" \in Calls
  /\ call[p] = Idle
  /\ UnlockHigh(p, F)
  /\ UNCHANGED <<table, hopen, plist, call>>

\* fioflck: nothing to do when the file is locked or not shared.
FioflckCall(p, n) ==
  /\ "fioflck" \in Calls
  /\ call[p] = Idle
  /\ ftab[p][n] # NULL
  /\ lckflg[p][ftab[p][n]] = {}
  /\ Shared(p, ftab[p][n])
  /\ call' = [call EXCEPT ![p] = [op |-> "fioflck", fns |-> {n}, pos |-> FLLCK]]
  /\ UNCHANGED <<table, hopen, lckflg, plist, oslk, sem>>

FioflckGrant(p) ==
  /\ call[p].op = "fioflck"
  /\ \E n \in call[p].fns, V \in SUBSET hopen[p] :
       LET f == ftab[p][n]
       IN /\ Touch(p, f, V)
          /\ Acquire(p, f, FLLCK, V)
          /\ hopen' = [hopen EXCEPT ![p] = (@ \ V) \cup {f}]
          /\ lckflg' = [lckflg EXCEPT ![p][f] = @ \cup {"LLK"}]
  /\ call' = [call EXCEPT ![p] = Idle]
  /\ UNCHANGED <<table, plist>>

FiofulkAny(p, n) ==  \* mutant: no test of FIOX_LLK
  LET f == ftab[p][n]
  IN /\ call[p] = Idle
     /\ f # NULL
     /\ Release(p, {<<f, FLLCK>>}, {})
     /\ lckflg' = [lckflg EXCEPT ![p][f] = @ \ {"LLK"}]
     /\ UNCHANGED <<table, hopen, plist, call>>

\* fiofulk: only a lock of fioflck is given back.
Fiofulk(p, n) ==
  LET f == ftab[p][n]
  IN /\ call[p] = Idle
     /\ f # NULL
     /\ "LLK" \in lckflg[p][f]
     /\ Release(p, {<<f, FLLCK>>}, {})
     /\ lckflg' = [lckflg EXCEPT ![p][f] = @ \ {"LLK"}]
     /\ UNCHANGED <<table, hopen, plist, call>>

(***************************************************************************)
(* Record locks.                                                           *)
(***************************************************************************)
UnlockedHere(p, n, r) ==  \* mutant: other handles are not looked at
  \A e \in HandleLocks(p, n) : e[2] # r

\* No handle of the process has the record locked.
Unlocked(p, n, r) == \A e \in RecordLocks(p, ftab[p][n]) : e[2] # r

\* fiolckpos: a record this process has locked, under this or another
\* handle, is answered without the kernel.
FiolckposCall(p, n, r, op) ==
  LET f == ftab[p][n]
  IN /\ op \in Calls \cap {"fiolckpos", "fiotstpos"}
     /\ call[p] = Idle
     /\ f # NULL
     /\ Shared(p, f)
     /\ Unlocked(p, n, r)
     /\ call' = [call EXCEPT ![p] = [op |-> op, fns |-> {n}, pos |-> r]]
     /\ UNCHANGED <<table, hopen, lckflg, plist, oslk, sem>>

FiolckposGrant(p) ==
  /\ call[p].op \in {"fiolckpos", "fiotstpos"}
  /\ \E n \in call[p].fns, V \in SUBSET hopen[p] :
       LET f == ftab[p][n]
           r == call[p].pos
       IN /\ Touch(p, f, V)
          /\ Acquire(p, f, r, V)
          /\ hopen' = [hopen EXCEPT ![p] = (@ \ V) \cup {f}]
          /\ plist' = [plist EXCEPT ![p] = @ \cup {<<f, r, n>>}]
  /\ call' = [call EXCEPT ![p] = Idle]
  /\ UNCHANGED <<table, lckflg>>

\* fioulkpos of one position, or of every position of the handle.
Fioulkpos(p, n, R) ==
  LET E == {e \in HandleLocks(p, n) : e[2] \in R}
  IN /\ call[p] = Idle
     /\ ftab[p][n] # NULL
     /\ E # {}
     /\ plist' = [plist EXCEPT ![p] = @ \ E]
     /\ Release(p, RecordBytes(E), {})
     /\ UNCHANGED <<table, hopen, lckflg, call>>

(***************************************************************************)
(* Waiting, giving up and losing locks.                                    *)
(***************************************************************************)
\* The byte a waiting process has asked for.
Wanted(p) ==
  IF call[p].op = "fiolock" THEN {<<f, FLLCK>> : f \in {g \in File : NextToLock(p, g)}}
  ELSE {<<ftab[p][n], call[p].pos>> : n \in call[p].fns}

WaitsFor(p) == UNION {Blockers(p, x[1], x[2]) : x \in Wanted(p)}

\* Processes that each wait for another one of them.
Deadlocked(S) == S # {} /\ \A p \in S : WaitsFor(p) \cap S # {}

TimeLimit(p) ==
  CASE call[p].op \in {"fiolock", "fioflck"} -> FileWait
    [] call[p].op = "fiolckpos"               -> RecWait
    [] OTHER                                  -> "none"

\* The lock cannot be had: it is refused at once or when the time is over,
\* or fcntl reports EDEADLK; or the file cannot be opened again.
GivesUp(p, x) ==
  \/ x[1] \notin hopen[p]
  \/ /\ ~CanLock(p, x[1], x[2])
     /\ \/ TimeLimit(p) # "forever"
        \/ /\ ~UsesSem(p, x[1], x[2])
           /\ \E S \in SUBSET Proc : p \in S /\ Deadlocked(S)

RefusedKeeps(p) ==  \* mutant: fiolock returns the error only
  /\ call[p].op # "idle"
  /\ \E x \in Wanted(p) : GivesUp(p, x)
  /\ call' = [call EXCEPT ![p] = Idle]
  /\ UNCHANGED <<table, hopen, plist, lckflg, oslk, sem>>

\* fiolock then gives back every lock of filepi, the others return.
Refused(p) ==
  /\ call[p].op # "idle"
  /\ \E x \in Wanted(p) : GivesUp(p, x)
  /\ IF call[p].op = "fiolock"
     THEN UnlockHigh(p, HighLocked(p))
     ELSE UNCHANGED <<lckflg, oslk, sem>>
  /\ call' = [call EXCEPT ![p] = Idle]
  /\ UNCHANGED <<table, hopen, plist>>

\* fioclru closes the files F whatever is locked in them.
CloseWithLocks(p, F) ==
  LET E == {e \in plist[p] : e[1] \in F}
  IN /\ plist' = [plist EXCEPT ![p] = @ \ E]
     /\ Release(p, RecordBytes(E) \cup
                   {<<f, FLLCK>> : f \in {g \in F : lckflg[p][g] # {}}}, F)
     /\ lckflg' = [lckflg EXCEPT ![p] = [f \in File |-> IF f \in F THEN {} ELSE @[f]]]

\* fioclru(0) by the spooler before it opens a file of its own.
Fioclru(p) ==
  /\ "fioclru" \in Calls
  /\ call[p] = Idle
  /\ \E f \in Evictable(p) :
       /\ Release(p, {}, {f})
       /\ hopen' = [hopen EXCEPT ![p] = @ \ {f}]
  /\ UNCHANGED <<table, lckflg, plist, call>>

\* ROLLOUT with the close option runs fioclru(-1) until nothing is left.
Rollout(p) ==
  /\ "rollout" \in Calls
  /\ call[p] = Idle
  /\ LET F == {f \in hopen[p] : Shared(p, f)}
     IN CloseWithLocks(p, F) /\ hopen' = [hopen EXCEPT ![p] = @ \ F]
  /\ UNCHANGED <<table, call>>

\* fioflush of a file the kernel cannot write: it is closed and, if that is
\* possible, opened again, without its locks.
FlushFails(p, f) ==
  /\ "flush" \in Calls
  /\ call[p] = Idle
  /\ f \in hopen[p]
  /\ CloseWithLocks(p, {f})
  /\ hopen' \in {hopen, [hopen EXCEPT ![p] = @ \ {f}]}
  /\ UNCHANGED <<table, call>>

\* The process ends: the kernel closes its files and SEM_UNDO its semaphores.
Crash(p) ==
  /\ "crash" \in Calls
  /\ Release(p, {x \in Ranges : oslk[p][x] = "sem"}, File)
  /\ ftab' = [ftab EXCEPT ![p] = [n \in Handle |-> NULL]]
  /\ mode' = [mode EXCEPT ![p] = [f \in File |-> "none"]]
  /\ hopen' = [hopen EXCEPT ![p] = {}]
  /\ lckflg' = [lckflg EXCEPT ![p] = [f \in File |-> {}]]
  /\ plist' = [plist EXCEPT ![p] = {}]
  /\ call' = [call EXCEPT ![p] = Idle]

Init ==
  /\ ftab = [p \in Proc |-> [n \in Handle |-> NULL]]
  /\ mode = [p \in Proc |-> [f \in File |-> "none"]]
  /\ hopen = [p \in Proc |-> {}]
  /\ lckflg = [p \in Proc |-> [f \in File |-> {}]]
  /\ plist = [p \in Proc |-> {}]
  /\ oslk = [p \in Proc |-> [x \in Ranges |-> "none"]]
  /\ sem = [f \in File |-> 1]
  /\ call = [p \in Proc |-> Idle]

Opens(p) == \E n \in Handle, f \in File, m \in OpenMode : Open(p, n, f, m)
Closes(p) == \E n \in Handle : Close(p, n)
FileCall(p) ==
  \/ \E L \in SUBSET Handle : L # {} /\ FiolockCall(p, L)
  \/ \E n \in Handle : FioflckCall(p, n)
FileGrant(p) == FiolockGrant(p) \/ FioflckGrant(p)
FileRelease(p) ==
  \/ Fiounlock(p, HighLocked(p))
  \/ \E f \in HighLocked(p) : Fiounlock(p, {f})
  \/ \E n \in Handle : Fiofulk(p, n)
RecordCall(p) ==
  \E n \in Handle, r \in Pos, op \in Op : FiolckposCall(p, n, r, op)
RecordRelease(p) ==
  \E n \in Handle : Fioulkpos(p, n, Pos) \/ \E r \in Pos : Fioulkpos(p, n, {r})
Loses(p) == Fioclru(p) \/ Rollout(p) \/ (\E f \in File : FlushFails(p, f)) \/ Crash(p)

Next ==
  \E p \in Proc :
    \/ Opens(p) \/ Closes(p)
    \/ FileCall(p) \/ FileGrant(p) \/ FiolockReturn(p) \/ FileRelease(p)
    \/ RecordCall(p) \/ FiolckposGrant(p) \/ RecordRelease(p)
    \/ Refused(p) \/ Loses(p)

Spec == Init /\ [][Next]_vars
-----------------------------------------------------------------------------
\* Every variable keeps its type; the handles and positions of a waiting call
\* are those of its arguments.
TypeOK ==
  /\ ftab \in [Proc -> [Handle -> File \cup {NULL}]]
  /\ mode \in [Proc -> [File -> Mode \cup {"none"}]]
  /\ hopen \in [Proc -> SUBSET File]
  /\ lckflg \in [Proc -> [File -> SUBSET LockFlag]]
  /\ plist \in [Proc -> SUBSET (File \X Pos \X Handle)]
  /\ oslk \in [Proc -> [Ranges -> LockKind]]
  /\ sem \in [File -> Nat]
  /\ call \in [Proc -> [op : Op, fns : SUBSET Handle, pos : Byte]]

\* A handle in use points at an htab, a file has at most one lock flag, and a
\* call that waits for a lock still has what it looked at before it went to
\* the kernel: its handles are open, and the file or the record is not locked
\* by this process.
CallReady(p) ==
  /\ \A n \in Handle : ftab[p][n] # NULL => mode[p][ftab[p][n]] # "none"
  /\ \A f \in File : ~ (LockFlag \subseteq lckflg[p][f])
  /\ call[p].op # "idle" => \A n \in call[p].fns : ftab[p][n] # NULL
  /\ call[p].op = "fiolock" =>
       \A n \in call[p].fns :
         Shared(p, ftab[p][n]) => "LLK" \notin lckflg[p][ftab[p][n]]
  /\ call[p].op = "fioflck" =>
       \A n \in call[p].fns :
         Shared(p, ftab[p][n]) /\ lckflg[p][ftab[p][n]] = {}
  /\ call[p].op \in {"fiolckpos", "fiotstpos"} =>
       /\ call[p].pos \in Pos
       /\ \A n \in call[p].fns :
            Shared(p, ftab[p][n]) /\ Unlocked(p, n, call[p].pos)

HandlesInUse == \A p \in Proc : CallReady(p)

\* The lock flags of the htab and its list of record locks say exactly what
\* the kernel holds for the process: no lock is leaked when a call fails, a
\* handle is closed or an idle file is closed, and none is lost behind the
\* program's back.
Agrees(p) ==
  \A f \in File :
    /\ oslk[p][<<f, FLLCK>>] = IF lckflg[p][f] = {} THEN "none" ELSE KindOf(p, f, FLLCK)
    /\ \A r \in Pos :
         oslk[p][<<f, r>>] = IF \E n \in Handle : <<f, r, n>> \in plist[p]
                         THEN KindOf(p, f, r) ELSE "none"

TableAgrees == \A p \in Proc : Agrees(p)

\* A file that is locked, or has a locked record, is open at the operating
\* system: fioclru(0) never picks it to stay below openlimit.
OpenIfLocked(p) ==
  \A f \in File :
    lckflg[p][f] # {} \/ RecordLocks(p, f) # {} => f \in hopen[p] /\ Shared(p, f)

LockedIsOpen == \A p \in Proc : OpenIfLocked(p)

\* A record lock belongs to the handle that took it: a slot of ftab that is
\* closed and used again never inherits one, and no two handles of a process
\* have the same record.
OwnsRecords(p) ==
  \A e \in plist[p] :
    /\ ftab[p][e[3]] = e[1]
    /\ \A d \in plist[p] : d[1] = e[1] /\ d[2] = e[2] => d = e

RecordOwner == \A p \in Proc : OwnsRecords(p)

Writes(p, f) == mode[p][f] = "SHR"

\* What fioflck and fiolock are for: while a process that writes the file has
\* it locked no other process does, a reader included unless the writers lock
\* with semaphores.
FileExclusion ==
  \A p, q \in Proc, f \in File :
    /\ p # q
    /\ lckflg[p][f] # {} /\ lckflg[q][f] # {}
    /\ Writes(p, f)
    => SemLock /\ ~Writes(q, f)

\* What fiolckpos is for: a record locked through a file open for writing is
\* locked by nobody else.
RecordExclusion ==
  \A p, q \in Proc : \A e \in plist[p], d \in plist[q] :
    p # q /\ e[1] = d[1] /\ e[2] = d[2] => ~Writes(p, e[1])

\* The semaphore of a file is 0 while a process holds it and 1 otherwise; one
\* unlock too many would let two writers in.
SemaphoreCount ==
  \A f \in File :
    sem[f] = IF \E p \in Proc : oslk[p][<<f, FLLCK>>] = "sem" THEN 0 ELSE 1

\* The kernel's own promise, for every byte of every file.
KernelExcludes ==
  \A p, q \in Proc, x \in Ranges :
    p # q => /\ oslk[p][x] = "sem" => oslk[q][x] # "sem"
             /\ oslk[p][x] = "wr" => oslk[q][x] \notin {"rd", "wr"}

\* The inductive invariant: with the tables and the kernel in step, what the
\* kernel excludes is excluded for the programs.
RowInv(p) == CallReady(p) /\ Agrees(p) /\ OpenIfLocked(p) /\ OwnsRecords(p)

LockInv ==
  TypeOK /\ KernelExcludes /\ SemaphoreCount /\ \A p \in Proc : RowInv(p)

\* fiolock locks all the files of its list or, when it is refused one, keeps
\* none of the locks of filepi.
FilepiAllOrNothing ==
  [][\A p \in Proc :
       call[p].op = "fiolock" /\ call'[p].op = "idle" =>
         \/ \A n \in call[p].fns :
              Shared(p, ftab[p][n]) => "HLK" \in lckflg'[p][ftab[p][n]]
         \/ \A f \in File : "HLK" \notin lckflg'[p][f]]_vars

\* The locks a process has by its own tables.
Locked(p, x) ==
  IF x[2] = FLLCK THEN lckflg[p][x[1]] # {}
  ELSE \E n \in Handle : <<x[1], x[2], n>> \in plist[p]

HeldLocks ==
  [p \in Proc |->
    [x \in Ranges |-> IF Locked(p, x) THEN KindOf(p, x[1], x[2]) ELSE "none"]]

\* What the tables of the processes say is a lock manager: whoever is told
\* that it has a lock has it against every other process, through opens,
\* closes, evictions and refused calls.
LM == INSTANCE LockManager WITH Item <- Ranges, held <- HeldLocks
IsLockManager == LM!Spec
=============================================================================
