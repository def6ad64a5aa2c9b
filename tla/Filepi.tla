------------------------------- MODULE Filepi -------------------------------
(***************************************************************************)
(* The filepi verb of the DX runtime over the file locks of FileLock.      *)
(*                                                                         *)
(* A program runs one verb after the other (the loop of dbciex.c).  filepi *)
(* locks a list of files for a number of verbs; an indexed read or a write *)
(* locks its data file with fioflck for the length of the verb.            *)
(***************************************************************************)
EXTENDS FileLock

CONSTANTS
  MaxCount,    \* largest count given to filepi
  ResetFpi,    \* DIOFLAG_RESETFPI: a second filepi replaces the first
  Traps,       \* a trap or event routine may run between two verbs
  Disciplined  \* in a filepi section programs use only files of its list

ASSUME FilepiAssumption ==
  /\ {"fiolock", "fioflck"} \subseteq Calls
  /\ IsFiniteSet(File)
  /\ MaxCount \in Nat \ {0, 1}
  /\ ResetFpi \in BOOLEAN /\ Traps \in BOOLEAN /\ Disciplined \in BOOLEAN

VARIABLES
  fpicnt,  \* fpicnt[p]: verbs left in the filepi section, plus one
  counts,  \* counts[p]: ACTION_FILEPI, verbs are being counted
  trapped, \* trapped[p]: fpiretptr is set, a return resumes the count
  stage    \* stage[p]: "next", "verb", or "io" in a verb that locks its file

count == <<fpicnt, counts, trapped>>
fvars == <<vars, count, stage>>

Goes(p, s) == stage' = [stage EXCEPT ![p] = s]
CountIs(p, c) == fpicnt' = [fpicnt EXCEPT ![p] = c]
Counting(p, c) == counts' = [counts EXCEPT ![p] = c]
Trapped(p, c) == trapped' = [trapped EXCEPT ![p] = c]

FilepiZero(p) ==
  /\ UnlockHigh(p, HighLocked(p))
  /\ CountIs(p, 0)
  /\ UNCHANGED <<table, hopen, plist, call>>

NextVerbKeeps(p) ==  \* mutant: the count runs out without filepi0
  /\ stage[p] = "next"
  /\ Goes(p, "verb")
  /\ CountIs(p, IF fpicnt[p] > 0 THEN fpicnt[p] - 1 ELSE 0)
  /\ Counting(p, counts[p] /\ fpicnt[p] > 1)
  /\ UNCHANGED <<vars, trapped>>

\* The top of the loop: one verb of the section is used up, and the locks
\* go before the first verb after it.
NextVerb(p) ==
  /\ stage[p] = "next"
  /\ Goes(p, "verb")
  /\ \/ ~counts[p] /\ UNCHANGED <<vars, fpicnt, counts>>
     \/ /\ counts[p] /\ fpicnt[p] > 1
        /\ CountIs(p, fpicnt[p] - 1)
        /\ UNCHANGED <<vars, counts>>
     \/ /\ counts[p] /\ fpicnt[p] <= 1
        /\ IF fpicnt[p] = 1 THEN FilepiZero(p) ELSE UNCHANGED <<vars, fpicnt>>
        /\ Counting(p, FALSE)
  /\ UNCHANGED trapped

\* Before the verb itself a trap or event routine may be called.  Its verbs
\* are not counted, unless it begins a section of its own.
TrapCall(p) ==
  /\ Traps
  /\ stage[p] = "verb" /\ call[p] = Idle
  /\ counts[p] /\ fpicnt[p] > 0
  /\ Counting(p, FALSE)
  /\ Trapped(p, TRUE)
  /\ UNCHANGED <<vars, fpicnt, stage>>

TrapReturnForgets(p) ==  \* mutant: the count is not resumed
  /\ stage[p] = "verb" /\ call[p] = Idle
  /\ trapped[p]
  /\ Trapped(p, FALSE)
  /\ UNCHANGED <<vars, fpicnt, counts, stage>>

\* RETURN goes on with the verb the routine came before: it is counted.
TrapReturn(p) ==
  /\ stage[p] = "verb" /\ call[p] = Idle
  /\ trapped[p]
  /\ Trapped(p, FALSE)
  /\ Counting(p, counts[p] \/ fpicnt[p] > 0)
  /\ UNCHANGED <<vars, fpicnt, stage>>

\* The parts of an expression are verbs that undo the count of the loop.
UncountedVerb(p) ==
  /\ stage[p] = "verb" /\ call[p] = Idle
  /\ counts[p] /\ fpicnt[p] > 0
  /\ CountIs(p, fpicnt[p] + 1)
  /\ Goes(p, "next")
  /\ UNCHANGED <<vars, counts, trapped>>

\* filepi 0, a filepi inside a section, and the verbs that wait for the user
\* or leave the program (keyin, display, print, execute, chain, stop).
FilepiCancel(p) ==
  /\ stage[p] = "verb" /\ call[p] = Idle
  /\ FilepiZero(p)
  /\ Goes(p, "next")
  /\ UNCHANGED <<counts, trapped>>

\* A filepi inside a section that may replace it ends the section first.
FilepiLock(p, L) ==
  /\ stage[p] = "verb" /\ call[p] = Idle
  /\ \A n \in L : ftab[p][n] # NULL
  /\ IF fpicnt[p] > 0
     THEN ResetFpi /\ FilepiZero(p)
     ELSE FiolockCall(p, L) /\ UNCHANGED fpicnt
  /\ UNCHANGED <<counts, trapped, stage>>

FilepiDone(p) ==
  /\ FiolockReturn(p)
  /\ \E v \in 2 .. MaxCount : CountIs(p, v + 1)
  /\ Counting(p, TRUE)
  /\ Goes(p, "next")
  /\ UNCHANGED trapped

\* A verb that reads by key or writes at the end of the file.  For a file of
\* the section fioflck has nothing to do, and the verb is an OtherVerb.
IoLock(p, n) ==
  /\ stage[p] = "verb"
  /\ Disciplined => fpicnt[p] = 0
  /\ FioflckCall(p, n)
  /\ Goes(p, "io")
  /\ UNCHANGED count

IoEnd(p, n) ==
  /\ stage[p] = "io"
  /\ Fiofulk(p, n)
  /\ Goes(p, "next")
  /\ UNCHANGED count

\* A lock is refused: the verb ends in an error.
VerbFails(p) == Refused(p) /\ Goes(p, "next") /\ UNCHANGED count

OtherVerb(p) ==
  /\ stage[p] = "verb" /\ call[p] = Idle
  /\ Opens(p) \/ Closes(p) \/ UNCHANGED vars
  /\ Goes(p, "next")
  /\ UNCHANGED count

FilepiInit ==
  /\ Init
  /\ fpicnt = [p \in Proc |-> 0]
  /\ counts = [p \in Proc |-> FALSE]
  /\ trapped = [p \in Proc |-> FALSE]
  /\ stage = [p \in Proc |-> "next"]

\* The steps of a program towards the end of a verb that counts.
Counted(p) ==
  \/ FilepiCancel(p) \/ FilepiDone(p) \/ OtherVerb(p)
  \/ \E L \in SUBSET Handle : L # {} /\ FilepiLock(p, L)
  \/ \E n \in Handle : IoLock(p, n) \/ IoEnd(p, n)
Granted(p) == FileGrant(p) /\ UNCHANGED <<count, stage>>

FilepiNext == \E p \in Proc :
  \/ NextVerb(p) \/ TrapCall(p) \/ TrapReturn(p) \/ UncountedVerb(p)
  \/ Counted(p) \/ Granted(p) \/ VerbFails(p)

FilepiSpec == FilepiInit /\ [][FilepiNext]_fvars

\* A program that is not waiting goes on to its next verb, for inside a
\* section no verb waits for the user.  It does not loop for ever in verbs
\* that do not count or in a trap routine.  The kernel grants a lock that is
\* free again and again to one of its waiters after the other.
FilepiFair ==
  /\ FilepiSpec
  /\ \A p \in Proc :
       /\ WF_fvars(NextVerb(p) \/ Counted(p)) /\ SF_fvars(TrapReturn(p))
       /\ SF_fvars(~trapped[p] /\ Counted(p))
       /\ SF_fvars(Granted(p))
-----------------------------------------------------------------------------
\* The files of filepi stay locked no longer than its count says: outside of
\* a section, and once a filepi has failed, no lock of fiolock is left.
SectionHasLocks ==
  \A p \in Proc : HighLocked(p) # {} => fpicnt[p] > 0 \/ call[p].op = "fiolock"

\* The count of a section is never lost: verbs are counted, or the return of
\* the trap routine that runs will count them again.
SectionIsCounted ==
  \A p \in Proc : fpicnt[p] > 0 => counts[p] \/ trapped[p]

\* Programs that lock their lists at once, and outside of a section one file
\* at a time, never wait for each other in a circle, whatever the order of
\* the lists: fiolock takes the files by name.
NoDeadlock == \A S \in SUBSET Proc : ~Deadlocked(S)

\* So a program that waits for file locks without a time limit gets them.
FilepiReturns == \A p \in Proc : call[p].op = "fiolock" ~> call[p].op = "idle"

\* And one that only locks a file for the length of a verb is not shut out.
IoReturns == \A p \in Proc : call[p].op = "fioflck" ~> call[p].op = "idle"
=============================================================================
