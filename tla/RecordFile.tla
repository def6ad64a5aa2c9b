---------------------------- MODULE RecordFile ----------------------------
(***************************************************************************)
(* The record calls of rio.c on a file without a buffer (bsiz = 0), used   *)
(* by one program: every call reads and writes the file itself.            *)
(***************************************************************************)
EXTENDS RecordFormat

CONSTANTS
  MaxLen,    \* bound: the puts of programs end at most at MaxLen,
  MaxParLen  \* and those of programs that put in parts at MaxParLen

ASSUME RecordFileAssumption == {MaxLen, MaxParLen} \subseteq Nat

VARIABLES
  parts,  \* whether the program puts records in parts (rioparput)
  file,   \* the cells of the file
  npos,   \* r->npos, the position of the next record
  lpos,   \* r->lpos, the position of the last record
  answer  \* what the last get, prev or delete answered

rvars == <<parts, file, npos, lpos, answer>>

Bound == IF parts THEN MaxParLen ELSE MaxLen

Put(cells) ==
  /\ file' = WriteAt(file, npos, cells)
  /\ lpos' = npos
  /\ npos' = npos + Moves(cells)
  /\ UNCHANGED <<parts, answer>>

RioPut == \E d \in Puts(npos) :
  /\ npos + Len(d) + 2 <= Bound
  /\ Put(PutCells(d, npos, Len(file)))

RioParPut == \E d \in ParPuts(npos) :
  /\ parts
  /\ npos + Len(d) <= Bound
  /\ Put(d)

RioGet ==
  LET c == ReadAt(file, npos, Slot)
  IN /\ answer' = GetAnswer(c, npos)
     /\ lpos' = IF c = <<>> THEN lpos ELSE npos
     /\ npos' = npos + GetAnswer(c, npos).step
     /\ UNCHANGED <<parts, file>>

RioPrevAtBegin ==
  /\ lpos = 0
  /\ answer' = Plain("end")
  /\ npos' = 0
  /\ UNCHANGED <<parts, file, lpos>>

RioPrev ==
  /\ lpos > 0
  /\ LET n == PrevCells(lpos)
         found == PrevAnswer(ReadAt(file, lpos - n, n), lpos)
     IN /\ answer' = found
        /\ npos' = lpos
        /\ lpos' = lpos - found.step
        /\ UNCHANGED <<parts, file>>

\* riodelete overwrites the record at npos; the position does not move.
RioDelete ==
  /\ \E stale \in BOOLEAN :
       /\ answer' = DeleteAnswer(ReadAt(file, npos, Slot), npos, stale)
       /\ file' = DeleteAt(file, npos, stale)
  /\ UNCHANGED <<parts, npos, lpos>>

RioSetPos == \E pos \in 0 .. Len(file) :
  /\ pos % Slot = 0
  /\ npos' = pos /\ lpos' = pos
  /\ UNCHANGED <<parts, file, answer>>

\* rioeofpos answers the position of the end mark.
RioEofPos ==
  /\ answer' = [Plain("eofpos") EXCEPT !.step = Len(file) - 1]
  /\ UNCHANGED <<parts, file, npos, lpos>>

\* rioweof cuts the file after an end mark at npos.
RioWeof ==
  /\ file' = Append(ReadAt(file, 0, npos), EOFC)
  /\ lpos' = npos
  /\ UNCHANGED <<parts, npos, answer>>

\* rioclose and rioopen again, for a file that still ends in its mark.
RioReopen ==
  /\ file[Len(file)] = EOFC
  /\ npos' = 0 /\ lpos' = 0
  /\ UNCHANGED <<parts, file, answer>>

RecordInit ==
  /\ parts \in BOOLEAN
  /\ file = <<EOFC>>
  /\ npos = 0 /\ lpos = 0
  /\ answer = NoAnswer

RecordNext ==
  \/ RioPut \/ RioParPut \/ RioGet \/ RioPrevAtBegin \/ RioPrev \/ RioDelete
  \/ RioSetPos \/ RioEofPos \/ RioWeof \/ RioReopen

RecordSpec == RecordInit /\ [][RecordNext]_rvars

\* While no record is put in parts, the file is a row of whole slots, each a
\* record or deleted, and the end mark; the positions are begins of slots
\* (rioput 1319-1353 and 1407-1413, riodelete 1679-1681, rioweof 1800-1820).
WholeSlot(c) == IsRecord(c, 0) \/ c = [i \in 1 .. Slot |-> DEL]
WholeFile == ~parts =>
  /\ Len(file) % Slot = 1 % Slot
  /\ file[Len(file)] = EOFC
  /\ \A n \in 0 .. (Len(file) \div Slot) - 1 : WholeSlot(ReadAt(file, n * Slot, Slot))
  /\ \A pos \in {npos, lpos} : pos % Slot = 0 /\ pos < Len(file)

\* In such a file rioget and rioprev answer a record, a deleted record or an
\* end, never an error: what one call leaves the next can read, in both
\* directions (rioget 500-735, rioprev 862-1143).
ReadsSucceed == [][~parts /\ (RioGet \/ RioPrev) => answer'.kind # "error"]_rvars

\* What rioprev finds going back is what rioget finds going forward from
\* the position it moves to (rioget 500-735, rioprev 862-1143).
Found(a) == a.kind \in {"record", "deleted"}
BackIsForward ==
  [][~parts /\ RioPrev /\ Found(answer') =>
       LET c == ReadAt(file, lpos', Slot)
       IN GetAnswer(c, lpos') = answer']_rvars

\* A put behind the other parts of a record makes one record of them (rioput
\* 1319-1327, rioparput 1483-1488).
PartsMakeRecord ==
  [][RioPut => LET begin == npos - (npos % Slot)
                   before == ReadAt(file, begin, npos - begin)
               IN Leading(before, Data) = Len(before) => IsRecord(ReadAt(file', begin, Slot), begin)]_rvars
=============================================================================
