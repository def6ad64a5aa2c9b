--------------------------- MODULE RecordBuffer ---------------------------
(***************************************************************************)
(* The record calls of rio.c on a file with a buffer (bsiz > 0).  A call   *)
(* is several steps: it writes out a write buffer that it cannot use       *)
(* (rioxwb), fills a read buffer (rioxgb), and moves cells in and out of   *)
(* the buffer; each step asks the system for one thing, that can fail.     *)
(***************************************************************************)
EXTENDS RecordFormat

CONSTANTS
  Bsiz,      \* cells of the buffer
  MaxLen,    \* bound: the puts of programs end at most at MaxLen,
  MaxParLen, \* those of programs that put in parts at MaxParLen,
  MaxFailLen, \* and those of programs that meet failures at MaxFailLen
  Failures   \* bound: how many locks, reads and writes of the file fail

ASSUME RecordBufferAssumption ==
  /\ Bsiz \in Nat \ {0}
  /\ {MaxLen, MaxParLen, MaxFailLen, Failures} \subseteq Nat /\ MaxFailLen <= MaxLen

VARIABLES
  parts,       \* whether the program puts records in parts (rioparput)
  file,        \* the cells of the file
  npos, lpos,  \* r->npos and r->lpos
  fsiz,        \* r->fsiz, the size of the file with what the buffer holds
  bflg,        \* r->bflg: 0 invalid, 1 read, 2 write
  bpos,        \* r->bpos, the file position of the buffer
  bwst,        \* r->bwst, where the cells to write begin
  buf,         \* the cells of the buffer, blen of them
  op,          \* the call that runs: kind, cells gathered or to put, where
  answer,      \* what the last get, prev, delete or eofpos answered
  failing,     \* whether the program may meet failures
  failures     \* how many locks, reads and writes have failed

choice == <<parts, failing>>
positions == <<npos, lpos>>
buffer == <<bflg, bpos, bwst, buf>>
bvars == <<parts, failing, file, npos, lpos, fsiz, bflg, bpos, bwst, buf, op, answer, failures>>

blen == Len(buf)
\* Nothing of an invalid buffer is looked at, so the model empties it.
Invalidate == bflg' = 0 /\ bpos' = 0 /\ bwst' = 0 /\ buf' = <<>>
Idle == [kind |-> "idle", cells |-> <<>>, at |-> 0]
Return == op' = Idle
Fail == failing /\ failures < Failures /\ failures' = failures + 1 /\ UNCHANGED choice

\* The file when the write buffer, and the rest of a put, are in it.
Behind == IF bflg = 2 THEN WriteAt(file, bpos + bwst, SubSeq(buf, bwst + 1, blen)) ELSE file
Putting == op.kind \in {"put", "parput"}
Logical == IF Putting THEN WriteAt(Behind, op.at, op.cells) ELSE Behind

(***************************************************************************)
(* A program calls.                                                        *)
(***************************************************************************)
Bound == IF failing THEN MaxFailLen ELSE IF parts THEN MaxParLen ELSE MaxLen

Call(kind, cells, at) ==
  /\ op = Idle
  /\ op' = [kind |-> kind, cells |-> cells, at |-> at]
  /\ UNCHANGED <<choice, failures>>

\* fsiz is read anew only when the record seems to be the last one.
NewFsiz(data) == IF npos + Len(data) + 1 >= fsiz THEN Most(fsiz, Len(file)) ELSE fsiz

RioPut == \E d \in Puts(npos) :
  /\ npos + Len(d) + 2 <= Bound
  /\ Call("put", PutCells(d, npos, NewFsiz(d)), npos)
  /\ fsiz' = NewFsiz(d)
  /\ UNCHANGED <<file, positions, buffer, answer>>

RioParPut == \E d \in ParPuts(npos) :
  /\ parts
  /\ npos + Len(d) <= Bound
  /\ Call("parput", d, npos)
  /\ UNCHANGED <<file, positions, fsiz, buffer, answer>>

RioSetPos == \E pos \in 0 .. Len(Behind) :
  /\ pos % Slot = 0
  /\ Call("setpos", <<>>, pos)
  /\ UNCHANGED <<file, positions, fsiz, buffer, answer>>

RioClose ==
  /\ Behind[Len(Behind)] = EOFC
  /\ Call("close", <<>>, 0)
  /\ UNCHANGED <<file, positions, fsiz, buffer, answer>>

RioCall == \E kind \in {"get", "prev", "delete", "eofpos", "weof", "flush"} :
  /\ Call(kind, <<>>, 0)
  /\ UNCHANGED <<file, positions, fsiz, buffer, answer>>

(***************************************************************************)
(* rioxwb: the buffer is invalid before it is written, and stays so when   *)
(* the lock or the write fails.  The call ends then; only rioclose goes on *)
(* and closes the file.                                                    *)
(***************************************************************************)
\* Mutants of Outside: a full buffer takes more, or cells before bwst.
OutsideNotFull(pos) == pos < bpos + bwst \/ pos > bpos + blen
OutsideBuffer(pos) == pos < bpos \/ pos > bpos + blen \/ pos = bpos + Bsiz
\* A position that the write buffer cannot take over.
Outside(pos) == pos < bpos + bwst \/ pos > bpos + blen \/ pos = bpos + Bsiz
MustFlush ==
  /\ bflg = 2
  /\ IF op.kind \in {"put", "parput", "setpos"} THEN Outside(op.at) ELSE op # Idle

RioXwb ==
  /\ MustFlush
  /\ Invalidate
  /\ file' = Behind
  /\ fsiz' = Most(fsiz, bpos + blen)
  /\ UNCHANGED <<choice, positions, op, answer, failures>>

\* Mutant of RioXwbFails: the call does not look at the result.
RioXwbFailsUnseen ==
  /\ MustFlush
  /\ Fail
  /\ Invalidate
  /\ UNCHANGED <<file, positions, fsiz, op, answer>>

RioXwbFails ==
  /\ MustFlush
  /\ Fail
  /\ Invalidate
  /\ answer' = Plain("error")
  /\ IF op.kind = "close" THEN UNCHANGED op ELSE Return
  /\ UNCHANGED <<file, positions, fsiz>>

(***************************************************************************)
(* rioxgb: bpos moves before the lock and the read that can fail.          *)
(***************************************************************************)
Reading == op.kind = "get" \/ (op.kind = "prev" /\ lpos > 0)
Wanted == IF op.kind = "get" THEN Slot ELSE PrevCells(lpos)
At == IF op.kind = "get" THEN npos + Len(op.cells) ELSE lpos - Len(op.cells) - 1
Buffered(pos) == bflg = 1 /\ pos \in bpos .. bpos + Bsiz - 1
Fill == Reading /\ bflg # 2 /\ ~Buffered(At) /\ bpos' = (At \div Bsiz) * Bsiz

\* An error within a call moves over the cells gathered before it.
GetMoves(n) == lpos' = npos /\ npos' = npos + n
PrevMoves(n) == npos' = lpos /\ lpos' = lpos - n
Moved(n) == IF op.kind = "get" THEN GetMoves(n) ELSE PrevMoves(n)
ReadError ==
  /\ answer' = Failed(Len(op.cells))
  /\ IF op.cells = <<>> THEN UNCHANGED positions ELSE Moved(Len(op.cells))
  /\ Return

RioXgbReads ==
  /\ Fill
  /\ buf' = ReadAt(file, bpos', Bsiz)
  /\ bflg' = 1
  /\ UNCHANGED <<choice, file, positions, fsiz, bwst, op, answer, failures>>

RioXgbRefused ==
  /\ Fill
  /\ Fail
  /\ ReadError
  /\ UNCHANGED <<file, fsiz, bflg, bwst, buf>>

RioXgbFails ==
  /\ Fill
  /\ Fail
  /\ buf' = <<>>
  /\ ReadError
  /\ UNCHANGED <<file, fsiz, bflg, bwst>>

\* The cells from At forward, or back from At, that the buffer has.
Chunk ==
  LET need == Wanted - Len(op.cells)
      i == At - bpos + 1
  IN IF op.kind = "get" THEN SubSeq(buf, i, Least(i + need - 1, blen))
                        ELSE SubSeq(buf, Most(i - need + 1, 1), i)

\* rioget and rioprev take chunks until they have a record or an error.
GetDone(c) == Chunk = <<>> \/ GetEnough(c, npos)

RioGetTakes ==
  LET c == op.cells \o Chunk
  IN /\ op.kind = "get" /\ Buffered(At)
     /\ IF GetDone(c)
        THEN /\ answer' = GetAnswer(c, npos)
             /\ IF c = <<>> THEN UNCHANGED positions ELSE GetMoves(GetAnswer(c, npos).step)
             /\ Return
        ELSE op' = [op EXCEPT !.cells = c] /\ UNCHANGED <<positions, answer>>
     /\ UNCHANGED <<choice, file, fsiz, buffer, failures>>

RioPrevTakes ==
  LET c == Chunk \o op.cells
  IN /\ op.kind = "prev" /\ lpos > 0 /\ Buffered(At)
     /\ IF At >= bpos + blen THEN ReadError
        ELSE IF PrevEnough(c, lpos)
        THEN /\ answer' = PrevAnswer(c, lpos)
             /\ PrevMoves(PrevAnswer(c, lpos).step)
             /\ Return
        ELSE op' = [op EXCEPT !.cells = c] /\ UNCHANGED <<positions, answer>>
     /\ UNCHANGED <<choice, file, fsiz, buffer, failures>>

RioPrevAtBegin ==
  /\ op.kind = "prev" /\ lpos = 0 /\ bflg # 2
  /\ answer' = Plain("end")
  /\ npos' = 0
  /\ Return
  /\ UNCHANGED <<choice, file, lpos, fsiz, buffer, failures>>

(***************************************************************************)
(* rioput and rioparput move the cells into write buffers, chunk by chunk. *)
(***************************************************************************)
\* A new write buffer has nothing to write before the put; its cells up to
\* bwst are never looked at.
WriteBuffer ==
  IF bflg = 2 THEN UNCHANGED <<bpos, bwst>>
  ELSE /\ bpos' = (op.at \div Bsiz) * Bsiz
       /\ bwst' = op.at - bpos'
Kept == IF bflg = 2 THEN buf ELSE [i \in 1 .. bwst' |-> EOR]

\* Mutant of PutDone: the end mark is not counted in fsiz.
PutDoneShort ==
  LET end == op.at + Moves(op.cells)
  IN /\ lpos' = npos
     /\ npos' = end
     /\ fsiz' = Most(fsiz, end)
     /\ Return

PutDone ==
  LET end == op.at + Len(op.cells)
  IN /\ lpos' = npos
     /\ npos' = op.at + Moves(op.cells)
     /\ fsiz' = Most(fsiz, end)
     /\ Return

\* The cells of a put that fit into the buffer; mutant: all of them.
FitsAll == Len(op.cells)
Fits == Least(bpos' + Bsiz - op.at, Len(op.cells))

RioPutChunk ==
  /\ Putting /\ ~MustFlush
  /\ bflg' = 2
  /\ WriteBuffer
  /\ LET n == Fits
     IN /\ buf' = WriteAt(Kept, op.at - bpos', SubSeq(op.cells, 1, n))
        /\ IF n = Len(op.cells) THEN PutDone
           ELSE /\ op' = [op EXCEPT !.cells = SubSeq(@, n + 1, Len(@)), !.at = @ + n]
                /\ UNCHANGED <<positions, fsiz>>
  /\ UNCHANGED <<choice, file, answer, failures>>

(***************************************************************************)
(* The other calls, after the write buffer is out.                         *)
(***************************************************************************)
Direct(kind) == op.kind = kind /\ ~MustFlush /\ Return /\ UNCHANGED <<choice, failures>>

DeleteRecord == \E stale \in BOOLEAN :
  /\ answer' = DeleteAnswer(ReadAt(file, npos, Slot), npos, stale)
  /\ file' = DeleteAt(file, npos, stale)

\* Mutant of RioDelete: the read buffer stays valid.
RioDeleteKeepsBuffer ==
  /\ Direct("delete")
  /\ DeleteRecord
  /\ UNCHANGED <<positions, fsiz, buffer>>

RioDelete ==
  /\ Direct("delete")
  /\ Invalidate
  /\ DeleteRecord
  /\ UNCHANGED <<positions, fsiz>>

DirectFails ==
  /\ op.kind \in {"delete", "weof"} /\ ~MustFlush
  /\ Fail
  /\ Return
  /\ Invalidate
  /\ answer' = Plain("error")
  /\ UNCHANGED <<file, positions, fsiz>>

SetPosDone ==
  /\ Direct("setpos")
  /\ IF bflg = 1 /\ op.at \notin bpos .. bpos + blen - 1 THEN Invalidate
                                                          ELSE UNCHANGED buffer
  /\ npos' = op.at /\ lpos' = op.at
  /\ UNCHANGED <<file, fsiz, answer>>

RioEofPos ==
  /\ Direct("eofpos")
  /\ fsiz' = Len(file)
  /\ answer' = [Plain("eofpos") EXCEPT !.step = fsiz' - 1]
  /\ UNCHANGED <<file, positions, buffer>>

RioWeof ==
  /\ Direct("weof")
  /\ Invalidate
  /\ file' = Append(ReadAt(file, 0, npos), EOFC)
  /\ fsiz' = npos + 1
  /\ lpos' = npos
  /\ UNCHANGED <<npos, answer>>

RioFlush ==
  /\ Direct("flush")
  /\ Invalidate
  /\ UNCHANGED <<file, positions, fsiz, answer>>

\* rioclose, and rioopen again with an empty record table entry; rioopen
\* refuses a file of this type that does not end in its mark.
RioReopen ==
  /\ Direct("close")
  /\ file[Len(file)] = EOFC
  /\ Invalidate
  /\ npos' = 0 /\ lpos' = 0
  /\ fsiz' = Len(file)
  /\ UNCHANGED <<file, answer>>

RioOpenRefused ==
  /\ op.kind = "close" /\ ~MustFlush
  /\ file[Len(file)] # EOFC
  /\ op' = [Idle EXCEPT !.kind = "closed"]
  /\ UNCHANGED <<choice, file, positions, fsiz, buffer, answer, failures>>

BufferInit ==
  /\ parts \in BOOLEAN /\ failing \in BOOLEAN /\ ~(parts /\ failing)
  /\ file = <<EOFC>>
  /\ npos = 0 /\ lpos = 0 /\ fsiz = 1
  /\ bflg = 0 /\ bpos = 0 /\ bwst = 0 /\ buf = <<>>
  /\ op = Idle
  /\ answer = NoAnswer
  /\ failures = 0

Step ==
  \/ RioXwb \/ RioXgbReads
  \/ RioGetTakes \/ RioPrevTakes \/ RioPrevAtBegin
  \/ RioPutChunk
  \/ RioDelete \/ SetPosDone \/ RioEofPos \/ RioWeof \/ RioFlush
  \/ RioReopen \/ RioOpenRefused

Fault == RioXwbFails \/ RioXgbRefused \/ RioXgbFails \/ DirectFails

BufferNext == RioPut \/ RioParPut \/ RioSetPos \/ RioClose \/ RioCall \/ Step \/ Fault

BufferSpec == BufferInit /\ [][BufferNext]_bvars
FairBufferSpec == BufferSpec /\ WF_bvars(Step)

-----------------------------------------------------------------------------
\* A valid read buffer has what the file has at its position, of which it
\* answers gets without a look at the file (rioxgb 1922-1933; every call
\* that writes makes the buffer invalid or a write buffer first).
Fresh == bflg = 1 => bpos % Bsiz = 0 /\ buf = ReadAt(file, bpos, Bsiz)
BufferIsFile == failures = 0 => Fresh

\* The same when a lock or a read has failed in between (fio.h:109-116).
BufferStaysFile == Fresh

\* The cells to write are within the memory of the buffer and not empty: a
\* record that passes the end of the buffer goes on in the next one (rioput
\* 1355-1391, riosetpos 1699-1704).
WriteBufferInBounds == bflg = 2 => bpos % Bsiz = 0 /\ bwst < blen /\ blen <= Bsiz

\* Between calls, until one fails, fsiz is the size the file has once the buffer
\* is written; it decides whether a put also writes the end mark (rioput
\* 1332-1349).  Only a delete that made a deleted slot of RecSize data cells at
\* the end of the file (riodelete 1587) leaves fsiz one cell short: it does not
\* set fsiz, but a put that comes as far looks at the size of the file itself.
FsizIsSize == op = Idle /\ failures = 0 =>
  \/ fsiz = Len(Behind)
  \/ fsiz + 1 = Len(Behind) /\ Len(file) = Len(Behind) /\ Behind[Len(Behind)] = DEL

\* With the buffer, gets, prevs, deletes and end positions answer what they
\* answer without one, and what is in the file and the write buffer is what
\* the calls without one leave in the file, in every order of calls (rio.c
\* 464-1490, 1530-1843, 1911-1975).  This is promised until the first failure.
Unbuffered == INSTANCE RecordFile WITH
  file <- Logical,
  npos <- IF Putting THEN op.at + Moves(op.cells) ELSE npos,
  lpos <- IF Putting THEN npos ELSE lpos
ImplementsRecordFile ==
  /\ Unbuffered!RecordInit
  /\ [][failures' = 0 => Unbuffered!RecordNext \/ UNCHANGED Unbuffered!rvars]_bvars

\* What programs put is lost from the file and the buffer only in a call
\* that answers an error, in whichever call the late write fails (rioxwb
\* 1959-1969 and the calls that return its result).
Writes == op.kind \in {"idle", "delete", "weof"}
LossIsReported ==
  [][Logical' # Logical /\ ~Writes => answer'.kind = "error" /\ op'.kind \in {"idle", "close"}]_bvars

\* Every call ends: the loops that fill a buffer or move a record through
\* buffers make progress (rioget 500-728, rioput 1357-1391).
CallsReturn == op # Idle ~> op.kind \in {"idle", "closed"}
=============================================================================
