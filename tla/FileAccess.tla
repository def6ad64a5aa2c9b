---------------------------- MODULE FileAccess ----------------------------
(***************************************************************************)
(* Reads and writes of fio.c on one file of one process.  The process      *)
(* remembers the position of its system handle (h->npos) to save seeks and *)
(* the size of the file (h->fsiz) to save questions; it closes the system  *)
(* handle behind the program's back and opens it again; calls of the       *)
(* system fail; others change the file, one of mode EXC only while the     *)
(* handle, and with it the lock of its mode, is closed.                    *)
(***************************************************************************)
EXTENDS FileCells, Integers

CONSTANTS
  Value,    \* what a cell can hold
  MaxLen,   \* bound: no call reaches beyond MaxLen cells
  MaxCount  \* bound: no call reads or writes more cells

Unknown == -1 \* of npos and fsiz
ASSUME FileAccessAssumption == {MaxLen, MaxCount} \subseteq Nat

VARIABLES
  disk,     \* the cells of the file
  ospos,    \* the position of the system handle
  h,        \* the struct htab: mode, open (hndl # -1), npos, fsiz
  answer,   \* what the last call answered; "flush": fioflush has closed the handle
  lost      \* "place": a read or a write has failed; "alone": another process
            \* has changed a file of mode EXC

avars == <<disk, ospos, h, answer, lost>>

Places == 0 .. MaxLen
Answer(kind, cells, size) == answer' = [kind |-> kind, cells |-> cells, size |-> size]
Done == Answer("done", <<>>, 0)
Error == Answer("error", <<>>, 0)

(***************************************************************************)
(* fiotouch opens the handle if it is closed; its position is 0 then.      *)
(***************************************************************************)
\* Mutant of Touched: npos is left as it was.
TouchedStale == [h EXCEPT !.open = TRUE]
Touched == IF h.open THEN h ELSE [h EXCEPT !.open = TRUE, !.npos = 0]
TouchedPos == IF h.open THEN ospos ELSE 0

\* No seek to where the handle is believed to be.
Where(fpos) == IF fpos = Touched.npos THEN TouchedPos ELSE fpos

\* The calls at fpos within the bounds.
Counts(fpos) == {n \in 1 .. MaxCount : Most(fpos, Where(fpos)) + n <= MaxLen}

\* Mutant of Reached: fsiz does not grow.
ReachedOnly(pos) == [Touched EXCEPT !.npos = pos]

\* After a call that ends at pos.
Reached(pos) == [Touched EXCEPT !.npos = pos,
  !.fsiz = IF @ = Unknown THEN @ ELSE Most(@, pos)]

Fioread(fpos, n) ==
  LET got == ReadAt(disk, Where(fpos), n)
  IN /\ Answer("read", got, 0)
     /\ ospos' = Where(fpos) + Len(got)
     /\ h' = IF got = <<>> THEN [Touched EXCEPT !.npos = Unknown] ELSE Reached(fpos + Len(got))
     /\ UNCHANGED <<disk, lost>>

Fiowrite(fpos, cells) ==
  /\ h.mode # "SRO"
  /\ disk' = WriteAt(disk, Where(fpos), cells)
  /\ ospos' = Where(fpos) + Len(cells)
  /\ h' = Reached(fpos + Len(cells))
  /\ Done /\ UNCHANGED lost

Fiogetsize ==
  /\ IF h.mode = "SHR" \/ h.fsiz = Unknown
     THEN /\ ospos' = Len(disk)
          /\ h' = [Touched EXCEPT !.npos = Len(disk), !.fsiz = Len(disk)]
     ELSE UNCHANGED <<ospos, h>>
  /\ Answer("size", <<>>, h'.fsiz)
  /\ UNCHANGED <<disk, lost>>

\* ftruncate, and a seek to the new end.
Fiotrunc(size) ==
  /\ h.mode # "SRO"
  /\ disk' = [i \in 1 .. size |-> IF i <= Len(disk) THEN disk[i] ELSE Zero]
  /\ ospos' = size
  /\ h' = [Touched EXCEPT !.npos = size, !.fsiz = size]
  /\ Done /\ UNCHANGED lost

(***************************************************************************)
(* Failures.  A call that fails to read or to write has already moved the  *)
(* handle, and perhaps written some of the cells.                          *)
(***************************************************************************)
FioreadFails(fpos) ==
  /\ lost' = lost \cup {"place"}
  /\ ospos' = Where(fpos)
  /\ h' = Touched
  /\ Error
  /\ UNCHANGED disk

FiowriteFails(fpos, cells) == \E n \in 0 .. Len(cells) - 1 :
  /\ h.mode # "SRO"
  /\ lost' = lost \cup {"place"}
  /\ disk' = IF n = 0 THEN disk ELSE WriteAt(disk, Where(fpos), SubSeq(cells, 1, n))
  /\ ospos' = Where(fpos) + n
  /\ h' = Touched
  /\ Error

FiotruncFails ==
  /\ ospos' = TouchedPos
  /\ h' = [Touched EXCEPT !.npos = Unknown]
  /\ Error
  /\ UNCHANGED <<disk, lost>>

(***************************************************************************)
(* fioflush: a handle that cannot be flushed is closed whatever its mode,  *)
(* which gives the lock of an exclusive file back, and then opened again,  *)
(* if that is possible.  A flush that succeeds only opens the handle.      *)
(***************************************************************************)
Flushing == answer.kind = "flush"

FioflushFails ==
  /\ ospos' = TouchedPos
  /\ h' = [Touched EXCEPT !.open = FALSE]
  /\ Answer("flush", <<>>, 0)
  /\ UNCHANGED <<disk, lost>>

FioflushOpens ==
  /\ ospos' = TouchedPos
  /\ h' = Touched
  /\ Done /\ UNCHANGED <<disk, lost>>

\* Any call may find that a closed file cannot be opened.
FiotouchFails ==
  /\ ~h.open
  /\ Error
  /\ UNCHANGED <<disk, ospos, h, lost>>

\* fioclru, to stay below openlimit.
Fioclru ==
  /\ h.open /\ h.mode # "EXC"
  /\ h' = [h EXCEPT !.open = FALSE]
  /\ Done /\ UNCHANGED <<disk, ospos, lost>>

\* Another process writes to the file or cuts it.
Other ==
  /\ h.mode = "EXC" => ~h.open
  /\ \/ \E fpos \in Places, v \in Value : fpos < MaxLen /\ disk' = WriteAt(disk, fpos, <<v>>)
     \/ \E n \in 0 .. Len(disk) : disk' = SubSeq(disk, 1, n)
  /\ lost' = IF h.mode = "EXC" THEN lost \cup {"alone"} ELSE lost
  /\ UNCHANGED <<ospos, h, answer>>

AccessInit ==
  /\ disk \in UNION {[1 .. n -> Value] : n \in 0 .. 1}
  /\ ospos = 0
  /\ \E m \in {"SRO", "SHR", "EXC"} :
       h = [mode |-> m, open |-> TRUE, npos |-> 0, fsiz |-> Unknown]
  /\ answer = [kind |-> "done", cells |-> <<>>, size |-> 0]
  /\ lost = {}

Reads == \E fpos \in Places : \E n \in Counts(fpos) : Fioread(fpos, n)
Written(fpos) == UNION {[1 .. n -> Value] : n \in Counts(fpos)}
Writes == \E fpos \in Places : \E cells \in Written(fpos) : Fiowrite(fpos, cells)
ReadFails == \E fpos \in Places : FioreadFails(fpos)
WriteFails == \E fpos \in Places : \E cells \in Written(fpos) : FiowriteFails(fpos, cells)
Truncates == \E size \in Places : Fiotrunc(size)

AccessNext ==
  \/ /\ ~Flushing
     /\ \/ Reads \/ Writes \/ Fiogetsize \/ Truncates
        \/ ReadFails \/ WriteFails \/ FiotruncFails \/ FioflushFails \/ Fioclru
  \/ FioflushOpens \/ FiotouchFails \/ Other

AccessSpec == AccessInit /\ [][AccessNext]_avars

-----------------------------------------------------------------------------
\* While the handle is open, a position that is remembered is the position of
\* the handle: the seeks that are saved would change nothing. Closes of the
\* handle, changes by others and failed calls do not disturb it, except for
\* failed reads and writes (fio.c 898-910, 940-949, 988-990, 1073-1076,
\* 1114-1116).
PositionSurvives == h.open /\ h.npos # Unknown => ospos = h.npos
PositionIsKnown == "place" \notin lost => PositionSurvives

\* A read answers what the file has at the position that it asks for, and a
\* write puts the cells there, whatever calls, closes of the handle and
\* changes by others went before (fio.c 876-955).
ReadsThere == []["place" \notin lost => \A fpos \in Places : \A n \in Counts(fpos) :
  Fioread(fpos, n) => answer'.cells = ReadAt(disk, fpos, n)]_avars
WritesThere == []["place" \notin lost => \A fpos \in Places : \A cells \in Written(fpos) :
  Fiowrite(fpos, cells) => disk' = WriteAt(disk, fpos, cells)]_avars

\* The size that is answered is the size of the file: for a shared file in
\* any case, and for an exclusive one, although the system is asked only once
\* and the handle may be closed since, until a read or a write fails or another
\* process changes the file, which it can only after a flush has failed and
\* given the lock of the file back (fio.c 958-998, 1082-1099).
SizeIsLength == [][Fiogetsize /\ (h.mode = "SHR" \/ (h.mode = "EXC" /\ lost = {})) =>
  answer'.size = Len(disk)]_avars
=============================================================================
