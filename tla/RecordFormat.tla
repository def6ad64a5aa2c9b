--------------------------- MODULE RecordFormat ---------------------------
(***************************************************************************)
(* Records of rio.c in a file: fixed length, not compressed, DB/C type     *)
(* (RIO_FIX, RIO_UNC, RIO_T_STD), as cells of a file.                      *)
(***************************************************************************)
EXTENDS FileCells, FiniteSetsExt

CONSTANTS
  Value,   \* what a data cell can hold
  RecSize  \* data cells of a record

EOR == "eor"   \* DBCEOR, the cell after the data of a record
DEL == "del"   \* DBCDEL, every cell of a deleted record
EOFC == "eof"  \* DBCEOF, the last cell of a file

ASSUME RecordFormatAssumption == RecSize \in Nat \ {0} /\ Value \cap {EOR, DEL, EOFC} = {}

Data == Value \cup {Zero}
Cell == Data \cup {EOR, DEL, EOFC}
Slot == RecSize + 1

\* The number of cells at the begin, or at the end, of c that are in S.
Leading(c, S) == Min({i \in 0 .. Len(c) : i = Len(c) \/ c[i + 1] \notin S})
Trailing(c, S) == Min({i \in 0 .. Len(c) : i = Len(c) \/ c[Len(c) - i] \notin S})

NoAnswer == [kind |-> "none", data |-> <<>>, step |-> 0]
Plain(kind) == [NoAnswer EXCEPT !.kind = kind]
Failed(n) == [kind |-> "error", data |-> <<>>, step |-> n]

\* The rest of the slot at pos.
Rest(pos) == Slot - (pos % Slot)

\* What a program may put at pos: the rest of the record that begins there,
\* or with rioparput a part of it.
Puts(pos) == [1 .. Rest(pos) - 1 -> Value]
ParPuts(pos) == UNION {[1 .. n -> Value] : n \in 1 .. Rest(pos) - 1}

\* Mutant of PutCells: the end of the record is left to the next put.
PutCellsOpen(data, pos, size) ==
  IF pos + Len(data) + 1 >= size THEN data \o <<EOR, EOFC>>
  ELSE IF data = <<>> THEN <<EOR>> ELSE data
\* The cells of a put: the end mark moves with a record written up to it.
PutCells(data, pos, size) ==
  IF pos + Len(data) + 1 >= size THEN data \o <<EOR, EOFC>> ELSE data \o <<EOR>>
\* Mutant of Moves: the position stays behind the end mark.
MovesPastMark(cells) == Len(cells)
Moves(cells) == IF cells[Len(cells)] = EOFC THEN Len(cells) - 1 ELSE Len(cells)

(***************************************************************************)
(* rioget at pos.                                                          *)
(***************************************************************************)
\* More cells would not change what rioget makes of c.
GetEnough(c, pos) ==
  \/ Len(c) = Slot
  \/ /\ c # <<>>
     /\ IF c[1] = DEL THEN Len(c) >= Rest(pos) \/ Leading(c, {DEL}) < Len(c)
                      ELSE c[1] = EOFC \/ Leading(c, Data) < Len(c)

\* The answer for the cells c, and by how much the position moves.
GetAnswer(c, pos) ==
  LET dels == Least(Leading(c, {DEL}), Rest(pos))
      data == Leading(c, Data)
  IN IF c = <<>> THEN Failed(0)
     ELSE IF c[1] = DEL
     THEN IF dels = Rest(pos)
          THEN [kind |-> "deleted", data |-> <<>>, step |-> dels] ELSE Failed(dels)
     ELSE IF c[1] = EOFC THEN Plain("end")
     ELSE IF data = RecSize /\ Len(c) = Slot /\ c[Slot] = EOR
     THEN [kind |-> "record", data |-> SubSeq(c, 1, RecSize), step |-> Slot]
     ELSE Failed(IF data = Len(c) THEN data ELSE data + 1)

IsRecord(c, pos) == GetAnswer(c, pos).kind = "record"

\* riodelete overwrites a record that rioget would get.  If the file ends behind
\* the data cells of a record it looks for the EOR at what an earlier call has
\* left in its work buffer: stale says whether that is one.
Deletes(c, pos, stale) == IsRecord(c, pos) \/ (stale /\ Len(c) = RecSize /\ Leading(c, Data) = RecSize)
DeleteAnswer(c, pos, stale) == Plain(IF Deletes(c, pos, stale) THEN "deleted" ELSE "error")
DeleteAt(s, pos, stale) ==
  IF Deletes(ReadAt(s, pos, Slot), pos, stale)
  THEN WriteAt(s, pos, [i \in 1 .. Slot |-> DEL]) ELSE s

(***************************************************************************)
(* rioprev before pos > 0: the record, and one cell before it if there is  *)
(* one to verify.                                                          *)
(***************************************************************************)
Verify(pos) == IF Slot + 1 > pos THEN 0 ELSE 1
Back(pos) == IF Slot + 1 > pos THEN pos ELSE Slot
PrevCells(pos) == Back(pos) + Verify(pos)
BackDels(pos) == IF pos % Back(pos) # 0 THEN pos % Back(pos) ELSE Back(pos)

PrevEnough(c, pos) ==
  \/ Len(c) = PrevCells(pos)
  \/ /\ c # <<>>
     /\ IF c[Len(c)] = DEL
        THEN Len(c) >= BackDels(pos) + Verify(pos) \/ Trailing(c, {DEL}) < Len(c)
        ELSE c[Len(c)] # EOR \/ Trailing(SubSeq(c, 1, Len(c) - 1), Data) + 1 < Len(c)

\* Mutants of PrevDeleted: the cell before must be an EOR even if it is
\* deleted too; the position moves over one cell too many then.
PrevDeletedSingle(c, pos) ==
  LET lim == BackDels(pos)
  IN IF Trailing(c, {DEL}) >= lim /\ (Verify(pos) = 1 => c[Len(c) - lim] = EOR)
     THEN [Plain("deleted") EXCEPT !.step = lim] ELSE Failed(lim)
PrevDeletedLong(c, pos) ==
  LET lim == BackDels(pos)
      dels == Least(Trailing(c, {DEL}), lim + Verify(pos))
  IN IF dels >= lim THEN [Plain("deleted") EXCEPT !.step = dels] ELSE Failed(dels)

\* A run of deleted cells as long as the slot, after an EOR or further
\* deleted cells.
PrevDeleted(c, pos) ==
  LET lim == BackDels(pos)
      dels == Least(Trailing(c, {DEL}), lim + Verify(pos))
  IN IF /\ dels >= lim
        /\ Verify(pos) = 1 /\ dels = lim => c[Len(c) - dels] = EOR
     THEN [kind |-> "deleted", data |-> <<>>, step |-> lim] ELSE Failed(dels)

\* Data cells up to the end mark of the record before.
PrevData(c, pos) ==
  LET size == Trailing(SubSeq(c, 1, Len(c) - 1), Data) + 1
      verified == size < Len(c) /\ c[Len(c) - size] \in {EOR, DEL}
  IN IF size = Slot /\ (verified \/ Verify(pos) = 0)
     THEN [kind |-> "record", data |-> SubSeq(c, Len(c) - RecSize, Len(c) - 1), step |-> Slot]
     ELSE Failed(size)

PrevAnswer(c, pos) ==
  IF c = <<>> THEN Failed(0)
  ELSE IF c[Len(c)] = DEL THEN PrevDeleted(c, pos)
  ELSE IF c[Len(c)] # EOR THEN Failed(1)
  ELSE PrevData(c, pos)
=============================================================================
