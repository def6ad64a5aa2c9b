-------------------------- MODULE SupportProofs --------------------------
(***************************************************************************)
(* Proofs about three parts of the library that share no state, each in a  *)
(* section of its own: the data calls of fio (FileAccess), the exclusive   *)
(* open (FileOpen), and the timers and events (Events).                    *)
(***************************************************************************)
EXTENDS FileAccess, FileOpen, Events, SequenceTheorems, WellFoundedInduction, TLAPS

-----------------------------------------------------------------------------
(***************************************************************************)
(* FileAccess: until a read or a write fails the position that is          *)
(* remembered is that of the handle, so reads and writes go where they are *)
(* meant to, for files and calls of any length.                            *)
(***************************************************************************)
Cell == Value \cup {Zero}
Handles == [mode : {"SRO", "SHR", "EXC"}, open : BOOLEAN, npos : Int, fsiz : Int]

AccessTypeOK ==
  /\ disk \in Seq(Cell)
  /\ ospos \in Nat
  /\ h \in Handles

AccessInv == AccessTypeOK /\ PositionIsKnown

\* What is read or written is a sequence of cells, inside of the file or not.
LEMMA ReadAtCells ==
  ASSUME NEW s \in Seq(Cell), NEW pos \in Nat, NEW n \in Nat
  PROVE  ReadAt(s, pos, n) \in Seq(Cell)
<1> DEFINE m == Least(pos + n, Len(s))
<1>1. m \in Int /\ m <= Len(s)
  BY LenProperties DEF Least
<1>2. \A i \in pos + 1 .. m : s[i] \in Cell
  BY <1>1, LenProperties, ElementOfSeq
<1>3. SubSeq(s, pos + 1, m) \in Seq(Cell)
  BY <1>1, <1>2, SubSeqProperties
<1> QED BY <1>3 DEF ReadAt

LEMMA WriteAtCells ==
  ASSUME NEW s \in Seq(Cell), NEW pos \in Nat, NEW c \in Seq(Cell)
  PROVE  WriteAt(s, pos, c) \in Seq(Cell)
<1> DEFINE n == Most(Len(s), pos + Len(c))
<1>1. n \in Nat /\ Len(s) \in Nat /\ Len(c) \in Nat
  BY LenProperties DEF Most
<1>2. \A i \in 1 .. n : i \in pos + 1 .. pos + Len(c) => c[i - pos] \in Cell
  BY <1>1, ElementOfSeq
<1>3. \A i \in 1 .. n : i <= Len(s) => s[i] \in Cell
  BY <1>1, ElementOfSeq
<1>4. WriteAt(s, pos, c) \in [1 .. n -> Cell]
  BY <1>2, <1>3 DEF WriteAt, Cell
<1> QED BY <1>1, <1>4, SeqDef

\* A seek that is saved would not have moved the handle.
LEMMA TouchedType == AccessInv => Touched \in Handles /\ Touched.open /\ TouchedPos \in Nat
<1> SUFFICES ASSUME AccessInv PROVE Touched \in Handles /\ Touched.open /\ TouchedPos \in Nat
  OBVIOUS
<1> USE DEF AccessInv, AccessTypeOK, Handles
<1>1. CASE h.open
  BY <1>1 DEF Touched, TouchedPos
<1>2. CASE ~h.open
  <2> DEFINE opened == [h EXCEPT !.open = TRUE]
  <2>1. opened \in Handles /\ opened.open
    OBVIOUS
  <2>2. Touched = [opened EXCEPT !.npos = 0] /\ TouchedPos = 0
    BY <1>2 DEF Touched, TouchedPos
  <2> HIDE DEF opened
  <2> QED BY <2>1, <2>2
<1> QED BY <1>1, <1>2

\* A seek that is saved would not have moved the handle.
LEMMA SeekSaved == AccessInv => \A fpos \in Nat : Where(fpos) \in Nat /\ ("place" \notin lost => Where(fpos) = fpos)
<1> SUFFICES ASSUME AccessInv, NEW fpos \in Nat
             PROVE  Where(fpos) \in Nat /\ ("place" \notin lost => Where(fpos) = fpos)
  OBVIOUS
<1>1. Where(fpos) \in Nat
  BY TouchedType DEF Where
<1>2. ASSUME "place" \notin lost PROVE Where(fpos) = fpos
  BY <1>2 DEF AccessInv, AccessTypeOK, Handles, PositionIsKnown, PositionSurvives, Where, Touched,
     TouchedPos, Unknown
<1> QED BY <1>1, <1>2

LEMMA ReachedType == ASSUME AccessInv, NEW pos \in Int
  PROVE Reached(pos) \in Handles /\ Reached(pos).npos = pos
BY TouchedType DEF Reached, Handles, Most

\* A call at fpos that reaches n cells further.
LEMMA SetReached ==
  ASSUME AccessInv, NEW fpos \in Nat, NEW n \in Nat, h' = Reached(fpos + n),
         ospos' = Where(fpos) + n, disk' \in Seq(Cell), lost' = lost
  PROVE  AccessInv'
<1>1. h' \in Handles /\ h'.npos = fpos + n
  BY ReachedType
<1>2. ospos' \in Nat /\ ("place" \notin lost => ospos' = fpos + n)
  <2>1. Where(fpos) \in Nat /\ ("place" \notin lost => Where(fpos) = fpos)
    BY SeekSaved
  <2> QED BY <2>1
<1> QED BY <1>1, <1>2 DEF AccessInv, AccessTypeOK, PositionIsKnown, PositionSurvives

\* Position and size are set to where the handle is.
LEMMA SetBoth ==
  ASSUME AccessInv, NEW pos \in Nat, h' = [Touched EXCEPT !.npos = pos, !.fsiz = pos],
         ospos' = pos, disk' \in Seq(Cell)
  PROVE  AccessInv'
<1> DEFINE there == [Touched EXCEPT !.npos = pos]
<1>1. there \in Handles /\ there.npos = pos
  BY TouchedType DEF Handles
<1>2. h' = [there EXCEPT !.fsiz = pos]
  BY DEF there
<1> HIDE DEF there
<1>3. h' \in Handles /\ h'.npos = pos
  BY <1>1, <1>2 DEF Handles
<1> QED BY <1>3 DEF AccessInv, AccessTypeOK, PositionIsKnown, PositionSurvives

\* The position is not remembered.
LEMMA SetUnknown ==
  ASSUME AccessInv, h' = [Touched EXCEPT !.npos = Unknown], ospos' \in Nat, disk' \in Seq(Cell)
  PROVE  AccessInv'
<1>1. h' \in Handles /\ h'.npos = Unknown
  BY TouchedType DEF Handles, Unknown
<1> QED BY <1>1 DEF AccessInv, AccessTypeOK, PositionIsKnown, PositionSurvives

\* The position is lost.
LEMMA SetLost ==
  ASSUME AccessInv, h' = Touched, "place" \in lost', ospos' \in Nat, disk' \in Seq(Cell)
  PROVE  AccessInv'
BY TouchedType DEF AccessInv, AccessTypeOK, PositionIsKnown

LEMMA WrittenCells ==
  ASSUME NEW fpos, NEW cells \in Written(fpos)
  PROVE  cells \in Seq(Cell) /\ Len(cells) \in Nat
<1>1. PICK n \in Counts(fpos) : cells \in [1 .. n -> Value]
  BY DEF Written
<1>2. n \in Nat /\ cells \in [1 .. n -> Cell]
  BY <1>1, FileAccessAssumption DEF Counts, Cell
<1> QED BY <1>2, SeqDef, LenProperties

LEMMA ReadsOK == AccessInv /\ (Reads \/ ReadFails) => AccessInv'
<1> SUFFICES ASSUME AccessInv, Reads \/ ReadFails PROVE AccessInv'
  OBVIOUS
<1>1. CASE Reads
  <2>1. PICK fpos \in Places : \E n \in Counts(fpos) : Fioread(fpos, n)
    BY <1>1 DEF Reads
  <2>2. PICK n \in Counts(fpos) : Fioread(fpos, n)
    BY <2>1
  <2> DEFINE got == ReadAt(disk, Where(fpos), n)
  <2>3. fpos \in Nat /\ n \in Nat /\ Where(fpos) \in Nat
    BY SeekSaved, FileAccessAssumption DEF Places, Counts
  <2>4. got \in Seq(Cell) /\ Len(got) \in Nat /\ disk \in Seq(Cell)
    BY <2>3, ReadAtCells, LenProperties DEF AccessInv, AccessTypeOK
  <2> HIDE DEF got
  <2>5. ospos' = Where(fpos) + Len(got) /\ UNCHANGED <<disk, lost>>
    BY <2>2 DEF Fioread, got
  <2>6. ospos' \in Nat
    BY <2>3, <2>4, <2>5
  <2>7. CASE got = <<>>
    <3>1. h' = [Touched EXCEPT !.npos = Unknown]
      BY <2>2, <2>7 DEF Fioread, got
    <3> QED BY <2>4, <2>5, <2>6, <3>1, SetUnknown
  <2>8. CASE got # <<>>
    <3>1. h' = Reached(fpos + Len(got))
      BY <2>2, <2>8 DEF Fioread, got
    <3> QED BY <2>3, <2>4, <2>5, <3>1, SetReached
  <2> QED BY <2>7, <2>8
<1>2. CASE ReadFails
  <2>1. PICK fpos \in Places : FioreadFails(fpos)
    BY <1>2 DEF ReadFails
  <2>2. Where(fpos) \in Nat
    BY SeekSaved, FileAccessAssumption DEF Places
  <2> QED BY <2>1, <2>2, SetLost DEF FioreadFails, AccessInv, AccessTypeOK
<1> QED BY <1>1, <1>2

LEMMA WritesOK == AccessInv /\ (Writes \/ WriteFails) => AccessInv'
<1> SUFFICES ASSUME AccessInv, Writes \/ WriteFails PROVE AccessInv'
  OBVIOUS
<1>1. disk \in Seq(Cell)
  BY DEF AccessInv, AccessTypeOK
<1>2. CASE Writes
  <2>1. PICK fpos \in Places : \E cells \in Written(fpos) : Fiowrite(fpos, cells)
    BY <1>2 DEF Writes
  <2>2. PICK cells \in Written(fpos) : Fiowrite(fpos, cells)
    BY <2>1
  <2>3. fpos \in Nat /\ Where(fpos) \in Nat
    BY SeekSaved, FileAccessAssumption DEF Places
  <2>4. cells \in Seq(Cell) /\ Len(cells) \in Nat
    BY WrittenCells
  <2>5. disk' = WriteAt(disk, Where(fpos), cells) /\ ospos' = Where(fpos) + Len(cells)
          /\ h' = Reached(fpos + Len(cells)) /\ UNCHANGED lost
    BY <2>2 DEF Fiowrite
  <2>6. disk' \in Seq(Cell)
    BY <1>1, <2>3, <2>4, <2>5, WriteAtCells
  <2> QED BY <2>3, <2>4, <2>5, <2>6, SetReached
<1>3. CASE WriteFails
  <2>1. PICK fpos \in Places : \E cells \in Written(fpos) : FiowriteFails(fpos, cells)
    BY <1>3 DEF WriteFails
  <2>2. PICK cells \in Written(fpos) : FiowriteFails(fpos, cells)
    BY <2>1
  <2>3. Where(fpos) \in Nat
    BY SeekSaved, FileAccessAssumption DEF Places
  <2>4. cells \in Seq(Cell) /\ Len(cells) \in Nat
    BY WrittenCells
  <2>5. PICK n \in 0 .. Len(cells) - 1 :
          /\ disk' = IF n = 0 THEN disk ELSE WriteAt(disk, Where(fpos), SubSeq(cells, 1, n))
          /\ ospos' = Where(fpos) + n /\ h' = Touched /\ "place" \in lost'
    BY <2>2 DEF FiowriteFails
  <2>6. n \in Nat /\ SubSeq(cells, 1, n) \in Seq(Cell)
    <3>1. n \in Int /\ \A i \in 1 .. n : cells[i] \in Cell
      BY <2>4, ElementOfSeq
    <3>2. SubSeq(cells, 1, n) \in Seq(Cell)
      BY <3>1, SubSeqProperties
    <3> QED BY <2>4, <3>2
  <2>7. disk' \in Seq(Cell)
    BY <1>1, <2>3, <2>5, <2>6, WriteAtCells
  <2> QED BY <2>3, <2>5, <2>6, <2>7, SetLost
<1> QED BY <1>2, <1>3

LEMMA AccessNextOK == AccessInv /\ [AccessNext]_avars => AccessInv'
<1> SUFFICES ASSUME AccessInv, [AccessNext]_avars PROVE AccessInv'
  OBVIOUS
<1> USE DEF AccessInv, AccessTypeOK
<1>1. CASE UNCHANGED avars
  BY <1>1 DEF avars, PositionIsKnown, PositionSurvives
<1>2. CASE Reads \/ Writes \/ ReadFails \/ WriteFails
  BY <1>2, ReadsOK, WritesOK
<1>3. CASE Fiogetsize
  <2>1. CASE h.mode = "SHR" \/ h.fsiz = Unknown
    <3> DEFINE end == Len(disk)
    <3>1. end \in Nat
      BY LenProperties
    <3> HIDE DEF end
    <3>2. ospos' = end /\ h' = [Touched EXCEPT !.npos = end, !.fsiz = end] /\ disk' = disk
      BY <1>3, <2>1 DEF Fiogetsize, end
    <3> QED BY <3>1, <3>2, SetBoth
  <2>2. CASE ~(h.mode = "SHR" \/ h.fsiz = Unknown)
    BY <1>3, <2>2 DEF Fiogetsize, PositionIsKnown, PositionSurvives
  <2> QED BY <2>1, <2>2
<1>4. CASE Truncates
  <2>1. PICK size \in Places : Fiotrunc(size)
    BY <1>4 DEF Truncates
  <2>2. size \in Nat
    BY FileAccessAssumption DEF Places
  <2>3. disk' \in Seq(Cell)
    <3>1. disk' \in [1 .. size -> Cell]
      BY <2>1, <2>2, ElementOfSeq, LenProperties DEF Fiotrunc, Cell
    <3> QED BY <2>2, <3>1, SeqDef
  <2>4. h' = [Touched EXCEPT !.npos = size, !.fsiz = size] /\ ospos' = size
    BY <2>1 DEF Fiotrunc
  <2> QED BY <2>2, <2>3, <2>4, SetBoth
<1>5. CASE FiotruncFails
  <2>1. h' = [Touched EXCEPT !.npos = Unknown] /\ ospos' = TouchedPos /\ disk' = disk
    BY <1>5 DEF FiotruncFails
  <2>2. ospos' \in Nat
    BY <2>1, TouchedType
  <2> QED BY <2>1, <2>2, SetUnknown
<1>6. CASE FiotouchFails
  BY <1>6 DEF FiotouchFails, PositionIsKnown, PositionSurvives
<1>7. CASE FioflushFails \/ FioflushOpens
  <2>1. disk' = disk /\ lost' = lost /\ ospos' = TouchedPos /\ ospos' \in Nat
    BY <1>7, TouchedType DEF FioflushFails, FioflushOpens
  <2>2. CASE FioflushFails
    <3>1. h' \in Handles /\ ~h'.open
      BY <2>2, TouchedType DEF FioflushFails, Handles
    <3> QED BY <2>1, <3>1 DEF PositionIsKnown, PositionSurvives
  <2>3. CASE FioflushOpens
    <3>1. h' = Touched /\ h' \in Handles
      BY <2>3, TouchedType DEF FioflushOpens
    <3>2. "place" \notin lost /\ h'.npos # Unknown => ospos' = h'.npos
      BY <2>1, <3>1 DEF Touched, TouchedPos, PositionIsKnown, PositionSurvives, Handles
    <3> QED BY <2>1, <3>1, <3>2 DEF PositionIsKnown, PositionSurvives
  <2> QED BY <1>7, <2>2, <2>3
<1>8. CASE Fioclru
  BY <1>8 DEF Fioclru, PositionIsKnown, PositionSurvives, Handles
<1>9. CASE Other
  <2>1. UNCHANGED <<ospos, h>> /\ ("place" \notin lost' => "place" \notin lost)
    BY <1>9 DEF Other
  <2>2. disk' \in Seq(Cell)
    <3>1. CASE \E fpos \in Places, v \in Value : fpos < MaxLen /\ disk' = WriteAt(disk, fpos, <<v>>)
      <4>1. PICK fpos \in Places, v \in Value : disk' = WriteAt(disk, fpos, <<v>>)
        BY <3>1
      <4>2. <<v>> \in Seq(Cell) /\ fpos \in Nat
        BY FileAccessAssumption DEF Cell, Places
      <4> QED BY <4>1, <4>2, WriteAtCells
    <3>2. CASE \E n \in 0 .. Len(disk) : disk' = SubSeq(disk, 1, n)
      <4>1. PICK n \in 0 .. Len(disk) : disk' = SubSeq(disk, 1, n)
        BY <3>2
      <4>2. \A i \in 1 .. n : disk[i] \in Cell
        BY LenProperties, ElementOfSeq
      <4> QED BY <4>1, <4>2, LenProperties, SubSeqProperties
    <3> QED BY <1>9, <3>1, <3>2 DEF Other
  <2> QED BY <2>1, <2>2 DEF PositionIsKnown, PositionSurvives
<1> QED BY <1>1, <1>2, <1>3, <1>4, <1>5, <1>6, <1>7, <1>8, <1>9 DEF AccessNext

LEMMA AccessInvariant == AccessSpec => []AccessInv
<1>1. AccessInit => AccessInv
  <2> SUFFICES ASSUME AccessInit PROVE AccessInv
    OBVIOUS
  <2>1. PICK n \in 0 .. 1 : disk \in [1 .. n -> Value]
    BY DEF AccessInit
  <2>2. n \in Nat /\ disk \in [1 .. n -> Cell]
    BY <2>1 DEF Cell
  <2>3. disk \in Seq(Cell)
    BY <2>2, SeqDef
  <2>4. h \in Handles /\ h.npos = 0 /\ ospos = 0
    BY DEF AccessInit, Handles, Unknown
  <2> QED BY <2>3, <2>4 DEF AccessInv, AccessTypeOK, PositionIsKnown, PositionSurvives
<1> QED BY <1>1, AccessNextOK, PTL DEF AccessSpec

\* Until a read or a write fails, the position that is remembered is that of
\* the handle: closes of the handle, changes by others and other failures do
\* not disturb it (fio.c 898-910, 940-949, 988-990, 1073-1076, 1114-1116).
THEOREM PositionKnown == AccessSpec => []PositionIsKnown
BY AccessInvariant, PTL DEF AccessInv

\* Until then every read answers what the file has where it was asked for
\* (fio.c 876-912).
THEOREM ReadsGoThere == AccessSpec => ReadsThere
<1>1. AccessInv => ("place" \notin lost => \A fpos \in Places : \A n \in Counts(fpos) :
        Fioread(fpos, n) => answer'.cells = ReadAt(disk, fpos, n))
  BY SeekSaved, FileAccessAssumption DEF Fioread, Answer, Places
<1> QED BY <1>1, AccessInvariant, PTL DEF ReadsThere

\* Until then every write changes the cells it was asked to change (fio.c
\* 915-955).
THEOREM WritesGoThere == AccessSpec => WritesThere
<1>1. AccessInv => ("place" \notin lost => \A fpos \in Places : \A cells \in Written(fpos) :
        Fiowrite(fpos, cells) => disk' = WriteAt(disk, fpos, cells))
  BY SeekSaved, FileAccessAssumption DEF Fiowrite, Places
<1> QED BY <1>1, AccessInvariant, PTL DEF WritesThere
(***************************************************************************)
(* The size of an exclusive file.                                          *)
(***************************************************************************)
\* Only a failed read or write, or another process while the handle of the file
\* is closed by a failed flush, makes the size that is remembered a wrong one.
SizeIsKnown == h.mode = "EXC" /\ lost = {} /\ h.fsiz # Unknown => h.fsiz = Len(disk)

LEMMA ReadAtLength ==
  ASSUME NEW s \in Seq(Cell), NEW pos \in Nat, NEW n \in Nat
  PROVE  ReadAt(s, pos, n) # <<>> => pos + Len(ReadAt(s, pos, n)) <= Len(s)
<1> DEFINE m == Least(pos + n, Len(s))
<1>1. m \in Int /\ m <= Len(s)
  BY LenProperties DEF Least
<1>2. \A i \in pos + 1 .. m : s[i] \in Cell
  BY <1>1, LenProperties, ElementOfSeq
<1>3. SubSeq(s, pos + 1, m) \in Seq(Cell)
      /\ Len(SubSeq(s, pos + 1, m)) = IF pos + 1 <= m THEN m - (pos + 1) + 1 ELSE 0
  BY <1>1, <1>2, SubSeqProperties
<1>4. SubSeq(s, pos + 1, m) # <<>> => Len(SubSeq(s, pos + 1, m)) # 0
  BY <1>3, EmptySeq
<1> QED BY <1>1, <1>3, <1>4 DEF ReadAt

LEMMA WriteAtLength ==
  ASSUME NEW s \in Seq(Cell), NEW pos \in Nat, NEW c \in Seq(Cell)
  PROVE  Len(WriteAt(s, pos, c)) = Most(Len(s), pos + Len(c))
<1>1. Most(Len(s), pos + Len(c)) \in Nat
  BY LenProperties DEF Most
<1> QED BY <1>1 DEF WriteAt

LEMMA ReachedSize ==
  ASSUME AccessInv, NEW pos \in Int
  PROVE  /\ Reached(pos).mode = h.mode
         /\ Reached(pos).fsiz = IF h.fsiz = Unknown THEN Unknown ELSE Most(h.fsiz, pos)
<1>1. Touched \in Handles /\ Touched.mode = h.mode /\ Touched.fsiz = h.fsiz
  BY TouchedType DEF Touched, AccessInv, AccessTypeOK, Handles
<1> QED BY <1>1 DEF Reached, Handles

LEMMA TouchedSize == AccessInv => Touched.mode = h.mode /\ Touched.fsiz = h.fsiz
BY DEF Touched, AccessInv, AccessTypeOK, Handles

LEMMA SizeNextOK == AccessInv /\ SizeIsKnown /\ [AccessNext]_avars => SizeIsKnown'
<1> SUFFICES ASSUME AccessInv, SizeIsKnown, [AccessNext]_avars PROVE SizeIsKnown'
  OBVIOUS
<1>1. disk \in Seq(Cell) /\ Len(disk) \in Nat /\ h \in Handles
  BY LenProperties DEF AccessInv, AccessTypeOK
<1>2. CASE UNCHANGED avars
  BY <1>2 DEF avars, SizeIsKnown
<1>3. CASE Reads
  <2>1. PICK fpos \in Places : \E n \in Counts(fpos) : Fioread(fpos, n)
    BY <1>3 DEF Reads
  <2>2. PICK n \in Counts(fpos) : Fioread(fpos, n)
    BY <2>1
  <2> DEFINE got == ReadAt(disk, Where(fpos), n)
  <2>3. fpos \in Nat /\ n \in Nat /\ Where(fpos) \in Nat /\ ("place" \notin lost => Where(fpos) = fpos)
    BY SeekSaved, FileAccessAssumption DEF Places, Counts
  <2>4. Len(got) \in Nat /\ (got # <<>> => Where(fpos) + Len(got) <= Len(disk))
    BY <1>1, <2>3, ReadAtCells, ReadAtLength, LenProperties
  <2>5. /\ h' = IF got = <<>> THEN [Touched EXCEPT !.npos = Unknown] ELSE Reached(fpos + Len(got))
        /\ UNCHANGED <<disk, lost>>
    BY <2>2 DEF Fioread
  <2> HIDE DEF got
  <2>6. CASE got = <<>>
    BY <2>5, <2>6, TouchedType, TouchedSize DEF SizeIsKnown, Handles
  <2>7. CASE got # <<>>
    BY <1>1, <2>3, <2>4, <2>5, <2>7, ReachedSize DEF SizeIsKnown, Handles, Most
  <2> QED BY <2>6, <2>7
<1>4. CASE Writes
  <2>1. PICK fpos \in Places : \E cells \in Written(fpos) : Fiowrite(fpos, cells)
    BY <1>4 DEF Writes
  <2>2. PICK cells \in Written(fpos) : Fiowrite(fpos, cells)
    BY <2>1
  <2>3. fpos \in Nat /\ Where(fpos) \in Nat /\ ("place" \notin lost => Where(fpos) = fpos)
    BY SeekSaved, FileAccessAssumption DEF Places
  <2>4. cells \in Seq(Cell) /\ Len(cells) \in Nat
    BY WrittenCells
  <2>5. disk' = WriteAt(disk, Where(fpos), cells) /\ h' = Reached(fpos + Len(cells)) /\ lost' = lost
    BY <2>2 DEF Fiowrite
  <2>6. Len(disk') = Most(Len(disk), Where(fpos) + Len(cells))
    BY <1>1, <2>3, <2>4, <2>5, WriteAtLength
  <2> QED BY <1>1, <2>3, <2>4, <2>5, <2>6, ReachedSize DEF SizeIsKnown, Handles, Most
<1>5. CASE Fiogetsize
  <2>1. CASE h.mode = "SHR" \/ h.fsiz = Unknown
    BY <1>5, <2>1, TouchedType DEF Fiogetsize, SizeIsKnown, Handles
  <2>2. CASE ~(h.mode = "SHR" \/ h.fsiz = Unknown)
    BY <1>5, <2>2 DEF Fiogetsize, SizeIsKnown
  <2> QED BY <2>1, <2>2
<1>6. CASE Truncates
  <2>1. PICK size \in Places : Fiotrunc(size)
    BY <1>6 DEF Truncates
  <2>2. size \in Nat
    BY FileAccessAssumption DEF Places
  <2>3. Len(disk') = size
    BY <2>1, <2>2 DEF Fiotrunc
  <2>4. h'.fsiz = size
    BY <2>1, TouchedType DEF Fiotrunc, Handles
  <2> QED BY <2>3, <2>4 DEF SizeIsKnown
<1>7. CASE ReadFails \/ WriteFails
  BY <1>7 DEF ReadFails, WriteFails, FioreadFails, FiowriteFails, SizeIsKnown
<1>8. CASE FiotruncFails
  BY <1>8, TouchedType, TouchedSize DEF FiotruncFails, SizeIsKnown, Handles
<1>9. CASE FioflushFails \/ FioflushOpens
  <2>1. h'.mode = h.mode /\ h'.fsiz = h.fsiz /\ UNCHANGED <<disk, lost>>
    BY <1>9, TouchedType, TouchedSize DEF FioflushFails, FioflushOpens, Handles
  <2> QED BY <2>1 DEF SizeIsKnown
<1>10. CASE FiotouchFails \/ Fioclru
  BY <1>1, <1>10 DEF FiotouchFails, Fioclru, SizeIsKnown, Handles
<1>11. CASE Other
  <2>1. h' = h /\ (h.mode = "EXC" => "alone" \in lost')
    BY <1>11 DEF Other
  <2> QED BY <2>1 DEF SizeIsKnown
<1> QED BY <1>2, <1>3, <1>4, <1>5, <1>6, <1>7, <1>8, <1>9, <1>10, <1>11 DEF AccessNext

\* The size that is answered is the size of the file: for a shared file in any
\* case, for an exclusive one until a read or a write fails or another process
\* changes the file while a failed flush has it closed (fio.c 958-998, 1082-1099).
THEOREM SizeAnswered == AccessSpec => SizeIsLength
<1>1. AccessInit => SizeIsKnown
  BY DEF AccessInit, SizeIsKnown
<1>2. AccessInv /\ SizeIsKnown =>
        (Fiogetsize /\ (h.mode = "SHR" \/ (h.mode = "EXC" /\ lost = {})) => answer'.size = Len(disk))
  <2> SUFFICES ASSUME AccessInv, SizeIsKnown, Fiogetsize,
                      h.mode = "SHR" \/ (h.mode = "EXC" /\ lost = {})
               PROVE  answer'.size = Len(disk)
    OBVIOUS
  <2>1. answer'.size = h'.fsiz
    BY DEF Fiogetsize, Answer
  <2>2. CASE h.mode = "SHR" \/ h.fsiz = Unknown
    BY <2>1, <2>2, TouchedType DEF Fiogetsize, Handles
  <2>3. CASE ~(h.mode = "SHR" \/ h.fsiz = Unknown)
    BY <2>1, <2>3 DEF Fiogetsize, SizeIsKnown
  <2> QED BY <2>2, <2>3
<1> QED BY <1>1, <1>2, AccessInvariant, SizeNextOK, PTL DEF AccessSpec, SizeIsLength

-----------------------------------------------------------------------------
(***************************************************************************)
(* FileOpen: for any number of processes and any modes an exclusive open is*)
(* alone, and only a prepare changes the data of another process beside it.*)
(***************************************************************************)
LEMMA OpenInitOK == OpenInit => OpenInv
BY DEF OpenInit, OpenInv, OpenTypeOK, LocksExclude, OpenIsLocked, FioModes, Stage

(***************************************************************************)
(* A step of one process: OpenInv survives it when the types do, the locks *)
(* of the others stay, and the process has what its new stage asks for.    *)
(***************************************************************************)
LEMMA StepKeeps ==
  ASSUME OpenInv, NEW p \in Proc, OpenTypeOK',
         \A q \in Proc \ {p} : lock'[q] = lock[q] /\ mode'[q] = mode[q] /\ stage'[q] = stage[q],
         \/ lock'[p] \in {"none", lock[p]}
         \/ CanLock(p, lock'[p]) /\ lock'[p] \in {"read", "write"},
         stage'[p] \in {"probed", "open"} => lock'[p] = LockKind(mode'[p])
  PROVE  OpenInv'
<1> USE DEF OpenInv, OpenTypeOK
<1>1. LocksExclude'
  <2> SUFFICES ASSUME NEW a \in Proc, NEW b \in Proc, a # b, lock'[a] = "write"
               PROVE  lock'[b] = "none"
    BY DEF LocksExclude
  <2>1. CASE a = p
    BY <2>1 DEF LocksExclude, CanLock
  <2>2. CASE b = p
    BY <2>2 DEF LocksExclude, CanLock
  <2>3. CASE a # p /\ b # p
    BY <2>3 DEF LocksExclude
  <2> QED BY <2>1, <2>2, <2>3
<1>2. OpenIsLocked'
  BY DEF OpenIsLocked, LockKind
<1> QED BY <1>1, <1>2

LEMMA OpenNextOK == OpenInv /\ [OpenNext]_ovars => OpenInv'
<1> SUFFICES ASSUME OpenInv, [OpenNext]_ovars PROVE OpenInv'
  OBVIOUS
<1> USE DEF OpenTypeOK, OpenInv, OpenIsLocked, FioModes, Stage, Goto, Failed
<1>1. CASE UNCHANGED ovars
  BY <1>1 DEF ovars, LocksExclude, LockKind
<1>2. CASE OpenNext
  <2>1. PICK p \in Proc : OpenStep(p)
    BY <1>2 DEF OpenNext
  <2>2. CASE Fioopen(p)
    BY <2>2, StepKeeps, FileOpenAssumption DEF Fioopen
  <2>3. CASE OpenExisting(p)
    BY <2>3, StepKeeps DEF OpenExisting
  <2>4. CASE NotFound(p)
    BY <2>4, StepKeeps DEF NotFound
  <2>5. CASE Create(p)
    BY <2>5, StepKeeps DEF Create
  <2>6. CASE CreateRefused(p)
    BY <2>6, StepKeeps DEF CreateRefused
  <2>7. CASE Locked(p)
    BY <2>7, StepKeeps DEF Locked, LockKind
  <2>8. CASE LockRefused(p)
    BY <2>8, StepKeeps DEF LockRefused
  <2>9. CASE ProbeEnds(p)
    BY <2>9, StepKeeps DEF ProbeEnds
  <2>10. CASE Write(p)
    BY <2>10, StepKeeps DEF Write
  <2>11. CASE Close(p)
    BY <2>11, StepKeeps DEF Close
  <2>12. CASE TempClose(p)
    BY <2>12, StepKeeps DEF TempClose
  <2>13. CASE Fiotouch(p)
    BY <2>13, StepKeeps DEF Fiotouch
  <2> QED BY <2>1, <2>2, <2>3, <2>4, <2>5, <2>6, <2>7, <2>8, <2>9, <2>10, <2>11, <2>12, <2>13
          DEF OpenStep
<1> QED BY <1>1, <1>2

\* Who has the file open, or probes it, has the lock of its mode
\* (fioaopen 149-176, fioaclose 254).
THEOREM OpenInvariant == OpenSpec => []OpenInv
BY OpenInitOK, OpenNextOK, PTL DEF OpenSpec

\* An open for exclusive writing excludes every other open (fioaopen 149-174).
THEOREM ExclusiveAlone == OpenSpec => []ExclusiveIsAlone
<1>1. OpenInv => ExclusiveIsAlone
  BY DEF OpenInv, LocksExclude, OpenIsLocked, ExclusiveIsAlone, Opened, Exclusive, LockKind
<1> QED BY <1>1, OpenInvariant, PTL

(***************************************************************************)
(* Only PRP and EFC create a file, and one that is open exists.            *)
(***************************************************************************)
KeepsInv ==
  /\ \A p \in Proc : type[p] = 1 => mode[p] \in {"PRP", "EFC"}
  /\ \A p \in Proc : stage[p] \in {"locking", "probed", "open"} => exists

LEMMA KeepsNextOK == OpenInv /\ KeepsInv /\ [OpenNext]_ovars => KeepsInv'
<1> SUFFICES ASSUME OpenInv, KeepsInv, [OpenNext]_ovars PROVE KeepsInv'
  OBVIOUS
<1> USE DEF OpenInv, OpenTypeOK, KeepsInv, Goto, Failed
<1>1. CASE UNCHANGED ovars
  BY <1>1 DEF ovars
<1>2. CASE OpenNext
  <2>1. PICK p \in Proc : OpenStep(p)
    BY <1>2 DEF OpenNext
  <2>2. CASE Fioopen(p) \/ OpenExisting(p) \/ NotFound(p)
    BY <2>2 DEF Fioopen, OpenExisting, NotFound, Probes
  <2>3. CASE Create(p) \/ CreateRefused(p)
    BY <2>3 DEF Create, CreateRefused
  <2>4. CASE Locked(p) \/ LockRefused(p) \/ ProbeEnds(p)
    BY <2>4 DEF Locked, LockRefused, ProbeEnds
  <2>5. CASE Write(p) \/ Close(p) \/ TempClose(p) \/ Fiotouch(p)
    BY <2>5 DEF Write, Close, TempClose, Fiotouch
  <2> QED BY <2>1, <2>2, <2>3, <2>4, <2>5 DEF OpenStep
<1> QED BY <1>1, <1>2

LEMMA KeepsStep == OpenInv /\ KeepsInv /\ [OpenNext]_ovars =>
  (\A p \in Proc : Keeps(p)) \/ \E q \in Proc : mode[q] = "PRP" /\ Create(q)
<1> SUFFICES ASSUME OpenInv, KeepsInv, [OpenNext]_ovars,
                    \A q \in Proc : ~(mode[q] = "PRP" /\ Create(q)),
                    NEW p \in Proc, Opened(p), mode[p] \in Exclusive
             PROVE  data' \in {data, p}
  BY DEF Keeps
<1>1. CASE UNCHANGED ovars
  BY <1>1 DEF ovars
<1>2. CASE OpenNext
  <2>1. PICK q \in Proc : OpenStep(q)
    BY <1>2 DEF OpenNext
  <2>2. exists
    BY DEF KeepsInv, Opened
  <2>3. CASE Create(q)
    BY <2>2, <2>3 DEF KeepsInv, Create
  <2>4. CASE Write(q)
    <3>1. stage[q] = "open"
      BY <2>4 DEF Write
    <3>2. q = p
      BY <3>1 DEF OpenInv, LocksExclude, OpenIsLocked, Opened, Exclusive, LockKind
    <3> QED BY <2>4, <3>2 DEF Write
  <2>5. CASE ~Create(q) /\ ~Write(q)
    BY <2>1, <2>5 DEF OpenStep, Fioopen, OpenExisting, NotFound, CreateRefused, Locked,
       LockRefused, ProbeEnds, Close, TempClose, Fiotouch
  <2> QED BY <2>3, <2>4, <2>5
<1> QED BY <1>1, <1>2

\* Beside an exclusive open only its owner and a prepare change what is in
\* the file (fioaopen 106-121, 149-177).
THEOREM OnlyPrepare == OpenSpec => OnlyPrepareIntrudes
<1>1. OpenInit => KeepsInv
  BY DEF OpenInit, KeepsInv
<1>2. OpenInv /\ KeepsInv /\ [OpenNext]_ovars => KeepsInv'
  BY KeepsNextOK
<1>3. OpenInv /\ KeepsInv /\ [OpenNext]_ovars =>
        [(\A p \in Proc : Keeps(p)) \/ \E q \in Proc : mode[q] = "PRP" /\ Create(q)]_ovars
  BY KeepsStep
<1> QED BY <1>1, <1>2, <1>3, OpenInvariant, PTL DEF OpenSpec, OnlyPrepareIntrudes

-----------------------------------------------------------------------------
(***************************************************************************)
(* Events: no event is missed, for any number of events and timers,        *)
(* wherever the handler of SIGALRM comes in between.                       *)
(***************************************************************************)
(***************************************************************************)
(* The largest of some numbers: Evtmultiplex takes the last event first.   *)
(***************************************************************************)
LEMMA LeastNumber == ASSUME NEW T \in SUBSET Nat, T # {} PROVE \E x \in T : \A y \in T : x <= y
<1>1. PICK R : /\ IsWellFoundedOn(R, Nat)
               /\ \A x, y \in Nat : <<x, y>> \in R <=> x < y
  <2> DEFINE R == OpToRel(<, Nat)
  <2>1. IsWellFoundedOn(R, Nat)
    BY NatLessThanWellFounded
  <2>2. \A x, y \in Nat : <<x, y>> \in R <=> x < y
    BY DEF OpToRel
  <2> HIDE DEF R
  <2> QED BY <2>1, <2>2
<1>2. IsWellFoundedOn(R, Nat) /\ T \subseteq Nat
  BY <1>1
<1>3. \E x \in T : \A y \in T : ~ (<<y, x>> \in R)
  BY <1>2, WFMin
<1>4. PICK x \in T : \A y \in T : ~ (<<y, x>> \in R)
  BY <1>3
<1>5. ASSUME NEW y \in T PROVE x <= y
  <2>1. x \in Nat /\ y \in Nat /\ ~ (<<y, x>> \in R)
    BY <1>4
  <2>2. ~ (y < x)
    BY <1>1, <2>1
  <2> QED BY <2>1, <2>2
<1> QED BY <1>5

LEMMA LastEvent == ASSUME NEW S \in SUBSET Event, S # {} PROVE Max(S) \in S
<1> DEFINE T == {Events - x : x \in S}
<1>1. Events \in Nat /\ \A x \in S : x \in Nat /\ x <= Events
  BY EventsAssumption DEF Event
<1>2. T \subseteq Nat /\ T # {}
  <2>1. \A x \in S : Events - x \in Nat
    BY <1>1
  <2> QED BY <2>1
<1>3. PICK t \in T : \A y \in T : t <= y
  BY <1>2, LeastNumber
<1>4. PICK m \in S : t = Events - m
  BY <1>3
<1>5. ASSUME NEW x \in S PROVE m >= x
  <2>1. Events - m <= Events - x
    BY <1>3, <1>4
  <2> QED BY <1>1, <2>1
<1> QED BY <1>4, <1>5 DEF Max

(***************************************************************************)
(* The inductive invariant.                                                *)
(***************************************************************************)
\* The locals of a call are those of the place where the program is.
CallShape ==
  /\ At("idle") => call = Idle
  /\ At("scan") => \E i \in 1 .. Events + 1 : call = [at |-> "scan", i |-> i]
  /\ At("mark") => \E T \in SUBSET Event : call = [at |-> "mark", todo |-> T]
  /\ At("test") => \E T \in SUBSET Event : \E e \in Event :
                     call = [at |-> "test", event |-> e, todo |-> T]
  /\ Waiting => \E at, S, d : call = [at |-> at, events |-> S, devices |-> d]
  /\ At("timset") => \E e, a, l : call = [at |-> "timset", event |-> e, alarm |-> a, left |-> l]
  /\ At("timstop") => \E n, i : call = [at |-> "timstop", handle |-> n, i |-> i]
  /\ call.at \in {"idle", "clear", "scan", "mark", "test", "timset", "timstop", "block", "lock"} \/ Waiting

Late(k, e) == <<k, e>> \in late

\* The flag is up for every event that is set and shows in it, but for those
\* set behind the scan of evtclear, and the one that evtmultiplex is about to
\* test.  While evtclear scans the flag is up.
FlagInv ==
  /\ multiplex \subseteq Event
  /\ At("scan") => flag /\ \A e \in multiplex \cap state : e < call.i => Late("flag", e)
  /\ ~At("scan") => \A e \in multiplex \cap state :
                      flag \/ Late("flag", e) \/ (At("test") /\ e = call.event)
  /\ At("test") => call.event \in multiplex
  /\ ~At("clear") /\ ~At("scan") => (flag => multiplex \cap state # {})

\* Since evtwait looked, each of its events that was set is noted in eventflg
\* or keeps poll from waiting, but for those set on the way into the call.
WaitInv ==
  /\ At("arm") \/ At("poll") \/ At("pause") => (call.events \cap state # {} => eventflg)
  /\ At("load") => (call.events \cap state # {} => ~pollwait)
  /\ At("enter") \/ At("asleep") => \A e \in call.events \cap state : Late("wait", e)

EventInv ==
  /\ eventflg \in BOOLEAN /\ pollwait \in BOOLEAN /\ flag \in BOOLEAN
  /\ CallShape /\ FlagInv /\ WaitInv

LEMMA EventInit == Init => EventInv
<1> SUFFICES ASSUME Init PROVE EventInv
  OBVIOUS
<1>1. call = Idle /\ call.at = "idle" /\ multiplex = {} /\ flag = FALSE /\ eventflg = FALSE /\ pollwait = TRUE
  BY DEF Init, Idle
<1>2. CallShape /\ FlagInv /\ WaitInv
  BY <1>1 DEF CallShape, FlagInv, WaitInv, At, Waiting
<1> QED BY <1>1, <1>2 DEF EventInv

\* What evtset of the events of S does to those set where nobody looks.
LEMMA SetsLate ==
  ASSUME NEW S, Sets(S)
  PROVE  /\ \A k, e : Late(k, e) /\ e \notin S => Late(k, e)'
         /\ \A e \in S : At("scan") /\ e < call.i => Late("flag", e)'
         /\ \A e \in S : At("enter") /\ e \in call.events => Late("wait", e)'
<1>1. \A k, e : <<k, e>> \in late /\ e \notin S => <<k, e>> \in late'
  BY DEF Sets
<1>2. ASSUME NEW e \in S, NEW k \in Passed(e) PROVE <<k, e>> \in late'
  <2>1. <<k, e>> \in Passed(e) \X {e}
    BY <1>2
  <2> QED BY <2>1 DEF Sets
<1>3. \A e \in S : At("scan") /\ e < call.i => "flag" \in Passed(e)
  BY DEF Passed
<1>4. \A e \in S : At("enter") /\ e \in call.events => "wait" \in Passed(e)
  BY DEF Passed
<1> QED BY <1>1, <1>2, <1>3, <1>4 DEF Late

\* Events are set while the program stays where it is, or is woken.
LEMMA SetsFlag ==
  ASSUME EventInv, NEW S, Sets(S), call' = call \/ (At("asleep") /\ call'.at = "wake")
  PROVE  FlagInv'
<1>1. state' = state \cup S /\ flag' = (flag \/ S \cap multiplex # {}) /\ multiplex' = multiplex
  BY DEF Sets
<1>2. /\ \A x \in {"scan", "clear", "test"} : At(x)' <=> At(x)
      /\ At("scan") \/ At("test") => call' = call
  BY DEF At
<1>3. ASSUME At("scan"), NEW e \in multiplex \cap state', e < call.i PROVE Late("flag", e)'
  <2>1. CASE e \in S
    BY <1>3, <2>1, SetsLate
  <2>2. CASE e \notin S
    BY <1>1, <1>3, <2>2, SetsLate DEF EventInv, FlagInv
  <2> QED BY <2>1, <2>2
<1>4. ASSUME ~At("scan"), NEW e \in multiplex \cap state'
      PROVE  flag' \/ Late("flag", e)' \/ (At("test") /\ e = call.event)
  <2>1. CASE e \in S
    BY <1>1, <1>4, <2>1
  <2>2. CASE e \notin S
    BY <1>1, <1>4, <2>2, SetsLate DEF EventInv, FlagInv
  <2> QED BY <2>1, <2>2
<1>5. ~At("clear") /\ ~At("scan") => (flag' => multiplex' \cap state' # {})
  BY <1>1 DEF EventInv, FlagInv
<1>6. (At("scan") => flag') /\ multiplex' \subseteq Event /\ (At("test") => call.event \in multiplex)
  BY <1>1 DEF EventInv, FlagInv
<1>7. /\ \A x \in {"scan", "clear", "test"} : At(x)' <=> At(x)
      /\ At("scan")' \/ At("test")' => call' = call
  BY <1>2
<1>8. At("scan")' => flag' /\ \A e \in (multiplex \cap state)' : e < call'.i => Late("flag", e)'
  BY <1>1, <1>3, <1>6, <1>7
<1>9. ~At("scan")' => \A e \in (multiplex \cap state)' :
                        flag' \/ Late("flag", e)' \/ (At("test")' /\ e = call'.event)
  BY <1>4, <1>7, <1>1, <1>2
<1> QED BY <1>1, <1>5, <1>6, <1>7, <1>8, <1>9 DEF FlagInv

LEMMA SetsHere == ASSUME EventInv, NEW S, Sets(S), call' = call, ~At("asleep") PROVE EventInv'
<1>1. /\ state' = state \cup S /\ flag' = (flag \/ S \cap multiplex # {})
      /\ eventflg' = (eventflg \/ (Waiting /\ S # {})) /\ pollwait' = (pollwait /\ (~Waiting \/ S = {}))
  BY DEF Sets
<1>2. CallShape'
  BY DEF EventInv, CallShape, At, Waiting
<1>3. WaitInv'
  <2>1. At("arm") \/ At("poll") \/ At("pause") => (call.events \cap state' # {} => eventflg')
    BY <1>1 DEF EventInv, WaitInv, At, Waiting
  <2>2. At("load") => (call.events \cap state' # {} => ~pollwait')
    BY <1>1 DEF EventInv, WaitInv, At, Waiting
  <2>3. ASSUME At("enter"), NEW e \in call.events \cap state' PROVE Late("wait", e)'
    <3>1. CASE e \in S
      BY <2>3, <3>1, SetsLate
    <3>2. CASE e \notin S
      BY <1>1, <2>3, <3>2, SetsLate DEF EventInv, WaitInv
    <3> QED BY <3>1, <3>2
  <2> QED BY <2>1, <2>2, <2>3 DEF WaitInv, At
<1>4. eventflg' \in BOOLEAN /\ pollwait' \in BOOLEAN /\ flag' \in BOOLEAN
  BY <1>1 DEF EventInv
<1> QED BY <1>2, <1>3, <1>4, SetsFlag DEF EventInv

LEMMA SetsWakes ==
  ASSUME EventInv, NEW S, Sets(S), At("asleep"), call' = [call EXCEPT !.at = "wake"]
  PROVE  EventInv'
<1>1. PICK at, E, d : call = [at |-> at, events |-> E, devices |-> d]
  BY DEF EventInv, CallShape, Waiting, At
<1>2. call' = [at |-> "wake", events |-> E, devices |-> d]
  BY <1>1
<1>3. call'.at = "wake"
  BY <1>2
<1>4. CallShape' /\ WaitInv'
  BY <1>2, <1>3 DEF CallShape, WaitInv, Waiting, At
<1>5. eventflg' \in BOOLEAN /\ pollwait' \in BOOLEAN /\ flag' \in BOOLEAN
  BY DEF EventInv, Sets
<1> QED BY <1>3, <1>4, <1>5, SetsFlag DEF EventInv

\* Steps that set nothing.
LEMMA QuietFlag ==
  ASSUME EventInv, UNCHANGED <<state, multiplex, flag, late>>,
         call.at \notin {"clear", "scan", "test"}, call'.at \notin {"clear", "scan", "test"}
  PROVE  FlagInv'
BY DEF EventInv, FlagInv, At, Late

\* A step from call to call that sets nothing and does not wait.
LEMMA QuietStep ==
  ASSUME EventInv, UNCHANGED <<state, multiplex, flag, late>>,
         eventflg' \in BOOLEAN, pollwait' \in BOOLEAN,
         call.at \notin {"clear", "scan", "test"}, call'.at \notin {"clear", "scan", "test"},
         call'.at \notin {"arm", "poll", "load", "pause", "enter", "asleep"}, CallShape'
  PROVE  EventInv'
<1>1. WaitInv'
  BY DEF WaitInv, At
<1> QED BY <1>1, QuietFlag DEF EventInv

LEMMA IdleAt == Idle.at = "idle"
BY DEF Idle

LEMMA IdleShape == ASSUME call' = Idle PROVE CallShape'
BY IdleAt DEF CallShape, At, Waiting

LEMMA EvtclearStep == ASSUME EventInv, NEW e \in Event, Evtclear(e) PROVE EventInv'
<1>1. /\ call = Idle /\ call.at = "idle" /\ state' = state \ {e} /\ late' = {x \in late : x[2] # e}
      /\ UNCHANGED <<multiplex, flag, eventflg, pollwait>>
      /\ call' = (IF e \in multiplex THEN [at |-> "clear"] ELSE Idle)
  BY DEF Evtclear, EventInv, CallShape, At
<1>2. call'.at = IF e \in multiplex THEN "clear" ELSE "idle"
  BY <1>1, IdleAt
<1>3. CallShape' /\ WaitInv'
  BY <1>1, <1>2, IdleShape DEF CallShape, WaitInv, At, Waiting
<1>4. \A k, d : Late(k, d) /\ d # e => Late(k, d)'
  BY <1>1 DEF Late
<1>5. \A d \in multiplex' \cap state' : flag' \/ Late("flag", d)'
  BY <1>1, <1>4 DEF EventInv, FlagInv, At
<1>6. e \notin multiplex => (flag' => multiplex' \cap state' # {})
  BY <1>1 DEF EventInv, FlagInv, At
<1>7. FlagInv'
  BY <1>1, <1>2, <1>5, <1>6 DEF EventInv, FlagInv, At
<1> QED BY <1>1, <1>3, <1>7 DEF EventInv

LEMMA EvtclearFlagStep == ASSUME EventInv, EvtclearFlag PROVE EventInv'
<1>1. /\ call.at = "clear" /\ UNCHANGED <<state, multiplex, flag, eventflg, pollwait, late>>
      /\ call' = (IF flag THEN [at |-> "scan", i |-> 1] ELSE Idle)
  BY DEF EvtclearFlag, At, evars
<1>2. CASE flag
  <2>1. call' = [at |-> "scan", i |-> 1] /\ call'.at = "scan" /\ call'.i = 1 /\ 1 \in 1 .. Events + 1
    BY <1>1, <1>2, EventsAssumption
  <2>2. \A e \in multiplex : ~ (e < 1)
    BY EventsAssumption DEF EventInv, FlagInv, Event
  <2>3. CallShape' /\ WaitInv'
    BY <2>1 DEF CallShape, WaitInv, At, Waiting
  <2>4. FlagInv'
    BY <1>1, <1>2, <2>1, <2>2 DEF EventInv, FlagInv, At
  <2> QED BY <1>1, <2>3, <2>4 DEF EventInv
<1>3. CASE ~flag
  <2>1. call' = Idle /\ call'.at = "idle"
    BY <1>1, <1>3, IdleAt
  <2>2. WaitInv' /\ CallShape'
    BY <2>1, IdleShape DEF WaitInv, At
  <2>3. FlagInv'
    BY <1>1, <1>3, <2>1 DEF EventInv, FlagInv, At, Late
  <2> QED BY <1>1, <2>2, <2>3 DEF EventInv
<1> QED BY <1>2, <1>3

LEMMA EvtclearScanStep == ASSUME EventInv, EvtclearScan PROVE EventInv'
<1>1. PICK i \in 1 .. Events + 1 : call = [at |-> "scan", i |-> i]
  BY DEF EvtclearScan, EventInv, CallShape
<1>2. call.at = "scan" /\ call.i = i /\ UNCHANGED <<state, multiplex, eventflg, pollwait, late>>
  BY <1>1 DEF EvtclearScan
<1>3. flag /\ \A e \in multiplex \cap state : e < i => Late("flag", e)
  BY <1>2 DEF EventInv, FlagInv, At
<1>4. multiplex \subseteq 1 .. Events /\ Events \in Nat
  BY EventsAssumption DEF EventInv, FlagInv, Event
<1>5. CASE i \in multiplex \cap state
  <2>1. call' = Idle /\ call'.at = "idle" /\ UNCHANGED flag
    BY <1>2, <1>4, <1>5, IdleAt DEF EvtclearScan, Event
  <2>2. WaitInv' /\ CallShape'
    BY <2>1, IdleShape DEF WaitInv, At
  <2>3. FlagInv'
    BY <1>2, <1>3, <1>5, <2>1 DEF EventInv, FlagInv, At
  <2> QED BY <1>2, <2>1, <2>2, <2>3 DEF EventInv
<1>6. CASE i \in Event /\ i \notin multiplex \cap state
  <2>1. call' = [at |-> "scan", i |-> i + 1] /\ UNCHANGED flag
    BY <1>1, <1>2, <1>6 DEF EvtclearScan
  <2>2. call'.at = "scan" /\ call'.i = i + 1 /\ i + 1 \in 1 .. Events + 1
    BY <1>4, <1>6, <2>1 DEF Event
  <2>3. WaitInv' /\ CallShape'
    BY <2>1, <2>2 DEF CallShape, WaitInv, At, Waiting
  <2>4. \A e \in multiplex \cap state : e < i + 1 => Late("flag", e)
    <3>1. \A e \in multiplex \cap state : e < i + 1 => e < i
      BY <1>4, <1>6 DEF Event
    <3> QED BY <1>3, <3>1
  <2>5. FlagInv'
    BY <1>2, <1>3, <2>1, <2>2, <2>4 DEF EventInv, FlagInv, At, Late
  <2> QED BY <1>2, <2>1, <2>3, <2>5 DEF EventInv
<1>7. CASE i \notin Event
  <2>1. call' = Idle /\ call'.at = "idle" /\ flag' = FALSE
    BY <1>2, <1>7, IdleAt DEF EvtclearScan, Returns
  <2>2. WaitInv' /\ CallShape'
    BY <2>1, IdleShape DEF WaitInv, At
  <2>3. \A e \in multiplex : e < i
    BY <1>4, <1>7 DEF Event
  <2>4. FlagInv'
    BY <1>2, <1>3, <2>1, <2>3 DEF EventInv, FlagInv, At, Late
  <2> QED BY <1>2, <2>1, <2>2, <2>4 DEF EventInv
<1> QED BY <1>5, <1>6, <1>7

LEMMA EvtmultiplexStep == ASSUME EventInv, NEW S \in SUBSET Event, Evtmultiplex(S) PROVE EventInv'
<1>1. /\ multiplex' = {} /\ flag' = FALSE /\ call' = [at |-> "mark", todo |-> S]
      /\ UNCHANGED <<eventflg, pollwait>>
  BY DEF Evtmultiplex
<1>2. call'.at = "mark"
  BY <1>1
<1>3. CallShape' /\ WaitInv' /\ FlagInv'
  BY <1>1, <1>2 DEF CallShape, WaitInv, FlagInv, At, Waiting
<1> QED BY <1>1, <1>3 DEF EventInv

LEMMA EvtmultiplexMarkStep == ASSUME EventInv, EvtmultiplexMark PROVE EventInv'
<1>1. PICK T \in SUBSET Event : call = [at |-> "mark", todo |-> T]
  BY DEF EvtmultiplexMark, EventInv, CallShape
<1>2. call.at = "mark" /\ call.todo = T /\ UNCHANGED <<state, flag, eventflg, pollwait, late>>
  BY <1>1 DEF EvtmultiplexMark
<1>3. CASE T = {}
  <2>1. call' = Idle /\ call'.at = "idle" /\ UNCHANGED multiplex
    BY <1>2, <1>3, IdleAt DEF EvtmultiplexMark, Returns
  <2> QED BY <1>2, <2>1, IdleShape, QuietStep DEF EventInv
<1>4. CASE T # {}
  <2> DEFINE e == Max(T)
  <2>1. e \in T /\ e \in Event /\ T \ {e} \in SUBSET Event
    BY <1>4, LastEvent
  <2>2. multiplex' = multiplex \cup {e} /\ call' = [at |-> "test", event |-> e, todo |-> T \ {e}]
    BY <1>2, <1>4 DEF EvtmultiplexMark
  <2> HIDE DEF e
  <2>3. call'.at = "test" /\ call'.event = e
    BY <2>2
  <2>4. CallShape' /\ WaitInv'
    BY <2>1, <2>2, <2>3 DEF CallShape, WaitInv, At, Waiting
  <2>5. \A d \in multiplex' \cap state' : flag' \/ Late("flag", d)' \/ d = e
    BY <1>2, <2>2 DEF EventInv, FlagInv, At, Late
  <2>6. multiplex' \subseteq Event /\ e \in multiplex' /\ (flag' => multiplex' \cap state' # {})
    BY <1>2, <2>1, <2>2 DEF EventInv, FlagInv, At
  <2>7. FlagInv'
    BY <2>3, <2>5, <2>6 DEF FlagInv, At
  <2> QED BY <1>2, <2>4, <2>7 DEF EventInv
<1> QED BY <1>3, <1>4

LEMMA EvtmultiplexTestStep == ASSUME EventInv, EvtmultiplexTest PROVE EventInv'
<1>1. PICK T \in SUBSET Event, e \in Event : call = [at |-> "test", event |-> e, todo |-> T]
  BY DEF EvtmultiplexTest, EventInv, CallShape
<1>2. /\ call.at = "test" /\ call.event = e /\ call' = [at |-> "mark", todo |-> T]
      /\ UNCHANGED <<state, multiplex, eventflg, pollwait, late>> /\ flag' = (flag \/ e \in state)
  BY <1>1 DEF EvtmultiplexTest
<1>3. call'.at = "mark" /\ e \in multiplex
  BY <1>2 DEF EventInv, FlagInv, At
<1>4. CallShape' /\ WaitInv'
  BY <1>2, <1>3 DEF CallShape, WaitInv, At, Waiting
<1>5. FlagInv'
  BY <1>2, <1>3 DEF EventInv, FlagInv, At, Late
<1> QED BY <1>2, <1>4, <1>5 DEF EventInv

\* A step of evtwait: the place changes, the locals stay.
LEMMA WaitGoes ==
  ASSUME EventInv, Waiting, NEW at, Goes(at),
         at \in {"wake", "look", "arm", "poll", "load", "pause", "enter", "asleep"}
  PROVE  call'.at = at /\ call'.events = call.events /\ CallShape'
<1>1. PICK a, S, d : call = [at |-> a, events |-> S, devices |-> d]
  BY DEF EventInv, CallShape
<1>2. call' = [at |-> at, events |-> S, devices |-> d]
  BY <1>1 DEF Goes
<1>3. call'.at = at /\ call'.events = call.events
  BY <1>1, <1>2
<1> QED BY <1>2, <1>3 DEF CallShape, At, Waiting

LEMMA EvtwaitStep ==
  ASSUME EventInv, NEW S \in SUBSET Event, NEW d \in BOOLEAN, Evtwait(S, d)
  PROVE  EventInv'
<1>1. /\ call.at = "idle" /\ call' = [at |-> "wake", events |-> S, devices |-> d]
      /\ UNCHANGED <<state, multiplex, flag, eventflg, pollwait>>
      /\ late' = {x \in late : x[1] # "wait"}
  BY DEF Evtwait, At
<1>2. call'.at = "wake"
  BY <1>1
<1>3. CallShape' /\ WaitInv'
  BY <1>1, <1>2 DEF CallShape, WaitInv, At, Waiting
<1>4. \A e : Late("flag", e) => Late("flag", e)'
  BY <1>1 DEF Late
<1>5. FlagInv'
  BY <1>1, <1>2, <1>4 DEF EventInv, FlagInv, At
<1> QED BY <1>1, <1>3, <1>5 DEF EventInv

LEMMA WaitResetStep == ASSUME EventInv, WaitReset PROVE EventInv'
<1>1. /\ call.at = "wake" /\ Waiting /\ Goes("look") /\ eventflg' = FALSE
      /\ UNCHANGED <<state, multiplex, flag, pollwait, late>>
  BY DEF WaitReset, At, Waiting
<1>2. call'.at = "look" /\ CallShape'
  BY <1>1, WaitGoes
<1> QED BY <1>1, <1>2, QuietStep DEF EventInv

LEMMA WaitLookStep == ASSUME EventInv, WaitLook PROVE EventInv'
<1>1. call.at = "look" /\ Waiting /\ UNCHANGED <<state, multiplex, flag, late>>
  BY DEF WaitLook, At, Waiting
<1>2. CASE call.events \cap state # {}
  <2>1. call' = Idle /\ call'.at = "idle" /\ eventflg' = FALSE /\ pollwait' = TRUE
    BY <1>2, IdleAt DEF WaitLook, Returns
  <2> QED BY <1>1, <2>1, IdleShape, QuietStep
<1>3. CASE call.events \cap state = {}
  <2>1. Goes("arm") /\ UNCHANGED <<eventflg, pollwait>>
    BY <1>3 DEF WaitLook
  <2>2. call'.at = "arm" /\ call'.events = call.events /\ CallShape'
    BY <1>1, <2>1, WaitGoes
  <2>3. WaitInv' /\ FlagInv'
    BY <1>1, <1>3, <2>2, QuietFlag DEF WaitInv, At
  <2> QED BY <1>1, <2>1, <2>2, <2>3 DEF EventInv
<1> QED BY <1>2, <1>3

LEMMA WaitArmStep == ASSUME EventInv, WaitArm PROVE EventInv'
<1>1. /\ call.at = "arm" /\ Waiting /\ Goes("poll") /\ pollwait' = TRUE
      /\ UNCHANGED <<state, multiplex, flag, eventflg, late>>
  BY DEF WaitArm, At, Waiting
<1>2. call'.at = "poll" /\ call'.events = call.events /\ CallShape'
  BY <1>1, WaitGoes
<1>3. WaitInv' /\ FlagInv'
  BY <1>1, <1>2, QuietFlag DEF EventInv, WaitInv, At
<1> QED BY <1>1, <1>2, <1>3 DEF EventInv

LEMMA WaitPollStep == ASSUME EventInv, WaitPoll PROVE EventInv'
<1> DEFINE at == IF eventflg THEN "wake" ELSE IF call.devices THEN "load" ELSE "pause"
<1>1. /\ call.at = "poll" /\ Waiting /\ Goes(at)
      /\ UNCHANGED <<state, multiplex, flag, eventflg, pollwait, late>>
  BY DEF WaitPoll, At, Waiting, evars
<1>2. at \in {"wake", "load", "pause"} /\ (at # "wake" => ~eventflg)
  BY DEF EventInv
<1> HIDE DEF at
<1>3. call'.at = at /\ call'.events = call.events /\ CallShape'
  BY <1>1, <1>2, WaitGoes
<1>4. at # "wake" => call.events \cap state = {}
  BY <1>1, <1>2 DEF EventInv, WaitInv, At
<1>5. WaitInv' /\ FlagInv'
  BY <1>1, <1>2, <1>3, <1>4, QuietFlag DEF WaitInv, At
<1> QED BY <1>1, <1>3, <1>5 DEF EventInv

LEMMA WaitLoadStep == ASSUME EventInv, WaitLoad PROVE EventInv'
<1>1. /\ Waiting /\ call.at \in {"load", "pause"}
      /\ UNCHANGED <<state, multiplex, flag, eventflg, pollwait, late>>
  BY DEF WaitLoad, At, Waiting, evars
<1>2. PICK at \in {"wake", "enter"} : Goes(at) /\ (at = "enter" => call.events \cap state = {})
  BY DEF WaitLoad, EventInv, WaitInv, At
<1>3. call'.at = at /\ call'.events = call.events /\ CallShape'
  BY <1>1, <1>2, WaitGoes
<1>4. WaitInv' /\ FlagInv'
  BY <1>1, <1>2, <1>3, QuietFlag DEF WaitInv, At
<1> QED BY <1>1, <1>3, <1>4 DEF EventInv

LEMMA WaitEnterStep == ASSUME EventInv, WaitEnter PROVE EventInv'
<1>1. /\ call.at = "enter" /\ Waiting /\ Goes("asleep")
      /\ UNCHANGED <<state, multiplex, flag, eventflg, pollwait, late>>
  BY DEF WaitEnter, At, Waiting, evars
<1>2. call'.at = "asleep" /\ call'.events = call.events /\ CallShape'
  BY <1>1, WaitGoes
<1>3. WaitInv' /\ FlagInv'
  BY <1>1, <1>2, QuietFlag DEF EventInv, WaitInv, At, Late
<1> QED BY <1>1, <1>2, <1>3 DEF EventInv

(***************************************************************************)
(* Timers and locks.                                                       *)
(***************************************************************************)
\* Of the steps of timset, timstop and fioalock only the call matters here.
LEMMA TimersStep ==
  ASSUME EventInv, UNCHANGED evars,
         call.at \in {"idle", "timset", "timstop", "block", "lock"},
         call'.at \in {"idle", "timset", "timstop", "block", "lock"}, CallShape'
  PROVE  EventInv'
BY QuietStep DEF EventInv, evars

LEMMA TimsetStep ==
  ASSUME EventInv, NEW e \in Event, NEW left \in Left, Timset(e, left)
  PROVE  EventInv'
<1>1. call.at = "idle"
  BY DEF Timset, At
<1>2. CASE left = 0
  BY <1>1, <1>2, SetsHere DEF Timset, At
<1>3. CASE left # 0
  <2>1. call' = [at |-> "timset", event |-> e, alarm |-> left, left |-> left] /\ UNCHANGED evars
    BY <1>3 DEF Timset
  <2>2. call'.at = "timset"
    BY <2>1
  <2>3. CallShape'
    BY <2>1, <2>2 DEF CallShape, At, Waiting
  <2> QED BY <1>1, <2>1, <2>2, <2>3, TimersStep
<1> QED BY <1>2, <1>3

LEMMA TimsetStoresStep == ASSUME EventInv, TimsetStores PROVE EventInv'
<1>1. call.at = "timset" /\ call' = Idle /\ UNCHANGED evars
  BY DEF TimsetStores, At, Returns
<1> QED BY <1>1, IdleAt, IdleShape, TimersStep

LEMMA TimstopStep == ASSUME EventInv, NEW handle, Timstop(handle) PROVE EventInv'
<1>1. /\ call.at = "idle" /\ call' = [at |-> "timstop", handle |-> handle, i |-> timhi]
      /\ UNCHANGED evars
  BY DEF Timstop, At
<1>2. call'.at = "timstop"
  BY <1>1
<1>3. CallShape'
  BY <1>1, <1>2 DEF CallShape, At, Waiting
<1> QED BY <1>1, <1>2, <1>3, TimersStep

LEMMA TimstopSlotStep == ASSUME EventInv, TimstopSlot PROVE EventInv'
<1>1. call.at = "timstop" /\ UNCHANGED evars
  BY DEF TimstopSlot, At
<1>2. PICK n, i : call = [at |-> "timstop", handle |-> n, i |-> i]
  BY <1>1 DEF EventInv, CallShape, At
<1>3. PICK j : call' = [call EXCEPT !.i = j]
  BY DEF TimstopSlot
<1>4. call' = [at |-> "timstop", handle |-> n, i |-> j]
  BY <1>2, <1>3
<1>5. call'.at = "timstop"
  BY <1>4
<1>6. CallShape'
  BY <1>4, <1>5 DEF CallShape, At, Waiting
<1> QED BY <1>1, <1>5, <1>6, TimersStep

LEMMA TimstopEndsStep == ASSUME EventInv, TimstopEnds PROVE EventInv'
<1>1. call.at = "timstop" /\ call' = Idle /\ UNCHANGED evars
  BY DEF TimstopEnds, At, Returns
<1> QED BY <1>1, IdleAt, IdleShape, TimersStep

\* The handler of SIGALRM runs wherever the program is.
LEMMA TimerCallbackStep == ASSUME EventInv, TimerCallback PROVE EventInv'
<1>1. PICK S : /\ Sets(S)
               /\ call' = IF At("asleep") THEN [call EXCEPT !.at = "wake"] ELSE call
  BY DEF TimerCallback
<1>2. CASE At("asleep")
  BY <1>1, <1>2, SetsWakes
<1>3. CASE ~At("asleep")
  BY <1>1, <1>3, SetsHere
<1> QED BY <1>2, <1>3

LEMMA TickStep == ASSUME EventInv, Tick PROVE EventInv'
<1>1. UNCHANGED evars
  BY DEF Tick
<1>2. CASE At("timset")
  <2>1. PICK e, a, l : call = [at |-> "timset", event |-> e, alarm |-> a, left |-> l]
    BY <1>2 DEF EventInv, CallShape
  <2>2. PICK k : call' = [call EXCEPT !.left = k]
    BY <1>2 DEF Tick
  <2>3. call' = [at |-> "timset", event |-> e, alarm |-> a, left |-> k]
    BY <2>1, <2>2
  <2>4. call'.at = "timset"
    BY <2>3
  <2>5. CallShape'
    BY <2>3, <2>4 DEF CallShape, At, Waiting
  <2> QED BY <1>1, <1>2, <2>4, <2>5, TimersStep DEF At
<1>3. CASE ~At("timset")
  <2>1. UNCHANGED call /\ UNCHANGED <<state, multiplex, flag, eventflg, pollwait, late>>
    BY <1>1, <1>3 DEF Tick, evars
  <2> QED BY <2>1 DEF EventInv, CallShape, FlagInv, WaitInv, At, Waiting, Late
<1> QED BY <1>2, <1>3

LEMMA LockStep ==
  ASSUME EventInv, FioalockBlocks \/ FioalockUnblocks \/ FioalockLimits \/ FioalockAlarm \/ FioalockReturns
  PROVE  EventInv'
<1>1. call.at \in {"idle", "block", "lock"} /\ UNCHANGED evars
  BY DEF FioalockBlocks, FioalockUnblocks, FioalockLimits, FioalockAlarm, FioalockReturns, At
<1>2. CASE call' = Idle
  BY <1>1, <1>2, IdleAt, IdleShape, TimersStep
<1>3. CASE call' = [at |-> "block"] \/ call' = [at |-> "lock", old |-> itimer]
  <2>1. call'.at \in {"block", "lock"}
    BY <1>3
  <2>2. CallShape'
    BY <2>1 DEF CallShape, At, Waiting
  <2> QED BY <1>1, <2>1, <2>2, TimersStep
<1>4. CASE call' = call
  <2>1. CallShape'
    BY <1>4 DEF EventInv, CallShape, At, Waiting
  <2> QED BY <1>1, <1>4, <2>1, TimersStep
<1> QED BY <1>2, <1>3, <1>4 DEF FioalockBlocks, FioalockUnblocks, FioalockLimits, FioalockAlarm,
                                FioalockReturns, Returns

LEMMA InputStep == ASSUME EventInv, NEW S, Input(S) PROVE EventInv'
BY SetsWakes DEF Input, Goes

-----------------------------------------------------------------------------
LEMMA EventStep == EventInv /\ [Next]_vars => EventInv'
<1> SUFFICES ASSUME EventInv, [Next]_vars PROVE EventInv'
  OBVIOUS
<1>1. CASE UNCHANGED vars
  <2>1. UNCHANGED <<call, state, multiplex, flag, eventflg, pollwait, late>>
    BY <1>1 DEF vars, evars
  <2> QED BY <2>1 DEF EventInv, CallShape, FlagInv, WaitInv, At, Waiting, Late
<1>2. CASE Calls
  <2>1. ASSUME NEW e \in Event, Evtclear(e) \/ \E left \in Left : Timset(e, left) PROVE EventInv'
    BY <2>1, EvtclearStep, TimsetStep
  <2>2. ASSUME NEW handle, Timstop(handle) PROVE EventInv'
    BY <2>2, TimstopStep
  <2>3. ASSUME NEW S \in SUBSET Event,
               Evtmultiplex(S) \/ (\E devices \in BOOLEAN : Evtwait(S, devices)) \/ Input(S)
        PROVE  EventInv'
    BY <2>3, EvtmultiplexStep, EvtwaitStep, InputStep
  <2>4. CASE FioalockBlocks \/ FioalockLimits
    BY <2>4, LockStep
  <2> QED BY <1>2, <2>1, <2>2, <2>3, <2>4 DEF Calls
<1>3. CASE Steps
  BY <1>3, EvtclearFlagStep, EvtclearScanStep, EvtmultiplexMarkStep, EvtmultiplexTestStep,
     WaitResetStep, WaitLookStep, WaitArmStep, WaitPollStep, WaitLoadStep, WaitEnterStep,
     TimsetStoresStep, TimstopSlotStep, TimstopEndsStep, LockStep DEF Steps
<1>4. CASE TimerCallback \/ Tick
  BY <1>4, TimerCallbackStep, TickStep
<1> QED BY <1>1, <1>2, <1>3, <1>4 DEF Next

\* No event is missed: between calls of evtclear and evtmultiplex the action
\* flag shows whether one of its events is set, and evtwait does not sleep while
\* one of its events is set, wherever the handler of SIGALRM comes in between,
\* but for an event set behind the scan of evtclear or on the way into poll or
\* pause (evtunx.c 208-265, 431-625).
THEOREM NoneMissed == Spec => []NoEventMissed
<1>1. EventInv => NoEventMissed
  BY DEF EventInv, FlagInv, WaitInv, NoEventMissed, At, Late
<1> QED BY <1>1, EventInit, EventStep, PTL DEF Spec

=============================================================================
