------------------------ MODULE RecordFormatProofs ------------------------
(***************************************************************************)
(* Lemmas about the operators of RecordFormat: positions and slots, reads  *)
(* and writes of cells, runs of cells, and the answers of rioget and       *)
(* rioprev.                                                                *)
(***************************************************************************)
EXTENDS RecordFormat, SequenceTheorems, WellFoundedInduction, TLAPS

(***************************************************************************)
(* Positions.                                                              *)
(***************************************************************************)
LEMMA SlotSize == RecSize \in Nat /\ RecSize >= 1 /\ Slot = RecSize + 1 /\ Slot \in Nat /\ Slot >= 2
BY RecordFormatAssumption DEF Slot

LEMMA Marks ==
  /\ EOR \in Cell /\ DEL \in Cell /\ EOFC \in Cell
  /\ Value \subseteq Data /\ Zero \in Data /\ Data \subseteq Cell
  /\ EOR \notin Data /\ DEL \notin Data /\ EOFC \notin Data
  /\ EOR # DEL /\ EOFC # DEL /\ EOFC # EOR
BY RecordFormatAssumption DEF EOR, DEL, EOFC, Zero, Data, Cell

LEMMA Divided ==
  ASSUME NEW a \in Nat, NEW b \in Nat, b > 0
  PROVE  a \div b \in Nat /\ a % b \in 0 .. b - 1 /\ a = (a \div b) * b + (a % b)
<1>1. a \div b \in Nat
  OBVIOUS
<1>2. a % b \in 0 .. b - 1
  OBVIOUS
<1>3. a = (a \div b) * b + (a % b)
  OBVIOUS
<1> QED BY <1>1, <1>2, <1>3

LEMMA Division ==
  ASSUME NEW a \in Nat
  PROVE  /\ a \div Slot \in Nat /\ a % Slot \in 0 .. Slot - 1
         /\ a = (a \div Slot) * Slot + (a % Slot)
<1>1. Slot \in Nat /\ Slot > 0
  BY SlotSize
<1> QED BY <1>1, Divided

LEMMA DivisionIs ==
  ASSUME NEW a \in Nat, NEW k \in Nat, NEW r \in 0 .. Slot - 1, a = k * Slot + r
  PROVE  a % Slot = r /\ a \div Slot = k
BY SlotSize

LEMMA SlotsInOrder ==
  ASSUME NEW k \in Nat, NEW j \in Nat
  PROVE  /\ k * Slot \in Nat /\ (k + 1) * Slot = k * Slot + Slot
         /\ k < j => k * Slot + Slot <= j * Slot
         /\ k * Slot <= j * Slot => k <= j
         /\ k <= j => k * Slot <= j * Slot
<1>1. k * Slot \in Nat /\ (k + 1) * Slot = k * Slot + Slot
  BY SlotSize
<1>2. k < j => k * Slot + Slot <= j * Slot
  BY SlotSize
<1>3. k * Slot <= j * Slot => k <= j
  BY SlotSize
<1>4. k <= j => k * Slot <= j * Slot
  BY SlotSize
<1> QED BY <1>1, <1>2, <1>3, <1>4

(***************************************************************************)
(* Cells.                                                                  *)
(***************************************************************************)
LEMMA ReadAtIs ==
  ASSUME NEW s \in Seq(Cell), NEW pos \in Nat, NEW n \in Nat
  PROVE  /\ ReadAt(s, pos, n) \in Seq(Cell)
         /\ Len(ReadAt(s, pos, n)) = IF Len(s) <= pos THEN 0 ELSE Least(n, Len(s) - pos)
         /\ \A i \in 1 .. Len(ReadAt(s, pos, n)) : ReadAt(s, pos, n)[i] = s[pos + i]
<1> DEFINE m == Least(pos + n, Len(s))
<1>1. m \in Int /\ m <= Len(s) /\ m <= pos + n /\ Len(s) \in Nat
      /\ (m = Len(s) \/ m = pos + n)
  BY LenProperties DEF Least
<1>2. \A i \in pos + 1 .. m : s[i] \in Cell
  BY <1>1, ElementOfSeq
<1>3. Len(s) <= pos => ~ (pos + 1 <= m)
  BY <1>1
<1>4. ~ (Len(s) <= pos) => (IF pos + 1 <= m THEN m - (pos + 1) + 1 ELSE 0) = Least(n, Len(s) - pos)
  BY <1>1 DEF Least
<1> HIDE DEF m
<1>6. /\ SubSeq(s, pos + 1, m) \in Seq(Cell)
      /\ Len(SubSeq(s, pos + 1, m)) = IF pos + 1 <= m THEN m - (pos + 1) + 1 ELSE 0
      /\ \A i \in 1 .. m - (pos + 1) + 1 : SubSeq(s, pos + 1, m)[i] = s[pos + 1 + i - 1]
  BY <1>1, <1>2, SubSeqProperties
<1>7. \A i \in 1 .. Len(SubSeq(s, pos + 1, m)) : SubSeq(s, pos + 1, m)[i] = s[pos + i]
  <2> TAKE i \in 1 .. Len(SubSeq(s, pos + 1, m))
  <2>1. i \in Nat /\ i \in 1 .. m - (pos + 1) + 1
    BY <1>1, <1>6
  <2>2. pos + 1 + i - 1 = pos + i
    BY <2>1
  <2> QED BY <1>6, <2>1, <2>2
<1> QED BY <1>3, <1>4, <1>6, <1>7 DEF ReadAt, m

LEMMA WriteAtIs ==
  ASSUME NEW s \in Seq(Cell), NEW pos \in Nat, NEW c \in Seq(Cell)
  PROVE  /\ WriteAt(s, pos, c) \in Seq(Cell)
         /\ Len(WriteAt(s, pos, c)) = Most(Len(s), pos + Len(c))
         /\ \A i \in 1 .. Most(Len(s), pos + Len(c)) :
              WriteAt(s, pos, c)[i] = IF i \in pos + 1 .. pos + Len(c) THEN c[i - pos]
                                      ELSE IF i <= Len(s) THEN s[i] ELSE Zero
<1> DEFINE n == Most(Len(s), pos + Len(c))
<1>1. n \in Nat /\ Len(s) \in Nat /\ Len(c) \in Nat
  BY LenProperties DEF Most
<1>2. \A i \in 1 .. n : i \in pos + 1 .. pos + Len(c) => c[i - pos] \in Cell
  BY <1>1, ElementOfSeq
<1>3. \A i \in 1 .. n : i <= Len(s) => s[i] \in Cell
  BY <1>1, ElementOfSeq
<1>4. Zero \in Cell
  BY Marks
<1>5. WriteAt(s, pos, c) \in [1 .. n -> Cell]
  BY <1>2, <1>3, <1>4 DEF WriteAt
<1>6. WriteAt(s, pos, c) \in Seq(Cell) /\ Len(WriteAt(s, pos, c)) = n
  <2>1. WriteAt(s, pos, c) \in Seq(Cell)
    BY <1>1, <1>5, SeqDef
  <2>2. DOMAIN WriteAt(s, pos, c) = 1 .. n
    BY <1>5
  <2>3. 1 .. Len(WriteAt(s, pos, c)) = 1 .. n /\ Len(WriteAt(s, pos, c)) \in Nat
    BY <2>1, <2>2, LenProperties
  <2> QED BY <1>1, <2>1, <2>3
<1>7. \A i \in 1 .. n : WriteAt(s, pos, c)[i] =
        IF i \in pos + 1 .. pos + Len(c) THEN c[i - pos] ELSE IF i <= Len(s) THEN s[i] ELSE Zero
  BY DEF WriteAt
<1> QED BY <1>6, <1>7

(***************************************************************************)
(* Runs of cells.                                                          *)
(***************************************************************************)
LEMMA LeastNumber == ASSUME NEW T \in SUBSET Nat, T # {} PROVE \E x \in T : \A y \in T : x <= y
<1>1. PICK R : /\ IsWellFoundedOn(R, Nat)
               /\ \A x, y \in Nat : <<x, y>> \in R <=> x < y
  <2> DEFINE R == OpToRel(<, Nat)
  <2>1. IsWellFoundedOn(R, Nat)
    BY NatLessThanWellFounded
  <2>2. \A x, y \in Nat : <<x, y>> \in R <=> x < y
    BY DEF OpToRel
  <2> HIDE DEF R
  <2> QED BY <2>1, <2>2
<1>2. IsWellFoundedOn(R, Nat) /\ T \subseteq Nat
  BY <1>1
<1>3. \E x \in T : \A y \in T : ~ (<<y, x>> \in R)
  BY <1>2, WFMin
<1>4. PICK x \in T : \A y \in T : ~ (<<y, x>> \in R)
  BY <1>3
<1>5. ASSUME NEW y \in T PROVE x <= y
  <2>1. x \in Nat /\ y \in Nat /\ ~ (<<y, x>> \in R)
    BY <1>4
  <2>2. ~ (y < x)
    BY <1>1, <2>1
  <2> QED BY <2>1, <2>2
<1> QED BY <1>5

LEMMA MinOfSome ==
  ASSUME NEW T \in SUBSET Nat, T # {}
  PROVE  Min(T) \in T /\ \A y \in T : Min(T) <= y
BY LeastNumber DEF Min

\* The run at the begin, or at the end, ends at the first cell that is not
\* in S.
LEMMA LeadingIs ==
  ASSUME NEW c \in Seq(Cell), NEW S
  PROVE  /\ Leading(c, S) \in 0 .. Len(c)
         /\ \A i \in 1 .. Leading(c, S) : c[i] \in S
         /\ Leading(c, S) = Len(c) \/ c[Leading(c, S) + 1] \notin S
<1> DEFINE T == {i \in 0 .. Len(c) : i = Len(c) \/ c[i + 1] \notin S}
           n == Min(T)
<1>1. Len(c) \in Nat
  BY LenProperties
<1>2. Len(c) \in T /\ T \subseteq Nat
  BY <1>1
<1>3. n \in T /\ \A y \in T : n <= y
  BY <1>2, MinOfSome
<1> HIDE DEF n
<1>4. n \in 0 .. Len(c) /\ (n = Len(c) \/ c[n + 1] \notin S)
  BY <1>3
<1>5. ASSUME NEW i \in 1 .. n PROVE c[i] \in S
  <2>1. i - 1 \in 0 .. Len(c) /\ ~ (n <= i - 1) /\ (i - 1) + 1 = i /\ i - 1 # Len(c)
    BY <1>1, <1>4
  <2>2. i - 1 \notin T
    BY <1>3, <2>1
  <2> QED BY <2>1, <2>2
<1> QED BY <1>4, <1>5 DEF Leading, n

LEMMA TrailingIs ==
  ASSUME NEW c \in Seq(Cell), NEW S
  PROVE  /\ Trailing(c, S) \in 0 .. Len(c)
         /\ \A i \in 1 .. Trailing(c, S) : c[Len(c) + 1 - i] \in S
         /\ Trailing(c, S) = Len(c) \/ c[Len(c) - Trailing(c, S)] \notin S
<1> DEFINE T == {i \in 0 .. Len(c) : i = Len(c) \/ c[Len(c) - i] \notin S}
           n == Min(T)
<1>1. Len(c) \in Nat
  BY LenProperties
<1>2. Len(c) \in T /\ T \subseteq Nat
  BY <1>1
<1>3. n \in T /\ \A y \in T : n <= y
  BY <1>2, MinOfSome
<1> HIDE DEF n
<1>4. n \in 0 .. Len(c) /\ (n = Len(c) \/ c[Len(c) - n] \notin S)
  BY <1>3
<1>5. ASSUME NEW i \in 1 .. n PROVE c[Len(c) + 1 - i] \in S
  <2>1. /\ i - 1 \in 0 .. Len(c) /\ ~ (n <= i - 1)
        /\ Len(c) - (i - 1) = Len(c) + 1 - i /\ i - 1 # Len(c)
    BY <1>1, <1>4
  <2>2. i - 1 \notin T
    BY <1>3, <2>1
  <2> QED BY <2>1, <2>2
<1> QED BY <1>4, <1>5 DEF Trailing, n

\* A run that is known to end at n.
LEMMA LeadingOf ==
  ASSUME NEW c \in Seq(Cell), NEW S, NEW n \in 0 .. Len(c),
         \A i \in 1 .. n : c[i] \in S, n = Len(c) \/ c[n + 1] \notin S
  PROVE  Leading(c, S) = n
<1> DEFINE m == Leading(c, S)
<1>1. /\ m \in 0 .. Len(c) /\ (\A i \in 1 .. m : c[i] \in S) /\ (m = Len(c) \/ c[m + 1] \notin S)
      /\ Len(c) \in Nat
  BY LeadingIs, LenProperties
<1> HIDE DEF m
<1>2. ~ (m < n)
  BY <1>1
<1>3. ~ (n < m)
  BY <1>1
<1> QED BY <1>1, <1>2, <1>3 DEF m

LEMMA TrailingOf ==
  ASSUME NEW c \in Seq(Cell), NEW S, NEW n \in 0 .. Len(c),
         \A i \in 1 .. n : c[Len(c) + 1 - i] \in S, n = Len(c) \/ c[Len(c) - n] \notin S
  PROVE  Trailing(c, S) = n
<1> DEFINE m == Trailing(c, S)
<1>1. /\ m \in 0 .. Len(c) /\ (\A i \in 1 .. m : c[Len(c) + 1 - i] \in S)
      /\ (m = Len(c) \/ c[Len(c) - m] \notin S) /\ Len(c) \in Nat
  BY TrailingIs, LenProperties
<1> HIDE DEF m
<1>2. ASSUME m < n PROVE FALSE
  <2>1. m + 1 \in 1 .. n /\ Len(c) + 1 - (m + 1) = Len(c) - m
    BY <1>1, <1>2
  <2> QED BY <1>1, <1>2, <2>1
<1>3. ASSUME n < m PROVE FALSE
  <2>1. n + 1 \in 1 .. m /\ Len(c) + 1 - (n + 1) = Len(c) - n
    BY <1>1, <1>3
  <2> QED BY <1>1, <1>3, <2>1
<1> QED BY <1>1, <1>2, <1>3 DEF m

(***************************************************************************)
(* Answers.                                                                *)
(***************************************************************************)
LEMMA PlainIs == ASSUME NEW k PROVE Plain(k) = [kind |-> k, data |-> <<>>, step |-> 0]
BY DEF Plain, NoAnswer

LEMMA FailedIs == ASSUME NEW n PROVE Failed(n).kind = "error" /\ Failed(n).step = n
BY DEF Failed

\* The cells of a record, and of a deleted one.
RecordCells(c) == Len(c) = Slot /\ c[Slot] = EOR /\ \A i \in 1 .. RecSize : c[i] \in Data
DeletedCells(c) == Len(c) = Slot /\ \A i \in 1 .. Slot : c[i] = DEL

LEMMA GetOfRecord ==
  ASSUME NEW c \in Seq(Cell), RecordCells(c), NEW pos
  PROVE  GetAnswer(c, pos) = [kind |-> "record", data |-> SubSeq(c, 1, RecSize), step |-> Slot]
<1>1. Len(c) = Slot /\ RecSize \in 0 .. Len(c) /\ RecSize + 1 = Slot /\ 1 \in 1 .. RecSize
  BY SlotSize DEF RecordCells
<1>2. Leading(c, Data) = RecSize
  <2>1. c[RecSize + 1] \notin Data
    BY <1>1, Marks DEF RecordCells
  <2> QED BY <1>1, <2>1, LeadingOf DEF RecordCells
<1>3. c # <<>> /\ c[1] # DEL /\ c[1] # EOFC
  BY <1>1, SlotSize, Marks, EmptySeq DEF RecordCells
<1> QED BY <1>1, <1>2, <1>3 DEF GetAnswer, RecordCells

LEMMA GetOfDeleted ==
  ASSUME NEW c \in Seq(Cell), DeletedCells(c), NEW pos \in Nat, pos % Slot = 0
  PROVE  GetAnswer(c, pos) = [kind |-> "deleted", data |-> <<>>, step |-> Slot]
<1>1. Rest(pos) = Slot
  BY SlotSize DEF Rest
<1>2. Leading(c, {DEL}) = Slot
  BY SlotSize, LeadingOf DEF DeletedCells
<1>3. c # <<>> /\ c[1] = DEL
  BY SlotSize, EmptySeq DEF DeletedCells
<1> QED BY <1>1, <1>2, <1>3, SlotSize DEF GetAnswer, Least

LEMMA GetOfEnd ==
  ASSUME NEW c \in Seq(Cell), Len(c) = 1, c[1] = EOFC, NEW pos
  PROVE  GetAnswer(c, pos) = [kind |-> "end", data |-> <<>>, step |-> 0]
<1>1. c # <<>>
  BY EmptySeq
<1> QED BY <1>1, Marks, PlainIs DEF GetAnswer

LEMMA GetRecordOnly ==
  ASSUME NEW c \in Seq(Cell), NEW pos, IsRecord(c, pos)
  PROVE  RecordCells(c)
<1>1. GetAnswer(c, pos).kind = "record"
  BY DEF IsRecord
<1> DEFINE dels == Least(Leading(c, {DEL}), Rest(pos))
           data == Leading(c, Data)
<1>2. data = RecSize /\ Len(c) = Slot /\ c[Slot] = EOR
  <2>1. Plain("end").kind # "record" /\ \A n : Failed(n).kind # "record"
    BY PlainIs, FailedIs
  <2> HIDE DEF dels, data
  <2>2. GetAnswer(c, pos) =
          IF c = <<>> THEN Failed(0)
          ELSE IF c[1] = DEL
          THEN IF dels = Rest(pos)
               THEN [kind |-> "deleted", data |-> <<>>, step |-> dels] ELSE Failed(dels)
          ELSE IF c[1] = EOFC THEN Plain("end")
          ELSE IF data = RecSize /\ Len(c) = Slot /\ c[Slot] = EOR
          THEN [kind |-> "record", data |-> SubSeq(c, 1, RecSize), step |-> Slot]
          ELSE Failed(IF data = Len(c) THEN data ELSE data + 1)
    BY DEF GetAnswer, dels, data
  <2> QED BY <1>1, <2>1, <2>2
<1>3. \A i \in 1 .. RecSize : c[i] \in Data
  BY <1>2, LeadingIs
<1> QED BY <1>2, <1>3 DEF RecordCells

\* What is put ends the record at pos; what is put in part is a part of it.
LEMMA PutsAre ==
  ASSUME NEW pos \in Nat, NEW d \in Puts(pos)
  PROVE  d \in Seq(Value) /\ Len(d) = Slot - (pos % Slot) - 1
<1> DEFINE n == Slot - (pos % Slot) - 1
<1>1. n \in Nat /\ n = Rest(pos) - 1
  <2>1. pos % Slot \in 0 .. Slot - 1 /\ Slot \in Nat
    BY Division, SlotSize
  <2> QED BY <2>1 DEF Rest
<1> HIDE DEF n
<1>2. d \in [1 .. n -> Value]
  BY <1>1 DEF Puts
<1>3. d \in Seq(Value)
  BY <1>1, <1>2, SeqDef
<1>4. DOMAIN d = 1 .. n /\ DOMAIN d = 1 .. Len(d) /\ Len(d) \in Nat
  BY <1>2, <1>3, LenProperties
<1>5. Len(d) = n
  BY <1>1, <1>4
<1> QED BY <1>3, <1>5 DEF n

LEMMA ParPutsAre ==
  ASSUME NEW pos \in Nat, NEW d \in ParPuts(pos)
  PROVE  d \in Seq(Cell) /\ Len(d) \in Nat /\ Len(d) >= 1 /\ \A i \in 1 .. Len(d) : d[i] \in Value
<1>1. PICK n \in 1 .. Rest(pos) - 1 : d \in [1 .. n -> Value]
  BY DEF ParPuts
<1>2. n \in Nat /\ n >= 1 /\ Value \subseteq Cell
  BY <1>1, Division, SlotSize, Marks DEF Rest
<1>3. d \in Seq(Cell)
  <2>1. d \in [1 .. n -> Cell]
    BY <1>1, <1>2
  <2> QED BY <1>2, <2>1, SeqDef
<1>4. DOMAIN d = 1 .. n /\ DOMAIN d = 1 .. Len(d) /\ Len(d) \in Nat
  BY <1>1, <1>3, LenProperties
<1>5. Len(d) = n
  BY <1>2, <1>4
<1> QED BY <1>1, <1>2, <1>3, <1>5

\* The cells of a put are those of its record, with the end mark if the
\* record is put there.
LEMMA PutCellsAre ==
  ASSUME NEW d \in Seq(Value), NEW pos, NEW size
  PROVE  LET c == PutCells(d, pos, size)
             last == pos + Len(d) + 1 >= size
         IN /\ c \in Seq(Cell)
            /\ Len(c) = IF last THEN Len(d) + 2 ELSE Len(d) + 1
            /\ \A i \in 1 .. Len(d) : c[i] = d[i]
            /\ c[Len(d) + 1] = EOR
            /\ last => c[Len(d) + 2] = EOFC
            /\ Moves(c) = Len(d) + 1
<1> DEFINE c == PutCells(d, pos, size)
           last == pos + Len(d) + 1 >= size
<1>1. d \in Seq(Cell) /\ Len(d) \in Nat
  <2>1. Value \subseteq Cell
    BY Marks
  <2>2. \A i \in 1 .. Len(d) : d[i] \in Cell
    BY <2>1, ElementOfSeq
  <2> QED BY <2>1, <2>2, LenProperties, SeqDef
<1>2. CASE last
  <2>1. c = d \o <<EOR, EOFC>> /\ <<EOR, EOFC>> \in Seq(Cell)
    BY <1>2, Marks DEF PutCells
  <2> DEFINE u == <<EOR, EOFC>>
  <2>2. Len(u) = 2 /\ u[1] = EOR /\ u[2] = EOFC
    OBVIOUS
  <2> HIDE DEF u, last, c
  <2>3. /\ c \in Seq(Cell) /\ Len(c) = Len(d) + 2
        /\ \A i \in 1 .. Len(c) : c[i] = IF i <= Len(d) THEN d[i] ELSE u[i - Len(d)]
    BY <1>1, <2>1, <2>2, ConcatProperties DEF u
  <2>4. c[Len(d) + 1] = EOR /\ c[Len(d) + 2] = EOFC
    <3>1. /\ Len(d) + 1 \in 1 .. Len(c) /\ ~ (Len(d) + 1 <= Len(d)) /\ (Len(d) + 1) - Len(d) = 1
          /\ Len(d) + 2 \in 1 .. Len(c) /\ ~ (Len(d) + 2 <= Len(d)) /\ (Len(d) + 2) - Len(d) = 2
      BY <1>1, <2>3
    <3> QED BY <2>2, <2>3, <3>1
  <2>5. \A i \in 1 .. Len(d) : c[i] = d[i]
    <3> TAKE i \in 1 .. Len(d)
    <3>1. i \in 1 .. Len(c) /\ i <= Len(d)
      BY <1>1, <2>3
    <3> QED BY <2>3, <3>1
  <2>6. Moves(c) = Len(d) + 1
    BY <1>1, <2>3, <2>4 DEF Moves
  <2> QED BY <1>2, <2>3, <2>4, <2>5, <2>6 DEF c, last
<1>3. CASE ~ last
  <2>1. c = d \o <<EOR>> /\ <<EOR>> \in Seq(Cell)
    BY <1>3, Marks DEF PutCells
  <2> DEFINE u == <<EOR>>
  <2>2. Len(u) = 1 /\ u[1] = EOR
    OBVIOUS
  <2> HIDE DEF u, last, c
  <2>3. /\ c \in Seq(Cell) /\ Len(c) = Len(d) + 1
        /\ \A i \in 1 .. Len(c) : c[i] = IF i <= Len(d) THEN d[i] ELSE u[i - Len(d)]
    BY <1>1, <2>1, <2>2, ConcatProperties DEF u
  <2>4. c[Len(d) + 1] = EOR
    <3>1. Len(d) + 1 \in 1 .. Len(c) /\ ~ (Len(d) + 1 <= Len(d)) /\ (Len(d) + 1) - Len(d) = 1
      BY <1>1, <2>3
    <3> QED BY <2>2, <2>3, <3>1
  <2>5. \A i \in 1 .. Len(d) : c[i] = d[i]
    <3> TAKE i \in 1 .. Len(d)
    <3>1. i \in 1 .. Len(c) /\ i <= Len(d)
      BY <1>1, <2>3
    <3> QED BY <2>3, <3>1
  <2>6. Moves(c) = Len(d) + 1
    BY <1>1, <2>3, <2>4, Marks DEF Moves
  <2> QED BY <1>3, <2>3, <2>4, <2>5, <2>6 DEF c, last
<1> QED BY <1>2, <1>3
(***************************************************************************)
(* The steps of the position.                                              *)
(***************************************************************************)
LEMMA ButLastIs ==
  ASSUME NEW c \in Seq(Cell), Len(c) >= 1
  PROVE  LET d == SubSeq(c, 1, Len(c) - 1)
         IN /\ d \in Seq(Cell) /\ Len(d) = Len(c) - 1
            /\ \A i \in 1 .. Len(c) - 1 : d[i] = c[i]
<1> DEFINE d == SubSeq(c, 1, Len(c) - 1)
<1>1. Len(c) \in Nat /\ Len(c) - 1 \in Int /\ 1 \in Int
  BY LenProperties
<1>2. \A i \in 1 .. Len(c) - 1 : c[i] \in Cell
  BY <1>1, ElementOfSeq
<1>3. /\ d \in Seq(Cell)
      /\ Len(d) = IF 1 <= Len(c) - 1 THEN (Len(c) - 1) - 1 + 1 ELSE 0
      /\ \A i \in 1 .. (Len(c) - 1) - 1 + 1 : d[i] = c[1 + i - 1]
  BY <1>1, <1>2, SubSeqProperties
<1> HIDE DEF d
<1>4. \A l \in Nat : l >= 1 => (IF 1 <= l - 1 THEN (l - 1) - 1 + 1 ELSE 0) = l - 1
  OBVIOUS
<1>5. (IF 1 <= Len(c) - 1 THEN (Len(c) - 1) - 1 + 1 ELSE 0) = Len(c) - 1
  BY <1>1, <1>4
<1>6. \A i \in 1 .. Len(c) - 1 : i \in 1 .. (Len(c) - 1) - 1 + 1 /\ 1 + i - 1 = i
  BY <1>1
<1> QED BY <1>3, <1>5, <1>6 DEF d

LEMMA GetStep ==
  ASSUME NEW c \in Seq(Cell), NEW pos \in Nat
  PROVE  GetAnswer(c, pos).step \in Nat /\ GetAnswer(c, pos).step <= Len(c)
<1> DEFINE dels == Least(Leading(c, {DEL}), Rest(pos))
           data == Leading(c, Data)
<1>1. Slot \in Nat /\ Slot >= 2 /\ Len(c) \in Nat /\ pos % Slot \in 0 .. Slot - 1
  BY SlotSize, LenProperties, Division
<1>2. Leading(c, {DEL}) \in Nat /\ Leading(c, {DEL}) <= Len(c) /\ data \in Nat /\ data <= Len(c)
  BY <1>1, LeadingIs
<1>3. dels \in Nat /\ dels <= Len(c)
  BY <1>1, <1>2 DEF Rest, Least
<1>4. Plain("end").step = 0
  BY PlainIs
<1> HIDE DEF dels, data
<1>5. \A n : Failed(n).step = n
  BY FailedIs
<1>6. GetAnswer(c, pos) =
        IF c = <<>> THEN Failed(0)
        ELSE IF c[1] = DEL
        THEN IF dels = Rest(pos)
             THEN [kind |-> "deleted", data |-> <<>>, step |-> dels] ELSE Failed(dels)
        ELSE IF c[1] = EOFC THEN Plain("end")
        ELSE IF data = RecSize /\ Len(c) = Slot /\ c[Slot] = EOR
        THEN [kind |-> "record", data |-> SubSeq(c, 1, RecSize), step |-> Slot]
        ELSE Failed(IF data = Len(c) THEN data ELSE data + 1)
  BY DEF GetAnswer, dels, data
<1>7. CASE c = <<>>
  BY <1>1, <1>5, <1>6, <1>7
<1>8. CASE c # <<>> /\ c[1] = DEL
  <2>1. CASE dels = Rest(pos)
    BY <1>3, <1>6, <1>8, <2>1
  <2>2. CASE dels # Rest(pos)
    BY <1>3, <1>5, <1>6, <1>8, <2>2
  <2> QED BY <2>1, <2>2
<1>9. CASE c # <<>> /\ c[1] = EOFC /\ c[1] # DEL
  BY <1>1, <1>4, <1>6, <1>9
<1>10. CASE c # <<>> /\ c[1] # EOFC /\ c[1] # DEL
  <2>1. CASE data = RecSize /\ Len(c) = Slot /\ c[Slot] = EOR
    BY <1>1, <1>6, <1>10, <2>1
  <2>2. CASE ~ (data = RecSize /\ Len(c) = Slot /\ c[Slot] = EOR)
    <3>1. GetAnswer(c, pos).step = IF data = Len(c) THEN data ELSE data + 1
      BY <1>5, <1>6, <1>10, <2>2
    <3> QED BY <1>1, <1>2, <3>1
  <2> QED BY <2>1, <2>2
<1> QED BY <1>7, <1>8, <1>9, <1>10

\* rioprev does not move before the begin of the file.
LEMMA PrevStep ==
  ASSUME NEW c \in Seq(Cell), NEW pos \in Nat, pos > 0, Len(c) <= PrevCells(pos)
  PROVE  PrevAnswer(c, pos).step \in 0 .. pos
<1>1. Slot \in Nat /\ Slot >= 2 /\ Len(c) \in Nat
  BY SlotSize, LenProperties
<1>2. Back(pos) \in 1 .. pos /\ Verify(pos) \in {0, 1} /\ Back(pos) + Verify(pos) <= pos
  BY <1>1 DEF Back, Verify
<1>3. BackDels(pos) \in 0 .. Back(pos)
  <2>1. pos % Back(pos) \in 0 .. Back(pos) - 1
    BY <1>2, Divided
  <2> QED BY <1>2, <2>1 DEF BackDels
<1>4. Len(c) <= pos
  BY <1>1, <1>2 DEF PrevCells
<1>5. \A n : Failed(n).step = n
  BY FailedIs
<1>6. CASE c = <<>>
  BY <1>5, <1>6 DEF PrevAnswer
<1>7. CASE c # <<>> /\ c[Len(c)] = DEL
  <2> DEFINE lim == BackDels(pos)
             dels == Least(Trailing(c, {DEL}), lim + Verify(pos))
  <2>1. Trailing(c, {DEL}) \in Nat
    BY <1>1, TrailingIs
  <2>2. lim \in 0 .. pos /\ dels \in 0 .. pos
    BY <1>2, <1>3, <2>1 DEF Least
  <2> HIDE DEF lim, dels
  <2>3. PrevAnswer(c, pos) =
          IF dels >= lim /\ (Verify(pos) = 1 /\ dels = lim => c[Len(c) - dels] = EOR)
          THEN [kind |-> "deleted", data |-> <<>>, step |-> lim] ELSE Failed(dels)
    BY <1>7 DEF PrevAnswer, PrevDeleted, lim, dels
  <2>4. CASE dels >= lim /\ (Verify(pos) = 1 /\ dels = lim => c[Len(c) - dels] = EOR)
    BY <2>2, <2>3, <2>4
  <2>5. CASE ~ (dels >= lim /\ (Verify(pos) = 1 /\ dels = lim => c[Len(c) - dels] = EOR))
    BY <1>5, <2>2, <2>3, <2>5
  <2> QED BY <2>4, <2>5
<1>8. CASE c # <<>> /\ c[Len(c)] # DEL /\ c[Len(c)] # EOR
  BY <1>5, <1>8 DEF PrevAnswer
<1>9. CASE c # <<>> /\ c[Len(c)] # DEL /\ c[Len(c)] = EOR
  <2> DEFINE d == SubSeq(c, 1, Len(c) - 1)
             size == Trailing(d, Data) + 1
             verified == size < Len(c) /\ c[Len(c) - size] \in {EOR, DEL}
  <2>1. Len(c) >= 1
    BY <1>1, <1>9, EmptySeq
  <2>2. d \in Seq(Cell) /\ Len(d) = Len(c) - 1
    BY <2>1, ButLastIs
  <2> HIDE DEF d
  <2>3. Trailing(d, Data) \in 0 .. Len(d)
    BY <2>2, TrailingIs
  <2>4. size \in 0 .. pos
    BY <1>1, <1>4, <2>1, <2>2, <2>3
  <2> HIDE DEF size, verified
  <2>5. PrevAnswer(c, pos) =
          IF size = Slot /\ (verified \/ Verify(pos) = 0)
          THEN [kind |-> "record", data |-> SubSeq(c, Len(c) - RecSize, Len(c) - 1), step |-> Slot]
          ELSE Failed(size)
    BY <1>9 DEF PrevAnswer, PrevData, d, size, verified
  <2>6. CASE size = Slot /\ (verified \/ Verify(pos) = 0)
    BY <2>4, <2>5, <2>6
  <2>7. CASE ~ (size = Slot /\ (verified \/ Verify(pos) = 0))
    BY <1>5, <2>4, <2>5, <2>7
  <2> QED BY <2>6, <2>7
<1> QED BY <1>6, <1>7, <1>8, <1>9
\* rioprev reads the cells before lpos, as many as it wants.
LEMMA PrevRead ==
  ASSUME NEW s \in Seq(Cell), NEW pos \in Nat, pos > 0
  PROVE  LET c == ReadAt(s, pos - PrevCells(pos), PrevCells(pos))
         IN c \in Seq(Cell) /\ Len(c) <= PrevCells(pos)
<1> DEFINE n == PrevCells(pos)
           c == ReadAt(s, pos - n, n)
<1>1. n \in Nat /\ pos - n \in Nat /\ Len(s) \in Nat
  BY SlotSize, LenProperties DEF PrevCells, Back, Verify
<1> HIDE DEF n
<1>2. /\ c \in Seq(Cell)
      /\ Len(c) = IF Len(s) <= pos - n THEN 0 ELSE Least(n, Len(s) - (pos - n))
  BY <1>1, ReadAtIs
<1>3. (IF Len(s) <= pos - n THEN 0 ELSE Least(n, Len(s) - (pos - n))) <= n
  BY <1>1 DEF Least
<1> HIDE DEF c
<1>4. c \in Seq(Cell) /\ Len(c) <= n
  BY <1>2, <1>3
<1> QED BY <1>4 DEF c, n
=============================================================================
