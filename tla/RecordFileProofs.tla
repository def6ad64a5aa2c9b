------------------------- MODULE RecordFileProofs -------------------------
(***************************************************************************)
(* Proofs about RecordFile: the file stays a row of whole records, which   *)
(* rioget and rioprev read without an error and alike, for records and     *)
(* files of any length.                                                    *)
(***************************************************************************)
EXTENDS RecordFile, RecordFormatProofs

LEMMA WholeSlotIs ==
  ASSUME NEW c \in Seq(Cell)
  PROVE  WholeSlot(c) <=> RecordCells(c) \/ DeletedCells(c)
<1>1. IsRecord(c, 0) <=> RecordCells(c)
  BY GetRecordOnly, GetOfRecord DEF IsRecord
<1>2. c = [i \in 1 .. Slot |-> DEL] => DeletedCells(c)
  <2> SUFFICES ASSUME c = [i \in 1 .. Slot |-> DEL] PROVE DeletedCells(c)
    OBVIOUS
  <2>1. DOMAIN c = 1 .. Slot /\ DOMAIN c = 1 .. Len(c) /\ Len(c) \in Nat
    BY LenProperties
  <2>2. Len(c) = Slot
    BY <2>1, SlotSize
  <2> QED BY <2>2 DEF DeletedCells
<1>3. DeletedCells(c) => c = [i \in 1 .. Slot |-> DEL]
  <2> SUFFICES ASSUME DeletedCells(c) PROVE c = [i \in 1 .. Slot |-> DEL]
    OBVIOUS
  <2>1. c \in [1 .. Slot -> Cell]
    BY LenProperties DEF DeletedCells
  <2> QED BY <2>1 DEF DeletedCells
<1> QED BY <1>1, <1>2, <1>3 DEF WholeSlot

(***************************************************************************)
(* A file of whole slots.                                                  *)
(***************************************************************************)
HasRecord(s, b) == s[b + Slot] = EOR /\ \A i \in 1 .. RecSize : s[b + i] \in Data
HasDeleted(s, b) == \A i \in 1 .. Slot : s[b + i] = DEL

Whole(s, K) ==
  /\ Len(s) = K * Slot + 1
  /\ s[K * Slot + 1] = EOFC
  /\ \A n \in 0 .. K - 1 : HasRecord(s, n * Slot) \/ HasDeleted(s, n * Slot)

LEMMA SlotCells ==
  ASSUME NEW s \in Seq(Cell), NEW b \in Nat, b + Slot <= Len(s)
  PROVE  /\ ReadAt(s, b, Slot) \in Seq(Cell) /\ Len(ReadAt(s, b, Slot)) = Slot
         /\ \A i \in 1 .. Slot : ReadAt(s, b, Slot)[i] = s[b + i]
         /\ RecordCells(ReadAt(s, b, Slot)) <=> HasRecord(s, b)
         /\ DeletedCells(ReadAt(s, b, Slot)) <=> HasDeleted(s, b)
<1> DEFINE c == ReadAt(s, b, Slot)
<1>1. Len(s) \in Nat /\ Slot \in Nat /\ Slot >= 2
  BY LenProperties, SlotSize
<1>2. (IF Len(s) <= b THEN 0 ELSE Least(Slot, Len(s) - b)) = Slot
  BY <1>1 DEF Least
<1>3. c \in Seq(Cell) /\ Len(c) = Slot /\ \A i \in 1 .. Slot : c[i] = s[b + i]
  BY <1>1, <1>2, ReadAtIs
<1> HIDE DEF c
<1>4. RecordCells(c) <=> HasRecord(s, b)
  <2>1. Slot \in 1 .. Slot /\ \A i \in 1 .. RecSize : i \in 1 .. Slot
    BY SlotSize
  <2>2. c[Slot] = s[b + Slot] /\ \A i \in 1 .. RecSize : c[i] = s[b + i]
    BY <1>3, <2>1
  <2> QED BY <1>3, <2>2 DEF RecordCells, HasRecord
<1>5. DeletedCells(c) <=> HasDeleted(s, b)
  BY <1>3 DEF DeletedCells, HasDeleted
<1> QED BY <1>3, <1>4, <1>5 DEF c

\* What WholeFile says of the cells.
LEMMA WholeIs ==
  ASSUME NEW s \in Seq(Cell), NEW K \in Nat, Whole(s, K)
  PROVE  /\ Len(s) % Slot = 1 % Slot
         /\ s[Len(s)] = EOFC
         /\ \A n \in 0 .. (Len(s) \div Slot) - 1 : WholeSlot(ReadAt(s, n * Slot, Slot))
<1>1. Len(s) = K * Slot + 1 /\ Len(s) \in Nat
  BY LenProperties DEF Whole
<1>2. Len(s) % Slot = 1 /\ Len(s) \div Slot = K
  BY <1>1, SlotSize, DivisionIs
<1>3. 1 % Slot = 1
  BY SlotSize
<1>4. ASSUME NEW n \in 0 .. K - 1 PROVE WholeSlot(ReadAt(s, n * Slot, Slot))
  <2>1. n * Slot \in Nat /\ n * Slot + Slot <= Len(s)
    <3>1. n \in Nat /\ n < K /\ K * Slot \in Nat
      BY SlotsInOrder
    <3> QED BY <1>1, <3>1, SlotsInOrder, SlotSize
  <2> QED BY <2>1, SlotCells, WholeSlotIs DEF Whole
<1> QED BY <1>1, <1>2, <1>3, <1>4 DEF Whole

(***************************************************************************)
(* The slot before a position.                                             *)
(***************************************************************************)
LEMMA PrevSizes ==
  ASSUME NEW j \in Nat, j >= 1
  PROVE  /\ Back(j * Slot) = Slot /\ BackDels(j * Slot) = Slot
         /\ Verify(j * Slot) = IF j = 1 THEN 0 ELSE 1
         /\ PrevCells(j * Slot) = IF j = 1 THEN Slot ELSE Slot + 1
<1>1. (j * Slot) % Slot = 0 /\ j * Slot \in Nat
  BY SlotSize, SlotsInOrder, DivisionIs
<1>2. Slot + 1 > j * Slot <=> j = 1
  <2>1. CASE j = 1
    BY <2>1, SlotSize
  <2>2. CASE j >= 2
    <3>1. 1 * Slot + Slot <= j * Slot
      BY <2>2, SlotsInOrder
    <3> QED BY <2>2, <3>1, SlotSize, <1>1
  <2> QED BY <2>1, <2>2
<1>3. j = 1 => j * Slot = Slot
  BY SlotSize
<1>4. Back(j * Slot) = Slot
  BY <1>2, <1>3 DEF Back
<1>5. Verify(j * Slot) = IF j = 1 THEN 0 ELSE 1
  BY <1>2 DEF Verify
<1> QED BY <1>1, <1>4, <1>5, SlotSize DEF BackDels, PrevCells

\* The cells of the slot before pos, and the one before them if there is one.
PrevRow(c, pos) ==
  /\ c \in Seq(Cell)
  /\ Len(c) = Slot + Verify(pos)
  /\ Verify(pos) \in {0, 1} /\ BackDels(pos) = Slot
  /\ Verify(pos) = 1 => c[1] \in {EOR, DEL}

LEMMA PrevOfRecord ==
  ASSUME NEW c, NEW pos, PrevRow(c, pos), c[Len(c)] = EOR,
         \A i \in 1 .. RecSize : c[Len(c) - i] \in Data
  PROVE  PrevAnswer(c, pos) =
           [kind |-> "record", data |-> SubSeq(c, Len(c) - RecSize, Len(c) - 1), step |-> Slot]
<1> DEFINE d == SubSeq(c, 1, Len(c) - 1)
<1>1. /\ Len(c) \in Nat /\ Len(c) - 1 \in Nat /\ c \in Seq(Cell) /\ RecSize \in Nat /\ RecSize >= 1
      /\ Len(c) - 1 = RecSize + Verify(pos) /\ Verify(pos) \in {0, 1}
      /\ Len(c) - 1 >= RecSize /\ Len(c) - 1 \in Int
  BY LenProperties, SlotSize DEF PrevRow
<1>2. d \in Seq(Cell) /\ Len(d) = Len(c) - 1 /\ \A i \in 1 .. Len(c) - 1 : d[i] = c[i]
  BY <1>1, ButLastIs
<1> HIDE DEF d
<1>3. \A i \in 1 .. RecSize : d[Len(d) + 1 - i] \in Data
  <2> TAKE i \in 1 .. RecSize
  <2>1. Len(d) + 1 - i = Len(c) - i /\ Len(c) - i \in 1 .. Len(c) - 1
    BY <1>1, <1>2
  <2> QED BY <1>2, <2>1
<1>4. Trailing(d, Data) = RecSize
  <2>1. RecSize \in 0 .. Len(d)
    BY <1>1, <1>2
  <2>2. RecSize = Len(d) \/ d[Len(d) - RecSize] \notin Data
    <3>1. CASE Verify(pos) = 1
      <4>1. Len(d) - RecSize = 1 /\ 1 \in 1 .. Len(c) - 1
        BY <1>1, <1>2, <3>1
      <4>2. c[1] \notin Data
        BY <3>1, Marks DEF PrevRow
      <4> QED BY <1>2, <4>1, <4>2
    <3>2. CASE Verify(pos) = 0
      BY <1>1, <1>2, <3>2
    <3> QED BY <1>1, <3>1, <3>2
  <2> QED BY <1>2, <1>3, <2>1, <2>2, TrailingOf
<1>5. Trailing(d, Data) + 1 = Slot
  BY <1>4, SlotSize
<1>6. Verify(pos) = 0 \/ (Slot < Len(c) /\ c[Len(c) - Slot] \in {EOR, DEL})
  BY <1>1, SlotSize DEF PrevRow
<1>7. PrevData(c, pos) =
        [kind |-> "record", data |-> SubSeq(c, Len(c) - RecSize, Len(c) - 1), step |-> Slot]
  BY <1>5, <1>6 DEF PrevData, d
<1>8. c # <<>> /\ c[Len(c)] # DEL
  BY <1>1, EmptySeq, Marks
<1> QED BY <1>7, <1>8 DEF PrevAnswer

LEMMA PrevOfDeleted ==
  ASSUME NEW c, NEW pos, PrevRow(c, pos), \A i \in 1 .. Slot : c[Len(c) + 1 - i] = DEL
  PROVE  PrevAnswer(c, pos) = [kind |-> "deleted", data |-> <<>>, step |-> Slot]
<1> DEFINE n == Trailing(c, {DEL})
           dels == Least(n, Slot + Verify(pos))
<1>1. /\ Len(c) \in Nat /\ c \in Seq(Cell) /\ Len(c) = Slot + Verify(pos) /\ Verify(pos) \in {0, 1}
      /\ Slot \in Nat /\ Slot >= 2
  BY LenProperties, SlotSize DEF PrevRow
<1>2. /\ n \in 0 .. Len(c) /\ (n = Len(c) \/ c[Len(c) - n] # DEL)
  BY <1>1, TrailingIs
<1> HIDE DEF n
<1>3. n >= Slot
  <2> SUFFICES ASSUME n < Slot PROVE FALSE
    BY <1>1, <1>2
  <2>1. n + 1 \in 1 .. Slot /\ Len(c) + 1 - (n + 1) = Len(c) - n /\ n # Len(c)
    BY <1>1, <1>2
  <2> QED BY <1>2, <2>1
<1>4. dels = n
  BY <1>1, <1>2 DEF Least
<1>5. Verify(pos) = 1 /\ n = Slot => c[Len(c) - n] = EOR
  <2> SUFFICES ASSUME Verify(pos) = 1, n = Slot PROVE c[Len(c) - n] = EOR
    OBVIOUS
  <2>1. Len(c) - n = 1 /\ n # Len(c)
    BY <1>1
  <2> QED BY <1>2, <2>1 DEF PrevRow
<1>6. PrevDeleted(c, pos) = [kind |-> "deleted", data |-> <<>>, step |-> Slot]
  <2>1. BackDels(pos) = Slot
    BY DEF PrevRow
  <2>2. Least(Trailing(c, {DEL}), BackDels(pos) + Verify(pos)) = n
    BY <1>4, <2>1 DEF n
  <2> QED BY <1>3, <1>5, <2>1, <2>2 DEF PrevDeleted
<1>7. c # <<>> /\ c[Len(c)] = DEL
  <2>1. 1 \in 1 .. Slot /\ Len(c) + 1 - 1 = Len(c)
    BY <1>1
  <2> QED BY <1>1, <2>1, EmptySeq
<1> QED BY <1>6, <1>7 DEF PrevAnswer

LEMMA SlotOf ==
  ASSUME NEW s \in Seq(Cell), NEW K \in Nat, Whole(s, K), NEW n \in 0 .. K - 1
  PROVE  /\ n * Slot \in Nat /\ n * Slot + Slot <= Len(s)
         /\ HasRecord(s, n * Slot) \/ HasDeleted(s, n * Slot)
<1>1. n \in Nat /\ n < K /\ K * Slot \in Nat
  BY SlotsInOrder
<1>2. n * Slot \in Nat /\ n * Slot + Slot <= K * Slot
  BY <1>1, SlotsInOrder
<1>3. n * Slot + Slot <= Len(s)
  BY <1>1, <1>2, SlotSize DEF Whole
<1> QED BY <1>2, <1>3 DEF Whole

\* What rioget finds in a file of whole slots.
LEMMA GetFinds ==
  ASSUME NEW s \in Seq(Cell), NEW K \in Nat, Whole(s, K), NEW k \in 0 .. K
  PROVE  LET found == GetAnswer(ReadAt(s, k * Slot, Slot), k * Slot)
         IN /\ ReadAt(s, k * Slot, Slot) # <<>>
            /\ found.kind # "error"
            /\ IF k < K THEN found.step = Slot ELSE found.step = 0
<1> DEFINE pos == k * Slot
           c == ReadAt(s, pos, Slot)
<1>1. pos \in Nat /\ pos % Slot = 0 /\ Len(s) \in Nat /\ Slot \in Nat /\ Slot >= 2
  BY SlotsInOrder, SlotSize, DivisionIs, LenProperties
<1>2. CASE k < K
  <2>1. k \in 0 .. K - 1
    BY <1>2
  <2>2. pos + Slot <= Len(s) /\ (HasRecord(s, pos) \/ HasDeleted(s, pos))
    BY <2>1, SlotOf
  <2>3. c \in Seq(Cell) /\ Len(c) = Slot /\ (RecordCells(c) \/ DeletedCells(c))
    BY <1>1, <2>2, SlotCells
  <2> HIDE DEF c, pos
  <2>4. c # <<>>
    BY <1>1, <2>3, EmptySeq
  <2>5. GetAnswer(c, pos).kind # "error" /\ GetAnswer(c, pos).step = Slot
    BY <1>1, <2>3, GetOfRecord, GetOfDeleted
  <2> QED BY <1>2, <2>4, <2>5 DEF c, pos
<1>3. CASE k = K
  <2>1. Len(s) = pos + 1 /\ s[pos + 1] = EOFC
    BY <1>3 DEF Whole
  <2>2. (IF Len(s) <= pos THEN 0 ELSE Least(Slot, Len(s) - pos)) = 1
    BY <1>1, <2>1 DEF Least
  <2>3. c \in Seq(Cell) /\ Len(c) = 1 /\ c[1] = s[pos + 1]
    <3>1. /\ c \in Seq(Cell) /\ Len(c) = 1
          /\ \A i \in 1 .. Len(c) : c[i] = s[pos + i]
      BY <1>1, <2>2, ReadAtIs
    <3> QED BY <3>1
  <2> HIDE DEF c, pos
  <2>4. c # <<>>
    <3>1. Len(c) # 0
      BY <2>3
    <3>2. Len(<<>>) = 0
      OBVIOUS
    <3> QED BY <3>1, <3>2
  <2>5. GetAnswer(c, pos).kind # "error" /\ GetAnswer(c, pos).step = 0
    BY <2>1, <2>3, GetOfEnd
  <2> QED BY <1>3, <2>4, <2>5 DEF c, pos
<1> QED BY <1>2, <1>3

\* What rioprev finds is what rioget finds at the position rioprev moves to.
LEMMA PrevFinds ==
  ASSUME NEW s \in Seq(Cell), NEW K \in Nat, Whole(s, K), NEW j \in 1 .. K,
         NEW pos, pos = j * Slot
  PROVE  LET found == PrevAnswer(ReadAt(s, pos - PrevCells(pos), PrevCells(pos)), pos)
         IN /\ found.kind # "error" /\ found.step = Slot
            /\ pos - Slot = (j - 1) * Slot
            /\ found = GetAnswer(ReadAt(s, pos - Slot, Slot), pos - Slot)
<1> DEFINE n == PrevCells(pos)
           c == ReadAt(s, pos - n, n)
           b == pos - Slot
           g == ReadAt(s, b, Slot)
<1>1. j \in Nat /\ j - 1 \in 0 .. K - 1 /\ j - 1 \in Nat /\ (j - 1) + 1 = j
  OBVIOUS
<1>2. /\ Slot \in Nat /\ Slot >= 2 /\ Slot = RecSize + 1 /\ RecSize \in Nat /\ RecSize >= 1
      /\ Len(s) \in Nat
  BY SlotSize, LenProperties
<1>3. b = (j - 1) * Slot /\ b \in Nat /\ pos = b + Slot /\ pos \in Nat
  <2>1. j * Slot = (j - 1) * Slot + Slot /\ (j - 1) * Slot \in Nat
    BY <1>1, SlotsInOrder
  <2> QED BY <1>2, <2>1
<1>4. b + Slot <= Len(s) /\ (HasRecord(s, b) \/ HasDeleted(s, b))
  BY <1>1, <1>3, SlotOf
<1>5. b % Slot = 0
  BY <1>1, <1>2, <1>3, DivisionIs
<1>6. /\ BackDels(pos) = Slot /\ Verify(pos) = (IF j = 1 THEN 0 ELSE 1)
      /\ n = (IF j = 1 THEN Slot ELSE Slot + 1)
  BY <1>1, PrevSizes
<1>7. j # 1 => b >= 1 /\ s[b] \in {EOR, DEL}
  <2> SUFFICES ASSUME j # 1 PROVE b >= 1 /\ s[b] \in {EOR, DEL}
    OBVIOUS
  <2>1. j - 2 \in 0 .. K - 1 /\ j - 2 \in Nat /\ (j - 2) + 1 = j - 1
    BY <1>1
  <2> DEFINE m == (j - 2) * Slot
  <2>2. b = m + Slot /\ m \in Nat
    BY <1>3, <2>1, SlotsInOrder
  <2>3. HasRecord(s, m) \/ HasDeleted(s, m)
    BY <2>1, SlotOf
  <2>4. Slot \in 1 .. Slot
    BY <1>2
  <2> HIDE DEF m, b
  <2>5. s[m + Slot] \in {EOR, DEL}
    BY <2>3, <2>4 DEF HasRecord, HasDeleted
  <2>6. b >= 1
    BY <1>2, <2>2
  <2> QED BY <2>2, <2>5, <2>6
<1>8. /\ n \in Nat /\ n >= Slot /\ pos - n \in Nat /\ n <= Slot + 1
      /\ n = Slot + Verify(pos) /\ Verify(pos) \in {0, 1}
  BY <1>2, <1>3, <1>6, <1>7
<1>9. (IF Len(s) <= pos - n THEN 0 ELSE Least(n, Len(s) - (pos - n))) = n
  BY <1>2, <1>3, <1>4, <1>8 DEF Least
<1> HIDE DEF n, c, b, g
<1>10. c \in Seq(Cell) /\ Len(c) = n /\ \A i \in 1 .. n : c[i] = s[pos - n + i]
  <2>1. /\ c \in Seq(Cell) /\ Len(c) = n
        /\ \A i \in 1 .. Len(c) : c[i] = s[(pos - n) + i]
    BY <1>8, <1>9, ReadAtIs DEF c
  <2> QED BY <1>3, <1>8, <2>1
<1>11. PrevRow(c, pos)
  <2>1. Verify(pos) = 1 => c[1] \in {EOR, DEL}
    <3> SUFFICES ASSUME Verify(pos) = 1 PROVE c[1] \in {EOR, DEL}
      OBVIOUS
    <3>1. j # 1 /\ n = Slot + 1 /\ 1 \in 1 .. n
      BY <1>2, <1>6
    <3>2. pos - n + 1 = b
      BY <1>2, <1>3, <3>1
    <3> QED BY <1>7, <1>10, <3>1, <3>2
  <2> QED BY <1>6, <1>8, <1>10, <2>1 DEF PrevRow
<1>12. \A i \in 0 .. Slot - 1 : c[n - i] = s[b + (Slot - i)]
  <2> TAKE i \in 0 .. Slot - 1
  <2>1. n - i \in 1 .. n /\ pos - n + (n - i) = b + (Slot - i)
    BY <1>2, <1>3, <1>8, SMTT(30)
  <2> QED BY <1>10, <2>1
<1>13. /\ g \in Seq(Cell) /\ Len(g) = Slot /\ \A i \in 1 .. Slot : g[i] = s[b + i]
       /\ RecordCells(g) <=> HasRecord(s, b)
       /\ DeletedCells(g) <=> HasDeleted(s, b)
  BY <1>3, <1>4, SlotCells DEF g
<1>14. CASE HasRecord(s, b)
  <2>1. c[Len(c)] = EOR
    <3>1. 0 \in 0 .. Slot - 1 /\ n - 0 = n /\ Slot - 0 = Slot
      BY <1>2, <1>8
    <3> QED BY <1>10, <1>12, <1>14, <3>1 DEF HasRecord
  <2>2. \A i \in 1 .. RecSize : c[Len(c) - i] \in Data
    <3> TAKE i \in 1 .. RecSize
    <3>1. i \in 0 .. Slot - 1 /\ Slot - i \in 1 .. RecSize
      BY <1>2
    <3> QED BY <1>10, <1>12, <1>14, <3>1 DEF HasRecord
  <2>3. PrevAnswer(c, pos) =
          [kind |-> "record", data |-> SubSeq(c, Len(c) - RecSize, Len(c) - 1), step |-> Slot]
    BY <1>11, <2>1, <2>2, PrevOfRecord
  <2>4. GetAnswer(g, b) = [kind |-> "record", data |-> SubSeq(g, 1, RecSize), step |-> Slot]
    BY <1>13, <1>14, GetOfRecord
  <2>5. SubSeq(c, Len(c) - RecSize, Len(c) - 1) = SubSeq(g, 1, RecSize)
    <3> DEFINE u == SubSeq(c, n - RecSize, n - 1)
               v == SubSeq(g, 1, RecSize)
    <3>1. /\ n - RecSize \in Int /\ n - 1 \in Int /\ n - RecSize >= 1 /\ n - RecSize <= n - 1
          /\ (n - 1) - (n - RecSize) + 1 = RecSize /\ RecSize - 1 + 1 = RecSize
      BY <1>2, <1>8
    <3>2. (\A i \in n - RecSize .. n - 1 : c[i] \in Cell) /\ (\A i \in 1 .. RecSize : g[i] \in Cell)
      <4>1. \A i \in n - RecSize .. n - 1 : i \in 1 .. Len(c)
        BY <1>8, <1>10, <3>1, SMTT(30)
      <4>2. \A i \in 1 .. RecSize : i \in 1 .. Len(g)
        BY <1>2, <1>13
      <4> QED BY <1>10, <1>13, <4>1, <4>2, ElementOfSeq
    <3>3. /\ u \in Seq(Cell) /\ Len(u) = RecSize
          /\ \A i \in 1 .. RecSize : u[i] = c[(n - RecSize) + i - 1]
      <4>1. /\ u \in Seq(Cell)
            /\ Len(u) = IF n - RecSize <= n - 1 THEN (n - 1) - (n - RecSize) + 1 ELSE 0
            /\ \A i \in 1 .. (n - 1) - (n - RecSize) + 1 : u[i] = c[(n - RecSize) + i - 1]
        BY <3>1, <3>2, SubSeqProperties, SMTT(30)
      <4> HIDE DEF u
      <4> QED BY <3>1, <4>1
    <3>4. /\ v \in Seq(Cell) /\ Len(v) = RecSize
          /\ \A i \in 1 .. RecSize : v[i] = g[1 + i - 1]
      <4>1. /\ v \in Seq(Cell)
            /\ Len(v) = IF 1 <= RecSize THEN RecSize - 1 + 1 ELSE 0
            /\ \A i \in 1 .. RecSize - 1 + 1 : v[i] = g[1 + i - 1]
        BY <1>2, <3>1, <3>2, SubSeqProperties
      <4> HIDE DEF v
      <4> QED BY <1>2, <3>1, <4>1
    <3> HIDE DEF u, v
    <3>5. \A i \in 1 .. RecSize : u[i] = v[i]
      <4> TAKE i \in 1 .. RecSize
      <4>1. /\ (n - RecSize) + i - 1 = n - (Slot - i) /\ Slot - i \in 0 .. Slot - 1
            /\ Slot - (Slot - i) = i /\ 1 + i - 1 = i /\ i \in 1 .. Slot
        BY <1>2, <1>8
      <4>2. c[n - (Slot - i)] = s[b + (Slot - (Slot - i))]
        BY <1>12, <4>1
      <4> QED BY <1>13, <3>3, <3>4, <4>1, <4>2
    <3>6. u = v
      BY <3>3, <3>4, <3>5, SeqEqual
    <3> QED BY <1>10, <3>6 DEF u, v
  <2>6. PrevAnswer(c, pos) = GetAnswer(g, b)
    BY <2>3, <2>4, <2>5
  <2>7. PrevAnswer(c, pos).kind # "error" /\ PrevAnswer(c, pos).step = Slot
    BY <2>3
  <2> QED BY <1>3, <2>6, <2>7 DEF n, c, b, g
<1>15. CASE HasDeleted(s, b)
  <2>1. \A i \in 1 .. Slot : c[Len(c) + 1 - i] = DEL
    <3> TAKE i \in 1 .. Slot
    <3>1. n + 1 - i = n - (i - 1) /\ i - 1 \in 0 .. Slot - 1 /\ Slot - (i - 1) \in 1 .. Slot
      BY <1>2, <1>8
    <3> QED BY <1>10, <1>12, <1>15, <3>1 DEF HasDeleted
  <2>2. PrevAnswer(c, pos) = [kind |-> "deleted", data |-> <<>>, step |-> Slot]
    BY <1>11, <2>1, PrevOfDeleted
  <2>3. GetAnswer(g, b) = [kind |-> "deleted", data |-> <<>>, step |-> Slot]
    BY <1>3, <1>5, <1>13, <1>15, GetOfDeleted
  <2> QED BY <1>3, <2>2, <2>3 DEF n, c, b, g
<1> QED BY <1>4, <1>14, <1>15
(***************************************************************************)
(* Writes to a file of whole slots.                                        *)
(***************************************************************************)
LEMMA SameSlot ==
  ASSUME NEW s, NEW t, NEW b, \A i \in 1 .. Slot : t[b + i] = s[b + i],
         HasRecord(s, b) \/ HasDeleted(s, b)
  PROVE  HasRecord(t, b) \/ HasDeleted(t, b)
<1>1. Slot \in 1 .. Slot /\ \A i \in 1 .. RecSize : i \in 1 .. Slot
  BY SlotSize
<1>2. HasRecord(s, b) => HasRecord(t, b)
  BY <1>1 DEF HasRecord
<1>3. HasDeleted(s, b) => HasDeleted(t, b)
  BY DEF HasDeleted
<1> QED BY <1>2, <1>3

\* Cells that begin with a record or are a deleted one.
SlotBegin(c) == \/ c[Slot] = EOR /\ \A i \in 1 .. RecSize : c[i] \in Data
                \/ \A i \in 1 .. Slot : c[i] = DEL

LEMMA SlotWritten ==
  ASSUME NEW c, NEW t, NEW b, \A i \in 1 .. Slot : t[b + i] = c[i], SlotBegin(c)
  PROVE  HasRecord(t, b) \/ HasDeleted(t, b)
<1>1. Slot \in 1 .. Slot /\ \A i \in 1 .. RecSize : i \in 1 .. Slot
  BY SlotSize
<1>2. CASE c[Slot] = EOR /\ \A i \in 1 .. RecSize : c[i] \in Data
  BY <1>1, <1>2 DEF HasRecord
<1>3. CASE \A i \in 1 .. Slot : c[i] = DEL
  BY <1>3 DEF HasDeleted
<1> QED BY <1>2, <1>3 DEF SlotBegin

\* A slot is written over a slot of the file.
LEMMA WriteSlot ==
  ASSUME NEW s \in Seq(Cell), NEW K \in Nat, Whole(s, K), NEW k \in 0 .. K - 1,
         NEW c \in Seq(Cell), Len(c) = Slot, SlotBegin(c)
  PROVE  WriteAt(s, k * Slot, c) \in Seq(Cell) /\ Whole(WriteAt(s, k * Slot, c), K)
<1> DEFINE m == k * Slot
           t == WriteAt(s, m, c)
           e == K * Slot
<1>1. /\ Slot \in Nat /\ Slot >= 2 /\ Len(s) \in Nat /\ m \in Nat /\ e \in Nat
      /\ m + Slot <= e /\ Len(s) = e + 1 /\ k \in Nat /\ s[e + 1] = EOFC
  BY SlotSize, LenProperties, SlotsInOrder DEF Whole
<1>2. Most(Len(s), m + Len(c)) = Len(s)
  BY <1>1 DEF Most
<1> HIDE DEF m, e
<1>3. /\ t \in Seq(Cell) /\ Len(t) = Len(s)
      /\ \A i \in 1 .. Len(s) : t[i] = IF i \in m + 1 .. m + Slot THEN c[i - m] ELSE s[i]
  <2> DEFINE len == Most(Len(s), m + Len(c))
  <2>0. s \in Seq(Cell) /\ c \in Seq(Cell) /\ m \in Nat
    BY <1>1
  <2>1. /\ t \in Seq(Cell) /\ Len(t) = len
        /\ \A i \in 1 .. len :
             t[i] = IF i \in m + 1 .. m + Len(c) THEN c[i - m]
                    ELSE IF i <= Len(s) THEN s[i] ELSE Zero
    BY ONLY <2>0, WriteAtIs, ZenonT(60)
  <2> HIDE DEF t
  <2> QED BY <1>1, <1>2, <2>1
<1> HIDE DEF t
<1>4. t[e + 1] = EOFC
  <2>1. e + 1 \in 1 .. Len(s) /\ e + 1 \notin m + 1 .. m + Slot
    BY <1>1
  <2> QED BY <1>1, <1>3, <2>1
<1>5. ASSUME NEW n \in 0 .. K - 1 PROVE HasRecord(t, n * Slot) \/ HasDeleted(t, n * Slot)
  <2> DEFINE b == n * Slot
  <2>1. b \in Nat /\ b + Slot <= Len(s) /\ (HasRecord(s, b) \/ HasDeleted(s, b))
    BY SlotOf
  <2>2. n \in Nat /\ (n = k \/ b + Slot <= m \/ m + Slot <= b)
    BY <1>1, SlotsInOrder DEF m
  <2>3. CASE n = k
    <3>1. b = m
      BY <2>3 DEF m
    <3> HIDE DEF b
    <3>2. \A i \in 1 .. Slot : t[m + i] = c[i]
      <4> TAKE i \in 1 .. Slot
      <4>1. m + i \in 1 .. Len(s) /\ m + i \in m + 1 .. m + Slot /\ (m + i) - m = i
        BY <1>1
      <4> QED BY <1>3, <4>1
    <3>3. HasRecord(t, m) \/ HasDeleted(t, m)
      BY <3>2, SlotWritten
    <3> QED BY <3>1, <3>3 DEF b
  <2> HIDE DEF b
  <2>4. CASE b + Slot <= m \/ m + Slot <= b
    <3>1. \A i \in 1 .. Slot : t[b + i] = s[b + i]
      <4> TAKE i \in 1 .. Slot
      <4>1. b + i \in 1 .. Len(s) /\ b + i \notin m + 1 .. m + Slot
        BY <1>1, <2>1, <2>4
      <4> QED BY <1>3, <4>1
    <3>2. HasRecord(t, b) \/ HasDeleted(t, b)
      BY <2>1, <3>1, SameSlot
    <3> QED BY <3>2 DEF b
  <2> QED BY <2>2, <2>3, <2>4
<1> QED BY <1>1, <1>3, <1>4, <1>5 DEF Whole, m, e, t

\* A record and the end mark are written over the end mark.
LEMMA WriteEnd ==
  ASSUME NEW s \in Seq(Cell), NEW K \in Nat, Whole(s, K),
         NEW c \in Seq(Cell), Len(c) = Slot + 1, SlotBegin(c), c[Slot + 1] = EOFC
  PROVE  WriteAt(s, K * Slot, c) \in Seq(Cell) /\ Whole(WriteAt(s, K * Slot, c), K + 1)
<1> DEFINE m == K * Slot
           t == WriteAt(s, m, c)
<1>1. /\ Slot \in Nat /\ Slot >= 2 /\ Len(s) \in Nat /\ m \in Nat
      /\ Len(s) = m + 1 /\ (K + 1) * Slot = m + Slot
  BY SlotSize, LenProperties, SlotsInOrder DEF Whole
<1>2. Most(Len(s), m + Len(c)) = m + Slot + 1
  BY <1>1 DEF Most
<1> HIDE DEF m
<1>3. /\ t \in Seq(Cell) /\ Len(t) = m + Slot + 1
      /\ \A i \in 1 .. m : t[i] = s[i]
      /\ \A i \in 1 .. Slot + 1 : t[m + i] = c[i]
  <2> DEFINE len == Most(Len(s), m + Len(c))
  <2>4. /\ t \in Seq(Cell) /\ Len(t) = len
        /\ \A i \in 1 .. len :
             t[i] = IF i \in m + 1 .. m + Len(c) THEN c[i - m]
                    ELSE IF i <= Len(s) THEN s[i] ELSE Zero
    BY <1>1, WriteAtIs, ZenonT(60)
  <2> HIDE DEF t
  <2>1. /\ t \in Seq(Cell) /\ Len(t) = m + Slot + 1
        /\ \A i \in 1 .. m + Slot + 1 : t[i] = IF i \in m + 1 .. m + Len(c) THEN c[i - m]
                                          ELSE IF i <= Len(s) THEN s[i] ELSE Zero
    BY <1>2, <2>4
  <2>2. ASSUME NEW i \in 1 .. m PROVE t[i] = s[i]
    <3>1. i \in 1 .. m + Slot + 1 /\ i \notin m + 1 .. m + Len(c) /\ i <= Len(s)
      BY <1>1
    <3> QED BY <2>1, <3>1
  <2>3. ASSUME NEW i \in 1 .. Slot + 1 PROVE t[m + i] = c[i]
    <3>1. m + i \in 1 .. m + Slot + 1 /\ m + i \in m + 1 .. m + Len(c) /\ (m + i) - m = i
      BY <1>1
    <3> QED BY <2>1, <3>1
  <2> QED BY <2>1, <2>2, <2>3
<1> HIDE DEF t
<1>4. t[(K + 1) * Slot + 1] = EOFC
  <2>1. (K + 1) * Slot + 1 = m + (Slot + 1) /\ Slot + 1 \in 1 .. Slot + 1
    BY <1>1
  <2> QED BY <1>3, <2>1
<1>5. ASSUME NEW n \in 0 .. K PROVE HasRecord(t, n * Slot) \/ HasDeleted(t, n * Slot)
  <2> DEFINE b == n * Slot
  <2>1. CASE n = K
    <3>1. b = m
      BY <2>1 DEF m
    <3> HIDE DEF b
    <3>2. \A i \in 1 .. Slot : i \in 1 .. Slot + 1
      BY <1>1
    <3>3. HasRecord(t, m) \/ HasDeleted(t, m)
      BY <1>3, <3>2, SlotWritten
    <3> QED BY <3>1, <3>3 DEF b
  <2>2. CASE n # K
    <3>1. n \in 0 .. K - 1
      BY <2>2
    <3>2. b \in Nat /\ b + Slot <= m /\ (HasRecord(s, b) \/ HasDeleted(s, b))
      BY <1>1, <3>1, SlotOf, SlotsInOrder DEF m
    <3> HIDE DEF b
    <3>3. \A i \in 1 .. Slot : t[b + i] = s[b + i]
      <4> TAKE i \in 1 .. Slot
      <4>1. b + i \in 1 .. m
        BY <1>1, <3>2
      <4> QED BY <1>3, <4>1
    <3>4. HasRecord(t, b) \/ HasDeleted(t, b)
      BY <3>2, <3>3, SameSlot
    <3> QED BY <3>4 DEF b
  <2> QED BY <2>1, <2>2
<1>6. Len(t) = (K + 1) * Slot + 1 /\ (K + 1) - 1 = K
  BY <1>1, <1>3
<1> QED BY <1>3, <1>4, <1>5, <1>6 DEF Whole, m, t

\* The file is cut after an end mark at the begin of a slot.
LEMMA WholeCut ==
  ASSUME NEW s \in Seq(Cell), NEW K \in Nat, Whole(s, K), NEW k \in 0 .. K
  PROVE  /\ Append(ReadAt(s, 0, k * Slot), EOFC) \in Seq(Cell)
         /\ Whole(Append(ReadAt(s, 0, k * Slot), EOFC), k)
<1> DEFINE m == k * Slot
           c == ReadAt(s, 0, m)
           t == Append(c, EOFC)
<1>1. /\ Slot \in Nat /\ Slot >= 2 /\ Len(s) \in Nat /\ m \in Nat /\ k \in Nat
      /\ m < Len(s)
  <2>1. k \in Nat /\ k <= K
    OBVIOUS
  <2>2. k * Slot <= K * Slot /\ K * Slot \in Nat /\ k * Slot \in Nat
    BY <2>1, SlotsInOrder
  <2> QED BY <2>1, <2>2, SlotSize, LenProperties DEF Whole
<1>2. (IF Len(s) <= 0 THEN 0 ELSE Least(m, Len(s) - 0)) = m
  BY <1>1 DEF Least
<1> HIDE DEF m
<1>3. c \in Seq(Cell) /\ Len(c) = m /\ \A i \in 1 .. m : c[i] = s[i]
  <2>1. c \in Seq(Cell) /\ Len(c) = m /\ \A i \in 1 .. Len(c) : c[i] = s[0 + i]
    BY <1>1, <1>2, ReadAtIs
  <2> HIDE DEF c
  <2>2. \A i \in 1 .. m : 0 + i = i
    BY <1>1
  <2> QED BY <2>1, <2>2
<1> HIDE DEF c
<1>4. /\ t \in Seq(Cell) /\ Len(t) = m + 1 /\ t[m + 1] = EOFC
      /\ \A i \in 1 .. m : t[i] = s[i]
  BY <1>3, Marks, AppendProperties
<1> HIDE DEF t
<1>5. ASSUME NEW n \in 0 .. k - 1 PROVE HasRecord(t, n * Slot) \/ HasDeleted(t, n * Slot)
  <2> DEFINE b == n * Slot
  <2>1. n \in 0 .. K - 1 /\ n \in Nat /\ n < k
    BY <1>1
  <2>2. b \in Nat /\ b + Slot <= m /\ (HasRecord(s, b) \/ HasDeleted(s, b))
    BY <1>1, <2>1, SlotOf, SlotsInOrder DEF m
  <2> HIDE DEF b
  <2>3. \A i \in 1 .. Slot : t[b + i] = s[b + i]
    <3> TAKE i \in 1 .. Slot
    <3>1. b + i \in 1 .. m
      BY <1>1, <2>2
    <3> QED BY <1>4, <3>1
  <2>4. HasRecord(t, b) \/ HasDeleted(t, b)
    BY <2>2, <2>3, SameSlot
  <2> QED BY <2>4 DEF b
<1> QED BY <1>4, <1>5 DEF Whole, m, c, t

\* A put of a whole record at the begin of a slot leaves whole slots, and its
\* position at the begin of the next.
LEMMA PutWhole ==
  ASSUME NEW s \in Seq(Cell), NEW K \in Nat, Whole(s, K), NEW k \in 0 .. K,
         NEW pos, pos = k * Slot, NEW d \in Puts(pos)
  PROVE  LET c == PutCells(d, pos, Len(s))
             t == WriteAt(s, pos, c)
         IN /\ t \in Seq(Cell)
            /\ IF k = K THEN Whole(t, K + 1) ELSE Whole(t, K)
            /\ pos + Moves(c) = (k + 1) * Slot
<1> DEFINE c == PutCells(d, pos, Len(s))
           t == WriteAt(s, pos, c)
<1>1. /\ Slot \in Nat /\ Slot = RecSize + 1 /\ RecSize \in Nat /\ Len(s) \in Nat /\ k \in Nat
      /\ pos \in Nat /\ pos % Slot = 0 /\ (k + 1) * Slot = pos + Slot
      /\ k # K => k \in 0 .. K - 1 /\ pos + Slot <= K * Slot
      /\ Len(s) = K * Slot + 1 /\ K * Slot \in Nat
  BY SlotSize, LenProperties, SlotsInOrder, DivisionIs DEF Whole
<1>2. d \in Seq(Value) /\ Len(d) = RecSize
  <2>1. Slot - (pos % Slot) - 1 = RecSize
    BY <1>1
  <2> QED BY <1>1, <2>1, PutsAre
<1>3. \A i \in 1 .. RecSize : d[i] \in Data
  BY <1>2, Marks, ElementOfSeq
<1>4. pos + Len(d) + 1 >= Len(s) <=> k = K
  BY <1>1, <1>2
<1>5. /\ c \in Seq(Cell)
      /\ Len(c) = IF k = K THEN Slot + 1 ELSE Slot
      /\ \A i \in 1 .. RecSize : c[i] = d[i]
      /\ c[Slot] = EOR
      /\ k = K => c[Slot + 1] = EOFC
      /\ Moves(c) = Slot
  <2> DEFINE last == pos + Len(d) + 1 >= Len(s)
  <2>1. /\ c \in Seq(Cell)
        /\ Len(c) = IF last THEN Len(d) + 2 ELSE Len(d) + 1
        /\ \A i \in 1 .. Len(d) : c[i] = d[i]
        /\ c[Len(d) + 1] = EOR
        /\ last => c[Len(d) + 2] = EOFC
        /\ Moves(c) = Len(d) + 1
    BY <1>2, PutCellsAre, SMTT(30)
  <2>2. last <=> k = K
    BY <1>4
  <2>3. Len(d) + 1 = Slot /\ Len(d) + 2 = Slot + 1
    BY <1>1, <1>2
  <2> HIDE DEF last, c
  <2> QED BY <1>2, <2>1, <2>2, <2>3
<1> HIDE DEF c
<1>6. SlotBegin(c)
  BY <1>3, <1>5 DEF SlotBegin
<1>7. pos + Moves(c) = (k + 1) * Slot
  BY <1>1, <1>5
<1>8. t \in Seq(Cell) /\ IF k = K THEN Whole(t, K + 1) ELSE Whole(t, K)
  <2>1. CASE k = K
    BY <1>5, <1>6, <2>1, WriteEnd
  <2>2. CASE k # K
    BY <1>1, <1>5, <1>6, <2>2, WriteSlot
  <2> QED BY <2>1, <2>2
<1> QED BY <1>7, <1>8 DEF c, t

\* A delete leaves whole slots.
LEMMA DeleteWhole ==
  ASSUME NEW s \in Seq(Cell), NEW K \in Nat, Whole(s, K), NEW k \in 0 .. K, NEW stale \in BOOLEAN
  PROVE  /\ DeleteAt(s, k * Slot, stale) \in Seq(Cell)
         /\ Whole(DeleteAt(s, k * Slot, stale), K)
<1> DEFINE pos == k * Slot
           g == ReadAt(s, pos, Slot)
           del == [i \in 1 .. Slot |-> DEL]
<1>1. CASE ~ Deletes(g, pos, stale)
  BY <1>1 DEF DeleteAt
<1>2. CASE Deletes(g, pos, stale)
  <2>1. pos \in Nat /\ Len(s) \in Nat /\ Slot \in Nat /\ Slot >= 2 /\ k \in Nat
    BY SlotsInOrder, SlotSize, LenProperties
  <2>2. k # K
    <3> SUFFICES ASSUME k = K PROVE FALSE
      OBVIOUS
    <3>1. Len(s) = pos + 1
      BY DEF Whole
    <3>2. (IF Len(s) <= pos THEN 0 ELSE Least(Slot, Len(s) - pos)) = 1
      BY <2>1, <3>1 DEF Least
    <3>3. g \in Seq(Cell) /\ Len(g) = 1 /\ g[1] = s[pos + 1]
      <4>1. g \in Seq(Cell) /\ Len(g) = 1 /\ \A i \in 1 .. Len(g) : g[i] = s[pos + i]
        BY <2>1, <3>2, ReadAtIs
      <4> HIDE DEF g, pos
      <4> QED BY <4>1
    <3>4. g[1] \notin Data
      BY <3>1, <3>3, Marks DEF Whole
    <3> HIDE DEF g
    <3>5. ~ IsRecord(g, pos)
      BY <2>1, <3>3, GetRecordOnly DEF RecordCells
    <3>6. Leading(g, Data) # RecSize
      <4>1. \A i \in 1 .. Leading(g, Data) : g[i] \in Data
        BY <3>3, LeadingIs
      <4>2. 1 \in 1 .. RecSize
        BY SlotSize
      <4> QED BY <3>4, <4>1, <4>2
    <3> QED BY <1>2, <3>5, <3>6 DEF Deletes
  <2>3. del \in Seq(Cell) /\ Len(del) = Slot
    <3>1. del \in [1 .. Slot -> Cell]
      BY Marks
    <3>2. del \in Seq(Cell)
      BY <2>1, <3>1, SeqDef
    <3>3. DOMAIN del = 1 .. Slot /\ DOMAIN del = 1 .. Len(del) /\ Len(del) \in Nat
      BY <3>2, LenProperties
    <3> QED BY <2>1, <3>2, <3>3
  <2>4. SlotBegin(del)
    BY DEF SlotBegin
  <2>5. k \in 0 .. K - 1
    BY <2>1, <2>2
  <2> HIDE DEF del
  <2>6. WriteAt(s, k * Slot, del) \in Seq(Cell) /\ Whole(WriteAt(s, k * Slot, del), K)
    BY <2>3, <2>4, <2>5, WriteSlot
  <2> QED BY <1>2, <2>6 DEF DeleteAt, del
<1> QED BY <1>1, <1>2

(***************************************************************************)
(* The invariant: while no record is put in parts, the file is a row of    *)
(* whole slots and the positions are begins of slots, or the end mark.     *)
(***************************************************************************)
Types == parts \in BOOLEAN /\ file \in Seq(Cell) /\ npos \in Nat /\ lpos \in Nat

InSlots(s, p, q, K, k, j) ==
  Whole(s, K) /\ k \in 0 .. K /\ j \in 0 .. K /\ p = k * Slot /\ q = j * Slot
Slots(s, p, q) == \E K, k, j \in Nat : InSlots(s, p, q, K, k, j)

RecordInv == Types /\ (parts = FALSE => Slots(file, npos, lpos))

LEMMA InitRecord == RecordInit => RecordInv
<1> SUFFICES ASSUME RecordInit PROVE RecordInv
  OBVIOUS
<1>1. parts \in BOOLEAN /\ file = <<EOFC>> /\ npos = 0 /\ lpos = 0
  BY DEF RecordInit
<1>2. file \in Seq(Cell) /\ Len(file) = 1 /\ file[1] = EOFC
  BY <1>1, Marks
<1>3. 0 * Slot = 0 /\ 0 \in 0 .. 0
  BY SlotSize
<1>4. Whole(file, 0)
  BY <1>2, <1>3 DEF Whole
<1>5. InSlots(file, npos, lpos, 0, 0, 0)
  BY <1>1, <1>3, <1>4 DEF InSlots
<1>6. Slots(file, npos, lpos)
  BY <1>5 DEF Slots
<1> QED BY <1>1, <1>2, <1>6 DEF RecordInv, Types

LEMMA PutKept == ASSUME RecordInv, RioPut PROVE RecordInv'
<1>1. /\ parts \in BOOLEAN /\ file \in Seq(Cell) /\ npos \in Nat /\ lpos \in Nat
      /\ parts = FALSE => Slots(file, npos, lpos)
  BY DEF RecordInv, Types
<1>2. PICK d \in Puts(npos) : Put(PutCells(d, npos, Len(file)))
  BY DEF RioPut
<1> DEFINE c == PutCells(d, npos, Len(file))
<1>3. /\ file' = WriteAt(file, npos, c) /\ lpos' = npos /\ npos' = npos + Moves(c)
      /\ parts' = parts
  BY <1>2 DEF Put
<1>4. c \in Seq(Cell) /\ Moves(c) \in Nat
  <2>1. d \in Seq(Value) /\ Len(d) \in Nat
    BY <1>1, PutsAre, LenProperties
  <2> QED BY <2>1, PutCellsAre
<1> HIDE DEF c
<1>5. Types'
  <2>1. WriteAt(file, npos, c) \in Seq(Cell)
    BY <1>1, <1>4, WriteAtIs
  <2>2. npos + Moves(c) \in Nat
    BY <1>1, <1>4
  <2> QED BY <1>1, <1>3, <2>1, <2>2 DEF Types
<1>6. ASSUME parts = FALSE PROVE Slots(file', npos', lpos')
  <2>1. PICK K \in Nat, k \in Nat, j \in Nat : InSlots(file, npos, lpos, K, k, j)
    BY <1>1, <1>6 DEF Slots
  <2>2. Whole(file, K) /\ k \in 0 .. K /\ npos = k * Slot
    BY <2>1 DEF InSlots
  <2>3. /\ IF k = K THEN Whole(file', K + 1) ELSE Whole(file', K)
        /\ npos' = (k + 1) * Slot
    BY <1>1, <1>3, <2>2, PutWhole DEF c
  <2>4. CASE k = K
    <3>1. InSlots(file', npos', lpos', K + 1, k + 1, k)
      BY <1>3, <2>2, <2>3, <2>4 DEF InSlots
    <3> QED BY <3>1 DEF Slots
  <2>5. CASE k # K
    <3>1. InSlots(file', npos', lpos', K, k + 1, k)
      BY <1>3, <2>2, <2>3, <2>5 DEF InSlots
    <3> QED BY <3>1 DEF Slots
  <2> QED BY <2>4, <2>5
<1> QED BY <1>3, <1>5, <1>6 DEF RecordInv

LEMMA ParPutKept == ASSUME RecordInv, RioParPut PROVE RecordInv'
<1>1. parts \in BOOLEAN /\ file \in Seq(Cell) /\ npos \in Nat /\ lpos \in Nat
  BY DEF RecordInv, Types
<1>2. PICK d \in ParPuts(npos) : Put(d)
  BY DEF RioParPut
<1>3. /\ file' = WriteAt(file, npos, d) /\ lpos' = npos /\ npos' = npos + Moves(d)
      /\ parts' = parts /\ parts = TRUE
  BY <1>1, <1>2 DEF Put, RioParPut
<1>4. d \in Seq(Cell) /\ Len(d) \in Nat /\ Len(d) >= 1
  BY <1>1, ParPutsAre
<1>5. Moves(d) \in Nat
  BY <1>4 DEF Moves
<1>6. Types'
  <2>1. WriteAt(file, npos, d) \in Seq(Cell)
    BY <1>1, <1>4, WriteAtIs
  <2>2. npos + Moves(d) \in Nat
    BY <1>1, <1>5
  <2> QED BY <1>1, <1>3, <2>1, <2>2 DEF Types
<1> QED BY <1>3, <1>6 DEF RecordInv

LEMMA GetKept == ASSUME RecordInv, RioGet PROVE RecordInv'
<1>1. /\ parts \in BOOLEAN /\ file \in Seq(Cell) /\ npos \in Nat /\ lpos \in Nat
      /\ parts = FALSE => Slots(file, npos, lpos)
  BY DEF RecordInv, Types
<1> DEFINE c == ReadAt(file, npos, Slot)
<1>2. /\ lpos' = (IF c = <<>> THEN lpos ELSE npos) /\ npos' = npos + GetAnswer(c, npos).step
      /\ parts' = parts /\ file' = file
  BY DEF RioGet
<1>3. c \in Seq(Cell)
  BY <1>1, SlotSize, ReadAtIs
<1>4. GetAnswer(c, npos).step \in Nat
  BY <1>1, <1>3, GetStep
<1>5. Types'
  <2> HIDE DEF c
  <2> QED BY <1>1, <1>2, <1>4 DEF Types
<1>6. ASSUME parts = FALSE PROVE Slots(file', npos', lpos')
  <2>1. PICK K \in Nat, k \in Nat, j \in Nat : InSlots(file, npos, lpos, K, k, j)
    BY <1>1, <1>6 DEF Slots
  <2>2. Whole(file, K) /\ k \in 0 .. K /\ npos = k * Slot
    BY <2>1 DEF InSlots
  <2>3. c # <<>> /\ IF k < K THEN GetAnswer(c, npos).step = Slot ELSE GetAnswer(c, npos).step = 0
    BY <1>1, <2>2, GetFinds
  <2> HIDE DEF c
  <2>4. lpos' = k * Slot
    BY <1>2, <2>2, <2>3
  <2>5. CASE k < K
    <3>1. npos' = (k + 1) * Slot
      BY <1>2, <2>2, <2>3, <2>5, SlotsInOrder
    <3>2. InSlots(file', npos', lpos', K, k + 1, k)
      BY <1>2, <2>2, <2>4, <2>5, <3>1 DEF InSlots
    <3> QED BY <3>2 DEF Slots
  <2>6. CASE k = K
    <3>1. npos' = k * Slot
      BY <1>1, <1>2, <2>2, <2>3, <2>6
    <3>2. InSlots(file', npos', lpos', K, k, k)
      BY <1>2, <2>2, <2>4, <3>1 DEF InSlots
    <3> QED BY <3>2 DEF Slots
  <2> QED BY <2>2, <2>5, <2>6
<1> QED BY <1>2, <1>5, <1>6 DEF RecordInv

LEMMA PrevKept == ASSUME RecordInv, RioPrev PROVE RecordInv'
<1>1. /\ parts \in BOOLEAN /\ file \in Seq(Cell) /\ npos \in Nat /\ lpos \in Nat /\ lpos > 0
      /\ parts = FALSE => Slots(file, npos, lpos)
  BY DEF RecordInv, Types, RioPrev
<1> DEFINE n == PrevCells(lpos)
           c == ReadAt(file, lpos - n, n)
<1>2. /\ npos' = lpos /\ lpos' = lpos - PrevAnswer(c, lpos).step
      /\ parts' = parts /\ file' = file
  BY DEF RioPrev
<1>3. PrevAnswer(c, lpos).step \in 0 .. lpos
  BY <1>1, PrevRead, PrevStep
<1>4. Types'
  <2> HIDE DEF c
  <2> QED BY <1>1, <1>2, <1>3 DEF Types
<1>5. ASSUME parts = FALSE PROVE Slots(file', npos', lpos')
  <2>1. PICK K \in Nat, k \in Nat, j \in Nat : InSlots(file, npos, lpos, K, k, j)
    BY <1>1, <1>5 DEF Slots
  <2>2. Whole(file, K) /\ j \in 0 .. K /\ lpos = j * Slot
    BY <2>1 DEF InSlots
  <2>3. j \in 1 .. K
    <3>1. j # 0
      BY <1>1, <2>2, SlotSize
    <3> QED BY <2>2, <3>1
  <2>4. PrevAnswer(c, lpos).step = Slot /\ lpos - Slot = (j - 1) * Slot
    BY <1>1, <2>2, <2>3, PrevFinds
  <2> HIDE DEF c
  <2>5. InSlots(file', npos', lpos', K, j, j - 1)
    BY <1>2, <2>2, <2>3, <2>4 DEF InSlots
  <2>6. j - 1 \in Nat
    BY <2>3
  <2> QED BY <2>5, <2>6 DEF Slots
<1> QED BY <1>2, <1>4, <1>5 DEF RecordInv

LEMMA DeleteKept == ASSUME RecordInv, RioDelete PROVE RecordInv'
<1>1. /\ parts \in BOOLEAN /\ file \in Seq(Cell) /\ npos \in Nat /\ lpos \in Nat
      /\ parts = FALSE => Slots(file, npos, lpos)
  BY DEF RecordInv, Types
<1>2. PICK stale \in BOOLEAN : file' = DeleteAt(file, npos, stale)
  BY DEF RioDelete
<1>3. parts' = parts /\ npos' = npos /\ lpos' = lpos
  BY DEF RioDelete
<1>4. DeleteAt(file, npos, stale) \in Seq(Cell)
  <2> DEFINE del == [i \in 1 .. Slot |-> DEL]
  <2>1. del \in [1 .. Slot -> Cell]
    BY Marks
  <2>2. del \in Seq(Cell)
    BY <2>1, SlotSize, SeqDef
  <2> HIDE DEF del
  <2>3. WriteAt(file, npos, del) \in Seq(Cell)
    BY <1>1, <2>2, WriteAtIs
  <2> QED BY <1>1, <2>3 DEF DeleteAt, del
<1>5. Types'
  BY <1>1, <1>2, <1>3, <1>4 DEF Types
<1>6. ASSUME parts = FALSE PROVE Slots(file', npos', lpos')
  <2>1. PICK K \in Nat, k \in Nat, j \in Nat : InSlots(file, npos, lpos, K, k, j)
    BY <1>1, <1>6 DEF Slots
  <2>2. Whole(file, K) /\ k \in 0 .. K /\ npos = k * Slot
    BY <2>1 DEF InSlots
  <2>3. Whole(file', K)
    BY <1>1, <1>2, <2>2, DeleteWhole
  <2>4. InSlots(file', npos', lpos', K, k, j)
    BY <1>3, <2>1, <2>3 DEF InSlots
  <2> QED BY <2>4 DEF Slots
<1> QED BY <1>3, <1>5, <1>6 DEF RecordInv

\* A begin of a slot that is not behind the file is one of its slots or its
\* end mark.
LEMMA BeginOfSlot ==
  ASSUME NEW s, NEW K \in Nat, Whole(s, K), NEW pos \in 0 .. Len(s), pos % Slot = 0
  PROVE  \E k \in Nat : k \in 0 .. K /\ pos = k * Slot
<1> DEFINE k == pos \div Slot
<1>1. Len(s) = K * Slot + 1 /\ K * Slot \in Nat /\ Slot \in Nat /\ Slot >= 2
  BY SlotSize, SlotsInOrder DEF Whole
<1>2. pos \in Nat /\ pos <= K * Slot + 1
  BY <1>1
<1>3. k \in Nat /\ pos = k * Slot + (pos % Slot)
  BY <1>2, Division
<1> HIDE DEF k
<1>4. pos = k * Slot /\ k * Slot \in Nat
  BY <1>2, <1>3, SlotsInOrder
<1>5. k <= K
  <2> SUFFICES ASSUME K < k PROVE FALSE
    BY <1>3
  <2>1. K * Slot + Slot <= k * Slot
    BY <1>3, SlotsInOrder
  <2> QED BY <1>1, <1>2, <1>4, <2>1
<1> QED BY <1>3, <1>4, <1>5

LEMMA PositionKept ==
  ASSUME RecordInv, RioPrevAtBegin \/ RioSetPos \/ RioEofPos \/ RioReopen PROVE RecordInv'
<1>1. /\ parts \in BOOLEAN /\ file \in Seq(Cell) /\ npos \in Nat /\ lpos \in Nat
      /\ parts = FALSE => Slots(file, npos, lpos) /\ Len(file) \in Nat
  BY LenProperties DEF RecordInv, Types
<1>2. parts' = parts /\ file' = file
  BY DEF RioPrevAtBegin, RioSetPos, RioEofPos, RioReopen
<1>3. CASE RioPrevAtBegin \/ RioEofPos \/ RioReopen
  <2>1. (npos' = npos \/ npos' = 0) /\ (lpos' = lpos \/ lpos' = 0)
    BY <1>3 DEF RioPrevAtBegin, RioEofPos, RioReopen
  <2>2. Types'
    BY <1>1, <1>2, <2>1 DEF Types
  <2>3. ASSUME parts = FALSE PROVE Slots(file', npos', lpos')
    <3>1. PICK K \in Nat, k \in Nat, j \in Nat : InSlots(file, npos, lpos, K, k, j)
      BY <1>1, <2>3 DEF Slots
    <3>2. PICK k1 \in {k, 0} : npos' = k1 * Slot
      BY <2>1, <3>1, SlotSize DEF InSlots
    <3>3. PICK j1 \in {j, 0} : lpos' = j1 * Slot
      BY <2>1, <3>1, SlotSize DEF InSlots
    <3>4. k1 \in 0 .. K /\ j1 \in 0 .. K
      BY <3>1, <3>2, <3>3 DEF InSlots
    <3>5. InSlots(file', npos', lpos', K, k1, j1) /\ k1 \in Nat /\ j1 \in Nat
      BY <1>2, <3>1, <3>2, <3>3, <3>4 DEF InSlots
    <3> QED BY <3>5 DEF Slots
  <2> QED BY <1>2, <2>2, <2>3 DEF RecordInv
<1>4. CASE RioSetPos
  <2>1. PICK pos \in 0 .. Len(file) : pos % Slot = 0 /\ npos' = pos /\ lpos' = pos
    BY <1>4 DEF RioSetPos
  <2>2. Types'
    <3>1. pos \in Nat
      BY <1>1
    <3> QED BY <1>1, <1>2, <2>1, <3>1 DEF Types
  <2>3. ASSUME parts = FALSE PROVE Slots(file', npos', lpos')
    <3>1. PICK K \in Nat, k \in Nat, j \in Nat : InSlots(file, npos, lpos, K, k, j)
      BY <1>1, <2>3 DEF Slots
    <3>2. PICK i \in Nat : i \in 0 .. K /\ pos = i * Slot
      <4>1. Whole(file, K)
        BY <3>1 DEF InSlots
      <4> QED BY <2>1, <4>1, BeginOfSlot
    <3>3. InSlots(file', npos', lpos', K, i, i)
      BY <1>2, <2>1, <3>1, <3>2 DEF InSlots
    <3> QED BY <3>3 DEF Slots
  <2> QED BY <1>2, <2>2, <2>3 DEF RecordInv
<1> QED BY <1>3, <1>4

LEMMA WeofKept == ASSUME RecordInv, RioWeof PROVE RecordInv'
<1>1. /\ parts \in BOOLEAN /\ file \in Seq(Cell) /\ npos \in Nat /\ lpos \in Nat
      /\ parts = FALSE => Slots(file, npos, lpos)
  BY DEF RecordInv, Types
<1>2. /\ file' = Append(ReadAt(file, 0, npos), EOFC) /\ lpos' = npos
      /\ parts' = parts /\ npos' = npos
  BY DEF RioWeof
<1>3. Types'
  <2>1. ReadAt(file, 0, npos) \in Seq(Cell)
    BY <1>1, ReadAtIs
  <2>2. Append(ReadAt(file, 0, npos), EOFC) \in Seq(Cell)
    BY <2>1, Marks, AppendProperties
  <2> QED BY <1>1, <1>2, <2>2 DEF Types
<1>4. ASSUME parts = FALSE PROVE Slots(file', npos', lpos')
  <2>1. PICK K \in Nat, k \in Nat, j \in Nat : InSlots(file, npos, lpos, K, k, j)
    BY <1>1, <1>4 DEF Slots
  <2>2. Whole(file, K) /\ k \in 0 .. K /\ npos = k * Slot
    BY <2>1 DEF InSlots
  <2>3. Whole(file', k)
    BY <1>1, <1>2, <2>2, WholeCut
  <2>4. InSlots(file', npos', lpos', k, k, k)
    BY <1>2, <2>2, <2>3 DEF InSlots
  <2> QED BY <2>4 DEF Slots
<1> QED BY <1>2, <1>3, <1>4 DEF RecordInv

\* Every call keeps the invariant.
LEMMA RecordStep == RecordInv /\ [RecordNext]_rvars => RecordInv'
<1> SUFFICES ASSUME RecordInv, [RecordNext]_rvars PROVE RecordInv'
  OBVIOUS
<1>1. CASE UNCHANGED rvars
  BY <1>1 DEF rvars, RecordInv, Types
<1>2. CASE RioPut
  BY <1>2, PutKept
<1>3. CASE RioParPut
  BY <1>3, ParPutKept
<1>4. CASE RioGet
  BY <1>4, GetKept
<1>5. CASE RioPrev
  BY <1>5, PrevKept
<1>6. CASE RioDelete
  BY <1>6, DeleteKept
<1>7. CASE RioPrevAtBegin \/ RioSetPos \/ RioEofPos \/ RioReopen
  BY <1>7, PositionKept
<1>8. CASE RioWeof
  BY <1>8, WeofKept
<1> QED BY <1>1, <1>2, <1>3, <1>4, <1>5, <1>6, <1>7, <1>8 DEF RecordNext

LEMMA RecordHolds == RecordSpec => []RecordInv
BY InitRecord, RecordStep, PTL DEF RecordSpec
(***************************************************************************)
(* The theorems.                                                           *)
(***************************************************************************)
\* A file of records that are not put in parts is a row of whole slots and
\* the end mark, and the positions are begins of slots, after every call of a
\* program (rioput 1319-1353 and 1407-1413, riodelete 1679-1681, rioweof
\* 1800-1820).
THEOREM FilesAreWhole == RecordSpec => []WholeFile
<1>1. RecordInv => WholeFile
  <2> SUFFICES ASSUME RecordInv PROVE WholeFile
    OBVIOUS
  <2>1. file \in Seq(Cell) /\ parts \in BOOLEAN /\ (parts = FALSE => Slots(file, npos, lpos))
    BY DEF RecordInv, Types
  <2>2. CASE parts = TRUE
    BY <2>2 DEF WholeFile
  <2>3. CASE parts = FALSE
    <3>1. PICK K \in Nat, k \in Nat, j \in Nat : InSlots(file, npos, lpos, K, k, j)
      BY <2>1, <2>3 DEF Slots
    <3>2. /\ Whole(file, K) /\ k \in 0 .. K /\ j \in 0 .. K
          /\ npos = k * Slot /\ lpos = j * Slot
      BY <3>1 DEF InSlots
    <3>3. /\ Len(file) % Slot = 1 % Slot /\ file[Len(file)] = EOFC
          /\ \A n \in 0 .. (Len(file) \div Slot) - 1 : WholeSlot(ReadAt(file, n * Slot, Slot))
      BY <2>1, <3>2, WholeIs
    <3>4. ASSUME NEW i \in 0 .. K PROVE (i * Slot) % Slot = 0 /\ i * Slot < Len(file)
      <4>1. i \in Nat /\ i * Slot \in Nat /\ K * Slot \in Nat /\ i * Slot <= K * Slot
        BY SlotsInOrder
      <4>2. (i * Slot) % Slot = 0
        BY <4>1, SlotSize, DivisionIs
      <4>3. Len(file) = K * Slot + 1
        BY <3>2 DEF Whole
      <4> QED BY <4>1, <4>2, <4>3
    <3> QED BY <3>2, <3>3, <3>4 DEF WholeFile
  <2> QED BY <2>1, <2>2, <2>3
<1> QED BY <1>1, RecordHolds, PTL

\* In such a file every rioget and every rioprev answers a record, a deleted
\* record or an end (rioget 500-735, rioprev 862-1143).
THEOREM EveryReadSucceeds == RecordSpec => ReadsSucceed
<1>1. RecordInv /\ [RecordNext]_rvars
        => [~parts /\ (RioGet \/ RioPrev) => answer'.kind # "error"]_rvars
  <2> SUFFICES ASSUME RecordInv, ~parts, RioGet \/ RioPrev PROVE answer'.kind # "error"
    OBVIOUS
  <2>1. file \in Seq(Cell) /\ lpos \in Nat /\ Slots(file, npos, lpos)
    BY DEF RecordInv, Types
  <2>2. PICK K \in Nat, k \in Nat, j \in Nat : InSlots(file, npos, lpos, K, k, j)
    BY <2>1 DEF Slots
  <2>3. /\ Whole(file, K) /\ k \in 0 .. K /\ j \in 0 .. K
        /\ npos = k * Slot /\ lpos = j * Slot
    BY <2>2 DEF InSlots
  <2>4. CASE RioGet
    <3>1. answer' = GetAnswer(ReadAt(file, npos, Slot), npos)
      BY <2>4 DEF RioGet
    <3>2. GetAnswer(ReadAt(file, npos, Slot), npos).kind # "error"
      BY <2>1, <2>3, GetFinds
    <3> QED BY <3>1, <3>2
  <2>5. CASE RioPrev
    <3>1. /\ answer' = PrevAnswer(ReadAt(file, lpos - PrevCells(lpos), PrevCells(lpos)), lpos)
          /\ lpos > 0
      BY <2>5 DEF RioPrev
    <3>2. j \in 1 .. K
      <4>1. j # 0
        BY <2>1, <2>3, <3>1, SlotSize
      <4> QED BY <2>3, <4>1
    <3>3. PrevAnswer(ReadAt(file, lpos - PrevCells(lpos), PrevCells(lpos)), lpos).kind # "error"
      BY <2>1, <2>3, <3>2, PrevFinds
    <3> QED BY <3>1, <3>3
  <2> QED BY <2>4, <2>5
<1> QED BY <1>1, RecordHolds, PTL DEF RecordSpec, ReadsSucceed

\* What rioprev finds, rioget finds at the position that rioprev moves to.
THEOREM BackAsForward == RecordSpec => BackIsForward
<1> DEFINE c == ReadAt(file, lpos', Slot)
<1>1. RecordInv /\ [RecordNext]_rvars
        => [~parts /\ RioPrev /\ Found(answer') => GetAnswer(c, lpos') = answer']_rvars
  <2> SUFFICES ASSUME RecordInv, ~parts, RioPrev PROVE GetAnswer(c, lpos') = answer'
    OBVIOUS
  <2>1. file \in Seq(Cell) /\ lpos \in Nat /\ Slots(file, npos, lpos)
    BY DEF RecordInv, Types
  <2>2. PICK K \in Nat, k \in Nat, j \in Nat : InSlots(file, npos, lpos, K, k, j)
    BY <2>1 DEF Slots
  <2>3. Whole(file, K) /\ j \in 0 .. K /\ lpos = j * Slot
    BY <2>2 DEF InSlots
  <2> DEFINE found == PrevAnswer(ReadAt(file, lpos - PrevCells(lpos), PrevCells(lpos)), lpos)
  <2>4. answer' = found /\ lpos' = lpos - found.step /\ lpos > 0
    BY DEF RioPrev
  <2>5. j \in 1 .. K
    <3>1. j # 0
      BY <2>1, <2>3, <2>4, SlotSize
    <3> QED BY <2>3, <3>1
  <2>6. /\ found.step = Slot
        /\ found = GetAnswer(ReadAt(file, lpos - Slot, Slot), lpos - Slot)
    BY <2>1, <2>3, <2>5, PrevFinds
  <2> HIDE DEF found
  <2>7. lpos' = lpos - Slot
    BY <2>4, <2>6
  <2> QED BY <2>4, <2>6, <2>7
<1> QED BY <1>1, RecordHolds, PTL DEF RecordSpec, BackIsForward

\* The put that ends a record makes one record of its parts, the ones
\* rioparput wrote before it included, wherever the file ends (rioput
\* 1319-1327, rioparput 1483-1488).
THEOREM PartsAreOneRecord == RecordSpec => PartsMakeRecord
<1> DEFINE begin == npos - (npos % Slot)
           before == ReadAt(file, begin, npos - begin)
           whole == IsRecord(ReadAt(file', begin, Slot), begin)
<1>1. RecordInv /\ [RecordNext]_rvars
        => [RioPut => (Leading(before, Data) = Len(before) => whole)]_rvars
  <2> SUFFICES ASSUME RecordInv, RioPut, Leading(before, Data) = Len(before) PROVE whole
    OBVIOUS
  <2> DEFINE r == npos % Slot
             room == Slot - r - 1
  <2>1. /\ file \in Seq(Cell) /\ npos \in Nat /\ Len(file) \in Nat
        /\ Slot \in Nat /\ RecSize \in Nat /\ Slot = RecSize + 1
    BY LenProperties, SlotSize DEF RecordInv, Types
  <2>2. r \in 0 .. Slot - 1 /\ begin \in Nat /\ begin + r = npos /\ npos - begin = r /\ room \in Nat
    <3>1. r \in 0 .. Slot - 1 /\ npos = (npos \div Slot) * Slot + r /\ npos \div Slot \in Nat
      BY <2>1, Division
    <3>2. (npos \div Slot) * Slot \in Nat
      BY <3>1, SlotsInOrder
    <3> HIDE DEF r
    <3>3. npos - r \in Nat /\ npos - (npos - r) = r /\ (npos - r) + r = npos
      BY <2>1, <3>1, <3>2
    <3> QED BY <2>1, <3>1, <3>3 DEF r
  <2>3. PICK d \in Puts(npos) : Put(PutCells(d, npos, Len(file)))
    BY DEF RioPut
  <2>4. d \in Seq(Value) /\ Len(d) = room
    BY <2>1, PutsAre
  <2> HIDE DEF begin, r, room
  <2>5. d \in Seq(Value) /\ Len(d) = room /\ \A i \in 1 .. room : d[i] \in Data
    BY <2>4, Marks, ElementOfSeq
  <2> DEFINE c == PutCells(d, npos, Len(file))
             t == WriteAt(file, npos, c)
             len == Most(Len(file), npos + Len(c))
  <2>6. /\ c \in Seq(Cell) /\ Len(c) \in Nat /\ Len(c) >= room + 1
        /\ \A i \in 1 .. room : c[i] = d[i]
        /\ c[room + 1] = EOR
    <3>1. /\ c \in Seq(Cell)
          /\ Len(c) = IF npos + Len(d) + 1 >= Len(file) THEN Len(d) + 2 ELSE Len(d) + 1
          /\ \A i \in 1 .. Len(d) : c[i] = d[i]
          /\ c[Len(d) + 1] = EOR
      BY <2>5, PutCellsAre
    <3> HIDE DEF c
    <3> QED BY <2>2, <2>5, <3>1
  <2> HIDE DEF c
  <2>7. file' = t
    BY <2>3 DEF Put, c
  <2>8. /\ t \in Seq(Cell) /\ Len(t) = len
        /\ \A i \in 1 .. len : t[i] = IF i \in npos + 1 .. npos + Len(c) THEN c[i - npos]
                                      ELSE IF i <= Len(file) THEN file[i] ELSE Zero
    <3>1. file \in Seq(Cell) /\ npos \in Nat /\ c \in Seq(Cell)
      BY <2>1, <2>6
    <3> QED BY ONLY <3>1, WriteAtIs
  <2> HIDE DEF t
  <2>9. len \in Nat /\ npos + Len(c) <= len /\ Len(file) <= len
    BY <2>1, <2>6 DEF Most
  <2> HIDE DEF len
  <2>10. t[begin + Slot] = EOR /\ begin + Slot <= Len(t)
    <3>1. /\ begin + Slot = npos + (room + 1) /\ begin + Slot \in 1 .. len
          /\ begin + Slot \in npos + 1 .. npos + Len(c) /\ (begin + Slot) - npos = room + 1
      BY <2>1, <2>2, <2>6, <2>9 DEF room
    <3> QED BY <2>6, <2>8, <3>1
  <2>11. ASSUME NEW i \in 1 .. RecSize PROVE t[begin + i] \in Data
    <3>1. begin + i \in 1 .. len
      BY <2>1, <2>2, <2>6, <2>9, SMTT(30) DEF room
    <3>2. CASE i > r
      <4>1. /\ begin + i \in npos + 1 .. npos + Len(c) /\ (begin + i) - npos = i - r
            /\ i - r \in 1 .. room
        BY <2>1, <2>2, <2>6, <3>2, SMTT(30) DEF room
      <4> QED BY <2>5, <2>6, <2>8, <3>1, <4>1
    <3>3. CASE i <= r
      <4>1. begin + i \notin npos + 1 .. npos + Len(c)
        BY <2>1, <2>2, <2>6, <3>3
      <4>2. t[begin + i] = IF begin + i <= Len(file) THEN file[begin + i] ELSE Zero
        BY <2>8, <3>1, <4>1
      <4>3. CASE begin + i <= Len(file)
        <5>1. /\ before \in Seq(Cell)
              /\ Len(before) = IF Len(file) <= begin THEN 0 ELSE Least(r, Len(file) - begin)
              /\ \A m \in 1 .. Len(before) : before[m] = file[begin + m]
          BY <2>1, <2>2, ReadAtIs
        <5>2. \A m \in 1 .. Len(before) : before[m] \in Data
          BY <5>1, LeadingIs
        <5> HIDE DEF before
        <5>3. i \in 1 .. Len(before)
          <6>1. Len(before) = r \/ Len(before) = Len(file) - begin
            BY <2>1, <2>2, <4>3, <5>1 DEF Least
          <6> QED BY <2>1, <2>2, <3>3, <4>3, <6>1
        <5>4. file[begin + i] \in Data
          BY <5>1, <5>2, <5>3
        <5> QED BY <4>2, <4>3, <5>4
      <4>4. CASE ~ (begin + i <= Len(file))
        BY <4>2, <4>4, Marks
      <4> QED BY <4>3, <4>4
    <3> QED BY <2>1, <2>2, <3>2, <3>3
  <2>12. HasRecord(t, begin)
    BY <2>10, <2>11 DEF HasRecord
  <2>13. ReadAt(t, begin, Slot) \in Seq(Cell) /\ RecordCells(ReadAt(t, begin, Slot))
    BY <2>2, <2>8, <2>10, <2>12, SlotCells
  <2>14. IsRecord(ReadAt(t, begin, Slot), begin)
    BY <2>13, GetOfRecord DEF IsRecord
  <2> QED BY <2>7, <2>14
<1> QED BY <1>1, RecordHolds, PTL DEF RecordSpec, PartsMakeRecord
=============================================================================
