------------------------ MODULE RecordBufferProofs ------------------------
(***************************************************************************)
(* Proofs about RecordBuffer: with a buffer of any size the calls answer   *)
(* and leave in the file what the calls without one do, until the first    *)
(* failure, and a lost put is always reported.                             *)
(***************************************************************************)
EXTENDS RecordBuffer, RecordFormatProofs

(***************************************************************************)
(* What a call made of the first cells it would make of all of them.       *)
(***************************************************************************)
LEMMA GetOfPrefix ==
  ASSUME NEW C \in Seq(Cell), Len(C) <= Slot, NEW c \in Seq(Cell), Len(c) <= Len(C),
         \A i \in 1 .. Len(c) : c[i] = C[i], NEW pos \in Nat,
         GetEnough(c, pos) \/ Len(c) = Len(C)
  PROVE  GetAnswer(c, pos) = GetAnswer(C, pos) /\ (c = <<>> <=> C = <<>>)
<1>1. /\ Len(C) \in Nat /\ Len(c) \in Nat /\ Slot \in Nat /\ RecSize \in Nat /\ Slot = RecSize + 1
      /\ Slot >= 2
  BY LenProperties, SlotSize
<1>2. CASE Len(c) = Len(C)
  <2>1. c = C
    BY <1>2, SeqEqual
  <2> QED BY <2>1
<1>3. CASE Len(c) # Len(C)
  <2>1. Len(c) < Len(C) /\ Len(c) # Slot
    BY <1>1, <1>3
  <2>2. c # <<>>
    BY <1>3, <2>1 DEF GetEnough
  <2>3. 1 \in 1 .. Len(c) /\ C # <<>> /\ c[1] = C[1]
    <3>1. Len(c) # 0
      BY <2>2, EmptySeq
    <3>2. 1 \in 1 .. Len(c)
      BY <1>1, <3>1
    <3>3. Len(C) # 0 /\ Len(<<>>) = 0
      BY <1>1, <2>1
    <3> QED BY <3>2, <3>3
  <2>4. Rest(pos) \in Nat
    <3>1. pos % Slot \in 0 .. Slot - 1
      BY Division
    <3> QED BY <1>1, <3>1 DEF Rest
  <2>5. ASSUME NEW S
        PROVE  /\ Leading(c, S) \in Nat /\ Leading(C, S) \in Nat /\ Leading(c, S) <= Len(c)
               /\ Leading(c, S) < Len(c) => Leading(C, S) = Leading(c, S)
               /\ Leading(c, S) = Len(c) => Leading(C, S) >= Len(c)
    <3> DEFINE m == Leading(c, S)
               n == Leading(C, S)
    <3>1. m \in 0 .. Len(c) /\ (\A i \in 1 .. m : c[i] \in S) /\ (m = Len(c) \/ c[m + 1] \notin S)
      BY LeadingIs
    <3>2. n \in 0 .. Len(C) /\ (\A i \in 1 .. n : C[i] \in S) /\ (n = Len(C) \/ C[n + 1] \notin S)
      BY LeadingIs
    <3> HIDE DEF m, n
    <3>3. ASSUME m < Len(c) PROVE n = m
      <4>1. m + 1 \in 1 .. Len(c) /\ c[m + 1] \notin S /\ C[m + 1] \notin S
        BY <1>1, <3>1, <3>3
      <4>2. \A i \in 1 .. m : C[i] \in S
        BY <1>1, <3>1
      <4>3. m \in 0 .. Len(C)
        BY <1>1, <3>1, <2>1
      <4> QED BY <4>1, <4>2, <4>3, LeadingOf DEF n
    <3>4. ASSUME m = Len(c) PROVE n >= Len(c)
      <4> SUFFICES ASSUME n < Len(c) PROVE FALSE
        BY <1>1, <3>2
      <4>1. n + 1 \in 1 .. m /\ C[n + 1] \notin S /\ n + 1 \in 1 .. Len(c)
        BY <1>1, <2>1, <3>2, <3>4
      <4> QED BY <3>1, <4>1
    <3>5. m \in Nat /\ n \in Nat /\ m <= Len(c)
      BY <1>1, <3>1, <3>2
    <3> QED BY <3>3, <3>4, <3>5 DEF m, n
  <2>6. CASE c[1] = DEL
    <3>1. Len(c) >= Rest(pos) \/ Leading(c, {DEL}) < Len(c)
      BY <2>1, <1>3, <2>6 DEF GetEnough
    <3>2. Least(Leading(c, {DEL}), Rest(pos)) = Least(Leading(C, {DEL}), Rest(pos))
      <4> DEFINE m == Leading(c, {DEL})
                 n == Leading(C, {DEL})
      <4>1. /\ m \in Nat /\ n \in Nat /\ m <= Len(c)
            /\ m < Len(c) => n = m
            /\ m = Len(c) => n >= Len(c)
        BY <2>5
      <4>2. Len(c) >= Rest(pos) \/ m < Len(c)
        BY <3>1
      <4> HIDE DEF m, n
      <4>3. Least(m, Rest(pos)) = Least(n, Rest(pos))
        BY <1>1, <2>4, <4>1, <4>2 DEF Least
      <4> QED BY <4>3 DEF m, n
    <3> QED BY <2>2, <2>3, <2>6, <3>2 DEF GetAnswer
  <2>7. CASE c[1] # DEL /\ c[1] = EOFC
    BY <2>2, <2>3, <2>7 DEF GetAnswer
  <2>8. CASE c[1] # DEL /\ c[1] # EOFC
    <3> DEFINE m == Leading(c, Data)
               n == Leading(C, Data)
    <3>1. m < Len(c) /\ n = m /\ m \in Nat
      BY <2>1, <1>3, <2>5, <2>8 DEF GetEnough
    <3>2. GetAnswer(c, pos) = IF m = RecSize /\ Len(c) = Slot /\ c[Slot] = EOR
                              THEN [kind |-> "record", data |-> SubSeq(c, 1, RecSize), step |-> Slot]
                              ELSE Failed(IF m = Len(c) THEN m ELSE m + 1)
      BY <2>2, <2>8 DEF GetAnswer
    <3>3. GetAnswer(C, pos) = IF n = RecSize /\ Len(C) = Slot /\ C[Slot] = EOR
                              THEN [kind |-> "record", data |-> SubSeq(C, 1, RecSize), step |-> Slot]
                              ELSE Failed(IF n = Len(C) THEN n ELSE n + 1)
      BY <2>3, <2>8 DEF GetAnswer
    <3> HIDE DEF m, n
    <3>4. m # RecSize /\ m # Len(c) /\ n # Len(C) /\ n # RecSize
      BY <1>1, <2>1, <3>1
    <3>5. GetAnswer(c, pos) = Failed(m + 1) /\ GetAnswer(C, pos) = Failed(n + 1)
      BY <3>2, <3>3, <3>4
    <3> QED BY <2>2, <2>3, <3>1, <3>5
  <2> QED BY <2>6, <2>7, <2>8
<1> QED BY <1>2, <1>3

LEMMA PrevOfSuffix ==
  ASSUME NEW pos \in Nat, pos > 0, NEW C \in Seq(Cell), Len(C) = PrevCells(pos),
         NEW c \in Seq(Cell), Len(c) <= Len(C),
         \A i \in 0 .. Len(c) - 1 : c[Len(c) - i] = C[Len(C) - i],
         PrevEnough(c, pos)
  PROVE  PrevAnswer(c, pos) = PrevAnswer(C, pos)
<1>1. /\ Len(C) \in Nat /\ Len(c) \in Nat /\ Slot \in Nat /\ RecSize \in Nat /\ Slot = RecSize + 1
      /\ Slot >= 2
  BY LenProperties, SlotSize
<1>2. CASE Len(c) = Len(C)
  <2>1. ASSUME NEW i \in 1 .. Len(c) PROVE c[i] = C[i]
    <3>1. Len(c) - i \in 0 .. Len(c) - 1 /\ Len(c) - (Len(c) - i) = i
      BY <1>1
    <3> QED BY <1>2, <3>1
  <2>2. c = C
    BY <1>2, <2>1, SeqEqual
  <2> QED BY <2>2
<1>3. CASE Len(c) # Len(C)
  <2>1. Len(c) < Len(C) /\ Len(C) <= Slot + 1 /\ c # <<>> /\ Len(c) >= 1
    <3>1. c # <<>>
      BY <1>3 DEF PrevEnough
    <3>2. Len(c) # 0
      BY <3>1, EmptySeq
    <3>3. PrevCells(pos) <= Slot + 1
      BY <1>1 DEF PrevCells, Back, Verify
    <3> QED BY <1>1, <1>3, <3>1, <3>2, <3>3
  <2>2. C # <<>>
    <3>1. Len(C) # 0 /\ Len(<<>>) = 0
      BY <1>1, <2>1
    <3> QED BY <3>1
  <2>3. c[Len(c)] = C[Len(C)]
    <3>1. 0 \in 0 .. Len(c) - 1 /\ Len(c) - 0 = Len(c) /\ Len(C) - 0 = Len(C)
      BY <1>1, <2>1
    <3> QED BY <3>1
  <2>4. CASE c[Len(c)] = DEL
    <3> DEFINE lim == BackDels(pos)
               m == Trailing(c, {DEL})
               n == Trailing(C, {DEL})
               v == Verify(pos)
    <3>1. v \in {0, 1} /\ lim \in Nat
      <4>1. Back(pos) \in Nat /\ Back(pos) > 0
        BY <1>1 DEF Back
      <4>2. pos % Back(pos) \in 0 .. Back(pos) - 1
        BY <4>1, Divided
      <4> QED BY <4>1, <4>2 DEF BackDels, Verify
    <3>2. Len(c) >= lim + v \/ m < Len(c)
      BY <2>4, <1>3 DEF PrevEnough
    <3>3. m \in 0 .. Len(c) /\ (\A i \in 1 .. m : c[Len(c) + 1 - i] \in {DEL})
          /\ (m = Len(c) \/ c[Len(c) - m] \notin {DEL})
      BY TrailingIs
    <3>4. n \in 0 .. Len(C) /\ (\A i \in 1 .. n : C[Len(C) + 1 - i] \in {DEL})
          /\ (n = Len(C) \/ C[Len(C) - n] \notin {DEL})
      BY TrailingIs
    <3>5. PrevAnswer(c, pos) =
            IF Least(m, lim + v) >= lim
               /\ (v = 1 /\ Least(m, lim + v) = lim => c[Len(c) - Least(m, lim + v)] = EOR)
            THEN [kind |-> "deleted", data |-> <<>>, step |-> lim] ELSE Failed(Least(m, lim + v))
      BY <2>1, <2>4 DEF PrevAnswer, PrevDeleted
    <3>6. PrevAnswer(C, pos) =
            IF Least(n, lim + v) >= lim
               /\ (v = 1 /\ Least(n, lim + v) = lim => C[Len(C) - Least(n, lim + v)] = EOR)
            THEN [kind |-> "deleted", data |-> <<>>, step |-> lim] ELSE Failed(Least(n, lim + v))
      BY <2>2, <2>3, <2>4 DEF PrevAnswer, PrevDeleted
    <3> HIDE DEF lim, m, n, v
    <3>7. m < Len(c) => n = m
      <4> SUFFICES ASSUME m < Len(c) PROVE n = m
        OBVIOUS
      <4>1. m \in 0 .. Len(c) - 1 /\ C[Len(C) - m] \notin {DEL} /\ m \in 0 .. Len(C)
        BY <1>1, <2>1, <3>3
      <4>2. ASSUME NEW i \in 1 .. m PROVE C[Len(C) + 1 - i] \in {DEL}
        <5>1. i - 1 \in 0 .. Len(c) - 1 /\ Len(c) - (i - 1) = Len(c) + 1 - i
              /\ Len(C) - (i - 1) = Len(C) + 1 - i
          BY <1>1, <3>3
        <5> QED BY <3>3, <5>1
      <4> QED BY <4>1, <4>2, TrailingOf DEF n
    <3>8. m = Len(c) => n >= Len(c)
      <4> SUFFICES ASSUME m = Len(c), n < Len(c) PROVE FALSE
        BY <1>1, <3>4
      <4>1. /\ n + 1 \in 1 .. m /\ n \in 0 .. Len(c) - 1 /\ n # Len(C)
            /\ Len(c) + 1 - (n + 1) = Len(c) - n
        BY <1>1, <2>1, <3>4
      <4>2. c[Len(c) - n] \in {DEL}
        BY <3>3, <4>1
      <4> QED BY <3>4, <4>1, <4>2
    <3>9. Least(m, lim + v) = Least(n, lim + v)
      BY <1>1, <3>1, <3>2, <3>3, <3>4, <3>7, <3>8 DEF Least
    <3>10. v = 1 /\ Least(m, lim + v) = lim
             => c[Len(c) - Least(m, lim + v)] = C[Len(C) - Least(m, lim + v)]
      <4> SUFFICES ASSUME v = 1, Least(m, lim + v) = lim PROVE c[Len(c) - lim] = C[Len(C) - lim]
        BY <3>9
      <4>1. m = lim /\ m \in 0 .. Len(c) - 1
        BY <1>1, <3>1, <3>2, <3>3 DEF Least
      <4> QED BY <4>1
    <3> QED BY <3>5, <3>6, <3>9, <3>10
  <2>5. CASE c[Len(c)] # DEL /\ c[Len(c)] # EOR
    BY <2>1, <2>2, <2>3, <2>5 DEF PrevAnswer
  <2>6. CASE c[Len(c)] # DEL /\ c[Len(c)] = EOR
    <3> DEFINE d == SubSeq(c, 1, Len(c) - 1)
               D == SubSeq(C, 1, Len(C) - 1)
               m == Trailing(d, Data)
    <3>1. d \in Seq(Cell) /\ Len(d) = Len(c) - 1 /\ \A i \in 1 .. Len(c) - 1 : d[i] = c[i]
      BY <2>1, ButLastIs
    <3>2. D \in Seq(Cell) /\ Len(D) = Len(C) - 1 /\ \A i \in 1 .. Len(C) - 1 : D[i] = C[i]
      BY <1>1, <2>1, ButLastIs
    <3>3. m + 1 < Len(c)
      BY <2>6, <1>3 DEF PrevEnough
    <3>4. PrevAnswer(c, pos) = PrevData(c, pos) /\ PrevAnswer(C, pos) = PrevData(C, pos)
      BY <2>1, <2>2, <2>3, <2>6 DEF PrevAnswer
    <3> HIDE DEF d, D
    <3>5. m \in 0 .. Len(d) /\ (\A i \in 1 .. m : d[Len(d) + 1 - i] \in Data)
          /\ (m = Len(d) \/ d[Len(d) - m] \notin Data)
      BY <3>1, TrailingIs
    <3> HIDE DEF m
    <3>6. Trailing(D, Data) = m
      <4>1. ASSUME NEW i \in 1 .. m PROVE D[Len(D) + 1 - i] \in Data
        <5>1. /\ Len(d) + 1 - i = Len(c) - i /\ Len(D) + 1 - i = Len(C) - i
              /\ Len(c) - i \in 1 .. Len(c) - 1 /\ Len(C) - i \in 1 .. Len(C) - 1
              /\ i \in 0 .. Len(c) - 1
          BY <1>1, <2>1, <3>1, <3>2, <3>5, SMTT(30)
        <5> QED BY <3>1, <3>2, <3>5, <5>1, ZenonT(60)
      <4>2. D[Len(D) - m] \notin Data
        <5>1. m \in Nat /\ m < Len(c) - 1
          BY <1>1, <3>1, <3>3, <3>5
        <5>2. Len(d) - m = Len(c) - (m + 1) /\ m # Len(c) - 1
          BY <1>1, <3>1, <5>1
        <5>3. Len(D) - m = Len(C) - (m + 1)
          BY <1>1, <3>2, <5>1
        <5>4. /\ Len(c) - (m + 1) \in 1 .. Len(c) - 1 /\ m + 1 \in 0 .. Len(c) - 1
              /\ Len(C) - (m + 1) \in 1 .. Len(C) - 1
          BY <1>1, <2>1, <5>1
        <5>5. c[Len(c) - (m + 1)] = C[Len(C) - (m + 1)]
          BY <5>4
        <5>6. d[Len(d) - m] \notin Data
          BY <3>1, <3>5, <5>2
        <5>7. d[Len(c) - (m + 1)] = c[Len(c) - (m + 1)]
          BY <3>1, <5>4
        <5>8. D[Len(C) - (m + 1)] = C[Len(C) - (m + 1)]
          BY <3>2, <5>4
        <5> QED BY <5>2, <5>3, <5>5, <5>6, <5>7, <5>8
      <4>3. m \in 0 .. Len(D)
        BY <1>1, <2>1, <3>1, <3>2, <3>5
      <4> QED BY <3>2, <4>1, <4>2, <4>3, TrailingOf
    <3>7. m + 1 # Slot
      BY <1>1, <2>1, <3>1, <3>3, <3>5
    <3>8. PrevData(c, pos) = Failed(m + 1)
      BY <3>7 DEF PrevData, m, d
    <3>9. PrevData(C, pos) = Failed(m + 1)
      BY <3>6, <3>7 DEF PrevData, D
    <3> QED BY <3>4, <3>8, <3>9
  <2> QED BY <2>4, <2>5, <2>6
<1> QED BY <1>2, <1>3
(***************************************************************************)
(* Parts of cells, and writes over writes.                                 *)
(***************************************************************************)
LEMMA PartIs ==
  ASSUME NEW b \in Seq(Cell), NEW w \in Nat, NEW n \in Nat, w <= n, n <= Len(b)
  PROVE  /\ SubSeq(b, w + 1, n) \in Seq(Cell)
         /\ Len(SubSeq(b, w + 1, n)) = n - w
         /\ \A i \in 1 .. n - w : SubSeq(b, w + 1, n)[i] = b[w + i]
<1> DEFINE d == SubSeq(b, w + 1, n)
<1>1. Len(b) \in Nat /\ w + 1 \in Int /\ n \in Int
  BY LenProperties
<1>2. \A i \in w + 1 .. n : b[i] \in Cell
  BY <1>1, ElementOfSeq
<1>3. /\ d \in Seq(Cell)
      /\ Len(d) = IF w + 1 <= n THEN n - (w + 1) + 1 ELSE 0
      /\ \A i \in 1 .. n - (w + 1) + 1 : d[i] = b[w + 1 + i - 1]
  BY <1>1, <1>2, SubSeqProperties
<1> HIDE DEF d
<1>4. Len(d) = n - w
  BY <1>3
<1>5. \A i \in 1 .. n - w : i \in 1 .. n - (w + 1) + 1 /\ w + 1 + i - 1 = w + i
  OBVIOUS
<1> QED BY <1>3, <1>4, <1>5 DEF d

\* t is s with the cells c at pos.
IsWrite(t, s, pos, c) ==
  /\ t \in Seq(Cell) /\ Len(t) = Most(Len(s), pos + Len(c))
  /\ \A i \in 1 .. Len(t) : t[i] = IF i \in pos + 1 .. pos + Len(c) THEN c[i - pos]
                                   ELSE IF i <= Len(s) THEN s[i] ELSE Zero

LEMMA Written ==
  ASSUME NEW s \in Seq(Cell), NEW pos \in Nat, NEW c \in Seq(Cell)
  PROVE  IsWrite(WriteAt(s, pos, c), s, pos, c)
<1> DEFINE t == WriteAt(s, pos, c)
           n == Most(Len(s), pos + Len(c))
<1>1. /\ t \in Seq(Cell) /\ Len(t) = n
      /\ \A i \in 1 .. n : t[i] = IF i \in pos + 1 .. pos + Len(c) THEN c[i - pos]
                                  ELSE IF i <= Len(s) THEN s[i] ELSE Zero
  BY WriteAtIs
<1> HIDE DEF t
<1>2. IsWrite(t, s, pos, c)
  BY <1>1 DEF IsWrite
<1> QED BY <1>2 DEF t

\* c is a and then b.
IsJoin(c, a, b) ==
  /\ Len(c) = Len(a) + Len(b)
  /\ \A i \in 1 .. Len(a) : c[i] = a[i]
  /\ \A i \in 1 .. Len(b) : c[Len(a) + i] = b[i]

\* A write of two parts is two writes.
LEMMA WriteTwice ==
  ASSUME NEW s \in Seq(Cell), NEW p \in Nat, NEW a \in Seq(Cell), NEW b \in Seq(Cell),
         NEW c \in Seq(Cell), IsJoin(c, a, b)
  PROVE  WriteAt(WriteAt(s, p, a), p + Len(a), b) = WriteAt(s, p, c)
<1> DEFINE t == WriteAt(s, p, a)
           e == p + Len(a)
           u == WriteAt(t, e, b)
           v == WriteAt(s, p, c)
<1>1. Len(s) \in Nat /\ Len(a) \in Nat /\ Len(b) \in Nat /\ Len(c) \in Nat /\ e \in Nat
  BY LenProperties
<1>0. /\ Len(c) = Len(a) + Len(b)
      /\ \A i \in 1 .. Len(a) : c[i] = a[i]
      /\ \A i \in 1 .. Len(b) : c[Len(a) + i] = b[i]
  BY DEF IsJoin
<1>2. IsWrite(t, s, p, a) /\ IsWrite(v, s, p, c)
  BY Written
<1> HIDE DEF t, v
<1>3. IsWrite(u, t, e, b)
  <2>1. t \in Seq(Cell)
    BY <1>2 DEF IsWrite
  <2> HIDE DEF e
  <2> QED BY <1>1, <2>1, Written
<1> HIDE DEF u
<1>4. Len(t) \in Nat /\ Len(u) \in Nat /\ Len(v) \in Nat
  BY <1>2, <1>3, LenProperties DEF IsWrite
<1>5. Len(u) = Len(v) /\ Len(t) <= Len(u) /\ Len(s) <= Len(t) /\ e <= Len(t)
  BY <1>0, <1>1, <1>2, <1>3, <1>4 DEF IsWrite, Most
<1>6. ASSUME NEW i \in 1 .. Len(u) PROVE u[i] = v[i]
  <2>1. u[i] = IF i \in e + 1 .. e + Len(b) THEN b[i - e] ELSE IF i <= Len(t) THEN t[i] ELSE Zero
    BY <1>3 DEF IsWrite
  <2>2. v[i] = IF i \in p + 1 .. p + Len(c) THEN c[i - p] ELSE IF i <= Len(s) THEN s[i] ELSE Zero
    BY <1>2, <1>5 DEF IsWrite
  <2>3. i <= Len(t) => t[i] = IF i \in p + 1 .. p + Len(a) THEN a[i - p]
                              ELSE IF i <= Len(s) THEN s[i] ELSE Zero
    <3>1. i <= Len(t) => i \in 1 .. Len(t)
      BY <1>4
    <3> QED BY <1>2, <3>1 DEF IsWrite
  <2>4. CASE i \in e + 1 .. e + Len(b)
    <3>1. i - e \in 1 .. Len(b) /\ Len(a) + (i - e) = i - p /\ i \in p + 1 .. p + Len(c)
      BY <1>0, <1>1, <2>4, SMTT(30)
    <3>2. c[i - p] = b[i - e]
      BY <1>0, <3>1
    <3> QED BY <2>1, <2>2, <2>4, <3>1, <3>2
  <2>5. CASE i \in p + 1 .. p + Len(a)
    <3>1. /\ i - p \in 1 .. Len(a) /\ i \in p + 1 .. p + Len(c) /\ i <= Len(t)
          /\ i \notin e + 1 .. e + Len(b)
      BY <1>0, <1>1, <1>4, <1>5, <2>5, SMTT(30)
    <3>2. c[i - p] = a[i - p]
      BY <1>0, <3>1
    <3> QED BY <2>1, <2>2, <2>3, <2>5, <3>1, <3>2
  <2>6. CASE i \notin p + 1 .. p + Len(c)
    <3>1. /\ i \notin p + 1 .. p + Len(a) /\ i \notin e + 1 .. e + Len(b)
          /\ i <= Len(s) => i <= Len(t)
      BY <1>0, <1>1, <1>4, <1>5, <2>6, SMTT(30)
    <3> QED BY <2>1, <2>2, <2>3, <2>6, <3>1
  <2>7. i \in p + 1 .. p + Len(a) \/ i \in e + 1 .. e + Len(b) \/ i \notin p + 1 .. p + Len(c)
    BY <1>0, <1>1, <1>4
  <2> QED BY <2>4, <2>5, <2>6, <2>7
<1>7. u = v
  BY <1>2, <1>3, <1>5, <1>6, SeqEqual DEF IsWrite
<1> QED BY <1>7 DEF t, u, v

\* A write within what is to be written can as well follow it.
LEMMA WriteNested ==
  ASSUME NEW s \in Seq(Cell), NEW q \in Nat, NEW x \in Seq(Cell), NEW r \in 0 .. Len(x),
         NEW a \in Seq(Cell)
  PROVE  WriteAt(s, q, WriteAt(x, r, a)) = WriteAt(WriteAt(s, q, x), q + r, a)
<1> DEFINE y == WriteAt(x, r, a)
           t == WriteAt(s, q, x)
           e == q + r
           u == WriteAt(s, q, y)
           v == WriteAt(t, e, a)
<1>1. /\ Len(s) \in Nat /\ Len(x) \in Nat /\ Len(a) \in Nat /\ r \in Nat /\ r <= Len(x) /\ e \in Nat
  BY LenProperties
<1>2. IsWrite(y, x, r, a) /\ IsWrite(t, s, q, x)
  BY <1>1, Written
<1> HIDE DEF y, t
<1>3. IsWrite(u, s, q, y) /\ IsWrite(v, t, e, a)
  <2>1. t \in Seq(Cell) /\ y \in Seq(Cell)
    BY <1>2 DEF IsWrite
  <2> HIDE DEF e
  <2> QED BY <1>1, <2>1, Written
<1> HIDE DEF u, v
<1>4. Len(t) \in Nat /\ Len(u) \in Nat /\ Len(v) \in Nat /\ Len(y) \in Nat
  BY <1>2, <1>3, LenProperties DEF IsWrite
<1>5. /\ Len(u) = Len(v) /\ Len(t) <= Len(u) /\ Len(s) <= Len(t) /\ q + Len(x) <= Len(t)
      /\ Len(y) = Most(Len(x), r + Len(a)) /\ r + Len(a) <= Len(y) /\ Len(x) <= Len(y)
  <2>1. /\ Len(y) = Most(Len(x), r + Len(a)) /\ Len(t) = Most(Len(s), q + Len(x))
        /\ Len(u) = Most(Len(s), q + Len(y)) /\ Len(v) = Most(Len(t), e + Len(a))
    BY <1>2, <1>3 DEF IsWrite
  <2>2. Len(t) <= Len(u) /\ Len(s) <= Len(t) /\ q + Len(x) <= Len(t)
        /\ r + Len(a) <= Len(y) /\ Len(x) <= Len(y)
    BY <1>1, <1>4, <2>1 DEF Most
  <2>3. Len(u) = Len(v)
    BY <1>1, <1>4, <2>1 DEF Most
  <2> QED BY <2>1, <2>2, <2>3
<1>6. ASSUME NEW i \in 1 .. Len(u) PROVE u[i] = v[i]
  <2>1. u[i] = IF i \in q + 1 .. q + Len(y) THEN y[i - q] ELSE IF i <= Len(s) THEN s[i] ELSE Zero
    BY <1>3 DEF IsWrite
  <2>2. v[i] = IF i \in e + 1 .. e + Len(a) THEN a[i - e] ELSE IF i <= Len(t) THEN t[i] ELSE Zero
    BY <1>3, <1>5 DEF IsWrite
  <2>3. i <= Len(t) => t[i] = IF i \in q + 1 .. q + Len(x) THEN x[i - q]
                              ELSE IF i <= Len(s) THEN s[i] ELSE Zero
    <3>1. i <= Len(t) => i \in 1 .. Len(t)
      BY <1>4
    <3> QED BY <1>2, <3>1 DEF IsWrite
  <2>4. ASSUME i \in q + 1 .. q + Len(y)
        PROVE  y[i - q] = IF i - q \in r + 1 .. r + Len(a) THEN a[(i - q) - r]
                          ELSE IF i - q <= Len(x) THEN x[i - q] ELSE Zero
    <3>1. i - q \in 1 .. Len(y)
      BY <1>4, <2>4
    <3> QED BY <1>2, <3>1 DEF IsWrite
  <2>5. CASE i \in e + 1 .. e + Len(a)
    <3>1. i \in q + 1 .. q + Len(y) /\ i - q \in r + 1 .. r + Len(a) /\ (i - q) - r = i - e
      BY <1>1, <1>4, <1>5, <2>5
    <3> QED BY <2>1, <2>2, <2>4, <2>5, <3>1
  <2>6. CASE i \notin e + 1 .. e + Len(a) /\ i \in q + 1 .. q + Len(x)
    <3>1. /\ i \in q + 1 .. q + Len(y) /\ i - q \notin r + 1 .. r + Len(a) /\ i - q <= Len(x)
          /\ i <= Len(t)
      BY <1>1, <1>4, <1>5, <2>6
    <3> QED BY <2>1, <2>2, <2>3, <2>4, <2>6, <3>1
  <2>7. CASE i \notin e + 1 .. e + Len(a) /\ i \notin q + 1 .. q + Len(x)
    <3>1. i \notin q + 1 .. q + Len(y) /\ (i <= Len(s) => i <= Len(t))
      BY <1>1, <1>4, <1>5, <2>7 DEF Most
    <3> QED BY <2>1, <2>2, <2>3, <2>7, <3>1
  <2> QED BY <2>5, <2>6, <2>7
<1>7. u = v
  BY <1>3, <1>5, <1>6, SeqEqual DEF IsWrite
<1> QED BY <1>7 DEF y, t, u, v

\* What follows w in a buffer after a write at r.
LEMMA TailOfWrite ==
  ASSUME NEW b \in Seq(Cell), NEW w \in Nat, NEW r \in Nat, w <= r, r <= Len(b), NEW a \in Seq(Cell)
  PROVE  SubSeq(WriteAt(b, r, a), w + 1, Len(WriteAt(b, r, a)))
           = WriteAt(SubSeq(b, w + 1, Len(b)), r - w, a)
<1> DEFINE y == WriteAt(b, r, a)
           x == SubSeq(b, w + 1, Len(b))
           o == r - w
           u == SubSeq(y, w + 1, Len(y))
           v == WriteAt(x, o, a)
<1>1. Len(b) \in Nat /\ Len(a) \in Nat /\ o \in Nat /\ w <= Len(b)
  BY LenProperties
<1>2. IsWrite(y, b, r, a)
  BY Written
<1>3. x \in Seq(Cell) /\ Len(x) = Len(b) - w /\ \A i \in 1 .. Len(b) - w : x[i] = b[w + i]
  BY <1>1, PartIs
<1> HIDE DEF y, x
<1>4. y \in Seq(Cell) /\ Len(y) \in Nat /\ w <= Len(y) /\ Len(b) <= Len(y)
      /\ Len(y) = Most(Len(b), r + Len(a))
  BY <1>1, <1>2, LenProperties DEF IsWrite, Most
<1>5. u \in Seq(Cell) /\ Len(u) = Len(y) - w /\ \A i \in 1 .. Len(y) - w : u[i] = y[w + i]
  BY <1>4, PartIs
<1>6. IsWrite(v, x, o, a)
  <2> HIDE DEF o
  <2> QED BY <1>1, <1>3, Written
<1> HIDE DEF u, v
<1>7. Len(u) = Len(v) /\ Len(u) \in Nat /\ Len(v) \in Nat
  <2>1. Len(v) = Most(Len(x), o + Len(a))
    BY <1>6 DEF IsWrite
  <2> QED BY <1>1, <1>3, <1>4, <1>5, <2>1 DEF Most
<1>8. ASSUME NEW i \in 1 .. Len(u) PROVE u[i] = v[i]
  <2>1. u[i] = y[w + i] /\ w + i \in 1 .. Len(y)
    BY <1>4, <1>5, <1>7
  <2>2. y[w + i] = IF w + i \in r + 1 .. r + Len(a) THEN a[(w + i) - r]
                   ELSE IF w + i <= Len(b) THEN b[w + i] ELSE Zero
    BY <1>2, <2>1 DEF IsWrite
  <2>3. v[i] = IF i \in o + 1 .. o + Len(a) THEN a[i - o] ELSE IF i <= Len(x) THEN x[i] ELSE Zero
    BY <1>6, <1>7 DEF IsWrite
  <2>4. /\ w + i \in r + 1 .. r + Len(a) <=> i \in o + 1 .. o + Len(a)
        /\ (w + i) - r = i - o
        /\ w + i <= Len(b) <=> i <= Len(x)
    BY <1>1, <1>3, <1>7
  <2>5. i <= Len(x) => x[i] = b[w + i]
    BY <1>1, <1>3, <1>7
  <2> QED BY <2>1, <2>2, <2>3, <2>4, <2>5
<1>9. u = v
  BY <1>5, <1>6, <1>7, <1>8, SeqEqual DEF IsWrite
<1> QED BY <1>9 DEF y, x, u, v

LEMMA WriteOnEmpty == ASSUME NEW a \in Seq(Cell) PROVE WriteAt(<<>>, 0, a) = a
<1> DEFINE u == WriteAt(<<>>, 0, a)
<1>1. <<>> \in Seq(Cell) /\ Len(<<>>) = 0 /\ Len(a) \in Nat
  BY LenProperties
<1>2. IsWrite(u, <<>>, 0, a)
  BY <1>1, Written
<1> HIDE DEF u
<1>3. u \in Seq(Cell) /\ Len(u) = Len(a)
  BY <1>1, <1>2 DEF IsWrite, Most
<1>4. \A i \in 1 .. Len(a) : u[i] = a[i]
  <2> TAKE i \in 1 .. Len(a)
  <2>1. i \in 0 + 1 .. 0 + Len(a) /\ i - 0 = i
    BY <1>1
  <2> QED BY <1>2, <1>3, <2>1 DEF IsWrite
<1>5. u = a
  BY <1>3, <1>4, SeqEqual
<1> QED BY <1>5 DEF u
(***************************************************************************)
(* Types, and the shape of a call and of a write buffer.                   *)
(***************************************************************************)
OpKind == {"idle", "put", "parput", "get", "prev", "delete", "setpos", "eofpos", "weof", "flush",
           "close", "closed"}

BufferTypes ==
  /\ parts \in BOOLEAN /\ failing \in BOOLEAN /\ ~(parts /\ failing)
  /\ file \in Seq(Cell) /\ npos \in Nat /\ lpos \in Nat /\ fsiz \in Nat
  /\ bflg \in {0, 1, 2} /\ bpos \in Nat /\ bwst \in Nat /\ buf \in Seq(Cell)
  /\ op \in [kind : OpKind, cells : Seq(Cell), at : Nat]
  /\ failures \in Nat

\* A put has cells left; rioget and rioprev have gathered less than they want.
CallShape ==
  /\ Putting => Len(op.cells) >= 1
  /\ op.kind = "get" => Len(op.cells) < Slot
  /\ op.kind = "prev" => Len(op.cells) <= lpos
  /\ op.kind = "prev" /\ lpos > 0 => Len(op.cells) < PrevCells(lpos)

BufferInv == BufferTypes /\ CallShape /\ WriteBufferInBounds

LEMMA BsizIs == Bsiz \in Nat /\ Bsiz >= 1
BY RecordBufferAssumption

LEMMA BlockOf ==
  ASSUME NEW a \in Nat
  PROVE  LET b == (a \div Bsiz) * Bsiz
         IN b \in Nat /\ b <= a /\ a < b + Bsiz /\ b % Bsiz = 0
<1> DEFINE q == a \div Bsiz
<1>1. Bsiz \in Nat /\ Bsiz > 0
  BY BsizIs
<1>2. q \in Nat /\ a % Bsiz \in 0 .. Bsiz - 1 /\ a = q * Bsiz + (a % Bsiz)
  BY <1>1, Divided
<1> HIDE DEF q
<1>3. q * Bsiz \in Nat
  BY <1>1, <1>2
<1>4. (q * Bsiz) % Bsiz = 0
  BY <1>1, <1>2
<1>5. q * Bsiz <= a /\ a < q * Bsiz + Bsiz
  BY <1>1, <1>2, <1>3
<1> QED BY <1>3, <1>4, <1>5 DEF q

\* A state in which no call, or one that gathers and puts nothing, runs.
LEMMA CallIs ==
  ASSUME BufferTypes
  PROVE  /\ op.kind \in OpKind /\ op.cells \in Seq(Cell) /\ op.at \in Nat /\ Len(op.cells) \in Nat
         /\ Idle \in [kind : OpKind, cells : Seq(Cell), at : Nat] /\ Idle.kind = "idle"
         /\ Idle.cells = <<>>
<1>1. op \in [kind : OpKind, cells : Seq(Cell), at : Nat]
  BY DEF BufferTypes
<1>2. op.cells \in Seq(Cell)
  BY <1>1
<1>3. Idle \in [kind : OpKind, cells : Seq(Cell), at : Nat]
  BY DEF Idle, OpKind
<1> QED BY <1>1, <1>2, <1>3, LenProperties DEF Idle

LEMMA BehindType ==
  ASSUME BufferInv
  PROVE  Behind \in Seq(Cell) /\ Len(Behind) \in Nat
<1>1. /\ file \in Seq(Cell) /\ bpos \in Nat /\ bwst \in Nat /\ buf \in Seq(Cell)
      /\ bflg = 2 => bwst < Len(buf)
  BY DEF BufferInv, BufferTypes, WriteBufferInBounds, blen
<1>2. CASE bflg = 2
  <2> DEFINE x == SubSeq(buf, bwst + 1, Len(buf))
             q == bpos + bwst
  <2>1. x \in Seq(Cell) /\ q \in Nat
    <3>1. Len(buf) \in Nat /\ bwst <= Len(buf)
      BY <1>1, <1>2, LenProperties
    <3>2. q \in Nat
      BY <1>1
    <3> QED BY <1>1, <3>1, <3>2, PartIs
  <2>2. Behind = WriteAt(file, q, x)
    BY <1>2 DEF Behind, blen
  <2> HIDE DEF x, q
  <2>3. Behind \in Seq(Cell)
    BY <1>1, <2>1, <2>2, WriteAtIs
  <2> QED BY <2>3, LenProperties
<1>3. CASE bflg # 2
  BY <1>1, <1>3, LenProperties DEF Behind
<1> QED BY <1>2, <1>3

\* The beginning of a call.
LEMMA CallTyped ==
  ASSUME BufferInv,
         NEW kind \in OpKind, NEW cells \in Seq(Cell), NEW at \in Nat, Call(kind, cells, at),
         kind \in {"put", "parput"} => Len(cells) >= 1,
         kind \in {"get", "prev"} => cells = <<>>,
         UNCHANGED <<file, positions, buffer, answer>>, fsiz' \in Nat
  PROVE  BufferInv'
<1>1. /\ op' = [kind |-> kind, cells |-> cells, at |-> at] /\ parts' = parts /\ failing' = failing
      /\ failures' = failures /\ file' = file /\ npos' = npos /\ lpos' = lpos
      /\ bflg' = bflg /\ bpos' = bpos /\ bwst' = bwst /\ buf' = buf
  BY DEF Call, choice, positions, buffer
<1>2. BufferTypes'
  <2>1. op' \in [kind : OpKind, cells : Seq(Cell), at : Nat]
    BY <1>1
  <2> QED BY <1>1, <2>1 DEF BufferInv, BufferTypes
<1>3. CallShape'
  <2>1. op'.kind = kind /\ op'.cells = cells
    BY <1>1
  <2>2. Len(<<>>) = 0
    OBVIOUS
  <2>3. lpos \in Nat /\ Slot >= 2 /\ (lpos > 0 => PrevCells(lpos) > 0)
    <3>1. lpos \in Nat /\ Slot \in Nat /\ Slot >= 2
      BY SlotSize DEF BufferInv, BufferTypes
    <3>2. lpos > 0 => PrevCells(lpos) > 0
      BY <3>1 DEF PrevCells, Back, Verify
    <3> QED BY <3>1, <3>2
  <2>4. kind = "get" => Len(cells) < Slot
    BY <2>2, <2>3, SlotSize
  <2>5. kind = "prev" => Len(cells) <= lpos /\ (lpos > 0 => Len(cells) < PrevCells(lpos))
    BY <2>2, <2>3
  <2>6. PrevCells(lpos') = PrevCells(lpos)
    BY <1>1
  <2> QED BY <1>1, <2>1, <2>4, <2>5, <2>6 DEF CallShape, Putting
<1>4. WriteBufferInBounds'
  BY <1>1 DEF BufferInv, WriteBufferInBounds, blen
<1> QED BY <1>2, <1>3, <1>4 DEF BufferInv

LEMMA NewCallTyped ==
  ASSUME BufferInv, RioPut \/ RioParPut \/ RioSetPos \/ RioClose \/ RioCall
  PROVE  BufferInv'
<1>1. npos \in Nat /\ fsiz \in Nat /\ Len(file) \in Nat /\ <<>> \in Seq(Cell)
  BY LenProperties DEF BufferInv, BufferTypes
<1>2. CASE RioPut
  <2>1. PICK d \in Puts(npos) :
             Call("put", PutCells(d, npos, NewFsiz(d)), npos) /\ fsiz' = NewFsiz(d)
    BY <1>2 DEF RioPut
  <2>2. UNCHANGED <<file, positions, buffer, answer>>
    BY <1>2 DEF RioPut
  <2> DEFINE c == PutCells(d, npos, NewFsiz(d))
  <2>3. d \in Seq(Value) /\ Len(d) \in Nat
    BY <1>1, PutsAre, LenProperties
  <2>4. c \in Seq(Cell) /\ Len(c) >= 1
    <3>1. c \in Seq(Cell) /\ (Len(c) = Len(d) + 2 \/ Len(c) = Len(d) + 1)
      BY <2>3, PutCellsAre
    <3> HIDE DEF c
    <3> QED BY <2>3, <3>1
  <2>5. fsiz' \in Nat
    BY <1>1, <2>1 DEF NewFsiz, Most
  <2> HIDE DEF c
  <2>6. "put" \in OpKind
    BY DEF OpKind
  <2> QED BY <1>1, <2>1, <2>2, <2>4, <2>5, <2>6, CallTyped DEF c
<1>3. CASE RioParPut
  <2>1. PICK d \in ParPuts(npos) : Call("parput", d, npos)
    BY <1>3 DEF RioParPut
  <2>2. UNCHANGED <<file, positions, buffer, answer>> /\ fsiz' = fsiz
    BY <1>3 DEF RioParPut
  <2>3. d \in Seq(Cell) /\ Len(d) >= 1 /\ "parput" \in OpKind
    BY <1>1, ParPutsAre DEF OpKind
  <2> QED BY <1>1, <2>1, <2>2, <2>3, CallTyped
<1>4. CASE RioSetPos
  <2>1. PICK pos \in 0 .. Len(Behind) : Call("setpos", <<>>, pos)
    BY <1>4 DEF RioSetPos
  <2>2. UNCHANGED <<file, positions, buffer, answer>> /\ fsiz' = fsiz
    BY <1>4 DEF RioSetPos
  <2>3. pos \in Nat /\ "setpos" \in OpKind
    BY BehindType DEF OpKind
  <2> QED BY <1>1, <2>1, <2>2, <2>3, CallTyped
<1>5. CASE RioClose
  <2>1. Call("close", <<>>, 0) /\ UNCHANGED <<file, positions, buffer, answer>> /\ fsiz' = fsiz
    BY <1>5 DEF RioClose
  <2>2. "close" \in OpKind /\ 0 \in Nat
    BY DEF OpKind
  <2> QED BY <1>1, <2>1, <2>2, CallTyped
<1>6. CASE RioCall
  <2>1. PICK kind \in {"get", "prev", "delete", "eofpos", "weof", "flush"} : Call(kind, <<>>, 0)
    BY <1>6 DEF RioCall
  <2>2. UNCHANGED <<file, positions, buffer, answer>> /\ fsiz' = fsiz
    BY <1>6 DEF RioCall
  <2>3. kind \in OpKind /\ 0 \in Nat /\ kind \notin {"put", "parput"}
    BY DEF OpKind
  <2> QED BY <1>1, <2>1, <2>2, <2>3, CallTyped
<1> QED BY <1>2, <1>3, <1>4, <1>5, <1>6

\* A step that makes the buffer invalid, and returns or goes on with the call.
LEMMA InvalidTyped ==
  ASSUME BufferInv, Invalidate, file' \in Seq(Cell), fsiz' \in Nat, npos' \in Nat, lpos' \in Nat,
         UNCHANGED choice, failures' \in Nat,
         op' = Idle \/ (op' = op /\ lpos' = lpos)
  PROVE  BufferInv'
<1>1. bflg' = 0 /\ bpos' = 0 /\ bwst' = 0 /\ buf' = <<>> /\ parts' = parts /\ failing' = failing
  BY DEF Invalidate, choice
<1>2. BufferTypes'
  <2>1. op' \in [kind : OpKind, cells : Seq(Cell), at : Nat]
    BY CallIs DEF BufferInv, BufferTypes
  <2>2. buf' \in Seq(Cell)
    BY <1>1
  <2> QED BY <1>1, <2>1, <2>2 DEF BufferInv, BufferTypes
<1>3. CallShape'
  <2>1. CASE op' = Idle
    BY <2>1, CallIs DEF BufferInv, CallShape, Putting
  <2>2. CASE op' = op /\ lpos' = lpos
    BY <2>2 DEF BufferInv, CallShape, Putting
  <2> QED BY <2>1, <2>2
<1>4. WriteBufferInBounds'
  BY <1>1 DEF WriteBufferInBounds
<1> QED BY <1>2, <1>3, <1>4 DEF BufferInv

\* A step that leaves the buffer a read buffer, or what it was.
LEMMA KeptTyped ==
  ASSUME BufferInv, file' = file, fsiz' \in Nat, npos' \in Nat, lpos' \in Nat, UNCHANGED choice,
         failures' \in Nat, UNCHANGED buffer \/ (bflg' \in {0, 1} /\ bpos' \in Nat /\ bwst' = bwst),
         buf' \in Seq(Cell), op' \in [kind : OpKind, cells : Seq(Cell), at : Nat], CallShape'
  PROVE  BufferInv'
<1>1. parts' = parts /\ failing' = failing
  BY DEF choice
<1>2. BufferTypes'
  BY <1>1 DEF BufferInv, BufferTypes, buffer
<1>3. WriteBufferInBounds'
  <2>1. CASE UNCHANGED buffer
    BY <2>1 DEF BufferInv, WriteBufferInBounds, buffer, blen
  <2>2. CASE bflg' \in {0, 1}
    BY <2>2 DEF WriteBufferInBounds
  <2> QED BY <2>1, <2>2
<1> QED BY <1>2, <1>3 DEF BufferInv
(***************************************************************************)
(* Cells that come from the buffer.                                        *)
(***************************************************************************)
LEMMA ChunkOfGet ==
  ASSUME BufferInv, op.kind = "get", bpos <= At
  PROVE  /\ At = npos + Len(op.cells) /\ At \in Nat /\ At - bpos \in Nat
         /\ Slot - Len(op.cells) \in Nat /\ Slot - Len(op.cells) >= 1
         /\ Chunk = ReadAt(buf, At - bpos, Slot - Len(op.cells))
<1>1. /\ npos \in Nat /\ bpos \in Nat /\ Len(op.cells) \in Nat /\ Len(op.cells) < Slot /\ Slot \in Nat
  BY CallIs, SlotSize DEF BufferInv, BufferTypes, CallShape
<1>2. At = npos + Len(op.cells) /\ Wanted = Slot
  BY DEF At, Wanted
<1>3. At \in Nat /\ At - bpos \in Nat /\ Slot - Len(op.cells) \in Nat /\ Slot - Len(op.cells) >= 1
  BY <1>1, <1>2
<1> DEFINE p == At - bpos
           n == Slot - Len(op.cells)
<1>4. p \in Nat /\ n \in Nat
  BY <1>3
<1>5. Chunk = SubSeq(buf, p + 1, Least(p + 1 + n - 1, Len(buf)))
  BY <1>2 DEF Chunk, blen
<1>6. p + 1 + n - 1 = p + n
  <2> HIDE DEF p, n
  <2> QED BY <1>4
<1>7. Chunk = ReadAt(buf, p, n)
  <2> HIDE DEF p, n
  <2> QED BY <1>5, <1>6 DEF ReadAt
<1> QED BY <1>2, <1>3, <1>7

LEMMA ChunkOfPrev ==
  ASSUME BufferInv, op.kind = "prev", lpos > 0, bpos <= At, At < bpos + blen
  PROVE  /\ At = lpos - Len(op.cells) - 1 /\ At \in Nat
         /\ Chunk \in Seq(Cell) /\ Len(Chunk) \in Nat /\ Len(Chunk) >= 1
         /\ Len(Chunk) + Len(op.cells) <= PrevCells(lpos)
         /\ At + 1 - Len(Chunk) >= bpos
         /\ \A k \in 1 .. Len(Chunk) : Chunk[k] = buf[(At + 1 - Len(Chunk) - bpos) + k]
<1>1. /\ lpos \in Nat /\ bpos \in Nat /\ Len(op.cells) \in Nat /\ Len(op.cells) < PrevCells(lpos)
      /\ Len(op.cells) <= lpos /\ buf \in Seq(Cell) /\ Len(buf) \in Nat
      /\ PrevCells(lpos) \in Nat /\ PrevCells(lpos) <= lpos
  <2>1. lpos \in Nat /\ Slot \in Nat
    BY SlotSize DEF BufferInv, BufferTypes
  <2>2. PrevCells(lpos) \in Nat /\ PrevCells(lpos) <= lpos
    BY <2>1 DEF PrevCells, Back, Verify
  <2> QED BY <2>1, <2>2, CallIs, LenProperties DEF BufferInv, BufferTypes, CallShape
<1>2. At = lpos - Len(op.cells) - 1 /\ Wanted = PrevCells(lpos)
  BY DEF At, Wanted
<1> DEFINE n == At - bpos + 1
           need == PrevCells(lpos) - Len(op.cells)
           w == Most(n - need + 1, 1) - 1
<1>3. At \in Nat /\ n \in Nat /\ n >= 1 /\ n <= Len(buf) /\ need \in Nat /\ need >= 1
  <2>1. Len(op.cells) < lpos
    BY <1>1
  <2>2. At \in Nat
    BY <1>1, <1>2, <2>1
  <2>3. n \in Nat /\ n >= 1 /\ n <= Len(buf)
    BY <1>1, <2>2 DEF blen
  <2>4. need \in Nat /\ need >= 1
    BY <1>1
  <2> QED BY <2>2, <2>3, <2>4
<1>4. w \in Nat /\ w < n /\ n - w <= need
  <2> HIDE DEF n, need
  <2> QED BY <1>3 DEF Most
<1>5. Chunk = SubSeq(buf, w + 1, n)
  <2>1. Chunk = SubSeq(buf, Most(n - need + 1, 1), n)
    BY <1>2 DEF Chunk
  <2>2. Most(n - need + 1, 1) = w + 1
    <3> HIDE DEF n, need
    <3> QED BY <1>3 DEF Most
  <2> QED BY <2>1, <2>2
<1> DEFINE c == SubSeq(buf, w + 1, n)
<1>6. c \in Seq(Cell) /\ Len(c) = n - w /\ \A k \in 1 .. n - w : c[k] = buf[w + k]
  <2> HIDE DEF n, w
  <2>1. w <= n
    BY <1>3, <1>4
  <2> QED BY <1>1, <1>3, <1>4, <2>1, PartIs
<1> HIDE DEF c, w
<1>7. At + 1 - Len(c) - bpos = w
  BY <1>1, <1>3, <1>4, <1>6, SMTT(30)
<1>8. At + 1 - Len(c) >= bpos
  BY <1>1, <1>3, <1>4, <1>6
<1>9. Len(c) \in Nat /\ Len(c) >= 1 /\ Len(c) + Len(op.cells) <= PrevCells(lpos)
  <2>1. Len(c) = n - w /\ Len(op.cells) + need = PrevCells(lpos)
    BY <1>1, <1>6
  <2> HIDE DEF n, need
  <2> QED BY <1>1, <1>3, <1>4, <2>1
<1>10. \A k \in 1 .. Len(c) : c[k] = buf[(At + 1 - Len(c) - bpos) + k]
  BY <1>6, <1>7
<1> QED BY <1>2, <1>3, <1>5, <1>6, <1>8, <1>9, <1>10 DEF c

\* The cells that rioget, or rioprev, has after it took a chunk.
LEMMA Joined ==
  ASSUME NEW a \in Seq(Cell), NEW b \in Seq(Cell)
  PROVE  /\ a \o b \in Seq(Cell) /\ Len(a \o b) = Len(a) + Len(b)
         /\ \A i \in 1 .. Len(a) : (a \o b)[i] = a[i]
         /\ \A i \in 1 .. Len(b) : (a \o b)[Len(a) + i] = b[i]
<1> DEFINE c == a \o b
<1>1. Len(a) \in Nat /\ Len(b) \in Nat
  BY LenProperties
<1>2. /\ c \in Seq(Cell) /\ Len(c) = Len(a) + Len(b)
      /\ \A i \in 1 .. Len(c) : c[i] = IF i <= Len(a) THEN a[i] ELSE b[i - Len(a)]
  BY ConcatProperties
<1> HIDE DEF c
<1>3. ASSUME NEW i \in 1 .. Len(a) PROVE c[i] = a[i]
  <2>1. i \in 1 .. Len(c) /\ i <= Len(a)
    BY <1>1, <1>2
  <2> QED BY <1>2, <2>1
<1>4. ASSUME NEW i \in 1 .. Len(b) PROVE c[Len(a) + i] = b[i]
  <2>1. Len(a) + i \in 1 .. Len(c) /\ ~ (Len(a) + i <= Len(a)) /\ (Len(a) + i) - Len(a) = i
    BY <1>1, <1>2
  <2> QED BY <1>2, <2>1
<1> QED BY <1>2, <1>3, <1>4 DEF c

LEMMA GetTyped ==
  ASSUME BufferInv, RioGetTakes
  PROVE  BufferInv'
<1>1. /\ op.kind = "get" /\ Buffered(At) /\ UNCHANGED <<choice, file, fsiz, buffer, failures>>
      /\ npos \in Nat /\ lpos \in Nat /\ bpos \in Nat /\ failures \in Nat /\ fsiz \in Nat
      /\ buf \in Seq(Cell) /\ op \in [kind : OpKind, cells : Seq(Cell), at : Nat]
  BY DEF RioGetTakes, BufferInv, BufferTypes
<1>2. bpos <= At
  BY <1>1, BsizIs DEF Buffered
<1> DEFINE p == At - bpos
           n == Slot - Len(op.cells)
           c == op.cells \o Chunk
<1>3. /\ p \in Nat /\ n \in Nat /\ n >= 1 /\ Chunk = ReadAt(buf, p, n) /\ Len(op.cells) \in Nat
      /\ op.cells \in Seq(Cell) /\ Slot \in Nat
  BY <1>1, <1>2, ChunkOfGet, CallIs, SlotSize DEF BufferInv
<1>4. Chunk \in Seq(Cell) /\ Len(Chunk) \in Nat /\ Len(Chunk) <= n
  <2> HIDE DEF p, n
  <2>1. Chunk \in Seq(Cell)
    BY <1>1, <1>3, ReadAtIs
  <2>2. Len(Chunk) = IF Len(buf) <= p THEN 0 ELSE Least(n, Len(buf) - p)
    BY <1>1, <1>3, ReadAtIs
  <2>3. (IF Len(buf) <= p THEN 0 ELSE Least(n, Len(buf) - p)) <= n
    BY <1>1, <1>3, LenProperties DEF Least
  <2> QED BY <2>1, <2>2, <2>3, LenProperties
<1>5. c \in Seq(Cell) /\ Len(c) \in Nat /\ Len(c) <= Slot
  <2>1. c \in Seq(Cell) /\ Len(c) = Len(op.cells) + Len(Chunk)
    BY <1>3, <1>4, Joined
  <2>2. Len(op.cells) + n = Slot
    BY <1>3
  <2> HIDE DEF c, n
  <2>3. Len(op.cells) \in Nat /\ Len(Chunk) \in Nat /\ Len(Chunk) <= n /\ n \in Nat /\ Slot \in Nat
    BY <1>3, <1>4
  <2>4. Len(op.cells) + Len(Chunk) <= Slot
    BY <2>2, <2>3
  <2> QED BY <2>1, <2>3, <2>4
<1> HIDE DEF p, n, c
<1>6. CASE GetDone(c)
  <2>1. /\ op' = Idle
        /\ IF c = <<>> THEN UNCHANGED positions ELSE GetMoves(GetAnswer(c, npos).step)
    BY <1>6 DEF RioGetTakes, Return, c
  <2>2. GetAnswer(c, npos).step \in Nat
    BY <1>1, <1>5, GetStep
  <2>3. npos' \in Nat /\ lpos' \in Nat
    BY <1>1, <2>1, <2>2 DEF positions, GetMoves
  <2>4. CallShape'
    BY <2>1, CallIs DEF CallShape, Putting, BufferInv
  <2> QED BY <1>1, <2>1, <2>3, <2>4, KeptTyped, CallIs DEF BufferInv, buffer
<1>7. CASE ~ GetDone(c)
  <2>1. op' = [op EXCEPT !.cells = c] /\ UNCHANGED positions
    BY <1>7 DEF RioGetTakes, c
  <2>2. Len(c) < Slot
    <3>1. Len(c) # Slot
      BY <1>7 DEF GetDone, GetEnough
    <3> QED BY <1>3, <1>5, <3>1
  <2>3. /\ op' \in [kind : OpKind, cells : Seq(Cell), at : Nat] /\ op'.kind = "get" /\ op'.cells = c
    BY <1>1, <1>5, <2>1
  <2>4. CallShape'
    BY <2>2, <2>3 DEF CallShape, Putting
  <2> QED BY <1>1, <2>1, <2>3, <2>4, KeptTyped DEF positions, buffer
<1> QED BY <1>6, <1>7

\* An error within a read moves over what was gathered.
LEMMA ReadErrorTyped ==
  ASSUME BufferInv, Reading, ReadError
  PROVE  npos' \in Nat /\ lpos' \in Nat /\ op' = Idle /\ answer'.kind = "error"
<1>1. /\ npos \in Nat /\ lpos \in Nat /\ Len(op.cells) \in Nat
      /\ op.kind = "prev" => Len(op.cells) <= lpos
      /\ op.kind \in {"get", "prev"}
  BY CallIs DEF BufferInv, BufferTypes, CallShape, Reading
<1>2. CASE op.cells = <<>>
  BY <1>1, <1>2, FailedIs DEF ReadError, positions, Return
<1>3. CASE op.cells # <<>> /\ op.kind = "get"
  BY <1>1, <1>3, FailedIs DEF ReadError, Moved, GetMoves, Return
<1>4. CASE op.cells # <<>> /\ op.kind = "prev"
  <2>1. npos' = lpos /\ lpos' = lpos - Len(op.cells) /\ op' = Idle /\ answer'.kind = "error"
    BY <1>4, FailedIs DEF ReadError, Moved, PrevMoves, Return
  <2> QED BY <1>1, <1>4, <2>1
<1> QED BY <1>1, <1>2, <1>3, <1>4

LEMMA PrevTyped ==
  ASSUME BufferInv, RioPrevTakes
  PROVE  BufferInv'
<1>1. /\ op.kind = "prev" /\ lpos > 0 /\ Buffered(At) /\ UNCHANGED <<choice, file, fsiz, buffer, failures>>
      /\ npos \in Nat /\ lpos \in Nat /\ bpos \in Nat /\ failures \in Nat /\ fsiz \in Nat
      /\ buf \in Seq(Cell) /\ op \in [kind : OpKind, cells : Seq(Cell), at : Nat]
  BY DEF RioPrevTakes, BufferInv, BufferTypes
<1>2. bpos <= At
  BY <1>1, BsizIs DEF Buffered
<1>3. Idle \in [kind : OpKind, cells : Seq(Cell), at : Nat] /\ Idle.kind = "idle"
  BY CallIs DEF BufferInv
<1>4. op' = Idle => CallShape'
  BY <1>3 DEF CallShape, Putting
<1>5. CASE At >= bpos + blen
  <2>1. ReadError
    BY <1>5 DEF RioPrevTakes
  <2>2. npos' \in Nat /\ lpos' \in Nat /\ op' = Idle
    BY <1>1, <2>1, ReadErrorTyped DEF Reading
  <2> QED BY <1>1, <1>3, <1>4, <2>2, KeptTyped DEF buffer
<1>6. CASE ~ (At >= bpos + blen)
  <2> DEFINE c == Chunk \o op.cells
  <2>1. At < bpos + blen
    <3>1. At \in Int /\ blen \in Nat
      BY <1>1, CallIs, LenProperties DEF At, BufferInv, blen
    <3> QED BY <1>1, <1>6, <3>1
  <2>2. /\ Chunk \in Seq(Cell) /\ Len(Chunk) \in Nat /\ Len(Chunk) + Len(op.cells) <= PrevCells(lpos)
        /\ op.cells \in Seq(Cell) /\ Len(op.cells) \in Nat
    BY <1>1, <1>2, <2>1, ChunkOfPrev, CallIs DEF BufferInv
  <2>3. c \in Seq(Cell) /\ Len(c) \in Nat /\ Len(c) <= PrevCells(lpos)
    <3>1. c \in Seq(Cell) /\ Len(c) = Len(Chunk) + Len(op.cells)
      BY <2>2, Joined
    <3> HIDE DEF c
    <3> QED BY <2>2, <3>1
  <2> HIDE DEF c
  <2>4. CASE PrevEnough(c, lpos)
    <3>1. op' = Idle /\ npos' = lpos /\ lpos' = lpos - PrevAnswer(c, lpos).step
      BY <1>6, <2>4 DEF RioPrevTakes, PrevMoves, Return, c
    <3>2. PrevAnswer(c, lpos).step \in 0 .. lpos
      BY <1>1, <2>3, PrevStep
    <3>3. npos' \in Nat /\ lpos' \in Nat
      BY <1>1, <3>1, <3>2
    <3> QED BY <1>1, <1>3, <1>4, <3>1, <3>3, KeptTyped DEF buffer
  <2>5. CASE ~ PrevEnough(c, lpos)
    <3>1. op' = [op EXCEPT !.cells = c] /\ UNCHANGED positions
      BY <1>6, <2>5 DEF RioPrevTakes, c
    <3>2. Len(c) < PrevCells(lpos) /\ Len(c) <= lpos
      <4>1. Len(c) # PrevCells(lpos)
        BY <2>5 DEF PrevEnough
      <4>2. PrevCells(lpos) \in Nat /\ PrevCells(lpos) <= lpos
        BY <1>1, SlotSize DEF PrevCells, Back, Verify
      <4> QED BY <1>1, <2>3, <4>1, <4>2
    <3>3. /\ op' \in [kind : OpKind, cells : Seq(Cell), at : Nat] /\ op'.kind = "prev" /\ op'.cells = c
      BY <1>1, <2>3, <3>1
    <3>4. CallShape'
      <4>1. lpos' = lpos
        BY <3>1 DEF positions
      <4> QED BY <3>2, <3>3, <4>1 DEF CallShape, Putting
    <3> QED BY <1>1, <3>1, <3>3, <3>4, KeptTyped DEF positions, buffer
  <2> QED BY <2>4, <2>5
<1> QED BY <1>5, <1>6
(***************************************************************************)
(* The steps that write.                                                   *)
(***************************************************************************)
LEMMA FirstCells ==
  ASSUME NEW c \in Seq(Cell), NEW n \in Nat, n <= Len(c)
  PROVE  /\ SubSeq(c, 1, n) \in Seq(Cell) /\ Len(SubSeq(c, 1, n)) = n
         /\ \A i \in 1 .. n : SubSeq(c, 1, n)[i] = c[i]
<1>1. 0 \in Nat /\ 0 <= n /\ 0 + 1 = 1 /\ n - 0 = n /\ \A i \in 1 .. n : 0 + i = i
  OBVIOUS
<1> QED BY <1>1, PartIs

\* Where a put goes: into the write buffer, or into a new one that begins at
\* the block of the put.
LEMMA PutPlace ==
  ASSUME BufferInv, RioPutChunk
  PROVE  LET r == op.at - bpos'
         IN /\ bpos' \in Nat /\ bwst' \in Nat /\ r \in Nat /\ bpos' % Bsiz = 0 /\ op.at = bpos' + r
            /\ Kept \in Seq(Cell) /\ bwst' <= r /\ r <= Len(Kept) /\ r < Bsiz /\ Len(Kept) <= Bsiz
            /\ bflg = 2 => bpos' = bpos /\ bwst' = bwst /\ Kept = buf
            /\ bflg # 2 => r = bwst' /\ Len(Kept) = r
            /\ Fits \in Nat /\ Fits >= 1 /\ Fits <= Len(op.cells) /\ r + Fits <= Bsiz
            /\ buf' = WriteAt(Kept, r, SubSeq(op.cells, 1, Fits))
<1> DEFINE r == op.at - bpos'
<1>1. /\ bpos \in Nat /\ bwst \in Nat /\ buf \in Seq(Cell) /\ blen \in Nat /\ blen = Len(buf)
      /\ op.at \in Nat /\ Len(op.cells) \in Nat /\ Len(op.cells) >= 1 /\ Putting
      /\ bflg = 2 => bpos % Bsiz = 0 /\ bwst < blen /\ blen <= Bsiz
      /\ Bsiz \in Nat /\ Bsiz >= 1
  BY CallIs, BsizIs, LenProperties
     DEF RioPutChunk, BufferInv, BufferTypes, CallShape, WriteBufferInBounds, blen
<1>2. WriteBuffer /\ ~ MustFlush /\ op.kind \in {"put", "parput"}
      /\ buf' = WriteAt(Kept, r, SubSeq(op.cells, 1, Fits))
  BY DEF RioPutChunk, Putting
<1>3. CASE bflg = 2
  <2>1. bpos' = bpos /\ bwst' = bwst /\ Kept = buf
    BY <1>2, <1>3 DEF WriteBuffer, Kept
  <2>2. bpos + bwst <= op.at /\ op.at <= bpos + blen /\ op.at # bpos + Bsiz
    <3>1. ~ Outside(op.at)
      BY <1>2, <1>3 DEF MustFlush
    <3> QED BY <1>1, <3>1 DEF Outside
  <2>3. r \in Nat /\ bwst <= r /\ r <= blen /\ r < Bsiz /\ op.at = bpos + r
    BY <1>1, <1>3, <2>1, <2>2, SMTT(30)
  <2> HIDE DEF r
  <2>4. Fits = Least(bpos + Bsiz - op.at, Len(op.cells))
    BY <2>1 DEF Fits
  <2>5. Fits \in Nat /\ Fits >= 1 /\ Fits <= Len(op.cells) /\ r + Fits <= Bsiz
    BY <1>1, <2>3, <2>4 DEF Least
  <2> QED BY <1>1, <1>2, <1>3, <2>1, <2>3, <2>5 DEF r
<1>4. CASE bflg # 2
  <2>1. bpos' = (op.at \div Bsiz) * Bsiz /\ bwst' = op.at - bpos' /\ Kept = [i \in 1 .. bwst' |-> EOR]
    BY <1>2, <1>4 DEF WriteBuffer, Kept
  <2>2. bpos' \in Nat /\ bpos' <= op.at /\ op.at < bpos' + Bsiz /\ bpos' % Bsiz = 0
    BY <1>1, <2>1, BlockOf
  <2>3. r \in Nat /\ bwst' = r /\ r < Bsiz /\ op.at = bpos' + r
    <3>1. bwst' = r
      BY <2>1
    <3>2. \A a, b \in Nat : b <= a /\ a < b + Bsiz => a - b \in Nat /\ a - b < Bsiz /\ a = b + (a - b)
      BY <1>1
    <3> QED BY <1>1, <2>2, <3>1, <3>2
  <2> HIDE DEF r
  <2>4. Kept \in Seq(Cell) /\ Len(Kept) = r
    <3>1. Kept \in [1 .. r -> Cell]
      BY <2>1, <2>3, Marks
    <3> QED BY <2>3, <3>1, SeqDef, LenProperties
  <2>5. Fits = Least(bpos' + Bsiz - op.at, Len(op.cells))
    BY DEF Fits
  <2>6. Fits \in Nat /\ Fits >= 1 /\ Fits <= Len(op.cells) /\ r + Fits <= Bsiz
    <3>1. bpos' + Bsiz - op.at = Bsiz - r
      <4>1. \A a, b, d \in Nat : a = b + d => b + Bsiz - a = Bsiz - d
        BY <1>1
      <4>2. bpos' \in Nat /\ op.at \in Nat /\ r \in Nat /\ Bsiz \in Nat /\ op.at = bpos' + r
        BY <1>1, <2>2, <2>3
      <4> QED BY <4>1, <4>2, ZenonT(60)
    <3> QED BY <1>1, <2>3, <2>5, <3>1, SMTT(30) DEF Least
  <2>7. bflg # 2 => r = bwst' /\ Len(Kept) = r
    BY <2>3, <2>4
  <2>8. bwst' \in Nat /\ bwst' <= r /\ r <= Len(Kept) /\ Len(Kept) <= Bsiz
    BY <1>1, <2>3, <2>4
  <2> QED BY <1>2, <1>4, <2>2, <2>3, <2>4, <2>6, <2>7, <2>8 DEF r
<1> QED BY <1>3, <1>4

\* What a put still has to put, or that it is done.
LEMMA PutLeft ==
  ASSUME BufferInv, RioPutChunk
  PROVE  LET rest == SubSeq(op.cells, Fits + 1, Len(op.cells))
         IN /\ rest \in Seq(Cell) /\ Len(rest) = Len(op.cells) - Fits
            /\ \A i \in 1 .. Len(op.cells) - Fits : rest[i] = op.cells[Fits + i]
            /\ Fits = Len(op.cells)
                 => PutDone /\ op' = Idle /\ Moves(op.cells) \in Nat
            /\ Fits # Len(op.cells)
                 => /\ op' = [kind |-> op.kind, cells |-> rest, at |-> op.at + Fits]
                    /\ Len(rest) >= 1 /\ npos' = npos /\ lpos' = lpos /\ fsiz' = fsiz
<1> DEFINE rest == SubSeq(op.cells, Fits + 1, Len(op.cells))
<1>1. /\ op \in [kind : OpKind, cells : Seq(Cell), at : Nat] /\ op.cells \in Seq(Cell)
      /\ Len(op.cells) \in Nat
  BY CallIs DEF BufferInv, BufferTypes
<1>2. Fits \in Nat /\ Fits >= 1 /\ Fits <= Len(op.cells)
  BY PutPlace
<1>3. /\ rest \in Seq(Cell) /\ Len(rest) = Len(op.cells) - Fits
      /\ \A i \in 1 .. Len(op.cells) - Fits : rest[i] = op.cells[Fits + i]
  BY <1>1, <1>2, PartIs
<1>4. ASSUME Fits = Len(op.cells) PROVE PutDone /\ op' = Idle /\ Moves(op.cells) \in Nat
  <2>1. PutDone
    BY <1>4 DEF RioPutChunk
  <2>2. Moves(op.cells) \in Nat
    BY <1>1, <1>2 DEF Moves
  <2> QED BY <2>1, <2>2 DEF PutDone, Return
<1>5. ASSUME Fits # Len(op.cells)
      PROVE  /\ op' = [kind |-> op.kind, cells |-> rest, at |-> op.at + Fits]
             /\ npos' = npos /\ lpos' = lpos /\ fsiz' = fsiz
  <2>1. op' = [op EXCEPT !.cells = SubSeq(@, Fits + 1, Len(@)), !.at = @ + Fits]
        /\ UNCHANGED <<positions, fsiz>>
    BY <1>5 DEF RioPutChunk
  <2> QED BY <1>1, <2>1 DEF positions
<1>6. Fits # Len(op.cells) => Len(rest) >= 1
  <2> HIDE DEF rest
  <2> QED BY <1>1, <1>2, <1>3
<1> QED BY <1>3, <1>4, <1>5, <1>6

LEMMA PutTyped ==
  ASSUME BufferInv, RioPutChunk
  PROVE  BufferInv'
<1> DEFINE r == op.at - bpos'
           n == Fits
           rest == SubSeq(op.cells, n + 1, Len(op.cells))
           first == SubSeq(op.cells, 1, n)
<1>1. /\ bpos' \in Nat /\ bwst' \in Nat /\ r \in Nat /\ bpos' % Bsiz = 0
      /\ Kept \in Seq(Cell) /\ bwst' <= r /\ r <= Len(Kept) /\ r < Bsiz /\ Len(Kept) <= Bsiz
      /\ n \in Nat /\ n >= 1 /\ n <= Len(op.cells) /\ r + n <= Bsiz
      /\ buf' = WriteAt(Kept, r, first)
  BY PutPlace
<1>2. /\ op.kind \in OpKind /\ op.at \in Nat /\ op.cells \in Seq(Cell) /\ npos \in Nat /\ lpos \in Nat
      /\ fsiz \in Nat /\ Len(op.cells) \in Nat
      /\ file' = file /\ failures' = failures /\ parts' = parts /\ failing' = failing /\ bflg' = 2
  BY CallIs DEF RioPutChunk, choice, BufferInv, BufferTypes
<1>3. /\ rest \in Seq(Cell)
      /\ n = Len(op.cells) => PutDone /\ op' = Idle /\ Moves(op.cells) \in Nat
      /\ n # Len(op.cells)
           => /\ op' = [kind |-> op.kind, cells |-> rest, at |-> op.at + n]
              /\ Len(rest) >= 1 /\ npos' = npos /\ lpos' = lpos /\ fsiz' = fsiz
  BY PutLeft
<1>4. first \in Seq(Cell) /\ Len(first) = n
  <2> HIDE DEF n
  <2> QED BY <1>1, <1>2, FirstCells
<1> HIDE DEF r, n, rest, first
<1>5. buf' \in Seq(Cell) /\ Len(buf') <= Bsiz /\ bwst' < Len(buf')
  <2>1. IsWrite(buf', Kept, r, first)
    BY <1>1, <1>4, Written
  <2>2. buf' \in Seq(Cell) /\ Len(buf') = Most(Len(Kept), r + n)
    BY <1>4, <2>1 DEF IsWrite
  <2>3. Len(Kept) \in Nat /\ Bsiz \in Nat
    BY <1>1, LenProperties, BsizIs
  <2>4. Most(Len(Kept), r + n) <= Bsiz /\ bwst' < Most(Len(Kept), r + n)
    BY <1>1, <2>3 DEF Most
  <2> QED BY <2>2, <2>4
<1>6. WriteBufferInBounds'
  BY <1>1, <1>5 DEF WriteBufferInBounds, blen
<1>7. CASE n = Len(op.cells)
  <2>1. npos' \in Nat /\ lpos' \in Nat /\ fsiz' \in Nat
    BY <1>2, <1>3, <1>7 DEF PutDone, Most
  <2>2. /\ op' = Idle /\ Idle \in [kind : OpKind, cells : Seq(Cell), at : Nat] /\ Idle.kind = "idle"
    BY <1>3, <1>7, CallIs DEF BufferInv
  <2>3. CallShape'
    BY <2>2 DEF CallShape, Putting
  <2>4. BufferTypes'
    BY <1>1, <1>2, <1>5, <2>1, <2>2 DEF BufferInv, BufferTypes
  <2> QED BY <1>6, <2>3, <2>4 DEF BufferInv
<1>8. CASE n # Len(op.cells)
  <2>1. /\ op' = [kind |-> op.kind, cells |-> rest, at |-> op.at + n] /\ Len(rest) >= 1
        /\ npos' = npos /\ lpos' = lpos /\ fsiz' = fsiz
    BY <1>3, <1>8
  <2>2. op' \in [kind : OpKind, cells : Seq(Cell), at : Nat] /\ op'.kind = op.kind /\ op'.cells = rest
    <3>1. op.at + n \in Nat
      BY <1>1, <1>2
    <3> QED BY <1>2, <1>3, <2>1, <3>1
  <2>3. CallShape'
    <3>1. op.kind \in {"put", "parput"}
      BY DEF RioPutChunk, Putting
    <3> QED BY <2>1, <2>2, <3>1 DEF CallShape
  <2>4. BufferTypes'
    BY <1>1, <1>2, <1>5, <2>1, <2>2 DEF BufferInv, BufferTypes
  <2> QED BY <1>6, <2>3, <2>4 DEF BufferInv
<1> QED BY <1>7, <1>8
(***************************************************************************)
(* The other steps of a call.                                              *)
(***************************************************************************)
LEMMA FlushTyped ==
  ASSUME BufferInv, RioXwb \/ RioXwbFails
  PROVE  BufferInv'
<1>1. /\ file \in Seq(Cell) /\ npos \in Nat /\ lpos \in Nat /\ fsiz \in Nat /\ failures \in Nat
      /\ bpos \in Nat /\ blen \in Nat /\ Behind \in Seq(Cell)
  BY BehindType, LenProperties DEF BufferInv, BufferTypes, blen
<1>2. CASE RioXwb
  <2>1. /\ Invalidate /\ file' = Behind /\ fsiz' = Most(fsiz, bpos + blen)
        /\ UNCHANGED <<choice, positions, op, answer, failures>>
    BY <1>2 DEF RioXwb
  <2>2. fsiz' \in Nat
    BY <1>1, <2>1 DEF Most
  <2> QED BY <1>1, <2>1, <2>2, InvalidTyped DEF positions
<1>3. CASE RioXwbFails
  <2>1. Fail /\ Invalidate /\ UNCHANGED <<file, positions, fsiz>> /\ (op' = op \/ op' = Idle)
    BY <1>3 DEF RioXwbFails, Return
  <2>2. failures' \in Nat /\ UNCHANGED choice
    BY <1>1, <2>1 DEF Fail
  <2> QED BY <1>1, <2>1, <2>2, InvalidTyped DEF positions
<1> QED BY <1>2, <1>3

LEMMA AtIs ==
  ASSUME BufferInv, Reading
  PROVE  At \in Nat
<1>1. /\ npos \in Nat /\ lpos \in Nat /\ Len(op.cells) \in Nat /\ PrevCells(lpos) \in Nat
      /\ PrevCells(lpos) <= lpos
  <2>1. lpos \in Nat /\ Slot \in Nat
    BY SlotSize DEF BufferInv, BufferTypes
  <2>2. PrevCells(lpos) \in Nat /\ PrevCells(lpos) <= lpos
    BY <2>1 DEF PrevCells, Back, Verify
  <2> QED BY <2>1, <2>2, CallIs DEF BufferInv, BufferTypes
<1>2. CASE op.kind = "get"
  BY <1>1, <1>2 DEF At
<1>3. CASE op.kind = "prev" /\ lpos > 0
  <2>1. Len(op.cells) < lpos /\ At = lpos - Len(op.cells) - 1
    BY <1>1, <1>3 DEF BufferInv, CallShape, At
  <2> QED BY <1>1, <2>1
<1> QED BY <1>2, <1>3 DEF Reading

LEMMA FillTyped ==
  ASSUME BufferInv, RioXgbReads \/ RioXgbRefused \/ RioXgbFails
  PROVE  BufferInv'
<1>1. /\ file \in Seq(Cell) /\ npos \in Nat /\ lpos \in Nat /\ fsiz \in Nat /\ failures \in Nat
      /\ bflg \in {0, 1, 2} /\ buf \in Seq(Cell) /\ op \in [kind : OpKind, cells : Seq(Cell), at : Nat]
  BY DEF BufferInv, BufferTypes
<1>2. Fill /\ file' = file /\ fsiz' = fsiz /\ bwst' = bwst
  BY DEF RioXgbReads, RioXgbRefused, RioXgbFails
<1>3. bpos' \in Nat /\ bflg \in {0, 1} /\ Reading
  BY <1>1, <1>2, AtIs, BlockOf DEF Fill
<1>4. CASE RioXgbReads
  <2>1. /\ buf' = ReadAt(file, bpos', Bsiz) /\ bflg' = 1
        /\ UNCHANGED <<choice, positions, op, failures>>
    BY <1>4 DEF RioXgbReads
  <2>2. buf' \in Seq(Cell)
    BY <1>1, <1>3, <2>1, BsizIs, ReadAtIs
  <2>3. CallShape'
    BY <2>1 DEF BufferInv, CallShape, Putting, positions
  <2> QED BY <1>1, <1>2, <1>3, <2>1, <2>2, <2>3, KeptTyped DEF positions
<1>5. CASE RioXgbRefused \/ RioXgbFails
  <2>1. Fail /\ ReadError /\ bflg' = bflg /\ (buf' = buf \/ buf' = <<>>)
    BY <1>5 DEF RioXgbRefused, RioXgbFails
  <2>2. npos' \in Nat /\ lpos' \in Nat /\ op' = Idle
    BY <1>3, <2>1, ReadErrorTyped
  <2>3. Idle \in [kind : OpKind, cells : Seq(Cell), at : Nat] /\ Idle.kind = "idle"
    BY CallIs DEF BufferInv
  <2>4. CallShape'
    BY <2>2, <2>3 DEF CallShape, Putting
  <2>5. failures' \in Nat /\ UNCHANGED choice /\ buf' \in Seq(Cell)
    <3>1. failures' \in Nat /\ UNCHANGED choice
      BY <1>1, <2>1 DEF Fail
    <3>2. <<>> \in Seq(Cell)
      OBVIOUS
    <3> QED BY <1>1, <2>1, <3>1, <3>2
  <2> QED BY <1>1, <1>2, <1>3, <2>1, <2>2, <2>3, <2>4, <2>5, KeptTyped
<1> QED BY <1>4, <1>5

\* The end of the other calls.
LEMMA DirectTyped ==
  ASSUME BufferInv, \/ RioPrevAtBegin \/ RioDelete \/ DirectFails \/ SetPosDone \/ RioEofPos
                    \/ RioWeof \/ RioFlush \/ RioReopen \/ RioOpenRefused
  PROVE  BufferInv'
<1>1. /\ file \in Seq(Cell) /\ npos \in Nat /\ lpos \in Nat /\ fsiz \in Nat /\ failures \in Nat
      /\ buf \in Seq(Cell) /\ op \in [kind : OpKind, cells : Seq(Cell), at : Nat]
      /\ op.at \in Nat /\ Len(file) \in Nat
  BY LenProperties DEF BufferInv, BufferTypes
<1>2. /\ Idle \in [kind : OpKind, cells : Seq(Cell), at : Nat] /\ Idle.kind = "idle"
      /\ [Idle EXCEPT !.kind = "closed"] \in [kind : OpKind, cells : Seq(Cell), at : Nat]
      /\ [Idle EXCEPT !.kind = "closed"].kind = "closed"
  BY CallIs DEF BufferInv, Idle, OpKind
<1>3. op' = Idle \/ op' = [Idle EXCEPT !.kind = "closed"] => CallShape'
  BY <1>2 DEF CallShape, Putting
<1>4. CASE RioPrevAtBegin
  <2>1. npos' = 0 /\ op' = Idle /\ UNCHANGED <<choice, file, lpos, fsiz, buffer, failures>>
    BY <1>4 DEF RioPrevAtBegin, Return
  <2> QED BY <1>1, <1>2, <1>3, <2>1, KeptTyped DEF buffer
<1>5. CASE RioDelete
  <2>1. /\ Invalidate /\ op' = Idle /\ \E stale \in BOOLEAN : file' = DeleteAt(file, npos, stale)
        /\ UNCHANGED <<choice, positions, fsiz, failures>>
    BY <1>5 DEF RioDelete, DeleteRecord, Direct, Return
  <2>2. file' \in Seq(Cell)
    <3>1. [i \in 1 .. Slot |-> DEL] \in Seq(Cell)
      BY SlotSize, Marks
    <3> QED BY <1>1, <2>1, <3>1, WriteAtIs DEF DeleteAt
  <2> QED BY <1>1, <2>1, <2>2, InvalidTyped DEF positions
<1>6. CASE DirectFails
  <2>1. Fail /\ op' = Idle /\ Invalidate /\ UNCHANGED <<file, positions, fsiz>>
    BY <1>6 DEF DirectFails, Return
  <2> QED BY <1>1, <2>1, InvalidTyped DEF positions, Fail
<1>7. CASE SetPosDone
  <2>1. /\ op' = Idle /\ npos' = op.at /\ lpos' = op.at /\ (Invalidate \/ UNCHANGED buffer)
        /\ UNCHANGED <<choice, file, fsiz, failures>>
    BY <1>7 DEF SetPosDone, Direct, Return
  <2>2. CASE Invalidate
    BY <1>1, <2>1, <2>2, InvalidTyped
  <2>3. CASE UNCHANGED buffer
    BY <1>1, <1>2, <1>3, <2>1, <2>3, KeptTyped DEF buffer
  <2> QED BY <2>1, <2>2, <2>3
<1>8. CASE RioEofPos
  <2>1. op' = Idle /\ fsiz' = Len(file) /\ UNCHANGED <<choice, file, positions, buffer, failures>>
    BY <1>8 DEF RioEofPos, Direct, Return
  <2> QED BY <1>1, <1>2, <1>3, <2>1, KeptTyped DEF positions, buffer
<1>9. CASE RioWeof
  <2>1. /\ Invalidate /\ op' = Idle /\ file' = Append(ReadAt(file, 0, npos), EOFC)
        /\ fsiz' = npos + 1 /\ lpos' = npos /\ UNCHANGED <<choice, npos, failures>>
    BY <1>9 DEF RioWeof, Direct, Return
  <2>2. file' \in Seq(Cell)
    BY <1>1, <2>1, ReadAtIs, Marks, AppendProperties
  <2> QED BY <1>1, <2>1, <2>2, InvalidTyped
<1>10. CASE RioFlush
  BY <1>1, <1>10, InvalidTyped DEF RioFlush, Direct, Return, positions
<1>11. CASE RioReopen
  <2>1. /\ Invalidate /\ op' = Idle /\ npos' = 0 /\ lpos' = 0 /\ fsiz' = Len(file)
        /\ UNCHANGED <<choice, file, failures>>
    BY <1>11 DEF RioReopen, Direct, Return
  <2> QED BY <1>1, <2>1, InvalidTyped
<1>12. CASE RioOpenRefused
  <2>1. /\ op' = [Idle EXCEPT !.kind = "closed"]
        /\ UNCHANGED <<choice, file, positions, fsiz, buffer, failures>>
    BY <1>12 DEF RioOpenRefused
  <2> QED BY <1>1, <1>2, <1>3, <2>1, KeptTyped DEF positions, buffer
<1> QED BY <1>4, <1>5, <1>6, <1>7, <1>8, <1>9, <1>10, <1>11, <1>12

LEMMA InitTyped == BufferInit => BufferInv
<1> SUFFICES ASSUME BufferInit PROVE BufferInv
  OBVIOUS
<1>1. <<EOFC>> \in Seq(Cell) /\ <<>> \in Seq(Cell)
  BY Marks
<1>2. Idle \in [kind : OpKind, cells : Seq(Cell), at : Nat] /\ Idle.kind = "idle"
  BY DEF Idle, OpKind
<1>3. BufferTypes
  BY <1>1, <1>2 DEF BufferInit, BufferTypes
<1>4. CallShape /\ WriteBufferInBounds
  BY <1>2 DEF BufferInit, CallShape, Putting, WriteBufferInBounds
<1> QED BY <1>3, <1>4 DEF BufferInv

LEMMA NextTyped == BufferInv /\ [BufferNext]_bvars => BufferInv'
<1> SUFFICES ASSUME BufferInv, [BufferNext]_bvars PROVE BufferInv'
  OBVIOUS
<1>1. CASE RioPut \/ RioParPut \/ RioSetPos \/ RioClose \/ RioCall
  BY <1>1, NewCallTyped
<1>2. CASE Step
  BY <1>2, FlushTyped, FillTyped, GetTyped, PrevTyped, PutTyped, DirectTyped DEF Step
<1>3. CASE Fault
  BY <1>3, FlushTyped, FillTyped, DirectTyped DEF Fault
<1>4. CASE UNCHANGED bvars
  BY <1>4 DEF bvars, BufferInv, BufferTypes, CallShape, Putting, WriteBufferInBounds, blen
<1> QED BY <1>1, <1>2, <1>3, <1>4 DEF BufferNext

LEMMA AlwaysTyped == BufferSpec => []BufferInv
BY InitTyped, NextTyped, PTL DEF BufferSpec

\* The cells to write are within the memory of the buffer and not empty: a put
\* that passes the end of the buffer goes on in the next one (rio.c 1355-1391).
THEOREM WriteBufferFits == BufferSpec => []WriteBufferInBounds
<1>1. BufferInv => WriteBufferInBounds
  BY DEF BufferInv
<1> QED BY <1>1, AlwaysTyped, PTL
(***************************************************************************)
(* The file that the program sees: what is in the file, the write buffer   *)
(* and the rest of a put.                                                  *)
(***************************************************************************)
LEMMA NothingToWrite ==
  ASSUME ~ MustFlush, op.kind \in {"get", "prev", "delete", "eofpos", "weof", "flush", "close"}
  PROVE  bflg # 2
<1>1. op # Idle /\ op.kind \notin {"put", "parput", "setpos"}
  BY DEF Idle
<1> QED BY <1>1 DEF MustFlush

\* A chunk of a put is behind the file as soon as it is in the buffer.
LEMMA ChunkBehind ==
  ASSUME BufferInv, RioPutChunk
  PROVE  Behind' = WriteAt(Behind, op.at, SubSeq(op.cells, 1, Fits))
<1> DEFINE r == op.at - bpos'
           n == Fits
           first == SubSeq(op.cells, 1, n)
           w == bwst'
           x == SubSeq(Kept, w + 1, Len(Kept))
           q == bpos' + w
           o == r - w
<1>1. /\ bpos' \in Nat /\ w \in Nat /\ r \in Nat /\ op.at = bpos' + r
      /\ Kept \in Seq(Cell) /\ w <= r /\ r <= Len(Kept)
      /\ bflg = 2 => bpos' = bpos /\ bwst' = bwst /\ Kept = buf
      /\ bflg # 2 => r = w /\ Len(Kept) = r
      /\ n \in Nat /\ n <= Len(op.cells)
      /\ buf' = WriteAt(Kept, r, first)
  BY PutPlace
<1>2. /\ file' = file /\ file \in Seq(Cell) /\ op.cells \in Seq(Cell) /\ bflg' = 2
      /\ Len(Kept) \in Nat /\ op.at \in Nat
  BY <1>1, CallIs, LenProperties DEF RioPutChunk, BufferInv, BufferTypes
<1>3. first \in Seq(Cell) /\ Len(first) = n
  <2> HIDE DEF n
  <2> QED BY <1>1, <1>2, FirstCells
<1>4. o \in Nat /\ q \in Nat /\ q + o = op.at /\ w <= Len(Kept) /\ Len(Kept) <= Len(Kept)
  <2>5. bpos' + bwst' \in Nat
    <3>1. \A a, b \in Nat : a + b \in Nat
      OBVIOUS
    <3>2. bpos' \in Nat /\ bwst' \in Nat
      BY <1>1
    <3> QED BY <3>1, <3>2
  <2> HIDE DEF r, w
  <2>1. \A a, b, c, d \in Nat : a = b + d /\ c <= d => d - c \in Nat /\ (b + c) + (d - c) = a
    OBVIOUS
  <2>2. op.at \in Nat /\ bpos' \in Nat /\ w \in Nat /\ r \in Nat /\ op.at = bpos' + r /\ w <= r
    BY <1>1, <1>2
  <2>3. r - w \in Nat /\ (bpos' + w) + (r - w) = op.at
    BY <2>1, <2>2
  <2>4. w <= Len(Kept) /\ Len(Kept) <= Len(Kept)
    BY <1>1, <1>2
  <2> QED BY <2>3, <2>4, <2>5 DEF r, w
<1> HIDE DEF first
<1>5. Behind' = WriteAt(file, q, SubSeq(buf', w + 1, Len(buf')))
  BY <1>2 DEF Behind, blen
<1>6. SubSeq(buf', w + 1, Len(buf')) = WriteAt(x, o, first)
  <2>1. SubSeq(WriteAt(Kept, r, first), w + 1, Len(WriteAt(Kept, r, first)))
          = WriteAt(SubSeq(Kept, w + 1, Len(Kept)), r - w, first)
    <3> HIDE DEF r, w
    <3> QED BY <1>1, <1>3, TailOfWrite, SMTT(30)
  <2> QED BY <1>1, <2>1
<1>7. x \in Seq(Cell) /\ Len(x) = Len(Kept) - w
  <2> HIDE DEF w
  <2> QED BY <1>1, <1>2, <1>4, PartIs
<1>8. CASE bflg = 2
  <2>1. Behind = WriteAt(file, q, x)
    BY <1>1, <1>8 DEF Behind, blen
  <2>2. o \in 0 .. Len(x)
    <3>1. \A a, b, c \in Nat : b <= a /\ a <= c => a - b \in 0 .. c - b
      OBVIOUS
    <3> HIDE DEF x
    <3> QED BY <1>1, <1>2, <1>7, <3>1
  <2> HIDE DEF x, q, o
  <2>3. WriteAt(file, q, WriteAt(x, o, first)) = WriteAt(WriteAt(file, q, x), q + o, first)
    BY <1>2, <1>3, <1>4, <1>7, <2>2, WriteNested
  <2> QED BY <1>4, <1>5, <1>6, <2>1, <2>3 DEF first
<1>9. CASE bflg # 2
  <2>1. r = w /\ Len(Kept) = w
    BY <1>1, <1>9
  <2>2. o = 0 /\ q = op.at /\ Len(x) = 0
    <3>1. \A a \in Nat : a - a = 0
      OBVIOUS
    <3>2. o = 0 /\ q = op.at
      BY <1>1, <2>1, <3>1
    <3> HIDE DEF x
    <3> QED BY <1>1, <1>7, <2>1, <3>1, <3>2
  <2> HIDE DEF x, q, o
  <2>3. x = <<>>
    BY <1>7, <2>2, EmptySeq
  <2>4. WriteAt(x, o, first) = first
    BY <1>3, <2>2, <2>3, WriteOnEmpty
  <2>5. Behind = file
    BY <1>9 DEF Behind
  <2> QED BY <1>5, <1>6, <2>2, <2>4, <2>5 DEF first
<1> QED BY <1>8, <1>9

LEMMA PutKeepsLogical ==
  ASSUME BufferInv, RioPutChunk
  PROVE  Logical' = Logical
<1> DEFINE n == Fits
           first == SubSeq(op.cells, 1, n)
           rest == SubSeq(op.cells, n + 1, Len(op.cells))
<1>1. Behind \in Seq(Cell) /\ op.cells \in Seq(Cell) /\ op.at \in Nat /\ Len(op.cells) \in Nat
  BY BehindType, CallIs DEF BufferInv
<1>2. n \in Nat /\ n <= Len(op.cells)
  BY PutPlace
<1>3. first \in Seq(Cell) /\ Len(first) = n /\ \A i \in 1 .. n : first[i] = op.cells[i]
  <2> HIDE DEF n
  <2> QED BY <1>1, <1>2, FirstCells
<1>4. Behind' = WriteAt(Behind, op.at, first)
  BY ChunkBehind
<1>5. Logical = WriteAt(Behind, op.at, op.cells)
  BY DEF Logical, RioPutChunk
<1>6. /\ rest \in Seq(Cell) /\ Len(rest) = Len(op.cells) - n
      /\ \A i \in 1 .. Len(op.cells) - n : rest[i] = op.cells[n + i]
      /\ n = Len(op.cells) => op' = Idle
      /\ n # Len(op.cells) => op' = [kind |-> op.kind, cells |-> rest, at |-> op.at + n]
  BY PutLeft
<1> HIDE DEF first, rest, n
<1>7. CASE n = Len(op.cells)
  <2>1. first = op.cells
    BY <1>1, <1>3, <1>7, SeqEqual
  <2>2. ~ Putting'
    BY <1>6, <1>7 DEF Putting, Idle
  <2>3. Logical' = Behind'
    BY <2>2 DEF Logical
  <2> QED BY <1>4, <1>5, <2>1, <2>3
<1>8. CASE n # Len(op.cells)
  <2>1. op'.at = op.at + n /\ op'.cells = rest /\ op'.kind = op.kind
    BY <1>6, <1>8
  <2>2. Putting'
    BY <2>1 DEF Putting, RioPutChunk
  <2>3. Logical' = WriteAt(Behind', op'.at, op'.cells)
    BY <2>2 DEF Logical
  <2>4. Logical' = WriteAt(WriteAt(Behind, op.at, first), op.at + Len(first), rest)
    BY <1>3, <1>4, <2>1, <2>3
  <2>5. Len(op.cells) = Len(first) + Len(rest)
    <3>1. \A a, b \in Nat : b <= a => a = b + (a - b)
      OBVIOUS
    <3> QED BY <1>1, <1>2, <1>3, <1>6, <3>1
  <2>6. WriteAt(WriteAt(Behind, op.at, first), op.at + Len(first), rest) = WriteAt(Behind, op.at, op.cells)
    <3>1. \A i \in 1 .. Len(first) : op.cells[i] = first[i]
      BY <1>3
    <3>2. \A i \in 1 .. Len(rest) : op.cells[Len(first) + i] = rest[i]
      BY <1>3, <1>6
    <3>3. /\ Behind \in Seq(Cell) /\ op.at \in Nat /\ first \in Seq(Cell) /\ rest \in Seq(Cell)
          /\ op.cells \in Seq(Cell)
      BY <1>1, <1>3, <1>6
    <3>4. IsJoin(op.cells, first, rest)
      BY <2>5, <3>1, <3>2 DEF IsJoin
    <3> QED BY <3>3, <3>4, WriteTwice
  <2> QED BY <1>5, <2>4, <2>6
<1> QED BY <1>7, <1>8

\* A step of a get, a prev, or of a call that only moves the position, and a
\* flush, keep the file that the program sees.
LEMMA BehindKept ==
  ASSUME BufferInv, \/ RioXgbReads \/ RioXgbRefused \/ RioXgbFails \/ RioGetTakes \/ RioPrevTakes
                    \/ RioPrevAtBegin \/ SetPosDone \/ RioEofPos \/ RioFlush \/ RioReopen
                    \/ RioOpenRefused
  PROVE  ~ Putting /\ ~ Putting' /\ Behind' = Behind
<1>1. Idle.kind = "idle" /\ [Idle EXCEPT !.kind = "closed"].kind = "closed"
      /\ op \in [kind : OpKind, cells : Seq(Cell), at : Nat]
  BY DEF Idle, BufferInv, BufferTypes
<1>2. CASE RioXgbReads \/ RioXgbRefused \/ RioXgbFails
  <2>1. Fill /\ file' = file /\ bflg' \in {1, bflg} /\ op' \in {op, Idle}
    BY <1>2 DEF RioXgbReads, RioXgbRefused, RioXgbFails, ReadError, Return
  <2>2. bflg # 2 /\ bflg' # 2 /\ op.kind \in {"get", "prev"}
    BY <2>1 DEF Fill, Reading
  <2> QED BY <1>1, <2>1, <2>2 DEF Behind, Putting
<1>3. CASE RioGetTakes \/ RioPrevTakes
  <2>1. op.kind \in {"get", "prev"} /\ UNCHANGED <<file, buffer>>
    BY <1>3 DEF RioGetTakes, RioPrevTakes
  <2>2. op' = Idle \/ \E c : op' = [op EXCEPT !.cells = c]
    BY <1>3 DEF RioGetTakes, RioPrevTakes, ReadError, Return
  <2>3. op'.kind \in {"idle", op.kind}
    BY <1>1, <2>2
  <2> QED BY <2>1, <2>3 DEF Behind, Putting, buffer, blen
<1>4. CASE RioPrevAtBegin
  BY <1>1, <1>4 DEF RioPrevAtBegin, Return, Behind, Putting, buffer, blen
<1>5. CASE SetPosDone
  <2>1. op' = Idle /\ file' = file /\ op.kind = "setpos"
    BY <1>5 DEF SetPosDone, Direct, Return
  <2>2. CASE bflg = 1
    <3>1. bflg' # 2
      BY <1>5, <2>2 DEF SetPosDone, Invalidate, buffer
    <3> QED BY <1>1, <2>1, <2>2, <3>1 DEF Behind, Putting
  <2>3. CASE bflg # 1
    <3>1. UNCHANGED buffer
      BY <1>5, <2>3 DEF SetPosDone
    <3> QED BY <1>1, <2>1, <3>1 DEF Behind, Putting, buffer, blen
  <2> QED BY <2>2, <2>3
<1>6. CASE RioEofPos \/ RioFlush \/ RioReopen \/ RioOpenRefused
  <2>1. /\ op.kind \in {"eofpos", "flush", "close"} /\ ~ MustFlush /\ file' = file
        /\ op' \in {Idle, [Idle EXCEPT !.kind = "closed"]}
        /\ bflg' \in {0, bflg}
    BY <1>6 DEF RioEofPos, RioFlush, RioReopen, RioOpenRefused, Direct, Return, Invalidate, buffer
  <2>2. bflg # 2 /\ bflg' # 2
    BY <2>1, NothingToWrite
  <2> QED BY <1>1, <2>1, <2>2 DEF Behind, Putting
<1> QED BY <1>2, <1>3, <1>4, <1>5, <1>6

LEMMA LogicalKept ==
  ASSUME BufferInv, Step, op.kind \notin {"delete", "weof"}
  PROVE  Logical' = Logical
<1>1. CASE RioXwb
  <2>1. bflg' = 0 /\ file' = Behind /\ op' = op
    BY <1>1 DEF RioXwb, Invalidate
  <2>2. Behind' = Behind /\ (Putting' <=> Putting)
    BY <2>1 DEF Behind, Putting
  <2> QED BY <2>1, <2>2 DEF Logical
<1>2. CASE RioPutChunk
  BY <1>2, PutKeepsLogical
<1>3. CASE \/ RioXgbReads \/ RioGetTakes \/ RioPrevTakes \/ RioPrevAtBegin \/ SetPosDone
           \/ RioEofPos \/ RioFlush \/ RioReopen \/ RioOpenRefused
  BY <1>3, BehindKept DEF Logical
<1>4. CASE RioDelete \/ RioWeof
  BY <1>4 DEF RioDelete, RioWeof, Direct
<1> QED BY <1>1, <1>2, <1>3, <1>4 DEF Step

LEMMA LossReported ==
  ASSUME BufferInv, [BufferNext]_bvars, Logical' # Logical, ~ Writes
  PROVE  answer'.kind = "error" /\ op'.kind \in {"idle", "close"}
<1>1. CASE RioPut \/ RioParPut \/ RioSetPos \/ RioClose \/ RioCall
  <2>1. op = Idle
    BY <1>1 DEF RioPut, RioParPut, RioSetPos, RioClose, RioCall, Call
  <2> QED BY <2>1 DEF Idle, Writes
<1>2. CASE Step
  BY <1>2, LogicalKept DEF Writes
<1>3. CASE RioXwbFails
  <2>1. answer' = Plain("error") /\ IF op.kind = "close" THEN op' = op ELSE op' = Idle
    BY <1>3 DEF RioXwbFails, Return
  <2> QED BY <2>1, PlainIs DEF Idle
<1>4. CASE RioXgbRefused \/ RioXgbFails
  BY <1>4, BehindKept DEF Logical
<1>5. CASE DirectFails
  BY <1>5 DEF DirectFails, Writes
<1>6. CASE UNCHANGED bvars
  BY <1>6 DEF bvars, Logical, Behind, Putting, blen
<1> QED BY <1>1, <1>2, <1>3, <1>4, <1>5, <1>6 DEF BufferNext, Fault

\* What programs put is lost from the file and the buffer only in a call that
\* answers an error, whichever lock or write fails (rioxwb 1959-1969).
THEOREM LossesAreReported == BufferSpec => LossIsReported
<1>1. BufferInv /\ [BufferNext]_bvars
        => [Logical' # Logical /\ ~ Writes
              => answer'.kind = "error" /\ op'.kind \in {"idle", "close"}]_bvars
  BY LossReported
<1> QED BY <1>1, AlwaysTyped, PTL DEF BufferSpec, LossIsReported
(***************************************************************************)
(* Until the first failure: the read buffer has what is in the file, fsiz  *)
(* counts what is in the buffer, the positions are in the file, and what a *)
(* get or a prev gathered is what is there.                                *)
(***************************************************************************)
\* fsiz with what the rest of a put adds to it.
Reached == IF Putting THEN Most(fsiz, op.at + Len(op.cells)) ELSE fsiz

\* z is n, or one less behind a deleted slot at the end of the m cells of a file.
SizeOf(z, n, m, cells) == z = n \/ (z + 1 = n /\ m = n /\ cells[m] = DEL)
SizeRight == SizeOf(Reached, Len(Logical), Len(file), Behind)

Gathered ==
  /\ op.kind = "get" =>
       /\ npos + Len(op.cells) <= Len(Logical)
       /\ \A i \in 1 .. Len(op.cells) : op.cells[i] = Logical[npos + i]
  /\ op.kind = "prev" =>
       \A i \in 1 .. Len(op.cells) : op.cells[i] = Logical[(lpos - Len(op.cells)) + i]
  /\ op.kind = "setpos" => op.at <= Len(Logical) /\ op.at % Slot = 0

InFile == npos <= Len(Logical) /\ lpos <= Len(Logical)

Sound == Fresh /\ SizeRight /\ InFile /\ Gathered
SoundInv == failures = 0 => Sound

LEMMA LogicalType ==
  ASSUME BufferInv
  PROVE  /\ Logical \in Seq(Cell) /\ Len(Logical) \in Nat /\ Len(Behind) \in Nat
         /\ Len(Behind) <= Len(Logical)
         /\ ~ Putting => Logical = Behind
         /\ Putting => Len(Logical) = Most(Len(Behind), op.at + Len(op.cells))
<1>1. Behind \in Seq(Cell) /\ Len(Behind) \in Nat /\ op.cells \in Seq(Cell) /\ op.at \in Nat
      /\ Len(op.cells) \in Nat
  BY BehindType, CallIs DEF BufferInv
<1>2. CASE Putting
  <2>1. Logical = WriteAt(Behind, op.at, op.cells)
    BY <1>2 DEF Logical
  <2>2. IsWrite(Logical, Behind, op.at, op.cells)
    BY <1>1, <2>1, Written
  <2>3. Logical \in Seq(Cell) /\ Len(Logical) = Most(Len(Behind), op.at + Len(op.cells))
    BY <2>2 DEF IsWrite
  <2>4. Len(Behind) <= Most(Len(Behind), op.at + Len(op.cells))
    BY <1>1 DEF Most
  <2> QED BY <1>1, <1>2, <2>3, <2>4, LenProperties
<1>3. CASE ~ Putting
  <2>1. Logical = Behind
    BY <1>3 DEF Logical
  <2> QED BY <1>1, <1>3, <2>1
<1> QED BY <1>2, <1>3

LogicalShape ==
  /\ Logical \in Seq(Cell) /\ Len(Logical) \in Nat /\ Len(Behind) \in Nat
  /\ Len(Behind) <= Len(Logical)
  /\ ~ Putting => Logical = Behind
  /\ Putting => Len(Logical) = Most(Len(Behind), op.at + Len(op.cells))

LEMMA LogicalShaped == BufferInv => LogicalShape
BY LogicalType DEF LogicalShape

LEMMA LogicalShapedNext == BufferInv' => LogicalShape'
BY LogicalShaped, PTL

\* What is behind the file includes the whole write buffer.
LEMMA BehindLength ==
  ASSUME BufferInv
  PROVE  /\ Len(file) <= Len(Behind)
         /\ bflg = 2 => bpos + blen <= Len(Behind)
<1>1. /\ file \in Seq(Cell) /\ bpos \in Nat /\ bwst \in Nat /\ buf \in Seq(Cell) /\ Len(buf) \in Nat
      /\ Len(file) \in Nat
      /\ bflg = 2 => bwst < Len(buf)
  BY LenProperties DEF BufferInv, BufferTypes, WriteBufferInBounds, blen
<1>2. CASE bflg = 2
  <2> DEFINE x == SubSeq(buf, bwst + 1, Len(buf))
             q == bpos + bwst
  <2>1. bwst <= Len(buf) /\ Len(buf) <= Len(buf) /\ q \in Nat
    BY <1>1, <1>2
  <2>2. x \in Seq(Cell) /\ Len(x) = Len(buf) - bwst
    BY <1>1, <2>1, PartIs
  <2>3. Behind = WriteAt(file, q, x)
    BY <1>2 DEF Behind, blen
  <2> HIDE DEF x
  <2>4. q + Len(x) = bpos + Len(buf)
    <3>1. \A a, b, c \in Nat : b <= c => (a + b) + (c - b) = a + c
      OBVIOUS
    <3> QED BY <1>1, <2>1, <2>2, <3>1
  <2> HIDE DEF q
  <2>5. IsWrite(Behind, file, q, x)
    BY <1>1, <2>1, <2>2, <2>3, Written
  <2>6. Len(Behind) = Most(Len(file), bpos + Len(buf))
    BY <2>4, <2>5 DEF IsWrite
  <2> QED BY <1>1, <2>6 DEF Most, blen
<1>3. CASE bflg # 2
  BY <1>1, <1>3 DEF Behind
<1> QED BY <1>2, <1>3

\* After a call.
LEMMA SoundIdle ==
  ASSUME Fresh', op' = Idle \/ op' = [Idle EXCEPT !.kind = "closed"], 
         SizeOf(fsiz', Len(Logical'), Len(file'), Behind'), InFile'
  PROVE  Sound'
<1>1. op'.kind \in {"idle", "closed"}
  BY DEF Idle
<1>2. SizeRight' /\ Gathered'
  BY <1>1 DEF SizeRight, Reached, Gathered, Putting
<1> QED BY <1>2 DEF Sound

\* At the beginning of a call.
LEMMA SoundCall ==
  ASSUME BufferInv, Sound, RioPut \/ RioParPut \/ RioSetPos \/ RioClose \/ RioCall
  PROVE  Sound'
<1>1. /\ op = Idle /\ UNCHANGED <<file, positions, buffer>>
      /\ npos \in Nat /\ lpos \in Nat /\ fsiz \in Nat
  BY DEF RioPut, RioParPut, RioSetPos, RioClose, RioCall, Call, BufferInv, BufferTypes
<1>2. /\ ~ Putting /\ Logical = Behind /\ SizeOf(fsiz, Len(Behind), Len(file), Behind)
      /\ npos <= Len(Behind) /\ lpos <= Len(Behind)
  <2>1. ~ Putting
    BY <1>1 DEF Putting, Idle
  <2> QED BY <2>1 DEF Logical, Sound, SizeRight, Reached, InFile
<1>3. Behind' = Behind /\ Fresh' /\ npos' = npos /\ lpos' = lpos
  BY <1>1 DEF Behind, Fresh, Sound, buffer, positions, blen
<1>4. BufferInv'
  BY NewCallTyped
<1>5. /\ Len(Behind) \in Nat /\ Len(Logical') \in Nat /\ Len(Behind) <= Len(Logical')
      /\ Putting' => Len(Logical') = Most(Len(Behind), op'.at + Len(op'.cells))
      /\ ~ Putting' => Logical' = Behind
  BY <1>3, <1>4, LogicalShapedNext DEF LogicalShape
<1>6. InFile'
  BY <1>1, <1>2, <1>3, <1>5 DEF InFile
<1>7. CASE RioPut \/ RioParPut
  <2>1. op'.kind \in {"put", "parput"} /\ op'.at = npos
    BY <1>7 DEF RioPut, RioParPut, Call
  <2> DEFINE e == op'.at + Len(op'.cells)
             n == Len(Behind)
             m == Len(file)
             z == fsiz'
  <2>2. /\ e \in Nat /\ n \in Nat /\ m \in Nat /\ m <= n /\ Len(Logical') = Most(n, e) /\ z \in Nat
        /\ Len(file') = m /\ Behind' = Behind /\ Reached' = Most(z, e)
    <3>1. op' \in [kind : OpKind, cells : Seq(Cell), at : Nat] /\ fsiz' \in Nat
      BY <1>4 DEF BufferInv, BufferTypes
    <3>2. op'.at \in Nat /\ Len(op'.cells) \in Nat /\ e \in Nat
      BY <3>1, LenProperties
    <3>3. m \in Nat /\ m <= n
      BY BehindLength, LenProperties DEF BufferInv, BufferTypes
    <3>4. Putting'
      BY <2>1 DEF Putting
    <3> QED BY <1>1, <1>3, <1>5, <3>1, <3>2, <3>3, <3>4 DEF Reached
  <2>3. SizeRight'
    <3>1. fsiz' \in {fsiz, Most(fsiz, m)}
      BY <1>7 DEF RioPut, RioParPut, NewFsiz
    <3>2. SizeOf(fsiz, n, m, Behind) /\ fsiz \in Nat
      BY <1>1, <1>2
    <3> HIDE DEF e, n, m, z
    <3>3. SizeOf(Most(z, e), Most(n, e), m, Behind)
      <4>1. z = fsiz \/ z = Most(fsiz, m)
        BY <3>1 DEF z
      <4> QED BY <2>2, <3>2, <4>1 DEF SizeOf, Most
    <3> QED BY <2>2, <3>3 DEF SizeRight, m
  <2>4. Gathered'
    BY <2>1 DEF Gathered
  <2> QED BY <1>3, <1>6, <2>3, <2>4 DEF Sound
<1>8. CASE RioSetPos \/ RioClose \/ RioCall
  <2>1. /\ op'.kind \notin {"put", "parput"} /\ op'.cells = <<>> /\ fsiz' = fsiz
        /\ op'.kind = "setpos" => op'.at <= Len(Behind) /\ op'.at % Slot = 0
    <3>1. CASE RioSetPos
      <4>1. PICK pos \in 0 .. Len(Behind) : pos % Slot = 0 /\ Call("setpos", <<>>, pos)
        BY <3>1 DEF RioSetPos
      <4> QED BY <1>5, <3>1, <4>1 DEF Call, RioSetPos
    <3>2. CASE RioClose
      BY <3>2 DEF Call, RioClose
    <3>3. CASE RioCall
      BY <3>3 DEF Call, RioCall
    <3> QED BY <1>8, <3>1, <3>2, <3>3
  <2>2. ~ Putting'
    BY <2>1 DEF Putting
  <2>3. Logical' = Behind
    BY <1>5, <2>2
  <2>4. SizeRight'
    BY <1>1, <1>2, <1>3, <2>1, <2>2, <2>3 DEF SizeRight, Reached
  <2>5. Gathered'
    <3>1. Len(<<>>) = 0 /\ npos' + 0 = npos'
      BY <1>1, <1>3
    <3>2. Len(op'.cells) = 0
      BY <2>1, <3>1
    <3>3. \A i \in 1 .. Len(op'.cells) : FALSE
      BY <3>2
    <3> QED BY <1>2, <1>3, <2>1, <2>3, <3>1, <3>2, <3>3 DEF Gathered
  <2> QED BY <1>3, <1>6, <2>4, <2>5 DEF Sound
<1> QED BY <1>7, <1>8
LEMMA SoundFlush ==
  ASSUME BufferInv, Sound, RioXwb
  PROVE  Sound'
<1>1. /\ bflg = 2 /\ bflg' = 0 /\ file' = Behind /\ op' = op /\ npos' = npos /\ lpos' = lpos
      /\ fsiz' = Most(fsiz, bpos + blen)
  BY DEF RioXwb, MustFlush, Invalidate, positions
<1>2. Logical' = Logical /\ (Putting' <=> Putting)
  <2>1. Behind' = Behind /\ (Putting' <=> Putting)
    BY <1>1 DEF Behind, Putting
  <2> QED BY <1>1, <2>1 DEF Logical
<1>3. /\ fsiz \in Nat /\ bpos + blen \in Nat /\ bpos + blen <= Len(Logical) /\ Len(Logical) \in Nat
      /\ op.at + Len(op.cells) \in Nat
  <2>1. fsiz \in Nat /\ bpos \in Nat /\ blen \in Nat /\ op.at \in Nat /\ Len(op.cells) \in Nat
    BY CallIs, LenProperties DEF BufferInv, BufferTypes, blen
  <2>2. bpos + blen <= Len(Behind) /\ Len(Behind) <= Len(Logical) /\ Len(Logical) \in Nat
        /\ Len(Behind) \in Nat
    BY <1>1, BehindLength, LogicalType
  <2> QED BY <2>1, <2>2
<1>4. SizeRight'
  <2> DEFINE y == bpos + blen
             e == op.at + Len(op.cells)
             n == Len(Logical)
             m == Len(file)
             k == Len(Behind)
  <2>1. /\ y \in Nat /\ e \in Nat /\ n \in Nat /\ m \in Nat /\ k \in Nat /\ fsiz \in Nat
        /\ y <= n /\ m <= k /\ k <= n
    BY <1>3, BehindLength, LogicalType, LenProperties DEF BufferInv, BufferTypes
  <2>2. SizeOf(IF Putting THEN Most(fsiz, e) ELSE fsiz, n, m, Behind)
    BY DEF Sound, SizeRight, Reached
  <2>3. SizeRight' <=> SizeOf(IF Putting THEN Most(Most(fsiz, y), e) ELSE Most(fsiz, y), n, k, Behind)
    <3>1. Behind' = Behind
      BY <1>1 DEF Behind
    <3> QED BY <1>1, <1>2, <3>1 DEF SizeRight, Reached
  <2> HIDE DEF y, e, n, m, k
  <2>4. CASE Putting
    <3>1. SizeOf(Most(Most(fsiz, y), e), n, k, Behind)
      BY <2>1, <2>2, <2>4 DEF Most, SizeOf
    <3> QED BY <2>3, <2>4, <3>1
  <2>5. CASE ~ Putting
    <3>1. SizeOf(Most(fsiz, y), n, k, Behind)
      BY <2>1, <2>2, <2>5 DEF Most, SizeOf
    <3> QED BY <2>3, <2>5, <3>1
  <2> QED BY <2>4, <2>5
<1>5. Fresh' /\ InFile' /\ Gathered'
  BY <1>1, <1>2 DEF Sound, Fresh, InFile, Gathered
<1> QED BY <1>4, <1>5 DEF Sound

LEMMA SoundFill ==
  ASSUME BufferInv, Sound, RioXgbReads
  PROVE  Sound'
<1>1. /\ Fill /\ buf' = ReadAt(file, bpos', Bsiz) /\ file' = file /\ fsiz' = fsiz /\ op' = op
      /\ npos' = npos /\ lpos' = lpos
  BY DEF RioXgbReads, positions
<1>2. ~ Putting /\ ~ Putting' /\ Logical' = Logical /\ Behind' = Behind
  BY BehindKept DEF Logical
<1>3. bpos' % Bsiz = 0
  BY <1>1, AtIs, BlockOf DEF Fill
<1>4. Fresh'
  BY <1>1, <1>3 DEF Fresh
<1>5. SizeRight' /\ InFile' /\ Gathered'
  BY <1>1, <1>2 DEF Sound, SizeRight, Reached, InFile, Gathered
<1> QED BY <1>4, <1>5 DEF Sound

\* What is in a sound read buffer.
LEMMA ReadBuffer ==
  ASSUME BufferInv, Sound, Buffered(At), At \in Nat, ~ Putting
  PROVE  /\ Logical = file /\ file \in Seq(Cell) /\ Len(file) \in Nat
         /\ bpos <= At /\ At - bpos \in Nat /\ bpos + (At - bpos) = At
         /\ At >= bpos + blen => Len(file) <= At
         /\ blen \in Nat /\ bpos + blen <= Most(Len(file), bpos)
         /\ \A i \in 1 .. blen : buf[i] = file[bpos + i]
<1>1. /\ file \in Seq(Cell) /\ bpos \in Nat /\ Bsiz \in Nat /\ Bsiz >= 1 /\ Len(file) \in Nat
      /\ bflg = 1 /\ buf = ReadAt(file, bpos, Bsiz) /\ blen = Len(buf)
  BY BsizIs, LenProperties DEF BufferInv, BufferTypes, Buffered, Sound, Fresh, blen
<1>2. bpos <= At /\ At < bpos + Bsiz
  BY <1>1 DEF Buffered
<1>3. At - bpos \in Nat /\ bpos + (At - bpos) = At
  BY <1>1, <1>2
<1>4. /\ buf \in Seq(Cell)
      /\ Len(buf) = IF Len(file) <= bpos THEN 0 ELSE Least(Bsiz, Len(file) - bpos)
      /\ \A i \in 1 .. Len(buf) : buf[i] = file[bpos + i]
  BY <1>1, ReadAtIs
<1>5. Len(buf) \in Nat
  BY <1>4, LenProperties
<1>6. At >= bpos + Len(buf) => Len(file) <= At
  <2>1. CASE Len(file) <= bpos
    BY <1>1, <1>2, <2>1
  <2>2. CASE ~ (Len(file) <= bpos)
    <3>1. Len(buf) = Bsiz \/ Len(buf) = Len(file) - bpos
      BY <1>4, <2>2 DEF Least
    <3>2. CASE Len(buf) = Bsiz
      BY <1>1, <1>2, <3>2
    <3>3. CASE Len(buf) = Len(file) - bpos
      BY <1>1, <1>2, <3>3
    <3> QED BY <3>1, <3>2, <3>3
  <2> QED BY <2>1, <2>2
<1>7. bpos + Len(buf) <= Most(Len(file), bpos)
  <2>1. Len(buf) <= IF Len(file) <= bpos THEN 0 ELSE Len(file) - bpos
    BY <1>1, <1>4 DEF Least
  <2> QED BY <1>1, <1>5, <2>1 DEF Most
<1>8. Logical = file
  BY <1>1 DEF Logical, Behind
<1> QED BY <1>1, <1>2, <1>3, <1>4, <1>5, <1>6, <1>7, <1>8

\* What rioget has after it took a chunk is the begin of what is in the file.
LEMMA GetGathers ==
  ASSUME BufferInv, Sound, RioGetTakes
  PROVE  LET c == op.cells \o Chunk
             C == ReadAt(file, npos, Slot)
         IN /\ Logical = file /\ c \in Seq(Cell) /\ Len(c) \in Nat /\ npos + Len(c) <= Len(file)
            /\ \A i \in 1 .. Len(c) : c[i] = file[npos + i]
            /\ GetDone(c) => GetAnswer(c, npos) = GetAnswer(C, npos) /\ (c = <<>> <=> C = <<>>)
<1> DEFINE c == op.cells \o Chunk
           C == ReadAt(file, npos, Slot)
           p == At - bpos
           n == Slot - Len(op.cells)
           m == Len(op.cells)
<1>1. /\ op.kind = "get" /\ Buffered(At) /\ ~ Putting /\ npos \in Nat /\ bpos \in Nat
      /\ op.cells \in Seq(Cell) /\ m \in Nat /\ m < Slot /\ Slot \in Nat /\ buf \in Seq(Cell)
  BY CallIs, SlotSize DEF RioGetTakes, Putting, BufferInv, BufferTypes, CallShape
<1>2. bpos <= At
  BY <1>1, BsizIs DEF Buffered
<1>3. /\ At = npos + m /\ At \in Nat /\ p \in Nat /\ n \in Nat /\ n >= 1 /\ Chunk = ReadAt(buf, p, n)
  BY <1>1, <1>2, ChunkOfGet
<1>4. /\ Logical = file /\ file \in Seq(Cell) /\ Len(file) \in Nat /\ bpos + p = At
      /\ At >= bpos + blen => Len(file) <= At
      /\ blen \in Nat /\ bpos + blen <= Most(Len(file), bpos)
      /\ \A i \in 1 .. blen : buf[i] = file[bpos + i]
  BY <1>1, <1>3, ReadBuffer
<1>5. npos + m <= Len(file) /\ \A i \in 1 .. m : op.cells[i] = file[npos + i]
  BY <1>1, <1>4 DEF Sound, Gathered
<1>6. m + n = Slot
  BY <1>1
<1> HIDE DEF p, n
<1>7. /\ Chunk \in Seq(Cell)
      /\ Len(Chunk) = IF blen <= p THEN 0 ELSE Least(n, blen - p)
      /\ \A i \in 1 .. Len(Chunk) : Chunk[i] = buf[p + i]
  BY <1>1, <1>3, ReadAtIs DEF blen
<1>8. Len(Chunk) \in Nat /\ Len(Chunk) <= n /\ (p < blen => p + Len(Chunk) <= blen)
      /\ (p < blen => Len(Chunk) >= 1)
  BY <1>3, <1>4, <1>7, LenProperties DEF Least
<1>9. /\ c \in Seq(Cell) /\ Len(c) = m + Len(Chunk)
      /\ \A i \in 1 .. m : c[i] = op.cells[i]
      /\ \A i \in 1 .. Len(Chunk) : c[m + i] = Chunk[i]
  BY <1>1, <1>7, Joined
<1> HIDE DEF c, m
<1>10. npos + Len(c) <= Len(file)
  <2>1. CASE p < blen
    <3>1. At + Len(Chunk) <= bpos + blen
      BY <1>1, <1>3, <1>4, <1>8, <2>1
    <3>2. bpos + blen <= Len(file)
      BY <1>1, <1>3, <1>4, <2>1 DEF Most
    <3> QED BY <1>1, <1>3, <1>4, <1>8, <1>9, <3>1, <3>2
  <2>2. CASE ~ (p < blen)
    <3>1. Len(Chunk) = 0
      BY <1>3, <1>4, <1>7, <2>2
    <3> QED BY <1>1, <1>5, <1>9, <3>1
  <2> QED BY <2>1, <2>2
<1>11. ASSUME NEW i \in 1 .. Len(c) PROVE c[i] = file[npos + i]
  <2>1. CASE i <= m
    BY <1>1, <1>5, <1>9, <2>1
  <2>2. CASE ~ (i <= m)
    <3> DEFINE j == i - m
    <3>1. j \in 1 .. Len(Chunk) /\ m + j = i
      BY <1>1, <1>8, <1>9, <2>2
    <3> HIDE DEF j
    <3>2. p < blen
      BY <1>3, <1>4, <1>7, <1>8, <3>1
    <3>3. p + j \in 1 .. blen /\ bpos + (p + j) = npos + i
      BY <1>1, <1>3, <1>4, <1>8, <3>1, <3>2, SMTT(30)
    <3> QED BY <1>4, <1>7, <1>9, <3>1, <3>3
  <2> QED BY <2>1, <2>2
<1>12. /\ C \in Seq(Cell) /\ Len(C) = IF Len(file) <= npos THEN 0 ELSE Least(Slot, Len(file) - npos)
       /\ \A i \in 1 .. Len(C) : C[i] = file[npos + i]
  BY <1>1, <1>4, ReadAtIs
<1> HIDE DEF C
<1>13. Len(c) \in Nat /\ Len(c) <= Slot /\ Len(C) \in Nat /\ Len(c) <= Len(C) /\ Len(C) <= Slot
  <2>1. Len(c) \in Nat /\ Len(c) <= Slot
    <3>1. \A a, b, d, e \in Nat : a + b = d /\ e <= b => a + e \in Nat /\ a + e <= d
      OBVIOUS
    <3> QED BY <1>1, <1>3, <1>6, <1>8, <1>9, <3>1
  <2>2. Len(C) \in Nat /\ Len(C) <= Slot
    BY <1>1, <1>4, <1>12 DEF Least
  <2>3. Len(c) <= Len(C)
    BY <1>1, <1>4, <1>10, <1>12, <2>1 DEF Least
  <2> QED BY <2>1, <2>2, <2>3
<1>14. Chunk = <<>> => Len(c) = Len(C)
  <2> SUFFICES ASSUME Chunk = <<>> PROVE Len(c) = Len(C)
    OBVIOUS
  <2>1. Len(Chunk) = 0
    BY EmptySeq
  <2>2. ~ (p < blen)
    BY <1>8, <2>1
  <2>3. Len(file) <= npos + m
    BY <1>1, <1>3, <1>4, <2>2
  <2> QED BY <1>1, <1>4, <1>5, <1>9, <1>12, <1>13, <2>1, <2>3 DEF Least
<1>15. GetDone(c) => GetAnswer(c, npos) = GetAnswer(C, npos) /\ (c = <<>> <=> C = <<>>)
  <2>1. \A i \in 1 .. Len(c) : c[i] = C[i]
    BY <1>11, <1>12, <1>13
  <2>2. GetDone(c) => GetEnough(c, npos) \/ Len(c) = Len(C)
    BY <1>14 DEF GetDone
  <2> QED BY <1>1, <1>9, <1>12, <1>13, <2>1, <2>2, GetOfPrefix
<1> QED BY <1>4, <1>9, <1>10, <1>11, <1>13, <1>15 DEF c, C
LEMMA SoundGet ==
  ASSUME BufferInv, Sound, RioGetTakes
  PROVE  Sound'
<1> DEFINE c == op.cells \o Chunk
<1>1. /\ Logical = file /\ c \in Seq(Cell) /\ Len(c) \in Nat /\ npos + Len(c) <= Len(file)
      /\ \A i \in 1 .. Len(c) : c[i] = file[npos + i]
  BY GetGathers
<1>2. ~ Putting /\ ~ Putting' /\ Behind' = Behind
  BY BehindKept
<1>3. /\ UNCHANGED <<file, fsiz, buffer>> /\ op.kind = "get" /\ npos \in Nat /\ lpos \in Nat
      /\ op \in [kind : OpKind, cells : Seq(Cell), at : Nat] /\ Len(file) \in Nat
  BY LenProperties DEF RioGetTakes, BufferInv, BufferTypes
<1>4. /\ Logical' = file /\ lpos <= Len(file) /\ npos <= Len(file)
      /\ SizeOf(fsiz', Len(Logical'), Len(file'), Behind')
  BY <1>1, <1>2, <1>3 DEF Logical, Sound, SizeRight, Reached, InFile
<1>5. Fresh'
  BY <1>3 DEF Sound, Fresh, buffer
<1> HIDE DEF c
<1>6. CASE GetDone(c)
  <2>1. /\ op' = Idle
        /\ IF c = <<>> THEN UNCHANGED positions ELSE GetMoves(GetAnswer(c, npos).step)
    BY <1>6 DEF RioGetTakes, Return, c
  <2>2. GetAnswer(c, npos).step \in Nat /\ GetAnswer(c, npos).step <= Len(c)
    BY <1>1, <1>3, GetStep
  <2>3. npos' <= Len(file) /\ lpos' <= Len(file)
    BY <1>1, <1>3, <1>4, <2>1, <2>2 DEF positions, GetMoves
  <2>4. InFile'
    BY <1>4, <2>3 DEF InFile
  <2> QED BY <1>4, <1>5, <2>1, <2>4, SoundIdle
<1>7. CASE ~ GetDone(c)
  <2>1. op' = [op EXCEPT !.cells = c] /\ npos' = npos /\ lpos' = lpos
    BY <1>7 DEF RioGetTakes, positions, c
  <2>2. op'.kind = "get" /\ op'.cells = c
    BY <1>3, <2>1
  <2>3. InFile' /\ SizeRight'
    BY <1>2, <1>4, <2>1 DEF InFile, SizeRight, Reached
  <2>4. Gathered'
    BY <1>1, <1>4, <2>1, <2>2 DEF Gathered
  <2> QED BY <1>5, <2>3, <2>4 DEF Sound
<1> QED BY <1>6, <1>7

\* What rioprev has after it took a chunk is the end of what is in the file
\* before lpos; it meets no end of the file.
LEMMA PrevGathers ==
  ASSUME BufferInv, Sound, RioPrevTakes
  PROVE  LET c == Chunk \o op.cells
             C == ReadAt(file, lpos - PrevCells(lpos), PrevCells(lpos))
         IN /\ ~ (At >= bpos + blen) /\ Logical = file
            /\ c \in Seq(Cell) /\ Len(c) \in Nat /\ Len(c) <= PrevCells(lpos)
            /\ \A i \in 1 .. Len(c) : c[i] = file[(lpos - Len(c)) + i]
            /\ PrevEnough(c, lpos) => PrevAnswer(c, lpos) = PrevAnswer(C, lpos)
<1> DEFINE c == Chunk \o op.cells
           need == PrevCells(lpos)
           C == ReadAt(file, lpos - need, need)
           m == Len(op.cells)
           k == Len(Chunk)
<1>1. /\ op.kind = "prev" /\ lpos > 0 /\ Buffered(At) /\ ~ Putting /\ lpos \in Nat /\ bpos \in Nat
      /\ op.cells \in Seq(Cell) /\ m \in Nat /\ Reading
  BY CallIs DEF RioPrevTakes, Putting, BufferInv, BufferTypes, Reading
<1>2. At \in Nat /\ need \in Nat /\ need >= 1 /\ need <= lpos
  <2>1. At \in Nat
    BY <1>1, AtIs
  <2> QED BY <1>1, <2>1, SlotSize DEF PrevCells, Back, Verify
<1>3. /\ Logical = file /\ file \in Seq(Cell) /\ Len(file) \in Nat /\ bpos <= At
      /\ At >= bpos + blen => Len(file) <= At
      /\ blen \in Nat
      /\ \A i \in 1 .. blen : buf[i] = file[bpos + i]
  BY <1>1, <1>2, ReadBuffer
<1>4. lpos <= Len(file) /\ \A i \in 1 .. m : op.cells[i] = file[(lpos - m) + i]
  BY <1>1, <1>3 DEF Sound, InFile, Gathered
<1>5. At = lpos - m - 1
  BY <1>1 DEF At
<1>6. ~ (At >= bpos + blen) /\ At < bpos + blen
  <2>1. At < lpos
    BY <1>1, <1>5
  <2>2. ~ (Len(file) <= At)
    BY <1>1, <1>2, <1>3, <1>4, <2>1
  <2>3. ~ (At >= bpos + blen)
    BY <1>3, <2>2
  <2> QED BY <1>1, <1>2, <1>3, <2>3
<1>7. /\ Chunk \in Seq(Cell) /\ k \in Nat /\ k >= 1 /\ k + m <= need /\ At + 1 - k >= bpos
      /\ \A j \in 1 .. k : Chunk[j] = buf[(At + 1 - k - bpos) + j]
  BY <1>1, <1>3, <1>6, ChunkOfPrev
<1>8. /\ c \in Seq(Cell) /\ Len(c) = k + m
      /\ \A i \in 1 .. k : c[i] = Chunk[i]
      /\ \A i \in 1 .. m : c[k + i] = op.cells[i]
  BY <1>1, <1>7, Joined
<1> HIDE DEF c, need, m, k
<1>9. Len(c) \in Nat /\ Len(c) <= need /\ Len(c) >= 1
  BY <1>1, <1>7, <1>8
<1>10. ASSUME NEW i \in 1 .. Len(c) PROVE c[i] = file[(lpos - Len(c)) + i]
  <2>1. CASE i <= k
    <3> DEFINE j == (At + 1 - k - bpos) + i
    <3>1. i \in 1 .. k
      BY <1>7, <1>9, <2>1
    <3>2. j \in 1 .. blen
      <4> DEFINE first == At + 1 - k - bpos
      <4>1. first \in Nat /\ first + k = At + 1 - bpos
        BY <1>1, <1>2, <1>7
      <4>2. At + 1 - bpos \in Nat /\ At + 1 - bpos <= blen
        BY <1>1, <1>2, <1>3, <1>6
      <4>3. i \in Nat /\ 1 <= i /\ i <= k /\ k \in Nat
        BY <1>7, <3>1
      <4> HIDE DEF first
      <4>4. first + i \in Nat /\ 1 <= first + i /\ first + i <= first + k
        BY <4>1, <4>3
      <4>5. first + i <= blen
        BY <1>3, <4>1, <4>2, <4>4
      <4> QED BY <1>3, <4>4, <4>5 DEF first
    <3>3. bpos + j = (lpos - Len(c)) + i
      <4>1. Len(c) = k + m /\ At = lpos - m - 1
        BY <1>5, <1>8
      <4> QED BY <1>1, <1>2, <1>7, <3>1, <4>1
    <3> QED BY <1>3, <1>7, <1>8, <3>1, <3>2, <3>3
  <2>2. CASE ~ (i <= k)
    <3> DEFINE j == i - k
    <3>1. j \in 1 .. m /\ k + j = i
      BY <1>1, <1>7, <1>8, <2>2
    <3>2. (lpos - m) + j = (lpos - Len(c)) + i
      BY <1>1, <1>7, <1>8
    <3> HIDE DEF j
    <3> QED BY <1>4, <1>8, <3>1, <3>2
  <2> QED BY <2>1, <2>2
<1>11. /\ C \in Seq(Cell) /\ Len(C) = need
       /\ \A i \in 1 .. need : C[i] = file[(lpos - need) + i]
  <2> DEFINE p == lpos - need
  <2>1. p \in Nat /\ p + need = lpos
    BY <1>1, <1>2
  <2> HIDE DEF p
  <2>2. /\ ReadAt(file, p, need) \in Seq(Cell)
        /\ Len(ReadAt(file, p, need)) = IF Len(file) <= p THEN 0 ELSE Least(need, Len(file) - p)
        /\ \A i \in 1 .. Len(ReadAt(file, p, need)) : ReadAt(file, p, need)[i] = file[p + i]
    BY <1>2, <1>3, <2>1, ReadAtIs
  <2>3. (IF Len(file) <= p THEN 0 ELSE Least(need, Len(file) - p)) = need
    BY <1>2, <1>3, <1>4, <2>1 DEF Least
  <2> QED BY <2>2, <2>3 DEF p
<1> HIDE DEF C
<1>12. PrevEnough(c, lpos) => PrevAnswer(c, lpos) = PrevAnswer(C, lpos)
  <2>1. ASSUME NEW i \in 0 .. Len(c) - 1 PROVE c[Len(c) - i] = C[Len(C) - i]
    <3>1. /\ Len(c) - i \in 1 .. Len(c) /\ need - i \in 1 .. need
          /\ (lpos - Len(c)) + (Len(c) - i) = lpos - i
          /\ (lpos - need) + (need - i) = lpos - i
      BY <1>1, <1>2, <1>9
    <3>2. c[Len(c) - i] = file[lpos - i]
      BY <1>10, <3>1
    <3>3. C[need - i] = file[lpos - i]
      BY <1>11, <3>1
    <3> QED BY <1>11, <3>2, <3>3
  <2>2. Len(C) = PrevCells(lpos) /\ Len(c) <= Len(C)
    BY <1>9, <1>11 DEF need
  <2> QED BY <1>1, <1>8, <1>11, <2>1, <2>2, PrevOfSuffix
<1> QED BY <1>3, <1>6, <1>8, <1>9, <1>10, <1>12 DEF c, C, need

LEMMA SoundPrev ==
  ASSUME BufferInv, Sound, RioPrevTakes
  PROVE  Sound'
<1> DEFINE c == Chunk \o op.cells
<1>1. /\ ~ (At >= bpos + blen) /\ Logical = file
      /\ c \in Seq(Cell) /\ Len(c) \in Nat /\ Len(c) <= PrevCells(lpos)
      /\ \A i \in 1 .. Len(c) : c[i] = file[(lpos - Len(c)) + i]
  BY PrevGathers
<1>2. ~ Putting /\ ~ Putting' /\ Behind' = Behind
  BY BehindKept
<1>3. /\ UNCHANGED <<file, fsiz, buffer>> /\ op.kind = "prev" /\ lpos > 0 /\ npos \in Nat /\ lpos \in Nat
      /\ op \in [kind : OpKind, cells : Seq(Cell), at : Nat] /\ Len(file) \in Nat
  BY LenProperties DEF RioPrevTakes, BufferInv, BufferTypes
<1>4. /\ Logical' = file /\ lpos <= Len(file) /\ npos <= Len(file)
      /\ SizeOf(fsiz', Len(Logical'), Len(file'), Behind')
  BY <1>1, <1>2, <1>3 DEF Logical, Sound, SizeRight, Reached, InFile
<1>5. Fresh'
  BY <1>3 DEF Sound, Fresh, buffer
<1> HIDE DEF c
<1>6. CASE PrevEnough(c, lpos)
  <2>1. op' = Idle /\ npos' = lpos /\ lpos' = lpos - PrevAnswer(c, lpos).step
    BY <1>1, <1>6 DEF RioPrevTakes, PrevMoves, Return, c
  <2>2. PrevAnswer(c, lpos).step \in 0 .. lpos
    BY <1>1, <1>3, PrevStep
  <2>3. npos' <= Len(file) /\ lpos' <= Len(file)
    BY <1>3, <1>4, <2>1, <2>2
  <2>4. InFile'
    BY <1>4, <2>3 DEF InFile
  <2> QED BY <1>4, <1>5, <2>1, <2>4, SoundIdle
<1>7. CASE ~ PrevEnough(c, lpos)
  <2>1. op' = [op EXCEPT !.cells = c] /\ npos' = npos /\ lpos' = lpos
    BY <1>1, <1>7 DEF RioPrevTakes, positions, c
  <2>2. op'.kind = "prev" /\ op'.cells = c
    BY <1>3, <2>1
  <2>3. InFile' /\ SizeRight'
    BY <1>2, <1>4, <2>1 DEF InFile, SizeRight, Reached
  <2>4. Gathered'
    BY <1>1, <1>4, <2>1, <2>2 DEF Gathered
  <2> QED BY <1>5, <2>3, <2>4 DEF Sound
<1> QED BY <1>6, <1>7
LEMMA SoundPut ==
  ASSUME BufferInv, Sound, RioPutChunk
  PROVE  Sound'
<1> DEFINE e == op.at + Len(op.cells)
           n == Fits
           rest == SubSeq(op.cells, n + 1, Len(op.cells))
<1>1. /\ Putting /\ bflg' = 2 /\ npos \in Nat /\ lpos \in Nat /\ fsiz \in Nat
      /\ op.at \in Nat /\ Len(op.cells) \in Nat /\ op.kind \in {"put", "parput"}
  BY CallIs DEF RioPutChunk, BufferInv, BufferTypes, Putting
<1>2. Logical' = Logical /\ Len(Logical) \in Nat
  BY PutKeepsLogical, LogicalType
<1>3. /\ SizeOf(Most(fsiz, e), Len(Logical), Len(file), Behind)
      /\ npos <= Len(Logical) /\ lpos <= Len(Logical)
  BY <1>1 DEF Sound, SizeRight, Reached, InFile
<1>4. e \in Nat /\ e <= Len(Logical)
  <2>1. e \in Nat
    BY <1>1
  <2> HIDE DEF e
  <2> QED BY <1>1, <1>2, <1>3, <2>1 DEF Most, SizeOf
<1>5. Fresh'
  BY <1>1 DEF Fresh
<1>6. n \in Nat /\ n >= 1 /\ n <= Len(op.cells)
  BY PutPlace
<1>7. /\ Len(rest) = Len(op.cells) - n
      /\ n = Len(op.cells) => PutDone /\ op' = Idle /\ Moves(op.cells) \in Nat
      /\ n # Len(op.cells)
           => /\ op' = [kind |-> op.kind, cells |-> rest, at |-> op.at + n]
              /\ npos' = npos /\ lpos' = lpos /\ fsiz' = fsiz
  BY PutLeft
<1>8. SizeOf(Most(fsiz, e), Len(Logical'), Len(file'), Behind')
  <2> DEFINE first == SubSeq(op.cells, 1, n)
  <2>1. /\ file' = file /\ Len(file) \in Nat /\ Behind \in Seq(Cell) /\ Len(file) <= Len(Behind)
        /\ Len(Behind) \in Nat /\ op.cells \in Seq(Cell)
    BY BehindType, BehindLength, CallIs, LenProperties DEF RioPutChunk, BufferInv, BufferTypes
  <2>2. Behind' = WriteAt(Behind, op.at, first)
    BY ChunkBehind
  <2>3. first \in Seq(Cell) /\ Len(first) = n
    <3> HIDE DEF n
    <3> QED BY <1>6, <2>1, FirstCells
  <2> HIDE DEF first, n
  <2>4. IsWrite(Behind', Behind, op.at, first)
    BY <1>1, <2>1, <2>2, <2>3, Written
  <2>5. ASSUME e < Len(file), Len(file) \in Nat PROVE Behind'[Len(file)] = Behind[Len(file)]
    <3>1. Len(file) \in 1 .. Most(Len(Behind), op.at + n) /\ Len(file) > op.at + n
      BY <1>1, <1>4, <1>6, <2>1, <2>5 DEF Most
    <3> QED BY <1>1, <1>6, <2>1, <2>3, <2>4, <3>1 DEF IsWrite
  <2> HIDE DEF e
  <2> QED BY <1>1, <1>2, <1>3, <1>4, <2>1, <2>5 DEF SizeOf, Most
<1> HIDE DEF n, rest
<1>9. CASE n = Len(op.cells)
  <2>1. /\ op' = Idle /\ lpos' = npos /\ npos' = op.at + Moves(op.cells) /\ fsiz' = Most(fsiz, e)
    BY <1>7, <1>9 DEF PutDone
  <2>2. Moves(op.cells) \in Nat /\ Moves(op.cells) <= Len(op.cells)
    BY <1>1, <1>7, <1>9 DEF Moves
  <2>3. npos' <= e
    BY <1>1, <2>1, <2>2
  <2>4. npos' \in Nat
    BY <1>1, <2>1, <2>2
  <2>5. npos' <= Len(Logical)
    <3> HIDE DEF e
    <3> QED BY <1>2, <1>4, <2>3, <2>4
  <2>6. InFile'
    BY <1>2, <1>3, <2>1, <2>5 DEF InFile
  <2> QED BY <1>5, <1>8, <2>1, <2>6, SoundIdle
<1>10. CASE n # Len(op.cells)
  <2>1. op'.kind = op.kind /\ op'.at = op.at + n /\ op'.cells = rest
        /\ npos' = npos /\ lpos' = lpos /\ fsiz' = fsiz
    BY <1>7, <1>10
  <2>2. op'.at + Len(op'.cells) = e
    <3>1. \A a, b, c \in Nat : b <= c => (a + b) + (c - b) = a + c
      OBVIOUS
    <3> QED BY <1>1, <1>6, <1>7, <2>1, <3>1, SMTT(30)
  <2>3. SizeRight'
    <3>1. Putting'
      BY <1>1, <2>1 DEF Putting
    <3> HIDE DEF e
    <3> QED BY <1>8, <2>1, <2>2, <3>1 DEF SizeRight, Reached
  <2>4. InFile' /\ Gathered'
    BY <1>1, <1>2, <1>3, <2>1 DEF InFile, Gathered
  <2> QED BY <1>5, <2>3, <2>4 DEF Sound
<1> QED BY <1>9, <1>10

\* A record is deleted in its place; data cells that end the file leave it
\* one cell longer.
LEMMA DeleteSize ==
  ASSUME NEW s \in Seq(Cell), NEW pos \in Nat, NEW stale \in BOOLEAN
  PROVE  LET t == DeleteAt(s, pos, stale)
         IN /\ t \in Seq(Cell)
            /\ \/ Len(t) = Len(s) /\ (s[Len(s)] = DEL => t[Len(t)] = DEL)
               \/ Len(t) = Len(s) + 1 /\ s[Len(s)] # DEL /\ t[Len(t)] = DEL
<1> DEFINE c == ReadAt(s, pos, Slot)
           d == [i \in 1 .. Slot |-> DEL]
           t == DeleteAt(s, pos, stale)
<1>1. Slot \in Nat /\ Slot >= 2 /\ RecSize \in Nat /\ RecSize + 1 = Slot /\ Len(s) \in Nat
  BY SlotSize, LenProperties
<1>2. /\ c \in Seq(Cell) /\ Len(c) = IF Len(s) <= pos THEN 0 ELSE Least(Slot, Len(s) - pos)
      /\ \A i \in 1 .. Len(c) : c[i] = s[pos + i]
  BY <1>1, ReadAtIs
<1>3. d \in Seq(Cell) /\ Len(d) = Slot /\ \A i \in 1 .. Slot : d[i] = DEL
  <2>1. d \in [1 .. Slot -> Cell]
    BY Marks
  <2> QED BY <1>1, <2>1, SeqDef, LenProperties
<1>4. /\ ~ Deletes(c, pos, stale) => t = s
      /\ Deletes(c, pos, stale) => t = WriteAt(s, pos, d)
  BY DEF DeleteAt
<1>5. IsWrite(WriteAt(s, pos, d), s, pos, d)
  BY <1>3, Written
<1> HIDE DEF c, d, t
<1>6. CASE ~ Deletes(c, pos, stale)
  BY <1>4, <1>6 DEF t
<1>7. CASE IsRecord(c, pos)
  <2>1. Len(c) = Slot
    BY <1>2, <1>7, GetRecordOnly DEF RecordCells
  <2>2. pos + Slot <= Len(s)
    BY <1>1, <1>2, <2>1 DEF Least
  <2>3. IsWrite(t, s, pos, d)
    BY <1>4, <1>5, <1>7 DEF Deletes
  <2>4. Len(t) = Len(s)
    BY <1>1, <1>3, <2>2, <2>3 DEF IsWrite, Most
  <2>5. s[Len(s)] = DEL => t[Len(t)] = DEL
    <3>1. Len(s) \in 1 .. Most(Len(s), pos + Len(d))
      BY <1>1, <1>3, <2>2 DEF Most
    <3>2. Len(s) \in pos + 1 .. pos + Len(d) => Len(s) - pos \in 1 .. Slot
      BY <1>1, <1>3
    <3> QED BY <1>1, <1>3, <2>3, <2>4, <3>1, <3>2 DEF IsWrite
  <2> QED BY <2>3, <2>4, <2>5 DEF IsWrite, t
<1>8. CASE Deletes(c, pos, stale) /\ ~ IsRecord(c, pos)
  <2>1. Len(c) = RecSize /\ Leading(c, Data) = RecSize
    BY <1>8 DEF Deletes
  <2>2. Len(s) = pos + RecSize
    BY <1>1, <1>2, <2>1 DEF Least
  <2>3. IsWrite(t, s, pos, d)
    BY <1>4, <1>5, <1>8
  <2>4. Len(t) = Len(s) + 1
    BY <1>1, <1>3, <2>2, <2>3 DEF IsWrite, Most
  <2>5. s[Len(s)] # DEL
    <3>1. \A i \in 1 .. RecSize : c[i] \in Data
      BY <1>2, <2>1, LeadingIs
    <3>2. RecSize \in 1 .. RecSize
      BY <1>1
    <3> QED BY <1>2, <2>1, <2>2, <3>1, <3>2, Marks
  <2>6. t[Len(t)] = DEL
    <3>1. /\ Len(t) \in 1 .. Most(Len(s), pos + Len(d)) /\ Len(t) \in pos + 1 .. pos + Len(d)
          /\ Len(t) - pos \in 1 .. Slot
      BY <1>1, <1>3, <2>2, <2>4 DEF Most
    <3> QED BY <1>3, <2>3, <3>1 DEF IsWrite
  <2> QED BY <2>3, <2>4, <2>5, <2>6 DEF IsWrite, t
<1> QED BY <1>6, <1>7, <1>8

LEMMA WeofIs ==
  ASSUME NEW s \in Seq(Cell), NEW pos \in Nat, pos <= Len(s)
  PROVE  /\ Append(ReadAt(s, 0, pos), EOFC) \in Seq(Cell)
         /\ Len(Append(ReadAt(s, 0, pos), EOFC)) = pos + 1
<1> DEFINE c == ReadAt(s, 0, pos)
<1>1. Len(s) \in Nat /\ 0 \in Nat /\ EOFC \in Cell
  BY LenProperties, Marks
<1>2. c \in Seq(Cell) /\ Len(c) = IF Len(s) <= 0 THEN 0 ELSE Least(pos, Len(s) - 0)
  BY <1>1, ReadAtIs
<1> HIDE DEF c
<1>3. Len(c) = pos
  BY <1>1, <1>2 DEF Least
<1>4. Append(c, EOFC) \in Seq(Cell) /\ Len(Append(c, EOFC)) = Len(c) + 1
  BY <1>1, <1>2, AppendProperties
<1> QED BY <1>3, <1>4 DEF c

LEMMA SoundDirect ==
  ASSUME BufferInv, Sound,
         \/ RioPrevAtBegin \/ RioDelete \/ SetPosDone \/ RioEofPos \/ RioWeof \/ RioFlush
         \/ RioReopen \/ RioOpenRefused
  PROVE  Sound'
<1>1. /\ file \in Seq(Cell) /\ npos \in Nat /\ lpos \in Nat /\ Len(file) \in Nat
      /\ Idle.kind = "idle" /\ [Idle EXCEPT !.kind = "closed"].kind = "closed"
  BY LenProperties DEF BufferInv, BufferTypes, Idle
<1>2. CASE RioDelete \/ RioWeof
  <2>1. /\ op.kind \in {"delete", "weof"} /\ ~ MustFlush /\ Invalidate /\ op' = Idle
    BY <1>2 DEF RioDelete, RioWeof, Direct, Return
  <2>2. bflg # 2 /\ bflg' = 0
    BY <2>1, NothingToWrite DEF Invalidate
  <2>3. ~ Putting /\ ~ Putting' /\ Logical = file /\ Logical' = file' /\ Fresh'
    BY <1>1, <2>1, <2>2 DEF Putting, Logical, Behind, Fresh
  <2>4. /\ SizeOf(fsiz, Len(file), Len(file), file) /\ npos <= Len(file) /\ lpos <= Len(file)
        /\ Behind' = file' /\ fsiz \in Nat
    BY <2>2, <2>3 DEF Sound, SizeRight, Reached, InFile, Behind, BufferInv, BufferTypes
  <2>5. CASE RioDelete
    <3>1. PICK stale \in BOOLEAN : file' = DeleteAt(file, npos, stale)
      BY <2>5 DEF RioDelete, DeleteRecord
    <3>2. npos' = npos /\ lpos' = lpos /\ fsiz' = fsiz
      BY <2>5 DEF RioDelete, positions
    <3>3. \/ Len(file') = Len(file) /\ (file[Len(file)] = DEL => file'[Len(file')] = DEL)
          \/ Len(file') = Len(file) + 1 /\ file[Len(file)] # DEL /\ file'[Len(file')] = DEL
      BY <1>1, <3>1, DeleteSize
    <3>4. SizeOf(fsiz', Len(Logical'), Len(file'), Behind')
      BY <1>1, <2>3, <2>4, <3>2, <3>3 DEF SizeOf
    <3>5. InFile'
      BY <1>1, <2>3, <2>4, <3>2, <3>3 DEF InFile
    <3> QED BY <2>1, <2>3, <3>4, <3>5, SoundIdle
  <2>6. CASE RioWeof
    <3>1. file' = Append(ReadAt(file, 0, npos), EOFC) /\ fsiz' = npos + 1 /\ lpos' = npos /\ npos' = npos
      BY <2>6 DEF RioWeof
    <3>2. Len(file') = npos + 1
      BY <1>1, <2>4, <3>1, WeofIs
    <3>3. InFile' /\ SizeOf(fsiz', Len(Logical'), Len(file'), Behind')
      BY <1>1, <2>3, <3>1, <3>2 DEF InFile, SizeOf
    <3> QED BY <2>1, <2>3, <3>3, SoundIdle
  <2> QED BY <1>2, <2>5, <2>6
<1>3. CASE RioPrevAtBegin \/ SetPosDone \/ RioEofPos \/ RioFlush \/ RioReopen \/ RioOpenRefused
  <2>1. ~ Putting /\ ~ Putting' /\ Behind' = Behind
    BY <1>3, BehindKept
  <2>2. /\ Logical = Behind /\ Logical' = Logical /\ Len(Logical) \in Nat
        /\ npos <= Len(Logical) /\ lpos <= Len(Logical)
    BY <2>1, LogicalType DEF Logical, Sound, InFile
  <2>3. file' = file /\ fsiz' = fsiz => SizeOf(fsiz', Len(Logical'), Len(file'), Behind')
    BY <2>1, <2>2 DEF Sound, SizeRight, Reached
  <2>4. CASE RioPrevAtBegin \/ RioFlush \/ RioOpenRefused
    <3>1. /\ file' = file /\ fsiz' = fsiz /\ lpos' = lpos /\ npos' \in {0, npos}
          /\ Invalidate \/ UNCHANGED buffer
          /\ op' = Idle \/ op' = [Idle EXCEPT !.kind = "closed"]
      BY <2>4 DEF RioPrevAtBegin, RioFlush, RioOpenRefused, Direct, Return, positions
    <3>2. Fresh'
      BY <3>1 DEF Sound, Fresh, Invalidate, buffer
    <3>3. InFile' /\ SizeOf(fsiz', Len(Logical'), Len(file'), Behind')
      BY <2>2, <2>3, <3>1 DEF InFile
    <3> QED BY <3>1, <3>2, <3>3, SoundIdle
  <2>5. CASE SetPosDone
    <3>1. /\ file' = file /\ fsiz' = fsiz /\ lpos' = op.at /\ npos' = op.at /\ op' = Idle
          /\ Invalidate \/ UNCHANGED buffer
          /\ op.kind = "setpos"
      BY <2>5 DEF SetPosDone, Direct, Return
    <3>2. Fresh'
      BY <3>1 DEF Sound, Fresh, Invalidate, buffer
    <3>3. op.at <= Len(Logical)
      BY <3>1 DEF Sound, Gathered
    <3>4. InFile' /\ SizeOf(fsiz', Len(Logical'), Len(file'), Behind')
      BY <2>2, <2>3, <3>1, <3>3 DEF InFile
    <3> QED BY <3>1, <3>2, <3>4, SoundIdle
  <2>6. CASE RioEofPos \/ RioReopen
    <3>1. /\ op.kind \in {"eofpos", "close"} /\ ~ MustFlush /\ file' = file /\ fsiz' = Len(file)
          /\ op' = Idle
          /\ Invalidate \/ UNCHANGED buffer
          /\ npos' \in {0, npos} /\ lpos' \in {0, lpos}
      BY <2>6 DEF RioEofPos, RioReopen, Direct, Return, positions
    <3>2. Fresh'
      BY <3>1 DEF Sound, Fresh, Invalidate, buffer
    <3>3. Logical = file
      BY <2>2, <3>1, NothingToWrite DEF Behind
    <3>4. InFile' /\ SizeOf(fsiz', Len(Logical'), Len(file'), Behind')
      BY <2>2, <3>1, <3>3 DEF InFile, SizeOf
    <3> QED BY <3>1, <3>2, <3>4, SoundIdle
  <2> QED BY <1>3, <2>4, <2>5, <2>6
<1> QED BY <1>2, <1>3

LEMMA InitSound == BufferInit => SoundInv
<1> SUFFICES ASSUME BufferInit PROVE SoundInv
  OBVIOUS
<1>1. /\ op = Idle /\ Idle.kind = "idle" /\ bflg = 0 /\ file = <<EOFC>> /\ fsiz = 1
      /\ npos = 0 /\ lpos = 0
  BY DEF BufferInit, Idle
<1>2. ~ Putting /\ Logical = file
  BY <1>1 DEF Putting, Logical, Behind
<1>3. Len(<<EOFC>>) = 1
  OBVIOUS
<1>4. Fresh /\ SizeRight /\ InFile /\ Gathered
  BY <1>1, <1>2, <1>3 DEF Fresh, SizeRight, Reached, SizeOf, InFile, Gathered
<1> QED BY <1>4 DEF SoundInv, Sound

\* Nothing but a failure counts one.
LEMMA NoFault == [BufferNext]_bvars /\ ~ Fault => failures' = failures
BY DEF BufferNext, Step, RioPut, RioParPut, RioSetPos, RioClose, RioCall, Call, RioXwb,
     RioXgbReads, RioGetTakes, RioPrevTakes, RioPrevAtBegin, RioPutChunk, RioDelete, SetPosDone,
     RioEofPos, RioWeof, RioFlush, RioReopen, RioOpenRefused, Direct, bvars

LEMMA NextSound == BufferInv /\ SoundInv /\ [BufferNext]_bvars => SoundInv'
<1> SUFFICES ASSUME BufferInv, SoundInv, [BufferNext]_bvars, failures' = 0 PROVE Sound'
  BY DEF SoundInv
<1>1. failures \in Nat
  BY DEF BufferInv, BufferTypes
<1>2. CASE Fault
  <2>1. failures' = failures + 1
    BY <1>2 DEF Fault, RioXwbFails, RioXgbRefused, RioXgbFails, DirectFails, Fail
  <2> QED BY <1>1, <2>1
<1>3. ~ Fault => failures = 0
  BY NoFault
<1>4. CASE ~ Fault
  <2>1. Sound
    BY <1>3, <1>4 DEF SoundInv
  <2>2. CASE RioPut \/ RioParPut \/ RioSetPos \/ RioClose \/ RioCall
    BY <2>1, <2>2, SoundCall
  <2>3. CASE Step
    BY <2>1, <2>3, SoundFlush, SoundFill, SoundGet, SoundPrev, SoundPut, SoundDirect DEF Step
  <2>4. CASE UNCHANGED bvars
    BY <2>1, <2>4 DEF bvars, Sound, Fresh, SizeRight, Reached, InFile, Gathered, Logical, Behind,
         Putting, blen
  <2> QED BY <1>4, <2>2, <2>3, <2>4 DEF BufferNext
<1> QED BY <1>2, <1>4

LEMMA AlwaysSound == BufferSpec => [](BufferInv /\ SoundInv)
<1>1. BufferInit => BufferInv /\ SoundInv
  BY InitTyped, InitSound
<1>2. BufferInv /\ SoundInv /\ [BufferNext]_bvars => (BufferInv /\ SoundInv)'
  BY NextTyped, NextSound
<1> QED BY <1>1, <1>2, PTL DEF BufferSpec

\* A valid read buffer has what the file has at its position, of which gets
\* are answered without a look at the file (rioxgb 1922-1933).
THEOREM ReadBufferIsFile == BufferSpec => []BufferIsFile
<1>1. BufferInv /\ SoundInv => BufferIsFile
  BY DEF SoundInv, Sound, BufferIsFile
<1> QED BY <1>1, AlwaysSound, PTL

\* fsiz is the size the file has once the buffer is written, which decides
\* whether a put also writes the end mark (rioput 1332-1349).
THEOREM FsizRight == BufferSpec => []FsizIsSize
<1>1. BufferInv /\ SoundInv => FsizIsSize
  <2> SUFFICES ASSUME BufferInv, SoundInv, op = Idle, failures = 0
               PROVE  \/ fsiz = Len(Behind)
                      \/ fsiz + 1 = Len(Behind) /\ Len(file) = Len(Behind) /\ Behind[Len(Behind)] = DEL
    BY DEF FsizIsSize
  <2>1. ~ Putting
    BY DEF Putting, Idle
  <2> QED BY <2>1 DEF SoundInv, Sound, SizeRight, Reached, SizeOf, Logical
<1> QED BY <1>1, AlwaysSound, PTL
(***************************************************************************)
(* The calls without a buffer, on the file that the program sees.  The     *)
(* operators of RecordFormat are the same in the instance.                 *)
(***************************************************************************)
LEMMA SameCells ==
  /\ Unbuffered!EOR = EOR /\ Unbuffered!DEL = DEL /\ Unbuffered!EOFC = EOFC
  /\ Unbuffered!Data = Data /\ Unbuffered!Slot = Slot /\ Unbuffered!NoAnswer = NoAnswer
  /\ \A s, p, n : Unbuffered!ReadAt(s, p, n) = ReadAt(s, p, n)
  /\ \A s, p, c : Unbuffered!WriteAt(s, p, c) = WriteAt(s, p, c)
BY DEF Unbuffered!EOR, EOR, Unbuffered!DEL, DEL, Unbuffered!EOFC, EOFC, Unbuffered!Data, Data,
     Unbuffered!Zero, Zero, Unbuffered!Slot, Slot, Unbuffered!NoAnswer, NoAnswer,
     Unbuffered!ReadAt, ReadAt, Unbuffered!Least, Least, Unbuffered!WriteAt, WriteAt,
     Unbuffered!Most, Most

LEMMA SamePut ==
  /\ \A p : Unbuffered!Puts(p) = Puts(p)
  /\ \A p : Unbuffered!ParPuts(p) = ParPuts(p)
  /\ \A d, p, n : Unbuffered!PutCells(d, p, n) = PutCells(d, p, n)
  /\ \A c : Unbuffered!Moves(c) = Moves(c)
  /\ \A k : Unbuffered!Plain(k) = Plain(k)
  /\ \A n : Unbuffered!Failed(n) = Failed(n)
BY DEF Unbuffered!Puts, Puts, Unbuffered!ParPuts, ParPuts, Unbuffered!PutCells, PutCells,
     Unbuffered!Moves, Moves, Unbuffered!Plain, Plain, Unbuffered!Failed, Failed,
     Unbuffered!Rest, Rest, Unbuffered!Slot, Slot, Unbuffered!EOR, EOR, Unbuffered!EOFC, EOFC,
     Unbuffered!NoAnswer, NoAnswer

LEMMA SameGet ==
  /\ \A c, p : Unbuffered!GetAnswer(c, p) = GetAnswer(c, p)
  /\ \A c, p, x : Unbuffered!DeleteAnswer(c, p, x) = DeleteAnswer(c, p, x)
  /\ \A s, p, x : Unbuffered!DeleteAt(s, p, x) = DeleteAt(s, p, x)
BY DEF Unbuffered!GetAnswer, GetAnswer, Unbuffered!Least, Least, Unbuffered!Leading, Leading,
     Unbuffered!DEL, DEL, Unbuffered!EOFC, EOFC, Unbuffered!EOR, EOR, Unbuffered!Data, Data,
     Unbuffered!Zero, Zero, Unbuffered!Slot, Slot, Unbuffered!Rest, Rest, Unbuffered!Plain, Plain,
     Unbuffered!Failed, Failed, Unbuffered!NoAnswer, NoAnswer, Unbuffered!Min, Min,
     Unbuffered!DeleteAnswer, DeleteAnswer, Unbuffered!IsRecord, IsRecord,
     Unbuffered!Deletes, Deletes, Unbuffered!DeleteAt, DeleteAt, Unbuffered!ReadAt, ReadAt, Unbuffered!WriteAt, WriteAt,
     Unbuffered!Most, Most

LEMMA SamePrev ==
  /\ \A p : Unbuffered!PrevCells(p) = PrevCells(p)
  /\ \A c, p : Unbuffered!PrevAnswer(c, p) = PrevAnswer(c, p)
BY DEF Unbuffered!PrevCells, PrevCells, Unbuffered!Back, Back, Unbuffered!Verify, Verify,
     Unbuffered!PrevAnswer, PrevAnswer, Unbuffered!PrevDeleted, PrevDeleted,
     Unbuffered!PrevData, PrevData, Unbuffered!BackDels, BackDels, Unbuffered!Trailing, Trailing,
     Unbuffered!Min, Min, Unbuffered!Least, Least, Unbuffered!DEL, DEL, Unbuffered!EOR, EOR,
     Unbuffered!Data, Data, Unbuffered!Zero, Zero, Unbuffered!Slot, Slot,
     Unbuffered!Plain, Plain, Unbuffered!Failed, Failed, Unbuffered!NoAnswer, NoAnswer
\* The positions that the program sees: a put has moved them when it is called.
Npos == IF Putting THEN op.at + Moves(op.cells) ELSE npos
Lpos == IF Putting THEN npos ELSE lpos

LEMMA Stutters ==
  ASSUME Logical' = Logical, Npos' = Npos, Lpos' = Lpos, parts' = parts, answer' = answer
  PROVE  UNCHANGED Unbuffered!rvars
BY DEF Unbuffered!rvars, Npos, Lpos

\* A call that puts cells is a put of all of them.
LEMMA PutSeen ==
  ASSUME NEW kind \in {"put", "parput"}, NEW cells, Call(kind, cells, npos),
         UNCHANGED <<file, positions, buffer, answer>>
  PROVE  Unbuffered!Put(cells)
<1>1. /\ op = Idle /\ op' = [kind |-> kind, cells |-> cells, at |-> npos] /\ parts' = parts
      /\ file' = file /\ npos' = npos /\ answer' = answer /\ UNCHANGED buffer
  BY DEF Call, choice, positions
<1>2. ~ Putting /\ Putting'
  BY <1>1 DEF Putting, Idle
<1>3. Behind' = Behind
  BY <1>1 DEF Behind, buffer, blen
<1>4. Logical = Behind /\ Logical' = WriteAt(Behind, npos, cells)
  BY <1>1, <1>2, <1>3 DEF Logical
<1>5. op'.at = npos /\ op'.cells = cells
  BY <1>1
<1>6. /\ Npos = npos /\ Npos' = npos + Moves(cells) /\ Lpos' = npos
  BY <1>1, <1>2, <1>5 DEF Npos, Lpos
<1>7. Logical' = Unbuffered!WriteAt(Logical, Npos, cells) /\ Npos' = Npos + Unbuffered!Moves(cells)
  BY <1>4, <1>6, SameCells, SamePut
<1> QED BY <1>1, <1>6, <1>7 DEF Unbuffered!Put, Npos, Lpos

LEMMA CallsSeen ==
  ASSUME BufferInv, Sound, RioPut \/ RioParPut \/ RioSetPos \/ RioClose \/ RioCall
  PROVE  Unbuffered!RecordNext \/ UNCHANGED Unbuffered!rvars
<1>1. op = Idle /\ ~ Putting /\ npos \in Nat /\ fsiz \in Nat
  BY DEF RioPut, RioParPut, RioSetPos, RioClose, RioCall, Call, Putting, Idle, BufferInv, BufferTypes
<1>2. Logical = Behind /\ SizeOf(fsiz, Len(Logical), Len(file), Behind) /\ Npos = npos
  BY <1>1 DEF Logical, Sound, SizeRight, Reached, Npos
<1>3. parts => ~ failing
  BY DEF BufferInv, BufferTypes
<1>4. /\ MaxLen \in Nat /\ MaxParLen \in Nat /\ MaxFailLen \in Nat /\ MaxFailLen <= MaxLen
      /\ Slot \in Nat
  BY RecordBufferAssumption, SlotSize
<1>5. CASE RioPut
  <2>1. PICK d \in Puts(npos) : /\ npos + Len(d) + 2 <= Bound
                                /\ Call("put", PutCells(d, npos, NewFsiz(d)), npos)
    BY <1>5 DEF RioPut
  <2>2. UNCHANGED <<file, positions, buffer, answer>>
    BY <1>5 DEF RioPut
  <2>3. PutCells(d, npos, NewFsiz(d)) = PutCells(d, npos, Len(Logical))
    <3>1. /\ Len(file) <= Len(Logical) /\ Len(file) \in Nat /\ Len(Logical) \in Nat
          /\ npos + Len(d) + 1 \in Nat
      BY <1>1, <1>2, BehindLength, BehindType, PutsAre, LenProperties DEF BufferInv, BufferTypes
    <3>2. npos + Len(d) + 1 >= NewFsiz(d) <=> npos + Len(d) + 1 >= Len(Logical)
      BY <1>1, <1>2, <3>1 DEF NewFsiz, Most, SizeOf
    <3> QED BY <3>2 DEF PutCells
  <2>4. Unbuffered!Put(PutCells(d, npos, Len(Logical)))
    BY <2>1, <2>2, <2>3, PutSeen
  <2>5. npos + Len(d) + 2 <= Unbuffered!Bound
    <3>1. npos + Len(d) + 2 \in Nat
      BY <1>1, PutsAre, LenProperties
    <3> QED BY <1>3, <1>4, <2>1, <3>1 DEF Bound, Unbuffered!Bound
  <2>6. d \in Unbuffered!Puts(Npos) /\ Npos + Len(d) + 2 <= Unbuffered!Bound
        /\ Unbuffered!Put(Unbuffered!PutCells(d, Npos, Len(Logical)))
    BY <1>2, <2>4, <2>5, SamePut
  <2>7. Unbuffered!RioPut
    BY <2>6 DEF Unbuffered!RioPut, Npos
  <2> QED BY <2>7 DEF Unbuffered!RecordNext
<1>6. CASE RioParPut
  <2>1. PICK d \in ParPuts(npos) : npos + Len(d) <= Bound /\ Call("parput", d, npos)
    BY <1>6 DEF RioParPut
  <2>2. UNCHANGED <<file, positions, buffer, answer>> /\ parts
    BY <1>6 DEF RioParPut
  <2>3. Unbuffered!Put(d)
    BY <2>1, <2>2, PutSeen
  <2>4. npos + Len(d) <= Unbuffered!Bound
    BY <1>3, <2>1, <2>2 DEF Bound, Unbuffered!Bound
  <2>5. d \in Unbuffered!ParPuts(Npos) /\ Npos + Len(d) <= Unbuffered!Bound
    BY <1>2, <2>4, SamePut
  <2>6. Unbuffered!RioParPut
    BY <2>2, <2>3, <2>5 DEF Unbuffered!RioParPut, Npos
  <2> QED BY <2>6 DEF Unbuffered!RecordNext
<1>7. CASE RioSetPos \/ RioClose \/ RioCall
  <2>1. /\ UNCHANGED <<choice, file, positions, buffer, answer>>
        /\ op'.kind \notin {"put", "parput"}
    BY <1>7 DEF RioSetPos, RioClose, RioCall, Call
  <2>2. ~ Putting' /\ Behind' = Behind
    BY <2>1 DEF Putting, Behind, buffer, blen
  <2>3. Logical' = Logical /\ Npos' = Npos /\ Lpos' = Lpos /\ parts' = parts /\ answer' = answer
    BY <1>1, <2>1, <2>2 DEF Logical, Npos, Lpos, positions, choice
  <2> QED BY <2>3, Stutters
<1> QED BY <1>5, <1>6, <1>7

\* The last cells of a put decide where the position is behind it.
LEMMA ChunkSeen ==
  ASSUME BufferInv, RioPutChunk
  PROVE  UNCHANGED Unbuffered!rvars
<1> DEFINE n == Fits
           rest == SubSeq(op.cells, n + 1, Len(op.cells))
<1>1. /\ Putting /\ op.kind \in {"put", "parput"} /\ npos \in Nat /\ op.at \in Nat
      /\ Len(op.cells) \in Nat /\ parts' = parts /\ answer' = answer
  BY CallIs DEF RioPutChunk, BufferInv, BufferTypes, Putting, choice
<1>2. Npos = op.at + Moves(op.cells) /\ Lpos = npos
  BY <1>1 DEF Npos, Lpos
<1>3. n \in Nat /\ n >= 1 /\ n <= Len(op.cells)
  BY PutPlace
<1>4. /\ Len(rest) = Len(op.cells) - n
      /\ \A i \in 1 .. Len(op.cells) - n : rest[i] = op.cells[n + i]
      /\ n = Len(op.cells) => PutDone /\ op' = Idle
      /\ n # Len(op.cells)
           => /\ op' = [kind |-> op.kind, cells |-> rest, at |-> op.at + n]
              /\ npos' = npos /\ Len(rest) >= 1
  BY PutLeft
<1> HIDE DEF n, rest
<1>5. CASE n = Len(op.cells)
  <2>1. ~ Putting' /\ npos' = op.at + Moves(op.cells) /\ lpos' = npos
    BY <1>4, <1>5 DEF PutDone, Putting, Idle
  <2>2. Npos' = Npos /\ Lpos' = Lpos
    BY <1>2, <2>1 DEF Npos, Lpos
  <2> QED BY <1>1, <2>2, PutKeepsLogical, Stutters
<1>6. CASE n # Len(op.cells)
  <2>1. op'.kind = op.kind /\ op'.at = op.at + n /\ op'.cells = rest /\ npos' = npos /\ Len(rest) >= 1
    BY <1>4, <1>6
  <2>2. Putting'
    BY <1>1, <2>1 DEF Putting
  <2>3. op.at + n + Moves(rest) = op.at + Moves(op.cells)
    <3> DEFINE k == Len(op.cells) - n
    <3>1. k \in 1 .. Len(op.cells) - n /\ n + k = Len(op.cells) /\ Len(rest) = k
      BY <1>1, <1>3, <1>4, <2>1
    <3>2. rest[k] = op.cells[n + k]
      BY <1>4, <3>1
    <3> HIDE DEF k
    <3>3. rest[Len(rest)] = op.cells[Len(op.cells)]
      BY <3>1, <3>2
    <3>4. k \in Nat
      BY <1>1, <1>3, <3>1
    <3>5. CASE op.cells[Len(op.cells)] = EOFC
      <4>1. Moves(op.cells) = Len(op.cells) - 1 /\ Moves(rest) = k - 1
        BY <3>1, <3>3, <3>5 DEF Moves
      <4>2. \A a, b, c, d \in Nat : b + c = d => (a + b) + (c - 1) = a + (d - 1)
        OBVIOUS
      <4> QED BY <1>1, <1>3, <3>1, <3>4, <4>1, <4>2
    <3>6. CASE op.cells[Len(op.cells)] # EOFC
      <4>1. Moves(op.cells) = Len(op.cells) /\ Moves(rest) = k
        BY <3>1, <3>3, <3>6 DEF Moves
      <4>2. \A a, b, c, d \in Nat : b + c = d => (a + b) + c = a + d
        OBVIOUS
      <4> QED BY <1>1, <1>3, <3>1, <3>4, <4>1, <4>2
    <3> QED BY <3>5, <3>6
  <2>4. Npos' = Npos /\ Lpos' = Lpos
    BY <1>2, <2>1, <2>2, <2>3 DEF Npos, Lpos
  <2> QED BY <1>1, <2>4, PutKeepsLogical, Stutters
<1> QED BY <1>5, <1>6
\* A get that ends has answered, and moved, as one that reads the file.
LEMMA GetSeen ==
  ASSUME BufferInv, Sound, RioGetTakes
  PROVE  Unbuffered!RecordNext \/ UNCHANGED Unbuffered!rvars
<1> DEFINE c == op.cells \o Chunk
           C == ReadAt(file, npos, Slot)
<1>1. /\ Logical = file /\ c \in Seq(Cell)
      /\ GetDone(c) => GetAnswer(c, npos) = GetAnswer(C, npos) /\ (c = <<>> <=> C = <<>>)
  BY GetGathers
<1>2. ~ Putting /\ ~ Putting' /\ Behind' = Behind
  BY BehindKept
<1>3. parts' = parts /\ npos \in Nat /\ lpos \in Nat
  BY DEF RioGetTakes, choice, BufferInv, BufferTypes
<1>4. /\ Logical' = Logical /\ Npos = npos /\ Lpos = lpos /\ Npos' = npos' /\ Lpos' = lpos'
  BY <1>2 DEF Logical, Npos, Lpos
<1> HIDE DEF c
<1>5. CASE GetDone(c)
  <2>1. /\ answer' = GetAnswer(c, npos)
        /\ IF c = <<>> THEN UNCHANGED positions ELSE GetMoves(GetAnswer(c, npos).step)
    BY <1>5 DEF RioGetTakes, c
  <2>2. answer' = GetAnswer(C, npos)
        /\ lpos' = (IF C = <<>> THEN lpos ELSE npos)
        /\ npos' = npos + GetAnswer(C, npos).step
    <3> HIDE DEF C
    <3>1. CASE c = <<>>
      <4>1. GetAnswer(c, npos) = Failed(0)
        BY <3>1 DEF GetAnswer
      <4>2. GetAnswer(C, npos).step = 0 /\ C = <<>>
        BY <1>1, <1>5, <3>1, <4>1, FailedIs
      <4> QED BY <1>1, <1>3, <1>5, <2>1, <3>1, <4>2 DEF positions
    <3>2. CASE c # <<>>
      BY <1>1, <1>5, <2>1, <3>2 DEF GetMoves
    <3> QED BY <3>1, <3>2
  <2>3. C = Unbuffered!ReadAt(Logical, Npos, Unbuffered!Slot)
        /\ GetAnswer(C, npos) = Unbuffered!GetAnswer(C, Npos)
    BY <1>1, <1>4, SameCells, SameGet
  <2> HIDE DEF C
  <2>4. /\ answer' = Unbuffered!GetAnswer(C, Npos)
        /\ Lpos' = IF C = <<>> THEN Lpos ELSE Npos
        /\ Npos' = Npos + Unbuffered!GetAnswer(C, Npos).step
    BY <1>4, <2>2, <2>3
  <2>5. Unbuffered!RioGet
    BY <1>3, <1>4, <2>3, <2>4 DEF Unbuffered!RioGet, Npos, Lpos
  <2> QED BY <2>5 DEF Unbuffered!RecordNext
<1>6. CASE ~ GetDone(c)
  <2>1. npos' = npos /\ lpos' = lpos /\ answer' = answer
    BY <1>6 DEF RioGetTakes, positions, c
  <2> QED BY <1>3, <1>4, <2>1, Stutters
<1> QED BY <1>5, <1>6

LEMMA PrevSeen ==
  ASSUME BufferInv, Sound, RioPrevTakes
  PROVE  Unbuffered!RecordNext \/ UNCHANGED Unbuffered!rvars
<1> DEFINE c == Chunk \o op.cells
           C == ReadAt(file, lpos - PrevCells(lpos), PrevCells(lpos))
<1>1. /\ ~ (At >= bpos + blen) /\ Logical = file
      /\ PrevEnough(c, lpos) => PrevAnswer(c, lpos) = PrevAnswer(C, lpos)
  BY PrevGathers
<1>2. ~ Putting /\ ~ Putting' /\ Behind' = Behind
  BY BehindKept
<1>3. parts' = parts /\ lpos > 0
  BY DEF RioPrevTakes, choice
<1>4. /\ Logical' = Logical /\ Npos = npos /\ Lpos = lpos /\ Npos' = npos' /\ Lpos' = lpos'
  BY <1>2 DEF Logical, Npos, Lpos
<1> HIDE DEF c
<1>5. CASE PrevEnough(c, lpos)
  <2>1. answer' = PrevAnswer(c, lpos) /\ npos' = lpos /\ lpos' = lpos - PrevAnswer(c, lpos).step
    BY <1>1, <1>5 DEF RioPrevTakes, PrevMoves, c
  <2>2. PrevAnswer(c, lpos) = PrevAnswer(C, lpos)
    BY <1>1, <1>5
  <2>3. /\ C = Unbuffered!ReadAt(Logical, Lpos - Unbuffered!PrevCells(Lpos), Unbuffered!PrevCells(Lpos))
        /\ PrevAnswer(C, lpos) = Unbuffered!PrevAnswer(C, Lpos)
    BY <1>1, <1>4, SameCells, SamePrev
  <2> HIDE DEF C
  <2>4. /\ Lpos > 0 /\ answer' = Unbuffered!PrevAnswer(C, Lpos) /\ Npos' = Lpos
        /\ Lpos' = Lpos - Unbuffered!PrevAnswer(C, Lpos).step
    BY <1>3, <1>4, <2>1, <2>2, <2>3
  <2>5. Unbuffered!RioPrev
    BY <1>3, <1>4, <2>3, <2>4 DEF Unbuffered!RioPrev, Npos, Lpos
  <2> QED BY <2>5 DEF Unbuffered!RecordNext
<1>6. CASE ~ PrevEnough(c, lpos)
  <2>1. npos' = npos /\ lpos' = lpos /\ answer' = answer
    BY <1>1, <1>6 DEF RioPrevTakes, positions, c
  <2> QED BY <1>3, <1>4, <2>1, Stutters
<1> QED BY <1>5, <1>6

LEMMA DirectSeen ==
  ASSUME BufferInv, Sound,
         \/ RioPrevAtBegin \/ RioDelete \/ SetPosDone \/ RioEofPos \/ RioWeof \/ RioFlush
         \/ RioReopen \/ RioOpenRefused
  PROVE  Unbuffered!RecordNext \/ UNCHANGED Unbuffered!rvars
<1>1. Idle.kind = "idle" /\ [Idle EXCEPT !.kind = "closed"].kind = "closed"
  BY DEF Idle
<1>2. CASE RioDelete \/ RioWeof
  <2>1. /\ op.kind \in {"delete", "weof"} /\ ~ MustFlush /\ Invalidate /\ op' = Idle /\ parts' = parts
    BY <1>2 DEF RioDelete, RioWeof, Direct, Return, choice
  <2>2. bflg # 2 /\ bflg' = 0
    BY <2>1, NothingToWrite DEF Invalidate
  <2>3. /\ Logical = file /\ Logical' = file'
        /\ Npos = npos /\ Lpos = lpos /\ Npos' = npos' /\ Lpos' = lpos'
    BY <1>1, <2>1, <2>2 DEF Putting, Logical, Behind, Npos, Lpos
  <2>4. CASE RioDelete
    <3>1. PICK stale \in BOOLEAN : /\ answer' = DeleteAnswer(ReadAt(file, npos, Slot), npos, stale)
                                   /\ file' = DeleteAt(file, npos, stale)
      BY <2>4 DEF RioDelete, DeleteRecord
    <3>2. npos' = npos /\ lpos' = lpos
      BY <2>4 DEF RioDelete, positions
    <3>3. /\ answer' = Unbuffered!DeleteAnswer(
                         Unbuffered!ReadAt(Logical, Npos, Unbuffered!Slot), Npos, stale)
          /\ Logical' = Unbuffered!DeleteAt(Logical, Npos, stale)
      BY <2>3, <3>1, SameCells, SameGet
    <3>4. Unbuffered!RioDelete
      BY <2>1, <2>3, <3>2, <3>3 DEF Unbuffered!RioDelete, Npos, Lpos
    <3> QED BY <3>4 DEF Unbuffered!RecordNext
  <2>5. CASE RioWeof
    <3>1. /\ file' = Append(ReadAt(file, 0, npos), EOFC) /\ lpos' = npos /\ npos' = npos
          /\ answer' = answer
      BY <2>5 DEF RioWeof
    <3>2. Logical' = Append(Unbuffered!ReadAt(Logical, 0, Npos), Unbuffered!EOFC)
      BY <2>3, <3>1, SameCells
    <3>3. Unbuffered!RioWeof
      BY <2>1, <2>3, <3>1, <3>2 DEF Unbuffered!RioWeof, Npos, Lpos
    <3> QED BY <3>3 DEF Unbuffered!RecordNext
  <2> QED BY <1>2, <2>4, <2>5
<1>3. CASE RioPrevAtBegin \/ SetPosDone \/ RioEofPos \/ RioFlush \/ RioReopen \/ RioOpenRefused
  <2>1. ~ Putting /\ ~ Putting' /\ Behind' = Behind /\ parts' = parts
    BY <1>3, BehindKept DEF RioPrevAtBegin, SetPosDone, RioEofPos, RioFlush, RioReopen,
         RioOpenRefused, Direct, choice
  <2>2. /\ Logical = Behind /\ Logical' = Logical
        /\ Npos = npos /\ Lpos = lpos /\ Npos' = npos' /\ Lpos' = lpos'
    BY <2>1 DEF Logical, Npos, Lpos
  <2>3. CASE RioPrevAtBegin
    <3>1. /\ lpos = 0 /\ answer' = Plain("end") /\ npos' = 0 /\ lpos' = lpos
      BY <2>3 DEF RioPrevAtBegin
    <3>2. Lpos = 0 /\ answer' = Unbuffered!Plain("end") /\ Npos' = 0 /\ Lpos' = Lpos
      BY <2>2, <3>1, SamePut
    <3>3. Unbuffered!RioPrevAtBegin
      BY <2>1, <2>2, <3>2 DEF Unbuffered!RioPrevAtBegin, Npos, Lpos
    <3> QED BY <3>3 DEF Unbuffered!RecordNext
  <2>4. CASE SetPosDone
    <3>1. op.kind = "setpos" /\ npos' = op.at /\ lpos' = op.at /\ answer' = answer
      BY <2>4 DEF SetPosDone, Direct
    <3>2. op.at \in 0 .. Len(Logical) /\ op.at % Unbuffered!Slot = 0
      <4>1. op.at <= Len(Logical) /\ op.at % Slot = 0
        BY <3>1 DEF Sound, Gathered
      <4>2. op.at \in Nat /\ Len(Logical) \in Nat
        BY CallIs, LogicalType DEF BufferInv
      <4> QED BY <4>1, <4>2, SameCells
    <3>3. Unbuffered!RioSetPos
      BY <2>1, <2>2, <3>1, <3>2 DEF Unbuffered!RioSetPos, Npos, Lpos
    <3> QED BY <3>3 DEF Unbuffered!RecordNext
  <2>5. CASE RioEofPos
    <3>1. /\ op.kind = "eofpos" /\ ~ MustFlush /\ fsiz' = Len(file)
          /\ answer' = [Plain("eofpos") EXCEPT !.step = fsiz' - 1]
          /\ npos' = npos /\ lpos' = lpos
      BY <2>5 DEF RioEofPos, Direct, positions
    <3>2. Logical = file
      BY <2>2, <3>1, NothingToWrite DEF Behind
    <3>3. answer' = [Unbuffered!Plain("eofpos") EXCEPT !.step = Len(Logical) - 1]
      BY <3>1, <3>2, SamePut
    <3>4. Unbuffered!RioEofPos
      BY <2>1, <2>2, <3>1, <3>3 DEF Unbuffered!RioEofPos, Npos, Lpos
    <3> QED BY <3>4 DEF Unbuffered!RecordNext
  <2>6. CASE RioFlush \/ RioOpenRefused
    <3>1. npos' = npos /\ lpos' = lpos /\ answer' = answer
      BY <2>6 DEF RioFlush, RioOpenRefused, positions
    <3> QED BY <2>1, <2>2, <3>1, Stutters
  <2>7. CASE RioReopen
    <3>1. /\ op.kind = "close" /\ ~ MustFlush /\ file[Len(file)] = EOFC
          /\ npos' = 0 /\ lpos' = 0 /\ answer' = answer
      BY <2>7 DEF RioReopen, Direct
    <3>2. Logical = file
      BY <2>2, <3>1, NothingToWrite DEF Behind
    <3>3. Logical[Len(Logical)] = Unbuffered!EOFC
      BY <3>1, <3>2, SameCells
    <3>4. Unbuffered!RioReopen
      BY <2>1, <2>2, <3>1, <3>3 DEF Unbuffered!RioReopen, Npos, Lpos
    <3> QED BY <3>4 DEF Unbuffered!RecordNext
  <2> QED BY <1>3, <2>3, <2>4, <2>5, <2>6, <2>7
<1> QED BY <1>2, <1>3

LEMMA InitSeen == BufferInit => Unbuffered!RecordInit
<1> SUFFICES ASSUME BufferInit PROVE Unbuffered!RecordInit
  OBVIOUS
<1>1. ~ Putting /\ bflg = 0
  BY DEF BufferInit, Putting, Idle
<1>2. Logical = file /\ Npos = npos /\ Lpos = lpos
  BY <1>1 DEF Logical, Behind, Npos, Lpos
<1> QED BY <1>2, SameCells DEF BufferInit, Unbuffered!RecordInit, Npos, Lpos

LEMMA NextSeen ==
  ASSUME BufferInv, SoundInv, [BufferNext]_bvars, failures' = 0
  PROVE  Unbuffered!RecordNext \/ UNCHANGED Unbuffered!rvars
<1>1. CASE Fault
  <2>1. failures' = failures + 1 /\ failures \in Nat
    BY <1>1 DEF Fault, RioXwbFails, RioXgbRefused, RioXgbFails, DirectFails, Fail, BufferInv,
         BufferTypes
  <2> QED BY <2>1
<1>2. CASE ~ Fault
  <2>1. failures = 0
    BY <1>2, NoFault
  <2>2. Sound
    BY <2>1 DEF SoundInv
  <2>3. CASE RioPut \/ RioParPut \/ RioSetPos \/ RioClose \/ RioCall
    BY <2>2, <2>3, CallsSeen
  <2>4. CASE RioXwb \/ RioXgbReads
    <3>1. Logical' = Logical
      <4>1. CASE RioXgbReads
        BY <4>1, BehindKept DEF Logical
      <4>2. CASE RioXwb
        <5>1. bflg' = 0 /\ file' = Behind /\ op' = op
          BY <4>2 DEF RioXwb, Invalidate
        <5>2. Behind' = Behind /\ (Putting' <=> Putting)
          BY <5>1 DEF Behind, Putting
        <5> QED BY <5>1, <5>2 DEF Logical
      <4> QED BY <2>4, <4>1, <4>2
    <3>2. npos' = npos /\ lpos' = lpos /\ op' = op /\ answer' = answer /\ parts' = parts
      BY <2>4 DEF RioXwb, RioXgbReads, positions, choice
    <3>3. Npos' = Npos /\ Lpos' = Lpos
      BY <3>2 DEF Npos, Lpos, Putting, Moves
    <3> QED BY <3>1, <3>2, <3>3, Stutters
  <2>5. CASE Step /\ ~ (RioXwb \/ RioXgbReads)
    BY <2>2, <2>5, GetSeen, PrevSeen, ChunkSeen, DirectSeen DEF Step
  <2>6. CASE UNCHANGED bvars
    <3>1. Logical' = Logical /\ Npos' = Npos /\ Lpos' = Lpos /\ parts' = parts /\ answer' = answer
      BY <2>6 DEF bvars, Logical, Behind, Npos, Lpos, Putting, blen, Moves
    <3> QED BY <3>1, Stutters
  <2> QED BY <1>2, <2>3, <2>4, <2>5, <2>6 DEF BufferNext
<1> QED BY <1>1, <1>2

\* With the buffer the calls answer, and leave in the file and the buffer,
\* what the calls without one answer and leave in the file, in every order of
\* calls, until the first failure (rio.c 464-1490, 1530-1843, 1911-1975).
THEOREM BufferImplementsFile == BufferSpec => ImplementsRecordFile
<1>1. BufferInit => Unbuffered!RecordInit
  BY InitSeen
<1>2. BufferInv /\ SoundInv /\ [BufferNext]_bvars
        => [failures' = 0 => Unbuffered!RecordNext \/ UNCHANGED Unbuffered!rvars]_bvars
  BY NextSeen
<1> QED BY <1>1, <1>2, AlwaysSound, PTL DEF BufferSpec, ImplementsRecordFile
=============================================================================
