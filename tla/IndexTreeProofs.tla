------------------------- MODULE IndexTreeProofs ----------------------------
(***************************************************************************)
(* Proofs about IndexTree: an insert, a delete and the free record places  *)
(* keep the index whole, for keys, blocks and trees of any size. Each      *)
(* operation of xio.c is a loop that keeps the shape of the tree but for   *)
(* one block: one that was split and is not in its parent yet, or one that *)
(* may be empty.                                                           *)
(***************************************************************************)
EXTENDS IndexTree, SequenceTheorems, FiniteSetTheorems, WellFoundedInduction, TLAPS

-----------------------------------------------------------------------------
(***************************************************************************)
(* Numbers, loops, sequences and the order of the keys.                    *)
(***************************************************************************)
(***************************************************************************)
(* Numbers.                                                                *)
(***************************************************************************)
\* A set of numbers has a least one.
LEMMA LeastNumber == ASSUME NEW T \in SUBSET Nat, T # {} PROVE \E x \in T : \A y \in T : x <= y
<1>1. PICK R : /\ IsWellFoundedOn(R, Nat)
               /\ \A x, y \in Nat : <<x, y>> \in R <=> x < y
  <2> DEFINE R == OpToRel(<, Nat)
  <2>1. IsWellFoundedOn(R, Nat)
    BY NatLessThanWellFounded
  <2>2. \A x, y \in Nat : <<x, y>> \in R <=> x < y
    BY DEF OpToRel
  <2> HIDE DEF R
  <2> QED BY <2>1, <2>2
<1>2. IsWellFoundedOn(R, Nat) /\ T \subseteq Nat
  BY <1>1
<1>3. \E x \in T : \A y \in T : ~ (<<y, x>> \in R)
  BY <1>2, WFMin
<1>4. PICK x \in T : \A y \in T : ~ (<<y, x>> \in R)
  BY <1>3
<1>5. ASSUME NEW y \in T PROVE x <= y
  <2>1. x \in Nat /\ y \in Nat /\ ~ (<<y, x>> \in R)
    BY <1>4
  <2>2. ~ (y < x)
    BY <1>1, <2>1
  <2> QED BY <2>1, <2>2
<1> QED BY <1>5

\* A set of numbers that is bounded has a greatest one.
LEMMA GreatestNumber ==
  ASSUME NEW n \in Nat, NEW T \in SUBSET (0 .. n), T # {}
  PROVE  \E x \in T : \A y \in T : y <= x
<1> DEFINE R == {n - y : y \in T}
<1>1. R \in SUBSET Nat /\ R # {}
  <2>1. \A y \in T : n - y \in Nat
    OBVIOUS
  <2> QED BY <2>1
<1>2. PICK x \in R : \A y \in R : x <= y
  BY <1>1, LeastNumber
<1>3. PICK y \in T : x = n - y
  BY <1>2
<1>4. \A z \in T : z <= y
  <2> TAKE z \in T
  <2>1. n - y <= n - z
    BY <1>2, <1>3
  <2> QED BY <2>1
<1> QED BY <1>4

\* What holds of 0 and goes from each number to the next holds of all.
LEMMA EveryNumber ==
  ASSUME NEW T \in SUBSET Nat, 0 \in T, \A n \in T : n + 1 \in T
  PROVE  T = Nat
<1> SUFFICES ASSUME T # Nat PROVE FALSE
  OBVIOUS
<1> DEFINE R == Nat \ T
<1>1. R \in SUBSET Nat /\ R # {}
  OBVIOUS
<1>2. PICK x \in R : \A y \in R : x <= y
  BY <1>1, LeastNumber
<1>3. x \in Nat /\ x # 0 /\ x - 1 \in Nat /\ x - 1 \notin R
  BY <1>2
<1> QED BY <1>2, <1>3

\* The same up to a bound.
LEMMA NumbersUpTo ==
  ASSUME NEW m \in Nat, NEW T, 0 \in T, \A n \in 0 .. m - 1 : n \in T => n + 1 \in T
  PROVE  0 .. m \subseteq T
<1> DEFINE U == {n \in Nat : n <= m => n \in T}
<1>1. 0 \in U
  OBVIOUS
<1>2. ASSUME NEW n \in U PROVE n + 1 \in U
  OBVIOUS
<1>3. U = Nat
  BY <1>1, <1>2, EveryNumber
<1> QED BY <1>3

\* Min picks the least number of a set.
LEMMA MinIs ==
  ASSUME NEW T \in SUBSET Nat, T # {}
  PROVE  Min(T) \in T /\ \A y \in T : Min(T) <= y
<1>1. \E x \in T : \A y \in T : x <= y
  BY LeastNumber
<1> QED BY <1>1 DEF Min

\* Max picks the greatest number of a bounded set.
LEMMA MaxIs ==
  ASSUME NEW n \in Nat, NEW T \in SUBSET (0 .. n), T # {}
  PROVE  Max(T) \in T /\ \A y \in T : y <= Max(T)
<1>1. \E x \in T : \A y \in T : y <= x
  BY GreatestNumber
<1> QED BY <1>1 DEF Max

(***************************************************************************)
(* Loops.  A function f on the turns of a loop, from a, each turn by g.    *)
(***************************************************************************)
Turned(S, a, g, n, h) ==
  h \in [0 .. n -> S] /\ h[0] = a /\ \A i \in 0 .. n - 1 : h[i + 1] = g[<<i, h[i]>>]
\* The state after n turns, whatever function shows it.
AfterTurns(S, a, g, n) == CHOOSE h : Turned(S, a, g, n, h)

\* A loop that has made n turns can make one more.
LEMMA OneMoreTurn ==
  ASSUME NEW S, NEW a \in S, NEW g \in [Nat \X S -> S], NEW n \in Nat, NEW h,
         Turned(S, a, g, n, h)
  PROVE  \E k : Turned(S, a, g, n + 1, k)
<1> DEFINE k == [i \in 0 .. n + 1 |-> IF i = n + 1 THEN g[<<n, h[n]>>] ELSE h[i]]
<1>1. h \in [0 .. n -> S] /\ h[0] = a /\ n \in 0 .. n
  BY DEF Turned
<1>2. g[<<n, h[n]>>] \in S
  BY <1>1
<1>3. k \in [0 .. n + 1 -> S]
  BY <1>1, <1>2
<1>4. k[0] = a
  BY <1>1
<1>5. ASSUME NEW i \in 0 .. n + 1 - 1 PROVE k[i + 1] = g[<<i, k[i]>>]
  <2>1. i \in 0 .. n + 1 /\ i + 1 \in 0 .. n + 1 /\ i # n + 1
    OBVIOUS
  <2>2. k[i] = h[i]
    BY <2>1
  <2>3. CASE i = n
    BY <2>1, <2>2, <2>3
  <2>4. CASE i \in 0 .. n - 1
    <3>1. i + 1 # n + 1 /\ h[i + 1] = g[<<i, h[i]>>]
      BY <2>4 DEF Turned
    <3> QED BY <2>1, <2>2, <3>1
  <2> QED BY <2>1, <2>3, <2>4
<1> HIDE DEF k
<1>6. Turned(S, a, g, n + 1, k)
  BY <1>3, <1>4, <1>5 DEF Turned
<1> QED BY <1>6

\* A loop that makes one turn more has been in the same state before it.
LEMMA TurnsAgree ==
  ASSUME NEW S, NEW a \in S, NEW g \in [Nat \X S -> S], NEW n \in Nat, NEW m,
         m = n + 1, NEW x \in [0 .. n -> S], NEW y \in [0 .. m -> S], Turned(S, a, g, n, x), Turned(S, a, g, m, y)
  PROVE  x[n] = y[n]
<1> DEFINE R == {i \in 0 .. n : x[i] = y[i]}
<1>1. 0 \in R
  BY DEF Turned
<1>2. ASSUME NEW i \in 0 .. n - 1, i \in R PROVE i + 1 \in R
  <2>1. x[i + 1] = g[<<i, x[i]>>] /\ y[i + 1] = g[<<i, y[i]>>] /\ i + 1 \in 0 .. n
    BY DEF Turned
  <2> QED BY <2>1, <1>2
<1> HIDE DEF R
<1>3. 0 .. n \subseteq R
  BY <1>1, <1>2, NumbersUpTo
<1> QED BY <1>3 DEF R

\* f has the states of the loop that starts with a and has the body g.
Runs(f, a, g) == f[0] = a /\ \A n \in Nat : f[n + 1] = g[<<n, f[n]>>]

\* Any loop with a body g has the function of its states, turn by turn.
LEMMA Turns ==
  ASSUME NEW S, NEW a \in S, NEW g \in [Nat \X S -> S]
  PROVE  \E f \in [Nat -> S] : Runs(f, a, g)
<1> DEFINE T == {n \in Nat : \E h : Turned(S, a, g, n, h)}
<1>1. 0 \in T
  <2> DEFINE h == [i \in 0 .. 0 |-> a]
  <2>1. Turned(S, a, g, 0, h)
    BY DEF Turned
  <2> QED BY <2>1
<1>2. ASSUME NEW n \in T PROVE n + 1 \in T
  <2>1. n \in Nat /\ \E h : Turned(S, a, g, n, h)
    OBVIOUS
  <2>2. PICK h : Turned(S, a, g, n, h)
    BY <2>1
  <2>3. \E k : Turned(S, a, g, n + 1, k)
    BY <2>1, <2>2, OneMoreTurn
  <2> QED BY <2>1, <2>3
<1>3. T = Nat
  <2> HIDE DEF T
  <2>1. T \in SUBSET Nat
    BY DEF T
  <2> QED BY <1>1, <1>2, <2>1, EveryNumber
<1>4. \A n \in Nat : Turned(S, a, g, n, AfterTurns(S, a, g, n))
  BY <1>3 DEF AfterTurns
<1> HIDE DEF T
<1> DEFINE f == [n \in Nat |-> AfterTurns(S, a, g, n)[n]]
<1>5. \A n \in Nat : f[n] = AfterTurns(S, a, g, n)[n] /\ f[n] \in S
  <2> TAKE n \in Nat
  <2>1. AfterTurns(S, a, g, n) \in [0 .. n -> S]
    BY <1>4 DEF Turned
  <2> QED BY <2>1
<1>6. f \in [Nat -> S]
  BY <1>5
<1> HIDE DEF f
<1>7. f[0] = a
  <2>1. AfterTurns(S, a, g, 0)[0] = a
    BY <1>4 DEF Turned
  <2> QED BY <1>5, <2>1
<1>8. ASSUME NEW n \in Nat PROVE f[n + 1] = g[<<n, f[n]>>]
  <2> DEFINE x == AfterTurns(S, a, g, n)
             y == AfterTurns(S, a, g, n + 1)
  <2>1. Turned(S, a, g, n, x) /\ Turned(S, a, g, n + 1, y)
    BY <1>4
  <2>2. f[n] = x[n] /\ f[n + 1] = y[n + 1]
    BY <1>5
  <2> HIDE DEF x, y
  <2>3. x[n] = y[n]
    <3> DEFINE m == n + 1
    <3>1. m = n + 1 /\ Turned(S, a, g, m, y)
      BY <2>1
    <3> HIDE DEF m
    <3>2. x \in [0 .. n -> S] /\ y \in [0 .. m -> S]
      BY <2>1, <3>1 DEF Turned
    <3> QED BY <2>1, <3>1, <3>2, TurnsAgree, ZenonT(60)
  <2>4. y[n + 1] = g[<<n, y[n]>>]
    <3>1. n \in 0 .. n + 1 - 1
      OBVIOUS
    <3> QED BY <2>1, <3>1 DEF Turned
  <2> QED BY <2>2, <2>3, <2>4
<1> QED BY <1>6, <1>7, <1>8 DEF Runs

(***************************************************************************)
(* Sequences.                                                              *)
(***************************************************************************)
\* A function on 1 .. n is a sequence.
LEMMA IsSeq ==
  ASSUME NEW S, NEW n \in Nat, NEW s, s \in [1 .. n -> S]
  PROVE  s \in Seq(S) /\ Len(s) = n
<1>1. s \in Seq(S)
  BY SeqDef
<1>2. DOMAIN s = 1 .. n
  OBVIOUS
<1>3. 1 .. Len(s) = 1 .. n /\ Len(s) \in Nat
  BY <1>1, <1>2, LenProperties
<1> QED BY <1>1, <1>3

\* What SubSeq gives.
LEMMA SubSeqIs ==
  ASSUME NEW S, NEW s \in Seq(S), NEW m \in 1 .. Len(s) + 1, NEW n \in 0 .. Len(s), m <= n + 1
  PROVE  /\ SubSeq(s, m, n) \in Seq(S)
         /\ Len(SubSeq(s, m, n)) = n - m + 1
         /\ \A i \in 1 .. n - m + 1 : SubSeq(s, m, n)[i] = s[m + i - 1]
<1>1. Len(s) \in Nat
  BY LenProperties
<1>2. \A i \in m .. n : s[i] \in S
  BY <1>1, ElementOfSeq
<1>3. m \in Int /\ n \in Int /\ (IF m <= n THEN n - m + 1 ELSE 0) = n - m + 1
  BY <1>1
<1> QED BY <1>2, <1>3, SubSeqProperties

\* A sequence of one.
LEMMA OneIs == ASSUME NEW S, NEW e \in S PROVE <<e>> \in Seq(S) /\ Len(<<e>>) = 1 /\ <<e>>[1] = e
OBVIOUS

\* A sequence of two.
LEMMA TwoIs ==
  ASSUME NEW S, NEW e \in S, NEW f \in S
  PROVE  <<e, f>> \in Seq(S) /\ Len(<<e, f>>) = 2 /\ <<e, f>>[1] = e /\ <<e, f>>[2] = f
OBVIOUS

\* What InsertAt gives.
LEMMA InsertIs ==
  ASSUME NEW S, NEW s, NEW i, NEW e, s \in Seq(S), i \in 1 .. Len(s) + 1, e \in S
  PROVE  /\ InsertAt(s, i, e) \in Seq(S)
         /\ Len(InsertAt(s, i, e)) = Len(s) + 1
         /\ \A j \in 1 .. Len(s) + 1 : InsertAt(s, i, e)[j] =
              IF j < i THEN s[j] ELSE IF j = i THEN e ELSE s[j - 1]
<1> DEFINE a == SubSeq(s, 1, i - 1)
           b == SubSeq(s, i, Len(s))
           o == <<e>>
           ab == a \o o
<1>1. Len(s) \in Nat
  BY LenProperties
<1>2. a \in Seq(S) /\ Len(a) = i - 1 /\ \A j \in 1 .. i - 1 : a[j] = s[j]
  <2>1. 1 \in 1 .. Len(s) + 1 /\ i - 1 \in 0 .. Len(s) /\ 1 <= i - 1 + 1
    BY <1>1
  <2>2. /\ a \in Seq(S) /\ Len(a) = i - 1 - 1 + 1
        /\ \A j \in 1 .. i - 1 - 1 + 1 : a[j] = s[1 + j - 1]
    BY <2>1, SubSeqIs
  <2> HIDE DEF a
  <2> QED BY <1>1, <2>2
<1>3. b \in Seq(S) /\ Len(b) = Len(s) - i + 1 /\ \A j \in 1 .. Len(s) - i + 1 : b[j] = s[i + j - 1]
  <2>1. Len(s) \in 0 .. Len(s) /\ i <= Len(s) + 1
    BY <1>1
  <2> QED BY <2>1, SubSeqIs
<1>4. o \in Seq(S) /\ Len(o) = 1 /\ o[1] = e
  OBVIOUS
<1> HIDE DEF a, b, o
<1>5. /\ ab \in Seq(S) /\ Len(ab) = i
      /\ \A j \in 1 .. i : ab[j] = IF j < i THEN s[j] ELSE e
  <2>1. /\ ab \in Seq(S) /\ Len(ab) = i - 1 + 1
        /\ \A j \in 1 .. i - 1 + 1 : ab[j] = IF j <= i - 1 THEN a[j] ELSE o[j - (i - 1)]
    <3>1. /\ ab \in Seq(S) /\ Len(ab) = Len(a) + Len(o)
          /\ \A j \in 1 .. Len(a) + Len(o) : ab[j] = IF j <= Len(a) THEN a[j] ELSE o[j - Len(a)]
      BY <1>2, <1>4, ConcatProperties
    <3> HIDE DEF ab
    <3> QED BY <1>2, <1>4, <3>1
  <2> HIDE DEF ab
  <2>2. ASSUME NEW j \in 1 .. i PROVE ab[j] = IF j < i THEN s[j] ELSE e
    <3>1. j \in 1 .. i - 1 + 1 /\ (j <= i - 1 <=> j < i) /\ (j <= i - 1 => j \in 1 .. i - 1)
          /\ (~ (j < i) => j - (i - 1) = 1)
      BY <1>1
    <3> QED BY <1>2, <1>4, <2>1, <3>1
  <2> QED BY <1>1, <2>1, <2>2
<1> HIDE DEF ab
<1>6. /\ ab \o b \in Seq(S) /\ Len(ab \o b) = Len(s) + 1
      /\ \A j \in 1 .. Len(s) + 1 : (ab \o b)[j] =
            IF j < i THEN s[j] ELSE IF j = i THEN e ELSE s[j - 1]
  <2>1. /\ ab \o b \in Seq(S) /\ Len(ab \o b) = i + (Len(s) - i + 1)
        /\ \A j \in 1 .. i + (Len(s) - i + 1) : (ab \o b)[j] = IF j <= i THEN ab[j] ELSE b[j - i]
    <3>1. /\ ab \o b \in Seq(S) /\ Len(ab \o b) = Len(ab) + Len(b)
          /\ \A j \in 1 .. Len(ab) + Len(b) :
               (ab \o b)[j] = IF j <= Len(ab) THEN ab[j] ELSE b[j - Len(ab)]
      BY <1>3, <1>5, ConcatProperties
    <3> QED BY <1>3, <1>5, <3>1
  <2>2. ASSUME NEW j \in 1 .. Len(s) + 1
        PROVE  (ab \o b)[j] = IF j < i THEN s[j] ELSE IF j = i THEN e ELSE s[j - 1]
    <3>1. /\ j \in 1 .. i + (Len(s) - i + 1)
          /\ ~ (j <= i) => j - i \in 1 .. Len(s) - i + 1 /\ i + (j - i) - 1 = j - 1
          /\ j <= i => j \in 1 .. i
          /\ j < i => j <= i /\ j # i
          /\ j = i => j <= i
      BY <1>1
    <3>2. CASE j <= i
      BY <1>5, <2>1, <3>1, <3>2
    <3>3. CASE ~ (j <= i)
      BY <1>3, <2>1, <3>1, <3>3
    <3> QED BY <3>2, <3>3
  <2> QED BY <1>1, <2>1, <2>2
<1>7. InsertAt(s, i, e) = ab \o b
  BY DEF InsertAt, ab, a, b, o
<1> QED BY <1>6, <1>7

\* What RemoveAt gives.
LEMMA RemoveAtIs ==
  ASSUME NEW S, NEW s \in Seq(S), NEW i \in 1 .. Len(s)
  PROVE  /\ RemoveAt(s, i) \in Seq(S)
         /\ Len(RemoveAt(s, i)) = Len(s) - 1
         /\ \A j \in 1 .. Len(s) - 1 : RemoveAt(s, i)[j] = IF j < i THEN s[j] ELSE s[j + 1]
<1> DEFINE a == SubSeq(s, 1, i - 1)
           b == SubSeq(s, i + 1, Len(s))
<1>1. Len(s) \in Nat
  BY LenProperties
<1>2. a \in Seq(S) /\ Len(a) = i - 1 /\ \A j \in 1 .. i - 1 : a[j] = s[j]
  <2>1. 1 \in 1 .. Len(s) + 1 /\ i - 1 \in 0 .. Len(s) /\ 1 <= i - 1 + 1
    BY <1>1
  <2>2. /\ a \in Seq(S) /\ Len(a) = i - 1 - 1 + 1
        /\ \A j \in 1 .. i - 1 - 1 + 1 : a[j] = s[1 + j - 1]
    BY <2>1, SubSeqIs
  <2> HIDE DEF a
  <2> QED BY <1>1, <2>2
<1>3. b \in Seq(S) /\ Len(b) = Len(s) - i /\ \A j \in 1 .. Len(s) - i : b[j] = s[i + j]
  <2>1. Len(s) \in 0 .. Len(s) /\ i + 1 \in 1 .. Len(s) + 1 /\ i + 1 <= Len(s) + 1
    BY <1>1
  <2>2. /\ b \in Seq(S) /\ Len(b) = Len(s) - (i + 1) + 1
        /\ \A j \in 1 .. Len(s) - (i + 1) + 1 : b[j] = s[i + 1 + j - 1]
    BY <2>1, SubSeqIs
  <2> HIDE DEF b
  <2>3. \A j \in 1 .. Len(s) - i : j \in 1 .. Len(s) - (i + 1) + 1 /\ i + 1 + j - 1 = i + j
    BY <1>1
  <2> QED BY <1>1, <2>2, <2>3
<1> HIDE DEF a, b
<1>4. /\ a \o b \in Seq(S) /\ Len(a \o b) = (i - 1) + (Len(s) - i)
      /\ \A j \in 1 .. (i - 1) + (Len(s) - i) : (a \o b)[j] = IF j <= i - 1 THEN a[j] ELSE b[j - (i - 1)]
  <2>1. /\ a \o b \in Seq(S) /\ Len(a \o b) = Len(a) + Len(b)
        /\ \A j \in 1 .. Len(a) + Len(b) :
             (a \o b)[j] = IF j <= Len(a) THEN a[j] ELSE b[j - Len(a)]
    BY <1>2, <1>3, ConcatProperties
  <2> QED BY <1>2, <1>3, <2>1
<1>5. ASSUME NEW j \in 1 .. Len(s) - 1
      PROVE  (a \o b)[j] = IF j < i THEN s[j] ELSE s[j + 1]
  <2>1. /\ j \in 1 .. (i - 1) + (Len(s) - i)
        /\ j < i <=> j <= i - 1
        /\ j < i => j \in 1 .. i - 1
        /\ ~ (j < i) => j - (i - 1) \in 1 .. Len(s) - i /\ i + (j - (i - 1)) = j + 1
    BY <1>1
  <2> QED BY <1>2, <1>3, <1>4, <2>1
<1>6. RemoveAt(s, i) = a \o b
  BY DEF RemoveAt, a, b
<1>7. (i - 1) + (Len(s) - i) = Len(s) - 1
  BY <1>1
<1> QED BY <1>4, <1>5, <1>6, <1>7

\* What Front and Last give.
LEMMA FrontIs ==
  ASSUME NEW S, NEW s \in Seq(S), s # <<>>
  PROVE  /\ Front(s) \in Seq(S) /\ Len(Front(s)) = Len(s) - 1 /\ Len(s) \in Nat /\ Len(s) >= 1
         /\ \A i \in 1 .. Len(s) - 1 : Front(s)[i] = s[i]
         /\ Last(s) = s[Len(s)] /\ Last(s) \in S
<1>1. Len(s) \in Nat /\ Len(s) >= 1
  BY EmptySeq
<1>2. Last(s) = s[Len(s)] /\ Last(s) \in S
  BY <1>1, ElementOfSeq DEF Last
<1>3. 1 \in 1 .. Len(s) + 1 /\ Len(s) - 1 \in 0 .. Len(s) /\ 1 <= Len(s) - 1 + 1
  BY <1>1
<1> DEFINE a == SubSeq(s, 1, Len(s) - 1)
<1>4. /\ a \in Seq(S) /\ Len(a) = Len(s) - 1 - 1 + 1
      /\ \A i \in 1 .. Len(s) - 1 - 1 + 1 : a[i] = s[1 + i - 1]
  BY <1>3, SubSeqIs
<1>5. Front(s) = a
  BY DEF Front
<1> HIDE DEF a
<1> QED BY <1>1, <1>2, <1>4, <1>5

(***************************************************************************)
(* The order of keys.                                                      *)
(***************************************************************************)
Keys(n) == [1 .. n -> Int]

\* A key is a sequence of numbers.
LEMMA KeyIsSeq == ASSUME NEW n \in Nat, NEW a \in Keys(n) PROVE a \in Seq(Int) /\ Len(a) = n
BY IsSeq DEF Keys

\* The order of xioxscan says that the first byte that differs is less.
LEMMA LessIs ==
  ASSUME NEW n \in Nat, NEW a \in Keys(n), NEW b
  PROVE  Less(a, b) <=> \E i \in 1 .. n : a[i] < b[i] /\ \A j \in 1 .. i - 1 : a[j] = b[j]
BY KeyIsSeq DEF Less

\* No key is less than itself.
LEMMA LessIrreflexive == ASSUME NEW n \in Nat, NEW a \in Keys(n) PROVE ~ Less(a, a)
<1>1. \A i \in 1 .. n : ~ (a[i] < a[i])
  BY DEF Keys
<1> QED BY <1>1, LessIs

\* The order of the keys is transitive.
LEMMA LessTransitive ==
  ASSUME NEW n \in Nat, NEW a \in Keys(n), NEW b \in Keys(n), NEW c \in Keys(n),
         Less(a, b), Less(b, c)
  PROVE  Less(a, c)
<1>1. PICK i \in 1 .. n : a[i] < b[i] /\ \A j \in 1 .. i - 1 : a[j] = b[j]
  BY LessIs
<1>2. PICK k \in 1 .. n : b[k] < c[k] /\ \A j \in 1 .. k - 1 : b[j] = c[j]
  BY LessIs
<1>3. \A j \in 1 .. n : a[j] \in Int /\ b[j] \in Int /\ c[j] \in Int
  BY DEF Keys
<1>4. CASE i < k
  <2>1. a[i] < c[i] /\ \A j \in 1 .. i - 1 : a[j] = c[j]
    BY <1>1, <1>2, <1>3, <1>4
  <2> QED BY <2>1, LessIs
<1>5. CASE i >= k
  <2>1. a[k] < c[k]
    BY <1>1, <1>2, <1>3, <1>5
  <2>2. \A j \in 1 .. k - 1 : a[j] = c[j]
    BY <1>1, <1>2, <1>3, <1>5
  <2> QED BY <2>1, <2>2, LessIs
<1> QED BY <1>4, <1>5

\* Of two different keys one is less.
LEMMA LessTotal ==
  ASSUME NEW n \in Nat, NEW a \in Keys(n), NEW b \in Keys(n), a # b
  PROVE  Less(a, b) \/ Less(b, a)
<1> DEFINE T == {i \in 1 .. n : a[i] # b[i]}
<1>1. T \in SUBSET Nat /\ T # {}
  <2>1. \E i \in 1 .. n : a[i] # b[i]
    BY DEF Keys
  <2> QED BY <2>1
<1>2. PICK i \in T : \A j \in T : i <= j
  BY <1>1, LeastNumber
<1>3. i \in 1 .. n /\ a[i] # b[i] /\ a[i] \in Int /\ b[i] \in Int
  BY DEF Keys
<1>4. \A j \in 1 .. i - 1 : a[j] = b[j]
  BY <1>2, <1>3
<1>5. \A j \in 1 .. i - 1 : b[j] = a[j]
  BY <1>4
<1> HIDE DEF T
<1>6. CASE a[i] < b[i]
  BY <1>3, <1>4, <1>6, LessIs
<1>7. CASE b[i] < a[i]
  BY <1>3, <1>5, <1>7, LessIs
<1> QED BY <1>3, <1>6, <1>7

-----------------------------------------------------------------------------
(***************************************************************************)
(* Trails: the loops of the model that follow blocks until they end.       *)
(***************************************************************************)
\* One step of a trail.
TrailTurn(next, w) ==
  LET c == next[Last(w)] IN IF c = Last(w) THEN w ELSE Append(w, c)

\* f has the trails from b, by their number of steps.
AreTrails(f, next, b) ==
  /\ f[0] = <<b>>
  /\ \A n \in Nat : f[n + 1] = TrailTurn(next, f[n])
  /\ \A n \in Nat : Trail(next, b, n) = f[n]

\* A trail is a loop whose states are sequences.
LEMMA TrailTurns ==
  ASSUME NEW E, NEW V, NEW D \in SUBSET E, NEW next \in [E -> V],
         \A x \in D : next[x] \in D, NEW b \in D
  PROVE  \E f \in [Nat -> Seq(D) \ {<<>>}] : AreTrails(f, next, b)
<1> DEFINE S == Seq(D) \ {<<>>}
<1>1. \A w \in S : TrailTurn(next, w) \in S
  <2> TAKE w \in S
  <2>1. Last(w) \in D
    BY FrontIs
  <2>2. next[Last(w)] \in D
    BY <2>1
  <2>3. Append(w, next[Last(w)]) \in S
    BY <2>2, AppendProperties
  <2> QED BY <2>3 DEF TrailTurn
<1> DEFINE g == [p \in Nat \X S |-> TrailTurn(next, p[2])]
<1>2. g \in [Nat \X S -> S]
  BY <1>1
<1>3. \A n \in Nat : \A w \in S : g[<<n, w>>] = TrailTurn(next, w)
  OBVIOUS
<1>4. <<b>> \in S
  BY OneIs
<1> HIDE DEF S, g
<1>5. PICK f \in [Nat -> S] : f[0] = <<b>> /\ \A n \in Nat : f[n + 1] = g[<<n, f[n]>>]
  <2>1. \E f \in [Nat -> S] : Runs(f, <<b>>, g)
    BY <1>2, <1>4, Turns
  <2> QED BY <2>1 DEF Runs
<1>6. \A n \in Nat : f[n + 1] = TrailTurn(next, f[n])
  BY <1>3, <1>5
<1> DEFINE Rec(W) == W = [i \in Nat |-> IF i = 0 THEN <<b>> ELSE
                         LET w == W[i - 1]
                             c == next[Last(w)]
                         IN IF c = Last(w) THEN w ELSE Append(w, c)]
<1>7. Rec(f)
  <2>1. \A i \in Nat : f[i] = IF i = 0 THEN <<b>> ELSE
                         LET w == f[i - 1]
                             c == next[Last(w)]
                         IN IF c = Last(w) THEN w ELSE Append(w, c)
    <3> TAKE i \in Nat
    <3>1. i # 0 => i - 1 \in Nat /\ i - 1 + 1 = i
      OBVIOUS
    <3> QED BY <1>5, <1>6, <3>1 DEF TrailTurn
  <2> QED BY <1>5, <2>1
<1> DEFINE W == CHOOSE w : Rec(w)
<1>8. Rec(W)
  <2> HIDE DEF Rec
  <2> QED BY <1>7
<1>9. \A n \in Nat : Trail(next, b, n) = W[n]
  BY DEF Trail
<1> HIDE DEF W
<1>10. W[0] = <<b>> /\ \A n \in Nat : W[n + 1] = TrailTurn(next, W[n])
  <2>1. W[0] = <<b>>
    BY <1>8
  <2>2. ASSUME NEW n \in Nat PROVE W[n + 1] = TrailTurn(next, W[n])
    <3>1. n + 1 \in Nat /\ n + 1 # 0 /\ n + 1 - 1 = n
      OBVIOUS
    <3>2. \A i \in Nat : W[i] = IF i = 0 THEN <<b>> ELSE TrailTurn(next, W[i - 1])
      BY <1>8 DEF TrailTurn
    <3> HIDE DEF Rec
    <3> QED BY <3>1, <3>2
  <2> QED BY <2>1, <2>2
<1> HIDE DEF Rec
<1>11. \A n \in Nat : W[n] = f[n]
  <2> DEFINE T == {n \in Nat : W[n] = f[n]}
  <2>1. 0 \in T
    BY <1>5, <1>10
  <2>2. ASSUME NEW n \in T PROVE n + 1 \in T
    BY <1>6, <1>10
  <2>3. T \in SUBSET Nat
    OBVIOUS
  <2> HIDE DEF T
  <2>4. T = Nat
    BY <2>1, <2>2, <2>3, EveryNumber
  <2> QED BY <2>4 DEF T
<1>12. AreTrails(f, next, b)
  BY <1>5, <1>6, <1>9, <1>11 DEF AreTrails
<1> QED BY <1>5, <1>12 DEF S

\* A trail follows next from b until a block where it stays.
IsTrail(next, b, p) ==
  /\ p[1] = b
  /\ \A i \in 1 .. Len(p) - 1 : p[i + 1] = next[p[i]] /\ next[p[i]] # p[i]

\* After m steps: w follows next from b, and has ended or came nearer to the end.
TrailSoFar(next, b, d, m, w) ==
  /\ IsTrail(next, b, w)
  /\ d[Last(w)] + m <= d[b] \/ next[Last(w)] = Last(w)

\* One more turn of a trail keeps what it has and comes nearer to its end.
LEMMA TrailStep ==
  ASSUME NEW E, NEW V, NEW D \in SUBSET E, NEW next \in [E -> V],
         \A x \in D : next[x] \in D, NEW b \in D, NEW d \in [D -> Nat],
         \A x \in D : next[x] # x => d[next[x]] < d[x],
         NEW m \in Nat, NEW w \in Seq(D), w # <<>>, TrailSoFar(next, b, d, m, w)
  PROVE  TrailSoFar(next, b, d, m + 1, TrailTurn(next, w))
<1> DEFINE c == next[Last(w)]
           v == Append(w, c)
<1>1. Last(w) \in D /\ Last(w) = w[Len(w)] /\ Len(w) \in Nat /\ Len(w) >= 1
  BY FrontIs
<1>2. c = next[Last(w)] /\ c \in D
  BY <1>1
<1>3. TrailTurn(next, w) = IF c = Last(w) THEN w ELSE v
  BY DEF TrailTurn
<1> HIDE DEF c
<1>4. CASE c = Last(w)
  BY <1>2, <1>3, <1>4 DEF TrailSoFar
<1>5. CASE c # Last(w)
  <2>1. /\ v \in Seq(D) /\ Len(v) = Len(w) + 1 /\ v[Len(w) + 1] = c
        /\ \A i \in 1 .. Len(w) : v[i] = w[i]
    BY <1>2, AppendProperties
  <2> HIDE DEF v
  <2>2. Last(v) = c
    BY <2>1 DEF Last
  <2>3. w[1] = b /\ \A i \in 1 .. Len(w) - 1 : w[i + 1] = next[w[i]] /\ next[w[i]] # w[i]
    BY DEF TrailSoFar, IsTrail
  <2>4. v[1] = b
    <3>1. 1 \in 1 .. Len(w)
      BY <1>1
    <3> QED BY <2>1, <2>3, <3>1
  <2>5. ASSUME NEW i \in 1 .. Len(v) - 1
        PROVE  v[i + 1] = next[v[i]] /\ next[v[i]] # v[i]
    <3>1. i \in 1 .. Len(w) /\ v[i] = w[i]
      BY <1>1, <2>1
    <3>2. CASE i = Len(w)
      BY <1>1, <1>2, <1>5, <2>1, <3>1, <3>2
    <3>3. CASE i # Len(w)
      <4>1. i \in 1 .. Len(w) - 1 /\ i + 1 \in 1 .. Len(w)
        BY <1>1, <3>1, <3>3
      <4> QED BY <2>1, <2>3, <3>1, <4>1
    <3> QED BY <3>2, <3>3
  <2>6. d[c] < d[Last(w)] /\ d[c] \in Nat /\ d[Last(w)] \in Nat /\ d[b] \in Nat
    BY <1>1, <1>2, <1>5
  <2>7. d[Last(w)] + m <= d[b]
    BY <1>2, <1>5 DEF TrailSoFar
  <2>8. d[c] + (m + 1) <= d[b]
    <3> DEFINE x == d[c]
               y == d[Last(w)]
               z == d[b]
    <3>1. x \in Nat /\ y \in Nat /\ z \in Nat /\ x < y /\ y + m <= z
      BY <2>6, <2>7
    <3> HIDE DEF x, y, z
    <3>2. x + (m + 1) <= z
      BY <3>1
    <3> QED BY <3>2 DEF x, z
  <2>9. IsTrail(next, b, v)
    BY <2>4, <2>5 DEF IsTrail
  <2> QED BY <1>3, <1>5, <2>2, <2>8, <2>9 DEF TrailSoFar
<1> QED BY <1>4, <1>5

\* Every step that goes elsewhere comes nearer to an end.
Nearer(next, D, d) ==
  \A x \in D : next[x] \in D /\ (next[x] # x => d[next[x]] < d[x])

\* w goes from b to an end of next.
TrailEnds(next, D, b, w) ==
  /\ w \in Seq(D) /\ Len(w) \in Nat /\ Len(w) >= 1 /\ IsTrail(next, b, w)
  /\ Last(w) = w[Len(w)] /\ Last(w) \in D /\ next[Last(w)] = Last(w)

\* Where every step comes nearer to an end, a trail of n turns from a block
\* that is n off reaches it.
LEMMA TrailOf ==
  ASSUME NEW E, NEW V, NEW D, D \in SUBSET E, NEW next, next \in [E -> V],
         NEW d, d \in [D -> Nat], Nearer(next, D, d), NEW b, b \in D, NEW n, n \in Nat, d[b] <= n
  PROVE  TrailEnds(next, D, b, Trail(next, b, n))
<1>a. \A x \in D : next[x] \in D
  BY DEF Nearer
<1>b. \A x \in D : next[x] # x => d[next[x]] < d[x]
  BY DEF Nearer
<1>0. PICK f \in [Nat -> Seq(D) \ {<<>>}] : AreTrails(f, next, b)
  BY <1>a, TrailTurns
<1>1. /\ f[0] = <<b>>
      /\ \A m \in Nat : f[m + 1] = TrailTurn(next, f[m])
      /\ \A m \in Nat : Trail(next, b, m) = f[m]
  BY <1>0 DEF AreTrails
<1> DEFINE T == {m \in Nat : TrailSoFar(next, b, d, m, f[m])}
<1>2. 0 \in T
  <2>1. Len(<<b>>) = 1 /\ <<b>>[1] = b /\ Last(<<b>>) = b /\ d[b] \in Nat
    BY DEF Last
  <2>2. TrailSoFar(next, b, d, 0, <<b>>)
    BY <2>1 DEF TrailSoFar, IsTrail
  <2> QED BY <1>1, <2>2
<1>3. ASSUME NEW m \in T PROVE m + 1 \in T
  <2>1. m \in Nat /\ TrailSoFar(next, b, d, m, f[m]) /\ f[m] \in Seq(D) /\ f[m] # <<>>
    OBVIOUS
  <2> HIDE DEF T
  <2>2. TrailSoFar(next, b, d, m + 1, TrailTurn(next, f[m]))
    BY <1>a, <1>b, <2>1, TrailStep
  <2> QED BY <1>1, <2>1, <2>2 DEF T
<1>4. T = Nat
  <2>1. T \in SUBSET Nat
    OBVIOUS
  <2> HIDE DEF T
  <2> QED BY <1>2, <1>3, <2>1, EveryNumber
<1> DEFINE p == f[n]
<1>5. TrailSoFar(next, b, d, n, p) /\ p = Trail(next, b, n) /\ p \in Seq(D) /\ p # <<>>
  BY <1>1, <1>4
<1> HIDE DEF p, T
<1>6. Len(p) \in Nat /\ Len(p) >= 1 /\ Last(p) = p[Len(p)] /\ Last(p) \in D
  BY <1>5, FrontIs
<1>7. next[Last(p)] = Last(p)
  <2>1. d[Last(p)] \in Nat /\ d[b] \in Nat /\ next[Last(p)] \in D
    BY <1>a, <1>6
  <2>2. d[next[Last(p)]] \in Nat
    BY <2>1
  <2>3. d[Last(p)] + n <= d[b] \/ next[Last(p)] = Last(p)
    BY <1>5 DEF TrailSoFar
  <2>4. next[Last(p)] # Last(p) => d[next[Last(p)]] < d[Last(p)]
    BY <1>b, <1>6
  <2> DEFINE x == d[Last(p)]
             y == d[next[Last(p)]]
             z == d[b]
  <2>5. x \in Nat /\ y \in Nat /\ z \in Nat /\ z <= n
        /\ (next[Last(p)] # Last(p) => y < x) /\ (x + n <= z \/ next[Last(p)] = Last(p))
    BY <2>1, <2>2, <2>3, <2>4
  <2> HIDE DEF x, y, z
  <2>6. ~ (x + n <= z /\ y < x)
    BY <2>5
  <2> QED BY <2>5, <2>6
<1> QED BY <1>5, <1>6, <1>7 DEF TrailSoFar, TrailEnds

-----------------------------------------------------------------------------
(***************************************************************************)
(* The shape of a tree, without the file it is stored in: the keys of a    *)
(* block rise inside of its bounds, the bounds of its kids are the keys    *)
(* beside them, and all leaves are at level 0. While xioxins goes up, one  *)
(* block has been split and its parent does not know.                      *)
(***************************************************************************)
Leq(a, b) == a = b \/ Less(a, b)

\* Keys that rise, and keys inside of bounds.
Sorted(s) == \A i, j \in 1 .. Len(s) : i < j => Less(s[i], s[j])
Within(s, low, high) == \A i \in 1 .. Len(s) : Less(low, s[i]) /\ Less(s[i], high)

\* The bounds of the child i below a block with these keys and bounds.
LowerAt(keys, low, i) == IF i = 1 THEN low ELSE keys[i - 1]
UpperAt(keys, high, i) == IF i = Len(keys) + 1 THEN high ELSE keys[i]

\* The upper bound of a kid: while the split of x is not in its parent yet,
\* that of the new block kid.
EndOf(hi, x, kid, c) == IF c = x THEN hi[kid] ELSE hi[c]

\* The types of the parts of a shape.
ShapeTypes(K, W, root, ks, ds, lev, lo, hi) ==
  /\ W \in SUBSET (Nat \ {0}) /\ root \in W
  /\ ks \in [W -> Seq(K)] /\ ds \in [W -> Seq(W)]
  /\ lev \in [W -> Nat] /\ lo \in [W -> K] /\ hi \in [W -> K]

\* A block: its keys rise inside of its bounds, and a branch has one more kid
\* than keys.
ShapeOfBlock(root, ks, ds, lev, lo, hi, b) ==
  /\ lev[b] <= lev[root]
  /\ Less(lo[b], hi[b])
  /\ Sorted(ks[b]) /\ Within(ks[b], lo[b], hi[b])
  /\ (lev[b] = 0) <=> (ds[b] = <<>>)

\* The kids of a branch are a level lower, and their bounds are the keys beside
\* them.
ShapeOfKids(ks, ds, lev, lo, hi, x, kid, b) ==
  ds[b] # <<>> =>
    /\ Len(ds[b]) = Len(ks[b]) + 1
    /\ \A i \in 1 .. Len(ks[b]) + 1 :
         /\ lev[ds[b][i]] + 1 = lev[b]
         /\ lo[ds[b][i]] = LowerAt(ks[b], lo[b], i)
         /\ EndOf(hi, x, kid, ds[b][i]) = UpperAt(ks[b], hi[b], i)

IsKidOf(ds, b, p) == \E i \in 1 .. Len(ds[p]) : ds[p][i] = b

Apart(lo, hi, b, c) == Leq(hi[b], lo[c]) \/ Leq(hi[c], lo[b])

\* A block x whose split is pending and its new right half kid are at one level
\* and beside each other.
Hole(W, root, lev, lo, hi, x, kid) ==
  \/ x = 0 /\ kid = 0
  \/ /\ x \in W /\ kid \in W /\ x # kid /\ kid # root
     /\ lev[kid] = lev[x] /\ lo[kid] = hi[x]

\* The shape of a tree: W are its blocks, ks and ds the keys and kids of each,
\* lev their levels, lo and hi their bounds. Only blocks of E may be empty. The
\* split of x into x and kid is not in the parent yet; no split is pending if
\* both are 0.
Shape(K, low, high, W, root, ks, ds, lev, lo, hi, x, kid, E) ==
  /\ ShapeTypes(K, W, root, ks, ds, lev, lo, hi)
  /\ lo[root] = low /\ EndOf(hi, x, kid, root) = high
  /\ \A b \in W : ShapeOfBlock(root, ks, ds, lev, lo, hi, b)
  /\ \A b \in W : ShapeOfKids(ks, ds, lev, lo, hi, x, kid, b)
  /\ \A b \in W : ks[b] = <<>> => b \in E
  /\ \A b \in W : b \in {root, kid} \/ \E p \in W : IsKidOf(ds, b, p)
  /\ \A b, c \in W : b # c /\ lev[b] = lev[c] => Apart(lo, hi, b, c)
  /\ Hole(W, root, lev, lo, hi, x, kid)

\* A shape without hole, in which the blocks V are on the levels lev.
Reshaped(K, low, high, W, root, ks, ds, E, V, lev) ==
  \E lev2 \in [W -> Nat], lo2 \in [W -> K], hi2 \in [W -> K] :
    /\ Shape(K, low, high, W, root, ks, ds, lev2, lo2, hi2, 0, 0, E)
    /\ \A d \in V : lev2[d] = lev[d]

\* The same with a hole for c behind b, from key k on.
Opened(K, low, high, W, root, ks, ds, E, V, lev, b, c, k) ==
  \E lev2 \in [W -> Nat], lo2 \in [W -> K], hi2 \in [W -> K] :
    /\ Shape(K, low, high, W, root, ks, ds, lev2, lo2, hi2, b, c, E)
    /\ hi2[b] = k /\ \A d \in V : lev2[d] = lev[d]

StillEmpty(W, l, r, E, E2) == \A d \in W : d \in E => d \in {l, r} \/ d \in E2

\* The order of xioxscan on keys K.
Ordered(K) ==
  /\ \A a \in K : ~ Less(a, a)
  /\ \A a, b, c \in K : Less(a, b) /\ Less(b, c) => Less(a, c)
  /\ \A a, b \in K : a = b \/ Less(a, b) \/ Less(b, a)

\* What the proofs use of an order.
LEMMA Order ==
  ASSUME NEW K, Ordered(K)
  PROVE  /\ \A a \in K : ~ Less(a, a)
         /\ \A a, b, c \in K : Less(a, b) /\ Less(b, c) => Less(a, c)
         /\ \A a, b, c \in K : Leq(a, b) /\ Less(b, c) => Less(a, c)
         /\ \A a, b, c \in K : Less(a, b) /\ Leq(b, c) => Less(a, c)
         /\ \A a, b, c \in K : Leq(a, b) /\ Leq(b, c) => Leq(a, c)
         /\ \A a, b \in K : Less(a, b) => a # b /\ ~ Less(b, a)
         /\ \A a, b \in K : ~ Less(a, b) => Leq(b, a)
BY DEF Ordered, Leq

\* Keys of one length are ordered.
LEMMA KeysAreOrdered == ASSUME NEW n \in Nat PROVE Ordered(Keys(n))
<1>1. \A a \in Keys(n) : ~ Less(a, a)
  BY LessIrreflexive
<1>2. \A a, b, c \in Keys(n) : Less(a, b) /\ Less(b, c) => Less(a, c)
  BY LessTransitive
<1>3. \A a, b \in Keys(n) : a = b \/ Less(a, b) \/ Less(b, a)
  BY LessTotal
<1> QED BY <1>1, <1>2, <1>3 DEF Ordered

\* The key k belongs into the leaf b, as key i of it.
Belongs(K, ks, ds, lo, hi, b, i, k) ==
  /\ ds[b] = <<>> /\ i \in 1 .. Len(ks[b]) + 1 /\ k \in K
  /\ Less(lo[b], k) /\ Less(k, hi[b])
  /\ \A j \in 1 .. Len(ks[b]) : j < i => Less(ks[b][j], k)
  /\ \A j \in 1 .. Len(ks[b]) : j >= i => Less(k, ks[b][j])

With(f, b, v) == [f EXCEPT ![b] = v]

\* A key goes into a leaf.
LEMMA GainKey ==
  ASSUME NEW K, Ordered(K), NEW low, NEW high, NEW W, NEW root, NEW ks, NEW ds, NEW lev, NEW lo, NEW hi, NEW E,
         Shape(K, low, high, W, root, ks, ds, lev, lo, hi, 0, 0, E),
         NEW b, b \in W, NEW i, NEW k, Belongs(K, ks, ds, lo, hi, b, i, k),
         NEW ks2, ks2 = With(ks, b, InsertAt(ks[b], i, k))
  PROVE  Shape(K, low, high, W, root, ks2, ds, lev, lo, hi, 0, 0, E)
<1> USE DEF Belongs, With
<1>1. ShapeTypes(K, W, root, ks, ds, lev, lo, hi)
  BY DEF Shape
<1>2. ks[b] \in Seq(K) /\ Len(ks[b]) \in Nat /\ ks \in [W -> Seq(K)]
  BY <1>1, LenProperties DEF ShapeTypes
<1> DEFINE v == InsertAt(ks[b], i, k)
<1>3. /\ v \in Seq(K) /\ Len(v) = Len(ks[b]) + 1
      /\ \A j \in 1 .. Len(ks[b]) + 1 :
           v[j] = IF j < i THEN ks[b][j] ELSE IF j = i THEN k ELSE ks[b][j - 1]
  <2> DEFINE s == ks[b]
  <2>1. s \in Seq(K) /\ i \in 1 .. Len(s) + 1
    BY <1>2
  <2>2. v = InsertAt(s, i, k)
    OBVIOUS
  <2> HIDE DEF s, v
  <2>4. /\ InsertAt(s, i, k) \in Seq(K) /\ Len(InsertAt(s, i, k)) = Len(s) + 1
        /\ \A j \in 1 .. Len(s) + 1 : InsertAt(s, i, k)[j] =
             IF j < i THEN s[j] ELSE IF j = i THEN k ELSE s[j - 1]
    BY <2>1, InsertIs
  <2> QED BY <2>2, <2>4 DEF s
<1> HIDE DEF v
<1>4. ks2 \in [W -> Seq(K)] /\ ks2[b] = v /\ \A c \in W : c # b => ks2[c] = ks[c]
  BY <1>2, <1>3 DEF v
<1>5. ShapeTypes(K, W, root, ks2, ds, lev, lo, hi)
  BY <1>1, <1>4 DEF ShapeTypes
<1>6. Within(v, lo[b], hi[b])
  <2>1. Within(ks[b], lo[b], hi[b])
    BY DEF Shape, ShapeOfBlock
  <2>2. ASSUME NEW j \in 1 .. Len(v) PROVE Less(lo[b], v[j]) /\ Less(v[j], hi[b])
    <3>1. CASE j < i
      <4>1. j \in 1 .. Len(ks[b]) /\ v[j] = ks[b][j]
        BY <1>2, <1>3, <3>1
      <4> QED BY <2>1, <4>1 DEF Within
    <3>2. CASE j = i
      BY <1>2, <1>3, <3>2
    <3>3. CASE j > i
      <4>1. j - 1 \in 1 .. Len(ks[b]) /\ v[j] = ks[b][j - 1]
        BY <1>2, <1>3, <3>3
      <4> QED BY <2>1, <4>1 DEF Within
    <3> QED BY <1>2, <1>3, <3>1, <3>2, <3>3
  <2> QED BY <2>2 DEF Within
<1>7. Sorted(v)
  <2>1. Sorted(ks[b])
    BY DEF Shape, ShapeOfBlock
  <2>2. ASSUME NEW j \in 1 .. Len(v), NEW l \in 1 .. Len(v), j < l PROVE Less(v[j], v[l])
    <3>1. j \in 1 .. Len(ks[b]) + 1 /\ l \in 1 .. Len(ks[b]) + 1 /\ Len(ks[b]) \in Nat
      BY <1>2, <1>3
    <3>2. CASE j < i /\ l < i
      <4>1. j \in 1 .. Len(ks[b]) /\ l \in 1 .. Len(ks[b]) /\ v[j] = ks[b][j] /\ v[l] = ks[b][l]
        BY <1>3, <3>1, <3>2
      <4> QED BY <2>1, <2>2, <4>1 DEF Sorted
    <3>3. CASE j < i /\ l = i
      <4>1. j \in 1 .. Len(ks[b]) /\ v[j] = ks[b][j] /\ v[l] = k
        BY <1>3, <3>1, <3>3
      <4> QED BY <3>3, <4>1
    <3>4. CASE j < i /\ l > i
      <4>1. /\ j \in 1 .. Len(ks[b]) /\ l - 1 \in 1 .. Len(ks[b]) /\ j < l - 1
            /\ v[j] = ks[b][j] /\ v[l] = ks[b][l - 1]
        BY <1>3, <3>1, <3>4
      <4> QED BY <2>1, <4>1 DEF Sorted
    <3>5. CASE j = i
      <4>1. l - 1 \in 1 .. Len(ks[b]) /\ l - 1 >= i /\ v[j] = k /\ v[l] = ks[b][l - 1]
        BY <1>3, <2>2, <3>1, <3>5
      <4> QED BY <4>1
    <3>6. CASE j > i
      <4>1. /\ j - 1 \in 1 .. Len(ks[b]) /\ l - 1 \in 1 .. Len(ks[b]) /\ j - 1 < l - 1
            /\ v[j] = ks[b][j - 1] /\ v[l] = ks[b][l - 1]
        BY <1>3, <2>2, <3>1, <3>6
      <4> QED BY <2>1, <4>1 DEF Sorted
    <3> QED BY <2>2, <3>1, <3>2, <3>3, <3>4, <3>5, <3>6
  <2> QED BY <2>2 DEF Sorted
<1>8. \A c \in W : ShapeOfBlock(root, ks2, ds, lev, lo, hi, c)
  <2> TAKE c \in W
  <2>1. ShapeOfBlock(root, ks, ds, lev, lo, hi, c)
    BY DEF Shape
  <2>2. Sorted(ks2[c]) /\ Within(ks2[c], lo[c], hi[c])
    BY <1>4, <1>6, <1>7, <2>1 DEF ShapeOfBlock
  <2> QED BY <2>1, <2>2 DEF ShapeOfBlock
<1>9. \A c \in W : ShapeOfKids(ks2, ds, lev, lo, hi, 0, 0, c)
  BY <1>4 DEF Shape, ShapeOfKids
<1>10. \A c \in W : ks2[c] = <<>> => c \in E
  <2>1. ks2[b] # <<>>
    BY <1>2, <1>3, <1>4, EmptySeq
  <2> QED BY <1>4, <2>1 DEF Shape
<1> QED BY <1>5, <1>8, <1>9, <1>10 DEF Shape

\* What a shape says of one block: its keys rise inside of its bounds, and it
\* has one more kid than keys.
LEMMA BlockFacts ==
  ASSUME NEW K, Ordered(K), NEW low, NEW high, NEW W, NEW root, NEW ks, NEW ds, NEW lev, NEW lo,
         NEW hi, NEW x, NEW kid, NEW E,
         Shape(K, low, high, W, root, ks, ds, lev, lo, hi, x, kid, E),
         NEW b \in W
  PROVE  /\ b \in Nat /\ b # 0 /\ root \in W
         /\ lo[b] \in K /\ hi[b] \in K /\ Less(lo[b], hi[b])
         /\ lev[b] \in Nat /\ lev[root] \in Nat /\ lev[b] <= lev[root]
         /\ ks[b] \in Seq(K) /\ Len(ks[b]) \in Nat
         /\ ds[b] \in Seq(W) /\ Len(ds[b]) \in Nat
         /\ (lev[b] = 0) <=> (ds[b] = <<>>)
         /\ ds[b] # <<>> => Len(ds[b]) = Len(ks[b]) + 1
         /\ \A i \in 1 .. Len(ks[b]) : /\ ks[b][i] \in K
                                       /\ Less(lo[b], ks[b][i]) /\ Less(ks[b][i], hi[b])
         /\ \A i, j \in 1 .. Len(ks[b]) : i < j => Less(ks[b][i], ks[b][j])
<1>1. ShapeTypes(K, W, root, ks, ds, lev, lo, hi)
  BY DEF Shape
<1>2. /\ b \in Nat /\ b # 0 /\ root \in W /\ lo[b] \in K /\ hi[b] \in K
      /\ lev[b] \in Nat /\ lev[root] \in Nat /\ ks[b] \in Seq(K) /\ ds[b] \in Seq(W)
  BY <1>1 DEF ShapeTypes
<1>3. Len(ks[b]) \in Nat /\ Len(ds[b]) \in Nat
  BY <1>2, LenProperties
<1>4. lev[b] <= lev[root] /\ Less(lo[b], hi[b])
  BY DEF Shape, ShapeOfBlock
<1>9. (lev[b] = 0) <=> (ds[b] = <<>>)
  BY DEF Shape, ShapeOfBlock
<1>5. ds[b] # <<>> => Len(ds[b]) = Len(ks[b]) + 1
  BY DEF Shape, ShapeOfKids
<1>6. \A i \in 1 .. Len(ks[b]) : ks[b][i] \in K
  BY <1>2, ElementOfSeq
<1>7. \A i \in 1 .. Len(ks[b]) : Less(lo[b], ks[b][i]) /\ Less(ks[b][i], hi[b])
  <2>1. Within(ks[b], lo[b], hi[b])
    BY DEF Shape, ShapeOfBlock
  <2> QED BY <2>1 DEF Within
<1>8. \A i, j \in 1 .. Len(ks[b]) : i < j => Less(ks[b][i], ks[b][j])
  <2>1. Sorted(ks[b])
    BY DEF Shape, ShapeOfBlock
  <2> QED BY <2>1 DEF Sorted
<1> QED BY <1>2, <1>3, <1>4, <1>5, <1>6, <1>7, <1>8, <1>9

\* What a shape says of one kid: it is a level lower and its bounds are the
\* keys beside its place.
LEMMA PlaceFacts ==
  ASSUME NEW K, Ordered(K), NEW low, NEW high, NEW W, NEW root, NEW ks, NEW ds, NEW lev, NEW lo,
         NEW hi, NEW x, NEW kid, NEW E,
         Shape(K, low, high, W, root, ks, ds, lev, lo, hi, x, kid, E),
         NEW p \in W, ds[p] # <<>>, NEW i \in 1 .. Len(ks[p]) + 1
  PROVE  /\ i \in 1 .. Len(ds[p]) /\ ds[p][i] \in W
         /\ lev[ds[p][i]] + 1 = lev[p] /\ lev[ds[p][i]] \in Nat
         /\ lo[ds[p][i]] = LowerAt(ks[p], lo[p], i)
         /\ EndOf(hi, x, kid, ds[p][i]) = UpperAt(ks[p], hi[p], i)
         /\ LowerAt(ks[p], lo[p], i) \in K /\ UpperAt(ks[p], hi[p], i) \in K
         /\ Leq(lo[p], LowerAt(ks[p], lo[p], i))
         /\ Less(LowerAt(ks[p], lo[p], i), UpperAt(ks[p], hi[p], i))
         /\ Leq(UpperAt(ks[p], hi[p], i), hi[p])
         /\ \A j \in 1 .. Len(ks[p]) : j < i => Leq(ks[p][j], LowerAt(ks[p], lo[p], i))
         /\ \A j \in 1 .. Len(ks[p]) : j >= i => Leq(UpperAt(ks[p], hi[p], i), ks[p][j])
<1>1. /\ lo[p] \in K /\ hi[p] \in K /\ Less(lo[p], hi[p]) /\ Len(ks[p]) \in Nat
      /\ ds[p] \in Seq(W) /\ Len(ds[p]) = Len(ks[p]) + 1
      /\ \A j \in 1 .. Len(ks[p]) : /\ ks[p][j] \in K
                                    /\ Less(lo[p], ks[p][j]) /\ Less(ks[p][j], hi[p])
      /\ \A j, l \in 1 .. Len(ks[p]) : j < l => Less(ks[p][j], ks[p][l])
  <2>1. /\ lo[p] \in K /\ hi[p] \in K /\ Less(lo[p], hi[p]) /\ Len(ks[p]) \in Nat
        /\ ds[p] \in Seq(W) /\ (ds[p] # <<>> => Len(ds[p]) = Len(ks[p]) + 1)
    BY BlockFacts
  <2>2. \A j \in 1 .. Len(ks[p]) : /\ ks[p][j] \in K
                                    /\ Less(lo[p], ks[p][j]) /\ Less(ks[p][j], hi[p])
    BY BlockFacts
  <2>3. \A j, l \in 1 .. Len(ks[p]) : j < l => Less(ks[p][j], ks[p][l])
    BY BlockFacts
  <2> QED BY <2>1, <2>2, <2>3
<1>2. i \in 1 .. Len(ds[p]) /\ ds[p][i] \in W
  BY <1>1, ElementOfSeq
<1>3. /\ lev[ds[p][i]] + 1 = lev[p] /\ lo[ds[p][i]] = LowerAt(ks[p], lo[p], i)
      /\ EndOf(hi, x, kid, ds[p][i]) = UpperAt(ks[p], hi[p], i)
  BY DEF Shape, ShapeOfKids
<1>4. lev[ds[p][i]] \in Nat
  BY <1>2, BlockFacts
<1>5. /\ i = 1 => LowerAt(ks[p], lo[p], i) = lo[p]
      /\ i # 1 => i - 1 \in 1 .. Len(ks[p]) /\ LowerAt(ks[p], lo[p], i) = ks[p][i - 1]
      /\ i = Len(ks[p]) + 1 => UpperAt(ks[p], hi[p], i) = hi[p]
      /\ i # Len(ks[p]) + 1 => i \in 1 .. Len(ks[p]) /\ UpperAt(ks[p], hi[p], i) = ks[p][i]
  BY <1>1 DEF LowerAt, UpperAt
<1> DEFINE a == LowerAt(ks[p], lo[p], i)
           z == UpperAt(ks[p], hi[p], i)
           s == ks[p]
<1> HIDE DEF a, z, s
<1>6. a \in K /\ z \in K /\ Leq(lo[p], a) /\ Leq(z, hi[p])
  BY <1>1, <1>5 DEF Leq, a, z
<1>7. Less(a, z)
  <2>1. CASE i = 1
    BY <1>1, <1>5, <2>1 DEF a, z
  <2>2. CASE i # 1
    <3>1. i - 1 < i
      OBVIOUS
    <3> QED BY <1>1, <1>5, <2>2, <3>1 DEF a, z
  <2> QED BY <2>1, <2>2
<1>8. ASSUME NEW j \in 1 .. Len(ks[p]), j < i PROVE Leq(ks[p][j], a)
  <2>1. i # 1 /\ (j = i - 1 \/ j < i - 1)
    BY <1>8
  <2> QED BY <1>1, <1>5, <2>1 DEF Leq, a
<1>9. ASSUME NEW j \in 1 .. Len(ks[p]), j >= i PROVE Leq(z, ks[p][j])
  <2>1. i # Len(ks[p]) + 1 /\ (j = i \/ i < j)
    BY <1>1, <1>9
  <2> QED BY <1>1, <1>5, <2>1 DEF Leq, z
<1> QED BY <1>2, <1>3, <1>4, <1>6, <1>7, <1>8, <1>9 DEF a, z

\* Two blocks of one level are the same when something lies between the bounds of both.
LEMMA OneOfLevel ==
  ASSUME NEW K, Ordered(K), NEW low, NEW high, NEW W, NEW root, NEW ks, NEW ds, NEW lev, NEW lo,
         NEW hi, NEW x, NEW kid, NEW E,
         Shape(K, low, high, W, root, ks, ds, lev, lo, hi, x, kid, E),
         NEW b \in W, NEW c \in W, lev[b] = lev[c], NEW a \in K, NEW z \in K, Less(a, z),
         Leq(lo[b], a), Leq(z, hi[b]), Leq(lo[c], a), Leq(z, hi[c])
  PROVE  b = c
<1>1. lo[b] \in K /\ hi[b] \in K /\ lo[c] \in K /\ hi[c] \in K
  BY BlockFacts
<1>2. b # c => Leq(hi[b], lo[c]) \/ Leq(hi[c], lo[b])
  BY DEF Shape, Apart
<1>3. Less(a, hi[b]) /\ Less(a, hi[c]) /\ Less(lo[b], z) /\ Less(lo[c], z)
  BY <1>1, Order
<1>4. ~ Leq(hi[b], lo[c])
  <2>1. Leq(hi[b], lo[c]) => Less(a, a)
    BY <1>1, <1>3, Order
  <2> QED BY <2>1, Order
<1>5. ~ Leq(hi[c], lo[b])
  <2>1. Leq(hi[c], lo[b]) => Less(a, a)
    BY <1>1, <1>3, Order
  <2> QED BY <2>1, Order
<1> QED BY <1>2, <1>4, <1>5

\* No block is the kid of two places.
LEMMA OnePlace ==
  ASSUME NEW K, Ordered(K), NEW low, NEW high, NEW W, NEW root, NEW ks, NEW ds, NEW lev, NEW lo,
         NEW hi, NEW x, NEW kid, NEW E,
         Shape(K, low, high, W, root, ks, ds, lev, lo, hi, x, kid, E),
         NEW p \in W, ds[p] # <<>>, NEW i \in 1 .. Len(ks[p]) + 1,
         NEW q \in W, ds[q] # <<>>, NEW j \in 1 .. Len(ks[q]) + 1, ds[p][i] = ds[q][j]
  PROVE  p = q /\ i = j
<1> DEFINE a == LowerAt(ks[p], lo[p], i)
           z == UpperAt(ks[p], hi[p], i)
<1>1. /\ a \in K /\ z \in K /\ Leq(lo[p], a) /\ Less(a, z) /\ Leq(z, hi[p])
      /\ lo[ds[p][i]] = a /\ EndOf(hi, x, kid, ds[p][i]) = z /\ lev[ds[p][i]] + 1 = lev[p]
      /\ \A l \in 1 .. Len(ks[p]) : l < i => Leq(ks[p][l], a)
      /\ \A l \in 1 .. Len(ks[p]) : l >= i => Leq(z, ks[p][l])
      /\ a = LowerAt(ks[p], lo[p], i) /\ z = UpperAt(ks[p], hi[p], i)
  BY PlaceFacts
<1> HIDE DEF a, z
<1>2. /\ a = LowerAt(ks[q], lo[q], j) /\ z = UpperAt(ks[q], hi[q], j)
      /\ Leq(lo[q], a) /\ Leq(z, hi[q]) /\ lev[ds[q][j]] + 1 = lev[q]
  <2>1. /\ Leq(lo[q], LowerAt(ks[q], lo[q], j)) /\ Leq(UpperAt(ks[q], hi[q], j), hi[q])
        /\ lo[ds[q][j]] = LowerAt(ks[q], lo[q], j)
        /\ EndOf(hi, x, kid, ds[q][j]) = UpperAt(ks[q], hi[q], j) /\ lev[ds[q][j]] + 1 = lev[q]
    BY PlaceFacts
  <2> QED BY <1>1, <2>1
<1>3. p = q
  BY <1>1, <1>2, OneOfLevel
<1>4. Len(ks[p]) \in Nat
  BY BlockFacts
<1>5. ~ (i < j)
  <2> SUFFICES ASSUME i < j PROVE FALSE
    OBVIOUS
  <2>1. i \in 1 .. Len(ks[p]) /\ i # Len(ks[p]) + 1
    BY <1>3, <1>4
  <2>2. \A l \in 1 .. Len(ks[q]) : l < j => Leq(ks[q][l], a)
    BY <1>2, PlaceFacts
  <2>3. z = ks[p][i] /\ Leq(ks[p][i], a)
    BY <1>1, <1>3, <2>1, <2>2 DEF UpperAt
  <2>4. Less(a, a)
    BY <1>1, <2>3, Order
  <2> QED BY <1>1, <2>4, Order
<1>6. ~ (j < i)
  <2> SUFFICES ASSUME j < i PROVE FALSE
    OBVIOUS
  <2>1. j \in 1 .. Len(ks[p]) /\ j # Len(ks[p]) + 1
    BY <1>3, <1>4
  <2>2. z = ks[p][j] /\ Leq(ks[p][j], a)
    BY <1>1, <1>2, <1>3, <2>1 DEF UpperAt
  <2>3. Less(a, a)
    BY <1>1, <2>2, Order
  <2> QED BY <1>1, <2>3, Order
<1>7. i = j
  BY <1>3, <1>4, <1>5, <1>6
<1> QED BY <1>3, <1>7

-----------------------------------------------------------------------------
(***************************************************************************)
(* The shape while keys go in and out: a key into a leaf, a key of a leaf  *)
(* in the place of the one before it in a branch.                          *)
(***************************************************************************)
\* Every block but the root is a kid.
LEMMA HasParent ==
  ASSUME NEW K, Ordered(K), NEW low, NEW high, NEW W, NEW root, NEW ks, NEW ds, NEW lev, NEW lo,
         NEW hi, NEW E, Shape(K, low, high, W, root, ks, ds, lev, lo, hi, 0, 0, E),
         NEW b \in W, b # root
  PROVE  \E p \in W : ds[p] # <<>> /\ \E i \in 1 .. Len(ks[p]) + 1 : ds[p][i] = b
<1>1. b # 0
  BY BlockFacts
<1>2. PICK p \in W : IsKidOf(ds, b, p)
  <2>1. b \in {root, 0} \/ \E p \in W : IsKidOf(ds, b, p)
    BY DEF Shape
  <2> QED BY <1>1, <2>1
<1>3. PICK i \in 1 .. Len(ds[p]) : ds[p][i] = b
  BY <1>2 DEF IsKidOf
<1>4. ds[p] # <<>>
  <2>1. Len(ds[p]) # 0
    BY <1>3
  <2> QED BY <2>1
<1>5. Len(ds[p]) = Len(ks[p]) + 1
  BY <1>4, BlockFacts
<1> QED BY <1>3, <1>4, <1>5

\* c lies below a, and between two keys of it.
Covers(ks, lev, lo, hi, a, c) ==
  /\ Leq(lo[a], lo[c]) /\ Leq(hi[c], hi[a])
  /\ lev[a] # lev[c] => \A i \in 1 .. Len(ks[a]) : Leq(ks[a][i], lo[c]) \/ Leq(hi[c], ks[a][i])

\* Every block has one above it at each level up to the root.
LEMMA AncestorAt ==
  ASSUME NEW K, Ordered(K), NEW low, NEW high, NEW W, NEW root, NEW ks, NEW ds, NEW lev, NEW lo,
         NEW hi, NEW E, Shape(K, low, high, W, root, ks, ds, lev, lo, hi, 0, 0, E),
         NEW c \in W, NEW j \in Nat, lev[c] <= j, j <= lev[root]
  PROVE  \E a \in W : lev[a] = j /\ Covers(ks, lev, lo, hi, a, c)
<1>1. lev[c] \in Nat /\ lev[root] \in Nat /\ lo[c] \in K /\ hi[c] \in K
  BY BlockFacts
<1> DEFINE T == {n \in Nat : lev[c] + n <= lev[root] =>
                   \E a \in W : lev[a] = lev[c] + n /\ Covers(ks, lev, lo, hi, a, c)}
<1>2. 0 \in T
  <2>1. Covers(ks, lev, lo, hi, c, c)
    BY DEF Covers, Leq
  <2> QED BY <1>1, <2>1
<1>3. ASSUME NEW n \in T PROVE n + 1 \in T
  <2>1. n \in Nat
    OBVIOUS
  <2> SUFFICES ASSUME lev[c] + (n + 1) <= lev[root]
               PROVE  \E a \in W : lev[a] = lev[c] + (n + 1) /\ Covers(ks, lev, lo, hi, a, c)
    BY <2>1
  <2>2. PICK a \in W : lev[a] = lev[c] + n /\ Covers(ks, lev, lo, hi, a, c)
    BY <1>1, <1>3, <2>1
  <2>3. a # root
    BY <1>1, <2>1, <2>2
  <2>4. PICK p \in W : ds[p] # <<>> /\ \E i \in 1 .. Len(ks[p]) + 1 : ds[p][i] = a
    BY <2>3, HasParent
  <2>5. PICK i \in 1 .. Len(ks[p]) + 1 : ds[p][i] = a
    BY <2>4
  <2>6. /\ lev[a] + 1 = lev[p] /\ lo[a] = LowerAt(ks[p], lo[p], i)
        /\ EndOf(hi, 0, 0, a) = UpperAt(ks[p], hi[p], i)
        /\ Leq(lo[p], LowerAt(ks[p], lo[p], i)) /\ Leq(UpperAt(ks[p], hi[p], i), hi[p])
    BY <2>4, <2>5, PlaceFacts
  <2>7. /\ \A l \in 1 .. Len(ks[p]) : l < i => Leq(ks[p][l], LowerAt(ks[p], lo[p], i))
        /\ \A l \in 1 .. Len(ks[p]) : l >= i => Leq(UpperAt(ks[p], hi[p], i), ks[p][l])
    BY <2>4, <2>5, PlaceFacts
  <2>8. a # 0 /\ lo[a] \in K /\ hi[a] \in K /\ Len(ks[p]) \in Nat /\ lo[p] \in K /\ hi[p] \in K
    BY BlockFacts
  <2>9. EndOf(hi, 0, 0, a) = hi[a]
    BY <2>8 DEF EndOf
  <2>10. lev[p] = lev[c] + (n + 1)
    BY <1>1, <2>1, <2>2, <2>6
  <2>11. Leq(lo[a], lo[c]) /\ Leq(hi[c], hi[a])
    BY <2>2 DEF Covers
  <2>12. Leq(lo[p], lo[c]) /\ Leq(hi[c], hi[p])
    BY <1>1, <2>6, <2>8, <2>9, <2>11, Order
  <2>13. \A l \in 1 .. Len(ks[p]) : ks[p][l] \in K
    BY BlockFacts
  <2>14. \A l \in 1 .. Len(ks[p]) : Leq(ks[p][l], lo[c]) \/ Leq(hi[c], ks[p][l])
    <3> TAKE l \in 1 .. Len(ks[p])
    <3>1. CASE l < i
      BY <1>1, <2>6, <2>7, <2>8, <2>11, <2>13, <3>1, Order
    <3>2. CASE l >= i
      BY <1>1, <2>6, <2>7, <2>8, <2>9, <2>11, <2>13, <3>2, Order
    <3> QED BY <2>8, <3>1, <3>2
  <2>15. Covers(ks, lev, lo, hi, p, c)
    BY <2>12, <2>14 DEF Covers
  <2> QED BY <2>10, <2>15
<1> HIDE DEF T
<1>4. T = Nat
  <2>1. T \in SUBSET Nat
    BY DEF T
  <2> QED BY <1>2, <1>3, <2>1, EveryNumber
<1>5. j - lev[c] \in Nat /\ lev[c] + (j - lev[c]) = j
  BY <1>1
<1> DEFINE n == j - lev[c]
<1>6. n \in T /\ lev[c] + n = j
  BY <1>4, <1>5
<1> HIDE DEF n
<1> QED BY <1>6 DEF T

\* What lies strictly between the bounds of a block is not at a bound of one at its level or
\* above it, nor a key of another block there.
LEMMA Inside ==
  ASSUME NEW K, Ordered(K), NEW low, NEW high, NEW W, NEW root, NEW ks, NEW ds, NEW lev, NEW lo,
         NEW hi, NEW E, Shape(K, low, high, W, root, ks, ds, lev, lo, hi, 0, 0, E),
         NEW b \in W, NEW k \in K, Less(lo[b], k), Less(k, hi[b]),
         NEW c \in W, lev[b] <= lev[c]
  PROVE  /\ lo[c] # k /\ hi[c] # k
         /\ c # b => \A i \in 1 .. Len(ks[c]) : ks[c][i] # k
<1>1. /\ lev[c] \in Nat /\ lev[c] <= lev[root] /\ lo[c] \in K /\ hi[c] \in K /\ Less(lo[c], hi[c])
      /\ lo[b] \in K /\ hi[b] \in K
      /\ \A i \in 1 .. Len(ks[c]) : ks[c][i] \in K /\ Less(lo[c], ks[c][i]) /\ Less(ks[c][i], hi[c])
  BY BlockFacts
<1>2. PICK a \in W : lev[a] = lev[c] /\ Covers(ks, lev, lo, hi, a, b)
  BY <1>1, AncestorAt
<1>3. Leq(lo[a], lo[b]) /\ Leq(hi[b], hi[a]) /\ lo[a] \in K /\ hi[a] \in K
  BY <1>2, BlockFacts DEF Covers
<1>4. Less(lo[a], k) /\ Less(k, hi[a])
  BY <1>1, <1>3, Order
<1>5. a # c => Leq(hi[a], lo[c]) \/ Leq(hi[c], lo[a])
  BY <1>2 DEF Shape, Apart
<1>6. lo[c] # k /\ hi[c] # k
  BY <1>1, <1>3, <1>4, <1>5, Order
<1>7. ASSUME c # b, NEW i \in 1 .. Len(ks[c]), ks[c][i] = k PROVE FALSE
  <2>1. Less(lo[c], k) /\ Less(k, hi[c])
    BY <1>1, <1>7
  <2>2. a = c
    BY <1>1, <1>3, <1>4, <1>5, <2>1, Order
  <2>3. Leq(k, lo[b]) \/ Leq(hi[b], k)
    <3>1. lev[a] # lev[b]
      <4>1. lev[c] = lev[b] => Leq(hi[b], lo[c]) \/ Leq(hi[c], lo[b])
        BY <1>7 DEF Shape, Apart
      <4> QED BY <1>1, <1>2, <2>1, <4>1, Order
    <3> QED BY <1>2, <1>7, <2>2, <3>1 DEF Covers
  <2> QED BY <1>1, <2>3, Order
<1> QED BY <1>6, <1>7

\* No key is in two places of the tree.
LEMMA KeyOnce ==
  ASSUME NEW K, Ordered(K), NEW low, NEW high, NEW W, NEW root, NEW ks, NEW ds, NEW lev, NEW lo,
         NEW hi, NEW E, Shape(K, low, high, W, root, ks, ds, lev, lo, hi, 0, 0, E),
         NEW b \in W, NEW i \in 1 .. Len(ks[b]), NEW c \in W, NEW j \in 1 .. Len(ks[c]),
         ks[b][i] = ks[c][j]
  PROVE  b = c /\ i = j
<1>1. /\ ks[b][i] \in K /\ Less(lo[b], ks[b][i]) /\ Less(ks[b][i], hi[b]) /\ lev[b] \in Nat
      /\ Len(ks[b]) \in Nat /\ \A l, m \in 1 .. Len(ks[b]) : l < m => Less(ks[b][l], ks[b][m])
  BY BlockFacts
<1>2. ks[c][j] \in K /\ Less(lo[c], ks[c][j]) /\ Less(ks[c][j], hi[c]) /\ lev[c] \in Nat
  BY BlockFacts
<1> DEFINE k == ks[b][i]
<1>3. k \in K /\ Less(lo[b], k) /\ Less(k, hi[b]) /\ Less(lo[c], k) /\ Less(k, hi[c]) /\ ks[c][j] = k
  BY <1>1, <1>2
<1>4. k = ks[b][i]
  OBVIOUS
<1> HIDE DEF k
<1>5. CASE lev[b] <= lev[c]
  <2>1. c # b => \A l \in 1 .. Len(ks[c]) : ks[c][l] # k
    BY <1>3, <1>5, Inside
  <2>2. c = b
    BY <1>3, <2>1
  <2>3. ~ (i < j) /\ ~ (j < i)
    BY <1>1, <1>3, <1>4, <2>2, Order
  <2> QED BY <2>2, <2>3
<1>6. CASE lev[c] <= lev[b]
  <2>1. b # c => \A l \in 1 .. Len(ks[b]) : ks[b][l] # k
    BY <1>3, <1>6, Inside
  <2>2. c = b
    BY <1>4, <2>1
  <2>3. ~ (i < j) /\ ~ (j < i)
    BY <1>1, <1>3, <1>4, <2>2, Order
  <2> QED BY <2>2, <2>3
<1> QED BY <1>1, <1>2, <1>5, <1>6

\* Neither a bound nor a key of another block lies strictly between the bounds of a leaf.
LEMMA OutsideLeaf ==
  ASSUME NEW K, Ordered(K), NEW low, NEW high, NEW W, NEW root, NEW ks, NEW ds, NEW lev, NEW lo,
         NEW hi, NEW E, Shape(K, low, high, W, root, ks, ds, lev, lo, hi, 0, 0, E),
         NEW b \in W, lev[b] = 0, NEW c \in W
  PROVE  /\ Leq(lo[c], lo[b]) \/ Leq(hi[b], lo[c])
         /\ Leq(hi[c], lo[b]) \/ Leq(hi[b], hi[c])
         /\ c # b => \A i \in 1 .. Len(ks[c]) : Leq(ks[c][i], lo[b]) \/ Leq(hi[b], ks[c][i])
<1>1. /\ lev[c] \in Nat /\ lev[c] <= lev[root] /\ lo[c] \in K /\ hi[c] \in K /\ Less(lo[c], hi[c])
      /\ lo[b] \in K /\ hi[b] \in K
      /\ \A i \in 1 .. Len(ks[c]) : ks[c][i] \in K /\ Less(lo[c], ks[c][i]) /\ Less(ks[c][i], hi[c])
  BY BlockFacts
<1>2. PICK a \in W : lev[a] = lev[c] /\ Covers(ks, lev, lo, hi, a, b)
  BY <1>1, AncestorAt
<1>3. Leq(lo[a], lo[b]) /\ Leq(hi[b], hi[a]) /\ lo[a] \in K /\ hi[a] \in K
  BY <1>2, BlockFacts DEF Covers
<1>4. CASE a = c
  <2>1. c # b => lev[a] # lev[b]
    <3>1. c # b /\ lev[c] = lev[b] => Leq(hi[b], lo[c]) \/ Leq(hi[c], lo[b])
      BY DEF Shape, Apart
    <3>2. Less(lo[b], hi[b])
      BY BlockFacts
    <3>3. c # b /\ lev[c] = lev[b] => Less(lo[c], lo[c]) \/ Less(hi[c], hi[c])
      BY <1>1, <1>3, <1>4, <3>1, <3>2, Order
    <3> QED BY <1>1, <1>2, <3>3, Order
  <2> QED BY <1>2, <1>3, <1>4, <2>1 DEF Covers
<1>5. CASE a # c
  <2>1. Leq(hi[a], lo[c]) \/ Leq(hi[c], lo[a])
    BY <1>2, <1>5 DEF Shape, Apart
  <2>2. CASE Leq(hi[a], lo[c])
    <3>1. Leq(hi[b], lo[c])
      BY <1>1, <1>3, <2>2, Order
    <3> QED BY <1>1, <3>1, Order DEF Leq
  <2>3. CASE Leq(hi[c], lo[a])
    <3>1. Leq(hi[c], lo[b])
      BY <1>1, <1>3, <2>3, Order
    <3> QED BY <1>1, <3>1, Order DEF Leq
  <2> QED BY <2>1, <2>2, <2>3
<1> QED BY <1>4, <1>5

\* The next key takes the place of a key k of a U block: h, the first key of the leaf that
\* begins at k.
Instead(k, h, e) == IF e = k THEN h ELSE e

\* What Tail and Head give.
LEMMA TailIs ==
  ASSUME NEW S, NEW s \in Seq(S), s # <<>>
  PROVE  /\ Tail(s) \in Seq(S) /\ Len(Tail(s)) = Len(s) - 1 /\ Len(s) \in Nat /\ Len(s) >= 1
         /\ \A i \in 1 .. Len(s) - 1 : Tail(s)[i] = s[i + 1]
         /\ Head(s) = s[1] /\ Head(s) \in S
<1>1. Len(s) \in Nat /\ Len(s) # 0 /\ s \in [1 .. Len(s) -> S]
  BY LenProperties, EmptySeq
<1>2. Tail(s) \in Seq(S) /\ Len(Tail(s)) = Len(s) - 1 /\ Head(s) = s[1] /\ Head(s) \in S
  BY HeadTailProperties
<1>3. \A i \in 1 .. Len(s) - 1 : Tail(s)[i] = s[i + 1]
  BY <1>1
<1> QED BY <1>1, <1>2, <1>3

\* With h, a key of the leaf y after the key k, in place of k, the bounds and
\* the keys of every block stay in order.
LEMMA HeirBetween ==
  ASSUME NEW K, Ordered(K), NEW low, NEW high, NEW W, NEW root, NEW ks, NEW ds, NEW lev, NEW lo,
         NEW hi, NEW E, Shape(K, low, high, W, root, ks, ds, lev, lo, hi, 0, 0, E),
         NEW b \in W, NEW j \in 1 .. Len(ks[b]), NEW y \in W, lev[y] = 0, b # y,
         lo[y] = ks[b][j], NEW h \in K, Less(lo[y], h), Less(h, hi[y]), NEW k, k = ks[b][j],
         NEW c \in W
  PROVE  /\ Less(Instead(k, h, lo[c]), Instead(k, h, hi[c]))
         /\ Instead(k, h, lo[c]) \in K /\ Instead(k, h, hi[c]) \in K
         /\ \A i \in 1 .. Len(ks[c]) : <<c, i>> # <<b, j>> =>
              /\ ks[c][i] # k
              /\ c # y \/ Less(h, ks[c][i]) =>
                   Less(Instead(k, h, lo[c]), ks[c][i]) /\ Less(ks[c][i], Instead(k, h, hi[c]))
         /\ c = b => lo[b] # k /\ hi[b] # k /\ Less(lo[b], h) /\ Less(h, hi[b])
         /\ c = b => \A i \in 1 .. Len(ks[b]) : /\ i < j => Less(ks[b][i], h)
                                                /\ i > j => Less(h, ks[b][i])
<1>1. /\ lo[c] \in K /\ hi[c] \in K /\ Less(lo[c], hi[c])
      /\ \A i \in 1 .. Len(ks[c]) : ks[c][i] \in K /\ Less(lo[c], ks[c][i]) /\ Less(ks[c][i], hi[c])
  BY BlockFacts
<1>2. /\ lo[b] \in K /\ hi[b] \in K /\ k \in K /\ Less(lo[b], k) /\ Less(k, hi[b])
      /\ \A i, l \in 1 .. Len(ks[b]) : i < l => Less(ks[b][i], ks[b][l])
      /\ \A i \in 1 .. Len(ks[b]) : ks[b][i] \in K /\ Less(lo[b], ks[b][i]) /\ Less(ks[b][i], hi[b])
  BY BlockFacts
<1>3. lo[y] \in K /\ hi[y] \in K /\ lo[y] = k
  BY BlockFacts
<1>4. /\ Leq(lo[c], k) \/ Leq(hi[y], lo[c])
      /\ Leq(hi[c], k) \/ Leq(hi[y], hi[c])
      /\ c # y => \A i \in 1 .. Len(ks[c]) : Leq(ks[c][i], k) \/ Leq(hi[y], ks[c][i])
  BY <1>3, OutsideLeaf
<1>5. \A e \in K : Leq(e, k) \/ Leq(hi[y], e) => e = k \/ Less(e, k) \/ Less(h, e)
  BY <1>2, <1>3, Order DEF Leq
<1>6. Instead(k, h, lo[c]) \in K /\ Instead(k, h, hi[c]) \in K
  BY <1>1 DEF Instead
<1>7. Less(k, h)
  BY <1>3
<1>8. Less(Instead(k, h, lo[c]), Instead(k, h, hi[c]))
  BY <1>1, <1>2, <1>3, <1>4, <1>5, <1>7, Order DEF Instead
<1>9. ASSUME NEW i \in 1 .. Len(ks[c]), <<c, i>> # <<b, j>> PROVE ks[c][i] # k
  BY <1>9, KeyOnce
<1>10. ASSUME NEW i \in 1 .. Len(ks[c]), <<c, i>> # <<b, j>>, c # y \/ Less(h, ks[c][i])
       PROVE  Less(Instead(k, h, lo[c]), ks[c][i]) /\ Less(ks[c][i], Instead(k, h, hi[c]))
  <2>1. ks[c][i] # k /\ ks[c][i] \in K /\ Less(lo[c], ks[c][i]) /\ Less(ks[c][i], hi[c])
    BY <1>1, <1>9, <1>10
  <2>2. Less(ks[c][i], k) \/ Less(h, ks[c][i])
    <3>1. CASE c # y
      <4>1. Leq(ks[c][i], k) \/ Leq(hi[y], ks[c][i])
        BY <1>4, <3>1
      <4> QED BY <1>5, <2>1, <4>1
    <3> QED BY <1>10, <3>1
  <2> QED BY <1>1, <1>2, <1>7, <2>1, <2>2, Order DEF Instead
<1>11. ASSUME c = b PROVE lo[b] # k /\ hi[b] # k /\ Less(lo[b], h) /\ Less(h, hi[b])
  <2>1. Less(h, hi[b])
    <3>1. Leq(hi[b], k) \/ Leq(hi[y], hi[b])
      BY <1>4, <1>11
    <3> QED BY <1>2, <1>3, <3>1, Order
  <2> QED BY <1>2, <1>7, <2>1, Order
<1>12. ASSUME c = b, NEW i \in 1 .. Len(ks[b])
       PROVE  (i < j => Less(ks[b][i], h)) /\ (i > j => Less(h, ks[b][i]))
  <2>1. i < j => Less(ks[b][i], h)
    BY <1>2, <1>7, Order
  <2>2. ASSUME i > j PROVE Less(h, ks[b][i])
    <3>1. Less(k, ks[b][i])
      BY <1>2, <2>2
    <3>2. Leq(ks[b][i], k) \/ Leq(hi[y], ks[b][i])
      BY <1>4, <1>12
    <3> QED BY <1>2, <1>3, <3>1, <3>2, Order
  <2> QED BY <2>1, <2>2
<1> QED BY <1>6, <1>8, <1>9, <1>10, <1>11, <1>12

\* The key j of b becomes the first key of the leaf y.
IsHeir(ks, b, j, y, ks2) == ks2 = [ks EXCEPT ![b] = [ks[b] EXCEPT ![j] = ks[y][1]], ![y] = Tail(ks[y])]
HasShape(K, low, high, W, root, ks, ds, lev, E) ==
  \E lo2 \in [W -> K], hi2 \in [W -> K] : Shape(K, low, high, W, root, ks, ds, lev, lo2, hi2, 0, 0, E)

\* xiodelete puts the first key of the leaf after it in the place of a key of a
\* branch (1107-1123): the shape stays.
THEOREM Heir ==
  ASSUME NEW K, Ordered(K), NEW low, NEW high, NEW W, NEW root, NEW ks, NEW ds, NEW lev, NEW lo,
         NEW hi, NEW E, Shape(K, low, high, W, root, ks, ds, lev, lo, hi, 0, 0, E),
         NEW b, b \in W, NEW j, j \in 1 .. Len(ks[b]), NEW y, y \in W, lev[y] = 0, b # y,
         lo[y] = ks[b][j], ks[y] # <<>>, NEW ks2, IsHeir(ks, b, j, y, ks2), NEW E2, E2 = E \cup {y}
  PROVE  HasShape(K, low, high, W, root, ks2, ds, lev, E2)
<1> DEFINE k == ks[b][j]
           h == ks[y][1]
           lo2 == [c \in W |-> Instead(k, h, lo[c])]
           hi2 == [c \in W |-> Instead(k, h, hi[c])]
           v == [ks[b] EXCEPT ![j] = h]
           u == Tail(ks[y])
<1>1. ShapeTypes(K, W, root, ks, ds, lev, lo, hi)
  BY DEF Shape
<1>2. ks \in [W -> Seq(K)] /\ ks[b] \in Seq(K) /\ ks[y] \in Seq(K) /\ Len(ks[b]) \in Nat /\ Len(ks[y]) \in Nat
  BY <1>1, BlockFacts DEF ShapeTypes
<1>3. /\ u \in Seq(K) /\ Len(u) = Len(ks[y]) - 1 /\ Len(ks[y]) >= 1
      /\ \A i \in 1 .. Len(ks[y]) - 1 : u[i] = ks[y][i + 1]
  <2> DEFINE s == ks[y]
  <2>1. s \in Seq(K) /\ s # <<>> /\ u = Tail(s)
    BY <1>2
  <2> HIDE DEF s, u
  <2>2. /\ Tail(s) \in Seq(K) /\ Len(Tail(s)) = Len(s) - 1 /\ Len(s) >= 1
        /\ \A i \in 1 .. Len(s) - 1 : Tail(s)[i] = s[i + 1]
    BY <2>1, TailIs
  <2> QED BY <2>1, <2>2 DEF s
<1>4. 1 \in 1 .. Len(ks[y])
  BY <1>2, <1>3
<1>5. h \in K /\ Less(lo[y], h) /\ Less(h, hi[y])
  BY <1>4, BlockFacts
<1>6. v \in Seq(K) /\ Len(v) = Len(ks[b]) /\ v[j] = h /\ \A i \in 1 .. Len(ks[b]) : i # j => v[i] = ks[b][i]
  <2> DEFINE s == ks[b]
  <2>1. s \in Seq(K) /\ j \in 1 .. Len(s) /\ v = [s EXCEPT ![j] = h] /\ s \in [1 .. Len(s) -> K] /\ Len(s) \in Nat
    BY <1>2, LenProperties
  <2> HIDE DEF s, v, h
  <2>2. v \in [1 .. Len(s) -> K] /\ v[j] = h /\ \A i \in 1 .. Len(s) : i # j => v[i] = s[i]
    BY <1>5, <2>1
  <2>3. v \in Seq(K) /\ Len(v) = Len(s)
    BY <2>1, <2>2, IsSeq
  <2> QED BY <2>2, <2>3 DEF s
<1>7. ks2 = [ks EXCEPT ![b] = v, ![y] = u]
  BY DEF IsHeir
<1>8. k = ks[b][j] /\ lo[y] = k
  OBVIOUS
<1>9. \A c \in W : lo2[c] = Instead(k, h, lo[c]) /\ hi2[c] = Instead(k, h, hi[c])
  OBVIOUS
<1>10. lo2 = [c \in W |-> Instead(k, h, lo[c])] /\ hi2 = [c \in W |-> Instead(k, h, hi[c])]
  OBVIOUS
<1>28. \A i \in 1 .. Len(ks[y]) - 1 : Less(h, u[i])
  <2> TAKE i \in 1 .. Len(ks[y]) - 1
  <2>1. i + 1 \in 1 .. Len(ks[y]) /\ 1 < i + 1 /\ u[i] = ks[y][i + 1]
    BY <1>2, <1>3
  <2>2. \A l, m \in 1 .. Len(ks[y]) : l < m => Less(ks[y][l], ks[y][m])
    BY BlockFacts
  <2> QED BY <1>4, <2>1, <2>2
<1> HIDE DEF k, h, lo2, hi2, v, u
<1>11. ks2 \in [W -> Seq(K)] /\ ks2[b] = v /\ ks2[y] = u /\ \A c \in W : c # b /\ c # y => ks2[c] = ks[c]
  BY <1>2, <1>3, <1>6, <1>7
<1>12. \A c \in W :
         /\ Less(lo2[c], hi2[c]) /\ lo2[c] \in K /\ hi2[c] \in K
         /\ \A i \in 1 .. Len(ks[c]) : <<c, i>> # <<b, j>> =>
              /\ ks[c][i] # k
              /\ c # y \/ Less(h, ks[c][i]) => Less(lo2[c], ks[c][i]) /\ Less(ks[c][i], hi2[c])
         /\ c = b => lo[b] # k /\ hi[b] # k /\ Less(lo[b], h) /\ Less(h, hi[b])
  <2> TAKE c \in W
  <2>1. /\ Less(Instead(k, h, lo[c]), Instead(k, h, hi[c]))
        /\ Instead(k, h, lo[c]) \in K /\ Instead(k, h, hi[c]) \in K
    BY <1>5, <1>8, HeirBetween
  <2>2. \A i \in 1 .. Len(ks[c]) : <<c, i>> # <<b, j>> =>
              /\ ks[c][i] # k
              /\ c # y \/ Less(h, ks[c][i]) =>
                   Less(Instead(k, h, lo[c]), ks[c][i]) /\ Less(ks[c][i], Instead(k, h, hi[c]))
    BY <1>5, <1>8, HeirBetween
  <2>3. c = b => lo[b] # k /\ hi[b] # k /\ Less(lo[b], h) /\ Less(h, hi[b])
    BY <1>5, <1>8, HeirBetween
  <2> QED BY <1>9, <2>1, <2>2, <2>3
<1>13. \A i \in 1 .. Len(ks[b]) : (i < j => Less(ks[b][i], h)) /\ (i > j => Less(h, ks[b][i]))
  <2>1. b = b => \A i \in 1 .. Len(ks[b]) : /\ i < j => Less(ks[b][i], h)
                                            /\ i > j => Less(h, ks[b][i])
    BY <1>5, <1>8, HeirBetween
  <2> QED BY <2>1
<1>14. lo2 \in [W -> K] /\ hi2 \in [W -> K]
  BY <1>10, <1>12
<1>15. ShapeTypes(K, W, root, ks2, ds, lev, lo2, hi2)
  BY <1>1, <1>11, <1>14 DEF ShapeTypes
<1>16. \A c \in W : Sorted(ks2[c]) /\ Within(ks2[c], lo2[c], hi2[c])
  <2> TAKE c \in W
  <2>1. CASE c = b
    <3>1. Sorted(v)
      <4>1. ASSUME NEW i \in 1 .. Len(v), NEW l \in 1 .. Len(v), i < l PROVE Less(v[i], v[l])
        <5>1. Less(ks[b][i], ks[b][l])
          BY <1>6, <4>1, BlockFacts
        <5>2. i \in 1 .. Len(ks[b]) /\ l \in 1 .. Len(ks[b]) /\ i \in Int /\ l \in Int /\ j \in Int
          BY <1>6
        <5>3. i = j => v[i] = h /\ v[l] = ks[b][l] /\ Less(h, ks[b][l])
          BY <1>6, <1>13, <4>1, <5>2
        <5>4. l = j => v[l] = h /\ v[i] = ks[b][i] /\ Less(ks[b][i], h)
          BY <1>6, <1>13, <4>1, <5>2
        <5>5. i # j /\ l # j => v[i] = ks[b][i] /\ v[l] = ks[b][l]
          BY <1>6, <5>2
        <5> QED BY <5>1, <5>3, <5>4, <5>5
      <4> QED BY <4>1 DEF Sorted
    <3>2. Within(v, lo2[b], hi2[b])
      <4>1. ASSUME NEW i \in 1 .. Len(v) PROVE Less(lo2[b], v[i]) /\ Less(v[i], hi2[b])
        <5>1. CASE i = j
          BY <1>6, <1>9, <1>12, <5>1 DEF Instead
        <5>2. CASE i # j
          <6>1. <<b, i>> # <<b, j>> /\ i \in 1 .. Len(ks[b])
            BY <1>6, <5>2
          <6>2. Less(lo2[b], ks[b][i]) /\ Less(ks[b][i], hi2[b])
            BY <1>12, <6>1
          <6> QED BY <1>6, <5>2, <6>1, <6>2
        <5> QED BY <5>1, <5>2
      <4> QED BY <4>1 DEF Within
    <3> QED BY <1>11, <2>1, <3>1, <3>2
  <2>2. CASE c = y
    <3>1. Sorted(u)
      <4>1. ASSUME NEW i \in 1 .. Len(u), NEW l \in 1 .. Len(u), i < l PROVE Less(u[i], u[l])
        <5>1. i + 1 \in 1 .. Len(ks[y]) /\ l + 1 \in 1 .. Len(ks[y]) /\ i + 1 < l + 1
          BY <1>2, <1>3, <4>1
        <5>2. \A m, n \in 1 .. Len(ks[y]) : m < n => Less(ks[y][m], ks[y][n])
          BY BlockFacts
        <5>3. Less(ks[y][i + 1], ks[y][l + 1])
          BY <5>1, <5>2
        <5> QED BY <1>3, <4>1, <5>3
      <4> QED BY <4>1 DEF Sorted
    <3>2. Within(u, lo2[y], hi2[y])
      <4>1. ASSUME NEW i \in 1 .. Len(u) PROVE Less(lo2[y], u[i]) /\ Less(u[i], hi2[y])
        <5>1. i + 1 \in 1 .. Len(ks[y]) /\ <<y, i + 1>> # <<b, j>> /\ Less(h, u[i]) /\ u[i] = ks[y][i + 1]
          BY <1>2, <1>3, <1>28
        <5>2. Less(lo2[y], ks[y][i + 1]) /\ Less(ks[y][i + 1], hi2[y])
          BY <1>12, <5>1
        <5> QED BY <5>1, <5>2
      <4> QED BY <4>1 DEF Within
    <3> QED BY <1>11, <2>2, <3>1, <3>2
  <2>3. CASE c # b /\ c # y
    <3>1. Sorted(ks[c])
      BY DEF Shape, ShapeOfBlock
    <3>2. Within(ks[c], lo2[c], hi2[c])
      <4>1. ASSUME NEW i \in 1 .. Len(ks[c]) PROVE Less(lo2[c], ks[c][i]) /\ Less(ks[c][i], hi2[c])
        <5>1. <<c, i>> # <<b, j>>
          BY <2>3
        <5> QED BY <1>12, <2>3, <5>1
      <4> QED BY <4>1 DEF Within
    <3> QED BY <1>11, <2>3, <3>1, <3>2
  <2> QED BY <2>1, <2>2, <2>3
<1>17. \A c \in W : ShapeOfBlock(root, ks2, ds, lev, lo2, hi2, c)
  <2> TAKE c \in W
  <2>1. ShapeOfBlock(root, ks, ds, lev, lo, hi, c)
    BY DEF Shape
  <2> QED BY <1>12, <1>16, <2>1 DEF ShapeOfBlock
<1>18. ds[y] = <<>>
  BY BlockFacts
<1>19. \A c \in W : ShapeOfKids(ks2, ds, lev, lo2, hi2, 0, 0, c)
  <2> SUFFICES ASSUME NEW c \in W, ds[c] # <<>>
               PROVE  /\ Len(ds[c]) = Len(ks2[c]) + 1
                      /\ \A i \in 1 .. Len(ks2[c]) + 1 :
                           /\ lev[ds[c][i]] + 1 = lev[c]
                           /\ lo2[ds[c][i]] = LowerAt(ks2[c], lo2[c], i)
                           /\ EndOf(hi2, 0, 0, ds[c][i]) = UpperAt(ks2[c], hi2[c], i)
    BY DEF ShapeOfKids
  <2>1. c # y /\ Len(ks[c]) \in Nat
    BY <1>18, BlockFacts
  <2>2. Len(ks2[c]) = Len(ks[c])
    BY <1>6, <1>11, <2>1
  <2>3. Len(ds[c]) = Len(ks[c]) + 1
    BY BlockFacts
  <2>4. ASSUME NEW i \in 1 .. Len(ks[c]) + 1
        PROVE  /\ lev[ds[c][i]] + 1 = lev[c]
               /\ lo2[ds[c][i]] = LowerAt(ks2[c], lo2[c], i)
               /\ EndOf(hi2, 0, 0, ds[c][i]) = UpperAt(ks2[c], hi2[c], i)
    <3>1. /\ ds[c][i] \in W /\ lev[ds[c][i]] + 1 = lev[c]
          /\ lo[ds[c][i]] = LowerAt(ks[c], lo[c], i)
          /\ EndOf(hi, 0, 0, ds[c][i]) = UpperAt(ks[c], hi[c], i)
      BY PlaceFacts
    <3>2. ds[c][i] # 0
      BY <3>1, BlockFacts
    <3>3. \A l \in 1 .. Len(ks[c]) : ks2[c][l] = Instead(k, h, ks[c][l])
      <4> TAKE l \in 1 .. Len(ks[c])
      <4>1. CASE <<c, l>> = <<b, j>>
        BY <1>6, <1>8, <1>11, <4>1 DEF Instead
      <4>2. CASE <<c, l>> # <<b, j>>
        <5>1. ks[c][l] # k
          BY <1>12, <4>2
        <5>2. ks2[c][l] = ks[c][l]
          <6>1. CASE c = b
            BY <1>6, <1>11, <4>2, <6>1
          <6>2. CASE c # b
            BY <1>11, <2>1, <6>2
          <6> QED BY <6>1, <6>2
        <5> QED BY <5>1, <5>2 DEF Instead
      <4> QED BY <4>1, <4>2
    <3>4. lo2[ds[c][i]] = LowerAt(ks2[c], lo2[c], i)
      <4>1. CASE i = 1
        BY <1>9, <3>1, <4>1 DEF LowerAt
      <4>2. CASE i # 1
        <5>1. i - 1 \in 1 .. Len(ks[c])
          BY <2>1, <4>2
        <5>2. ks2[c][i - 1] = Instead(k, h, ks[c][i - 1])
          BY <3>3, <5>1
        <5> QED BY <1>9, <3>1, <4>2, <5>2 DEF LowerAt
      <4> QED BY <4>1, <4>2
    <3>5. hi2[ds[c][i]] = UpperAt(ks2[c], hi2[c], i)
      <4>1. CASE i = Len(ks[c]) + 1
        BY <1>9, <2>2, <3>1, <3>2, <4>1 DEF UpperAt, EndOf
      <4>2. CASE i # Len(ks[c]) + 1
        <5>1. i \in 1 .. Len(ks[c])
          BY <2>1, <4>2
        <5>2. ks2[c][i] = Instead(k, h, ks[c][i])
          BY <3>3, <5>1
        <5> QED BY <1>9, <2>2, <3>1, <3>2, <4>2, <5>2 DEF UpperAt, EndOf
      <4> QED BY <4>1, <4>2
    <3>6. EndOf(hi2, 0, 0, ds[c][i]) = hi2[ds[c][i]]
      BY <3>2 DEF EndOf
    <3> QED BY <3>1, <3>4, <3>5, <3>6
  <2> QED BY <2>2, <2>3, <2>4
<1>20. \A c \in W : ks2[c] = <<>> => c \in E \cup {y}
  <2> TAKE c \in W
  <2>1. v # <<>>
    <3>1. Len(v) # 0
      BY <1>2, <1>6
    <3> QED BY <3>1
  <2>2. ks[c] = <<>> => c \in E
    BY DEF Shape
  <2> QED BY <1>11, <2>1, <2>2
<1>21. \A c, d \in W : c # d /\ lev[c] = lev[d] => Apart(lo2, hi2, c, d)
  <2>1. ASSUME NEW c \in W, NEW d \in W, Leq(hi[c], lo[d]) PROVE Leq(hi2[c], lo2[d])
    <3>1. Leq(lo[d], k) \/ Leq(hi[y], lo[d])
      BY <1>8, OutsideLeaf
    <3>2. hi[c] \in K /\ lo[d] \in K /\ k \in K /\ hi[y] \in K
      BY <1>8, BlockFacts
    <3>3. Less(k, h) /\ Less(h, hi[y])
      BY <1>5, <1>8
    <3>4. CASE lo[d] = k
      <4>1. hi[c] = k \/ Less(hi[c], h)
        BY <1>5, <2>1, <3>2, <3>3, <3>4, Order DEF Leq
      <4> QED BY <1>9, <3>4, <4>1 DEF Leq, Instead
    <3>5. CASE lo[d] # k
      <4>1. hi[c] = k => Less(h, lo[d])
        <5>1. hi[c] = k => Less(k, lo[d])
          BY <2>1, <3>5 DEF Leq
        <5> QED BY <1>5, <3>1, <3>2, <3>3, <5>1, Order
      <4> QED BY <1>9, <2>1, <3>5, <4>1 DEF Leq, Instead
    <3> QED BY <3>4, <3>5
  <2>2. \A c, d \in W : c # d /\ lev[c] = lev[d] => Leq(hi[c], lo[d]) \/ Leq(hi[d], lo[c])
    BY DEF Shape, Apart
  <2> QED BY <2>1, <2>2 DEF Apart
<1>22. root \in W /\ lo[root] = low /\ EndOf(hi, 0, 0, root) = high /\ root # 0
  <2>1. root \in W
    BY BlockFacts
  <2>2. root # 0
    BY <2>1, BlockFacts
  <2> QED BY <2>1, <2>2 DEF Shape
<1>23. hi[root] = high
  BY <1>22 DEF EndOf
<1>24. lo[root] # k /\ hi[root] # k
  <2>1. Less(lo[b], k) /\ Less(k, hi[b]) /\ k \in K /\ lev[b] <= lev[root]
    BY <1>8, BlockFacts
  <2> QED BY <1>22, <2>1, Inside
<1>25. lo2[root] = low /\ EndOf(hi2, 0, 0, root) = high
  BY <1>9, <1>22, <1>23, <1>24 DEF Instead, EndOf
<1>26. \A c \in W : c \in {root, 0} \/ \E p \in W : IsKidOf(ds, c, p)
  BY DEF Shape
<1>27. Shape(K, low, high, W, root, ks2, ds, lev, lo2, hi2, 0, 0, E \cup {y})
  BY <1>15, <1>17, <1>19, <1>20, <1>21, <1>25, <1>26 DEF Shape, Hole
<1> QED BY <1>14, <1>27 DEF HasShape

-----------------------------------------------------------------------------
(***************************************************************************)
(* A key out of a leaf, a root without keys.                               *)
(***************************************************************************)
\* A key goes from a leaf.
LEMMA Drop ==
  ASSUME NEW K, Ordered(K), NEW low, NEW high, NEW W, NEW root, NEW ks, NEW ds, NEW lev, NEW lo,
         NEW hi, NEW E, Shape(K, low, high, W, root, ks, ds, lev, lo, hi, 0, 0, E),
         NEW b \in W, NEW j \in 1 .. Len(ks[b]), NEW ks2,
         ks2 = [ks EXCEPT ![b] = RemoveAt(ks[b], j)]
  PROVE  ds[b] = <<>> => Shape(K, low, high, W, root, ks2, ds, lev, lo, hi, 0, 0, E \cup {b})
<1> SUFFICES ASSUME ds[b] = <<>>
             PROVE  Shape(K, low, high, W, root, ks2, ds, lev, lo, hi, 0, 0, E \cup {b})
  OBVIOUS
<1> DEFINE v == RemoveAt(ks[b], j)
<1>1. ShapeTypes(K, W, root, ks, ds, lev, lo, hi)
  BY DEF Shape
<1>2. ks \in [W -> Seq(K)] /\ ks[b] \in Seq(K) /\ Len(ks[b]) \in Nat
  BY <1>1, BlockFacts DEF ShapeTypes
<1>3. /\ v \in Seq(K) /\ Len(v) = Len(ks[b]) - 1
      /\ \A i \in 1 .. Len(ks[b]) - 1 : v[i] = IF i < j THEN ks[b][i] ELSE ks[b][i + 1]
  <2> DEFINE s == ks[b]
  <2>1. s \in Seq(K) /\ j \in 1 .. Len(s) /\ v = RemoveAt(s, j)
    BY <1>2
  <2> HIDE DEF s, v
  <2>2. /\ RemoveAt(s, j) \in Seq(K) /\ Len(RemoveAt(s, j)) = Len(s) - 1
        /\ \A i \in 1 .. Len(s) - 1 : RemoveAt(s, j)[i] = IF i < j THEN s[i] ELSE s[i + 1]
    BY <2>1, RemoveAtIs
  <2> QED BY <2>1, <2>2 DEF s
<1> HIDE DEF v
<1>4. ks2 \in [W -> Seq(K)] /\ ks2[b] = v /\ \A c \in W : c # b => ks2[c] = ks[c]
  BY <1>2, <1>3 DEF v
<1>5. ShapeTypes(K, W, root, ks2, ds, lev, lo, hi)
  BY <1>1, <1>4 DEF ShapeTypes
<1>6. \A i \in 1 .. Len(v) : \E l \in 1 .. Len(ks[b]) : l >= i /\ l <= i + 1 /\ v[i] = ks[b][l] /\ (l = i <=> i < j)
  <2> TAKE i \in 1 .. Len(v)
  <2>1. CASE i < j
    <3>1. i \in 1 .. Len(ks[b]) /\ v[i] = ks[b][i] /\ i >= i /\ i <= i + 1
      BY <1>2, <1>3, <2>1
    <3> QED BY <2>1, <3>1
  <2>2. CASE ~ (i < j)
    <3>1. i + 1 \in 1 .. Len(ks[b]) /\ v[i] = ks[b][i + 1] /\ i + 1 >= i /\ i + 1 <= i + 1 /\ i + 1 # i
      BY <1>2, <1>3, <2>2
    <3> QED BY <2>2, <3>1
  <2> QED BY <2>1, <2>2
<1>7. Within(v, lo[b], hi[b])
  <2>1. Within(ks[b], lo[b], hi[b])
    BY DEF Shape, ShapeOfBlock
  <2> QED BY <1>6, <2>1 DEF Within
<1>8. Sorted(v)
  <2>1. Sorted(ks[b])
    BY DEF Shape, ShapeOfBlock
  <2>2. ASSUME NEW i \in 1 .. Len(v), NEW l \in 1 .. Len(v), i < l PROVE Less(v[i], v[l])
    <3>1. PICK m \in 1 .. Len(ks[b]) : m >= i /\ m <= i + 1 /\ v[i] = ks[b][m] /\ (m = i <=> i < j)
      BY <1>6
    <3>2. PICK n \in 1 .. Len(ks[b]) : n >= l /\ n <= l + 1 /\ v[l] = ks[b][n] /\ (n = l <=> l < j)
      BY <1>6
    <3>3. i \in Nat /\ l \in Nat /\ m \in Nat /\ n \in Nat /\ j \in Nat
      BY <1>2, <1>3
    <3>4. m < n
      BY <2>2, <3>1, <3>2, <3>3
    <3> QED BY <2>1, <3>1, <3>2, <3>4 DEF Sorted
  <2> QED BY <2>2 DEF Sorted
<1>9. \A c \in W : ShapeOfBlock(root, ks2, ds, lev, lo, hi, c)
  <2> TAKE c \in W
  <2>1. ShapeOfBlock(root, ks, ds, lev, lo, hi, c)
    BY DEF Shape
  <2>2. Sorted(ks2[c]) /\ Within(ks2[c], lo[c], hi[c])
    BY <1>4, <1>7, <1>8, <2>1 DEF ShapeOfBlock
  <2> QED BY <2>1, <2>2 DEF ShapeOfBlock
<1>10. \A c \in W : ShapeOfKids(ks2, ds, lev, lo, hi, 0, 0, c)
  BY <1>4 DEF Shape, ShapeOfKids
<1>11. \A c \in W : ks2[c] = <<>> => c \in E \cup {b}
  BY <1>4 DEF Shape
<1> QED BY <1>5, <1>9, <1>10, <1>11 DEF Shape

\* The root alone is at its level.
LEMMA Below ==
  ASSUME NEW K, Ordered(K), NEW low, NEW high, NEW W, NEW root, NEW ks, NEW ds, NEW lev, NEW lo,
         NEW hi, NEW E, Shape(K, low, high, W, root, ks, ds, lev, lo, hi, 0, 0, E),
         NEW b \in W, b # root
  PROVE  lev[b] < lev[root]
<1>1. PICK p \in W : ds[p] # <<>> /\ \E i \in 1 .. Len(ks[p]) + 1 : ds[p][i] = b
  BY HasParent
<1>2. PICK i \in 1 .. Len(ks[p]) + 1 : ds[p][i] = b
  BY <1>1
<1>3. lev[b] + 1 = lev[p] /\ lev[b] \in Nat
  BY <1>1, <1>2, PlaceFacts
<1>4. lev[p] \in Nat /\ lev[root] \in Nat /\ lev[p] <= lev[root]
  BY BlockFacts
<1> QED BY <1>3, <1>4

\* A top without keys goes.
Only(f, W2) == [d \in W2 |-> f[d]]
IsDrop(K, low, high, W2, ks2, ds2, c, E2) ==
  c \in W2 /\ \E lev2 \in [W2 -> Nat], lo2 \in [W2 -> K], hi2 \in [W2 -> K] :
                Shape(K, low, high, W2, c, ks2, ds2, lev2, lo2, hi2, 0, 0, E2)

\* A root without keys gives way to its only kid.
LEMMA DropTop ==
  ASSUME NEW K, Ordered(K), NEW low, NEW high, NEW W, NEW root, NEW ks, NEW ds, NEW lev, NEW lo,
         NEW hi, NEW E, Shape(K, low, high, W, root, ks, ds, lev, lo, hi, 0, 0, E),
         ks[root] = <<>>, ds[root] # <<>>, NEW W2, W2 = W \ {root}, NEW ks2, NEW ds2,
         ks2 = Only(ks, W2), ds2 = Only(ds, W2)
  PROVE  IsDrop(K, low, high, W2, ks2, ds2, ds[root][1], E \ {root})
<1>a. ks2 = [d \in W2 |-> ks[d]] /\ ds2 = [d \in W2 |-> ds[d]]
  BY DEF Only
<1> DEFINE lev2 == [b \in W2 |-> lev[b]]
           lo2 == [b \in W2 |-> lo[b]]
           hi2 == [b \in W2 |-> hi[b]]
           top == ds[root][1]
<1>1. ShapeTypes(K, W, root, ks, ds, lev, lo, hi) /\ root \in W
  BY DEF Shape, ShapeTypes
<1>2. Len(ks[root]) = 0 /\ 1 \in 1 .. Len(ks[root]) + 1
  OBVIOUS
<1>3. /\ top \in W /\ lev[top] + 1 = lev[root] /\ lo[top] = LowerAt(ks[root], lo[root], 1)
      /\ EndOf(hi, 0, 0, top) = UpperAt(ks[root], hi[root], 1)
  BY <1>1, <1>2, PlaceFacts
<1>4. top # root /\ top # 0 /\ root # 0 /\ lev[top] \in Nat /\ lev[root] \in Nat
  <2>1. top # 0 /\ lev[top] \in Nat
    BY <1>3, BlockFacts
  <2>2. root # 0 /\ lev[root] \in Nat
    BY <1>1, BlockFacts
  <2> QED BY <1>3, <2>1, <2>2
<1>5. lo[top] = lo[root] /\ hi[top] = hi[root]
  BY <1>2, <1>3, <1>4 DEF LowerAt, UpperAt, EndOf
<1> HIDE DEF top
<1>6. top \in W2
  BY <1>3, <1>4
<1>7. lev2 \in [W2 -> Nat] /\ lo2 \in [W2 -> K] /\ hi2 \in [W2 -> K] /\ ks2 \in [W2 -> Seq(K)]
  BY <1>1, <1>a DEF ShapeTypes
<1>8. \A b \in W2 : b \in W /\ b # root /\ ks2[b] = ks[b] /\ ds2[b] = ds[b] /\ lev2[b] = lev[b]
                    /\ lo2[b] = lo[b] /\ hi2[b] = hi[b]
  BY <1>a
<1>9. \A b \in W2 : lev[b] \in Nat /\ lev[b] <= lev[top]
  <2> TAKE b \in W2
  <2>1. b \in W /\ b # root
    OBVIOUS
  <2>2. lev[b] < lev[root] /\ lev[b] \in Nat
    BY <2>1, Below, BlockFacts
  <2> QED BY <1>3, <1>4, <2>2
<1> HIDE DEF lev2, lo2, hi2
<1>10. \A b \in W2 : ds[b] \in Seq(W2)
  <2> TAKE b \in W2
  <2>1. ds[b] \in Seq(W) /\ Len(ds[b]) \in Nat /\ (ds[b] # <<>> => Len(ds[b]) = Len(ks[b]) + 1) /\ lev[b] <= lev[root]
    BY <1>8, BlockFacts
  <2>2. \A i \in 1 .. Len(ds[b]) : ds[b][i] \in W2
    <3> TAKE i \in 1 .. Len(ds[b])
    <3>1. ds[b] # <<>>
      BY <2>1
    <3>2. i \in 1 .. Len(ks[b]) + 1
      BY <2>1, <3>1
    <3>3. ds[b][i] \in W /\ lev[ds[b][i]] + 1 = lev[b] /\ lev[ds[b][i]] \in Nat
      BY <1>8, <3>1, <3>2, PlaceFacts
    <3> QED BY <1>4, <2>1, <3>3
  <2>3. ds[b] \in [1 .. Len(ds[b]) -> W2]
    <3>1. ds[b] \in [1 .. Len(ds[b]) -> W]
      BY <2>1, LenProperties
    <3> QED BY <2>2, <3>1
  <2> QED BY <2>1, <2>3, IsSeq
<1>11. ds2 \in [W2 -> Seq(W2)]
  BY <1>a, <1>8, <1>10
<1>12. ShapeTypes(K, W2, top, ks2, ds2, lev2, lo2, hi2)
  BY <1>1, <1>6, <1>7, <1>11 DEF ShapeTypes
<1>13. \A b \in W2 : ShapeOfBlock(top, ks2, ds2, lev2, lo2, hi2, b)
  <2> TAKE b \in W2
  <2>1. ShapeOfBlock(root, ks, ds, lev, lo, hi, b)
    BY <1>8 DEF Shape
  <2> QED BY <1>6, <1>8, <1>9, <2>1 DEF ShapeOfBlock
<1>14. \A b \in W2 : ShapeOfKids(ks2, ds2, lev2, lo2, hi2, 0, 0, b)
  <2> TAKE b \in W2
  <2>1. ShapeOfKids(ks, ds, lev, lo, hi, 0, 0, b)
    BY <1>8 DEF Shape
  <2>2. ds[b] # <<>> => Len(ds[b]) = Len(ks[b]) + 1
    BY <1>8, BlockFacts
  <2>3. ds[b] # <<>> => \A i \in 1 .. Len(ks[b]) + 1 : ds[b][i] \in W2 /\ ds[b][i] # 0
    <3> SUFFICES ASSUME ds[b] # <<>>, NEW i \in 1 .. Len(ks[b]) + 1
                 PROVE ds[b][i] \in W2 /\ ds[b][i] # 0
      OBVIOUS
    <3>1. ds[b][i] \in W2
      BY <1>10, <2>2, ElementOfSeq
    <3> QED BY <1>8, <3>1, BlockFacts
  <2>4. ks2[b] = ks[b] /\ ds2[b] = ds[b] /\ lev2[b] = lev[b] /\ lo2[b] = lo[b] /\ hi2[b] = hi[b]
    BY ONLY <1>8, b \in W2
  <2>5. ASSUME ds[b] # <<>>, NEW i \in 1 .. Len(ks[b]) + 1
        PROVE  /\ lev2[ds[b][i]] + 1 = lev[b] /\ lo2[ds[b][i]] = LowerAt(ks[b], lo[b], i)
               /\ EndOf(hi2, 0, 0, ds[b][i]) = UpperAt(ks[b], hi[b], i)
    <3> DEFINE c == ds[b][i]
    <3>1. c \in W2 /\ c # 0
      BY ONLY <2>3, <2>5
    <3>2. lev[c] + 1 = lev[b] /\ lo[c] = LowerAt(ks[b], lo[b], i) /\ EndOf(hi, 0, 0, c) = UpperAt(ks[b], hi[b], i)
      BY ONLY <2>1, <2>5 DEF ShapeOfKids
    <3> HIDE DEF c
    <3>3. lev2[c] = lev[c] /\ lo2[c] = lo[c] /\ hi2[c] = hi[c]
      BY ONLY <1>8, <3>1
    <3> QED BY ONLY <3>1, <3>2, <3>3 DEF EndOf, c
  <2>6. ds[b] # <<>> => Len(ds[b]) = Len(ks[b]) + 1
    BY ONLY <2>1 DEF ShapeOfKids
  <2> QED BY ONLY <2>4, <2>5, <2>6 DEF ShapeOfKids
<1>15. \A b \in W2 : b \in {top, 0} \/ \E p \in W2 : IsKidOf(ds2, b, p)
  <2> SUFFICES ASSUME NEW b \in W2, b # top PROVE \E p \in W2 : IsKidOf(ds2, b, p)
    OBVIOUS
  <2>1. PICK p \in W : ds[p] # <<>> /\ \E i \in 1 .. Len(ks[p]) + 1 : ds[p][i] = b
    BY <1>8, HasParent
  <2>2. PICK i \in 1 .. Len(ks[p]) + 1 : ds[p][i] = b
    BY <2>1
  <2>3. p # root
    <3>1. p = root => i = 1
      BY <1>2, <2>2
    <3> QED BY <2>2, <3>1 DEF top
  <2>4. p \in W2 /\ Len(ds[p]) = Len(ks[p]) + 1
    BY <2>1, <2>3, BlockFacts
  <2> QED BY <1>8, <2>2, <2>4 DEF IsKidOf
<1>16. \A b, c \in W2 : b # c /\ lev2[b] = lev2[c] => Apart(lo2, hi2, b, c)
  BY <1>8 DEF Shape, Apart
<1>17. lo2[top] = low /\ EndOf(hi2, 0, 0, top) = high
  <2>1. lo[root] = low /\ EndOf(hi, 0, 0, root) = high
    BY DEF Shape
  <2> QED BY <1>4, <1>5, <1>6, <1>8, <2>1 DEF EndOf
<1>18. \A b \in W2 : ks2[b] = <<>> => b \in E \ {root}
  BY <1>8 DEF Shape
<1>19. Shape(K, low, high, W2, top, ks2, ds2, lev2, lo2, hi2, 0, 0, E \ {root})
  BY <1>12, <1>13, <1>14, <1>15, <1>16, <1>17, <1>18 DEF Shape, Hole
<1> QED BY <1>6, <1>7, <1>19 DEF top, IsDrop

-----------------------------------------------------------------------------
(***************************************************************************)
(* A new root, and a branch that takes in what a split pushed up.          *)
(***************************************************************************)
\* What EXCEPT gives.
LEMMA Changed ==
  ASSUME NEW W, NEW S, NEW f, NEW g, NEW p, NEW v, f \in [W -> S], p \in W, v \in S,
         g = [f EXCEPT ![p] = v]
  PROVE  g \in [W -> S] /\ g[p] = v /\ \A b \in W : b # p => g[b] = f[b]
OBVIOUS

\* A block with no parent but the top, and one beside it: both below a new top.
\* A block c above the top and its new brother.
IsGrown(ks, ds, root, kid, k, c, W2, ks2, ds2) ==
  /\ ks2 = [b \in W2 |-> IF b = c THEN <<k>> ELSE ks[b]]
  /\ ds2 = [b \in W2 |-> IF b = c THEN <<root, kid>> ELSE ds[b]]

\* The root was split: xioxins makes a new one above both halves (1012-1026).
LEMMA Grow ==
  ASSUME NEW K, Ordered(K), NEW low, low \in K, NEW high, high \in K, NEW W, NEW root, NEW ks, NEW ds, NEW lev,
         NEW lo, NEW hi, NEW kid, kid \in W, NEW E,
         Shape(K, low, high, W, root, ks, ds, lev, lo, hi, root, kid, E),
         NEW c, c \in Nat \ {0}, c \notin W, NEW W2, W2 = W \cup {c}, NEW ks2, NEW ds2,
         IsGrown(ks, ds, root, kid, hi[root], c, W2, ks2, ds2)
  PROVE  Reshaped(K, low, high, W2, c, ks2, ds2, E, {}, lev)
<1> USE DEF IsGrown, Reshaped
<1> DEFINE lev2 == [b \in W2 |-> IF b = c THEN lev[root] + 1 ELSE lev[b]]
           lo2 == [b \in W2 |-> IF b = c THEN low ELSE lo[b]]
           hi2 == [b \in W2 |-> IF b = c THEN high ELSE hi[b]]
<1>1. /\ ShapeTypes(K, W, root, ks, ds, lev, lo, hi) /\ root \in W
      /\ ks \in [W -> Seq(K)] /\ ds \in [W -> Seq(W)]
      /\ lev \in [W -> Nat] /\ lo \in [W -> K] /\ hi \in [W -> K]
  BY DEF Shape, ShapeTypes
<1>2. /\ root # kid /\ lev[kid] = lev[root] /\ lo[kid] = hi[root] /\ lo[root] = low /\ hi[kid] = high
      /\ root # 0 /\ kid # 0
  <2>1. Hole(W, root, lev, lo, hi, root, kid) /\ EndOf(hi, root, kid, root) = high /\ lo[root] = low
    BY DEF Shape
  <2>2. root # 0 /\ kid # 0
    BY <1>1, BlockFacts
  <2> QED BY <2>1, <2>2 DEF Hole, EndOf
<1>3. /\ Less(low, hi[root]) /\ Less(hi[root], high) /\ hi[root] \in K /\ lev[root] \in Nat
  <2>1. Less(lo[root], hi[root]) /\ hi[root] \in K /\ lev[root] \in Nat
    BY <1>1, BlockFacts
  <2>2. Less(lo[kid], hi[kid])
    BY BlockFacts
  <2> QED BY <1>2, <2>1, <2>2
<1>4. /\ <<hi[root]>> \in Seq(K) /\ Len(<<hi[root]>>) = 1 /\ <<hi[root]>>[1] = hi[root]
      /\ <<hi[root]>> # <<>>
  BY <1>3
<1>5. /\ <<root, kid>> \in Seq(W2) /\ Len(<<root, kid>>) = 2 /\ <<root, kid>>[1] = root
      /\ <<root, kid>>[2] = kid /\ <<root, kid>> # <<>>
  BY <1>1
<1>6. c \in W2 /\ \A b \in W : b \in W2 /\ b # c
  OBVIOUS
<1>7. /\ ks2[c] = <<hi[root]>> /\ ds2[c] = <<root, kid>> /\ lev2[c] = lev[root] + 1
      /\ lo2[c] = low /\ hi2[c] = high
  OBVIOUS
<1>8. \A b \in W : /\ ks2[b] = ks[b] /\ ds2[b] = ds[b] /\ lev2[b] = lev[b] /\ lo2[b] = lo[b]
                   /\ hi2[b] = hi[b]
  BY <1>6
<1>9. lev2 \in [W2 -> Nat] /\ lo2 \in [W2 -> K] /\ hi2 \in [W2 -> K]
  BY <1>1, <1>3
<1>10. \A b \in W : ds[b] \in Seq(W2)
  <2>1. \A b \in W : ds[b] \in Seq(W)
    BY <1>1
  <2> QED BY <2>1
<1>11. ks2 \in [W2 -> Seq(K)] /\ ds2 \in [W2 -> Seq(W2)]
  BY <1>1, <1>4, <1>5, <1>10
<1> HIDE DEF lev2, lo2, hi2
<1>12. ShapeTypes(K, W2, c, ks2, ds2, lev2, lo2, hi2)
  <2>1. W2 \in SUBSET (Nat \ {0})
    BY <1>1 DEF ShapeTypes
  <2> QED BY <1>6, <1>9, <1>11, <2>1 DEF ShapeTypes
<1>13. \A b \in W : lev[b] \in Nat /\ lev[b] <= lev[root] /\ lev[b] # lev[root] + 1
  BY <1>3, BlockFacts
<1>14. \A b \in W2 : ShapeOfBlock(c, ks2, ds2, lev2, lo2, hi2, b)
  <2> TAKE b \in W2
  <2>1. CASE b = c
    <3>1. Less(low, high)
      BY <1>3, Order
    <3>2. Sorted(<<hi[root]>>)
      <4>1. \A i, j \in 1 .. 1 : ~ (i < j)
        OBVIOUS
      <4> QED BY <1>4, <4>1 DEF Sorted
    <3>3. Within(<<hi[root]>>, low, high)
      BY <1>3, <1>4 DEF Within
    <3>4. ~ (lev2[c] = 0) /\ ds2[c] # <<>>
      BY <1>3, <1>5, <1>7
    <3> QED BY <1>3, <1>7, <2>1, <3>1, <3>2, <3>3, <3>4 DEF ShapeOfBlock
  <2>2. CASE b # c
    <3>1. b \in W /\ ShapeOfBlock(root, ks, ds, lev, lo, hi, b)
      BY <2>2 DEF Shape
    <3>2. lev[b] <= lev[root] + 1
      BY <1>3, <1>13, <3>1
    <3> QED BY <1>7, <1>8, <3>1, <3>2 DEF ShapeOfBlock
  <2> QED BY <2>1, <2>2
<1>15. \A b \in W2 : ShapeOfKids(ks2, ds2, lev2, lo2, hi2, 0, 0, b)
  <2> TAKE b \in W2
  <2>1. CASE b = c
    <3>1. /\ LowerAt(<<hi[root]>>, low, 1) = low /\ LowerAt(<<hi[root]>>, low, 2) = hi[root]
          /\ UpperAt(<<hi[root]>>, high, 1) = hi[root] /\ UpperAt(<<hi[root]>>, high, 2) = high
      BY <1>4 DEF LowerAt, UpperAt
    <3>2. EndOf(hi2, 0, 0, root) = hi[root] /\ EndOf(hi2, 0, 0, kid) = high
      BY <1>1, <1>2, <1>8 DEF EndOf
    <3>3. ASSUME NEW i \in 1 .. 2
          PROVE  /\ lev2[<<root, kid>>[i]] + 1 = lev2[c]
                 /\ lo2[<<root, kid>>[i]] = LowerAt(<<hi[root]>>, low, i)
                 /\ EndOf(hi2, 0, 0, <<root, kid>>[i]) = UpperAt(<<hi[root]>>, high, i)
      <4>1. CASE i = 1
        BY <1>1, <1>2, <1>5, <1>7, <1>8, <3>1, <3>2, <4>1
      <4>2. CASE i = 2
        BY <1>2, <1>5, <1>7, <1>8, <3>1, <3>2, <4>2
      <4> QED BY <4>1, <4>2
    <3> QED BY <1>4, <1>5, <1>7, <2>1, <3>3 DEF ShapeOfKids
  <2>2. CASE b # c
    <3>1. b \in W /\ ShapeOfKids(ks, ds, lev, lo, hi, root, kid, b)
      BY <2>2 DEF Shape
    <3>2. ds[b] # <<>> => \A i \in 1 .. Len(ks[b]) + 1 : ds[b][i] \in W /\ ds[b][i] # root /\ ds[b][i] # 0
      <4> SUFFICES ASSUME ds[b] # <<>>, NEW i \in 1 .. Len(ks[b]) + 1
                   PROVE ds[b][i] \in W /\ ds[b][i] # root /\ ds[b][i] # 0
        OBVIOUS
      <4>1. ds[b][i] \in W /\ lev[ds[b][i]] + 1 = lev[b]
        BY <3>1, PlaceFacts
      <4>2. ds[b][i] # 0
        BY <4>1, BlockFacts
      <4> QED BY <1>3, <1>13, <3>1, <4>1, <4>2
    <3> QED BY <1>8, <3>1, <3>2 DEF ShapeOfKids, EndOf
  <2> QED BY <2>1, <2>2
<1>16. \A b \in W2 : b \in {c, 0} \/ \E p \in W2 : IsKidOf(ds2, b, p)
  <2> SUFFICES ASSUME NEW b \in W2, b # c PROVE \E p \in W2 : IsKidOf(ds2, b, p)
    OBVIOUS
  <2>1. IsKidOf(ds2, root, c) /\ IsKidOf(ds2, kid, c)
    <3>1. 1 \in 1 .. Len(ds2[c]) /\ 2 \in 1 .. Len(ds2[c])
      BY <1>5, <1>7
    <3> QED BY <1>5, <1>7, <3>1 DEF IsKidOf
  <2>2. b \in W /\ (b \in {root, kid} \/ \E p \in W : IsKidOf(ds, b, p))
    BY DEF Shape
  <2> QED BY <1>6, <1>8, <2>1, <2>2 DEF IsKidOf
<1>17. \A b, d \in W2 : b # d /\ lev2[b] = lev2[d] => Apart(lo2, hi2, b, d)
  <2> TAKE b \in W2, d \in W2
  <2>1. CASE b \in W /\ d \in W
    BY <1>8, <2>1 DEF Shape, Apart
  <2>2. CASE ~ (b \in W /\ d \in W)
    BY <1>7, <1>8, <1>13, <2>2
  <2> QED BY <2>1, <2>2
<1>18. lo2[c] = low /\ EndOf(hi2, 0, 0, c) = high
  BY <1>7 DEF EndOf
<1>19. \A b \in W2 : ks2[b] = <<>> => b \in E
  <2>1. \A b \in W : ks[b] = <<>> => b \in E
    BY DEF Shape
  <2> QED BY <1>4, <1>7, <1>8, <2>1
<1>20. Shape(K, low, high, W2, c, ks2, ds2, lev2, lo2, hi2, 0, 0, E)
  BY <1>12, <1>14, <1>15, <1>16, <1>17, <1>18, <1>19 DEF Shape, Hole
<1> QED BY <1>9, <1>20

\* The key between a block and the one beside it goes into its parent.
\* The key k and the block kid go into block p, as key i and as child i + 1.
IsAbsorb(ks, ds, p, i, k, kid, ks2, ds2) ==
  ks2 = With(ks, p, InsertAt(ks[p], i, k)) /\ ds2 = With(ds, p, InsertAt(ds[p], i + 1, kid))

\* A branch takes in the key and the kid that a split below it pushed up
\* (973-1010).
THEOREM Absorb ==
  ASSUME NEW K, Ordered(K), NEW low, NEW high, NEW W, NEW root, NEW ks, NEW ds, NEW lev,
         NEW lo, NEW hi, NEW x, x \in W, NEW kid, kid \in W, NEW E,
         Shape(K, low, high, W, root, ks, ds, lev, lo, hi, x, kid, E),
         NEW p, p \in W, ds[p] # <<>>, NEW i, i \in 1 .. Len(ks[p]) + 1, ds[p][i] = x,
         NEW ks2, NEW ds2, IsAbsorb(ks, ds, p, i, hi[x], kid, ks2, ds2), NEW E2, E2 = E \ {p}
  PROVE  Shape(K, low, high, W, root, ks2, ds2, lev, lo, hi, 0, 0, E2)
<1> USE DEF IsAbsorb, With
<1> DEFINE u == InsertAt(ks[p], i, hi[x])
           v == InsertAt(ds[p], i + 1, kid)
           k == hi[x]
<1>1. /\ ShapeTypes(K, W, root, ks, ds, lev, lo, hi) /\ root \in W
      /\ ks \in [W -> Seq(K)] /\ ds \in [W -> Seq(W)]
  BY DEF Shape, ShapeTypes
<1>2. /\ x # kid /\ kid # root /\ lev[kid] = lev[x] /\ lo[kid] = k /\ x # 0 /\ kid # 0
  <2>1. Hole(W, root, lev, lo, hi, x, kid)
    BY DEF Shape
  <2>2. x # 0 /\ kid # 0
    <3>1. x # 0
      BY BlockFacts
    <3>2. kid # 0
      BY BlockFacts
    <3> QED BY <3>1, <3>2
  <2> QED BY <2>1, <2>2 DEF Hole
<1>3. /\ ks[p] \in Seq(K) /\ Len(ks[p]) \in Nat /\ ds[p] \in Seq(W) /\ Len(ds[p]) = Len(ks[p]) + 1
      /\ lo[p] \in K /\ hi[p] \in K
  BY BlockFacts
<1>4. /\ lev[x] + 1 = lev[p] /\ lo[x] = LowerAt(ks[p], lo[p], i)
      /\ hi[kid] = UpperAt(ks[p], hi[p], i)
      /\ Leq(lo[p], lo[x]) /\ Leq(hi[kid], hi[p])
      /\ lo[x] \in K /\ hi[kid] \in K
  <2>1. /\ lev[x] + 1 = lev[p] /\ lo[x] = LowerAt(ks[p], lo[p], i)
        /\ EndOf(hi, x, kid, x) = UpperAt(ks[p], hi[p], i)
        /\ LowerAt(ks[p], lo[p], i) \in K /\ UpperAt(ks[p], hi[p], i) \in K
        /\ Leq(lo[p], LowerAt(ks[p], lo[p], i)) /\ Leq(UpperAt(ks[p], hi[p], i), hi[p])
    BY PlaceFacts
  <2> QED BY <2>1 DEF EndOf
<1>5. \A j \in 1 .. Len(ks[p]) : /\ ks[p][j] \in K
                                 /\ j < i => Leq(ks[p][j], lo[x])
                                 /\ j >= i => Leq(hi[kid], ks[p][j])
  <2>1. /\ \A j \in 1 .. Len(ks[p]) : j < i => Leq(ks[p][j], LowerAt(ks[p], lo[p], i))
        /\ \A j \in 1 .. Len(ks[p]) : j >= i => Leq(UpperAt(ks[p], hi[p], i), ks[p][j])
    BY PlaceFacts
  <2>2. \A j \in 1 .. Len(ks[p]) : ks[p][j] \in K
    BY BlockFacts
  <2> QED BY <1>4, <2>1, <2>2
<1>6. k \in K /\ Less(lo[x], k) /\ Less(k, hi[kid])
  <2>1. hi[x] \in K /\ Less(lo[x], hi[x])
    BY BlockFacts
  <2>2. Less(lo[kid], hi[kid])
    BY BlockFacts
  <2> QED BY <1>2, <2>1, <2>2
<1>7. /\ \A j \in 1 .. Len(ks[p]) : /\ j < i => Less(ks[p][j], k)
                                    /\ j >= i => Less(k, ks[p][j])
      /\ Less(lo[p], k) /\ Less(k, hi[p])
  <2>1. \A j \in 1 .. Len(ks[p]) : j < i => Less(ks[p][j], k)
    BY <1>4, <1>5, <1>6, Order
  <2>2. \A j \in 1 .. Len(ks[p]) : j >= i => Less(k, ks[p][j])
    BY <1>4, <1>5, <1>6, Order
  <2> QED BY <1>3, <1>4, <1>6, <2>1, <2>2, Order
<1>8. /\ u \in Seq(K) /\ Len(u) = Len(ks[p]) + 1
      /\ \A j \in 1 .. Len(ks[p]) + 1 : u[j] = IF j < i THEN ks[p][j] ELSE IF j = i THEN k ELSE ks[p][j - 1]
  <2> DEFINE s == ks[p]
  <2>1. s \in Seq(K) /\ i \in 1 .. Len(s) + 1 /\ u = InsertAt(s, i, k)
    BY <1>3
  <2> HIDE DEF s, u, k, v
  <2>2. /\ InsertAt(s, i, k) \in Seq(K) /\ Len(InsertAt(s, i, k)) = Len(s) + 1
        /\ \A j \in 1 .. Len(s) + 1 : InsertAt(s, i, k)[j] =
              IF j < i THEN s[j] ELSE IF j = i THEN k ELSE s[j - 1]
    BY <1>6, <2>1, InsertIs
  <2> QED BY <2>1, <2>2 DEF s
<1>9. /\ v \in Seq(W) /\ Len(v) = Len(ds[p]) + 1
      /\ \A j \in 1 .. Len(ds[p]) + 1 :
           v[j] = IF j < i + 1 THEN ds[p][j] ELSE IF j = i + 1 THEN kid ELSE ds[p][j - 1]
  <2> DEFINE s == ds[p]
             n == i + 1
  <2>1. s \in Seq(W) /\ n \in 1 .. Len(s) + 1 /\ v = InsertAt(s, n, kid)
    BY <1>3
  <2> HIDE DEF s, v, n, u, k
  <2>2. /\ InsertAt(s, n, kid) \in Seq(W) /\ Len(InsertAt(s, n, kid)) = Len(s) + 1
        /\ \A j \in 1 .. Len(s) + 1 : InsertAt(s, n, kid)[j] =
              IF j < n THEN s[j] ELSE IF j = n THEN kid ELSE s[j - 1]
    BY <2>1, InsertIs
  <2> QED BY <2>1, <2>2 DEF s, n
<1>10. ks2 = [ks EXCEPT ![p] = u] /\ ds2 = [ds EXCEPT ![p] = v] /\ k = hi[x]
  OBVIOUS
<1> HIDE DEF u, v, k
<1>11. /\ ks2 \in [W -> Seq(K)] /\ ks2[p] = u /\ \A b \in W : b # p => ks2[b] = ks[b]
       /\ ds2 \in [W -> Seq(W)] /\ ds2[p] = v /\ \A b \in W : b # p => ds2[b] = ds[b]
  <2>1. ks2 \in [W -> Seq(K)] /\ ks2[p] = u /\ \A b \in W : b # p => ks2[b] = ks[b]
    BY <1>1, <1>8, <1>10, Changed
  <2>2. ds2 \in [W -> Seq(W)] /\ ds2[p] = v /\ \A b \in W : b # p => ds2[b] = ds[b]
    BY <1>1, <1>9, <1>10, Changed
  <2> QED BY <2>1, <2>2
<1>12. ShapeTypes(K, W, root, ks2, ds2, lev, lo, hi)
  BY <1>1, <1>11 DEF ShapeTypes
<1>13. u # <<>> /\ v # <<>>
  <2>1. Len(u) # 0 /\ Len(v) # 0
    BY <1>3, <1>8, <1>9
  <2> QED BY <2>1
<1>14. Sorted(u)
  <2>1. ASSUME NEW j \in 1 .. Len(u), NEW l \in 1 .. Len(u), j < l PROVE Less(u[j], u[l])
    <3>1. \A m, n \in 1 .. Len(ks[p]) : m < n => Less(ks[p][m], ks[p][n])
      BY BlockFacts
    <3>2. j \in 1 .. Len(ks[p]) + 1 /\ l \in 1 .. Len(ks[p]) + 1 /\ i \in Nat /\ j \in Nat /\ l \in Nat
      BY <1>3, <1>8
    <3>3. CASE l < i
      <4>1. j \in 1 .. Len(ks[p]) /\ l \in 1 .. Len(ks[p]) /\ u[j] = ks[p][j] /\ u[l] = ks[p][l]
        BY <1>3, <1>8, <2>1, <3>2, <3>3
      <4> QED BY <2>1, <3>1, <4>1
    <3>4. CASE l = i
      <4>1. j \in 1 .. Len(ks[p]) /\ u[j] = ks[p][j] /\ u[l] = k /\ j < i
        BY <1>3, <1>8, <2>1, <3>2, <3>4
      <4> QED BY <1>7, <4>1
    <3>5. CASE j < i /\ i < l
      <4>1. j \in 1 .. Len(ks[p]) /\ l - 1 \in 1 .. Len(ks[p]) /\ u[j] = ks[p][j] /\ u[l] = ks[p][l - 1] /\ j < l - 1
        BY <1>3, <1>8, <3>2, <3>5
      <4> QED BY <3>1, <4>1
    <3>6. CASE j = i
      <4>1. l - 1 \in 1 .. Len(ks[p]) /\ u[j] = k /\ u[l] = ks[p][l - 1] /\ l - 1 >= i
        BY <1>3, <1>8, <2>1, <3>2, <3>6
      <4> QED BY <1>7, <4>1
    <3>7. CASE i < j
      <4>1. /\ j - 1 \in 1 .. Len(ks[p]) /\ l - 1 \in 1 .. Len(ks[p]) /\ u[j] = ks[p][j - 1]
            /\ u[l] = ks[p][l - 1] /\ j - 1 < l - 1
        BY <1>3, <1>8, <2>1, <3>2, <3>7
      <4> QED BY <3>1, <4>1
    <3> QED BY <2>1, <3>2, <3>3, <3>4, <3>5, <3>6, <3>7
  <2> QED BY <2>1 DEF Sorted
<1>15. Within(u, lo[p], hi[p])
  <2>1. ASSUME NEW j \in 1 .. Len(u) PROVE Less(lo[p], u[j]) /\ Less(u[j], hi[p])
    <3>1. \A m \in 1 .. Len(ks[p]) : Less(lo[p], ks[p][m]) /\ Less(ks[p][m], hi[p])
      BY BlockFacts, SMTT(60)
    <3>2. j \in 1 .. Len(ks[p]) + 1 /\ i \in Nat /\ j \in Nat
      BY <1>3, <1>8
    <3>3. CASE j < i
      BY <1>3, <1>8, <3>1, <3>2, <3>3
    <3>4. CASE j = i
      BY <1>7, <1>8, <3>2, <3>4
    <3>5. CASE i < j
      <4>1. j - 1 \in 1 .. Len(ks[p]) /\ u[j] = ks[p][j - 1]
        BY <1>3, <1>8, <3>2, <3>5
      <4> QED BY <3>1, <4>1
    <3> QED BY <3>2, <3>3, <3>4, <3>5
  <2> QED BY <2>1 DEF Within
<1>16. \A b \in W : ShapeOfBlock(root, ks2, ds2, lev, lo, hi, b)
  <2> TAKE b \in W
  <2>1. ShapeOfBlock(root, ks, ds, lev, lo, hi, b)
    BY DEF Shape
  <2> QED BY <1>11, <1>13, <1>14, <1>15, <2>1 DEF ShapeOfBlock
<1>17. \A b \in W : ShapeOfKids(ks2, ds2, lev, lo, hi, 0, 0, b)
  <2> TAKE b \in W
  <2>0. ShapeOfKids(ks, ds, lev, lo, hi, x, kid, b)
    BY DEF Shape
  <2>1. CASE b # p
    <3>1. ds[b] # <<>> => \A j \in 1 .. Len(ks[b]) + 1 : ds[b][j] # x /\ ds[b][j] # 0
      <4> SUFFICES ASSUME ds[b] # <<>>, NEW j \in 1 .. Len(ks[b]) + 1
                   PROVE ds[b][j] # x /\ ds[b][j] # 0
        OBVIOUS
      <4>1. ds[b][j] \in W
        BY PlaceFacts
      <4>2. ds[b][j] # 0
        BY <4>1, BlockFacts
      <4>3. ds[b][j] = ds[p][i] => b = p
        BY OnePlace
      <4> QED BY <2>1, <4>2, <4>3
    <3> QED BY <1>11, <2>0, <2>1, <3>1 DEF ShapeOfKids, EndOf
  <2>2. CASE b = p
    <3>1. Len(v) = Len(u) + 1
      BY <1>3, <1>8, <1>9
    <3>2. ASSUME NEW j \in 1 .. Len(u) + 1
          PROVE  /\ lev[v[j]] + 1 = lev[p] /\ lo[v[j]] = LowerAt(u, lo[p], j)
                 /\ EndOf(hi, 0, 0, v[j]) = UpperAt(u, hi[p], j)
      <4>1. j \in 1 .. Len(ks[p]) + 2 /\ j \in 1 .. Len(ds[p]) + 1 /\ j \in Nat /\ i \in Nat
        BY <1>3, <1>8
      <4>2. \A m \in 1 .. Len(ks[p]) + 1 :
              /\ ds[p][m] \in W /\ lev[ds[p][m]] + 1 = lev[p]
              /\ lo[ds[p][m]] = LowerAt(ks[p], lo[p], m)
              /\ m # i => hi[ds[p][m]] = UpperAt(ks[p], hi[p], m)
              /\ ds[p][m] # 0
        <5> TAKE m \in 1 .. Len(ks[p]) + 1
        <5>1. /\ ds[p][m] \in W /\ lev[ds[p][m]] + 1 = lev[p]
              /\ lo[ds[p][m]] = LowerAt(ks[p], lo[p], m)
              /\ EndOf(hi, x, kid, ds[p][m]) = UpperAt(ks[p], hi[p], m)
          BY PlaceFacts
        <5>2. ds[p][m] = ds[p][i] => m = i
          BY OnePlace
        <5>3. ds[p][m] # 0
          BY <5>1, BlockFacts
        <5> QED BY <5>1, <5>2, <5>3 DEF EndOf
      <4>3. CASE j < i
        <5>1. j \in 1 .. Len(ks[p]) + 1 /\ v[j] = ds[p][j] /\ j # i /\ j \in 1 .. Len(ks[p])
          BY <1>3, <1>9, <4>1, <4>3
        <5>2. LowerAt(u, lo[p], j) = LowerAt(ks[p], lo[p], j)
          BY <1>8, <4>1, <4>3, <5>1 DEF LowerAt
        <5>3. UpperAt(u, hi[p], j) = UpperAt(ks[p], hi[p], j)
          BY <1>3, <1>8, <4>1, <4>3, <5>1 DEF UpperAt
        <5>4. EndOf(hi, 0, 0, ds[p][j]) = hi[ds[p][j]]
          BY <4>2, <5>1 DEF EndOf
        <5> QED BY <4>2, <5>1, <5>2, <5>3, <5>4
      <4>4. CASE j = i
        <5>1. v[j] = x /\ EndOf(hi, 0, 0, x) = k
          BY <1>2, <1>3, <1>9, <1>10, <4>1, <4>4 DEF EndOf
        <5>2. LowerAt(u, lo[p], i) = LowerAt(ks[p], lo[p], i)
          BY <1>3, <1>8, <4>1, <4>4 DEF LowerAt
        <5>3. UpperAt(u, hi[p], i) = k
          BY <1>3, <1>8, <4>1, <4>4 DEF UpperAt
        <5> QED BY <1>4, <4>4, <5>1, <5>2, <5>3
      <4>5. CASE j = i + 1
        <5>1. v[j] = kid /\ EndOf(hi, 0, 0, kid) = hi[kid]
          BY <1>2, <1>3, <1>9, <4>1, <4>5 DEF EndOf
        <5>2. LowerAt(u, lo[p], j) = k
          BY <1>3, <1>8, <4>1, <4>5 DEF LowerAt
        <5>3. UpperAt(u, hi[p], j) = UpperAt(ks[p], hi[p], i)
          <6>1. CASE i = Len(ks[p]) + 1
            BY <1>3, <1>8, <4>1, <4>5, <6>1 DEF UpperAt
          <6>2. CASE i # Len(ks[p]) + 1
            <7>1. j \in 1 .. Len(ks[p]) + 1 /\ u[j] = ks[p][i] /\ j # Len(u) + 1
              BY <1>3, <1>8, <4>1, <4>5, <6>2
            <7> QED BY <6>2, <7>1 DEF UpperAt
          <6> QED BY <6>1, <6>2
        <5> QED BY <1>2, <1>4, <5>1, <5>2, <5>3
      <4>6. CASE j > i + 1
        <5>1. j - 1 \in 1 .. Len(ks[p]) + 1 /\ v[j] = ds[p][j - 1] /\ j - 1 # i /\ j - 1 > 1
          BY <1>3, <1>9, <4>1, <4>6
        <5>2. LowerAt(u, lo[p], j) = LowerAt(ks[p], lo[p], j - 1)
          <6>0. j - 1 \in 1 .. Len(ks[p]) + 1 /\ ~ (j - 1 < i) /\ j - 1 # i
            BY <1>3, <1>8, <4>1, <4>6
          <6>1. j - 1 \in 1 .. Len(ks[p]) + 1 /\ u[j - 1] = ks[p][(j - 1) - 1] /\ j # 1 /\ j - 1 # 1
            BY <1>8, <4>1, <4>6, <6>0
          <6> QED BY <6>1 DEF LowerAt
        <5>3. UpperAt(u, hi[p], j) = UpperAt(ks[p], hi[p], j - 1)
          <6>1. CASE j = Len(ks[p]) + 2
            BY <1>3, <1>8, <4>1, <6>1 DEF UpperAt
          <6>2. CASE j # Len(ks[p]) + 2
            <7>1. j \in 1 .. Len(ks[p]) + 1 /\ u[j] = ks[p][j - 1] /\ j # Len(u) + 1 /\ j - 1 # Len(ks[p]) + 1
              <8> DEFINE n == Len(ks[p])
              <8>1. n \in Nat /\ i \in 1 .. n + 1 /\ j \in 1 .. n + 2 /\ j > i + 1 /\ j # n + 2 /\ Len(u) = n + 1
                BY <1>3, <1>8, <4>1, <4>6, <6>2
              <8>2. \A m \in 1 .. n + 1 : u[m] = IF m < i THEN ks[p][m] ELSE IF m = i THEN k ELSE ks[p][m - 1]
                BY <1>8
              <8> HIDE DEF n, u, k
              <8>3. j \in 1 .. n + 1 /\ ~ (j < i) /\ j # i /\ j # Len(u) + 1 /\ j - 1 # n + 1
                BY ONLY <8>1
              <8>4. u[j] = ks[p][j - 1]
                BY ONLY <8>2, <8>3
              <8> QED BY ONLY <8>3, <8>4 DEF n
            <7> QED BY <7>1 DEF UpperAt
          <6> QED BY <6>1, <6>2
        <5>4. EndOf(hi, 0, 0, ds[p][j - 1]) = hi[ds[p][j - 1]]
          BY <4>2, <5>1 DEF EndOf
        <5> QED BY <4>2, <5>1, <5>2, <5>3, <5>4
      <4> QED BY <4>1, <4>3, <4>4, <4>5, <4>6
    <3> QED BY <1>11, <2>2, <3>1, <3>2 DEF ShapeOfKids
  <2> QED BY <2>1, <2>2
<1>18. \A b \in W : b \in {root, 0} \/ \E q \in W : IsKidOf(ds2, b, q)
  <2> SUFFICES ASSUME NEW b \in W, b # root PROVE \E q \in W : IsKidOf(ds2, b, q)
    OBVIOUS
  <2>1. CASE b = kid
    <3>1. i + 1 \in 1 .. Len(v) /\ v[i + 1] = kid
      BY <1>3, <1>9
    <3> QED BY <1>11, <2>1, <3>1 DEF IsKidOf
  <2>2. CASE b # kid
    <3>1. PICK q \in W : IsKidOf(ds, b, q)
      BY <2>2 DEF Shape
    <3>2. CASE q # p
      BY <1>11, <3>1, <3>2 DEF IsKidOf
    <3>3. CASE q = p
      <4>1. PICK m \in 1 .. Len(ds[p]) : ds[p][m] = b
        BY <3>1, <3>3 DEF IsKidOf
      <4>2. m < i + 1 => m \in 1 .. Len(v) /\ v[m] = b
        BY <1>3, <1>9, <4>1
      <4>3. ~ (m < i + 1) => m + 1 \in 1 .. Len(v) /\ v[m + 1] = b
        BY <1>3, <1>9, <4>1
      <4>4. IsKidOf(ds2, b, p)
        BY <1>11, <4>2, <4>3 DEF IsKidOf
      <4> QED BY <4>4
    <3> QED BY <3>2, <3>3
  <2> QED BY <2>1, <2>2
<1>19. lo[root] = low /\ EndOf(hi, 0, 0, root) = high
  <2>1. lo[root] = low /\ EndOf(hi, x, kid, root) = high
    BY DEF Shape
  <2>2. root # x /\ root # 0
    <3>1. lev[p] <= lev[root] /\ lev[p] \in Nat
      BY BlockFacts
    <3>2. lev[x] \in Nat /\ root # 0
      <4>1. lev[x] \in Nat
        BY BlockFacts
      <4>2. root # 0
        BY <1>1, BlockFacts
      <4> QED BY <4>1, <4>2
    <3> QED BY <1>4, <3>1, <3>2
  <2> QED BY <2>1, <2>2 DEF EndOf
<1>20. \A b \in W : ks2[b] = <<>> => b \in E \ {p}
  <2>1. \A b \in W : ks[b] = <<>> => b \in E
    BY DEF Shape
  <2> QED BY <1>11, <1>13, <2>1
<1>21. \A b, c \in W : b # c /\ lev[b] = lev[c] => Apart(lo, hi, b, c)
  BY DEF Shape
<1> QED BY <1>12, <1>16, <1>17, <1>18, <1>19, <1>20, <1>21 DEF Shape, Hole

-----------------------------------------------------------------------------
(***************************************************************************)
(* A block is split.                                                       *)
(***************************************************************************)
\* The two parts of the children of a block that is split; a leaf has none.
LeftKids(s, m) == IF s = <<>> THEN <<>> ELSE SubSeq(s, 1, m)
RightKids(s, m) == IF s = <<>> THEN <<>> ELSE SubSeq(s, m + 1, Len(s))

\* The keys before, up to and after a place.
LEMMA PartsIs ==
  ASSUME NEW S, NEW s, NEW m, s \in Seq(S), m \in 1 .. Len(s)
  PROVE  /\ SubSeq(s, 1, m - 1) \in Seq(S) /\ Len(SubSeq(s, 1, m - 1)) = m - 1
         /\ \A i \in 1 .. m - 1 : SubSeq(s, 1, m - 1)[i] = s[i]
         /\ SubSeq(s, 1, m) \in Seq(S) /\ Len(SubSeq(s, 1, m)) = m
         /\ \A i \in 1 .. m : SubSeq(s, 1, m)[i] = s[i]
         /\ SubSeq(s, m + 1, Len(s)) \in Seq(S) /\ Len(SubSeq(s, m + 1, Len(s))) = Len(s) - m
         /\ \A i \in 1 .. Len(s) - m : SubSeq(s, m + 1, Len(s))[i] = s[m + i]
<1>1. Len(s) \in Nat /\ m \in Int
  BY LenProperties
<1>2. /\ SubSeq(s, 1, m - 1) \in Seq(S) /\ Len(SubSeq(s, 1, m - 1)) = m - 1 - 1 + 1
      /\ \A i \in 1 .. m - 1 - 1 + 1 : SubSeq(s, 1, m - 1)[i] = s[1 + i - 1]
  <2>1. 1 \in 1 .. Len(s) + 1 /\ m - 1 \in 0 .. Len(s) /\ 1 <= m - 1 + 1
    BY <1>1
  <2> QED BY <2>1, SubSeqIs
<1>3. /\ SubSeq(s, 1, m) \in Seq(S) /\ Len(SubSeq(s, 1, m)) = m - 1 + 1
      /\ \A i \in 1 .. m - 1 + 1 : SubSeq(s, 1, m)[i] = s[1 + i - 1]
  <2>1. 1 \in 1 .. Len(s) + 1 /\ m \in 0 .. Len(s) /\ 1 <= m + 1
    BY <1>1
  <2> QED BY <2>1, SubSeqIs
<1>4. /\ SubSeq(s, m + 1, Len(s)) \in Seq(S) /\ Len(SubSeq(s, m + 1, Len(s))) = Len(s) - (m + 1) + 1
      /\ \A i \in 1 .. Len(s) - (m + 1) + 1 : SubSeq(s, m + 1, Len(s))[i] = s[m + 1 + i - 1]
  <2>1. m + 1 \in 1 .. Len(s) + 1 /\ Len(s) \in 0 .. Len(s) /\ m + 1 <= Len(s) + 1
    BY <1>1
  <2> QED BY <2>1, SubSeqIs
<1>5. m - 1 - 1 + 1 = m - 1 /\ m - 1 + 1 = m /\ Len(s) - (m + 1) + 1 = Len(s) - m
  BY <1>1
<1>6. \A i \in Int : 1 + i - 1 = i /\ m + 1 + i - 1 = m + i
  BY <1>1
<1>7. \A i \in 1 .. m - 1 : SubSeq(s, 1, m - 1)[i] = s[i]
  BY <1>2, <1>5, <1>6
<1>8. \A i \in 1 .. m : SubSeq(s, 1, m)[i] = s[i]
  BY <1>3, <1>5, <1>6
<1>9. \A i \in 1 .. Len(s) - m : SubSeq(s, m + 1, Len(s))[i] = s[m + i]
  <2> TAKE i \in 1 .. Len(s) - m
  <2>1. i \in 1 .. Len(s) - (m + 1) + 1
    BY <1>5
  <2>2. SubSeq(s, m + 1, Len(s))[i] = s[m + 1 + i - 1]
    BY <1>4, <2>1
  <2>3. m + 1 + i - 1 = m + i
    BY <1>1
  <2> QED BY <2>2, <2>3
<1> QED BY <1>2, <1>3, <1>4, <1>5, <1>7, <1>8, <1>9

\* The keys and children of a part of a block: n keys from the one behind key m.
PartOf(s, m, n, u) == Len(u) = n /\ \A i \in 1 .. n : u[i] = s[m + i]

PartFits(s, a, z, m, n, u) ==
  /\ Sorted(u)
  /\ Within(u, LowerAt(s, a, m + 1), UpperAt(s, z, m + n + 1))
  /\ \A i \in 1 .. n + 1 :
       /\ LowerAt(u, LowerAt(s, a, m + 1), i) = LowerAt(s, a, m + i)
       /\ UpperAt(u, UpperAt(s, z, m + n + 1), i) = UpperAt(s, z, m + i)

\* A run of sorted keys is sorted, inside of its own bounds.
LEMMA PartKeys ==
  ASSUME NEW K, Ordered(K), NEW s \in Seq(K), NEW a \in K, NEW z \in K, Sorted(s), Within(s, a, z),
         Less(a, z), NEW m, NEW n, m \in Nat, n \in Nat, m + n <= Len(s), NEW u \in Seq(K), PartOf(s, m, n, u)
  PROVE  PartFits(s, a, z, m, n, u)
<1>1. Len(s) \in Nat /\ Len(u) = n
  BY LenProperties DEF PartOf
<1>2. \A i \in 1 .. n : u[i] = s[m + i] /\ m + i \in 1 .. Len(s)
  BY <1>1 DEF PartOf
<1>3. \A i, j \in 1 .. Len(s) : i < j => Less(s[i], s[j])
  BY DEF Sorted
<1>4. \A i \in 1 .. Len(s) : s[i] \in K /\ Less(a, s[i]) /\ Less(s[i], z)
  BY ElementOfSeq DEF Within
<1>5. Sorted(u)
  <2>1. ASSUME NEW i \in 1 .. n, NEW j \in 1 .. n, i < j PROVE Less(u[i], u[j])
    <3>1. m + i < m + j /\ m + i \in 1 .. Len(s) /\ m + j \in 1 .. Len(s)
      BY <1>2, <2>1
    <3>2. Less(s[m + i], s[m + j])
      BY <1>3, <3>1
    <3> QED BY <1>2, <3>2
  <2> QED BY <1>1, <2>1 DEF Sorted
<1> DEFINE x == LowerAt(s, a, m + 1)
           y == UpperAt(s, z, m + n + 1)
<1>6. /\ m = 0 => x = a
      /\ m # 0 => m \in 1 .. Len(s) /\ x = s[m]
  <2>1. m + 1 = 1 <=> m = 0
    OBVIOUS
  <2>2. m + 1 - 1 = m
    OBVIOUS
  <2>3. m # 0 => m \in 1 .. Len(s)
    BY <1>1
  <2> QED BY <2>1, <2>2, <2>3 DEF LowerAt
<1>7. /\ m + n = Len(s) => y = z
      /\ m + n # Len(s) => m + n + 1 \in 1 .. Len(s) /\ y = s[m + n + 1]
  <2>1. m + n + 1 = Len(s) + 1 <=> m + n = Len(s)
    BY <1>1
  <2>2. m + n # Len(s) => m + n + 1 \in 1 .. Len(s)
    BY <1>1
  <2> QED BY <2>1, <2>2 DEF UpperAt
<1> HIDE DEF x, y
<1>10. Within(u, x, y)
  <2>1. ASSUME NEW i \in 1 .. n PROVE Less(x, u[i]) /\ Less(u[i], y)
    <3>1. m < m + i /\ m + i < m + n + 1 /\ m + i \in 1 .. Len(s) /\ u[i] = s[m + i]
      BY <1>2
    <3>2. Less(x, s[m + i])
      BY <1>3, <1>4, <1>6, <3>1
    <3>3. Less(s[m + i], y)
      BY <1>3, <1>4, <1>7, <3>1
    <3> QED BY <3>1, <3>2, <3>3
  <2> QED BY <1>1, <2>1 DEF Within
<1>11. \A i \in 1 .. n + 1 : LowerAt(u, x, i) = LowerAt(s, a, m + i)
  <2> TAKE i \in 1 .. n + 1
  <2>1. CASE i = 1
    BY <2>1 DEF LowerAt, x
  <2>2. CASE i # 1
    <3>1. i - 1 \in 1 .. n /\ m + i # 1 /\ m + (i - 1) = m + i - 1
      BY <2>2
    <3>2. u[i - 1] = s[m + i - 1]
      BY <1>2, <3>1
    <3> QED BY <2>2, <3>1, <3>2 DEF LowerAt
  <2> QED BY <2>1, <2>2
<1>12. \A i \in 1 .. n + 1 : UpperAt(u, y, i) = UpperAt(s, z, m + i)
  <2> TAKE i \in 1 .. n + 1
  <2>1. CASE i = n + 1
    <3>1. m + i = m + n + 1
      BY <2>1
    <3> QED BY <1>1, <2>1, <3>1 DEF UpperAt, y
  <2>2. CASE i # n + 1
    <3>1. i \in 1 .. n /\ m + i # Len(s) + 1
      BY <1>1, <2>2
    <3> QED BY <1>1, <1>2, <2>2, <3>1 DEF UpperAt
  <2> QED BY <2>1, <2>2
<1> QED BY <1>5, <1>10, <1>11, <1>12 DEF PartFits, x, y

\* A block becomes two, b and c, with the key m of b between them.
IsSplit(ks, ds, b, m, c, W2, ks2, ds2) ==
  /\ ks2 = [d \in W2 |-> IF d = b THEN SubSeq(ks[b], 1, m - 1)
                         ELSE IF d = c THEN SubSeq(ks[b], m + 1, Len(ks[b])) ELSE ks[d]]
  /\ ds2 = [d \in W2 |-> IF d = b THEN LeftKids(ds[b], m)
                         ELSE IF d = c THEN RightKids(ds[b], m) ELSE ds[d]]

\* xioxins splits a block: the key in the middle goes up, what is after it into
\* a new block.
THEOREM Split ==
  ASSUME NEW K, Ordered(K), NEW low, NEW high, NEW W, NEW root, NEW ks, NEW ds, NEW lev,
         NEW lo, NEW hi, NEW E, Shape(K, low, high, W, root, ks, ds, lev, lo, hi, 0, 0, E),
         NEW b, b \in W, NEW m, m \in 1 .. Len(ks[b]), NEW c, c \in Nat \ {0}, c \notin W,
         NEW W2, W2 = W \cup {c}, NEW ks2, NEW ds2, IsSplit(ks, ds, b, m, c, W2, ks2, ds2),
         NEW E2, StillEmpty(W, b, b, E, E2), m = 1 => b \in E2, m = Len(ks[b]) => c \in E2
  PROVE  Opened(K, low, high, W2, root, ks2, ds2, E2, W, lev, b, c, ks[b][m])
<1> USE DEF IsSplit, StillEmpty, Opened
<1> DEFINE k == ks[b][m]
           u == SubSeq(ks[b], 1, m - 1)
           v == SubSeq(ks[b], m + 1, Len(ks[b]))
           du == LeftKids(ds[b], m)
           dv == RightKids(ds[b], m)
           lev2 == [d \in W2 |-> IF d = c THEN lev[b] ELSE lev[d]]
           lo2 == [d \in W2 |-> IF d = c THEN k ELSE lo[d]]
           hi2 == [d \in W2 |-> IF d = b THEN k ELSE IF d = c THEN hi[b] ELSE hi[d]]
<1>1. /\ ShapeTypes(K, W, root, ks, ds, lev, lo, hi) /\ root \in W
      /\ ks \in [W -> Seq(K)] /\ ds \in [W -> Seq(W)]
      /\ lev \in [W -> Nat] /\ lo \in [W -> K] /\ hi \in [W -> K]
  BY DEF Shape, ShapeTypes
<1>2. /\ ks[b] \in Seq(K) /\ Len(ks[b]) \in Nat /\ ds[b] \in Seq(W)
      /\ lo[b] \in K /\ hi[b] \in K /\ Less(lo[b], hi[b])
      /\ lev[b] \in Nat /\ (lev[b] = 0 <=> ds[b] = <<>>)
      /\ (ds[b] # <<>> => Len(ds[b]) = Len(ks[b]) + 1) /\ Len(ds[b]) \in Nat
      /\ b # 0 /\ lev[b] <= lev[root]
  BY BlockFacts
<1>3. m \in Nat /\ m >= 1 /\ m <= Len(ks[b])
  BY <1>2
<1>4. k \in K /\ Less(lo[b], k) /\ Less(k, hi[b])
  BY BlockFacts
<1>5. /\ u \in Seq(K) /\ PartOf(ks[b], 0, m - 1, u)
      /\ v \in Seq(K) /\ PartOf(ks[b], m, Len(ks[b]) - m, v)
  <2> DEFINE s == ks[b]
  <2>1. s \in Seq(K) /\ m \in 1 .. Len(s) /\ u = SubSeq(s, 1, m - 1) /\ v = SubSeq(s, m + 1, Len(s))
    BY <1>2
  <2> HIDE DEF s, u, v
  <2>2. /\ SubSeq(s, 1, m - 1) \in Seq(K) /\ Len(SubSeq(s, 1, m - 1)) = m - 1
        /\ \A i \in 1 .. m - 1 : SubSeq(s, 1, m - 1)[i] = s[i]
        /\ SubSeq(s, m + 1, Len(s)) \in Seq(K) /\ Len(SubSeq(s, m + 1, Len(s))) = Len(s) - m
        /\ \A i \in 1 .. Len(s) - m : SubSeq(s, m + 1, Len(s))[i] = s[m + i]
    BY ONLY <2>1, PartsIs
  <2>3. \A i \in 1 .. m - 1 : 0 + i = i
    OBVIOUS
  <2> QED BY <2>1, <2>2, <2>3 DEF s, PartOf
<1>6. ds[b] # <<>> => /\ du \in Seq(W) /\ PartOf(ds[b], 0, m, du)
                      /\ dv \in Seq(W) /\ PartOf(ds[b], m, Len(ks[b]) + 1 - m, dv)
  <2> SUFFICES ASSUME ds[b] # <<>>
               PROVE  /\ du \in Seq(W) /\ PartOf(ds[b], 0, m, du)
                      /\ dv \in Seq(W) /\ PartOf(ds[b], m, Len(ks[b]) + 1 - m, dv)
    OBVIOUS
  <2> DEFINE s == ds[b]
  <2>1. s \in Seq(W) /\ m \in 1 .. Len(s) /\ du = SubSeq(s, 1, m) /\ dv = SubSeq(s, m + 1, Len(s))
        /\ Len(s) = Len(ks[b]) + 1
    BY <1>2, <1>3 DEF LeftKids, RightKids
  <2> HIDE DEF s, du, dv
  <2>2. /\ SubSeq(s, 1, m) \in Seq(W) /\ Len(SubSeq(s, 1, m)) = m
        /\ \A i \in 1 .. m : SubSeq(s, 1, m)[i] = s[i]
        /\ SubSeq(s, m + 1, Len(s)) \in Seq(W) /\ Len(SubSeq(s, m + 1, Len(s))) = Len(s) - m
        /\ \A i \in 1 .. Len(s) - m : SubSeq(s, m + 1, Len(s))[i] = s[m + i]
    BY ONLY <2>1, PartsIs, SMTT(60)
  <2>3. \A i \in 1 .. m : 0 + i = i
    OBVIOUS
  <2> QED BY <2>1, <2>2, <2>3 DEF s, PartOf
<1>7. ds[b] = <<>> => du = <<>> /\ dv = <<>>
  BY DEF LeftKids, RightKids
<1>8. c \in W2 /\ b # c /\ c # 0 /\ c # root /\ \A d \in W : d \in W2 /\ d # c
  BY <1>1
<1>9. \A d \in W : /\ lev2[d] = lev[d] /\ lo2[d] = lo[d] /\ (d # b => hi2[d] = hi[d])
                   /\ (d # b => ks2[d] = ks[d] /\ ds2[d] = ds[d])
  BY <1>8
<1>10. /\ hi2[b] = k /\ lev2[c] = lev[b] /\ lo2[c] = k /\ hi2[c] = hi[b]
       /\ ks2[b] = u /\ ks2[c] = v /\ ds2[b] = du /\ ds2[c] = dv
  BY <1>8
<1>11. \A d \in W2 : d \in W \/ d = c
  OBVIOUS
<1>12. lev2 \in [W2 -> Nat] /\ lo2 \in [W2 -> K] /\ hi2 \in [W2 -> K]
  BY <1>1, <1>2, <1>4
<1>13. ks2 \in [W2 -> Seq(K)]
  BY <1>1, <1>5
<1> HIDE DEF k, u, v, du, dv, lev2, lo2, hi2
<1>14. ds2 \in [W2 -> Seq(W2)]
  <2>1. \A d \in W2 : ds2[d] \in Seq(W2)
    <3> TAKE d \in W2
    <3>1. \A e \in W : ds[e] \in Seq(W2)
      <4>1. \A e \in W : ds[e] \in Seq(W)
        BY <1>1
      <4> QED BY <4>1
    <3>2. du \in Seq(W2) /\ dv \in Seq(W2)
      <4>1. CASE ds[b] = <<>>
        BY <1>7, <4>1
      <4>2. CASE ds[b] # <<>>
        BY <1>6, <4>2
      <4> QED BY <4>1, <4>2
    <3> QED BY <1>9, <1>10, <1>11, <3>1, <3>2
  <2>2. ds2 = [d \in W2 |-> ds2[d]]
    OBVIOUS
  <2> QED BY <2>1, <2>2
<1>15. ShapeTypes(K, W2, root, ks2, ds2, lev2, lo2, hi2)
  <2>1. W2 \in SUBSET (Nat \ {0})
    BY <1>1 DEF ShapeTypes
  <2> QED BY <1>1, <1>8, <1>12, <1>13, <1>14, <2>1 DEF ShapeTypes
<1>16. /\ Sorted(u) /\ Within(u, lo[b], k)
       /\ \A i \in 1 .. m : LowerAt(u, lo[b], i) = LowerAt(ks[b], lo[b], i)
                            /\ UpperAt(u, k, i) = UpperAt(ks[b], hi[b], i)
  <2> DEFINE s == ks[b]
             n == m - 1
  <2>1. s \in Seq(K) /\ Sorted(s) /\ Within(s, lo[b], hi[b]) /\ n \in Nat /\ 0 \in Nat /\ 0 + n <= Len(s) /\ n + 1 = m
        /\ PartOf(s, 0, n, u) /\ s = ks[b]
    BY <1>2, <1>3, <1>5 DEF Shape, ShapeOfBlock
  <2> HIDE DEF s, n
  <2>9. PartFits(s, lo[b], hi[b], 0, n, u)
    BY <1>2, <1>5, <2>1, PartKeys
  <2>2. /\ Sorted(u) /\ Within(u, LowerAt(s, lo[b], 0 + 1), UpperAt(s, hi[b], 0 + n + 1))
        /\ \A i \in 1 .. n + 1 :
              /\ LowerAt(u, LowerAt(s, lo[b], 0 + 1), i) = LowerAt(s, lo[b], 0 + i)
              /\ UpperAt(u, UpperAt(s, hi[b], 0 + n + 1), i) = UpperAt(s, hi[b], 0 + i)
    BY <2>9 DEF PartFits
  <2>3. LowerAt(s, lo[b], 0 + 1) = lo[b]
    BY DEF LowerAt
  <2>4. 0 + n + 1 = m /\ \A i \in 1 .. m : 0 + i = i
    BY <1>3, <2>1
  <2>5. UpperAt(s, hi[b], m) = k
    BY <1>2, <1>3, <2>1 DEF UpperAt, k
  <2> QED BY <2>1, <2>2, <2>3, <2>4, <2>5
<1>17. /\ Sorted(v) /\ Within(v, k, hi[b])
       /\ \A i \in 1 .. Len(ks[b]) - m + 1 :
            LowerAt(v, k, i) = LowerAt(ks[b], lo[b], m + i)
            /\ UpperAt(v, hi[b], i) = UpperAt(ks[b], hi[b], m + i)
  <2> DEFINE s == ks[b]
             n == Len(ks[b]) - m
  <2>1. s \in Seq(K) /\ Sorted(s) /\ Within(s, lo[b], hi[b]) /\ n \in Nat /\ m \in Nat /\ m + n <= Len(s) /\ n = Len(s) - m
        /\ PartOf(s, m, n, v) /\ s = ks[b]
    BY <1>2, <1>3, <1>5 DEF Shape, ShapeOfBlock
  <2> HIDE DEF s, n
  <2>9. PartFits(s, lo[b], hi[b], m, n, v)
    BY <1>2, <1>5, <2>1, PartKeys
  <2>2. /\ Sorted(v) /\ Within(v, LowerAt(s, lo[b], m + 1), UpperAt(s, hi[b], m + n + 1))
        /\ \A i \in 1 .. n + 1 :
              /\ LowerAt(v, LowerAt(s, lo[b], m + 1), i) = LowerAt(s, lo[b], m + i)
              /\ UpperAt(v, UpperAt(s, hi[b], m + n + 1), i) = UpperAt(s, hi[b], m + i)
    BY <2>9 DEF PartFits
  <2>3. LowerAt(s, lo[b], m + 1) = k
    <3>1. m + 1 # 1 /\ m + 1 - 1 = m
      BY <1>3
    <3> QED BY <2>1, <3>1 DEF LowerAt, k
  <2>4. UpperAt(s, hi[b], m + n + 1) = hi[b]
    <3>1. m + n + 1 = Len(s) + 1
      BY <1>2, <1>3, <2>1
    <3> QED BY <3>1 DEF UpperAt
  <2> QED BY <2>1, <2>2, <2>3, <2>4
<1>18. /\ Len(u) = m - 1 /\ Len(v) = Len(ks[b]) - m
       /\ ds[b] # <<>> => /\ Len(du) = m /\ Len(dv) = Len(ks[b]) + 1 - m
                          /\ du # <<>> /\ dv # <<>>
                          /\ \A i \in 1 .. m : du[i] = ds[b][i]
                          /\ \A i \in 1 .. Len(ks[b]) + 1 - m : dv[i] = ds[b][m + i]
  <2>1. Len(u) = m - 1 /\ Len(v) = Len(ks[b]) - m
    BY <1>5 DEF PartOf
  <2> SUFFICES ASSUME ds[b] # <<>>
               PROVE  /\ Len(du) = m /\ Len(dv) = Len(ks[b]) + 1 - m /\ du # <<>> /\ dv # <<>>
                      /\ \A i \in 1 .. m : du[i] = ds[b][i]
                      /\ \A i \in 1 .. Len(ks[b]) + 1 - m : dv[i] = ds[b][m + i]
    BY <2>1
  <2>2. PartOf(ds[b], 0, m, du) /\ PartOf(ds[b], m, Len(ks[b]) + 1 - m, dv)
    BY <1>6
  <2>3. Len(du) = m /\ Len(dv) = Len(ks[b]) + 1 - m
    BY <2>2 DEF PartOf
  <2>4. Len(du) # 0 /\ Len(dv) # 0
    BY <1>2, <1>3, <2>3
  <2>5. \A i \in 1 .. m : du[i] = ds[b][0 + i] /\ 0 + i = i
    BY <2>2 DEF PartOf
  <2>6. \A i \in 1 .. Len(ks[b]) + 1 - m : dv[i] = ds[b][m + i]
    BY <2>2 DEF PartOf
  <2> QED BY <2>3, <2>4, <2>5, <2>6
<1>19. \A d \in W2 : ShapeOfBlock(root, ks2, ds2, lev2, lo2, hi2, d)
  <2> TAKE d \in W2
  <2>1. CASE d = b
    <3>1. lev[b] = 0 <=> du = <<>>
      BY <1>2, <1>7, <1>18
    <3> QED BY <1>1, <1>2, <1>4, <1>9, <1>10, <1>16, <2>1, <3>1 DEF ShapeOfBlock
  <2>2. CASE d = c
    <3>1. lev[b] = 0 <=> dv = <<>>
      BY <1>2, <1>7, <1>18
    <3> QED BY <1>1, <1>2, <1>4, <1>9, <1>10, <1>17, <2>2, <3>1 DEF ShapeOfBlock
  <2>3. CASE d # b /\ d # c
    <3>1. d \in W /\ ShapeOfBlock(root, ks, ds, lev, lo, hi, d)
      BY <1>11, <2>3 DEF Shape
    <3> QED BY <1>1, <1>9, <2>3, <3>1 DEF ShapeOfBlock
  <2> QED BY <2>1, <2>2, <2>3
<1>20. \A d \in W : ds[d] # <<>> => \A i \in 1 .. Len(ks[d]) + 1 :
         LET e == ds[d][i] IN
           /\ e \in W /\ lev2[e] + 1 = lev[d] /\ lo2[e] = LowerAt(ks[d], lo[d], i)
           /\ EndOf(hi2, b, c, e) = UpperAt(ks[d], hi[d], i)
  <2> SUFFICES ASSUME NEW d \in W, ds[d] # <<>>, NEW i \in 1 .. Len(ks[d]) + 1, NEW e, e = ds[d][i]
               PROVE  /\ e \in W /\ lev2[e] + 1 = lev[d] /\ lo2[e] = LowerAt(ks[d], lo[d], i)
                      /\ EndOf(hi2, b, c, e) = UpperAt(ks[d], hi[d], i)
    OBVIOUS
  <2>1. /\ e \in W /\ lev[e] + 1 = lev[d] /\ lo[e] = LowerAt(ks[d], lo[d], i)
        /\ EndOf(hi, 0, 0, e) = UpperAt(ks[d], hi[d], i)
    BY PlaceFacts
  <2>2. e # 0
    BY <2>1, BlockFacts
  <2> QED BY <1>9, <1>10, <2>1, <2>2 DEF EndOf
<1>21. \A d \in W2 : ShapeOfKids(ks2, ds2, lev2, lo2, hi2, b, c, d)
  <2> TAKE d \in W2
  <2>0. \A e \in W : ds[e] # <<>> => Len(ds[e]) = Len(ks[e]) + 1
    BY BlockFacts
  <2>1. CASE d = b
    <3> SUFFICES ASSUME du # <<>>
                 PROVE  /\ Len(du) = Len(u) + 1
                        /\ \A i \in 1 .. Len(u) + 1 :
                             /\ lev2[du[i]] + 1 = lev2[b] /\ lo2[du[i]] = LowerAt(u, lo2[b], i)
                             /\ EndOf(hi2, b, c, du[i]) = UpperAt(u, hi2[b], i)
      BY <1>10, <2>1 DEF ShapeOfKids
    <3>1. ds[b] # <<>>
      BY <1>7
    <3>2. Len(du) = Len(u) + 1 /\ Len(u) + 1 = m
      BY <1>3, <1>18, <3>1
    <3>3. ASSUME NEW i \in 1 .. m
          PROVE  /\ lev2[du[i]] + 1 = lev2[b] /\ lo2[du[i]] = LowerAt(u, lo2[b], i)
                 /\ EndOf(hi2, b, c, du[i]) = UpperAt(u, hi2[b], i)
      <4>1. i \in 1 .. Len(ks[b]) + 1 /\ du[i] = ds[b][i]
        BY <1>2, <1>3, <1>18, <3>1
      <4>2. /\ lev2[du[i]] + 1 = lev[b] /\ lo2[du[i]] = LowerAt(ks[b], lo[b], i)
            /\ EndOf(hi2, b, c, du[i]) = UpperAt(ks[b], hi[b], i)
        BY <1>20, <3>1, <4>1
      <4> QED BY <1>9, <1>10, <1>16, <4>2
    <3> QED BY <3>2, <3>3
  <2>2. CASE d = c
    <3> SUFFICES ASSUME dv # <<>>
                 PROVE  /\ Len(dv) = Len(v) + 1
                        /\ \A i \in 1 .. Len(v) + 1 :
                             /\ lev2[dv[i]] + 1 = lev2[c] /\ lo2[dv[i]] = LowerAt(v, lo2[c], i)
                             /\ EndOf(hi2, b, c, dv[i]) = UpperAt(v, hi2[c], i)
      BY <1>10, <2>2 DEF ShapeOfKids
    <3>1. ds[b] # <<>>
      BY <1>7
    <3>2. Len(dv) = Len(v) + 1 /\ Len(v) + 1 = Len(ks[b]) - m + 1 /\ Len(ks[b]) - m + 1 = Len(ks[b]) + 1 - m
      BY <1>2, <1>3, <1>18, <3>1
    <3>3. ASSUME NEW i \in 1 .. Len(ks[b]) - m + 1
          PROVE  /\ lev2[dv[i]] + 1 = lev2[c] /\ lo2[dv[i]] = LowerAt(v, lo2[c], i)
                 /\ EndOf(hi2, b, c, dv[i]) = UpperAt(v, hi2[c], i)
      <4>1. m + i \in 1 .. Len(ks[b]) + 1 /\ dv[i] = ds[b][m + i]
        BY <1>2, <1>3, <1>18, <3>1, <3>2, SMTT(60)
      <4>2. /\ lev2[dv[i]] + 1 = lev[b] /\ lo2[dv[i]] = LowerAt(ks[b], lo[b], m + i)
            /\ EndOf(hi2, b, c, dv[i]) = UpperAt(ks[b], hi[b], m + i)
        BY <1>20, <3>1, <4>1
      <4> QED BY <1>9, <1>10, <1>17, <4>2
    <3> QED BY <3>2, <3>3
  <2>3. CASE d # b /\ d # c
    <3>1. d \in W /\ ds2[d] = ds[d] /\ ks2[d] = ks[d] /\ lev2[d] = lev[d] /\ lo2[d] = lo[d] /\ hi2[d] = hi[d]
      BY <1>9, <1>11, <2>3
    <3>2. ds[d] # <<>> => \A i \in 1 .. Len(ks[d]) + 1 :
            /\ lev2[ds[d][i]] + 1 = lev[d] /\ lo2[ds[d][i]] = LowerAt(ks[d], lo[d], i)
            /\ EndOf(hi2, b, c, ds[d][i]) = UpperAt(ks[d], hi[d], i)
      BY <1>20, <3>1
    <3>3. ds[d] # <<>> => Len(ds[d]) = Len(ks[d]) + 1
      BY <2>0, <3>1
    <3> QED BY <3>1, <3>2, <3>3 DEF ShapeOfKids
  <2> QED BY <2>1, <2>2, <2>3
<1>22. \A d \in W2 : ks2[d] = <<>> => d \in E2
  <2> SUFFICES ASSUME NEW d \in W2, ks2[d] = <<>> PROVE d \in E2
    OBVIOUS
  <2>1. d = b => m = 1
    <3>1. d = b => Len(u) = 0
      BY <1>10
    <3> QED BY <1>3, <1>18, <3>1
  <2>2. d = c => m = Len(ks[b])
    <3>1. d = c => Len(v) = 0
      BY <1>10
    <3> QED BY <1>2, <1>3, <1>18, <3>1
  <2>3. d # b /\ d # c => d \in E2
    BY <1>9, <1>11 DEF Shape
  <2> QED BY <2>1, <2>2, <2>3
<1>23. \A d \in W2 : d \in {root, c} \/ \E p \in W2 : IsKidOf(ds2, d, p)
  <2> SUFFICES ASSUME NEW d \in W2, d # root, d # c PROVE \E p \in W2 : IsKidOf(ds2, d, p)
    OBVIOUS
  <2>0. d \in W
    BY <1>11
  <2>1. PICK p \in W : ds[p] # <<>> /\ \E i \in 1 .. Len(ks[p]) + 1 : ds[p][i] = d
    BY <2>0, HasParent
  <2>2. PICK i \in 1 .. Len(ks[p]) + 1 : ds[p][i] = d
    BY <2>1
  <2>3. Len(ds[p]) = Len(ks[p]) + 1
    BY <2>1, BlockFacts
  <2>4. CASE p # b
    BY <1>8, <1>9, <2>2, <2>3, <2>4 DEF IsKidOf
  <2>5. CASE p = b /\ i <= m
    <3>1. i \in 1 .. Len(du) /\ du[i] = d
      BY <1>3, <1>18, <2>1, <2>2, <2>5
    <3> QED BY <1>8, <1>10, <3>1 DEF IsKidOf
  <2>6. CASE p = b /\ ~ (i <= m)
    <3>1. i - m \in 1 .. Len(ks[b]) + 1 - m /\ m + (i - m) = i
      BY <1>2, <1>3, <2>6
    <3>2. i - m \in 1 .. Len(dv) /\ dv[i - m] = d
      BY <1>18, <2>1, <2>2, <2>6, <3>1
    <3> QED BY <1>8, <1>10, <3>2 DEF IsKidOf
  <2> QED BY <2>4, <2>5, <2>6
<1>24. \A d, e \in W2 : d # e /\ lev2[d] = lev2[e] => Apart(lo2, hi2, d, e)
  <2>0. \A d, e \in W : d # e /\ lev[d] = lev[e] => Leq(hi[d], lo[e]) \/ Leq(hi[e], lo[d])
    BY DEF Shape, Apart
  <2>1. \A d \in W : d # b /\ lev[d] = lev[b] => Leq(hi[d], lo[b]) \/ Leq(hi[b], lo[d])
    BY <2>0
  <2>2. \A d \in W : lo[d] \in K /\ hi[d] \in K
    BY BlockFacts
  <2>3. \A d \in W : d # b /\ lev[d] = lev[b] =>
          Apart(lo2, hi2, d, c) /\ Apart(lo2, hi2, c, d) /\ Apart(lo2, hi2, d, b) /\ Apart(lo2, hi2, b, d)
    <3> SUFFICES ASSUME NEW d \in W, d # b, lev[d] = lev[b]
                 PROVE Apart(lo2, hi2, d, c) /\ Apart(lo2, hi2, c, d) /\ Apart(lo2, hi2, d, b) /\ Apart(lo2, hi2, b, d)
      OBVIOUS
    <3>1. Leq(hi[d], lo[b]) => Leq(hi[d], k)
      BY <1>2, <1>4, <2>2, Order DEF Leq
    <3>2. Leq(hi[b], lo[d]) => Leq(k, lo[d])
      BY <1>2, <1>4, <2>2, Order DEF Leq
    <3> QED BY <1>9, <1>10, <2>1, <3>1, <3>2 DEF Apart
  <2>4. Apart(lo2, hi2, b, c) /\ Apart(lo2, hi2, c, b)
    BY <1>10 DEF Apart, Leq
  <2> TAKE d \in W2, e \in W2
  <2>5. CASE d \in W /\ e \in W /\ d # b /\ e # b
    BY <1>9, <2>0, <2>5 DEF Apart
  <2>6. CASE d \in W /\ e \in {b, c}
    BY <1>9, <1>10, <2>3, <2>4, <2>6
  <2>7. CASE d \in {b, c} /\ e \in W
    BY <1>9, <1>10, <2>3, <2>4, <2>7
  <2>8. CASE d \in {b, c} /\ e \in {b, c}
    BY <2>4, <2>8
  <2> QED BY <1>11, <2>5, <2>6, <2>7, <2>8
<1>25. lo2[root] = low /\ EndOf(hi2, b, c, root) = high
  <2>1. lo[root] = low /\ EndOf(hi, 0, 0, root) = high
    BY DEF Shape
  <2>2. root # 0
    BY <1>1, BlockFacts
  <2> QED BY <1>1, <1>9, <1>10, <2>1, <2>2 DEF EndOf
<1>26. Hole(W2, root, lev2, lo2, hi2, b, c)
  BY <1>8, <1>9, <1>10 DEF Hole
<1>27. Shape(K, low, high, W2, root, ks2, ds2, lev2, lo2, hi2, b, c, E2)
  BY <1>15, <1>19, <1>21, <1>22, <1>23, <1>24, <1>25, <1>26 DEF Shape
<1>28. hi2[b] = ks[b][m]
  BY <1>10 DEF k
<1> QED BY <1>9, <1>12, <1>27, <1>28

-----------------------------------------------------------------------------
(***************************************************************************)
(* Two brothers become one.                                                *)
(***************************************************************************)
\* What a concatenation gives.
LEMMA CatIs ==
  ASSUME NEW S, NEW s, NEW t, s \in Seq(S), t \in Seq(S)
  PROVE  /\ s \o t \in Seq(S) /\ Len(s \o t) = Len(s) + Len(t)
         /\ \A i \in 1 .. Len(s) : (s \o t)[i] = s[i]
         /\ \A i \in 1 .. Len(t) : (s \o t)[Len(s) + i] = t[i]
<1>1. Len(s) \in Nat /\ Len(t) \in Nat
  BY LenProperties
<1>2. /\ s \o t \in Seq(S) /\ Len(s \o t) = Len(s) + Len(t)
      /\ \A i \in 1 .. Len(s) + Len(t) : (s \o t)[i] = IF i <= Len(s) THEN s[i] ELSE t[i - Len(s)]
  BY ConcatProperties
<1>3. ASSUME NEW i \in 1 .. Len(t) PROVE (s \o t)[Len(s) + i] = t[i]
  <2>1. Len(s) + i \in 1 .. Len(s) + Len(t) /\ ~ (Len(s) + i <= Len(s)) /\ Len(s) + i - Len(s) = i
    BY <1>1
  <2> QED BY <1>2, <2>1
<1>4. \A i \in 1 .. Len(s) : (s \o t)[i] = s[i]
  BY <1>1, <1>2
<1> QED BY <1>2, <1>3, <1>4

\* What is left, a key and what is right, one after the other.
LEMMA JoinIs ==
  ASSUME NEW S, NEW s, NEW t, NEW e, s \in Seq(S), t \in Seq(S), e \in S
  PROVE  /\ s \o <<e>> \o t \in Seq(S) /\ Len(s \o <<e>> \o t) = Len(s) + 1 + Len(t)
         /\ \A i \in 1 .. Len(s) : (s \o <<e>> \o t)[i] = s[i]
         /\ (s \o <<e>> \o t)[Len(s) + 1] = e
         /\ \A i \in 1 .. Len(t) : (s \o <<e>> \o t)[Len(s) + 1 + i] = t[i]
<1> DEFINE o == <<e>>
           u == s \o o
<1>1. Len(s) \in Nat /\ Len(t) \in Nat /\ o \in Seq(S) /\ Len(o) = 1 /\ o[1] = e
  BY LenProperties
<1> HIDE DEF o
<1>2. u \in Seq(S) /\ Len(u) = Len(s) + 1 /\ (\A i \in 1 .. Len(s) : u[i] = s[i]) /\ u[Len(s) + 1] = e
  <2>1. /\ u \in Seq(S) /\ Len(u) = Len(s) + Len(o) /\ \A i \in 1 .. Len(s) : u[i] = s[i]
        /\ \A i \in 1 .. Len(o) : u[Len(s) + i] = o[i]
    BY <1>1, CatIs, SMTT(60)
  <2>2. 1 \in 1 .. Len(o)
    BY <1>1
  <2> QED BY <1>1, <2>1, <2>2
<1> HIDE DEF u
<1>21. u \in Seq(S) /\ t \in Seq(S)
  BY <1>2
<1>3. /\ u \o t \in Seq(S) /\ Len(u \o t) = Len(u) + Len(t)
      /\ \A i \in 1 .. Len(u) : (u \o t)[i] = u[i]
      /\ \A i \in 1 .. Len(t) : (u \o t)[Len(u) + i] = t[i]
  BY <1>21, CatIs
<1>4. \A i \in 1 .. Len(s) : (u \o t)[i] = s[i]
  BY <1>1, <1>2, <1>3
<1>5. (u \o t)[Len(s) + 1] = e
  BY <1>1, <1>2, <1>3
<1>6. \A i \in 1 .. Len(t) : (u \o t)[Len(s) + 1 + i] = t[i]
  BY <1>2, <1>3
<1> QED BY <1>2, <1>3, <1>4, <1>5, <1>6 DEF u, o

Joining(s, e, t, u) ==
  /\ Len(u) = Len(s) + 1 + Len(t)
  /\ \A i \in 1 .. Len(s) : u[i] = s[i]
  /\ u[Len(s) + 1] = e
  /\ \A i \in 1 .. Len(t) : u[Len(s) + 1 + i] = t[i]

\* The keys of two blocks and the key between them.
LEMMA JoinKeys ==
  ASSUME NEW K, Ordered(K), NEW s \in Seq(K), NEW t \in Seq(K), NEW e \in K, NEW u \in Seq(K),
         Joining(s, e, t, u), NEW a \in K, NEW z \in K, Sorted(s), Within(s, a, e), Less(a, e),
         Sorted(t), Within(t, e, z), Less(e, z)
  PROVE  /\ Sorted(u) /\ Within(u, a, z)
         /\ \A i \in 1 .. Len(s) + 1 : /\ LowerAt(u, a, i) = LowerAt(s, a, i)
                                       /\ UpperAt(u, z, i) = UpperAt(s, e, i)
         /\ \A i \in 1 .. Len(t) + 1 : /\ LowerAt(u, a, Len(s) + 1 + i) = LowerAt(t, e, i)
                                       /\ UpperAt(u, z, Len(s) + 1 + i) = UpperAt(t, z, i)
<1>1. Len(s) \in Nat /\ Len(t) \in Nat
  BY LenProperties
<1>2. /\ Len(u) = Len(s) + 1 + Len(t)
      /\ \A i \in 1 .. Len(s) : u[i] = s[i]
      /\ u[Len(s) + 1] = e
      /\ \A i \in 1 .. Len(t) : u[Len(s) + 1 + i] = t[i]
  BY DEF Joining
<1>3. /\ \A i \in 1 .. Len(s) : s[i] \in K /\ Less(a, s[i]) /\ Less(s[i], e)
      /\ \A i \in 1 .. Len(t) : t[i] \in K /\ Less(e, t[i]) /\ Less(t[i], z)
  <2>1. \A i \in 1 .. Len(s) : s[i] \in K
    BY ElementOfSeq
  <2>2. \A i \in 1 .. Len(t) : t[i] \in K
    BY ElementOfSeq
  <2> QED BY <2>1, <2>2 DEF Within
<1> DEFINE n == Len(s)
           m == Len(t)
<1>4. n \in Nat /\ m \in Nat /\ Len(u) = n + 1 + m
  BY <1>1, <1>2
<1>5. \A i \in 1 .. n : u[i] = s[i] /\ Less(a, s[i]) /\ Less(s[i], e) /\ s[i] \in K
  BY <1>2, <1>3
<1>6. u[n + 1] = e
  BY <1>2
<1>7. \A i \in 1 .. m : u[n + 1 + i] = t[i] /\ Less(e, t[i]) /\ Less(t[i], z) /\ t[i] \in K
  BY <1>2, <1>3
<1>8. n = Len(s) /\ m = Len(t)
  OBVIOUS
<1> HIDE DEF n, m
<1>9. \A j \in 1 .. n + 1 + m : \/ j \in 1 .. n
                                \/ j = n + 1
                                \/ \E i \in 1 .. m : j = n + 1 + i
  <2> TAKE j \in 1 .. n + 1 + m
  <2>1. CASE j > n + 1
    <3>1. j - (n + 1) \in 1 .. m /\ j = n + 1 + (j - (n + 1))
      BY <1>4, <2>1
    <3> QED BY <3>1
  <2> QED BY <1>4, <2>1
<1>10. Within(u, a, z)
  <2>1. ASSUME NEW j \in 1 .. n + 1 + m PROVE Less(a, u[j]) /\ Less(u[j], z)
    <3>1. CASE j \in 1 .. n
      BY <1>5, <3>1, Order
    <3>2. CASE j = n + 1
      BY <1>6, <3>2
    <3>3. CASE \E i \in 1 .. m : j = n + 1 + i
      BY <1>7, <3>3, Order
    <3> QED BY <1>9, <3>1, <3>2, <3>3
  <2> QED BY <1>4, <2>1 DEF Within
<1>11. Sorted(u)
  <2>1. ASSUME NEW j \in 1 .. n + 1 + m, NEW l \in 1 .. n + 1 + m, j < l PROVE Less(u[j], u[l])
    <3>1. CASE j \in 1 .. n /\ l \in 1 .. n
      BY <1>5, <1>8, <2>1, <3>1 DEF Sorted
    <3>2. CASE j \in 1 .. n /\ ~ (l \in 1 .. n)
      <4>1. Less(u[j], e) /\ u[j] \in K
        BY <1>5, <3>2
      <4>2. u[l] = e \/ \E i \in 1 .. m : u[l] = t[i]
        BY <1>6, <1>7, <1>9, <3>2
      <4> QED BY <1>7, <4>1, <4>2, Order
    <3>3. CASE j = n + 1
      <4>1. \E i \in 1 .. m : u[l] = t[i]
        <5>1. ~ (l \in 1 .. n) /\ l # n + 1
          BY <1>4, <2>1, <3>3
        <5> QED BY <1>7, <1>9, <5>1
      <4> QED BY <1>6, <1>7, <3>3, <4>1
    <3>4. CASE j > n + 1
      <4>1. PICK i \in 1 .. m : j = n + 1 + i
        BY <1>4, <1>9, <3>4
      <4>2. PICK o \in 1 .. m : l = n + 1 + o
        BY <1>4, <1>9, <2>1, <3>4
      <4>3. i < o
        BY <1>4, <2>1, <4>1, <4>2
      <4>4. Less(t[i], t[o])
        BY <1>8, <4>3 DEF Sorted
      <4> QED BY <1>7, <4>1, <4>2, <4>4
    <3> QED BY <1>4, <1>9, <3>1, <3>2, <3>3, <3>4
  <2> QED BY <1>4, <2>1 DEF Sorted
<1>12. \A i \in 1 .. n + 1 : LowerAt(u, a, i) = LowerAt(s, a, i) /\ UpperAt(u, z, i) = UpperAt(s, e, i)
  <2> TAKE i \in 1 .. n + 1
  <2>1. LowerAt(u, a, i) = LowerAt(s, a, i)
    <3>1. i # 1 => i - 1 \in 1 .. n
      BY <1>4
    <3> QED BY <1>5, <3>1 DEF LowerAt
  <2>2. UpperAt(u, z, i) = UpperAt(s, e, i)
    <3>1. i # Len(u) + 1
      BY <1>4
    <3>2. i = n + 1 \/ i \in 1 .. n
      BY <1>4
    <3>3. i \in 1 .. n => i # n + 1
      BY <1>4
    <3> QED BY <1>5, <1>6, <1>8, <3>1, <3>2, <3>3 DEF UpperAt
  <2> QED BY <2>1, <2>2
<1>13. \A i \in 1 .. m + 1 : /\ LowerAt(u, a, n + 1 + i) = LowerAt(t, e, i)
                             /\ UpperAt(u, z, n + 1 + i) = UpperAt(t, z, i)
  <2> TAKE i \in 1 .. m + 1
  <2>1. LowerAt(u, a, n + 1 + i) = LowerAt(t, e, i)
    <3>1. n + 1 + i # 1 /\ n + 1 + i - 1 = n + i /\ (i # 1 => i - 1 \in 1 .. m /\ n + 1 + (i - 1) = n + i)
      BY <1>4
    <3>2. i # 1 => u[n + i] = t[i - 1]
      BY <1>7, <3>1
    <3>3. i = 1 => u[n + i] = e
      BY <1>6
    <3>4. LowerAt(u, a, n + 1 + i) = u[n + i]
      <4> DEFINE o == n + 1 + i
                 q == n + i
      <4>1. o # 1 /\ o - 1 = q
        BY <1>4
      <4> HIDE DEF o, q
      <4>2. LowerAt(u, a, o) = u[q]
        BY <4>1 DEF LowerAt
      <4> QED BY <4>2 DEF o, q
    <3>5. LowerAt(t, e, i) = IF i = 1 THEN e ELSE t[i - 1]
      BY DEF LowerAt
    <3> QED BY <3>2, <3>3, <3>4, <3>5
  <2>2. UpperAt(u, z, n + 1 + i) = UpperAt(t, z, i)
    <3>1. (n + 1 + i = Len(u) + 1) <=> (i = m + 1)
      BY <1>4
    <3>2. i # m + 1 => i \in 1 .. m
      BY <1>4
    <3> QED BY <1>7, <1>8, <3>1, <3>2 DEF UpperAt
  <2> QED BY <2>1, <2>2
<1> QED BY <1>8, <1>10, <1>11, <1>12, <1>13

\* The bounds of the places of a block that lost its key i.
Short(s, v, i) ==
  Len(v) = Len(s) - 1 /\ \A j \in 1 .. Len(s) - 1 : v[j] = IF j < i THEN s[j] ELSE s[j + 1]

ShortFits(s, v, i, a, z) ==
  \A j \in 1 .. Len(s) :
    /\ LowerAt(v, a, j) = IF j <= i THEN LowerAt(s, a, j) ELSE LowerAt(s, a, j + 1)
    /\ UpperAt(v, z, j) = IF j < i THEN UpperAt(s, z, j) ELSE UpperAt(s, z, j + 1)

\* Where the bounds of kids are once a key and a kid are taken out of their
\* parent.
LEMMA ShortBounds ==
  ASSUME NEW s, NEW v, NEW i, Len(s) \in Nat, i \in 1 .. Len(s), Short(s, v, i), NEW a, NEW z
  PROVE  ShortFits(s, v, i, a, z)
<1> DEFINE n == Len(s)
<1>3. /\ n \in Nat /\ n = Len(s) /\ i \in 1 .. n /\ Len(v) = n - 1
      /\ \A j \in 1 .. n - 1 : v[j] = IF j < i THEN s[j] ELSE s[j + 1]
  BY DEF Short
<1> HIDE DEF n
<1> SUFFICES ASSUME NEW j \in 1 .. n
             PROVE  /\ LowerAt(v, a, j) = IF j <= i THEN LowerAt(s, a, j) ELSE LowerAt(s, a, j + 1)
                    /\ UpperAt(v, z, j) = IF j < i THEN UpperAt(s, z, j) ELSE UpperAt(s, z, j + 1)
  BY <1>3 DEF ShortFits
<1>1. LowerAt(v, a, j) = IF j <= i THEN LowerAt(s, a, j) ELSE LowerAt(s, a, j + 1)
  <2>1. CASE j = 1
    <3>1. j <= i
      BY <1>3, <2>1
    <3> QED BY <1>3, <2>1, <3>1 DEF LowerAt
  <2>2. CASE j # 1 /\ j <= i
    <3>1. v[j - 1] = s[j - 1]
      BY <1>3, <2>2
    <3> QED BY <1>3, <2>2, <3>1 DEF LowerAt
  <2>3. CASE ~ (j <= i)
    <3>1. j # 1 /\ j + 1 # 1 /\ j - 1 \in 1 .. n - 1 /\ ~ (j - 1 < i) /\ j - 1 + 1 = j /\ j + 1 - 1 = j
      BY <1>3, <2>3
    <3>2. v[j - 1] = s[j]
      BY <1>3, <3>1
    <3>3. LowerAt(s, a, j + 1) = s[j]
      <4> DEFINE m == j + 1
      <4>1. m # 1 /\ m - 1 = j
        BY <1>3, <3>1
      <4> HIDE DEF m
      <4>2. LowerAt(s, a, m) = s[j]
        BY <4>1 DEF LowerAt
      <4> QED BY <4>2 DEF m
    <3>4. LowerAt(v, a, j) = v[j - 1]
      BY <3>1 DEF LowerAt
    <3> QED BY <1>3, <2>3, <3>2, <3>3, <3>4
  <2> QED BY <2>1, <2>2, <2>3
<1>2. UpperAt(v, z, j) = IF j < i THEN UpperAt(s, z, j) ELSE UpperAt(s, z, j + 1)
  <2>1. CASE j < i
    <3>1. j \in 1 .. n - 1 /\ j # n /\ j # n + 1 /\ v[j] = s[j]
      BY <1>3, <2>1
    <3> QED BY <1>3, <2>1, <3>1 DEF UpperAt
  <2>2. CASE ~ (j < i) /\ j = n
    BY <1>3, <2>2 DEF UpperAt
  <2>3. CASE ~ (j < i) /\ j # n
    <3>1. j \in 1 .. n - 1 /\ j + 1 # n + 1 /\ v[j] = s[j + 1]
      BY <1>3, <2>3
    <3>2. UpperAt(v, z, j) = v[j]
      BY <1>3, <2>3 DEF UpperAt
    <3>3. UpperAt(s, z, j + 1) = s[j + 1]
      BY <1>3, <3>1 DEF UpperAt
    <3> QED BY <1>3, <2>3, <3>1, <3>2, <3>3
  <2> QED BY <2>1, <2>2, <2>3
<1> QED BY <1>1, <1>2

Brothers(ds, p, i, l, r) == ds[p][i] = l /\ ds[p][i + 1] = r

IsJoin(ks, ds, p, i, l, r, W2, ks2, ds2) ==
  /\ ks2 = [d \in W2 |-> IF d = l THEN ks[l] \o <<ks[p][i]>> \o ks[r]
                         ELSE IF d = p THEN RemoveAt(ks[p], i) ELSE ks[d]]
  /\ ds2 = [d \in W2 |-> IF d = l THEN ds[l] \o ds[r]
                         ELSE IF d = p THEN RemoveAt(ds[p], i + 1) ELSE ds[d]]

\* A child of p, the next one and the key between them become one block.
THEOREM Join ==
  ASSUME NEW K, Ordered(K), NEW low, NEW high, NEW W, NEW root, NEW ks, NEW ds, NEW lev,
         NEW lo, NEW hi, NEW E, Shape(K, low, high, W, root, ks, ds, lev, lo, hi, 0, 0, E),
         NEW p, p \in W, ds[p] # <<>>, NEW i, i \in 1 .. Len(ks[p]), NEW l, NEW r,
         Brothers(ds, p, i, l, r),
         NEW W2, W2 = W \ {r}, NEW ks2, NEW ds2, IsJoin(ks, ds, p, i, l, r, W2, ks2, ds2),
         NEW E2, StillEmpty(W, l, r, E, E2), p \in E2
  PROVE  /\ l \in W2 /\ p \in W2 /\ r \in W /\ l # p /\ lev[l] = lev[r]
         /\ Reshaped(K, low, high, W2, root, ks2, ds2, E2, W2, lev)
<1> USE DEF IsJoin, Reshaped
<1>0. \A d \in W : d \in E /\ d \notin {l, r} => d \in E2
  BY DEF StillEmpty
<1> DEFINE k == ks[p][i]
           u == ks[l] \o <<k>> \o ks[r]
           v == RemoveAt(ks[p], i)
           du == ds[l] \o ds[r]
           dv == RemoveAt(ds[p], i + 1)
           lev2 == [d \in W2 |-> lev[d]]
           lo2 == [d \in W2 |-> lo[d]]
           hi2 == [d \in W2 |-> IF d = l THEN hi[r] ELSE hi[d]]
<1>1. /\ ShapeTypes(K, W, root, ks, ds, lev, lo, hi) /\ root \in W
      /\ ks \in [W -> Seq(K)] /\ ds \in [W -> Seq(W)]
      /\ lev \in [W -> Nat] /\ lo \in [W -> K] /\ hi \in [W -> K]
  BY DEF Shape, ShapeTypes
<1>2. /\ ks[p] \in Seq(K) /\ Len(ks[p]) \in Nat /\ ds[p] \in Seq(W) /\ Len(ds[p]) = Len(ks[p]) + 1
      /\ lo[p] \in K /\ hi[p] \in K /\ lev[p] \in Nat /\ p # 0 /\ lev[p] <= lev[root]
      /\ i \in Nat /\ i >= 1 /\ i <= Len(ks[p])
  <2>1. /\ ks[p] \in Seq(K) /\ Len(ks[p]) \in Nat /\ ds[p] \in Seq(W)
        /\ (ds[p] # <<>> => Len(ds[p]) = Len(ks[p]) + 1)
        /\ lo[p] \in K /\ hi[p] \in K /\ lev[p] \in Nat /\ p # 0 /\ lev[p] <= lev[root]
    BY BlockFacts
  <2> QED BY <2>1
<1>3. i \in 1 .. Len(ks[p]) + 1 /\ i + 1 \in 1 .. Len(ks[p]) + 1 /\ i # i + 1
  BY <1>2
<1>4. /\ l \in W /\ lev[l] + 1 = lev[p] /\ lo[l] = LowerAt(ks[p], lo[p], i)
      /\ EndOf(hi, 0, 0, l) = UpperAt(ks[p], hi[p], i)
  <2>1. l = ds[p][i]
    BY DEF Brothers
  <2> QED BY <1>3, <2>1, PlaceFacts
<1>5. /\ r \in W /\ lev[r] + 1 = lev[p] /\ lo[r] = LowerAt(ks[p], lo[p], i + 1)
      /\ EndOf(hi, 0, 0, r) = UpperAt(ks[p], hi[p], i + 1)
  <2> DEFINE j == i + 1
  <2>1. j \in 1 .. Len(ks[p]) + 1 /\ r = ds[p][j]
    BY <1>3 DEF Brothers
  <2> HIDE DEF j
  <2>2. /\ r \in W /\ lev[r] + 1 = lev[p] /\ lo[r] = LowerAt(ks[p], lo[p], j)
        /\ EndOf(hi, 0, 0, r) = UpperAt(ks[p], hi[p], j)
    BY <2>1, PlaceFacts
  <2> QED BY <2>2 DEF j
<1>6. /\ ks[l] \in Seq(K) /\ Len(ks[l]) \in Nat /\ ds[l] \in Seq(W) /\ Len(ds[l]) \in Nat
      /\ lo[l] \in K /\ hi[l] \in K /\ Less(lo[l], hi[l]) /\ lev[l] \in Nat /\ l # 0
      /\ (lev[l] = 0 <=> ds[l] = <<>>) /\ (ds[l] # <<>> => Len(ds[l]) = Len(ks[l]) + 1)
  <2>1. (lev[l] = 0) <=> (ds[l] = <<>>)
    BY <1>4, BlockFacts
  <2>2. ds[l] # <<>> => Len(ds[l]) = Len(ks[l]) + 1
    BY <1>4, BlockFacts
  <2>3. /\ ks[l] \in Seq(K) /\ Len(ks[l]) \in Nat /\ ds[l] \in Seq(W) /\ Len(ds[l]) \in Nat
        /\ lo[l] \in K /\ hi[l] \in K /\ Less(lo[l], hi[l]) /\ lev[l] \in Nat /\ l # 0
    BY <1>4, BlockFacts
  <2> QED BY <2>1, <2>2, <2>3
<1>7. /\ ks[r] \in Seq(K) /\ Len(ks[r]) \in Nat /\ ds[r] \in Seq(W) /\ Len(ds[r]) \in Nat
      /\ lo[r] \in K /\ hi[r] \in K /\ Less(lo[r], hi[r]) /\ lev[r] \in Nat /\ r # 0
      /\ (lev[r] = 0 <=> ds[r] = <<>>) /\ (ds[r] # <<>> => Len(ds[r]) = Len(ks[r]) + 1)
  <2>1. (lev[r] = 0) <=> (ds[r] = <<>>)
    BY <1>5, BlockFacts
  <2>2. ds[r] # <<>> => Len(ds[r]) = Len(ks[r]) + 1
    BY <1>5, BlockFacts
  <2>3. /\ ks[r] \in Seq(K) /\ Len(ks[r]) \in Nat /\ ds[r] \in Seq(W) /\ Len(ds[r]) \in Nat
        /\ lo[r] \in K /\ hi[r] \in K /\ Less(lo[r], hi[r]) /\ lev[r] \in Nat /\ r # 0
    BY <1>5, BlockFacts
  <2> QED BY <2>1, <2>2, <2>3
<1>8. hi[l] = k /\ lo[r] = k /\ hi[r] = UpperAt(ks[p], hi[p], i + 1) /\ k \in K
  <2>1. EndOf(hi, 0, 0, l) = hi[l] /\ EndOf(hi, 0, 0, r) = hi[r]
    BY <1>6, <1>7 DEF EndOf
  <2>2. i # Len(ks[p]) + 1 /\ i + 1 # 1 /\ i + 1 - 1 = i
    BY <1>2
  <2>3. UpperAt(ks[p], hi[p], i) = k /\ LowerAt(ks[p], lo[p], i + 1) = k
    BY <2>2 DEF UpperAt, LowerAt
  <2> QED BY <1>4, <1>5, <1>6, <2>1, <2>3
<1>9. l # p /\ r # p /\ r # root /\ l # root
  <2>1. lev[root] \in Nat
    BY <1>1
  <2>2. lev[l] + 1 = lev[p] /\ lev[r] + 1 = lev[p] /\ lev[l] \in Nat /\ lev[r] \in Nat /\ lev[p] \in Nat /\ lev[p] <= lev[root]
    BY <1>2, <1>4, <1>5, <1>6, <1>7
  <2>3. lev[l] # lev[p] /\ lev[r] # lev[p] /\ lev[l] # lev[root] /\ lev[r] # lev[root]
    BY <2>1, <2>2
  <2> QED BY <2>3
<1>10. l # r
  <2>1. l = r => Less(k, k)
    BY <1>6, <1>8
  <2> QED BY <1>8, <2>1, Order
<1>11. l \in W2 /\ p \in W2 /\ root \in W2 /\ lev[l] = lev[r] /\ W2 \subseteq W
  <2>1. lev[l] = lev[r]
    <3>1. lev[l] + 1 = lev[r] + 1 /\ lev[l] \in Nat /\ lev[r] \in Nat
      BY <1>4, <1>5, <1>6, <1>7
    <3> QED BY <3>1
  <2> QED BY <1>1, <1>4, <1>9, <1>10, <2>1
<1>12. /\ ks2[l] = u /\ ks2[p] = v /\ ds2[l] = du /\ ds2[p] = dv
       /\ \A d \in W2 : d # l /\ d # p => ks2[d] = ks[d] /\ ds2[d] = ds[d]
  BY <1>9, <1>11
<1>13. /\ \A d \in W2 : lev2[d] = lev[d] /\ lo2[d] = lo[d] /\ (d # l => hi2[d] = hi[d])
       /\ hi2[l] = hi[r]
  BY <1>11
<1>14. /\ u \in Seq(K) /\ Joining(ks[l], k, ks[r], u)
  <2> DEFINE s == ks[l]
             t == ks[r]
  <2>1. s \in Seq(K) /\ t \in Seq(K) /\ u = s \o <<k>> \o t
    BY <1>6, <1>7
  <2> HIDE DEF s, t, u, k
  <2>2. /\ s \o <<k>> \o t \in Seq(K) /\ Len(s \o <<k>> \o t) = Len(s) + 1 + Len(t)
        /\ \A j \in 1 .. Len(s) : (s \o <<k>> \o t)[j] = s[j]
        /\ (s \o <<k>> \o t)[Len(s) + 1] = k
        /\ \A j \in 1 .. Len(t) : (s \o <<k>> \o t)[Len(s) + 1 + j] = t[j]
    BY <1>8, <2>1, JoinIs
  <2> QED BY <2>1, <2>2 DEF s, t, Joining
<1>15. /\ v \in Seq(K) /\ Len(v) = Len(ks[p]) - 1
       /\ \A j \in 1 .. Len(ks[p]) - 1 : v[j] = IF j < i THEN ks[p][j] ELSE ks[p][j + 1]
  <2> DEFINE s == ks[p]
  <2>1. s \in Seq(K) /\ i \in 1 .. Len(s) /\ v = RemoveAt(s, i)
    BY <1>2
  <2> HIDE DEF s, v
  <2>2. /\ RemoveAt(s, i) \in Seq(K) /\ Len(RemoveAt(s, i)) = Len(s) - 1
        /\ \A j \in 1 .. Len(s) - 1 : RemoveAt(s, i)[j] = IF j < i THEN s[j] ELSE s[j + 1]
    BY <2>1, RemoveAtIs
  <2> QED BY <2>1, <2>2 DEF s
<1>16. /\ dv \in Seq(W) /\ Len(dv) = Len(ks[p])
       /\ \A j \in 1 .. Len(ks[p]) : dv[j] = IF j < i + 1 THEN ds[p][j] ELSE ds[p][j + 1]
  <2> DEFINE s == ds[p]
             n == i + 1
  <2>1. s \in Seq(W) /\ n \in 1 .. Len(s) /\ dv = RemoveAt(s, n) /\ Len(s) = Len(ks[p]) + 1 /\ Len(s) - 1 = Len(ks[p])
    BY <1>2, <1>3
  <2> HIDE DEF s, dv, n
  <2>2. /\ RemoveAt(s, n) \in Seq(W) /\ Len(RemoveAt(s, n)) = Len(s) - 1
        /\ \A j \in 1 .. Len(s) - 1 : RemoveAt(s, n)[j] = IF j < n THEN s[j] ELSE s[j + 1]
    BY <2>1, RemoveAtIs
  <2> QED BY <2>1, <2>2 DEF s, n
<1>17. /\ du \in Seq(W) /\ Len(du) = Len(ds[l]) + Len(ds[r])
       /\ \A j \in 1 .. Len(ds[l]) : du[j] = ds[l][j]
       /\ \A j \in 1 .. Len(ds[r]) : du[Len(ds[l]) + j] = ds[r][j]
  <2> DEFINE s == ds[l]
             t == ds[r]
  <2>1. s \in Seq(W) /\ t \in Seq(W) /\ du = s \o t
    BY <1>6, <1>7
  <2> HIDE DEF s, t, du
  <2>2. /\ s \o t \in Seq(W) /\ Len(s \o t) = Len(s) + Len(t)
        /\ \A j \in 1 .. Len(s) : (s \o t)[j] = s[j]
        /\ \A j \in 1 .. Len(t) : (s \o t)[Len(s) + j] = t[j]
    BY <2>1, CatIs
  <2> QED BY <2>1, <2>2 DEF s, t
<1>18. k = ks[p][i] /\ lev2 \in [W2 -> Nat] /\ lo2 \in [W2 -> K] /\ hi2 \in [W2 -> K]
  BY <1>1, <1>7
<1> HIDE DEF k, u, v, du, dv, lev2, lo2, hi2
<1>19. \A d \in W : ds[d] # <<>> => \A j \in 1 .. Len(ks[d]) + 1 :
         /\ ds[d][j] \in W /\ ds[d][j] # 0 /\ lev[ds[d][j]] + 1 = lev[d] /\ lo[ds[d][j]] = LowerAt(ks[d], lo[d], j)
         /\ hi[ds[d][j]] = UpperAt(ks[d], hi[d], j)
         /\ ds[d][j] = r => d = p /\ j = i + 1
         /\ ds[d][j] = l => d = p /\ j = i
  <2> SUFFICES ASSUME NEW d \in W, ds[d] # <<>>, NEW j \in 1 .. Len(ks[d]) + 1
               PROVE  /\ ds[d][j] \in W /\ ds[d][j] # 0 /\ lev[ds[d][j]] + 1 = lev[d] /\ lo[ds[d][j]] = LowerAt(ks[d], lo[d], j)
                      /\ hi[ds[d][j]] = UpperAt(ks[d], hi[d], j)
                      /\ ds[d][j] = r => d = p /\ j = i + 1
                      /\ ds[d][j] = l => d = p /\ j = i
    OBVIOUS
  <2>1. /\ ds[d][j] \in W /\ lev[ds[d][j]] + 1 = lev[d] /\ lo[ds[d][j]] = LowerAt(ks[d], lo[d], j)
        /\ EndOf(hi, 0, 0, ds[d][j]) = UpperAt(ks[d], hi[d], j)
    BY PlaceFacts
  <2>2. ds[d][j] # 0
    BY <2>1, BlockFacts
  <2>3. ds[d][j] = l => d = p /\ j = i
    BY <1>3, OnePlace DEF Brothers
  <2>4. ds[d][j] = r => d = p /\ j = i + 1
    <3> DEFINE n == i + 1
    <3>1. n \in 1 .. Len(ks[p]) + 1
      BY <1>3
    <3> HIDE DEF n
    <3>2. ds[d][j] = ds[p][n] => d = p /\ j = n
      BY <3>1, OnePlace
    <3> QED BY <3>2 DEF n, Brothers
  <2> QED BY <2>1, <2>2, <2>3, <2>4 DEF EndOf
<1>20. \A d \in W : ds[d] # <<>> => Len(ds[d]) = Len(ks[d]) + 1 /\ Len(ks[d]) \in Nat
  <2> TAKE d \in W
  <2>1. ds[d] # <<>> => Len(ds[d]) = Len(ks[d]) + 1
    BY BlockFacts
  <2>2. Len(ks[d]) \in Nat
    BY BlockFacts
  <2> QED BY <2>1, <2>2
<1>21. \A d \in W : ds[d] \in Seq(W) /\ Len(ds[d]) \in Nat
  <2> TAKE d \in W
  <2> QED BY BlockFacts
<1>22. \A d \in W : \A j \in 1 .. Len(ds[d]) : ds[d] # <<>> /\ j \in 1 .. Len(ks[d]) + 1
  <2> TAKE d \in W
  <2> TAKE j \in 1 .. Len(ds[d])
  <2>1. ds[d] # <<>>
    <3>1. Len(ds[d]) # 0
      BY <1>21
    <3> QED BY <3>1
  <2> QED BY <1>20, <2>1
<1>23. \A d \in W2 : ds2[d] \in Seq(W2)
  <2> TAKE d \in W2
  <2>1. CASE d # l /\ d # p
    <3>1. d \in W /\ d # r /\ ds2[d] = ds[d]
      BY <1>11, <1>12, <2>1
    <3>2. \A j \in 1 .. Len(ds[d]) : ds[d][j] \in W2
      BY <1>19, <1>22, <2>1, <3>1
    <3>3. ds[d] \in [1 .. Len(ds[d]) -> W] /\ Len(ds[d]) \in Nat
      BY <1>21, <3>1, LenProperties
    <3>4. ds[d] \in [1 .. Len(ds[d]) -> W2]
      BY <3>2, <3>3
    <3>5. ds[d] \in Seq(W2)
      BY <3>3, <3>4, IsSeq
    <3> QED BY <3>1, <3>5
  <2>2. CASE d = l
    <3>1. \A j \in 1 .. Len(ds[l]) : ds[l][j] \in W2
      BY <1>4, <1>9, <1>19, <1>22
    <3>2. \A j \in 1 .. Len(ds[r]) : ds[r][j] \in W2
      BY <1>5, <1>9, <1>19, <1>22
    <3>3. \A j \in 1 .. Len(du) : du[j] \in W2
      <4> TAKE j \in 1 .. Len(du)
      <4>1. CASE j <= Len(ds[l])
        <5>1. j \in 1 .. Len(ds[l])
          BY <1>6, <1>7, <1>17, <4>1
        <5> QED BY <1>17, <3>1, <5>1
      <4>2. CASE ~ (j <= Len(ds[l]))
        <5> DEFINE n == Len(ds[l])
                   m == Len(ds[r])
        <5>1. n \in Nat /\ m \in Nat /\ Len(du) = n + m
          BY <1>6, <1>7, <1>17
        <5>2. j \in 1 .. n + m /\ ~ (j <= n)
          BY <4>2, <5>1
        <5>3. \A o \in 1 .. m : du[n + o] \in W2
          BY <1>17, <3>2
        <5> HIDE DEF n, m
        <5>4. j - n \in 1 .. m /\ j = n + (j - n)
          BY <5>1, <5>2
        <5> QED BY <5>3, <5>4
      <4> QED BY <4>1, <4>2
    <3>4. du \in Seq(W2)
      <4>1. du \in [1 .. Len(du) -> W] /\ Len(du) \in Nat
        BY <1>17, LenProperties
      <4>2. du \in [1 .. Len(du) -> W2]
        BY <3>3, <4>1
      <4> QED BY <4>1, <4>2, IsSeq
    <3> QED BY <1>12, <2>2, <3>4
  <2>3. CASE d = p
    <3>1. \A j \in 1 .. Len(dv) : dv[j] \in W2
      <4> TAKE j \in 1 .. Len(dv)
      <4>1. CASE j < i + 1
        <5>1. j \in 1 .. Len(ks[p]) + 1 /\ j # i + 1 /\ dv[j] = ds[p][j]
          BY <1>2, <1>16, <4>1
        <5> QED BY <1>2, <1>19, <5>1
      <4>2. CASE ~ (j < i + 1)
        <5>1. j + 1 \in 1 .. Len(ks[p]) + 1 /\ j + 1 # i + 1 /\ dv[j] = ds[p][j + 1]
          BY <1>2, <1>16, <4>2
        <5> QED BY <1>2, <1>19, <5>1
      <4> QED BY <4>1, <4>2
    <3>2. dv \in Seq(W2)
      <4>1. dv \in [1 .. Len(dv) -> W] /\ Len(dv) \in Nat
        BY <1>16, LenProperties
      <4>2. dv \in [1 .. Len(dv) -> W2]
        BY <3>1, <4>1
      <4> QED BY <4>1, <4>2, IsSeq
    <3> QED BY <1>12, <2>3, <3>2
  <2> QED BY <2>1, <2>2, <2>3
<1>24. ShapeTypes(K, W2, root, ks2, ds2, lev2, lo2, hi2)
  <2>1. ds2 \in [W2 -> Seq(W2)]
    BY <1>23
  <2>2. \A d \in W2 : ks2[d] \in Seq(K)
    BY <1>1, <1>11, <1>12, <1>14, <1>15
  <2>3. ks2 \in [W2 -> Seq(K)]
    BY <2>2
  <2> QED BY <1>1, <1>11, <1>18, <2>1, <2>3 DEF ShapeTypes
<1>25. /\ Sorted(ks[l]) /\ Within(ks[l], lo[l], k) /\ Less(lo[l], k)
       /\ Sorted(ks[r]) /\ Within(ks[r], k, hi[r]) /\ Less(k, hi[r])
       /\ Sorted(ks[p]) /\ Within(ks[p], lo[p], hi[p])
  BY <1>4, <1>5, <1>6, <1>7, <1>8 DEF Shape, ShapeOfBlock
<1>26. /\ Sorted(u) /\ Within(u, lo[l], hi[r])
       /\ \A j \in 1 .. Len(ks[l]) + 1 : /\ LowerAt(u, lo[l], j) = LowerAt(ks[l], lo[l], j)
                                         /\ UpperAt(u, hi[r], j) = UpperAt(ks[l], k, j)
       /\ \A j \in 1 .. Len(ks[r]) + 1 : /\ LowerAt(u, lo[l], Len(ks[l]) + 1 + j) = LowerAt(ks[r], k, j)
                                         /\ UpperAt(u, hi[r], Len(ks[l]) + 1 + j) = UpperAt(ks[r], hi[r], j)
  <2> DEFINE s == ks[l]
             t == ks[r]
             a == lo[l]
             z == hi[r]
  <2>1. /\ s \in Seq(K) /\ t \in Seq(K) /\ k \in K /\ u \in Seq(K) /\ Joining(s, k, t, u) /\ a \in K /\ z \in K
        /\ Sorted(s) /\ Within(s, a, k) /\ Less(a, k) /\ Sorted(t) /\ Within(t, k, z) /\ Less(k, z)
    BY <1>6, <1>7, <1>8, <1>14, <1>25
  <2> HIDE DEF s, t, a, z
  <2>2. /\ Sorted(u) /\ Within(u, a, z)
        /\ \A j \in 1 .. Len(s) + 1 : /\ LowerAt(u, a, j) = LowerAt(s, a, j)
                                       /\ UpperAt(u, z, j) = UpperAt(s, k, j)
        /\ \A j \in 1 .. Len(t) + 1 : /\ LowerAt(u, a, Len(s) + 1 + j) = LowerAt(t, k, j)
                                       /\ UpperAt(u, z, Len(s) + 1 + j) = UpperAt(t, z, j)
    BY <2>1, JoinKeys
  <2> QED BY <2>2 DEF s, t, a, z
<1>27. \A j \in 1 .. Len(v) : \E o \in 1 .. Len(ks[p]) : o >= j /\ o <= j + 1 /\ v[j] = ks[p][o] /\ (o = j <=> j < i)
  <2> TAKE j \in 1 .. Len(v)
  <2>1. CASE j < i
    <3>1. j \in 1 .. Len(ks[p]) /\ v[j] = ks[p][j] /\ j >= j /\ j <= j + 1
      BY <1>2, <1>15, <2>1
    <3> QED BY <2>1, <3>1
  <2>2. CASE ~ (j < i)
    <3>1. j + 1 \in 1 .. Len(ks[p]) /\ v[j] = ks[p][j + 1] /\ j + 1 >= j /\ j + 1 <= j + 1 /\ j + 1 # j
      BY <1>2, <1>15, <2>2
    <3> QED BY <2>2, <3>1
  <2> QED BY <2>1, <2>2
<1>28. Within(v, lo[p], hi[p])
  BY <1>25, <1>27 DEF Within
<1>29. Sorted(v)
  <2> SUFFICES ASSUME NEW j \in 1 .. Len(v), NEW o \in 1 .. Len(v), j < o PROVE Less(v[j], v[o])
    BY DEF Sorted
  <2>1. PICK m \in 1 .. Len(ks[p]) : m >= j /\ m <= j + 1 /\ v[j] = ks[p][m] /\ (m = j <=> j < i)
    BY <1>27
  <2>2. PICK n \in 1 .. Len(ks[p]) : n >= o /\ n <= o + 1 /\ v[o] = ks[p][n] /\ (n = o <=> o < i)
    BY <1>27
  <2>3. j \in Nat /\ o \in Nat /\ m \in Nat /\ n \in Nat
    BY <1>2, <1>15
  <2>4. m < n
    BY <1>2, <2>1, <2>2, <2>3
  <2> QED BY <1>25, <2>1, <2>2, <2>4 DEF Sorted
<1>30. \A d \in W2 : ShapeOfBlock(root, ks2, ds2, lev2, lo2, hi2, d)
  <2> TAKE d \in W2
  <2>1. d \in W /\ ShapeOfBlock(root, ks, ds, lev, lo, hi, d)
    BY <1>11 DEF Shape
  <2>2. CASE d # l /\ d # p
    BY <1>11, <1>12, <1>13, <2>1, <2>2 DEF ShapeOfBlock
  <2>3. CASE d = p
    <3>1. dv # <<>> /\ lev[p] # 0
      <4>1. Len(dv) # 0
        BY <1>2, <1>16
      <4>2. lev[p] # 0
        BY <1>2, <1>4, <1>6
      <4> QED BY <4>1, <4>2
    <3> QED BY <1>9, <1>11, <1>12, <1>13, <1>28, <1>29, <2>1, <2>3, <3>1 DEF ShapeOfBlock
  <2>4. CASE d = l
    <3>1. (lev[l] = 0) <=> (du = <<>>)
      <4>1. CASE lev[l] = 0
        <5>1. ds[l] = <<>>
          BY <1>6, <4>1
        <5>2. ds[r] = <<>>
          BY <1>7, <1>11, <4>1
        <5>3. Len(du) = 0
          BY <1>17, <5>1, <5>2
        <5> QED BY <1>17, <4>1, <5>3, EmptySeq
      <4>2. CASE lev[l] # 0
        <5>1. ds[l] # <<>>
          BY <1>6, <4>2
        <5>2. Len(ds[l]) = Len(ks[l]) + 1
          BY <1>6, <5>1
        <5>3. Len(du) # 0
          <6> DEFINE n == Len(ds[l])
                     m == Len(ds[r])
                     o == Len(ks[l])
          <6>1. n \in Nat /\ m \in Nat /\ o \in Nat /\ Len(du) = n + m /\ n = o + 1
            BY <1>6, <1>7, <1>17, <5>2
          <6> HIDE DEF n, m, o
          <6> QED BY <6>1
        <5> QED BY <4>2, <5>3
      <4> QED BY <4>1, <4>2
    <3>2. Less(lo[l], hi[r])
      BY <1>6, <1>7, <1>8, <1>25, Order
    <3>3. /\ ks2[d] = u /\ ds2[d] = du /\ lev2[d] = lev[l] /\ lev2[root] = lev[root]
          /\ lo2[d] = lo[l] /\ hi2[d] = hi[r]
      BY <1>11, <1>12, <1>13, <2>4
    <3>4. lev[l] <= lev[root]
      BY <2>1, <2>4 DEF ShapeOfBlock
    <3>5. (lev2[d] = 0) <=> (ds2[d] = <<>>)
      BY <3>1, <3>3
    <3> QED BY <1>26, <3>2, <3>3, <3>4, <3>5 DEF ShapeOfBlock
  <2> QED BY <2>2, <2>3, <2>4
<1>31. ShortFits(ks[p], v, i, lo[p], hi[p])
  <2> DEFINE s == ks[p]
             a == lo[p]
             z == hi[p]
  <2>1. Len(s) \in Nat /\ i \in 1 .. Len(s) /\ Short(s, v, i)
    BY <1>2, <1>15 DEF Short
  <2> HIDE DEF s, a, z
  <2>2. ShortFits(s, v, i, a, z)
    BY <2>1, ShortBounds
  <2> QED BY <2>2 DEF s, a, z
<1>32. ShapeOfKids(ks2, ds2, lev2, lo2, hi2, 0, 0, l)
  <2> SUFFICES ASSUME du # <<>>
               PROVE  /\ Len(du) = Len(u) + 1
                      /\ \A j \in 1 .. Len(u) + 1 :
                           /\ lev2[du[j]] + 1 = lev[l] /\ lo2[du[j]] = LowerAt(u, lo[l], j)
                           /\ EndOf(hi2, 0, 0, du[j]) = UpperAt(u, hi[r], j)
    BY <1>11, <1>12, <1>13, ZenonT(60) DEF ShapeOfKids
  <2>1. ds[l] # <<>> /\ ds[r] # <<>>
    <3>1. lev[l] # 0
      <4>1. lev[l] = 0 => Len(du) = 0
        <5>1. lev[l] = 0 => ds[l] = <<>>
          BY <1>6
        <5>2. lev[l] = 0 => ds[r] = <<>>
          BY <1>7, <1>11
        <5>3. lev[l] = 0 => Len(ds[l]) = 0 /\ Len(ds[r]) = 0
          BY <5>1, <5>2
        <5>4. Len(du) = Len(ds[l]) + Len(ds[r])
          BY <1>17
        <5> DEFINE n == Len(ds[l])
                   m == Len(ds[r])
        <5>5. lev[l] = 0 => n = 0 /\ m = 0
          BY <5>3
        <5>6. Len(du) = n + m
          BY <5>4
        <5> HIDE DEF n, m
        <5> QED BY <5>5, <5>6
      <4> QED BY <1>17, <4>1, EmptySeq
    <3>2. ds[l] # <<>>
      BY <1>6, <3>1
    <3>3. ds[r] # <<>>
      BY <1>7, <1>11, <3>1
    <3> QED BY <3>2, <3>3
  <2> DEFINE n == Len(ks[l]) + 1
             m == Len(ks[r]) + 1
  <2>2. n \in Nat /\ m \in Nat /\ Len(ds[l]) = n /\ Len(ds[r]) = m /\ Len(du) = n + m /\ Len(u) + 1 = n + m
    <3>1. Len(ds[l]) = n /\ Len(ds[r]) = m
      BY <1>6, <1>7, <2>1
    <3>2. Len(u) = Len(ks[l]) + 1 + Len(ks[r])
      BY <1>14 DEF Joining
    <3> DEFINE x == Len(ks[l])
               y == Len(ks[r])
    <3>3. x \in Nat /\ y \in Nat /\ n = x + 1 /\ m = y + 1 /\ Len(u) = x + 1 + y
      BY <1>6, <1>7, <3>2
    <3> HIDE DEF x, y, n, m
    <3>4. n \in Nat /\ m \in Nat /\ Len(u) + 1 = n + m
      BY <3>3
    <3>5. Len(du) = n + m
      BY <1>17, <3>1
    <3> QED BY <3>1, <3>4, <3>5
  <2>3. \A j \in 1 .. n : du[j] = ds[l][j]
    BY <1>17, <2>2
  <2>4. \A j \in 1 .. m : du[n + j] = ds[r][j]
    BY <1>17, <2>2
  <2>5. \A j \in 1 .. n : LowerAt(u, lo[l], j) = LowerAt(ks[l], lo[l], j) /\ UpperAt(u, hi[r], j) = UpperAt(ks[l], hi[l], j)
    BY <1>8, <1>26
  <2>6. \A j \in 1 .. m : LowerAt(u, lo[l], n + j) = LowerAt(ks[r], lo[r], j) /\ UpperAt(u, hi[r], n + j) = UpperAt(ks[r], hi[r], j)
    BY <1>8, <1>26
  <2>7. \A j \in 1 .. n : /\ ds[l][j] \in W2 /\ ds[l][j] # 0 /\ ds[l][j] # l /\ lev[ds[l][j]] + 1 = lev[l]
                           /\ lo[ds[l][j]] = LowerAt(ks[l], lo[l], j) /\ hi[ds[l][j]] = UpperAt(ks[l], hi[l], j)
    BY <1>4, <1>9, <1>19, <2>1
  <2>8. \A j \in 1 .. m : /\ ds[r][j] \in W2 /\ ds[r][j] # 0 /\ ds[r][j] # l /\ lev[ds[r][j]] + 1 = lev[r]
                           /\ lo[ds[r][j]] = LowerAt(ks[r], lo[r], j) /\ hi[ds[r][j]] = UpperAt(ks[r], hi[r], j)
    BY <1>5, <1>9, <1>19, <2>1
  <2> HIDE DEF n, m
  <2>9. \A j \in 1 .. n : /\ lev2[du[j]] + 1 = lev[l] /\ lo2[du[j]] = LowerAt(u, lo[l], j)
                           /\ EndOf(hi2, 0, 0, du[j]) = UpperAt(u, hi[r], j)
    BY <1>13, <2>3, <2>5, <2>7 DEF EndOf
  <2>10. \A j \in 1 .. m : /\ lev2[du[n + j]] + 1 = lev[l] /\ lo2[du[n + j]] = LowerAt(u, lo[l], n + j)
                            /\ EndOf(hi2, 0, 0, du[n + j]) = UpperAt(u, hi[r], n + j)
    BY <1>11, <1>13, <2>4, <2>6, <2>8 DEF EndOf
  <2>11. \A j \in 1 .. Len(u) + 1 : j \in 1 .. n \/ (j - n \in 1 .. m /\ j = n + (j - n))
    BY <2>2
  <2>12. \A j \in 1 .. Len(u) + 1 : /\ lev2[du[j]] + 1 = lev[l] /\ lo2[du[j]] = LowerAt(u, lo[l], j)
                                     /\ EndOf(hi2, 0, 0, du[j]) = UpperAt(u, hi[r], j)
    <3> TAKE j \in 1 .. Len(u) + 1
    <3>1. CASE j \in 1 .. n
      BY <2>9, <3>1
    <3>2. CASE j - n \in 1 .. m /\ j = n + (j - n)
      <4> DEFINE o == j - n
      <4>1. o \in 1 .. m /\ j = n + o
        BY <3>2
      <4> HIDE DEF o
      <4> QED BY <2>10, <4>1
    <3> QED BY <2>11, <3>1, <3>2
  <2> QED BY <2>2, <2>12
<1>33. ShapeOfKids(ks2, ds2, lev2, lo2, hi2, 0, 0, p)
  <2>1. ds2[p] = dv /\ ks2[p] = v /\ lev2[p] = lev[p] /\ lo2[p] = lo[p] /\ hi2[p] = hi[p]
    BY <1>9, <1>11, <1>12, <1>13
  <2>2. Len(v) + 1 = Len(ks[p]) /\ Len(dv) = Len(ks[p]) /\ Len(ks[p]) \in Nat
    BY <1>2, <1>15, <1>16
  <2>3. \A j \in 1 .. Len(ks[p]) : /\ lev2[dv[j]] + 1 = lev[p] /\ lo2[dv[j]] = LowerAt(v, lo[p], j)
                                    /\ EndOf(hi2, 0, 0, dv[j]) = UpperAt(v, hi[p], j)
    <3> TAKE j \in 1 .. Len(ks[p])
    <3>1. CASE j < i
      <4>1. j \in 1 .. Len(ks[p]) + 1 /\ j # i /\ j # i + 1 /\ j < i + 1 /\ j <= i
        BY <1>2, <3>1
      <4>2. /\ ds[p][j] \in W2 /\ ds[p][j] # l /\ ds[p][j] # 0 /\ lev[ds[p][j]] + 1 = lev[p]
            /\ lo[ds[p][j]] = LowerAt(ks[p], lo[p], j) /\ hi[ds[p][j]] = UpperAt(ks[p], hi[p], j)
        BY <1>2, <1>19, <4>1
      <4>3. dv[j] = ds[p][j]
        BY <1>16, <4>1
      <4>4. LowerAt(v, lo[p], j) = LowerAt(ks[p], lo[p], j) /\ UpperAt(v, hi[p], j) = UpperAt(ks[p], hi[p], j)
        BY <1>31, <3>1, <4>1 DEF ShortFits
      <4> QED BY <1>13, <4>2, <4>3, <4>4 DEF EndOf
    <3>2. CASE j = i
      <4>1. j < i + 1 /\ j <= i /\ ~ (j < i)
        BY <1>2, <3>2
      <4>2. dv[j] = l
        <5>1. dv[j] = ds[p][j]
          BY <1>16, <4>1
        <5> QED BY <3>2, <5>1 DEF Brothers
      <4>3. LowerAt(v, lo[p], j) = LowerAt(ks[p], lo[p], i) /\ UpperAt(v, hi[p], j) = UpperAt(ks[p], hi[p], i + 1)
        BY <1>31, <3>2, <4>1 DEF ShortFits
      <4> QED BY <1>4, <1>6, <1>8, <1>11, <1>13, <4>2, <4>3 DEF EndOf
    <3>3. CASE j > i
      <4> DEFINE o == j + 1
      <4>1. o \in 1 .. Len(ks[p]) + 1 /\ o # i /\ o # i + 1 /\ ~ (j < i + 1) /\ ~ (j <= i) /\ ~ (j < i)
        BY <1>2, <3>3
      <4>3. dv[j] = ds[p][o]
        BY <1>16, <4>1
      <4>4. LowerAt(v, lo[p], j) = LowerAt(ks[p], lo[p], o) /\ UpperAt(v, hi[p], j) = UpperAt(ks[p], hi[p], o)
        BY <1>31, <4>1 DEF ShortFits
      <4> HIDE DEF o
      <4>2. /\ ds[p][o] \in W2 /\ ds[p][o] # l /\ ds[p][o] # 0 /\ lev[ds[p][o]] + 1 = lev[p]
            /\ lo[ds[p][o]] = LowerAt(ks[p], lo[p], o) /\ hi[ds[p][o]] = UpperAt(ks[p], hi[p], o)
        BY <1>2, <1>19, <4>1
      <4> QED BY <1>13, <4>2, <4>3, <4>4 DEF EndOf
    <3> QED BY <1>2, <3>1, <3>2, <3>3
  <2> QED BY <2>1, <2>2, <2>3 DEF ShapeOfKids
<1>34. \A d \in W2 : ShapeOfKids(ks2, ds2, lev2, lo2, hi2, 0, 0, d)
  <2> TAKE d \in W2
  <2>1. CASE d # l /\ d # p
    <3>1. d \in W /\ ds2[d] = ds[d] /\ ks2[d] = ks[d] /\ lev2[d] = lev[d] /\ lo2[d] = lo[d] /\ hi2[d] = hi[d]
      BY <1>11, <1>12, <1>13, <2>1
    <3>2. ds[d] # <<>> => \A j \in 1 .. Len(ks[d]) + 1 :
            /\ ds[d][j] \in W2 /\ ds[d][j] # 0 /\ ds[d][j] # l /\ lev[ds[d][j]] + 1 = lev[d]
            /\ lo[ds[d][j]] = LowerAt(ks[d], lo[d], j) /\ hi[ds[d][j]] = UpperAt(ks[d], hi[d], j)
      BY <1>19, <2>1, <3>1
    <3>3. ds[d] # <<>> => Len(ds[d]) = Len(ks[d]) + 1
      BY <1>20, <3>1
    <3>4. ds[d] # <<>> => \A j \in 1 .. Len(ks[d]) + 1 :
            /\ lev2[ds[d][j]] + 1 = lev[d] /\ lo2[ds[d][j]] = LowerAt(ks[d], lo[d], j)
            /\ EndOf(hi2, 0, 0, ds[d][j]) = UpperAt(ks[d], hi[d], j)
      BY <1>13, <3>2 DEF EndOf
    <3> QED BY <3>1, <3>3, <3>4 DEF ShapeOfKids
  <2> QED BY <1>32, <1>33, <2>1
<1>35. \A d \in W2 : ks2[d] = <<>> => d \in E2
  <2> TAKE d \in W2
  <2>1. u # <<>>
    <3>1. Len(u) # 0
      <4> DEFINE n == Len(ks[l])
                 m == Len(ks[r])
      <4>1. n \in Nat /\ m \in Nat /\ Len(u) = n + 1 + m
        BY <1>6, <1>7, <1>14 DEF Joining
      <4> HIDE DEF n, m
      <4> QED BY <4>1
    <3> QED BY <3>1
  <2>2. CASE d # l /\ d # p
    <3>1. d \in W /\ d # r /\ ks2[d] = ks[d]
      BY <1>11, <1>12, <2>2
    <3>2. ks[d] = <<>> => d \in E
      BY <3>1 DEF Shape
    <3> QED BY <1>0, <2>2, <3>1, <3>2
  <2> QED BY <1>12, <2>1, <2>2
<1>36. \A b \in W2 : b \in {root, 0} \/ \E q \in W2 : IsKidOf(ds2, b, q)
  <2> SUFFICES ASSUME NEW b \in W2, b # root PROVE \E q \in W2 : IsKidOf(ds2, b, q)
    OBVIOUS
  <2>0. b \in W /\ b # r
    BY <1>11
  <2>1. PICK q \in W : ds[q] # <<>> /\ \E j \in 1 .. Len(ks[q]) + 1 : ds[q][j] = b
    BY <2>0, HasParent
  <2>2. PICK j \in 1 .. Len(ks[q]) + 1 : ds[q][j] = b
    BY <2>1
  <2>3. Len(ds[q]) = Len(ks[q]) + 1 /\ Len(ds[q]) \in Nat /\ j \in 1 .. Len(ds[q])
    BY <1>20, <2>1
  <2>4. CASE q = l
    <3>1. Len(ds[l]) \in Nat /\ Len(ds[r]) \in Nat /\ Len(du) = Len(ds[l]) + Len(ds[r]) /\ j \in 1 .. Len(ds[l])
      BY <1>6, <1>7, <1>17, <2>3, <2>4
    <3>2. j \in 1 .. Len(du) /\ du[j] = b
      <4>1. du[j] = b
        BY <1>17, <2>2, <2>4, <3>1
      <4> DEFINE n == Len(ds[l])
                 m == Len(ds[r])
      <4>2. n \in Nat /\ m \in Nat /\ Len(du) = n + m /\ j \in 1 .. n
        BY <3>1
      <4> HIDE DEF n, m
      <4> QED BY <4>1, <4>2
    <3> QED BY <1>11, <1>12, <3>2 DEF IsKidOf
  <2>5. CASE q = r
    <3> DEFINE n == Len(ds[l])
               m == Len(ds[r])
    <3>1. n \in Nat /\ m \in Nat /\ Len(du) = n + m /\ j \in 1 .. m /\ du[n + j] = b
      BY <1>6, <1>7, <1>17, <2>2, <2>3, <2>5
    <3> HIDE DEF n, m
    <3>2. n + j \in 1 .. Len(du)
      BY <3>1
    <3> QED BY <1>11, <1>12, <3>1, <3>2 DEF IsKidOf
  <2>6. CASE q = p /\ j < i + 1
    <3>1. j \in 1 .. Len(ks[p]) /\ j \in 1 .. Len(dv)
      BY <1>2, <1>16, <2>6
    <3>2. dv[j] = b
      BY <1>16, <2>2, <2>6, <3>1
    <3> QED BY <1>11, <1>12, <3>1, <3>2 DEF IsKidOf
  <2>7. CASE q = p /\ ~ (j < i + 1)
    <3>1. j # i + 1
      <4>1. j = i + 1 => b = r
        BY <2>2, <2>7 DEF Brothers
      <4> QED BY <2>0, <4>1
    <3> DEFINE o == j - 1
    <3>2. o \in 1 .. Len(ks[p]) /\ o \in 1 .. Len(dv) /\ ~ (o < i + 1) /\ o + 1 = j
      BY <1>2, <1>16, <2>7, <3>1
    <3> HIDE DEF o
    <3>3. dv[o] = b
      BY <1>16, <2>2, <2>7, <3>2
    <3> QED BY <1>11, <1>12, <3>2, <3>3 DEF IsKidOf
  <2>8. CASE q # l /\ q # r /\ q # p
    <3>1. q \in W2 /\ ds2[q] = ds[q]
      BY <1>12, <2>8
    <3> QED BY <2>2, <2>3, <3>1 DEF IsKidOf
  <2> QED BY <2>4, <2>5, <2>6, <2>7, <2>8
<1>37. \A b, c \in W2 : b # c /\ lev2[b] = lev2[c] => Apart(lo2, hi2, b, c)
  <2>1. \A b, c \in W : b # c /\ lev[b] = lev[c] => Leq(hi[b], lo[c]) \/ Leq(hi[c], lo[b])
    BY DEF Shape, Apart
  <2>2. ASSUME NEW d \in W2, d # l, lev[d] = lev[l] PROVE Leq(hi[d], lo[l]) \/ Leq(hi[r], lo[d])
    <3>1. d \in W /\ d # r
      BY <1>11
    <3>2. Leq(hi[d], lo[l]) \/ Leq(k, lo[d])
      BY <1>4, <1>8, <2>1, <2>2, <3>1
    <3>3. Leq(hi[d], k) \/ Leq(hi[r], lo[d])
      BY <1>5, <1>8, <1>11, <2>1, <2>2, <3>1
    <3>4. lo[d] \in K /\ hi[d] \in K /\ Less(lo[d], hi[d])
      BY <3>1, BlockFacts
    <3>5. ~ (Leq(k, lo[d]) /\ Leq(hi[d], k))
      <4>1. Leq(k, lo[d]) /\ Leq(hi[d], k) => Less(k, k)
        BY <1>8, <3>4, Order
      <4> QED BY <1>8, <4>1, Order
    <3> QED BY <3>2, <3>3, <3>5
  <2> SUFFICES ASSUME NEW b \in W2, NEW c \in W2, b # c, lev[b] = lev[c]
               PROVE  Apart(lo2, hi2, b, c)
    BY <1>13
  <2>3. CASE b # l /\ c # l
    BY <1>11, <1>13, <2>1, <2>3 DEF Apart
  <2>4. CASE b = l
    <3>1. c # l /\ lev[c] = lev[l]
      BY <2>4
    <3>2. Leq(hi[c], lo[l]) \/ Leq(hi[r], lo[c])
      BY <2>2, <3>1
    <3>3. lo2[b] = lo[l] /\ hi2[b] = hi[r] /\ lo2[c] = lo[c] /\ hi2[c] = hi[c]
      BY <1>11, <1>13, <2>4, <3>1
    <3> QED BY <3>2, <3>3 DEF Apart
  <2>5. CASE c = l
    <3>1. b # l /\ lev[b] = lev[l]
      BY <2>5
    <3>2. Leq(hi[b], lo[l]) \/ Leq(hi[r], lo[b])
      BY <2>2, <3>1
    <3>3. lo2[c] = lo[l] /\ hi2[c] = hi[r] /\ lo2[b] = lo[b] /\ hi2[b] = hi[b]
      BY <1>11, <1>13, <2>5, <3>1
    <3> QED BY <3>2, <3>3 DEF Apart
  <2> QED BY <2>3, <2>4, <2>5
<1>38. lo2[root] = low /\ EndOf(hi2, 0, 0, root) = high
  <2>1. lo[root] = low /\ EndOf(hi, 0, 0, root) = high /\ root # 0
    <3>1. root # 0
      BY <1>1, BlockFacts
    <3> QED BY <3>1 DEF Shape
  <2> QED BY <1>9, <1>11, <1>13, <2>1 DEF EndOf
<1>39. Shape(K, low, high, W2, root, ks2, ds2, lev2, lo2, hi2, 0, 0, E2)
  BY <1>24, <1>30, <1>34, <1>35, <1>36, <1>37, <1>38 DEF Shape, Hole
<1>40. \A d \in W2 : lev2[d] = lev[d]
  BY <1>13
<1> QED BY <1>5, <1>9, <1>11, <1>18, <1>39, <1>40

-----------------------------------------------------------------------------
(***************************************************************************)
(* The file: the blocks of the tree and the chains of deleted blocks and   *)
(* of free record places are all of it and share nothing.                  *)
(***************************************************************************)
\* The blocks of an index with keys of K.
Node(K) ==
  [type : {"V"}, keys : Seq(K)] \cup [type : {"U"}, keys : Seq(K), kids : Seq(Nat)]
    \cup [type : {"D"}, next : Nat] \cup [type : {"F"}, next : Nat, places : Seq(Int) \ {<<>>}]

\* The blocks that the operations write are blocks.
LEMMA NodeIs ==
  ASSUME NEW K
  PROVE  /\ \A s \in Seq(K) : Leaf(s) \in Node(K) /\ Leaf(s).type = "V" /\ Leaf(s).keys = s
         /\ \A s \in Seq(K), d \in Seq(Nat) :
              Branch(s, d) \in Node(K) /\ Branch(s, d).type = "U" /\ Branch(s, d).keys = s /\ Branch(s, d).kids = d
         /\ \A n \in Nat : [type |-> "D", next |-> n] \in Node(K)
         /\ \A n \in Nat, s \in Seq(Int) \ {<<>>} : [type |-> "F", next |-> n, places |-> s] \in Node(K)
<1>1. \A s \in Seq(K) : Leaf(s) \in Node(K) /\ Leaf(s).type = "V" /\ Leaf(s).keys = s
  BY DEF Leaf, Node
<1>2. \A s \in Seq(K), d \in Seq(Nat) :
              Branch(s, d) \in Node(K) /\ Branch(s, d).type = "U" /\ Branch(s, d).keys = s /\ Branch(s, d).kids = d
  BY DEF Branch, Node
<1>3. \A n \in Nat : [type |-> "D", next |-> n] \in Node(K)
  BY DEF Node
<1>4. \A n \in Nat, s \in Seq(Int) \ {<<>>} : [type |-> "F", next |-> n, places |-> s] \in Node(K)
  BY DEF Node
<1> QED BY <1>1, <1>2, <1>3, <1>4

\* What each type of block has.
LEMMA NodeTypes ==
  ASSUME NEW K, NEW x \in Node(K)
  PROVE  /\ x.type = "V" => x.keys \in Seq(K) /\ x = Leaf(x.keys)
         /\ x.type = "U" => x.keys \in Seq(K) /\ x.kids \in Seq(Nat) /\ x = Branch(x.keys, x.kids)
         /\ x.type = "D" => x.next \in Nat /\ x = [type |-> "D", next |-> x.next]
         /\ x.type = "F" => x.next \in Nat /\ x.places \in Seq(Int) \ {<<>>}
                            /\ x = [type |-> "F", next |-> x.next, places |-> x.places]
BY DEF Node, Leaf, Branch

Blocks(K) == UNION {[D -> Node(K)] : D \in SUBSET Nat}

\* The indexes with the header h and keys of K.
Indexes(h, K) ==
  [version : {h.version}, blksize : {h.blksize}, parts : {h.parts}, dup : {h.dup}, fix : {h.fix},
   root : Nat, del : Nat, rec : Nat, high : Nat, blk : Blocks(K)]

SameBut(t, t2, b, node) ==
  /\ t2.blk[b] = node /\ DOMAIN t2.blk = DOMAIN t.blk \cup {b}
  /\ \A c \in DOMAIN t.blk : c # b => t2.blk[c] = t.blk[c]

SameHead(t, t2) == t2.root = t.root /\ t2.del = t.del /\ t2.rec = t.rec /\ t2.high = t.high

\* To write a block changes this block.
LEMMA PutIs ==
  ASSUME NEW K, NEW h, NEW t, t \in Indexes(h, K), NEW b, b \in Nat, NEW node, node \in Node(K)
  PROVE  Put(t, b, node) \in Indexes(h, K) /\ SameHead(t, Put(t, b, node)) /\ SameBut(t, Put(t, b, node), b, node)
<1> DEFINE s == Store(t.blk, b, node)
<1>1. t.blk \in Blocks(K)
  BY DEF Indexes
<1>2. PICK D \in SUBSET Nat : t.blk \in [D -> Node(K)]
  BY <1>1 DEF Blocks
<1>3. s \in [D \cup {b} -> Node(K)]
  BY <1>2 DEF Store
<1>4. s \in Blocks(K)
  BY <1>3 DEF Blocks
<1>5. s[b] = node /\ DOMAIN s = DOMAIN t.blk \cup {b} /\ \A c \in DOMAIN t.blk : c # b => s[c] = t.blk[c]
  BY DEF Store
<1> HIDE DEF s
<1>6. Put(t, b, node) = [t EXCEPT !.blk = s]
  BY DEF Put, s
<1>7. Put(t, b, node) \in Indexes(h, K) /\ SameHead(t, Put(t, b, node)) /\ Put(t, b, node).blk = s
  BY <1>4, <1>6 DEF Indexes, SameHead
<1> QED BY <1>5, <1>7 DEF SameBut

Ran(s) == {s[i] : i \in 1 .. Len(s)}

\* s is the chain of blocks of a type that begins with first.
Chain(t, type, first, s) ==
  /\ s \in Seq(Nat)
  /\ \A i, j \in 1 .. Len(s) : s[i] = s[j] => i = j
  /\ first = IF s = <<>> THEN 0 ELSE s[1]
  /\ \A i \in 1 .. Len(s) : /\ t.blk[s[i]].type = type
                            /\ t.blk[s[i]].next = IF i = Len(s) THEN 0 ELSE s[i + 1]

\* Every block is in the tree W, or a deleted one, or has record places.
Whole(t, W, dl, fl) ==
  /\ 1 .. t.high \subseteq DOMAIN t.blk
  /\ Chain(t, "D", t.del, dl) /\ Chain(t, "F", t.rec, fl)
  /\ W \cup Ran(dl) \cup Ran(fl) = 1 .. t.high
  /\ W \cap Ran(dl) = {} /\ W \cap Ran(fl) = {} /\ Ran(dl) \cap Ran(fl) = {}
  /\ t.fix \/ fl = <<>>
  /\ \A b \in W : t.blk[b].type \in {"U", "V"}

\* A chain whose blocks did not change is still one.
LEMMA ChainKept ==
  ASSUME NEW t, NEW t2, NEW type, NEW first, NEW s, Chain(t, type, first, s),
         \A b \in Ran(s) : t2.blk[b] = t.blk[b]
  PROVE  Chain(t2, type, first, s)
BY DEF Chain, Ran

\* A chain whose links did not change is still one.
LEMMA ChainSame ==
  ASSUME NEW t, NEW t2, NEW type, NEW first, NEW s, Chain(t, type, first, s),
         \A b \in Ran(s) : t2.blk[b].type = t.blk[b].type /\ t2.blk[b].next = t.blk[b].next
  PROVE  Chain(t2, type, first, s)
BY DEF Chain, Ran

\* Without its first block a chain is one.
LEMMA ChainTail ==
  ASSUME NEW t, NEW type, NEW first, first # 0, NEW s, Chain(t, type, first, s)
  PROVE  /\ s # <<>> /\ first \in Ran(s) /\ first \in Nat
         /\ Chain(t, type, t.blk[first].next, Tail(s)) /\ Ran(Tail(s)) = Ran(s) \ {first}
<1>1. s # <<>> /\ first = s[1] /\ s \in Seq(Nat)
  BY DEF Chain
<1> DEFINE v == Tail(s)
           n == Len(s)
<1>2. v \in Seq(Nat) /\ Len(v) = n - 1 /\ n \in Nat /\ n >= 1 /\ \A i \in 1 .. n - 1 : v[i] = s[i + 1]
  BY <1>1, TailIs
<1>3. /\ \A i, j \in 1 .. n : s[i] = s[j] => i = j
      /\ \A i \in 1 .. n : /\ t.blk[s[i]].type = type
                           /\ t.blk[s[i]].next = IF i = n THEN 0 ELSE s[i + 1]
      /\ Ran(s) = {s[i] : i \in 1 .. n}
  BY DEF Chain, Ran
<1> HIDE DEF v, n
<1>4. (v # <<>>) <=> (n # 1)
  <2>1. v = <<>> => Len(v) = 0
    OBVIOUS
  <2>2. Len(v) = 0 => v = <<>>
    BY <1>2, EmptySeq
  <2> QED BY <1>2, <2>1, <2>2
<1>5. first \in Ran(s) /\ first \in Nat
  <2>1. 1 \in 1 .. n
    BY <1>2
  <2>2. s[1] \in Nat
    BY <1>1, <1>2, <2>1, ElementOfSeq DEF n
  <2> QED BY <1>1, <1>3, <2>1, <2>2
<1>6. \A i, j \in 1 .. n - 1 : v[i] = v[j] => i = j
  <2>0. \A i \in 1 .. n - 1 : i + 1 \in 1 .. n /\ v[i] = s[i + 1]
    BY <1>2
  <2> TAKE i, j \in 1 .. n - 1
  <2>1. i + 1 \in 1 .. n /\ j + 1 \in 1 .. n /\ v[i] = s[i + 1] /\ v[j] = s[j + 1]
    BY <2>0
  <2>2. s[i + 1] = s[j + 1] => i + 1 = j + 1
    BY <1>3, <2>1
  <2> QED BY <2>1, <2>2
<1>7. \A i \in 1 .. n - 1 : /\ t.blk[v[i]].type = type
                            /\ t.blk[v[i]].next = IF i = n - 1 THEN 0 ELSE v[i + 1]
  <2> TAKE i \in 1 .. n - 1
  <2> DEFINE j == i + 1
  <2>0. j \in 1 .. n /\ v[i] = s[j]
    BY <1>2
  <2>4. i # n - 1 => i + 1 \in 1 .. n - 1 /\ i + 1 + 1 = j + 1
    BY <1>2
  <2>5. i # n - 1 => v[i + 1] = s[j + 1]
    BY <1>2, <2>4
  <2>6. (j = n) <=> (i = n - 1)
    BY <1>2
  <2> HIDE DEF j
  <2>1. j \in 1 .. n /\ v[i] = s[j] /\ ((j = n) <=> (i = n - 1)) /\ (i # n - 1 => v[i + 1] = s[j + 1])
    BY <2>0, <2>5, <2>6
  <2>2. t.blk[s[j]].type = type /\ t.blk[s[j]].next = IF j = n THEN 0 ELSE s[j + 1]
    BY <1>3, <2>1
  <2> QED BY <2>1, <2>2
<1>8. t.blk[first].next = IF v = <<>> THEN 0 ELSE v[1]
  <2>1. 1 \in 1 .. n /\ (n # 1 => v[1] = s[1 + 1])
    BY <1>2
  <2>2. t.blk[s[1]].next = IF 1 = n THEN 0 ELSE s[1 + 1]
    BY <1>3, <2>1
  <2> QED BY <1>1, <1>4, <2>1, <2>2
<1>9. Chain(t, type, t.blk[first].next, v)
  BY <1>2, <1>6, <1>7, <1>8 DEF Chain
<1>10. Ran(v) = Ran(s) \ {first}
  <2>1. ASSUME NEW i \in 1 .. n - 1 PROVE v[i] \in Ran(s) \ {first}
    <3> DEFINE j == i + 1
    <3>1. j \in 1 .. n /\ j # 1 /\ 1 \in 1 .. n /\ v[i] = s[j]
      BY <1>2
    <3> HIDE DEF j
    <3>2. s[j] # s[1]
      BY <1>3, <3>1
    <3> QED BY <1>1, <1>3, <3>1, <3>2
  <2>2. ASSUME NEW j \in 1 .. n, s[j] # first PROVE \E i \in 1 .. n - 1 : v[i] = s[j]
    <3>1. j # 1
      BY <1>1, <2>2
    <3>2. j - 1 \in 1 .. n - 1 /\ j - 1 + 1 = j
      BY <1>2, <3>1
    <3>3. v[j - 1] = s[j]
      BY <1>2, <3>2
    <3> QED BY <3>2, <3>3
  <2>3. Ran(v) = {v[i] : i \in 1 .. n - 1}
    BY <1>2 DEF Ran
  <2> QED BY <1>3, <2>1, <2>2, <2>3
<1> QED BY <1>1, <1>5, <1>9, <1>10 DEF v

\* A block that points to its first block makes a chain longer.
LEMMA ChainHead ==
  ASSUME NEW t, NEW type, NEW first, NEW s, Chain(t, type, first, s), NEW b, b \in Nat, b # 0, b \notin Ran(s),
         t.blk[b].type = type, t.blk[b].next = first
  PROVE  Chain(t, type, b, <<b>> \o s) /\ Ran(<<b>> \o s) = Ran(s) \cup {b}
<1> DEFINE o == <<b>>
           v == o \o s
           n == Len(s)
<1>1. o \in Seq(Nat) /\ Len(o) = 1 /\ o[1] = b /\ s \in Seq(Nat) /\ n \in Nat
  BY LenProperties DEF Chain
<1> HIDE DEF o
<1>2. /\ v \in Seq(Nat) /\ Len(v) = Len(o) + Len(s) /\ \A i \in 1 .. Len(o) : v[i] = o[i]
      /\ \A i \in 1 .. Len(s) : v[Len(o) + i] = s[i]
  <2>1. o \in Seq(Nat) /\ s \in Seq(Nat)
    BY <1>1
  <2>2. /\ o \o s \in Seq(Nat) /\ Len(o \o s) = Len(o) + Len(s)
        /\ \A i \in 1 .. Len(o) : (o \o s)[i] = o[i]
        /\ \A i \in 1 .. Len(s) : (o \o s)[Len(o) + i] = s[i]
    BY ONLY <2>1, CatIs
  <2> QED BY <2>2
<1>3. v \in Seq(Nat) /\ Len(v) = n + 1 /\ v[1] = b /\ \A i \in 1 .. n : v[i + 1] = s[i]
  <2>1. 1 \in 1 .. Len(o) /\ \A i \in 1 .. n : Len(o) + i = i + 1
    BY <1>1
  <2> QED BY <1>1, <1>2, <2>1
<1>4. /\ \A i, j \in 1 .. n : s[i] = s[j] => i = j
      /\ \A i \in 1 .. n : /\ t.blk[s[i]].type = type
                           /\ t.blk[s[i]].next = IF i = n THEN 0 ELSE s[i + 1]
      /\ Ran(s) = {s[i] : i \in 1 .. n} /\ first = IF n = 0 THEN 0 ELSE s[1]
  <2>1. s = <<>> <=> n = 0
    BY <1>1, EmptySeq
  <2> QED BY <2>1 DEF Chain, Ran
<1>5. \A i \in 1 .. n : s[i] # b
  BY <1>4
<1> HIDE DEF v, n
<1>6. \A i \in 1 .. n + 1 : i = 1 \/ \E j \in 1 .. n : i = j + 1 /\ v[i] = s[j]
  <2> TAKE i \in 1 .. n + 1
  <2>1. i # 1 => i - 1 \in 1 .. n /\ i = i - 1 + 1
    BY <1>1
  <2> QED BY <1>3, <2>1
<1>7. \A i, j \in 1 .. n + 1 : v[i] = v[j] => i = j
  BY <1>3, <1>4, <1>5, <1>6
<1>8. \A i \in 1 .. n + 1 : /\ t.blk[v[i]].type = type
                            /\ t.blk[v[i]].next = IF i = n + 1 THEN 0 ELSE v[i + 1]
  <2> TAKE i \in 1 .. n + 1
  <2>1. CASE i = 1
    <3>1. n # 0 => v[1 + 1] = s[1]
      <4>1. n # 0 => 1 \in 1 .. n
        BY <1>1
      <4> QED BY <1>3, <4>1
    <3>2. n = 0 <=> i = n + 1
      BY <1>1, <2>1
    <3> QED BY <1>3, <1>4, <2>1, <3>1, <3>2
  <2>2. CASE i # 1
    <3>1. PICK j \in 1 .. n : i = j + 1 /\ v[i] = s[j]
      BY <1>6, <2>2
    <3>2. (j = n <=> i = n + 1) /\ (j # n => j + 1 \in 1 .. n)
      BY <1>1, <3>1
    <3>3. j # n => v[i + 1] = s[j + 1]
      BY <1>3, <3>1, <3>2
    <3>4. t.blk[s[j]].type = type /\ t.blk[s[j]].next = IF j = n THEN 0 ELSE s[j + 1]
      BY <1>4
    <3> QED BY <3>1, <3>2, <3>3, <3>4
  <2> QED BY <2>1, <2>2
<1>9. v # <<>>
  <2>1. Len(v) # 0
    BY <1>1, <1>3
  <2> QED BY <2>1
<1>10. Chain(t, type, b, v)
  BY <1>3, <1>7, <1>8, <1>9 DEF Chain
<1>11. Ran(v) = Ran(s) \cup {b}
  <2>1. \A i \in 1 .. n + 1 : v[i] \in Ran(s) \cup {b}
    BY <1>3, <1>4, <1>6
  <2>2. \A j \in 1 .. n : j + 1 \in 1 .. n + 1 /\ v[j + 1] = s[j]
    BY <1>1, <1>3
  <2>3. 1 \in 1 .. n + 1
    BY <1>1
  <2>4. Ran(v) = {v[i] : i \in 1 .. n + 1}
    BY <1>3 DEF Ran
  <2> QED BY <1>3, <1>4, <2>1, <2>2, <2>3, <2>4, SMTT(60)
<1> QED BY <1>10, <1>11 DEF v, o

\* The types of the parts of an index.
LEMMA IndexTypes ==
  ASSUME NEW K, NEW h, NEW t, t \in Indexes(h, K)
  PROVE  /\ t.root \in Nat /\ t.del \in Nat /\ t.rec \in Nat /\ t.high \in Nat /\ t.fix = h.fix
         /\ DOMAIN t.blk \in SUBSET Nat /\ \A b \in DOMAIN t.blk : t.blk[b] \in Node(K)
<1>1. t.root \in Nat /\ t.del \in Nat /\ t.rec \in Nat /\ t.high \in Nat /\ t.fix = h.fix /\ t.blk \in Blocks(K)
  BY DEF Indexes
<1>2. PICK D \in SUBSET Nat : t.blk \in [D -> Node(K)]
  BY <1>1 DEF Blocks
<1> QED BY <1>1, <1>2

\* The blocks of the tree and of both chains are in the file.
LEMMA WholeParts ==
  ASSUME NEW K, NEW h, NEW t, t \in Indexes(h, K), NEW W, NEW dl, NEW fl, Whole(t, W, dl, fl)
  PROVE  \A b \in W \cup Ran(dl) \cup Ran(fl) : b \in 1 .. t.high /\ b \in DOMAIN t.blk /\ b \in Nat /\ b # 0
<1>1. t.high \in Nat
  BY IndexTypes
<1>2. \A b \in 1 .. t.high : b \in Nat /\ b # 0
  BY <1>1
<1> QED BY <1>2 DEF Whole

\* Two indexes of one header agree on how the records are written.
LEMMA WholeFix ==
  ASSUME NEW K, NEW h, NEW t, t \in Indexes(h, K), NEW t2, t2 \in Indexes(h, K)
  PROVE  t2.fix = t.fix
BY DEF Indexes

\* A block of the tree is written.
LEMMA WholePut ==
  ASSUME NEW K, NEW h, NEW t, t \in Indexes(h, K), NEW W, NEW dl, NEW fl, Whole(t, W, dl, fl),
         NEW b, b \in W, NEW node, node \in Node(K), node.type \in {"U", "V"}
  PROVE  /\ Put(t, b, node) \in Indexes(h, K) /\ Whole(Put(t, b, node), W, dl, fl)
         /\ Put(t, b, node).root = t.root /\ Put(t, b, node).blk[b] = node
         /\ \A c \in W : c # b => Put(t, b, node).blk[c] = t.blk[c]
<1> DEFINE t2 == Put(t, b, node)
<1>1. b \in Nat /\ b \in DOMAIN t.blk /\ \A c \in W : c \in DOMAIN t.blk
  BY WholeParts
<1>2. t2 \in Indexes(h, K) /\ SameHead(t, t2) /\ SameBut(t, t2, b, node)
  BY <1>1, PutIs
<1> HIDE DEF t2
<1>3. t2.fix = t.fix
  BY <1>2, WholeFix
<1>4. b \notin Ran(dl) /\ b \notin Ran(fl)
  BY DEF Whole
<1>5. \A c \in Ran(dl) \cup Ran(fl) : t2.blk[c] = t.blk[c]
  BY <1>2, <1>4, WholeParts DEF SameBut
<1>6. Chain(t2, "D", t2.del, dl)
  <2>1. Chain(t, "D", t.del, dl)
    BY DEF Whole
  <2>2. Chain(t2, "D", t.del, dl)
    BY <1>5, <2>1, ChainKept
  <2> QED BY <1>2, <2>2 DEF SameHead
<1>7. Chain(t2, "F", t2.rec, fl)
  <2>1. Chain(t, "F", t.rec, fl)
    BY DEF Whole
  <2>2. Chain(t2, "F", t.rec, fl)
    BY <1>5, <2>1, ChainKept
  <2> QED BY <1>2, <2>2 DEF SameHead
<1>8. \A c \in W : t2.blk[c].type \in {"U", "V"}
  BY <1>1, <1>2 DEF Whole, SameBut
<1>9. Whole(t2, W, dl, fl)
  BY <1>1, <1>2, <1>3, <1>6, <1>7, <1>8 DEF Whole, SameHead, SameBut
<1> QED BY <1>1, <1>2, <1>9 DEF t2, SameHead, SameBut

\* The head of the index, but for the root, is as before.
LEMMA WholeRoot ==
  ASSUME NEW K, NEW h, NEW t, t \in Indexes(h, K), NEW W, NEW dl, NEW fl, Whole(t, W, dl, fl),
         NEW r, r \in Nat
  PROVE  /\ [t EXCEPT !.root = r] \in Indexes(h, K) /\ Whole([t EXCEPT !.root = r], W, dl, fl)
         /\ [t EXCEPT !.root = r].root = r /\ [t EXCEPT !.root = r].blk = t.blk
<1> DEFINE t2 == [t EXCEPT !.root = r]
<1>1. /\ t2 \in Indexes(h, K) /\ t2.root = r /\ t2.blk = t.blk /\ t2.del = t.del /\ t2.rec = t.rec
      /\ t2.high = t.high /\ t2.fix = t.fix
  BY DEF Indexes
<1> HIDE DEF t2
<1>2. Whole(t2, W, dl, fl)
  BY <1>1 DEF Whole, Chain
<1> QED BY <1>1, <1>2 DEF t2

\* A block of the tree is deleted.
LEMMA WholeFree ==
  ASSUME NEW K, NEW h, NEW t, t \in Indexes(h, K), NEW W, NEW dl, NEW fl, Whole(t, W, dl, fl),
         NEW b, b \in W
  PROVE  /\ Free(t, b) \in Indexes(h, K) /\ Whole(Free(t, b), W \ {b}, <<b>> \o dl, fl)
         /\ Free(t, b).root = t.root
         /\ \A c \in W : c # b => Free(t, b).blk[c] = t.blk[c]
<1> DEFINE node == [type |-> "D", next |-> t.del]
           t1 == [t EXCEPT !.del = b]
           t2 == Put(t1, b, node)
<1>1. /\ b \in Nat /\ b \in DOMAIN t.blk /\ b # 0 /\ b \in 1 .. t.high /\ t.del \in Nat
      /\ \A c \in W : c \in DOMAIN t.blk
  BY WholeParts, IndexTypes
<1>2. node \in Node(K) /\ node.type = "D" /\ node.next = t.del
  BY <1>1, NodeIs
<1>3. /\ t1 \in Indexes(h, K) /\ t1.root = t.root /\ t1.blk = t.blk /\ t1.del = b /\ t1.rec = t.rec
      /\ t1.high = t.high /\ t1.fix = t.fix
  BY <1>1 DEF Indexes
<1>0. t2 = Free(t, b)
  BY DEF Free
<1> HIDE DEF node, t1
<1>4. t2 \in Indexes(h, K) /\ SameHead(t1, t2) /\ SameBut(t1, t2, b, node)
  BY <1>1, <1>2, <1>3, PutIs
<1> HIDE DEF t2
<1>5. /\ t2.root = t.root /\ t2.del = b /\ t2.rec = t.rec /\ t2.high = t.high /\ t2.fix = t.fix
      /\ DOMAIN t2.blk = DOMAIN t.blk /\ t2.blk[b] = node
      /\ \A c \in DOMAIN t.blk : c # b => t2.blk[c] = t.blk[c]
  BY <1>1, <1>3, <1>4, WholeFix DEF SameHead, SameBut
<1>6. b \notin Ran(dl) /\ b \notin Ran(fl)
  BY DEF Whole
<1>7. \A c \in Ran(dl) \cup Ran(fl) : t2.blk[c] = t.blk[c]
  BY <1>5, <1>6, WholeParts
<1>8. Chain(t2, "D", t2.del, <<b>> \o dl) /\ Ran(<<b>> \o dl) = Ran(dl) \cup {b}
  <2>1. Chain(t, "D", t.del, dl)
    BY DEF Whole
  <2>2. Chain(t2, "D", t.del, dl)
    BY <1>7, <2>1, ChainKept
  <2> QED BY <1>1, <1>2, <1>5, <1>6, <2>2, ChainHead
<1>9. Chain(t2, "F", t2.rec, fl)
  <2>1. Chain(t, "F", t.rec, fl)
    BY DEF Whole
  <2>2. Chain(t2, "F", t.rec, fl)
    BY <1>7, <2>1, ChainKept
  <2> QED BY <1>5, <2>2
<1>10. Whole(t2, W \ {b}, <<b>> \o dl, fl)
  <2>1. \A c \in W \ {b} : t2.blk[c].type \in {"U", "V"}
    BY <1>1, <1>5 DEF Whole
  <2>2. (W \ {b}) \cup (Ran(dl) \cup {b}) \cup Ran(fl) = 1 .. t.high
    BY <1>1 DEF Whole
  <2>3. /\ (W \ {b}) \cap (Ran(dl) \cup {b}) = {} /\ (W \ {b}) \cap Ran(fl) = {}
        /\ (Ran(dl) \cup {b}) \cap Ran(fl) = {}
    BY <1>6 DEF Whole
  <2>4. 1 .. t2.high \subseteq DOMAIN t2.blk /\ (t2.fix \/ fl = <<>>)
    BY <1>5 DEF Whole
  <2> QED BY <1>5, <1>8, <1>9, <2>1, <2>2, <2>3, <2>4 DEF Whole
<1> QED BY <1>0, <1>1, <1>4, <1>5, <1>10

\* Whole but for the block c, which no one has.
AllBut(t, W, dl, fl, c) ==
  /\ 1 .. t.high \subseteq DOMAIN t.blk
  /\ Chain(t, "D", t.del, dl) /\ Chain(t, "F", t.rec, fl)
  /\ W \cup Ran(dl) \cup Ran(fl) \cup {c} = 1 .. t.high
  /\ W \cap Ran(dl) = {} /\ W \cap Ran(fl) = {} /\ Ran(dl) \cap Ran(fl) = {}
  /\ c \notin W /\ c \notin Ran(dl) /\ c \notin Ran(fl)
  /\ t.fix \/ fl = <<>>
  /\ \A b \in W : t.blk[b].type \in {"U", "V"}

\* xioxnewb takes a deleted block or the next one of the file, and no block of
\* the tree or of the chain of places.
LEMMA AddTakes ==
  ASSUME NEW K, NEW h, NEW t, t \in Indexes(h, K), NEW W, NEW dl, NEW fl, Whole(t, W, dl, fl),
         NEW node, node \in Node(K)
  PROVE  /\ NewBlock(t) \in Nat /\ NewBlock(t) # 0
         /\ Add(t, node) \in Indexes(h, K) /\ Add(t, node).root = t.root /\ Add(t, node).rec = t.rec
         /\ Add(t, node).blk[NewBlock(t)] = node
         /\ \A b \in W \cup Ran(fl) : b # NewBlock(t) /\ Add(t, node).blk[b] = t.blk[b]
         /\ \E dl2 : AllBut(Add(t, node), W, dl2, fl, NewBlock(t))
<1> DEFINE c == NewBlock(t)
           t2 == Add(t, node)
<1>1. t.root \in Nat /\ t.del \in Nat /\ t.rec \in Nat /\ t.high \in Nat
  BY IndexTypes
<1>2. /\ 1 .. t.high \subseteq DOMAIN t.blk
      /\ Chain(t, "D", t.del, dl) /\ Chain(t, "F", t.rec, fl)
      /\ W \cup Ran(dl) \cup Ran(fl) = 1 .. t.high
      /\ W \cap Ran(dl) = {} /\ W \cap Ran(fl) = {} /\ Ran(dl) \cap Ran(fl) = {}
      /\ t.fix \/ fl = <<>>
      /\ \A b \in W : t.blk[b].type \in {"U", "V"}
  BY DEF Whole
<1>3. CASE t.del # 0
  <2> DEFINE t1 == [t EXCEPT !.del = t.blk[t.del].next]
  <2>1. c = t.del /\ t2 = Put(t1, c, node)
    BY <1>3 DEF NewBlock, Add
  <2>2. /\ dl # <<>> /\ t.del \in Ran(dl) /\ t.del \in Nat
        /\ Chain(t, "D", t.blk[t.del].next, Tail(dl)) /\ Ran(Tail(dl)) = Ran(dl) \ {t.del}
    BY <1>2, <1>3, ChainTail
  <2>3. t.blk[t.del].next \in Nat
    <3>1. t.del \in DOMAIN t.blk
      BY <2>2, WholeParts
    <3>2. t.blk[t.del] \in Node(K)
      BY <3>1, IndexTypes
    <3>3. t.blk[t.del].type = "D"
      BY <1>2, <2>2 DEF Chain, Ran
    <3> QED BY <3>2, <3>3, NodeTypes
  <2>4. /\ t1 \in Indexes(h, K) /\ t1.root = t.root /\ t1.blk = t.blk /\ t1.del = t.blk[t.del].next
        /\ t1.rec = t.rec /\ t1.high = t.high
    BY <2>3 DEF Indexes
  <2> HIDE DEF c, t1, t2
  <2>5. t2 \in Indexes(h, K) /\ SameHead(t1, t2) /\ SameBut(t1, t2, c, node)
    BY <2>1, <2>2, <2>4, PutIs
  <2>6. /\ t2.root = t.root /\ t2.del = t.blk[t.del].next /\ t2.rec = t.rec /\ t2.high = t.high /\ t2.fix = t.fix
        /\ DOMAIN t2.blk = DOMAIN t.blk \cup {c} /\ t2.blk[c] = node
        /\ \A b \in DOMAIN t.blk : b # c => t2.blk[b] = t.blk[b]
    BY <2>4, <2>5, WholeFix DEF SameHead, SameBut
  <2>7. \A b \in W \cup Ran(Tail(dl)) \cup Ran(fl) : b # c /\ b \in DOMAIN t.blk
    BY <1>2, <2>1, <2>2, WholeParts
  <2>8. Chain(t2, "D", t2.del, Tail(dl)) /\ Chain(t2, "F", t2.rec, fl)
    BY <1>2, <2>2, <2>6, <2>7, ChainKept
  <2>9. AllBut(t2, W, Tail(dl), fl, c)
    <3>1. \A b \in W : t2.blk[b].type \in {"U", "V"}
      BY <1>2, <2>6, <2>7
    <3>2. W \cup Ran(Tail(dl)) \cup Ran(fl) \cup {c} = 1 .. t2.high
      BY <1>2, <2>1, <2>2, <2>6
    <3>3. /\ W \cap Ran(Tail(dl)) = {} /\ Ran(Tail(dl)) \cap Ran(fl) = {}
          /\ c \notin W /\ c \notin Ran(Tail(dl)) /\ c \notin Ran(fl)
      BY <1>2, <2>1, <2>2
    <3>4. 1 .. t2.high \subseteq DOMAIN t2.blk /\ (t2.fix \/ fl = <<>>)
      BY <1>2, <2>6
    <3> QED BY <1>2, <2>8, <3>1, <3>2, <3>3, <3>4 DEF AllBut
  <2>10. c \in Nat /\ c # 0
    BY <1>3, <2>1, <2>2
  <2> QED BY <2>5, <2>6, <2>7, <2>9, <2>10 DEF c, t2
<1>4. CASE t.del = 0
  <2> DEFINE t1 == [t EXCEPT !.high = c]
  <2>1. c = t.high + 1 /\ t2 = Put(t1, c, node)
    BY <1>4 DEF NewBlock, Add
  <2>2. c \in Nat /\ c # 0 /\ c \notin 1 .. t.high /\ 1 .. c = 1 .. t.high \cup {c}
    BY <1>1, <2>1
  <2>4. /\ t1 \in Indexes(h, K) /\ t1.root = t.root /\ t1.blk = t.blk /\ t1.del = t.del
        /\ t1.rec = t.rec /\ t1.high = c
    BY <2>2 DEF Indexes
  <2> HIDE DEF c, t1, t2
  <2>5. t2 \in Indexes(h, K) /\ SameHead(t1, t2) /\ SameBut(t1, t2, c, node)
    BY <2>1, <2>2, <2>4, PutIs
  <2>6. /\ t2.root = t.root /\ t2.del = t.del /\ t2.rec = t.rec /\ t2.high = c /\ t2.fix = t.fix
        /\ DOMAIN t2.blk = DOMAIN t.blk \cup {c} /\ t2.blk[c] = node
        /\ \A b \in DOMAIN t.blk : b # c => t2.blk[b] = t.blk[b]
    BY <2>4, <2>5, WholeFix DEF SameHead, SameBut
  <2>7. \A b \in W \cup Ran(dl) \cup Ran(fl) : b # c /\ b \in DOMAIN t.blk
    BY <2>2, WholeParts
  <2>8. Chain(t2, "D", t2.del, dl) /\ Chain(t2, "F", t2.rec, fl)
    BY <1>2, <2>6, <2>7, ChainKept
  <2>9. AllBut(t2, W, dl, fl, c)
    <3>1. \A b \in W : t2.blk[b].type \in {"U", "V"}
      BY <1>2, <2>6, <2>7
    <3>2. W \cup Ran(dl) \cup Ran(fl) \cup {c} = 1 .. t2.high
      BY <1>2, <2>2, <2>6
    <3>3. c \notin W /\ c \notin Ran(dl) /\ c \notin Ran(fl)
      BY <2>7
    <3>4. 1 .. t2.high \subseteq DOMAIN t2.blk /\ (t2.fix \/ fl = <<>>)
      BY <1>2, <2>2, <2>6
    <3> QED BY <1>2, <2>8, <3>1, <3>2, <3>3, <3>4 DEF AllBut
  <2> QED BY <2>2, <2>5, <2>6, <2>7, <2>9 DEF c, t2
<1> QED BY <1>3, <1>4

\* A new block comes into the tree.
LEMMA WholeAdd ==
  ASSUME NEW K, NEW h, NEW t, t \in Indexes(h, K), NEW W, NEW dl, NEW fl, Whole(t, W, dl, fl),
         NEW node, node \in Node(K), node.type \in {"U", "V"}
  PROVE  /\ NewBlock(t) \in Nat \ {0} /\ NewBlock(t) \notin W
         /\ Add(t, node) \in Indexes(h, K) /\ Add(t, node).root = t.root
         /\ Add(t, node).blk[NewBlock(t)] = node
         /\ \A b \in W : Add(t, node).blk[b] = t.blk[b]
         /\ \E dl2 : Whole(Add(t, node), W \cup {NewBlock(t)}, dl2, fl)
<1> DEFINE c == NewBlock(t)
           t2 == Add(t, node)
<1>1. /\ c \in Nat /\ c # 0 /\ t2 \in Indexes(h, K) /\ t2.root = t.root /\ t2.rec = t.rec
      /\ t2.blk[c] = node /\ (\A b \in W \cup Ran(fl) : b # c /\ t2.blk[b] = t.blk[b])
      /\ \E dl2 : AllBut(t2, W, dl2, fl, c)
  BY AddTakes
<1> HIDE DEF c, t2
<1>2. PICK dl2 : AllBut(t2, W, dl2, fl, c)
  BY <1>1
<1>3. Whole(t2, W \cup {c}, dl2, fl)
  <2>1. (W \cup {c}) \cup Ran(dl2) \cup Ran(fl) = 1 .. t2.high
    BY <1>2 DEF AllBut
  <2>2. (W \cup {c}) \cap Ran(dl2) = {} /\ (W \cup {c}) \cap Ran(fl) = {}
    BY <1>2 DEF AllBut
  <2>3. \A b \in W \cup {c} : t2.blk[b].type \in {"U", "V"}
    BY <1>1, <1>2 DEF AllBut
  <2> QED BY <1>2, <2>1, <2>2, <2>3 DEF AllBut, Whole
<1> QED BY <1>1, <1>3 DEF c, t2

\* A block of free places is one.
LEMMA PlacesIs ==
  ASSUME NEW K, NEW n, n \in Nat, NEW s, s \in Seq(Int) \ {<<>>}
  PROVE  /\ [type |-> "F", next |-> n, places |-> s] \in Node(K)
         /\ [type |-> "F", next |-> n, places |-> s].type = "F"
         /\ [type |-> "F", next |-> n, places |-> s].next = n
BY DEF Node

\* A block of free places with other places is one.
LEMMA PlacesPut ==
  ASSUME NEW K, NEW r, r \in Node(K), r.type = "F", NEW s, s \in Seq(Int) \ {<<>>}
  PROVE  /\ [r EXCEPT !.places = s] \in Node(K) /\ [r EXCEPT !.places = s].type = "F"
         /\ [r EXCEPT !.places = s].next = r.next
BY DEF Node

\* xiodelrec: a place goes to the first block of places, or to a new one.
LEMMA WholeGive ==
  ASSUME NEW K, NEW h, NEW t, t \in Indexes(h, K), NEW W, NEW dl, NEW fl, Whole(t, W, dl, fl),
         h.fix, NEW place, place \in Int
  PROVE  /\ GivePlace(t, place) \in Indexes(h, K) /\ GivePlace(t, place).root = t.root
         /\ \A b \in W : GivePlace(t, place).blk[b] = t.blk[b]
         /\ \E dl2, fl2 : Whole(GivePlace(t, place), W, dl2, fl2)
<1>1. CASE t.rec # 0 /\ FSize(t, Append(t.blk[t.rec].places, place)) <= t.blksize
  <2> DEFINE node == [t.blk[t.rec] EXCEPT !.places = Append(@, place)]
             t2 == Put(t, t.rec, node)
  <2>1. t2 = GivePlace(t, place)
    BY <1>1 DEF GivePlace
  <2>2. Chain(t, "F", t.rec, fl) /\ Chain(t, "D", t.del, dl)
    BY DEF Whole
  <2>3. t.rec \in Ran(fl)
    BY <1>1, <2>2, ChainTail
  <2>4. t.rec \in DOMAIN t.blk /\ t.rec \in Nat
    BY <2>3, WholeParts
  <2>5. t.blk[t.rec] \in Node(K) /\ t.blk[t.rec].type = "F"
    <3>1. t.blk[t.rec].type = "F"
      BY <2>2, <2>3 DEF Chain, Ran
    <3> QED BY <2>4, <3>1, IndexTypes
  <2>6. t.blk[t.rec].places \in Seq(Int)
    BY <2>5, NodeTypes
  <2>7. Append(t.blk[t.rec].places, place) \in Seq(Int) \ {<<>>}
    BY <2>6, AppendProperties
  <2>9. node \in Node(K) /\ node.type = "F" /\ node.next = t.blk[t.rec].next
    <3> DEFINE r == t.blk[t.rec]
               s == Append(r.places, place)
    <3>1. r \in Node(K) /\ r.type = "F" /\ s \in Seq(Int) \ {<<>>} /\ node = [r EXCEPT !.places = s]
      BY <2>5, <2>7
    <3> HIDE DEF r, s, node
    <3>2. node \in Node(K) /\ node.type = "F" /\ node.next = r.next
      BY <3>1, PlacesPut
    <3> QED BY <3>2 DEF r
  <2> HIDE DEF node
  <2>10. t2 \in Indexes(h, K) /\ SameHead(t, t2) /\ SameBut(t, t2, t.rec, node)
    BY <2>4, <2>9, PutIs
  <2> HIDE DEF t2
  <2>11. \A b \in W \cup Ran(dl) : t2.blk[b] = t.blk[b]
    BY <2>3, <2>10, WholeParts DEF SameBut, Whole
  <2>12. Chain(t2, "D", t2.del, dl)
    BY <2>2, <2>10, <2>11, ChainKept DEF SameHead
  <2>13. Chain(t2, "F", t2.rec, fl)
    <3>1. \A b \in Ran(fl) : t2.blk[b].type = t.blk[b].type /\ t2.blk[b].next = t.blk[b].next
      BY <2>5, <2>9, <2>10, WholeParts DEF SameBut
    <3>2. Chain(t2, "F", t.rec, fl)
      BY <2>2, <3>1, ChainSame
    <3> QED BY <2>10, <3>2 DEF SameHead
  <2>14. Whole(t2, W, dl, fl)
    <3>1. t2.fix = t.fix
      BY <2>10, WholeFix
    <3> QED BY <2>4, <2>10, <2>11, <2>12, <2>13, <3>1 DEF Whole, SameHead, SameBut
  <2> QED BY <2>1, <2>10, <2>11, <2>14 DEF SameHead
<1>2. CASE ~ (t.rec # 0 /\ FSize(t, Append(t.blk[t.rec].places, place)) <= t.blksize)
  <2> DEFINE node == [type |-> "F", next |-> t.rec, places |-> <<place>>]
             c == NewBlock(t)
             t1 == Add(t, node)
             t2 == [t1 EXCEPT !.rec = c]
  <2>1. t2 = GivePlace(t, place)
    BY <1>2 DEF GivePlace
  <2>2. node \in Node(K) /\ node.type = "F" /\ node.next = t.rec
    <3>1. t.rec \in Nat
      BY IndexTypes
    <3>2. <<place>> \in Seq(Int) \ {<<>>}
      BY OneIs
    <3> QED BY <3>1, <3>2, PlacesIs
  <2> HIDE DEF node
  <2>3. /\ c \in Nat /\ c # 0 /\ t1 \in Indexes(h, K) /\ t1.root = t.root /\ t1.rec = t.rec
        /\ t1.blk[c] = node /\ (\A b \in W \cup Ran(fl) : b # c /\ t1.blk[b] = t.blk[b])
        /\ \E dl2 : AllBut(t1, W, dl2, fl, c)
    BY <2>2, AddTakes
  <2> HIDE DEF c, t1
  <2>4. PICK dl2 : AllBut(t1, W, dl2, fl, c)
    BY <2>3
  <2>5. /\ t2 \in Indexes(h, K) /\ t2.root = t.root /\ t2.rec = c /\ t2.blk = t1.blk /\ t2.del = t1.del
        /\ t2.high = t1.high /\ t2.fix
    BY <2>3 DEF Indexes
  <2> HIDE DEF t2
  <2>6. Chain(t2, "D", t2.del, dl2)
    BY <2>4, <2>5 DEF AllBut, Chain
  <2>7. Chain(t2, "F", c, <<c>> \o fl) /\ Ran(<<c>> \o fl) = Ran(fl) \cup {c}
    <3>1. Chain(t2, "F", t.rec, fl)
      BY <2>3, <2>4, <2>5 DEF AllBut, Chain
    <3>2. c \notin Ran(fl) /\ t2.blk[c].type = "F" /\ t2.blk[c].next = t.rec
      BY <2>2, <2>3, <2>5
    <3> QED BY <2>3, <3>1, <3>2, ChainHead
  <2>8. Whole(t2, W, dl2, <<c>> \o fl)
    BY <2>4, <2>5, <2>6, <2>7 DEF AllBut, Whole
  <2> QED BY <2>1, <2>3, <2>5, <2>8
<1> QED BY <1>1, <1>2

\* xiogetrec: the first place of the first block of places is used.
LEMMA WholeGet ==
  ASSUME NEW K, NEW h, NEW t, t \in Indexes(h, K), NEW W, NEW dl, NEW fl, Whole(t, W, dl, fl), t.rec # 0
  PROVE  /\ GetPlace(t) \in Indexes(h, K) /\ GetPlace(t).root = t.root
         /\ \A b \in W : GetPlace(t).blk[b] = t.blk[b]
         /\ \E dl2, fl2 : Whole(GetPlace(t), W, dl2, fl2)
<1> DEFINE r == t.blk[t.rec]
           s == Tail(r.places)
<1>1. Chain(t, "F", t.rec, fl) /\ Chain(t, "D", t.del, dl)
  BY DEF Whole
<1>2. t.rec \in Ran(fl) /\ Chain(t, "F", r.next, Tail(fl)) /\ Ran(Tail(fl)) = Ran(fl) \ {t.rec}
  BY <1>1, ChainTail
<1>3. t.rec \in DOMAIN t.blk /\ t.rec \in Nat /\ t.rec # 0 /\ t.rec \in 1 .. t.high
  BY <1>2, WholeParts
<1>4. r \in Node(K) /\ r.type = "F"
  <2>1. r.type = "F"
    BY <1>1, <1>2 DEF Chain, Ran
  <2> QED BY <1>3, <2>1, IndexTypes
<1>5. s \in Seq(Int) /\ r.next \in Nat
  <2>1. r.places \in Seq(Int) /\ r.places # <<>> /\ r.next \in Nat
    BY <1>4, NodeTypes
  <2> QED BY <2>1, TailIs
<1>6. CASE s # <<>>
  <2> DEFINE node == [r EXCEPT !.places = s]
             t2 == Put(t, t.rec, node)
  <2>1. t2 = GetPlace(t)
    BY <1>6 DEF GetPlace
  <2>2. node \in Node(K) /\ node.type = "F" /\ node.next = r.next
    <3> HIDE DEF r, s
    <3> QED BY <1>4, <1>5, <1>6, PlacesPut
  <2> HIDE DEF node
  <2>10. t2 \in Indexes(h, K) /\ SameHead(t, t2) /\ SameBut(t, t2, t.rec, node)
    BY <1>3, <2>2, PutIs
  <2> HIDE DEF t2
  <2>11. \A b \in W \cup Ran(dl) : t2.blk[b] = t.blk[b]
    BY <1>2, <2>10, WholeParts DEF SameBut, Whole
  <2>12. Chain(t2, "D", t2.del, dl)
    BY <1>1, <2>10, <2>11, ChainKept DEF SameHead
  <2>13. Chain(t2, "F", t2.rec, fl)
    <3>1. \A b \in Ran(fl) : t2.blk[b].type = t.blk[b].type /\ t2.blk[b].next = t.blk[b].next
      BY <1>4, <2>2, <2>10, WholeParts DEF SameBut
    <3>2. Chain(t2, "F", t.rec, fl)
      BY <1>1, <3>1, ChainSame
    <3> QED BY <2>10, <3>2 DEF SameHead
  <2>14. Whole(t2, W, dl, fl)
    <3>1. t2.fix = t.fix
      BY <2>10, WholeFix
    <3> QED BY <1>3, <2>10, <2>11, <2>12, <2>13, <3>1 DEF Whole, SameHead, SameBut
  <2> QED BY <2>1, <2>10, <2>11, <2>14 DEF SameHead
<1>7. CASE s = <<>>
  <2> DEFINE node == [type |-> "D", next |-> t.del]
             t1 == [t EXCEPT !.del = t.rec]
             t3 == Put(t1, t.rec, node)
             t2 == [t3 EXCEPT !.rec = r.next]
  <2>1. t2 = GetPlace(t)
    BY <1>7 DEF GetPlace, Free
  <2>2. node \in Node(K) /\ node.type = "D" /\ node.next = t.del
    BY IndexTypes, NodeIs
  <2>3. /\ t1 \in Indexes(h, K) /\ t1.root = t.root /\ t1.blk = t.blk /\ t1.del = t.rec /\ t1.rec = t.rec
        /\ t1.high = t.high /\ t1.fix = t.fix
    BY <1>3 DEF Indexes
  <2> HIDE DEF node, t1
  <2>4. t3 \in Indexes(h, K) /\ SameHead(t1, t3) /\ SameBut(t1, t3, t.rec, node)
    BY <1>3, <2>2, <2>3, PutIs
  <2> HIDE DEF t3
  <2>5. /\ t2 \in Indexes(h, K) /\ t2.root = t3.root /\ t2.rec = r.next /\ t2.blk = t3.blk /\ t2.del = t3.del
        /\ t2.high = t3.high
    BY <1>5, <2>4 DEF Indexes
  <2> HIDE DEF t2
  <2>6. /\ t2.root = t.root /\ t2.del = t.rec /\ t2.rec = r.next /\ t2.high = t.high /\ t2.fix = t.fix
        /\ DOMAIN t2.blk = DOMAIN t.blk /\ t2.blk[t.rec] = node
        /\ \A c \in DOMAIN t.blk : c # t.rec => t2.blk[c] = t.blk[c]
    <3>1. t2.fix = t.fix
      BY <2>5, WholeFix
    <3>2. t2.root = t.root /\ t2.del = t.rec /\ t2.rec = r.next /\ t2.high = t.high
      BY <2>3, <2>4, <2>5 DEF SameHead
    <3>3. t3.blk[t.rec] = node /\ DOMAIN t3.blk = DOMAIN t1.blk \cup {t.rec}
      BY <2>4 DEF SameBut
    <3>4. \A c \in DOMAIN t1.blk : c # t.rec => t3.blk[c] = t1.blk[c]
      BY <2>4 DEF SameBut
    <3>5. DOMAIN t2.blk = DOMAIN t.blk /\ t2.blk[t.rec] = node
      BY <1>3, <2>3, <2>5, <3>3
    <3>6. \A c \in DOMAIN t.blk : c # t.rec => t2.blk[c] = t.blk[c]
      BY <2>3, <2>5, <3>4
    <3> HIDE DEF r
    <3> QED BY <3>1, <3>2, <3>5, <3>6
  <2>7. t.rec \notin W /\ t.rec \notin Ran(dl) /\ t.rec \notin Ran(Tail(fl))
    BY <1>2 DEF Whole
  <2>8. \A c \in W \cup Ran(dl) \cup Ran(Tail(fl)) : t2.blk[c] = t.blk[c]
    BY <1>2, <2>6, <2>7, WholeParts
  <2>9. Chain(t2, "D", t2.del, <<t.rec>> \o dl) /\ Ran(<<t.rec>> \o dl) = Ran(dl) \cup {t.rec}
    <3>1. Chain(t2, "D", t.del, dl)
      BY <1>1, <2>8, ChainKept
    <3> QED BY <1>3, <2>2, <2>6, <2>7, <3>1, ChainHead
  <2>10. Chain(t2, "F", t2.rec, Tail(fl))
    BY <1>2, <2>6, <2>8, ChainKept
  <2>11. Whole(t2, W, <<t.rec>> \o dl, Tail(fl))
    <3>1. t2.fix
      <4>1. fl # <<>>
        BY <1>1 DEF Chain
      <4> QED BY <2>6, <4>1 DEF Whole
    <3>2. W \cup (Ran(dl) \cup {t.rec}) \cup Ran(Tail(fl)) = 1 .. t2.high
      BY <1>2, <2>6 DEF Whole
    <3>3. /\ W \cap (Ran(dl) \cup {t.rec}) = {} /\ W \cap Ran(Tail(fl)) = {}
          /\ (Ran(dl) \cup {t.rec}) \cap Ran(Tail(fl)) = {}
      BY <1>2, <2>7 DEF Whole
    <3>4. \A b \in W : t2.blk[b].type \in {"U", "V"}
      BY <2>8 DEF Whole
    <3>5. 1 .. t2.high \subseteq DOMAIN t2.blk
      BY <2>6 DEF Whole
    <3> QED BY <2>9, <2>10, <3>1, <3>2, <3>3, <3>4, <3>5 DEF Whole
  <2> QED BY <2>1, <2>5, <2>6, <2>8, <2>11
<1> QED BY <1>6, <1>7

\* Trim: the tree goes.
LEMMA WholeTrim ==
  ASSUME NEW K, NEW h, NEW t, t \in Indexes(h, K), NEW W, NEW dl, NEW fl, Whole(t, W, dl, fl),
         W = {t.root}
  PROVE  /\ Trim(t) \in Indexes(h, K) /\ Trim(t).root = 0
         /\ \E dl2, fl2 : Whole(Trim(t), {}, dl2, fl2)
<1>1. CASE t.fix
  <2> DEFINE t1 == Free(t, t.root)
  <2>1. Trim(t) = [t1 EXCEPT !.root = 0]
    BY <1>1 DEF Trim
  <2>2. t.root \in W /\ W \ {t.root} = {}
    OBVIOUS
  <2>3. t1 \in Indexes(h, K) /\ Whole(t1, W \ {t.root}, <<t.root>> \o dl, fl)
    BY <2>2, WholeFree
  <2> HIDE DEF t1
  <2>4. Whole(t1, {}, <<t.root>> \o dl, fl)
    BY <2>2, <2>3
  <2>5. 0 \in Nat
    OBVIOUS
  <2>6. /\ [t1 EXCEPT !.root = 0] \in Indexes(h, K) /\ Whole([t1 EXCEPT !.root = 0], {}, <<t.root>> \o dl, fl)
        /\ [t1 EXCEPT !.root = 0].root = 0
    BY <2>3, <2>4, <2>5, WholeRoot
  <2> QED BY <2>1, <2>6
<1>2. CASE ~ t.fix
  <2> DEFINE t2 == [t EXCEPT !.root = 0, !.del = 0, !.high = 0]
  <2>1. Trim(t) = t2
    BY <1>2 DEF Trim
  <2>2. /\ t2 \in Indexes(h, K) /\ t2.root = 0 /\ t2.del = 0 /\ t2.high = 0 /\ t2.rec = t.rec /\ t2.blk = t.blk
        /\ t2.fix = t.fix
    BY DEF Indexes
  <2> HIDE DEF t2
  <2>3. fl = <<>> /\ t.rec = 0
    BY <1>2 DEF Whole, Chain
  <2>4. Ran(<<>>) = {} /\ 1 .. 0 = {}
    <3>1. Len(<<>>) = 0
      OBVIOUS
    <3> QED BY <3>1 DEF Ran
  <2>5. Chain(t2, "D", 0, <<>>) /\ Chain(t2, "F", 0, <<>>)
    <3>1. <<>> \in Seq(Nat) /\ Len(<<>>) = 0
      OBVIOUS
    <3> QED BY <3>1 DEF Chain
  <2>6. Whole(t2, {}, <<>>, <<>>)
    BY <2>2, <2>3, <2>4, <2>5 DEF Whole
  <2> QED BY <2>1, <2>2, <2>6
<1> QED BY <1>1, <1>2

-----------------------------------------------------------------------------
(***************************************************************************)
(* Two brothers share their keys anew.                                     *)
(***************************************************************************)
\* A shape that may have empty blocks in E may have them in a larger set.
LEMMA ShapeMore ==
  ASSUME NEW K, NEW low, NEW high, NEW W, NEW root, NEW ks, NEW ds, NEW lev,
         NEW lo, NEW hi, NEW x, NEW kid, NEW E, Shape(K, low, high, W, root, ks, ds, lev, lo, hi, x, kid, E),
         NEW E2, \A d \in W : d \in E => d \in E2
  PROVE  Shape(K, low, high, W, root, ks, ds, lev, lo, hi, x, kid, E2)
BY DEF Shape

\* Two functions that agree everywhere are one.
LEMMA SameKeys ==
  ASSUME NEW W, NEW S, NEW f, NEW g, f \in [W -> S], DOMAIN g = W, g = [d \in W |-> g[d]],
         \A d \in W : g[d] = f[d]
  PROVE  g = f
OBVIOUS

IsSwap(s, i, e) == InsertAt(RemoveAt(s, i), i, e) = [s EXCEPT ![i] = e]

\* A key is taken out and another put in its place.
LEMMA OutAndIn ==
  ASSUME NEW S, NEW s, NEW i, NEW e, s \in Seq(S), i \in 1 .. Len(s), e \in S
  PROVE  IsSwap(s, i, e)
<1> DEFINE u == RemoveAt(s, i)
<1>1. Len(s) \in Nat /\ i \in Nat /\ s \in [1 .. Len(s) -> S]
  BY LenProperties
<1>2. /\ u \in Seq(S) /\ Len(u) = Len(s) - 1
      /\ \A j \in 1 .. Len(s) - 1 : u[j] = IF j < i THEN s[j] ELSE s[j + 1]
  <2>1. /\ RemoveAt(s, i) \in Seq(S) /\ Len(RemoveAt(s, i)) = Len(s) - 1
        /\ \A j \in 1 .. Len(s) - 1 : RemoveAt(s, i)[j] = IF j < i THEN s[j] ELSE s[j + 1]
    BY RemoveAtIs
  <2> QED BY <2>1
<1> HIDE DEF u
<1> DEFINE v == InsertAt(u, i, e)
           w == [s EXCEPT ![i] = e]
<1>3. /\ v \in Seq(S) /\ Len(v) = Len(s)
      /\ \A j \in 1 .. Len(s) : v[j] = IF j < i THEN u[j] ELSE IF j = i THEN e ELSE u[j - 1]
  <2>1. i \in 1 .. Len(u) + 1 /\ Len(u) + 1 = Len(s)
    BY <1>1, <1>2
  <2>2. /\ InsertAt(u, i, e) \in Seq(S) /\ Len(InsertAt(u, i, e)) = Len(u) + 1
        /\ \A j \in 1 .. Len(u) + 1 : InsertAt(u, i, e)[j] =
               IF j < i THEN u[j] ELSE IF j = i THEN e ELSE u[j - 1]
    BY <1>2, <2>1, InsertIs
  <2> QED BY <2>1, <2>2
<1> HIDE DEF v
<1>4. v \in [1 .. Len(s) -> S]
  BY <1>3, LenProperties
<1>5. w \in [1 .. Len(s) -> S]
  BY <1>1
<1>6. \A j \in 1 .. Len(s) : v[j] = w[j]
  <2> TAKE j \in 1 .. Len(s)
  <2>1. CASE j < i
    <3>1. j \in 1 .. Len(s) - 1
      BY <1>1, <2>1
    <3> QED BY <1>1, <1>2, <1>3, <2>1, <3>1
  <2>2. CASE j = i
    BY <1>1, <1>3, <2>2
  <2>3. CASE j > i
    <3>1. j - 1 \in 1 .. Len(s) - 1 /\ j - 1 + 1 = j /\ ~ (j - 1 < i) /\ ~ (j < i) /\ j # i
      BY <1>1, <2>3
    <3>2. v[j] = u[j - 1] /\ u[j - 1] = s[j]
      BY <1>2, <1>3, <3>1
    <3>3. w[j] = s[j]
      BY <1>1, <3>1
    <3> QED BY <3>2, <3>3
  <2> QED BY <1>1, <2>1, <2>2, <2>3
<1> HIDE DEF w
<1>7. v = w
  BY <1>4, <1>5, <1>6
<1> QED BY <1>7 DEF v, w, u, IsSwap

\* To write what is there changes nothing.
LEMMA SameAgain ==
  ASSUME NEW S, NEW s, NEW i, s \in Seq(S), i \in 1 .. Len(s)
  PROVE  [s EXCEPT ![i] = s[i]] = s
<1>1. s \in [1 .. Len(s) -> S]
  BY LenProperties
<1> QED BY <1>1

IsRotation(ks, ds, p, i, l, r, J, DJ, m, W, ks2, ds2) ==
  /\ ks2 = [d \in W |-> IF d = l THEN SubSeq(J, 1, m - 1)
                        ELSE IF d = r THEN SubSeq(J, m + 1, Len(J))
                        ELSE IF d = p THEN [ks[p] EXCEPT ![i] = J[m]] ELSE ks[d]]
  /\ ds2 = [d \in W |-> IF d = l THEN LeftKids(DJ, m)
                        ELSE IF d = r THEN RightKids(DJ, m) ELSE ds[d]]

\* Two brothers and the key between them are divided anew.
\* The keys of two brothers with the one between them.
Between(ks, p, i, l, r) == ks[l] \o <<ks[p][i]>> \o ks[r]

\* Two brothers share their keys anew, the one between them goes up in place of
\* the one that came down.
THEOREM Rotate ==
  ASSUME NEW K, Ordered(K), NEW low, NEW high, NEW W, NEW root, NEW ks, NEW ds, NEW lev,
         NEW lo, NEW hi, NEW E, Shape(K, low, high, W, root, ks, ds, lev, lo, hi, 0, 0, E),
         NEW p, p \in W, ds[p] # <<>>, NEW i, i \in 1 .. Len(ks[p]), NEW l, NEW r,
         Brothers(ds, p, i, l, r),
         NEW J, J = Between(ks, p, i, l, r), NEW DJ, DJ = ds[l] \o ds[r],
         NEW m, m \in 1 .. Len(J), NEW ks2, NEW ds2,
         IsRotation(ks, ds, p, i, l, r, J, DJ, m, W, ks2, ds2),
         NEW E2, StillEmpty(W, l, r, E, E2),
         m = 1 => l \in E2, m = Len(J) => r \in E2
  PROVE  Reshaped(K, low, high, W, root, ks2, ds2, E2, W, lev)
<1> USE DEF IsRotation, Between
<1> DEFINE W1 == W \ {r}
           ks1 == [d \in W1 |-> IF d = l THEN ks[l] \o <<ks[p][i]>> \o ks[r]
                             ELSE IF d = p THEN RemoveAt(ks[p], i) ELSE ks[d]]
           ds1 == [d \in W1 |-> IF d = l THEN ds[l] \o ds[r]
                             ELSE IF d = p THEN RemoveAt(ds[p], i + 1) ELSE ds[d]]
           E1 == E2 \cup {p}
<1>0. StillEmpty(W, l, r, E, E1)
  BY DEF StillEmpty
<1>1. /\ l \in W1 /\ p \in W1 /\ r \in W /\ l # p /\ lev[l] = lev[r]
      /\ Reshaped(K, low, high, W1, root, ks1, ds1, E1, W1, lev)
  <2>1. p \in E1 /\ W1 = W \ {r}
    OBVIOUS
  <2>2. IsJoin(ks, ds, p, i, l, r, W1, ks1, ds1)
    BY DEF IsJoin
  <2> HIDE DEF E1, W1, ks1, ds1
  <2> QED BY ONLY <1>0, <2>1, <2>2, Join, Ordered(K), Shape(K, low, high, W, root, ks, ds, lev, lo, hi, 0, 0, E),
       p \in W, ds[p] # <<>>, i \in 1 .. Len(ks[p]), Brothers(ds, p, i, l, r), SMTT(60)
<1>2. PICK lev1 \in [W1 -> Nat], lo1 \in [W1 -> K], hi1 \in [W1 -> K] :
           /\ Shape(K, low, high, W1, root, ks1, ds1, lev1, lo1, hi1, 0, 0, E1)
           /\ \A d \in W1 : lev1[d] = lev[d]
  BY <1>1 DEF Reshaped
<1>3. /\ l \in W /\ r \in W /\ l # r /\ p # l /\ p # r /\ l \in W1 /\ p \in W1 /\ r \notin W1 /\ W = W1 \cup {r}
      /\ r \in Nat \ {0}
  <2>1. r \in Nat /\ r # 0
    BY <1>1, BlockFacts
  <2> QED BY <1>1, <2>1
<1>4. ks1[l] = J /\ ds1[l] = DJ /\ ks1[p] = RemoveAt(ks[p], i) /\ ds1[p] = RemoveAt(ds[p], i + 1)
  BY <1>3
<1>5. \A d \in W1 : d # l /\ d # p => ks1[d] = ks[d] /\ ds1[d] = ds[d]
  OBVIOUS
<1> HIDE DEF W1, ks1, ds1, E1
<1> DEFINE ks3 == [d \in W |-> IF d = l THEN SubSeq(ks1[l], 1, m - 1)
                             ELSE IF d = r THEN SubSeq(ks1[l], m + 1, Len(ks1[l])) ELSE ks1[d]]
           ds3 == [d \in W |-> IF d = l THEN LeftKids(ds1[l], m)
                             ELSE IF d = r THEN RightKids(ds1[l], m) ELSE ds1[d]]
<1>6. Opened(K, low, high, W, root, ks3, ds3, E1, W1, lev1, l, r, ks1[l][m])
  <2>1. m \in 1 .. Len(ks1[l])
    BY <1>4
  <2>2. StillEmpty(W1, l, l, E1, E1)
    BY DEF StillEmpty
  <2>3. (m = 1 => l \in E1) /\ (m = Len(ks1[l]) => r \in E1)
    BY <1>4 DEF E1
  <2>4. IsSplit(ks1, ds1, l, m, r, W, ks3, ds3)
    BY DEF IsSplit
  <2> HIDE DEF ks3, ds3
  <2> QED BY ONLY Ordered(K), <1>2, <1>3, <2>1, <2>2, <2>3, <2>4, Split
<1>7. PICK lev3 \in [W -> Nat], lo3 \in [W -> K], hi3 \in [W -> K] :
           /\ Shape(K, low, high, W, root, ks3, ds3, lev3, lo3, hi3, l, r, E1)
           /\ hi3[l] = ks1[l][m] /\ \A d \in W1 : lev3[d] = lev1[d]
  BY <1>6 DEF Opened
<1>8. ks3[p] = RemoveAt(ks[p], i) /\ ds3[p] = RemoveAt(ds[p], i + 1)
  BY <1>3, <1>4
<1>9. /\ ks3[l] = SubSeq(J, 1, m - 1) /\ ks3[r] = SubSeq(J, m + 1, Len(J))
      /\ ds3[l] = LeftKids(DJ, m) /\ ds3[r] = RightKids(DJ, m)
  BY <1>3, <1>4
<1>10. \A d \in W : d # l /\ d # r /\ d # p => ks3[d] = ks[d] /\ ds3[d] = ds[d]
  BY <1>3, <1>5
<1> HIDE DEF ks3, ds3
<1>11. /\ ks[p] \in Seq(K) /\ Len(ks[p]) \in Nat /\ ds[p] \in Seq(W) /\ Len(ds[p]) = Len(ks[p]) + 1
  BY BlockFacts
<1>12. J[m] \in K /\ hi3[l] = J[m]
  <2>1. hi3[l] \in K
    BY <1>3
  <2> QED BY <1>4, <1>7, <2>1
<1>13. /\ Len(ks3[p]) = Len(ks[p]) - 1 /\ Len(ds3[p]) = Len(ks[p]) /\ ds3[p] # <<>> /\ ds3[p][i] = l
  <2>1. Len(RemoveAt(ks[p], i)) = Len(ks[p]) - 1
    <3> DEFINE s == ks[p]
    <3>1. s \in Seq(K) /\ i \in 1 .. Len(s)
      BY <1>11
    <3> HIDE DEF s
    <3>2. Len(RemoveAt(s, i)) = Len(s) - 1
      BY <3>1, RemoveAtIs
    <3> QED BY <3>2 DEF s
  <2>2. /\ Len(RemoveAt(ds[p], i + 1)) = Len(ks[p]) /\ RemoveAt(ds[p], i + 1)[i] = ds[p][i]
    <3> DEFINE s == ds[p]
               n == i + 1
    <3>1. s \in Seq(W) /\ n \in 1 .. Len(s) /\ i \in 1 .. Len(s) - 1 /\ i < n
      BY <1>11
    <3> HIDE DEF s, n
    <3>2. /\ Len(RemoveAt(s, n)) = Len(s) - 1
          /\ \A j \in 1 .. Len(s) - 1 : RemoveAt(s, n)[j] = IF j < n THEN s[j] ELSE s[j + 1]
      BY <3>1, RemoveAtIs
    <3>3. RemoveAt(s, n)[i] = s[i]
      BY <3>1, <3>2
    <3> QED BY <1>11, <3>2, <3>3 DEF s, n
  <2>3. ds3[p] # <<>>
    <3>1. Len(ds3[p]) # 0
      BY <1>8, <1>11, <2>2
    <3> QED BY <3>1
  <2> QED BY <1>8, <2>1, <2>2, <2>3 DEF Brothers
<1>14. InsertAt(ks3[p], i, hi3[l]) = [ks[p] EXCEPT ![i] = J[m]]
  <2>1. InsertAt(RemoveAt(ks[p], i), i, J[m]) = [ks[p] EXCEPT ![i] = J[m]]
    <3> DEFINE s == ks[p]
               e == J[m]
    <3>1. s \in Seq(K) /\ i \in 1 .. Len(s) /\ e \in K
      BY <1>11, <1>12
    <3> HIDE DEF s, e
    <3>2. IsSwap(s, i, e)
      BY <3>1, OutAndIn
    <3> QED BY <3>2 DEF s, e, IsSwap
  <2> QED BY <1>8, <1>12, <2>1
<1>15. InsertAt(ds3[p], i + 1, r) = ds[p]
  <2> DEFINE n == i + 1
             s == ds[p]
  <2>1. s \in Seq(W) /\ n \in 1 .. Len(s) /\ s[n] = r
    BY <1>11, SMTT(60) DEF Brothers
  <2> HIDE DEF n, s
  <2>2. IsSwap(s, n, r)
    BY <1>3, <2>1, OutAndIn
  <2>3. [s EXCEPT ![n] = s[n]] = s
    BY <2>1, SameAgain
  <2> QED BY <1>8, <2>1, <2>2, <2>3 DEF n, s, IsSwap
<1> DEFINE ks4 == [ks3 EXCEPT ![p] = InsertAt(ks3[p], i, hi3[l])]
           ds4 == [ds3 EXCEPT ![p] = InsertAt(ds3[p], i + 1, r)]
<1>16. Shape(K, low, high, W, root, ks4, ds4, lev3, lo3, hi3, 0, 0, E1 \ {p})
  <2>1. i \in 1 .. Len(ks3[p]) + 1
    BY <1>11, <1>13
  <2>2. IsAbsorb(ks3, ds3, p, i, hi3[l], r, ks4, ds4)
    BY DEF IsAbsorb, With
  <2> DEFINE E3 == E1 \ {p}
  <2>3. E3 = E1 \ {p}
    OBVIOUS
  <2> HIDE DEF ks4, ds4, E3
  <2>4. Shape(K, low, high, W, root, ks4, ds4, lev3, lo3, hi3, 0, 0, E3)
    BY <1>3, <1>7, <1>13, <2>1, <2>2, <2>3, Absorb
  <2> QED BY <2>4 DEF E3
<1>17. ks3 \in [W -> Seq(K)] /\ ds3 \in [W -> Seq(W)]
  BY <1>7 DEF Shape, ShapeTypes
<1>18. ks4 = ks2 /\ ds4 = ds2
  <2>1. \A d \in W : ks4[d] = ks2[d]
    BY <1>3, <1>9, <1>10, <1>14, <1>17
  <2>2. \A d \in W : ds4[d] = ds2[d]
    BY <1>3, <1>9, <1>10, <1>15, <1>17
  <2>3. DOMAIN ks4 = W /\ DOMAIN ds4 = W /\ ks4 = [d \in W |-> ks4[d]] /\ ds4 = [d \in W |-> ds4[d]]
    BY <1>17
  <2>4. DOMAIN ks2 = W /\ DOMAIN ds2 = W /\ ks2 = [d \in W |-> ks2[d]] /\ ds2 = [d \in W |-> ds2[d]]
    OBVIOUS
  <2> HIDE DEF ks4, ds4
  <2>5. [d \in W |-> ks4[d]] = [d \in W |-> ks2[d]]
    BY ONLY <2>1
  <2>6. [d \in W |-> ds4[d]] = [d \in W |-> ds2[d]]
    BY ONLY <2>2
  <2> QED BY ONLY <2>3, <2>4, <2>5, <2>6
<1>19. Shape(K, low, high, W, root, ks2, ds2, lev3, lo3, hi3, 0, 0, E2)
  <2>1. \A d \in W : d \in E1 \ {p} => d \in E2
    BY DEF E1
  <2>2. Shape(K, low, high, W, root, ks2, ds2, lev3, lo3, hi3, 0, 0, E1 \ {p})
    BY <1>16, <1>18
  <2> HIDE DEF E1
  <2> QED BY <2>1, <2>2, ShapeMore
<1>20. \A d \in W : lev3[d] = lev[d]
  <2>1. \A d \in W1 : lev3[d] = lev[d]
    BY <1>2, <1>7
  <2>2. lev3[r] = lev3[l]
    <3>1. Hole(W, root, lev3, lo3, hi3, l, r)
      BY <1>7 DEF Shape
    <3>2. l # 0
      BY <1>3, BlockFacts
    <3> QED BY <3>1, <3>2 DEF Hole
  <2>3. lev3[r] = lev[r]
    BY <1>1, <1>3, <2>1, <2>2
  <2> QED BY <1>3, <2>1, <2>3
<1> QED BY <1>19, <1>20 DEF Reshaped

-----------------------------------------------------------------------------
(***************************************************************************)
(* The way from the root to a block, as the program keeps it in its path.  *)
(***************************************************************************)
\* The spot s of a block above the leaves is that in front of which c is.
LeadsTo(W, ks, ds, s, c) ==
  /\ s.blk \in W /\ ds[s.blk] # <<>> /\ s.off \in 1 .. Len(ks[s.blk]) + 1
  /\ ds[s.blk][s.off] = c

AfterSpot(path, i, b) == IF i = Len(path) THEN b ELSE path[i + 1].blk
StartOf(path, b) == IF Len(path) = 0 THEN b ELSE path[1].blk

\* A path from the block a down to b.
Leg(W, ks, ds, lev, a, path, b) ==
  /\ path \in Seq([blk : Nat, off : Nat]) /\ b \in W /\ a = StartOf(path, b)
  /\ \A i \in 1 .. Len(path) : LeadsTo(W, ks, ds, path[i], AfterSpot(path, i, b))
  /\ \A i \in 1 .. Len(path) : lev[path[i].blk] = lev[b] + (Len(path) + 1 - i)

\* A way of no steps ends where it begins.
LEMMA LegNone ==
  ASSUME NEW W, NEW ks, NEW ds, NEW lev, NEW a, a \in W
  PROVE  Leg(W, ks, ds, lev, a, <<>>, a)
BY DEF Leg, StartOf

\* A way of no steps leads nowhere else.
LEMMA LegEmpty ==
  ASSUME NEW W, NEW ks, NEW ds, NEW lev, NEW a, NEW path, NEW b, Leg(W, ks, ds, lev, a, path, b), path = <<>>
  PROVE  a = b
BY DEF Leg, StartOf

\* The path to the block above.
LEMMA LegUp ==
  ASSUME NEW W, NEW ks, NEW ds, NEW lev, lev \in [W -> Nat], NEW a, NEW path, NEW b,
         Leg(W, ks, ds, lev, a, path, b), path # <<>>
  PROVE  /\ Last(path) \in [blk : Nat, off : Nat]
         /\ LeadsTo(W, ks, ds, Last(path), b) /\ lev[Last(path).blk] = lev[b] + 1
         /\ Leg(W, ks, ds, lev, a, Front(path), Last(path).blk)
         /\ Len(Front(path)) = Len(path) - 1 /\ Len(path) \in Nat /\ Len(path) >= 1
<1> DEFINE S == [blk : Nat, off : Nat]
           f == Front(path)
           s == Last(path)
           n == Len(path)
<1>1. path \in Seq(S) /\ b \in W /\ lev[b] \in Nat
  BY DEF Leg
<1>2. /\ f \in Seq(S) /\ Len(f) = n - 1 /\ n \in Nat /\ n >= 1 /\ (\A i \in 1 .. n - 1 : f[i] = path[i])
      /\ s = path[n] /\ s \in S
  <2>1. path \in Seq(S) /\ path # <<>>
    BY <1>1
  <2> HIDE DEF S
  <2> QED BY <2>1, FrontIs
<1>3. n \in 1 .. n /\ AfterSpot(path, n, b) = b
  BY <1>2 DEF AfterSpot
<1>4. LeadsTo(W, ks, ds, s, b)
  BY <1>2, <1>3 DEF Leg
<1>5. lev[s.blk] = lev[b] + 1
  <2>1. lev[path[n].blk] = lev[b] + (n + 1 - n)
    BY <1>3 DEF Leg
  <2>2. n + 1 - n = 1
    BY <1>2
  <2> QED BY <1>2, <2>1, <2>2
<1>6. s.blk \in W
  BY <1>4 DEF LeadsTo
<1> HIDE DEF f, s, n, S
<1>7. \A i \in 1 .. n - 1 : i \in 1 .. n /\ AfterSpot(f, i, s.blk) = AfterSpot(path, i, b)
  <2> TAKE i \in 1 .. n - 1
  <2>1. i # n /\ i \in 1 .. n /\ i + 1 \in 1 .. n
    BY <1>2
  <2>2. AfterSpot(path, i, b) = path[i + 1].blk
    BY <2>1 DEF AfterSpot, n
  <2>3. CASE i = n - 1
    <3>1. i + 1 = n /\ AfterSpot(f, i, s.blk) = s.blk
      BY <1>2, <2>3 DEF AfterSpot
    <3> QED BY <1>2, <2>1, <2>2, <3>1
  <2>4. CASE i # n - 1
    <3>1. i + 1 \in 1 .. n - 1
      BY <1>2, <2>4
    <3>2. AfterSpot(f, i, s.blk) = f[i + 1].blk
      BY <1>2, <2>4 DEF AfterSpot
    <3> QED BY <1>2, <2>1, <2>2, <3>1, <3>2
  <2> QED BY <2>3, <2>4
<1>8. \A i \in 1 .. n - 1 : LeadsTo(W, ks, ds, f[i], AfterSpot(f, i, s.blk))
  <2>1. \A i \in 1 .. n : LeadsTo(W, ks, ds, path[i], AfterSpot(path, i, b))
    BY DEF Leg, n
  <2> QED BY <1>2, <1>7, <2>1
<1>9. \A i \in 1 .. n - 1 : lev[f[i].blk] = lev[s.blk] + (n - 1 + 1 - i)
  <2>1. \A i \in 1 .. n : lev[path[i].blk] = lev[b] + (n + 1 - i)
    BY DEF Leg, n
  <2> TAKE i \in 1 .. n - 1
  <2>2. f[i] = path[i] /\ i \in 1 .. n
    BY <1>2, <1>7
  <2>3. lev[f[i].blk] = lev[b] + (n + 1 - i)
    BY <2>1, <2>2
  <2> QED BY <1>1, <1>2, <1>5, <2>3
<1>10. a = StartOf(f, s.blk)
  <2>1. a = path[1].blk
    BY <1>2 DEF Leg, StartOf, n
  <2>2. CASE n = 1
    BY <1>2, <2>1, <2>2 DEF StartOf
  <2>3. CASE n # 1
    <3>1. 1 \in 1 .. n - 1 /\ Len(f) # 0
      BY <1>2, <2>3
    <3> QED BY <1>2, <2>1, <3>1 DEF StartOf
  <2> QED BY <2>2, <2>3
<1>11. Leg(W, ks, ds, lev, a, f, s.blk)
  BY <1>2, <1>6, <1>8, <1>9, <1>10 DEF Leg, S
<1> QED BY <1>2, <1>4, <1>5, <1>11 DEF f, s, n, S

\* Blocks that lie deeper do not matter to a path.
\* The blocks above b are the same in both trees.
KeptAbove(W, ks, ds, lev, b, W2, ks2, ds2, lev2) ==
  \A c \in W : lev[c] > lev[b] =>
    c \in W2 /\ ks2[c] = ks[c] /\ ds2[c] = ds[c] /\ lev2[c] = lev[c]

\* A way stays one when the blocks above its end do not change.
LEMMA LegKept ==
  ASSUME NEW W, NEW ks, NEW ds, NEW lev, lev \in [W -> Nat], NEW a, NEW path, NEW b,
         Leg(W, ks, ds, lev, a, path, b),
         NEW W2, NEW ks2, NEW ds2, NEW lev2, b \in W2, lev2[b] = lev[b],
         KeptAbove(W, ks, ds, lev, b, W2, ks2, ds2, lev2)
  PROVE  Leg(W2, ks2, ds2, lev2, a, path, b)
<1>1. path \in Seq([blk : Nat, off : Nat]) /\ b \in W /\ a = StartOf(path, b) /\ Len(path) \in Nat /\ lev[b] \in Nat
  BY LenProperties DEF Leg
<1>2. ASSUME NEW i \in 1 .. Len(path)
      PROVE  /\ LeadsTo(W2, ks2, ds2, path[i], AfterSpot(path, i, b))
             /\ lev2[path[i].blk] = lev2[b] + (Len(path) + 1 - i)
  <2>1. LeadsTo(W, ks, ds, path[i], AfterSpot(path, i, b)) /\ lev[path[i].blk] = lev[b] + (Len(path) + 1 - i)
    BY DEF Leg
  <2>2. path[i].blk \in W
    BY <2>1 DEF LeadsTo
  <2> DEFINE c == path[i].blk
             n == Len(path)
  <2>3. lev[c] > lev[b]
    <3>1. n \in Nat /\ i \in 1 .. n /\ lev[c] = lev[b] + (n + 1 - i) /\ lev[b] \in Nat
      BY <1>1, <2>1
    <3> HIDE DEF c, n
    <3> QED BY <3>1
  <2>4. c \in W2 /\ ks2[c] = ks[c] /\ ds2[c] = ds[c] /\ lev2[c] = lev[c]
    BY <2>2, <2>3 DEF KeptAbove
  <2> QED BY <2>1, <2>4 DEF LeadsTo
<1> QED BY <1>1, <1>2 DEF Leg

\* Two ways, one after the other, are a way.
LEMMA LegJoin ==
  ASSUME NEW W, NEW ks, NEW ds, NEW lev, lev \in [W -> Nat], NEW a, NEW b, NEW c, NEW p, NEW q,
         Leg(W, ks, ds, lev, a, p, b), Leg(W, ks, ds, lev, b, q, c)
  PROVE  Leg(W, ks, ds, lev, a, p \o q, c)
<1> DEFINE S == [blk : Nat, off : Nat]
           m == Len(p)
           n == Len(q)
           o == p \o q
<1>1. /\ p \in Seq(S) /\ q \in Seq(S) /\ m \in Nat /\ n \in Nat /\ b \in W /\ c \in W
      /\ lev[b] \in Nat /\ lev[c] \in Nat
  BY LenProperties DEF Leg
<1>2. /\ o \in Seq(S) /\ Len(o) = m + n /\ \A i \in 1 .. m : o[i] = p[i]
      /\ \A i \in 1 .. n : o[m + i] = q[i]
  <2>1. p \in Seq(S) /\ q \in Seq(S)
    BY <1>1
  <2> HIDE DEF S
  <2> QED BY ONLY <2>1, CatIs DEF m, n, o
<1>3. /\ \A i \in 1 .. m : LeadsTo(W, ks, ds, p[i], AfterSpot(p, i, b)) /\ lev[p[i].blk] = lev[b] + (m + 1 - i)
      /\ \A i \in 1 .. n : LeadsTo(W, ks, ds, q[i], AfterSpot(q, i, c)) /\ lev[q[i].blk] = lev[c] + (n + 1 - i)
      /\ a = StartOf(p, b) /\ b = StartOf(q, c)
  BY DEF Leg
<1> HIDE DEF S, o
<1>4. \A i \in 1 .. m : AfterSpot(p, i, b) = IF i = m THEN b ELSE p[i + 1].blk
  BY DEF AfterSpot
<1>5. \A i \in 1 .. n : AfterSpot(q, i, c) = IF i = n THEN c ELSE q[i + 1].blk
  BY DEF AfterSpot
<1>6. b = IF n = 0 THEN c ELSE q[1].blk
  BY <1>3 DEF StartOf
<1>7. a = IF m = 0 THEN b ELSE p[1].blk
  BY <1>3 DEF StartOf
<1>8. \A i \in 1 .. m + n : AfterSpot(o, i, c) = IF i = m + n THEN c ELSE o[i + 1].blk
  BY <1>2 DEF AfterSpot
<1>9. StartOf(o, c) = IF m + n = 0 THEN c ELSE o[1].blk
  BY <1>2 DEF StartOf
<1> HIDE DEF m, n
<1>10. lev[b] = lev[c] + n
  <2>1. CASE n = 0
    BY <1>1, <1>6, <2>1
  <2>2. CASE n # 0
    <3>1. 1 \in 1 .. n
      BY <1>1, <2>2
    <3>2. lev[q[1].blk] = lev[c] + (n + 1 - 1)
      BY <1>3, <3>1
    <3> QED BY <1>1, <1>6, <2>2, <3>2
  <2> QED BY <2>1, <2>2
<1>11. a = StartOf(o, c)
  <2>1. CASE m = 0
    <3>1. m + n = n /\ m + 1 = 1
      BY <1>1, <2>1
    <3>2. n # 0 => o[1] = q[1]
      <4>1. n # 0 => 1 \in 1 .. n /\ m + 1 = 1
        BY <1>1, <3>1
      <4> QED BY <1>2, <4>1
    <3> QED BY <1>6, <1>7, <1>9, <2>1, <3>1, <3>2
  <2>2. CASE m # 0
    <3>1. 1 \in 1 .. m /\ m + n # 0
      BY <1>1, <2>2
    <3> QED BY <1>2, <1>7, <1>9, <2>2, <3>1
  <2> QED BY <2>1, <2>2
<1>12. ASSUME NEW i \in 1 .. m + n
       PROVE  LeadsTo(W, ks, ds, o[i], AfterSpot(o, i, c)) /\ lev[o[i].blk] = lev[c] + (m + n + 1 - i)
  <2>1. CASE i \in 1 .. m
    <3>1. o[i] = p[i] /\ LeadsTo(W, ks, ds, p[i], AfterSpot(p, i, b)) /\ lev[p[i].blk] = lev[b] + (m + 1 - i)
      BY <1>2, <1>3, <2>1
    <3>2. AfterSpot(o, i, c) = AfterSpot(p, i, b)
      <4>1. CASE i # m
        <5>1. i + 1 \in 1 .. m /\ i # m + n
          BY <1>1, <2>1, <4>1
        <5>2. o[i + 1] = p[i + 1]
          BY <1>2, <5>1
        <5> QED BY <1>4, <1>8, <2>1, <4>1, <5>1, <5>2
      <4>2. CASE i = m /\ n = 0
        <5>1. i = m + n
          BY <1>1, <4>2
        <5> QED BY <1>4, <1>6, <1>8, <2>1, <4>2, <5>1
      <4>3. CASE i = m /\ n # 0
        <5>1. i # m + n /\ 1 \in 1 .. n
          BY <1>1, <4>3
        <5>2. o[m + 1] = q[1]
          BY <1>2, <5>1
        <5> QED BY <1>4, <1>6, <1>8, <2>1, <4>3, <5>1, <5>2
      <4> QED BY <4>1, <4>2, <4>3
    <3>3. lev[b] + (m + 1 - i) = lev[c] + (m + n + 1 - i)
      BY <1>1, <1>10
    <3> QED BY <3>1, <3>2, <3>3
  <2>2. CASE i \notin 1 .. m
    <3> DEFINE j == i - m
    <3>1. j \in 1 .. n /\ m + j = i
      BY <1>1, <2>2
    <3>4. (j = n <=> i = m + n) /\ (j # n => j + 1 \in 1 .. n /\ m + (j + 1) = i + 1) /\ n + 1 - j = m + n + 1 - i
      BY <1>1, <3>1
    <3> HIDE DEF j
    <3>2. o[i] = q[j] /\ LeadsTo(W, ks, ds, q[j], AfterSpot(q, j, c)) /\ lev[q[j].blk] = lev[c] + (n + 1 - j)
      BY <1>2, <1>3, <3>1
    <3>3. AfterSpot(o, i, c) = AfterSpot(q, j, c)
      <4>1. j # n => o[i + 1] = q[j + 1]
        BY <1>2, <3>4
      <4> QED BY <1>5, <1>8, <3>1, <3>4, <4>1
    <3> QED BY <3>2, <3>3, <3>4
  <2> QED BY <2>1, <2>2
<1>13. Leg(W, ks, ds, lev, a, o, c)
  BY <1>1, <1>2, <1>11, <1>12 DEF Leg, S
<1> QED BY <1>13 DEF o

\* One step is a way.
LEMMA LegOne ==
  ASSUME NEW W, NEW ks, NEW ds, NEW lev, lev \in [W -> Nat], NEW s, NEW c, c \in W,
         s \in [blk : Nat, off : Nat], LeadsTo(W, ks, ds, s, c), lev[s.blk] = lev[c] + 1
  PROVE  Leg(W, ks, ds, lev, s.blk, <<s>>, c)
<1> DEFINE o == <<s>>
<1>1. o \in Seq([blk : Nat, off : Nat]) /\ Len(o) = 1 /\ o[1] = s
  OBVIOUS
<1> HIDE DEF o
<1>2. \A i \in 1 .. 1 : i = 1
  OBVIOUS
<1>3. StartOf(o, c) = s.blk /\ AfterSpot(o, 1, c) = c /\ lev[c] + (1 + 1 - 1) = lev[c] + 1
  BY <1>1 DEF StartOf, AfterSpot
<1>4. Leg(W, ks, ds, lev, s.blk, o, c)
  BY <1>1, <1>2, <1>3 DEF Leg
<1> QED BY <1>4 DEF o

\* A sequence of blocks, each a child of the one before it.
LEMMA LegOf ==
  ASSUME NEW W, W \subseteq Nat, NEW ks, NEW ds, NEW lev, lev \in [W -> Nat], NEW w, w \in Seq(W), w # <<>>,
         NEW path, path = [i \in 1 .. Len(w) - 1 |-> path[i]],
         \A i \in 1 .. Len(w) - 1 : /\ path[i] \in [blk : Nat, off : Nat] /\ path[i].blk = w[i]
                                    /\ LeadsTo(W, ks, ds, path[i], w[i + 1])
                                    /\ lev[w[i + 1]] + 1 = lev[w[i]]
  PROVE  Leg(W, ks, ds, lev, w[1], path, w[Len(w)]) /\ Len(path) = Len(w) - 1
<1> DEFINE n == Len(w)
           S == [blk : Nat, off : Nat]
<1>1. n \in Nat /\ n >= 1 /\ \A i \in 1 .. n : w[i] \in W /\ lev[w[i]] \in Nat
  BY EmptySeq, LenProperties, ElementOfSeq
<1>2. path \in Seq(S) /\ Len(path) = n - 1
  <2>1. path \in [1 .. n - 1 -> S]
    OBVIOUS
  <2>2. n - 1 \in Nat
    BY <1>1
  <2> HIDE DEF S, n
  <2> QED BY <2>1, <2>2, IsSeq
<1>3. \A i \in 1 .. n - 1 : path[i].blk = w[i] /\ LeadsTo(W, ks, ds, path[i], w[i + 1]) /\ lev[w[i + 1]] + 1 = lev[w[i]]
  OBVIOUS
<1>4. n = Len(w)
  OBVIOUS
<1> HIDE DEF n, S
<1> DEFINE T == {j \in Nat : j <= n - 1 => lev[w[n - j]] = lev[w[n]] + j}
<1>5. 0 \in T
  BY <1>1
<1>6. ASSUME NEW j \in T PROVE j + 1 \in T
  <2> SUFFICES ASSUME j + 1 <= n - 1 PROVE lev[w[n - (j + 1)]] = lev[w[n]] + (j + 1)
    OBVIOUS
  <2> DEFINE i == n - (j + 1)
  <2>0. j \in Nat /\ n \in Nat /\ n >= 1
    BY <1>1
  <2> HIDE DEF T
  <2>1. i \in 1 .. n - 1 /\ i + 1 = n - j /\ j <= n - 1 /\ j \in Nat /\ n \in 1 .. n /\ i \in 1 .. n
    BY <2>0
  <2>2. lev[w[n - j]] = lev[w[n]] + j
    BY <1>6, <2>1 DEF T
  <2> HIDE DEF i
  <2>3. lev[w[i + 1]] + 1 = lev[w[i]]
    BY <1>3, <2>1
  <2>4. lev[w[n]] \in Nat /\ lev[w[i]] \in Nat
    BY <1>1, <2>1
  <2>5. lev[w[i]] = lev[w[n]] + (j + 1)
    <3> DEFINE x == lev[w[i]]
               y == lev[w[n]]
    <3>1. x \in Nat /\ y \in Nat /\ y + j + 1 = x /\ j \in Nat
      BY <2>1, <2>2, <2>3, <2>4
    <3> HIDE DEF x, y
    <3>2. x = y + (j + 1)
      BY <3>1
    <3> QED BY <3>2 DEF x, y
  <2> QED BY <2>5 DEF i
<1> HIDE DEF T
<1>7. T = Nat
  <2>1. T \in SUBSET Nat
    BY DEF T
  <2> QED BY <1>5, <1>6, <2>1, EveryNumber
<1>8. \A i \in 1 .. n : lev[w[i]] = lev[w[n]] + (n - i)
  <2> TAKE i \in 1 .. n
  <2>1. n - i \in Nat /\ n - i <= n - 1 /\ n - (n - i) = i
    BY <1>1
  <2> QED BY <1>7, <2>1 DEF T
<1>9. \A i \in 1 .. n - 1 : AfterSpot(path, i, w[n]) = w[i + 1]
  <2> TAKE i \in 1 .. n - 1
  <2>1. i # n - 1 => i + 1 \in 1 .. n - 1
    BY <1>1, SMTT(60)
  <2>2. i = n - 1 => i + 1 = n
    BY <1>1
  <2> QED BY <1>2, <1>3, <2>1, <2>2 DEF AfterSpot
<1>10. StartOf(path, w[n]) = w[1]
  <2>1. n # 1 => 1 \in 1 .. n - 1
    BY <1>1
  <2>2. n = 1 <=> Len(path) = 0
    <3> DEFINE q == Len(path)
    <3>1. q = n - 1 /\ n \in Nat
      BY <1>1, <1>2
    <3> HIDE DEF q
    <3>2. n = 1 <=> q = 0
      BY ONLY <3>1
    <3> QED BY ONLY <3>2 DEF q
  <2>3. n # 1 => path[1].blk = w[1]
    BY <1>3, <2>1
  <2> QED BY <2>2, <2>3 DEF StartOf
<1>11. \A i \in 1 .. n - 1 : lev[path[i].blk] = lev[w[n]] + (Len(path) + 1 - i)
  <2> TAKE i \in 1 .. n - 1
  <2>1. i \in 1 .. n /\ n - i = Len(path) + 1 - i
    BY <1>1, <1>2
  <2> QED BY <1>3, <1>8, <2>1
<1>12. n \in 1 .. n
  BY <1>1
<1>13. Leg(W, ks, ds, lev, w[1], path, w[n])
  <2>1. 1 .. Len(path) = 1 .. n - 1
    BY <1>2
  <2>2. w[n] \in W
    BY <1>1, <1>12
  <2>3. \A i \in 1 .. Len(path) : LeadsTo(W, ks, ds, path[i], AfterSpot(path, i, w[n]))
    BY <1>3, <1>9, <2>1, ZenonT(60)
  <2> QED BY <1>2, <1>10, <1>11, <2>1, <2>2, <2>3 DEF Leg, S
<1> QED BY <1>2, <1>4, <1>13

-----------------------------------------------------------------------------
(***************************************************************************)
(* Sums, and the sizes of entries and blocks.                              *)
(***************************************************************************)
(***************************************************************************)
(* Loops of N turns, in which every turn keeps the states I.               *)
(***************************************************************************)
LoopOf(f, N, a, g) == f[0] = a /\ \A n \in 0 .. N - 1 : f[n + 1] = g[<<n, f[n]>>]

\* A loop of N turns that keeps I has a function of its states, with I in each.
LEMMA UpTo ==
  ASSUME NEW U, NEW N, N \in Nat, NEW I, I \in SUBSET ((0 .. N) \X U), NEW a, <<0, a>> \in I, NEW g,
         \A n \in 0 .. N - 1 : \A u \in U : <<n, u>> \in I => <<n + 1, g[<<n, u>>]>> \in I
  PROVE  \E f \in [0 .. N -> U] : LoopOf(f, N, a, g) /\ \A n \in 0 .. N : <<n, f[n]>> \in I
<1> DEFINE s == <<0, a>>
           step(p) == IF p[1] < N THEN <<p[1] + 1, g[p]>> ELSE p
           G == [q \in Nat \X I |-> step(q[2])]
<1>1. \A p \in I : step(p) \in I
  <2> TAKE p \in I
  <2>1. PICK n \in 0 .. N, u \in U : p = <<n, u>>
    OBVIOUS
  <2>2. CASE n < N
    <3>1. n \in 0 .. N - 1
      BY <2>2
    <3>2. <<n + 1, g[<<n, u>>]>> \in I
      BY <2>1, <3>1
    <3>3. step(p) = <<n + 1, g[<<n, u>>]>>
      BY <2>1, <2>2
    <3> QED BY <3>2, <3>3
  <2>3. CASE ~ (n < N)
    BY <2>1, <2>3
  <2> QED BY <2>2, <2>3
<1>2. G \in [Nat \X I -> I] /\ \A n \in Nat : \A p \in I : G[<<n, p>>] = step(p)
  BY <1>1
<1> HIDE DEF G, step
<1>3. \E F \in [Nat -> I] : Runs(F, s, G)
  BY <1>2, Turns
<1>4. PICK F \in [Nat -> I] : Runs(F, s, G)
  BY <1>3
<1>5. F[0] = s /\ \A n \in Nat : F[n] \in I /\ F[n + 1] = step(F[n])
  BY <1>2, <1>4 DEF Runs
<1> DEFINE f == [n \in 0 .. N |-> F[n][2]]
           T == {n \in 0 .. N : F[n] = <<n, F[n][2]>>}
<1>6. 0 \in T
  BY <1>5
<1>7. ASSUME NEW n \in 0 .. N - 1, n \in T PROVE n + 1 \in T
  <2>1. F[n] = <<n, F[n][2]>> /\ n < N /\ F[n + 1] = step(F[n]) /\ n + 1 \in 0 .. N
    BY <1>5, <1>7
  <2>2. step(F[n]) = <<n + 1, g[F[n]]>>
    BY <2>1 DEF step
  <2> QED BY <2>1, <2>2
<1> HIDE DEF T
<1>8. 0 .. N \subseteq T
  BY <1>6, <1>7, NumbersUpTo
<1>9. \A n \in 0 .. N : f[n] = F[n][2] /\ F[n] = <<n, f[n]>> /\ <<n, f[n]>> \in I
  <2>1. \A n \in 0 .. N : F[n] = <<n, F[n][2]>> /\ n \in Nat
    BY <1>8 DEF T
  <2>2. \A n \in 0 .. N : f[n] = F[n][2]
    OBVIOUS
  <2> HIDE DEF f
  <2>3. \A n \in 0 .. N : F[n] = <<n, f[n]>>
    BY <2>1, <2>2
  <2>4. \A n \in 0 .. N : F[n] \in I
    BY <1>5, <2>1
  <2>5. \A n \in 0 .. N : <<n, f[n]>> \in I
    <3> TAKE n \in 0 .. N
    <3>1. F[n] \in I /\ F[n] = <<n, f[n]>>
      BY <2>3, <2>4
    <3> QED BY <3>1
  <2> QED BY <2>2, <2>3, <2>5
<1>10. f \in [0 .. N -> U]
  BY <1>9
<1>11. f[0] = a
  BY <1>5, <1>9
<1>12. \A n \in 0 .. N - 1 : f[n + 1] = g[<<n, f[n]>>]
  <2> TAKE n \in 0 .. N - 1
  <2>1. n \in 0 .. N /\ n + 1 \in 0 .. N /\ n < N /\ n \in Nat
    OBVIOUS
  <2>2. F[n] = <<n, f[n]>> /\ F[n + 1] = <<n + 1, f[n + 1]>> /\ F[n + 1] = step(F[n])
    BY <1>5, <1>9, <2>1
  <2> HIDE DEF f
  <2>3. step(F[n]) = <<n + 1, g[<<n, f[n]>>]>>
    BY <2>1, <2>2 DEF step
  <2> QED BY <2>2, <2>3
<1> HIDE DEF f
<1> QED BY <1>9, <1>10, <1>11, <1>12 DEF LoopOf

(***************************************************************************)
(* Sizes.                                                                  *)
(***************************************************************************)
SumsOf(F, e, n, total) ==
  /\ F \in [0 .. n -> Nat] /\ total = F[n] /\ F[0] = 0
  /\ \A i \in 0 .. n - 1 : F[i + 1] = F[i] + e[i + 1]
Counts(e, n) == \A i \in 1 .. n : e[i] \in Nat

\* Total is what its sums end with.
LEMMA TotalSum ==
  ASSUME NEW n, n \in Nat, NEW e, Counts(e, n)
  PROVE  \E F : SumsOf(F, e, n, Total(e, n))
<1> USE DEF Counts
<1> DEFINE g == [q \in (0 .. n) \X Nat |-> q[2] + e[q[1] + 1]]
           I == (0 .. n) \X Nat
<1>1. \A m \in 0 .. n - 1 : \A u \in Nat : g[<<m, u>>] = u + e[m + 1] /\ <<m + 1, g[<<m, u>>]>> \in I
  <2> TAKE m \in 0 .. n - 1
  <2> TAKE u \in Nat
  <2>1. m \in 0 .. n /\ m + 1 \in 1 .. n /\ m + 1 \in 0 .. n
    OBVIOUS
  <2> QED BY <2>1
<1>2. <<0, 0>> \in I /\ I \in SUBSET ((0 .. n) \X Nat)
  OBVIOUS
<1> HIDE DEF I, g
<1>3. \E f \in [0 .. n -> Nat] : LoopOf(f, n, 0, g) /\ \A m \in 0 .. n : <<m, f[m]>> \in I
  BY <1>1, <1>2, UpTo
<1>4. PICK f \in [0 .. n -> Nat] : LoopOf(f, n, 0, g)
  BY <1>3
<1>5. f[0] = 0 /\ \A i \in 0 .. n - 1 : f[i + 1] = f[i] + e[i + 1]
  <2>1. \A i \in 0 .. n - 1 : f[i] \in Nat /\ f[i + 1] = g[<<i, f[i]>>]
    BY <1>4 DEF LoopOf
  <2> QED BY <1>1, <1>4, <2>1 DEF LoopOf
<1> DEFINE Rec(Sum) == Sum = [i \in 0 .. n |-> IF i = 0 THEN 0 ELSE Sum[i - 1] + e[i]]
<1>6. Rec(f)
  <2>1. \A i \in 0 .. n : f[i] = IF i = 0 THEN 0 ELSE f[i - 1] + e[i]
    <3> TAKE i \in 0 .. n
    <3>1. i # 0 => i - 1 \in 0 .. n - 1 /\ i - 1 + 1 = i
      OBVIOUS
    <3> QED BY <1>5, <3>1
  <2> QED BY <2>1
<1> DEFINE F == CHOOSE Sum : Rec(Sum)
<1>7. Rec(F)
  <2> HIDE DEF Rec
  <2> QED BY <1>6
<1>8. Total(e, n) = F[n]
  BY DEF Total
<1> HIDE DEF F
<1>9. F[0] = 0 /\ \A i \in 0 .. n - 1 : F[i + 1] = F[i] + e[i + 1]
  <2>1. \A i \in 0 .. n : F[i] = IF i = 0 THEN 0 ELSE F[i - 1] + e[i]
    BY <1>7
  <2>2. \A i \in 0 .. n - 1 : i + 1 \in 0 .. n /\ i + 1 # 0 /\ i + 1 - 1 = i
    OBVIOUS
  <2> QED BY <2>1, <2>2
<1> HIDE DEF Rec
<1> DEFINE T == {i \in 0 .. n : F[i] = f[i]}
<1>10. 0 \in T
  BY <1>5, <1>9
<1>11. \A i \in 0 .. n - 1 : i \in T => i + 1 \in T
  BY <1>5, <1>9
<1> HIDE DEF T
<1>12. 0 .. n \subseteq T
  BY <1>10, <1>11, NumbersUpTo
<1>13. \A i \in 0 .. n : F[i] = f[i]
  BY <1>12 DEF T
<1>14. n \in 0 .. n
  OBVIOUS
<1>15. Total(e, n) = f[n]
  BY <1>8, <1>13, <1>14
<1>16. f \in [0 .. n -> Nat]
  BY <1>4
<1> QED BY <1>5, <1>15, <1>16 DEF SumsOf

\* A sum of numbers is a number.
LEMMA TotalIs ==
  ASSUME NEW n, n \in Nat, NEW e, Counts(e, n)
  PROVE  Total(e, n) \in Nat
<1>1. \E F : SumsOf(F, e, n, Total(e, n))
  BY TotalSum
<1>2. n \in 0 .. n
  OBVIOUS
<1> QED BY <1>1, <1>2 DEF SumsOf

\* A sum of greater numbers is not less.
LEMMA TotalMore ==
  ASSUME NEW n, n \in Nat, NEW e, Counts(e, n), NEW d, Counts(d, n), \A i \in 1 .. n : e[i] <= d[i]
  PROVE  Total(e, n) <= Total(d, n)
<1>1. PICK F : SumsOf(F, e, n, Total(e, n))
  BY TotalSum
<1>2. PICK G : SumsOf(G, d, n, Total(d, n))
  BY TotalSum
<1> USE DEF SumsOf, Counts
<1> DEFINE T == {i \in 0 .. n : F[i] <= G[i]}
<1>3. 0 \in T
  BY <1>1, <1>2
<1>4. \A i \in 0 .. n - 1 : i \in T => i + 1 \in T
  <2> TAKE i \in 0 .. n - 1
  <2>1. i + 1 \in 1 .. n /\ i + 1 \in 0 .. n /\ i \in 0 .. n
    OBVIOUS
  <2>2. /\ F[i + 1] = F[i] + e[i + 1] /\ G[i + 1] = G[i] + d[i + 1] /\ F[i] \in Nat /\ G[i] \in Nat
        /\ e[i + 1] \in Nat /\ d[i + 1] \in Nat /\ e[i + 1] <= d[i + 1]
    BY <1>1, <1>2, <2>1
  <2> QED BY <2>1, <2>2
<1> HIDE DEF T
<1>5. 0 .. n \subseteq T
  BY <1>3, <1>4, NumbersUpTo
<1>6. n \in 0 .. n
  OBVIOUS
<1> QED BY <1>1, <1>2, <1>5, <1>6 DEF T

\* The header that an index file can have.
Header(h) ==
  /\ h.version \in Nat /\ h.blksize \in Nat /\ h.parts \in Seq(Nat \ {0})
  /\ h.dup \in BOOLEAN /\ h.fix \in BOOLEAN
  /\ USize(h, <<1, 2>>) <= h.blksize

\* What an entry takes besides the bytes of its key, in both versions.
LEMMA PosSizeIs ==
  ASSUME NEW t, t.parts \in Seq(Nat \ {0})
  PROVE  /\ PosSize(t) \in {6, 9} /\ Terminator(t) \in {0, 1} /\ KeySize(t) \in Nat /\ KeySize(t) >= PosSize(t)
         /\ Compressed(t) => PosSize(t) = 6 /\ Terminator(t) = 0
         /\ ~ Compressed(t) => PosSize(t) = 9 /\ Terminator(t) = 1
<1>1. Len(t.parts) \in Nat /\ \A i \in 1 .. Len(t.parts) : t.parts[i] \in Nat
  <2>1. \A i \in 1 .. Len(t.parts) : t.parts[i] \in Nat \ {0}
    BY ElementOfSeq
  <2> QED BY <2>1, LenProperties
<1>2. Total(t.parts, Len(t.parts)) \in Nat
  <2>1. Counts(t.parts, Len(t.parts))
    BY <1>1 DEF Counts
  <2> QED BY <1>1, <2>1, TotalIs
<1>3. PosSize(t) \in {6, 9}
  BY DEF PosSize
<1> QED BY <1>2, <1>3 DEF PosSize, Terminator, KeySize

\* An entry leaves out bytes of its key at most.
LEMMA RepeatsIs ==
  ASSUME NEW t, t.parts \in Seq(Nat \ {0}), NEW a, NEW k
  PROVE  Repeats(t, a, k) \in Nat /\ Repeats(t, a, k) + PosSize(t) <= KeySize(t)
<1> DEFINE n == Len(t.parts)
           d == t.parts
           e == [i \in DOMAIN t.parts |-> IF \A j \in 1 .. i : a[j] = k[j] THEN t.parts[i] ELSE 0]
<1>1. n \in Nat /\ DOMAIN t.parts = 1 .. n /\ \A i \in 1 .. n : d[i] \in Nat
  <2>1. \A i \in 1 .. Len(t.parts) : t.parts[i] \in Nat \ {0}
    BY ElementOfSeq
  <2> QED BY <2>1, LenProperties
<1>2. \A i \in 1 .. n : e[i] \in Nat /\ e[i] <= d[i]
  BY <1>1
<1>3. Repeats(t, a, k) = Total(e, n) /\ KeySize(t) = PosSize(t) + Total(d, n)
  BY DEF Repeats, KeySize
<1>7. Counts(e, n) /\ Counts(d, n)
  BY <1>1, <1>2 DEF Counts
<1> HIDE DEF n, d, e
<1>4. Total(e, n) \in Nat /\ Total(d, n) \in Nat /\ Total(e, n) <= Total(d, n)
  <2>1. Total(e, n) \in Nat
    BY <1>1, <1>7, TotalIs
  <2>2. Total(d, n) \in Nat
    BY <1>1, <1>7, TotalIs
  <2> QED BY <1>1, <1>2, <1>7, <2>1, <2>2, TotalMore
<1>5. PosSize(t) \in Nat
  BY PosSizeIs
<1> QED BY <1>3, <1>4, <1>5

\* The bounds of the size of an entry.
LEMMA EntrySizeIs ==
  ASSUME NEW t, t.parts \in Seq(Nat \ {0}), NEW keys, NEW i, i \in Nat
  PROVE  /\ EntrySize(t, keys, i) \in Nat /\ EntrySize(t, keys, i) >= PosSize(t)
         /\ EntrySize(t, keys, i) <= KeySize(t) + 1
         /\ i = 1 \/ ~ Compressed(t) => EntrySize(t, keys, i) = KeySize(t)
<1> DEFINE q == Repeats(t, keys[i - 1], keys[i])
<1>1. q \in Nat /\ q + PosSize(t) <= KeySize(t) /\ PosSize(t) \in Nat /\ KeySize(t) \in Nat
  <2>1. q \in Nat /\ q + PosSize(t) <= KeySize(t)
    BY RepeatsIs
  <2>2. PosSize(t) \in Nat /\ KeySize(t) \in Nat
    BY PosSizeIs
  <2> QED BY <2>1, <2>2
<1>2. EntrySize(t, keys, i) = IF i > 1 /\ Compressed(t) THEN KeySize(t) - q + 1 ELSE KeySize(t)
  BY DEF EntrySize
<1> HIDE DEF q
<1> QED BY <1>1, <1>2

\* Sums of one and of two.
LEMMA TotalFew ==
  ASSUME NEW e
  PROVE  /\ Counts(e, 1) => Total(e, 1) = e[1]
         /\ Counts(e, 2) => Total(e, 2) = e[1] + e[2]
<1>1. ASSUME Counts(e, 1) PROVE Total(e, 1) = e[1]
  <2>1. PICK F : SumsOf(F, e, 1, Total(e, 1))
    BY <1>1, TotalSum
  <2>2. 0 \in 0 .. 1 - 1 /\ 0 + 1 = 1 /\ 1 \in 1 .. 1
    OBVIOUS
  <2>3. F[1] = F[0] + e[1] /\ F[0] = 0 /\ Total(e, 1) = F[1]
    BY <2>1, <2>2 DEF SumsOf
  <2>4. e[1] \in Nat
    BY <1>1, <2>2 DEF Counts
  <2> QED BY <2>3, <2>4
<1>2. ASSUME Counts(e, 2) PROVE Total(e, 2) = e[1] + e[2]
  <2>1. PICK F : SumsOf(F, e, 2, Total(e, 2))
    BY <1>2, TotalSum
  <2>2. 0 \in 0 .. 2 - 1 /\ 0 + 1 = 1 /\ 1 \in 0 .. 2 - 1 /\ 1 + 1 = 2 /\ 1 \in 1 .. 2 /\ 2 \in 1 .. 2
    OBVIOUS
  <2>3. F[1] = F[0] + e[1] /\ F[0] = 0 /\ F[2] = F[1] + e[2] /\ Total(e, 2) = F[2]
    BY <2>1, <2>2 DEF SumsOf
  <2>4. e[1] \in Nat /\ e[2] \in Nat
    BY <1>2, <2>2 DEF Counts
  <2> QED BY <2>3, <2>4
<1> QED BY <1>1, <1>2

\* Every index of a file has the sizes of its header.
LEMMA HeaderOf ==
  ASSUME NEW K, NEW h, Header(h), NEW t, t \in Indexes(h, K)
  PROVE  /\ t.parts \in Seq(Nat \ {0}) /\ t.blksize \in Nat /\ t.version \in Nat /\ t.fix \in BOOLEAN
         /\ t.dup \in BOOLEAN
         /\ t.version = h.version /\ t.parts = h.parts /\ t.blksize = h.blksize /\ t.fix = h.fix /\ t.dup = h.dup
         /\ KeySize(t) = KeySize(h) /\ PosSize(t) = PosSize(h) /\ Terminator(t) = Terminator(h)
<1>1. /\ t.version = h.version /\ t.parts = h.parts /\ t.blksize = h.blksize /\ t.fix = h.fix /\ t.dup = h.dup
  BY DEF Indexes
<1>2. KeySize(t) = KeySize(h) /\ PosSize(t) = PosSize(h) /\ Terminator(t) = Terminator(h)
  BY <1>1 DEF KeySize, PosSize, Terminator, Compressed
<1> QED BY <1>1, <1>2 DEF Header

\* A block has room for two keys.
LEMMA TwoFit ==
  ASSUME NEW K, NEW h, Header(h), NEW t, t \in Indexes(h, K), NEW keys, keys \in Seq(K), Len(keys) \in {1, 2}
  PROVE  VSize(t, keys) + 1 <= t.blksize /\ USize(t, keys) <= t.blksize
<1>1. /\ t.parts \in Seq(Nat \ {0}) /\ t.blksize = h.blksize
      /\ KeySize(t) = KeySize(h) /\ PosSize(t) = PosSize(h) /\ Terminator(t) = Terminator(h)
  BY HeaderOf
<1> DEFINE e == [i \in DOMAIN keys |-> EntrySize(t, keys, i)]
           n == Len(keys)
           q == KeySize(t)
           z == PosSize(t)
           y == Terminator(t)
<1>2. q \in Nat /\ z \in {6, 9} /\ y \in {0, 1} /\ q >= z
  BY <1>1, PosSizeIs
<1>3. USize(h, <<1, 2>>) = 1 + z + 2 * (q + z) + y
  <2>1. Len(<<1, 2>>) = 2
    OBVIOUS
  <2> QED BY <1>1, <2>1 DEF USize
<1>4. 1 + z + 2 * (q + z) + y <= t.blksize /\ t.blksize \in Nat
  BY <1>1, <1>3 DEF Header
<1>5. USize(t, keys) = 1 + z + n * (q + z) + y
  BY DEF USize
<1>6. VSize(t, keys) = 1 + Total(e, n) + y
  BY DEF VSize
<1>7. \A i \in 1 .. n : e[i] \in Nat /\ e[i] <= q + 1 /\ (i = 1 => e[i] = q)
  <2>1. DOMAIN keys = 1 .. n /\ n \in Nat
    BY LenProperties
  <2> TAKE i \in 1 .. n
  <2>2. e[i] = EntrySize(t, keys, i) /\ i \in Nat
    BY <2>1
  <2>3. EntrySize(t, keys, i) \in Nat /\ EntrySize(t, keys, i) <= q + 1
    BY <1>1, <2>2, EntrySizeIs
  <2>4. i = 1 => EntrySize(t, keys, i) = q
    BY <1>1, <2>2, EntrySizeIs
  <2> QED BY <2>2, <2>3, <2>4
<1>8. Counts(e, n)
  BY <1>7 DEF Counts
<1>9. n \in {1, 2}
  OBVIOUS
<1> HIDE DEF e, n, q, z, y
<1>10. CASE n = 1
  <2>1. 1 \in 1 .. n
    BY <1>10
  <2>2. Total(e, n) = e[1] /\ e[1] = q
    BY <1>7, <1>8, <1>10, <2>1, TotalFew
  <2>3. n * (q + z) = q + z
    BY <1>2, <1>10
  <2> QED BY <1>2, <1>4, <1>5, <1>6, <2>2, <2>3
<1>11. CASE n = 2
  <2>1. 1 \in 1 .. n /\ 2 \in 1 .. n
    BY <1>11
  <2>2. Total(e, n) = e[1] + e[2] /\ e[1] = q /\ e[2] \in Nat /\ e[2] <= q + 1
    BY <1>7, <1>8, <1>11, <2>1, TotalFew
  <2>3. Total(e, n) <= 2 * q + 1 /\ Total(e, n) \in Nat
    BY <1>2, <2>2
  <2> QED BY <1>2, <1>4, <1>5, <1>6, <1>11, <2>3
<1> QED BY <1>9, <1>10, <1>11

-----------------------------------------------------------------------------
(***************************************************************************)
(* A tree that is stored whole.                                            *)
(***************************************************************************)
KidsOf(node) == IF node.type = "U" THEN node.kids ELSE <<>>
KeysIn(t, W) == [b \in W |-> t.blk[b].keys]
KidsIn(t, W) == [b \in W |-> KidsOf(t.blk[b])]

Room(h, node) == NodeSize(h, node) <= h.blksize

\* A block of a tree.
TreeNode(h, K, node) ==
  node \in Node(K) /\ node.type \in {"U", "V"} /\ (node.type = "U" => node.kids # <<>>) /\ Room(h, node)

\* An index file with a tree of the blocks W.
Stored(h, K, t, W) ==
  /\ t \in Indexes(h, K) /\ \E dl, fl : Whole(t, W, dl, fl)
  /\ \A b \in W : TreeNode(h, K, t.blk[b])

\* t2 has node in block b, and the other blocks W from t.
Wrote(t, t2, W, b, node) ==
  /\ t2.blk[b] = node
  /\ \A c \in W : c # b => t2.blk[c] = t.blk[c]

\* To write a block of the tree keeps the file whole.
LEMMA StoredPut ==
  ASSUME NEW K, NEW h, NEW t, NEW W, Stored(h, K, t, W), NEW b, b \in W, NEW node, TreeNode(h, K, node)
  PROVE  Stored(h, K, Put(t, b, node), W) /\ Put(t, b, node).root = t.root /\ Wrote(t, Put(t, b, node), W, b, node)
<1> DEFINE t2 == Put(t, b, node)
<1>1. PICK dl, fl : Whole(t, W, dl, fl)
  BY DEF Stored
<1>2. t \in Indexes(h, K) /\ node \in Node(K) /\ node.type \in {"U", "V"}
  BY DEF Stored, TreeNode
<1>3. /\ t2 \in Indexes(h, K) /\ Whole(t2, W, dl, fl) /\ t2.root = t.root /\ t2.blk[b] = node
      /\ \A c \in W : c # b => t2.blk[c] = t.blk[c]
  BY <1>1, <1>2, WholePut
<1> HIDE DEF t2
<1>4. \A c \in W : TreeNode(h, K, t2.blk[c])
  BY <1>3 DEF Stored
<1>5. Stored(h, K, t2, W) /\ t2.root = t.root /\ Wrote(t, t2, W, b, node)
  BY <1>3, <1>4 DEF Stored, Wrote
<1> QED BY <1>5 DEF t2

\* A new block of the tree keeps the file whole.
LEMMA StoredAdd ==
  ASSUME NEW K, NEW h, NEW t, NEW W, Stored(h, K, t, W), NEW node, TreeNode(h, K, node)
  PROVE  /\ NewBlock(t) \in Nat \ {0} /\ NewBlock(t) \notin W
         /\ Stored(h, K, Add(t, node), W \cup {NewBlock(t)}) /\ Add(t, node).root = t.root
         /\ Wrote(t, Add(t, node), W, NewBlock(t), node)
<1> DEFINE t2 == Add(t, node)
           c == NewBlock(t)
<1>1. PICK dl, fl : Whole(t, W, dl, fl)
  BY DEF Stored
<1>2. t \in Indexes(h, K) /\ node \in Node(K) /\ node.type \in {"U", "V"}
  BY DEF Stored, TreeNode
<1>3. /\ c \in Nat \ {0} /\ c \notin W /\ t2 \in Indexes(h, K) /\ t2.root = t.root /\ t2.blk[c] = node
      /\ (\A b \in W : t2.blk[b] = t.blk[b])
      /\ \E dl2 : Whole(t2, W \cup {c}, dl2, fl)
  <2>1. node \in Node(K) /\ node.type \in {"U", "V"} /\ t \in Indexes(h, K)
    BY <1>2
  <2> HIDE DEF t2, c
  <2>2. /\ NewBlock(t) \in Nat \ {0} /\ NewBlock(t) \notin W
        /\ Add(t, node) \in Indexes(h, K) /\ Add(t, node).root = t.root
        /\ Add(t, node).blk[NewBlock(t)] = node
        /\ (\A b \in W : Add(t, node).blk[b] = t.blk[b])
        /\ \E dl2 : Whole(Add(t, node), W \cup {NewBlock(t)}, dl2, fl)
    BY ONLY <1>1, <2>1, WholeAdd
  <2> QED BY <2>2 DEF t2, c
<1> HIDE DEF t2, c
<1>4. \A d \in W \cup {c} : TreeNode(h, K, t2.blk[d])
  BY <1>3 DEF Stored
<1>5. Stored(h, K, t2, W \cup {c}) /\ t2.root = t.root /\ Wrote(t, t2, W, c, node)
  BY <1>3, <1>4 DEF Stored, Wrote
<1> QED BY <1>3, <1>5 DEF t2, c

\* To delete a block of the tree keeps the file whole.
LEMMA StoredFree ==
  ASSUME NEW K, NEW h, NEW t, NEW W, Stored(h, K, t, W), NEW b, b \in W
  PROVE  /\ Stored(h, K, Free(t, b), W \ {b}) /\ Free(t, b).root = t.root
         /\ \A c \in W : c # b => Free(t, b).blk[c] = t.blk[c]
<1> DEFINE t2 == Free(t, b)
<1>1. PICK dl, fl : Whole(t, W, dl, fl)
  BY DEF Stored
<1>2. t \in Indexes(h, K)
  BY DEF Stored
<1>3. /\ t2 \in Indexes(h, K) /\ Whole(t2, W \ {b}, <<b>> \o dl, fl) /\ t2.root = t.root
      /\ \A c \in W : c # b => t2.blk[c] = t.blk[c]
  BY <1>1, <1>2, WholeFree
<1> HIDE DEF t2
<1>4. \A c \in W \ {b} : TreeNode(h, K, t2.blk[c])
  BY <1>3 DEF Stored
<1>5. Stored(h, K, t2, W \ {b})
  BY <1>3, <1>4 DEF Stored
<1> QED BY <1>3, <1>5 DEF t2

\* Another root keeps the file whole.
LEMMA StoredRoot ==
  ASSUME NEW K, NEW h, NEW t, NEW W, Stored(h, K, t, W), NEW r, r \in Nat
  PROVE  /\ Stored(h, K, [t EXCEPT !.root = r], W) /\ [t EXCEPT !.root = r].root = r
         /\ [t EXCEPT !.root = r].blk = t.blk
<1> DEFINE t2 == [t EXCEPT !.root = r]
<1>1. PICK dl, fl : Whole(t, W, dl, fl)
  BY DEF Stored
<1>2. t \in Indexes(h, K)
  BY DEF Stored
<1>3. t2 \in Indexes(h, K) /\ Whole(t2, W, dl, fl) /\ t2.root = r /\ t2.blk = t.blk
  BY <1>1, <1>2, WholeRoot
<1> HIDE DEF t2
<1>4. Stored(h, K, t2, W)
  BY <1>3 DEF Stored
<1> QED BY <1>3, <1>4 DEF t2

\* What is stored in a block of the tree.
LEMMA StoredBlock ==
  ASSUME NEW K, NEW h, NEW t, NEW W, Stored(h, K, t, W), NEW b, b \in W
  PROVE  /\ b \in Nat /\ b # 0 /\ b \in 1 .. t.high /\ t.blk[b] \in Node(K) /\ t.blk[b].type \in {"U", "V"}
         /\ t.blk[b].keys \in Seq(K) /\ TreeNode(h, K, t.blk[b])
         /\ t.blk[b].type = "U" => t.blk[b].kids \in Seq(Nat) /\ t.blk[b].kids # <<>>
                                   /\ t.blk[b] = Branch(t.blk[b].keys, t.blk[b].kids)
         /\ t.blk[b].type = "V" => t.blk[b] = Leaf(t.blk[b].keys)
<1>1. PICK dl, fl : Whole(t, W, dl, fl)
  BY DEF Stored
<1>2. t \in Indexes(h, K)
  BY DEF Stored
<1>3. b \in 1 .. t.high /\ b \in DOMAIN t.blk /\ b \in Nat /\ b # 0
  BY <1>1, <1>2, WholeParts
<1>4. t.blk[b] \in Node(K) /\ t.blk[b].type \in {"U", "V"}
  BY <1>1, <1>2, <1>3, IndexTypes DEF Whole
<1>5. TreeNode(h, K, t.blk[b]) /\ (t.blk[b].type = "U" => t.blk[b].kids # <<>>)
  BY DEF Stored, TreeNode
<1>6. /\ t.blk[b].type = "V" => t.blk[b].keys \in Seq(K) /\ t.blk[b] = Leaf(t.blk[b].keys)
      /\ t.blk[b].type = "U" => t.blk[b].keys \in Seq(K) /\ t.blk[b].kids \in Seq(Nat)
                                /\ t.blk[b] = Branch(t.blk[b].keys, t.blk[b].kids)
  BY <1>4, NodeTypes
<1> QED BY <1>3, <1>4, <1>5, <1>6

\* Keys that fit in a block make a block of the tree.
LEMMA TreeNodes ==
  ASSUME NEW h, NEW K
  PROVE  /\ \A s \in Seq(K) : VSize(h, s) <= h.blksize =>
              /\ TreeNode(h, K, Leaf(s)) /\ Leaf(s).type = "V" /\ Leaf(s).keys = s /\ KidsOf(Leaf(s)) = <<>>
         /\ \A s \in Seq(K), d \in Seq(Nat) : d # <<>> /\ USize(h, s) <= h.blksize =>
              /\ TreeNode(h, K, Branch(s, d)) /\ Branch(s, d).type = "U" /\ Branch(s, d).keys = s
              /\ Branch(s, d).kids = d /\ KidsOf(Branch(s, d)) = d
<1>1. \A s \in Seq(K) : Leaf(s) \in Node(K) /\ Leaf(s).type = "V" /\ Leaf(s).keys = s
  BY NodeIs
<1>2. \A s \in Seq(K), d \in Seq(Nat) :
              Branch(s, d) \in Node(K) /\ Branch(s, d).type = "U" /\ Branch(s, d).keys = s /\ Branch(s, d).kids = d
  BY NodeIs
<1> QED BY <1>1, <1>2 DEF TreeNode, KidsOf, Room, NodeSize

\* The keys and the kids of the tree, as functions of its blocks.
LEMMA ViewIs ==
  ASSUME NEW t, NEW W
  PROVE  /\ KeysIn(t, W) = [b \in W |-> KeysIn(t, W)[b]] /\ KidsIn(t, W) = [b \in W |-> KidsIn(t, W)[b]]
         /\ DOMAIN KeysIn(t, W) = W /\ DOMAIN KidsIn(t, W) = W
         /\ \A b \in W : KeysIn(t, W)[b] = t.blk[b].keys /\ KidsIn(t, W)[b] = KidsOf(t.blk[b])
BY DEF KeysIn, KidsIn

\* A tree that is stored whole in an index and has a shape.
Form(h, K, low, high, t, W, lev, lo, hi, x, kid, E) ==
  /\ Stored(h, K, t, W)
  /\ Shape(K, low, high, W, t.root, KeysIn(t, W), KidsIn(t, W), lev, lo, hi, x, kid, E)

\* A block is a branch if it has kids.
LEMMA FormBlock ==
  ASSUME NEW K, NEW h, NEW low, NEW high, NEW t, NEW W, NEW lev, NEW lo, NEW hi, NEW x, NEW kid, NEW E,
         Form(h, K, low, high, t, W, lev, lo, hi, x, kid, E), NEW b, b \in W
  PROVE  /\ KeysIn(t, W)[b] = t.blk[b].keys /\ KidsIn(t, W)[b] = KidsOf(t.blk[b])
         /\ (t.blk[b].type = "U") <=> (KidsIn(t, W)[b] # <<>>)
         /\ t.blk[b].type = "U" => KidsIn(t, W)[b] = t.blk[b].kids
         /\ lev \in [W -> Nat] /\ lo \in [W -> K] /\ hi \in [W -> K] /\ t.root \in W
<1>1. Stored(h, K, t, W) /\ Shape(K, low, high, W, t.root, KeysIn(t, W), KidsIn(t, W), lev, lo, hi, x, kid, E)
  BY DEF Form
<1>2. KeysIn(t, W)[b] = t.blk[b].keys /\ KidsIn(t, W)[b] = KidsOf(t.blk[b])
  BY ViewIs
<1>3. t.blk[b].type \in {"U", "V"} /\ (t.blk[b].type = "U" => t.blk[b].kids # <<>>)
  BY <1>1, StoredBlock
<1> QED BY <1>1, <1>2, <1>3 DEF KidsOf, Shape, ShapeTypes

\* Sizes depend on the header only.
LEMMA SizesOf ==
  ASSUME NEW K, NEW h, NEW t, t \in Indexes(h, K), NEW s
  PROVE  VSize(t, s) = VSize(h, s) /\ USize(t, s) = USize(h, s) /\ t.blksize = h.blksize
<1>1. t.version = h.version /\ t.parts = h.parts /\ t.blksize = h.blksize
  BY DEF Indexes
<1>2. Compressed(t) = Compressed(h)
  BY <1>1 DEF Compressed
<1>3. PosSize(t) = PosSize(h) /\ Terminator(t) = Terminator(h)
  BY <1>2 DEF PosSize, Terminator
<1>4. KeySize(t) = KeySize(h)
  BY <1>1, <1>3 DEF KeySize
<1>5. ASSUME NEW a, NEW k PROVE Repeats(t, a, k) = Repeats(h, a, k)
  BY <1>1, Zenon DEF Repeats
<1>6. ASSUME NEW i PROVE EntrySize(t, s, i) = EntrySize(h, s, i)
  <2>1. Repeats(t, s[i - 1], s[i]) = Repeats(h, s[i - 1], s[i])
    BY <1>5
  <2> QED BY <1>2, <1>4, <2>1 DEF EntrySize
<1>7. [i \in DOMAIN s |-> EntrySize(t, s, i)] = [i \in DOMAIN s |-> EntrySize(h, s, i)]
  BY <1>6
<1>8. VSize(t, s) = VSize(h, s)
  BY <1>3, <1>7 DEF VSize
<1>9. USize(t, s) = USize(h, s)
  BY <1>3, <1>4 DEF USize
<1> QED BY <1>1, <1>8, <1>9

\* A block always has room for two keys.
LEMMA FewFit ==
  ASSUME NEW K, NEW h, Header(h), NEW t, t \in Indexes(h, K), NEW s, s \in Seq(K), Len(s) \in {1, 2}
  PROVE  VSize(h, s) + 1 <= h.blksize /\ USize(h, s) <= h.blksize
BY TwoFit, SizesOf

\* Fewer keys need less room in a U block.
LEMMA FewerFit ==
  ASSUME NEW h, Header(h), NEW s, NEW u, Len(s) \in Nat, Len(u) \in Nat, Len(s) <= Len(u), USize(h, u) <= h.blksize
  PROVE  USize(h, s) <= h.blksize
<1> DEFINE q == KeySize(h) + PosSize(h)
           z == 1 + PosSize(h)
           y == Terminator(h)
           m == Len(s)
           n == Len(u)
<1>1. q \in Nat /\ z \in Nat /\ y \in Nat /\ h.blksize \in Nat
  BY PosSizeIs DEF Header
<1>2. USize(h, s) = z + m * q + y /\ USize(h, u) = z + n * q + y
  BY DEF USize
<1>3. m \in Nat /\ n \in Nat /\ m <= n
  OBVIOUS
<1> HIDE DEF q, z, y, m, n
<1>4. PICK d \in Nat : n = m + d
  <2>1. n - m \in Nat /\ n = m + (n - m)
    BY <1>3
  <2> QED BY <2>1
<1>5. n * q = m * q + d * q /\ d * q \in Nat /\ m * q \in Nat /\ n * q \in Nat
  BY <1>1, <1>3, <1>4
<1> QED BY <1>1, <1>2, <1>5

\* Blocks that were written.
LEMMA ViewPut ==
  ASSUME NEW t, NEW t2, NEW W, NEW b, b \in W, NEW node, Wrote(t, t2, W, b, node)
  PROVE  /\ KeysIn(t2, W) = With(KeysIn(t, W), b, node.keys)
         /\ KidsIn(t2, W) = With(KidsIn(t, W), b, KidsOf(node))
<1> USE DEF With
<1>1. \A d \in W : t2.blk[d] = IF d = b THEN node ELSE t.blk[d]
  BY DEF Wrote
<1>2. KeysIn(t2, W) = [KeysIn(t, W) EXCEPT ![b] = node.keys]
  BY <1>1 DEF KeysIn
<1>3. KidsIn(t2, W) = [KidsIn(t, W) EXCEPT ![b] = KidsOf(node)]
  BY <1>1 DEF KidsIn
<1> QED BY <1>2, <1>3

IsAdded(f, g, W, c, v) == g = [d \in W \cup {c} |-> IF d = c THEN v ELSE f[d]]

\* A new block adds its keys and kids to the tree.
LEMMA ViewIsAdded ==
  ASSUME NEW t, NEW t2, NEW W, NEW W2, NEW b, b \notin W, W2 = W \cup {b}, NEW node, Wrote(t, t2, W, b, node)
  PROVE  IsAdded(KeysIn(t, W), KeysIn(t2, W2), W, b, node.keys) /\ IsAdded(KidsIn(t, W), KidsIn(t2, W2), W, b, KidsOf(node))
<1>1. \A d \in W2 : t2.blk[d] = IF d = b THEN node ELSE t.blk[d]
  BY DEF Wrote
<1>2. \A d \in W2 : t2.blk[d].keys = IF d = b THEN node.keys ELSE KeysIn(t, W)[d]
  BY <1>1 DEF KeysIn
<1>3. \A d \in W2 : KidsOf(t2.blk[d]) = IF d = b THEN KidsOf(node) ELSE KidsIn(t, W)[d]
  BY <1>1 DEF KidsIn
<1> QED BY <1>2, <1>3 DEF KeysIn, KidsIn, IsAdded

\* Block b of the tree ks, ds was split in t3.
LEMMA ViewSplit ==
  ASSUME NEW t3, NEW W, NEW ks, NEW ds, NEW b, b \in W, NEW c, c \notin W, NEW m,
         \A d \in W : d # b => t3.blk[d].keys = ks[d] /\ KidsOf(t3.blk[d]) = ds[d],
         t3.blk[b].keys = SubSeq(ks[b], 1, m - 1), KidsOf(t3.blk[b]) = LeftKids(ds[b], m),
         t3.blk[c].keys = SubSeq(ks[b], m + 1, Len(ks[b])), KidsOf(t3.blk[c]) = RightKids(ds[b], m)
  PROVE  IsSplit(ks, ds, b, m, c, W \cup {c}, KeysIn(t3, W \cup {c}), KidsIn(t3, W \cup {c}))
<1> DEFINE W2 == W \cup {c}
           P == SubSeq(ks[b], 1, m - 1)
           Q == SubSeq(ks[b], m + 1, Len(ks[b]))
           L == LeftKids(ds[b], m)
           R == RightKids(ds[b], m)
<1>1. \A d \in W2 : t3.blk[d].keys = IF d = b THEN P ELSE IF d = c THEN Q ELSE ks[d]
  OBVIOUS
<1>2. \A d \in W2 : KidsOf(t3.blk[d]) = IF d = b THEN L ELSE IF d = c THEN R ELSE ds[d]
  OBVIOUS
<1> HIDE DEF W2, P, Q, L, R
<1>3. KeysIn(t3, W2) = [d \in W2 |-> IF d = b THEN P ELSE IF d = c THEN Q ELSE ks[d]]
  BY <1>1 DEF KeysIn
<1>4. KidsIn(t3, W2) = [d \in W2 |-> IF d = b THEN L ELSE IF d = c THEN R ELSE ds[d]]
  BY <1>2 DEF KidsIn
<1> QED BY <1>3, <1>4 DEF IsSplit, W2, P, Q, L, R

-----------------------------------------------------------------------------
(***************************************************************************)
(* What a split writes.                                                    *)
(***************************************************************************)
\* An index with a tree, and one in which the key k goes up along path, with the block kid.
Good(h, K, low, high, t) ==
  \E W, lev, lo, hi : Form(h, K, low, high, t, W, lev, lo, hi, 0, 0, {})
\* A block at the end of path was split: the key k and the new block kid are to
\* go into its parent.
Pending(h, K, low, high, t, path, k, kid) ==
  \E W, lev, lo, hi, x :
    /\ Form(h, K, low, high, t, W, lev, lo, hi, x, kid, {})
    /\ hi[x] = k /\ Leg(W, KeysIn(t, W), KidsIn(t, W), lev, t.root, path, x)

\* The blocks above b are those of t.
SameAbove(t, W, lev, b, ks1, ds1) ==
  \A d \in W : lev[d] > lev[b] => ks1[d] = KeysIn(t, W)[d] /\ ds1[d] = KidsIn(t, W)[d]

\* After a block was split and written, the key in the middle and the new block
\* are pending for its parent.
LEMMA AfterSplit ==
  ASSUME NEW K, Ordered(K), NEW h, NEW low, NEW high, NEW t, NEW W, NEW lev, NEW lo, NEW hi,
         NEW path, NEW b, b \in W, Leg(W, KeysIn(t, W), KidsIn(t, W), lev, t.root, path, b),
         NEW ks1, NEW ds1, SameAbove(t, W, lev, b, ks1, ds1),
         Shape(K, low, high, W, t.root, ks1, ds1, lev, lo, hi, 0, 0, {}),
         NEW m, m \in 2 .. Len(ks1[b]) - 1, NEW c, c \in Nat \ {0}, c \notin W,
         NEW t3, Stored(h, K, t3, W \cup {c}), t3.root = t.root,
         IsSplit(ks1, ds1, b, m, c, W \cup {c}, KeysIn(t3, W \cup {c}), KidsIn(t3, W \cup {c}))
  PROVE  Pending(h, K, low, high, t3, path, ks1[b][m], c)
<1> DEFINE W2 == W \cup {c}
           ks2 == KeysIn(t3, W2)
           ds2 == KidsIn(t3, W2)
           k == ks1[b][m]
<1>1. ks1[b] \in Seq(K) /\ lev \in [W -> Nat] /\ W \subseteq Nat
  BY DEF Shape, ShapeTypes
<1>2. m \in 1 .. Len(ks1[b]) /\ m # 1 /\ m # Len(ks1[b])
  BY <1>1, LenProperties
<1>3. StillEmpty(W, b, b, {}, {})
  BY DEF StillEmpty
<1>4. Stored(h, K, t3, W2) /\ W2 = W \cup {c} /\ IsSplit(ks1, ds1, b, m, c, W2, ks2, ds2) /\ t.root = t3.root
  OBVIOUS
<1> HIDE DEF W2, ks2, ds2, k
<1>5. Opened(K, low, high, W2, t.root, ks2, ds2, {}, W, lev, b, c, ks1[b][m])
  BY ONLY Ordered(K), Shape(K, low, high, W, t.root, ks1, ds1, lev, lo, hi, 0, 0, {}), b \in W,
     <1>2, c \in Nat \ {0}, c \notin W, <1>3, <1>4, Split
<1>6. PICK lev2 \in [W2 -> Nat], lo2 \in [W2 -> K], hi2 \in [W2 -> K] :
        /\ Shape(K, low, high, W2, t.root, ks2, ds2, lev2, lo2, hi2, b, c, {})
        /\ hi2[b] = k /\ \A d \in W : lev2[d] = lev[d]
  BY <1>5 DEF Opened, k
<1>7. Form(h, K, low, high, t3, W2, lev2, lo2, hi2, b, c, {})
  BY <1>4, <1>6 DEF Form, ks2, ds2
<1>8. b \in W2 /\ lev2[b] = lev[b]
  BY <1>4, <1>6
<1>9. ASSUME NEW d \in W, lev[d] > lev[b]
      PROVE  d \in W2 /\ ks2[d] = KeysIn(t, W)[d] /\ ds2[d] = KidsIn(t, W)[d] /\ lev2[d] = lev[d]
  <2>1. d # b /\ d # c /\ d \in W2
    BY <1>1, <1>4, <1>9
  <2>2. ks2[d] = ks1[d] /\ ds2[d] = ds1[d]
    BY <1>4, <2>1 DEF IsSplit
  <2> QED BY <1>6, <1>9, <2>1, <2>2 DEF SameAbove
<1>10. Leg(W2, ks2, ds2, lev2, t.root, path, b)
  <2> DEFINE kt == KeysIn(t, W)
             dt == KidsIn(t, W)
             a == t.root
  <2>1. KeptAbove(W, kt, dt, lev, b, W2, ks2, ds2, lev2)
    BY <1>9 DEF KeptAbove
  <2>2. Leg(W, kt, dt, lev, a, path, b)
    OBVIOUS
  <2> HIDE DEF kt, dt, a
  <2>3. Leg(W2, ks2, ds2, lev2, a, path, b)
    BY ONLY <1>1, <1>8, <2>1, <2>2, LegKept
  <2> QED BY <2>3 DEF a
<1>11. Leg(W2, KeysIn(t3, W2), KidsIn(t3, W2), lev2, t3.root, path, b)
  BY <1>4, <1>10 DEF ks2, ds2
<1> QED BY <1>6, <1>7, <1>11 DEF Pending, k

\* Two blocks of one depth under p gave keys to each other in t2.
LEMMA ViewRotation ==
  ASSUME NEW t2, NEW W, NEW ks, NEW ds, NEW p, NEW i, NEW l, NEW r, p \in W, l \in W, r \in W,
         p # l, p # r, l # r, NEW J, NEW DJ, NEW m,
         \A d \in W : d \notin {l, r, p} => t2.blk[d].keys = ks[d],
         \A d \in W : d \notin {l, r} => KidsOf(t2.blk[d]) = ds[d],
         t2.blk[l].keys = SubSeq(J, 1, m - 1), KidsOf(t2.blk[l]) = LeftKids(DJ, m),
         t2.blk[r].keys = SubSeq(J, m + 1, Len(J)), KidsOf(t2.blk[r]) = RightKids(DJ, m),
         t2.blk[p].keys = [ks[p] EXCEPT ![i] = J[m]]
  PROVE  IsRotation(ks, ds, p, i, l, r, J, DJ, m, W, KeysIn(t2, W), KidsIn(t2, W))
<1> DEFINE P == SubSeq(J, 1, m - 1)
           Q == SubSeq(J, m + 1, Len(J))
           L == LeftKids(DJ, m)
           R == RightKids(DJ, m)
           U == [ks[p] EXCEPT ![i] = J[m]]
<1>1. \A d \in W : t2.blk[d].keys = IF d = l THEN P ELSE IF d = r THEN Q ELSE IF d = p THEN U ELSE ks[d]
  <2> HIDE DEF P, Q, U
  <2>1. t2.blk[l].keys = P /\ t2.blk[r].keys = Q /\ t2.blk[p].keys = U
    BY DEF P, Q, U
  <2> QED BY <2>1
<1>2. \A d \in W : KidsOf(t2.blk[d]) = IF d = l THEN L ELSE IF d = r THEN R ELSE ds[d]
  OBVIOUS
<1> HIDE DEF P, Q, L, R, U
<1>3. KeysIn(t2, W) = [d \in W |-> IF d = l THEN P ELSE IF d = r THEN Q ELSE IF d = p THEN U ELSE ks[d]]
  BY <1>1 DEF KeysIn
<1>4. KidsIn(t2, W) = [d \in W |-> IF d = l THEN L ELSE IF d = r THEN R ELSE ds[d]]
  BY <1>2 DEF KidsIn
<1> QED BY <1>3, <1>4 DEF IsRotation, P, Q, L, R, U

\* Two brothers are different blocks, one level below their parent.
LEMMA BrotherFacts ==
  ASSUME NEW K, Ordered(K), NEW low, NEW high, NEW W, NEW root, NEW ks, NEW ds, NEW lev,
         NEW lo, NEW hi, NEW x, NEW kid, NEW E,
         Shape(K, low, high, W, root, ks, ds, lev, lo, hi, x, kid, E),
         NEW p, p \in W, ds[p] # <<>>, NEW i, i \in 1 .. Len(ks[p]), NEW l, NEW r, Brothers(ds, p, i, l, r)
  PROVE  /\ l \in W /\ r \in W /\ l # r /\ l # p /\ r # p
         /\ lev[l] + 1 = lev[p] /\ lev[r] + 1 = lev[p] /\ lev[p] \in Nat /\ lev[l] \in Nat /\ lev[r] \in Nat
         /\ (ds[l] = <<>>) <=> (ds[r] = <<>>)
<1>1. Len(ks[p]) \in Nat /\ lev[p] \in Nat
  BY BlockFacts
<1>2. i \in 1 .. Len(ks[p]) + 1 /\ i + 1 \in 1 .. Len(ks[p]) + 1 /\ i # i + 1
  BY <1>1
<1>3. l = ds[p][i] /\ r = ds[p][i + 1]
  BY DEF Brothers
<1>4. l \in W /\ lev[l] + 1 = lev[p] /\ lev[l] \in Nat
  BY <1>2, <1>3, PlaceFacts
<1>5. r \in W /\ lev[r] + 1 = lev[p] /\ lev[r] \in Nat
  BY <1>2, <1>3, PlaceFacts
<1>6. l # r
  BY <1>2, <1>3, OnePlace
<1>7. lev[l] = lev[r] /\ lev[l] # lev[p]
  BY <1>1, <1>4, <1>5
<1>8. ((lev[l] = 0) <=> (ds[l] = <<>>)) /\ ((lev[r] = 0) <=> (ds[r] = <<>>))
  BY <1>4, <1>5, BlockFacts
<1> QED BY <1>1, <1>4, <1>5, <1>6, <1>7, <1>8

\* A leaf gains a key between those beside it: the shape stays, what may not
\* fit is its size.
LEMMA GainAt ==
  ASSUME NEW K, Ordered(K), NEW h, NEW low, NEW high, NEW t, NEW W, NEW lev, NEW lo, NEW hi,
         Form(h, K, low, high, t, W, lev, lo, hi, 0, 0, {}), NEW b, b \in W, NEW i, NEW k,
         Belongs(K, KeysIn(t, W), KidsIn(t, W), lo, hi, b, i, k),
         NEW keys, keys = InsertAt(t.blk[b].keys, i, k), NEW ks1, ks1 = With(KeysIn(t, W), b, keys)
  PROVE  /\ Shape(K, low, high, W, t.root, ks1, KidsIn(t, W), lev, lo, hi, 0, 0, {})
         /\ keys \in Seq(K) /\ Len(keys) = Len(t.blk[b].keys) + 1 /\ t.blk[b].keys \in Seq(K)
         /\ ks1[b] = keys /\ (\A d \in W : d # b => ks1[d] = KeysIn(t, W)[d])
         /\ KidsIn(t, W)[b] = <<>> /\ i \in 1 .. Len(t.blk[b].keys) + 1 /\ k \in K
<1> DEFINE ks == KeysIn(t, W)
           ds == KidsIn(t, W)
<1>1. Shape(K, low, high, W, t.root, ks, ds, lev, lo, hi, 0, 0, {})
  BY DEF Form
<1>2. ks[b] = t.blk[b].keys /\ DOMAIN ks = W
  BY ViewIs
<1>3. Belongs(K, ks, ds, lo, hi, b, i, k) /\ ks1 = With(ks, b, keys)
  OBVIOUS
<1> HIDE DEF ks, ds
<1>4. ks[b] \in Seq(K)
  BY <1>1 DEF Shape, ShapeTypes
<1>5. keys = InsertAt(ks[b], i, k) /\ i \in 1 .. Len(ks[b]) + 1 /\ k \in K /\ ds[b] = <<>>
  BY <1>2, <1>3 DEF Belongs
<1>6. InsertAt(ks[b], i, k) \in Seq(K) /\ Len(InsertAt(ks[b], i, k)) = Len(ks[b]) + 1
  <2> DEFINE s == ks[b]
  <2>1. s \in Seq(K) /\ i \in 1 .. Len(s) + 1 /\ k \in K
    BY <1>4, <1>5
  <2> HIDE DEF s
  <2>2. InsertAt(s, i, k) \in Seq(K) /\ Len(InsertAt(s, i, k)) = Len(s) + 1
    BY <2>1, InsertIs
  <2> QED BY <2>2 DEF s
<1>7. ks1 = With(ks, b, InsertAt(ks[b], i, k))
  BY <1>3, <1>5
<1>8. Shape(K, low, high, W, t.root, ks1, ds, lev, lo, hi, 0, 0, {})
  BY ONLY Ordered(K), b \in W, <1>1, <1>3, <1>7, GainKey
<1>9. ks1[b] = keys /\ \A d \in W : d # b => ks1[d] = ks[d]
  BY <1>2, <1>3 DEF With
<1> QED BY <1>2, <1>4, <1>5, <1>6, <1>8, <1>9 DEF ks, ds

\* The key fits into its leaf.
LEMMA LeafGains ==
  ASSUME NEW K, Ordered(K), NEW h, NEW low, NEW high, NEW t, NEW W, NEW lev, NEW lo, NEW hi,
         Form(h, K, low, high, t, W, lev, lo, hi, 0, 0, {}), NEW b, b \in W, NEW i, NEW k,
         Belongs(K, KeysIn(t, W), KidsIn(t, W), lo, hi, b, i, k),
         NEW keys, keys = InsertAt(t.blk[b].keys, i, k), VSize(h, keys) <= h.blksize
  PROVE  Good(h, K, low, high, Put(t, b, Leaf(keys)))
<1> DEFINE t2 == Put(t, b, Leaf(keys))
           ks1 == With(KeysIn(t, W), b, keys)
<1>1. ks1 = With(KeysIn(t, W), b, keys)
  OBVIOUS
<1> HIDE DEF ks1
<1>2. /\ Shape(K, low, high, W, t.root, ks1, KidsIn(t, W), lev, lo, hi, 0, 0, {})
      /\ keys \in Seq(K) /\ KidsIn(t, W)[b] = <<>>
  BY <1>1, GainAt
<1>3. TreeNode(h, K, Leaf(keys)) /\ Leaf(keys).keys = keys /\ KidsOf(Leaf(keys)) = <<>>
  BY <1>2, TreeNodes
<1>4. Stored(h, K, t, W)
  BY DEF Form
<1>5. Stored(h, K, t2, W) /\ t2.root = t.root /\ Wrote(t, t2, W, b, Leaf(keys))
  BY <1>3, <1>4, StoredPut
<1> HIDE DEF t2
<1>6. KeysIn(t2, W) = ks1 /\ KidsIn(t2, W) = With(KidsIn(t, W), b, <<>>)
  BY <1>1, <1>3, <1>5, ViewPut
<1>7. KidsIn(t2, W) = KidsIn(t, W)
  BY <1>2, <1>6, ViewIs DEF With
<1>8. Form(h, K, low, high, t2, W, lev, lo, hi, 0, 0, {})
  BY <1>2, <1>5, <1>6, <1>7 DEF Form
<1> QED BY <1>8 DEF Good, t2

\* The leaf is split.
LEMMA LeafSplits ==
  ASSUME NEW K, Ordered(K), NEW h, NEW low, NEW high, NEW t, NEW W, NEW lev, NEW lo, NEW hi,
         Form(h, K, low, high, t, W, lev, lo, hi, 0, 0, {}), NEW b, b \in W, NEW i, NEW k,
         Belongs(K, KeysIn(t, W), KidsIn(t, W), lo, hi, b, i, k),
         NEW path, Leg(W, KeysIn(t, W), KidsIn(t, W), lev, t.root, path, b),
         NEW keys, keys = InsertAt(t.blk[b].keys, i, k), NEW n, n \in 2 .. Len(keys) - 1,
         VSize(h, SubSeq(keys, 1, n - 1)) <= h.blksize, VSize(h, SubSeq(keys, n + 1, Len(keys))) <= h.blksize,
         NEW split, split = Put(t, b, Leaf(SubSeq(keys, 1, n - 1)))
  PROVE  /\ Pending(h, K, low, high, Add(split, Leaf(SubSeq(keys, n + 1, Len(keys)))), path, keys[n], NewBlock(split))
         /\ split.root = t.root
<1> DEFINE ks1 == With(KeysIn(t, W), b, keys)
           ds == KidsIn(t, W)
           left == SubSeq(keys, 1, n - 1)
           right == SubSeq(keys, n + 1, Len(keys))
           c == NewBlock(split)
           t3 == Add(split, Leaf(right))
<1>1. ks1 = With(KeysIn(t, W), b, keys) /\ ds = KidsIn(t, W)
  OBVIOUS
<1> HIDE DEF ks1
<1>2. /\ Shape(K, low, high, W, t.root, ks1, ds, lev, lo, hi, 0, 0, {})
      /\ keys \in Seq(K) /\ ks1[b] = keys /\ (\A d \in W : d # b => ks1[d] = KeysIn(t, W)[d]) /\ ds[b] = <<>>
  BY <1>1, GainAt
<1>3. left \in Seq(K) /\ right \in Seq(K) /\ n \in 1 .. Len(keys) /\ Len(keys) \in Nat
  BY <1>2, PartsIs, LenProperties
<1>4. VSize(h, left) <= h.blksize /\ VSize(h, right) <= h.blksize /\ split = Put(t, b, Leaf(left))
  OBVIOUS
<1> HIDE DEF left, right, ds
<1>5. /\ TreeNode(h, K, Leaf(left)) /\ Leaf(left).keys = left /\ KidsOf(Leaf(left)) = <<>>
      /\ TreeNode(h, K, Leaf(right)) /\ Leaf(right).keys = right /\ KidsOf(Leaf(right)) = <<>>
  BY <1>3, <1>4, TreeNodes
<1>6. Stored(h, K, t, W)
  BY DEF Form
<1>7. Stored(h, K, split, W) /\ split.root = t.root /\ Wrote(t, split, W, b, Leaf(left))
  BY <1>4, <1>5, <1>6, StoredPut
<1>8. /\ c \in Nat \ {0} /\ c \notin W
      /\ Stored(h, K, t3, W \cup {c}) /\ t3.root = split.root /\ Wrote(split, t3, W, c, Leaf(right))
  BY <1>5, <1>7, StoredAdd, SMTT(60)
<1> HIDE DEF c, t3
<1>9. /\ t3.blk[c] = Leaf(right) /\ t3.blk[b] = Leaf(left)
      /\ \A d \in W : d # b => t3.blk[d] = t.blk[d]
  BY <1>7, <1>8 DEF Wrote
<1>10. \A d \in W : d # b => t3.blk[d].keys = ks1[d] /\ KidsOf(t3.blk[d]) = ds[d]
  BY <1>1, <1>2, <1>9, ViewIs DEF ds
<1>11. LeftKids(ds[b], n) = <<>> /\ RightKids(ds[b], n) = <<>>
  BY <1>2 DEF LeftKids, RightKids
<1>12. /\ t3.blk[b].keys = SubSeq(ks1[b], 1, n - 1) /\ KidsOf(t3.blk[b]) = LeftKids(ds[b], n)
       /\ t3.blk[c].keys = SubSeq(ks1[b], n + 1, Len(ks1[b])) /\ KidsOf(t3.blk[c]) = RightKids(ds[b], n)
  BY <1>2, <1>5, <1>9, <1>11 DEF left, right
<1>13. IsSplit(ks1, ds, b, n, c, W \cup {c}, KeysIn(t3, W \cup {c}), KidsIn(t3, W \cup {c}))
  BY <1>8, <1>10, <1>12, ViewSplit
<1>14. SameAbove(t, W, lev, b, ks1, ds)
  <2>1. lev \in [W -> Nat]
    BY <1>2 DEF Shape, ShapeTypes
  <2> SUFFICES ASSUME NEW d \in W, lev[d] > lev[b]
               PROVE  ks1[d] = KeysIn(t, W)[d] /\ ds[d] = KidsIn(t, W)[d]
    BY DEF SameAbove
  <2>2. d # b
    BY <2>1
  <2> QED BY <1>2, <2>2 DEF ds
<1>15. n \in 2 .. Len(ks1[b]) - 1 /\ t3.root = t.root /\ keys[n] = ks1[b][n]
  BY <1>2, <1>7, <1>8
<1>16. Leg(W, KeysIn(t, W), KidsIn(t, W), lev, t.root, path, b)
  OBVIOUS
<1>17. Pending(h, K, low, high, t3, path, ks1[b][n], c)
  BY ONLY Ordered(K), b \in W, <1>2, <1>8, <1>13, <1>14, <1>15, <1>16, AfterSplit
<1> QED BY <1>7, <1>15, <1>17 DEF t3, c, right

-----------------------------------------------------------------------------
(***************************************************************************)
(* What two brothers write that share their keys anew, and an overfull     *)
(* leaf with its right brother.                                            *)
(***************************************************************************)
\* An index after a change that keeps its blocks.
LEMMA AfterReshape ==
  ASSUME NEW K, NEW h, NEW low, NEW high, NEW t2, NEW W, NEW lev, Stored(h, K, t2, W),
         Reshaped(K, low, high, W, t2.root, KeysIn(t2, W), KidsIn(t2, W), {}, W, lev)
  PROVE  Good(h, K, low, high, t2)
<1>1. PICK lev2 \in [W -> Nat], lo2 \in [W -> K], hi2 \in [W -> K] :
        Shape(K, low, high, W, t2.root, KeysIn(t2, W), KidsIn(t2, W), lev2, lo2, hi2, 0, 0, {})
  BY DEF Reshaped
<1>2. Form(h, K, low, high, t2, W, lev2, lo2, hi2, 0, 0, {})
  BY <1>1 DEF Form
<1> QED BY <1>2 DEF Good

\* What SubSeq gives between two places.
LEMMA SliceIs ==
  ASSUME NEW S, NEW s, s \in Seq(S), NEW m, m \in Nat, NEW k, k = m + 1, NEW n, n \in Nat, m <= n, n <= Len(s),
         NEW d, d = n - m
  PROVE  /\ SubSeq(s, k, n) \in Seq(S) /\ Len(SubSeq(s, k, n)) = d
         /\ \A i \in 1 .. d : SubSeq(s, k, n)[i] = s[m + i]
<1>1. m + 1 \in 1 .. Len(s) + 1 /\ n \in 0 .. Len(s) /\ m + 1 <= n + 1 /\ Len(s) \in Nat
  BY LenProperties
<1>2. /\ SubSeq(s, m + 1, n) \in Seq(S) /\ Len(SubSeq(s, m + 1, n)) = n - (m + 1) + 1
      /\ \A i \in 1 .. n - (m + 1) + 1 : SubSeq(s, m + 1, n)[i] = s[m + 1 + i - 1]
  BY <1>1, SubSeqIs
<1>3. n - (m + 1) + 1 = d /\ \A i \in Int : m + 1 + i - 1 = m + i
  OBVIOUS
<1> QED BY <1>2, <1>3

\* What SubSeq gives from the first place on.
LEMMA FirstIs ==
  ASSUME NEW S, NEW s, s \in Seq(S), NEW n, n \in Nat, n <= Len(s)
  PROVE  /\ SubSeq(s, 1, n) \in Seq(S) /\ Len(SubSeq(s, 1, n)) = n
         /\ \A i \in 1 .. n : SubSeq(s, 1, n)[i] = s[i]
<1>1. 0 \in Nat /\ 1 = 0 + 1 /\ 0 <= n /\ n = n - 0 /\ \A i \in Int : 0 + i = i
  OBVIOUS
<1>2. /\ SubSeq(s, 1, n) \in Seq(S) /\ Len(SubSeq(s, 1, n)) = n
      /\ \A i \in 1 .. n : SubSeq(s, 1, n)[i] = s[0 + i]
  BY <1>1, SliceIs
<1> QED BY <1>1, <1>2

\* All keys of s, e and u, and those behind n + 1.
AllKeys(s, e, u) == s \o <<e>> \o u
MovedKeys(s, n, e, u) == SubSeq(s, n + 2, Len(s)) \o <<e>> \o u
IsMoved(K, s, n, e, u, m, J) ==
  /\ J \in Seq(K) /\ Len(J) = Len(s) + 1 + Len(u)
  /\ m \in 1 .. Len(J) /\ SubSeq(J, 1, m - 1) = SubSeq(s, 1, n) /\ J[m] = s[m]
  /\ SubSeq(J, m + 1, Len(J)) = MovedKeys(s, n, e, u)

\* The keys that xioxins moves to the leaf on the right, with the one between
\* them.
LEMMA MovedIs ==
  ASSUME NEW K, NEW s, NEW u, NEW e, NEW n, s \in Seq(K), u \in Seq(K), e \in K, n \in 0 .. Len(s) - 1,
         NEW m, m = n + 1, NEW J, J = AllKeys(s, e, u)
  PROVE  IsMoved(K, s, n, e, u, m, J)
<1> USE DEF AllKeys
<1> DEFINE a == Len(s)
           z == Len(u)
           R == SubSeq(s, n + 2, a)
           M == R \o <<e>> \o u
           L == SubSeq(J, n + 2, Len(J))
           P == SubSeq(J, 1, n)
           Q == SubSeq(s, 1, n)
<1>1. a \in Nat /\ z \in Nat /\ n \in Nat /\ n + 1 <= a
  BY LenProperties
<1>2. /\ J \in Seq(K) /\ Len(J) = a + 1 + z /\ (\A i \in 1 .. a : J[i] = s[i]) /\ J[a + 1] = e
      /\ \A i \in 1 .. z : J[a + 1 + i] = u[i]
  BY JoinIs
<1>3. R \in Seq(K) /\ Len(R) = a - n - 1 /\ \A i \in 1 .. a - n - 1 : R[i] = s[n + 1 + i]
  <2> DEFINE q == n + 1
             k == n + 2
             d == a - n - 1
  <2>1. q \in Nat /\ q <= a /\ a <= Len(s) /\ k = q + 1 /\ d = a - q /\ s \in Seq(K) /\ a \in Nat
    BY <1>1
  <2> HIDE DEF q, k, d, a
  <2>2. SubSeq(s, k, a) \in Seq(K) /\ Len(SubSeq(s, k, a)) = d /\ \A i \in 1 .. d : SubSeq(s, k, a)[i] = s[q + i]
    BY ONLY <2>1, SliceIs
  <2> QED BY <2>2 DEF q, k, d, a
<1>4. Q \in Seq(K) /\ Len(Q) = n /\ \A i \in 1 .. n : Q[i] = s[i]
  <2>1. n <= Len(s)
    BY <1>1
  <2> QED BY <1>1, <2>1, FirstIs
<1>5. P \in Seq(K) /\ Len(P) = n /\ \A i \in 1 .. n : P[i] = J[i]
  <2>1. n <= Len(J)
    BY <1>1, <1>2
  <2> QED BY <1>1, <1>2, <2>1, FirstIs
<1>6. L \in Seq(K) /\ Len(L) = a + z - n /\ \A i \in 1 .. a + z - n : L[i] = J[n + 1 + i]
  <2> DEFINE j == Len(J)
             q == n + 1
             k == n + 2
             d == a + z - n
  <2>1. q \in Nat /\ q <= j /\ j <= Len(J) /\ k = q + 1 /\ d = j - q /\ J \in Seq(K) /\ j \in Nat
    BY <1>1, <1>2
  <2> HIDE DEF q, k, d, j
  <2>2. SubSeq(J, k, j) \in Seq(K) /\ Len(SubSeq(J, k, j)) = d /\ \A i \in 1 .. d : SubSeq(J, k, j)[i] = J[q + i]
    BY ONLY <2>1, SliceIs
  <2> QED BY <2>2 DEF q, k, d, j
<1> HIDE DEF a, z, R, L, P, Q
<1>7. /\ M \in Seq(K) /\ Len(M) = a - n - 1 + 1 + z /\ (\A i \in 1 .. a - n - 1 : M[i] = R[i])
      /\ M[a - n - 1 + 1] = e /\ \A i \in 1 .. z : M[a - n - 1 + 1 + i] = u[i]
  <2>0. R \in Seq(K)
    BY <1>3
  <2>1. /\ R \o <<e>> \o u \in Seq(K) /\ Len(R \o <<e>> \o u) = Len(R) + 1 + Len(u)
        /\ (\A i \in 1 .. Len(R) : (R \o <<e>> \o u)[i] = R[i])
        /\ (R \o <<e>> \o u)[Len(R) + 1] = e
        /\ \A i \in 1 .. Len(u) : (R \o <<e>> \o u)[Len(R) + 1 + i] = u[i]
    BY ONLY <2>0, u \in Seq(K), e \in K, JoinIs
  <2> QED BY <1>3, <2>1 DEF z
<1> HIDE DEF M
<1>8. L = M
  <2>1. Len(L) = Len(M)
    BY <1>1, <1>6, <1>7
  <2>2. ASSUME NEW i \in 1 .. Len(L) PROVE L[i] = M[i]
    <3>1. i \in 1 .. a + z - n /\ L[i] = J[n + 1 + i]
      BY <1>6
    <3>2. CASE i < a - n
      <4>1. i \in 1 .. a - n - 1 /\ n + 1 + i \in 1 .. a
        BY <1>1, <3>1, <3>2, SMTT(60)
      <4> QED BY <1>2, <1>3, <1>7, <3>1, <4>1
    <3>3. CASE i = a - n
      <4>1. n + 1 + i = a + 1 /\ i = a - n - 1 + 1
        BY <1>1, <3>3
      <4> QED BY <1>2, <1>7, <3>1, <4>1
    <3>4. CASE i > a - n
      <4>1. i - (a - n) \in 1 .. z /\ n + 1 + i = a + 1 + (i - (a - n)) /\ i = a - n - 1 + 1 + (i - (a - n))
        BY <1>1, <3>1, <3>4
      <4>2. J[n + 1 + i] = u[i - (a - n)]
        BY <1>2, <4>1
      <4>3. M[i] = u[i - (a - n)]
        BY <1>7, <4>1
      <4> QED BY <3>1, <4>2, <4>3
    <3>5. i \in Int /\ a - n \in Int /\ (i < a - n \/ i = a - n \/ i > a - n)
      BY <1>1, <3>1
    <3> QED BY <3>2, <3>3, <3>4, <3>5
  <2> QED BY <1>6, <1>7, <2>1, <2>2, SeqEqual
<1>9. P = Q
  <2>1. \A i \in 1 .. Len(P) : P[i] = Q[i]
    <3>1. \A i \in 1 .. n : i \in 1 .. a
      BY <1>1
    <3> QED BY <1>2, <1>4, <1>5, <3>1
  <2> QED BY <1>4, <1>5, <2>1, SeqEqual
<1>10. J[n + 1] = s[n + 1]
  <2>1. n + 1 \in 1 .. a
    BY <1>1
  <2> QED BY <1>2, <2>1
<1>11. m - 1 = n /\ m + 1 = n + 2 /\ m \in 1 .. Len(J) /\ Len(J) = Len(s) + 1 + Len(u)
  BY <1>1, <1>2 DEF a, z
<1> QED BY <1>2, <1>8, <1>9, <1>10, <1>11 DEF L, M, P, Q, R, a, z, IsMoved, MovedKeys

\* What is in a block fits in it.
LEMMA RoomOf ==
  ASSUME NEW K, NEW h, NEW t, NEW W, Stored(h, K, t, W), NEW b, b \in W
  PROVE  /\ t.blk[b].type = "U" => USize(h, t.blk[b].keys) <= h.blksize
         /\ t.blk[b].type = "V" => VSize(h, t.blk[b].keys) <= h.blksize
<1>1. TreeNode(h, K, t.blk[b])
  BY DEF Stored
<1> QED BY <1>1 DEF TreeNode, Room, NodeSize

\* Three blocks of the tree are written.
LEMMA ThreePuts ==
  ASSUME NEW K, NEW h, NEW t, NEW W, Stored(h, K, t, W), NEW l, NEW r, NEW p, l \in W, r \in W, p \in W,
         l # r, l # p, r # p, NEW x, NEW y, NEW z, TreeNode(h, K, x), TreeNode(h, K, y), TreeNode(h, K, z),
         NEW t2, t2 = Put(Put(Put(t, l, x), r, y), p, z)
  PROVE  /\ Stored(h, K, t2, W) /\ t2.root = t.root /\ t2.blk[l] = x /\ t2.blk[r] = y /\ t2.blk[p] = z
         /\ \A d \in W : d \notin {l, r, p} => t2.blk[d] = t.blk[d]
<1> DEFINE u == Put(t, l, x)
           v == Put(u, r, y)
<1>1. Stored(h, K, u, W) /\ u.root = t.root /\ Wrote(t, u, W, l, x)
  BY StoredPut
<1>2. t2 = Put(v, p, z)
  OBVIOUS
<1> HIDE DEF u
<1>3. Stored(h, K, v, W) /\ v.root = u.root /\ Wrote(u, v, W, r, y)
  BY <1>1, StoredPut
<1> HIDE DEF v
<1>4. Stored(h, K, t2, W) /\ t2.root = v.root /\ Wrote(v, t2, W, p, z)
  <2>1. Stored(h, K, Put(v, p, z), W) /\ Put(v, p, z).root = v.root /\ Wrote(v, Put(v, p, z), W, p, z)
    BY ONLY <1>3, p \in W, TreeNode(h, K, z), StoredPut
  <2> QED BY ONLY <1>2, <2>1
<1>5. u.blk[l] = x /\ \A d \in W : d # l => u.blk[d] = t.blk[d]
  BY <1>1 DEF Wrote
<1>6. v.blk[r] = y /\ \A d \in W : d # r => v.blk[d] = u.blk[d]
  BY <1>3 DEF Wrote
<1>7. t2.blk[p] = z /\ \A d \in W : d # p => t2.blk[d] = v.blk[d]
  BY <1>4 DEF Wrote
<1> QED BY <1>1, <1>3, <1>4, <1>5, <1>6, <1>7

\* A U block whose key i is replaced.
NewKey(node, i, e) == [node EXCEPT !.keys[i] = e]
HasNewKey(node, i, e, z) == z.keys = With(node.keys, i, e) /\ KidsOf(z) = node.kids

\* A branch with another key in the place of one fits: entries of branches have
\* one size.
LEMMA OtherKey ==
  ASSUME NEW K, NEW h, Header(h), NEW t, NEW W, Stored(h, K, t, W), NEW p, p \in W, t.blk[p].type = "U",
         NEW i, i \in 1 .. Len(t.blk[p].keys), NEW e, e \in K, NEW z, z = NewKey(t.blk[p], i, e)
  PROVE  TreeNode(h, K, z) /\ HasNewKey(t.blk[p], i, e, z)
<1> DEFINE s == t.blk[p].keys
           d == t.blk[p].kids
           u == [s EXCEPT ![i] = e]
<1>1. s \in Seq(K) /\ d \in Seq(Nat) /\ d # <<>> /\ t.blk[p] = Branch(s, d)
  BY StoredBlock
<1>2. USize(h, s) <= h.blksize
  BY RoomOf
<1>3. u \in Seq(K) /\ Len(u) = Len(s)
  <2> DEFINE n == Len(s)
  <2>1. s \in [1 .. n -> K] /\ n \in Nat
    BY <1>1, LenProperties
  <2>2. u \in [1 .. n -> K]
    BY <2>1
  <2> HIDE DEF u
  <2> QED BY <2>1, <2>2, IsSeq, ZenonT(60)
<1>4. z = Branch(u, d)
  <2> DEFINE node == t.blk[p]
  <2>1. node = Branch(s, d) /\ z = [node EXCEPT !.keys[i] = e]
    BY <1>1 DEF NewKey
  <2> HIDE DEF node, s, d
  <2> QED BY <2>1 DEF Branch
<1> HIDE DEF s, d, u
<1>5. USize(h, u) <= h.blksize
  <2>1. Len(u) \in Nat /\ Len(s) \in Nat /\ Len(u) <= Len(s)
    BY <1>1, <1>3, LenProperties
  <2> QED BY <1>2, <2>1, FewerFit
<1>6. TreeNode(h, K, Branch(u, d)) /\ Branch(u, d).keys = u /\ KidsOf(Branch(u, d)) = d
  BY <1>1, <1>3, <1>5, TreeNodes
<1> QED BY <1>4, <1>6 DEF s, d, u, With, HasNewKey

SameKeysBut(t, W, l, ks) == \A d \in W : d # l => ks[d] = t.blk[d].keys
ArePartsOf(J, DJ, m, x, y) ==
  /\ x.keys = SubSeq(J, 1, m - 1) /\ KidsOf(x) = LeftKids(DJ, m)
  /\ y.keys = SubSeq(J, m + 1, Len(J)) /\ KidsOf(y) = RightKids(DJ, m)

\* Two brothers that shared their keys anew are written with their parent: the
\* tree is sound.
LEMMA Rotation ==
  ASSUME NEW K, Ordered(K), NEW h, Header(h), NEW low, NEW high, NEW t, NEW W, Stored(h, K, t, W),
         NEW ks, NEW ds, ds = KidsIn(t, W), NEW lev, NEW lo, NEW hi, NEW E,
         Shape(K, low, high, W, t.root, ks, ds, lev, lo, hi, 0, 0, E),
         NEW p, p \in W, ds[p] # <<>>, NEW i, i \in 1 .. Len(ks[p]), NEW l, NEW r, Brothers(ds, p, i, l, r),
         SameKeysBut(t, W, l, ks),
         NEW J, J = Between(ks, p, i, l, r), NEW DJ, DJ = ds[l] \o ds[r], NEW m, m \in 2 .. Len(J) - 1,
         StillEmpty(W, l, r, E, {}), NEW x, TreeNode(h, K, x), NEW y, TreeNode(h, K, y),
         ArePartsOf(J, DJ, m, x, y),
         NEW z, z = NewKey(t.blk[p], i, J[m])
  PROVE  Good(h, K, low, high, Put(Put(Put(t, l, x), r, y), p, z))
<1> DEFINE t2 == Put(Put(Put(t, l, x), r, y), p, z)
<1>1. /\ l \in W /\ r \in W /\ l # r /\ l # p /\ r # p
  BY ONLY Ordered(K), Shape(K, low, high, W, t.root, ks, ds, lev, lo, hi, 0, 0, E), p \in W, ds[p] # <<>>,
     i \in 1 .. Len(ks[p]), Brothers(ds, p, i, l, r), BrotherFacts
<1>2. /\ t.blk[p].type = "U" /\ ks[p] = t.blk[p].keys /\ ds[p] = t.blk[p].kids
  <2>1. ds[p] = KidsOf(t.blk[p])
    BY ViewIs
  <2> QED BY <1>1, <2>1 DEF KidsOf, SameKeysBut
<1>3. /\ ks[l] \in Seq(K) /\ ks[r] \in Seq(K) /\ ks[p] \in Seq(K) /\ ks[p][i] \in K
  <2>1. ks[l] \in Seq(K) /\ ks[r] \in Seq(K) /\ ks[p] \in Seq(K)
    BY <1>1 DEF Shape, ShapeTypes
  <2> QED BY <2>1, ElementOfSeq
<1>4. J \in Seq(K) /\ Len(J) \in Nat
  <2> DEFINE e == ks[p][i]
  <2>1. J = ks[l] \o <<e>> \o ks[r] /\ e \in K
    BY <1>3 DEF Between
  <2> HIDE DEF e
  <2>2. ks[l] \o <<e>> \o ks[r] \in Seq(K)
    BY ONLY <1>3, <2>1, JoinIs
  <2> QED BY ONLY <2>1, <2>2, LenProperties
<1>5. m \in 1 .. Len(J) /\ m # 1 /\ m # Len(J) /\ J[m] \in K
  <2>1. m \in 1 .. Len(J) /\ m # 1 /\ m # Len(J)
    <3> DEFINE n == Len(J)
    <3>1. n \in Nat /\ m \in 2 .. n - 1
      BY <1>4
    <3> HIDE DEF n
    <3>2. m \in 1 .. n /\ m # 1 /\ m # n
      BY ONLY <3>1
    <3> QED BY <3>2 DEF n
  <2> QED BY <1>4, <2>1, ElementOfSeq
<1>6. TreeNode(h, K, z) /\ z.keys = [ks[p] EXCEPT ![i] = J[m]] /\ KidsOf(z) = ds[p]
  <2> DEFINE e == J[m]
  <2>1. e \in K /\ z = NewKey(t.blk[p], i, e) /\ i \in 1 .. Len(t.blk[p].keys)
    BY <1>2, <1>5
  <2> HIDE DEF e
  <2>2. TreeNode(h, K, z) /\ HasNewKey(t.blk[p], i, e, z)
    BY ONLY Header(h), Stored(h, K, t, W), p \in W, <1>2, <2>1, OtherKey
  <2> QED BY <1>2, <2>2 DEF e, With, HasNewKey
<1>7. /\ Stored(h, K, t2, W) /\ t2.root = t.root /\ t2.blk[l] = x /\ t2.blk[r] = y /\ t2.blk[p] = z
      /\ \A d \in W : d \notin {l, r, p} => t2.blk[d] = t.blk[d]
  <2>1. t2 = Put(Put(Put(t, l, x), r, y), p, z)
    OBVIOUS
  <2> HIDE DEF t2
  <2> QED BY ONLY <1>1, <1>6, <2>1, p \in W, Stored(h, K, t, W), TreeNode(h, K, x), TreeNode(h, K, y), ThreePuts
<1> HIDE DEF t2
<1>8. \A d \in W : d \notin {l, r, p} => t2.blk[d].keys = ks[d]
  BY <1>7 DEF SameKeysBut
<1>9. \A d \in W : d \notin {l, r} => KidsOf(t2.blk[d]) = ds[d]
  <2> TAKE d \in W
  <2>1. ds[d] = KidsOf(t.blk[d])
    BY ViewIs
  <2>2. d = p => KidsOf(t2.blk[d]) = ds[d]
    BY <1>6, <1>7
  <2>3. d \notin {l, r, p} => t2.blk[d] = t.blk[d]
    BY <1>7
  <2> QED BY <2>1, <2>2, <2>3
<1>10. t2.blk[l].keys = SubSeq(J, 1, m - 1) /\ KidsOf(t2.blk[l]) = LeftKids(DJ, m)
  BY <1>7 DEF ArePartsOf
<1>11. t2.blk[r].keys = SubSeq(J, m + 1, Len(J)) /\ KidsOf(t2.blk[r]) = RightKids(DJ, m)
  BY <1>7 DEF ArePartsOf
<1>12. t2.blk[p].keys = [ks[p] EXCEPT ![i] = J[m]]
  BY <1>6, <1>7
<1>13. IsRotation(ks, ds, p, i, l, r, J, DJ, m, W, KeysIn(t2, W), KidsIn(t2, W))
  BY <1>1, <1>8, <1>9, <1>10, <1>11, <1>12, ViewRotation
<1>14. Reshaped(K, low, high, W, t.root, KeysIn(t2, W), KidsIn(t2, W), {}, W, lev)
  <2> DEFINE ks2 == KeysIn(t2, W)
             ds2 == KidsIn(t2, W)
  <2>1. IsRotation(ks, ds, p, i, l, r, J, DJ, m, W, ks2, ds2)
    BY <1>13
  <2> DEFINE E2 == {}
             a == t.root
  <2>2. (m = 1 => l \in E2) /\ (m = Len(J) => r \in E2) /\ StillEmpty(W, l, r, E, E2)
    BY <1>5
  <2>4. Shape(K, low, high, W, a, ks, ds, lev, lo, hi, 0, 0, E)
    OBVIOUS
  <2> HIDE DEF ks2, ds2, E2, a
  <2>3. Reshaped(K, low, high, W, a, ks2, ds2, E2, W, lev)
    BY ONLY Ordered(K), <2>4, p \in W, ds[p] # <<>>,
       i \in 1 .. Len(ks[p]), Brothers(ds, p, i, l, r), J = Between(ks, p, i, l, r), DJ = ds[l] \o ds[r],
       m \in 1 .. Len(J), <1>5, <2>1, <2>2, Rotate
  <2> QED BY <2>3 DEF ks2, ds2, E2, a
<1>15. Good(h, K, low, high, t2)
  BY <1>7, <1>14, AfterReshape
<1> QED BY <1>15 DEF t2

\* A leaf gives keys to the one at its right.
IsShare(h, t, path, keys, n, p, i, r, moved, m, z) ==
  /\ path # <<>> /\ p = Last(path).blk /\ i = Last(path).off /\ i <= Len(t.blk[p].keys)
  /\ r = t.blk[p].kids[i + 1] /\ n \in 1 .. Len(keys) - 1 /\ m = n + 1
  /\ moved = MovedKeys(keys, n, t.blk[p].keys[i], t.blk[r].keys)
  /\ z = NewKey(t.blk[p], i, keys[m])
  /\ VSize(h, SubSeq(keys, 1, n)) <= h.blksize /\ VSize(h, moved) <= h.blksize

\* An overfull leaf gives keys to its right brother (889-972): the tree is
\* sound.
LEMMA LeafShares ==
  ASSUME NEW K, Ordered(K), NEW h, Header(h), NEW low, NEW high, NEW t, NEW W, NEW lev, NEW lo, NEW hi,
         Form(h, K, low, high, t, W, lev, lo, hi, 0, 0, {}), NEW b, b \in W, NEW j, NEW k,
         Belongs(K, KeysIn(t, W), KidsIn(t, W), lo, hi, b, j, k),
         NEW path, Leg(W, KeysIn(t, W), KidsIn(t, W), lev, t.root, path, b),
         NEW keys, keys = InsertAt(t.blk[b].keys, j, k), NEW n, NEW p, NEW i, NEW r, NEW moved, NEW m, NEW z,
         IsShare(h, t, path, keys, n, p, i, r, moved, m, z)
  PROVE  Good(h, K, low, high, Put(Put(Put(t, b, Leaf(SubSeq(keys, 1, n))), r, Leaf(moved)), p, z))
<1> DEFINE kt == KeysIn(t, W)
           ks == With(kt, b, keys)
           ds == KidsIn(t, W)
           left == SubSeq(keys, 1, n)
           J == Between(ks, p, i, b, r)
           DJ == ds[b] \o ds[r]
<1>1. ks = With(KeysIn(t, W), b, keys) /\ ds = KidsIn(t, W)
  OBVIOUS
<1>a. /\ Form(h, K, low, high, t, W, lev, lo, hi, 0, 0, {}) /\ b \in W /\ keys = InsertAt(t.blk[b].keys, j, k)
      /\ Belongs(K, KeysIn(t, W), KidsIn(t, W), lo, hi, b, j, k)
  OBVIOUS
<1>b. Leg(W, KeysIn(t, W), KidsIn(t, W), lev, t.root, path, b) /\ path # <<>>
  BY DEF IsShare
<1>c. p = Last(path).blk /\ i = Last(path).off /\ i <= Len(t.blk[p].keys) /\ r = t.blk[p].kids[i + 1]
  BY DEF IsShare
<1>d. n \in 1 .. Len(keys) - 1
  BY DEF IsShare
<1>e. m = n + 1
  BY DEF IsShare
<1> HIDE DEF ks
<1>2. /\ Shape(K, low, high, W, t.root, ks, ds, lev, lo, hi, 0, 0, {})
      /\ keys \in Seq(K) /\ ks[b] = keys /\ (\A d \in W : d # b => ks[d] = kt[d]) /\ ds[b] = <<>>
  BY ONLY Ordered(K), <1>1, <1>a, GainAt
<1>3. lev \in [W -> Nat] /\ Stored(h, K, t, W) /\ \A d \in W : ks[d] \in Seq(K)
  BY ONLY <1>a, <1>2 DEF Form, Shape, ShapeTypes
<1> HIDE DEF kt, ds
<1>4. LeadsTo(W, kt, ds, Last(path), b) /\ lev[p] = lev[b] + 1
  <2>1. Leg(W, kt, ds, lev, t.root, path, b)
    BY ONLY <1>b DEF kt, ds
  <2> DEFINE o == Last(path)
             a == t.root
  <2>2. Leg(W, kt, ds, lev, a, path, b)
    BY <2>1
  <2> HIDE DEF a
  <2>3. LeadsTo(W, kt, ds, Last(path), b) /\ lev[Last(path).blk] = lev[b] + 1
    BY ONLY <1>3, <1>b, <2>2, LegUp
  <2> QED BY ONLY <1>c, <2>3
<1>5. p \in W /\ ds[p] # <<>> /\ i \in 1 .. Len(kt[p]) + 1 /\ ds[p][i] = b
  BY ONLY <1>c, <1>4 DEF LeadsTo
<1>6. p # b /\ kt[p] = t.blk[p].keys /\ ks[p] = kt[p]
  <2>1. p # b
    BY ONLY <1>2, <1>5
  <2> QED BY ONLY <1>2, <1>5, <2>1, ViewIs DEF kt
<1>7. i \in 1 .. Len(ks[p])
  <2>1. ks[p] \in Seq(K) /\ Len(ks[p]) \in Nat
    BY <1>3, <1>5, LenProperties
  <2> DEFINE a == Len(ks[p])
  <2>2. a \in Nat /\ i \in 1 .. a + 1 /\ i <= a
    BY ONLY <1>5, <1>6, <1>c, <2>1
  <2> HIDE DEF a
  <2>3. i \in 1 .. a
    BY ONLY <2>2
  <2> QED BY ONLY <2>3 DEF a
<1>8. ds[p] = t.blk[p].kids /\ t.blk[p].type = "U"
  <2>1. ds[p] = KidsOf(t.blk[p])
    BY ONLY <1>5, ViewIs DEF ds
  <2> QED BY ONLY <1>5, <2>1 DEF KidsOf
<1>9. Brothers(ds, p, i, b, r)
  BY ONLY <1>5, <1>8, <1>c DEF Brothers
<1>10. r \in W /\ r # b /\ r # p /\ ds[r] = <<>>
  <2>1. r \in W /\ b # r /\ r # p /\ ((ds[b] = <<>>) <=> (ds[r] = <<>>))
    BY ONLY Ordered(K), <1>2, <1>5, <1>7, <1>9, BrotherFacts
  <2> QED BY <1>2, <2>1
<1>11. ks[r] = t.blk[r].keys
  BY ONLY <1>2, <1>10, ViewIs DEF kt
<1>12. J = AllKeys(keys, ks[p][i], t.blk[r].keys)
  BY ONLY <1>2, <1>11 DEF Between, AllKeys
<1>13. ks[p][i] \in K /\ t.blk[r].keys \in Seq(K) /\ n \in 0 .. Len(keys) - 1
  <2>1. ks[p] \in Seq(K) /\ ks[r] \in Seq(K)
    BY <1>3, <1>5, <1>10
  <2>2. n \in 0 .. Len(keys) - 1
    BY ONLY <1>d
  <2> QED BY ONLY <1>7, <1>11, <2>1, <2>2, ElementOfSeq
<1> HIDE DEF J
<1>14. J \in Seq(K) /\ Len(J) = Len(keys) + 1 + Len(t.blk[r].keys) /\ IsMoved(K, keys, n, ks[p][i], t.blk[r].keys, m, J)
  <2> DEFINE e == ks[p][i]
             u == t.blk[r].keys
  <2>1. e \in K /\ u \in Seq(K) /\ J = AllKeys(keys, e, u) /\ keys \in Seq(K) /\ m = n + 1 /\ n \in 0 .. Len(keys) - 1
    BY ONLY <1>2, <1>12, <1>13, <1>e
  <2> HIDE DEF e, u
  <2>2. IsMoved(K, keys, n, e, u, m, J)
    BY ONLY <2>1, MovedIs
  <2> QED BY ONLY <2>2 DEF e, u, IsMoved
<1>15. m \in 2 .. Len(J) - 1
  <2> DEFINE a == Len(keys)
             q == Len(t.blk[r].keys)
             w == Len(J)
  <2>1. a \in Nat /\ q \in Nat /\ n \in 1 .. a - 1 /\ w = a + 1 + q
    BY ONLY <1>2, <1>d, <1>13, <1>14, LenProperties
  <2> HIDE DEF a, q, w
  <2>2. m \in 2 .. w - 1
    BY ONLY <2>1, <1>e
  <2> QED BY ONLY <2>2 DEF w
<1>16. moved \in Seq(K)
  <2>1. SubSeq(J, m + 1, Len(J)) \in Seq(K)
    <3>1. m \in 1 .. Len(J)
      BY ONLY <1>14 DEF IsMoved
    <3> QED BY ONLY <1>14, <3>1, PartsIs
  <2>2. moved = MovedKeys(keys, n, ks[p][i], t.blk[r].keys)
    BY <1>6 DEF IsShare
  <2> QED BY ONLY <1>14, <2>1, <2>2 DEF IsMoved
<1>17. left \in Seq(K)
  <2>1. n <= Len(keys) /\ n \in Nat
    BY ONLY <1>2, <1>d, LenProperties
  <2> QED BY ONLY <1>2, <2>1, FirstIs
<1>18. VSize(h, left) <= h.blksize /\ VSize(h, moved) <= h.blksize
  BY DEF IsShare
<1> HIDE DEF left
<1>19. /\ TreeNode(h, K, Leaf(left)) /\ Leaf(left).keys = left /\ KidsOf(Leaf(left)) = <<>>
       /\ TreeNode(h, K, Leaf(moved)) /\ Leaf(moved).keys = moved /\ KidsOf(Leaf(moved)) = <<>>
  BY ONLY <1>16, <1>17, <1>18, TreeNodes
<1>20. LeftKids(DJ, m) = <<>> /\ RightKids(DJ, m) = <<>>
  <2>1. DJ = <<>>
    BY ONLY <1>2, <1>10
  <2> QED BY ONLY <2>1 DEF LeftKids, RightKids
<1>21. /\ Leaf(left).keys = SubSeq(J, 1, m - 1) /\ KidsOf(Leaf(left)) = LeftKids(DJ, m)
       /\ Leaf(moved).keys = SubSeq(J, m + 1, Len(J)) /\ KidsOf(Leaf(moved)) = RightKids(DJ, m)
       /\ z = NewKey(t.blk[p], i, J[m])
  <2>1. moved = MovedKeys(keys, n, ks[p][i], t.blk[r].keys)
    BY <1>6 DEF IsShare
  <2>2. z = NewKey(t.blk[p], i, keys[m])
    BY DEF IsShare
  <2> QED BY ONLY <1>14, <1>19, <1>20, <2>1, <2>2 DEF left, IsMoved
<1>22. SameKeysBut(t, W, b, ks)
  BY ONLY <1>2, ViewIs DEF kt, SameKeysBut
<1>23. StillEmpty(W, b, r, {}, {})
  BY DEF StillEmpty
<1>24. J = Between(ks, p, i, b, r) /\ DJ = ds[b] \o ds[r]
  BY DEF J
<1> HIDE DEF DJ
<1> DEFINE x == Leaf(left)
           y == Leaf(moved)
<1>25. /\ TreeNode(h, K, x) /\ TreeNode(h, K, y) /\ ArePartsOf(J, DJ, m, x, y)
  BY ONLY <1>19, <1>21 DEF ArePartsOf
<1> HIDE DEF x, y
<1>27. z = NewKey(t.blk[p], i, J[m])
  BY ONLY <1>21
<1>26. Good(h, K, low, high, Put(Put(Put(t, b, x), r, y), p, z))
  <2> DEFINE E0 == {}
  <2>1. Shape(K, low, high, W, t.root, ks, ds, lev, lo, hi, 0, 0, E0) /\ StillEmpty(W, b, r, E0, {})
    BY ONLY <1>2, <1>23
  <2>2. Stored(h, K, t, W) /\ ds = KidsIn(t, W) /\ p \in W /\ ds[p] # <<>> /\ i \in 1 .. Len(ks[p])
    BY ONLY <1>1, <1>3, <1>5, <1>7
  <2> HIDE DEF E0
  <2> QED BY ONLY Ordered(K), Header(h), <2>1, <2>2, <1>9, <1>15, <1>22, <1>24, <1>25, <1>27, Rotation, ZenonT(60)
<1> QED BY <1>26 DEF x, y, left

-----------------------------------------------------------------------------
(***************************************************************************)
(* An overfull leaf that is split.                                         *)
(***************************************************************************)
\* What a pending split says.
LEMMA PendingParts ==
  ASSUME NEW K, Ordered(K), NEW h, NEW low, NEW high, NEW t, NEW path, NEW k, NEW kid,
         Pending(h, K, low, high, t, path, k, kid)
  PROVE  \E W, lev, lo, hi, x :
           /\ Form(h, K, low, high, t, W, lev, lo, hi, x, kid, {}) /\ hi[x] = k
           /\ Leg(W, KeysIn(t, W), KidsIn(t, W), lev, t.root, path, x)
           /\ x \in W /\ kid \in W /\ k \in K /\ t.root \in W /\ W \subseteq Nat /\ lev \in [W -> Nat]
<1>1. PICK W, lev, lo, hi, x :
        /\ Form(h, K, low, high, t, W, lev, lo, hi, x, kid, {})
        /\ hi[x] = k /\ Leg(W, KeysIn(t, W), KidsIn(t, W), lev, t.root, path, x)
  BY DEF Pending
<1>2. Shape(K, low, high, W, t.root, KeysIn(t, W), KidsIn(t, W), lev, lo, hi, x, kid, {})
  BY <1>1 DEF Form
<1>3. /\ W \subseteq Nat \ {0} /\ t.root \in W /\ lev \in [W -> Nat] /\ hi \in [W -> K]
      /\ Hole(W, t.root, lev, lo, hi, x, kid)
  BY <1>2 DEF Shape, ShapeTypes
<1>4. x \in W
  BY <1>1 DEF Leg
<1>5. kid \in W /\ hi[x] \in K
  BY <1>3, <1>4 DEF Hole
<1> QED BY <1>1, <1>3, <1>4, <1>5

\* The key and the new block go up over the top.
LEMMA TopGrows ==
  ASSUME NEW K, Ordered(K), NEW h, Header(h), NEW low, low \in K, NEW high, high \in K, NEW t, NEW path, NEW k,
         NEW kid, Pending(h, K, low, high, t, path, k, kid), path = <<>>,
         NEW t2, t2 = [Add(t, Branch(<<k>>, <<t.root, kid>>)) EXCEPT !.root = NewBlock(t)]
  PROVE  Good(h, K, low, high, t2)
<1>1. PICK W, lev, lo, hi, x :
           /\ Form(h, K, low, high, t, W, lev, lo, hi, x, kid, {}) /\ hi[x] = k
           /\ Leg(W, KeysIn(t, W), KidsIn(t, W), lev, t.root, path, x)
           /\ x \in W /\ kid \in W /\ k \in K /\ t.root \in W /\ W \subseteq Nat /\ lev \in [W -> Nat]
  BY ONLY Ordered(K), Pending(h, K, low, high, t, path, k, kid), PendingParts
<1> DEFINE c == NewBlock(t)
           node == Branch(<<k>>, <<t.root, kid>>)
           t1 == Add(t, node)
           W2 == W \cup {c}
           ks == KeysIn(t, W)
           ds == KidsIn(t, W)
<1>2. x = t.root
  BY <1>1, LegEmpty
<1>3. TreeNode(h, K, node) /\ node.keys = <<k>> /\ KidsOf(node) = <<t.root, kid>>
  <2>1. <<k>> \in Seq(K) /\ Len(<<k>>) = 1
    BY <1>1
  <2>2. <<t.root, kid>> \in Seq(Nat) /\ <<t.root, kid>> # <<>>
    BY <1>1
  <2>3. USize(h, <<k>>) <= h.blksize
    <3>1. Stored(h, K, t, W)
      BY <1>1 DEF Form
    <3>2. t \in Indexes(h, K)
      BY <3>1 DEF Stored
    <3> DEFINE s == <<k>>
    <3>3. s \in Seq(K) /\ Len(s) \in {1, 2}
      BY <2>1
    <3> HIDE DEF s
    <3>4. USize(h, s) <= h.blksize
      BY ONLY Header(h), <3>2, <3>3, FewFit
    <3> QED BY <3>4 DEF s
  <2> DEFINE s == <<k>>
             d == <<t.root, kid>>
  <2>4. s \in Seq(K) /\ d \in Seq(Nat) /\ d # <<>> /\ USize(h, s) <= h.blksize
    BY <2>1, <2>2, <2>3
  <2> HIDE DEF s, d
  <2>5. TreeNode(h, K, Branch(s, d)) /\ Branch(s, d).keys = s /\ KidsOf(Branch(s, d)) = d
    BY ONLY <2>4, TreeNodes
  <2> QED BY <2>5 DEF s, d
<1>4. Stored(h, K, t, W)
  BY <1>1 DEF Form
<1> HIDE DEF node
<1>5. /\ c \in Nat \ {0} /\ c \notin W /\ Stored(h, K, t1, W2) /\ Wrote(t, t1, W, c, node)
  BY ONLY <1>3, <1>4, StoredAdd DEF W2, c, t1
<1>6. t2 = [t1 EXCEPT !.root = c]
  BY DEF node
<1> HIDE DEF c, t1
<1>7. Stored(h, K, t2, W2) /\ t2.root = c /\ t2.blk = t1.blk
  BY ONLY <1>5, <1>6, StoredRoot
<1>8. /\ KeysIn(t1, W2) = [d \in W2 |-> IF d = c THEN <<k>> ELSE ks[d]]
      /\ KidsIn(t1, W2) = [d \in W2 |-> IF d = c THEN <<t.root, kid>> ELSE ds[d]]
  <2>1. W2 = W \cup {c} /\ c \notin W /\ Wrote(t, t1, W, c, node)
    BY <1>5
  <2> HIDE DEF W2, ks, ds
  <2>2. IsAdded(KeysIn(t, W), KeysIn(t1, W2), W, c, node.keys) /\ IsAdded(KidsIn(t, W), KidsIn(t1, W2), W, c, KidsOf(node))
    BY ONLY <2>1, ViewIsAdded
  <2> QED BY ONLY <1>3, <2>1, <2>2 DEF IsAdded, ks, ds
<1>9. KeysIn(t2, W2) = KeysIn(t1, W2) /\ KidsIn(t2, W2) = KidsIn(t1, W2)
  BY ONLY <1>7 DEF KeysIn, KidsIn
<1> DEFINE ks2 == KeysIn(t2, W2)
           ds2 == KidsIn(t2, W2)
           root == t.root
<1>10. IsGrown(ks, ds, root, kid, hi[root], c, W2, ks2, ds2)
  BY ONLY <1>1, <1>2, <1>8, <1>9 DEF IsGrown, ks, ds, ks2, ds2, root
<1>11. Shape(K, low, high, W, root, ks, ds, lev, lo, hi, root, kid, {})
  BY ONLY <1>1, <1>2 DEF Form, ks, ds, root
<1>12. W2 = W \cup {c} /\ c \in Nat \ {0} /\ c \notin W /\ kid \in W
  BY <1>1, <1>5
<1> HIDE DEF W2, ks, ds, ks2, ds2, root
<1>13. Reshaped(K, low, high, W2, c, ks2, ds2, {}, {}, lev)
  <2> DEFINE E == {}
  <2>1. Shape(K, low, high, W, root, ks, ds, lev, lo, hi, root, kid, E)
    BY <1>11
  <2> HIDE DEF E
  <2>2. Reshaped(K, low, high, W2, c, ks2, ds2, E, {}, lev)
    BY ONLY Ordered(K), low \in K, high \in K, <1>10, <1>12, <2>1, Grow
  <2> QED BY <2>2 DEF E
<1>14. PICK lev2, lo2, hi2 : Shape(K, low, high, W2, c, ks2, ds2, lev2, lo2, hi2, 0, 0, {})
  BY ONLY <1>13 DEF Reshaped
<1>15. Form(h, K, low, high, t2, W2, lev2, lo2, hi2, 0, 0, {})
  BY ONLY <1>7, <1>14 DEF Form, ks2, ds2
<1> QED BY ONLY <1>15 DEF Good

\* Block p, at the end of the leg path, has its new keys and kids in ks1, ds1.
Taken(h, K, low, high, t, W, lev, lo, hi, p, keys, kids, ks1, ds1, path) ==
  /\ Stored(h, K, t, W) /\ t.blk[p].type = "U" /\ Len(keys) = Len(t.blk[p].keys) + 1
  /\ Shape(K, low, high, W, t.root, ks1, ds1, lev, lo, hi, 0, 0, {})
  /\ p \in W /\ ks1[p] = keys /\ ds1[p] = kids /\ SameAbove(t, W, lev, p, ks1, ds1)
  /\ ks1 = With(KeysIn(t, W), p, keys) /\ ds1 = With(KidsIn(t, W), p, kids)
  /\ \A d \in W : d # p => ks1[d] = KeysIn(t, W)[d] /\ ds1[d] = KidsIn(t, W)[d]
  /\ keys \in Seq(K) /\ kids \in Seq(Nat) /\ Len(keys) \in Nat /\ Len(keys) >= 1 /\ Len(kids) = Len(keys) + 1
  /\ Leg(W, KeysIn(t, W), KidsIn(t, W), lev, t.root, path, p)

\* The key and the new block go into the block above.
LEMMA TakesKey ==
  ASSUME NEW K, Ordered(K), NEW h, NEW low, NEW high, NEW t, NEW W, NEW lev, NEW lo, NEW hi, NEW x, NEW kid,
         Form(h, K, low, high, t, W, lev, lo, hi, x, kid, {}), NEW k, hi[x] = k, x \in W, kid \in W, k \in K,
         W \subseteq Nat, lev \in [W -> Nat],
         NEW path, Leg(W, KeysIn(t, W), KidsIn(t, W), lev, t.root, path, x), path # <<>>,
         NEW p, NEW i, p = Last(path).blk, i = Last(path).off,
         NEW keys, NEW kids, keys = InsertAt(t.blk[p].keys, i, k), kids = InsertAt(t.blk[p].kids, i + 1, kid),
         NEW ks1, NEW ds1, ks1 = With(KeysIn(t, W), p, keys), ds1 = With(KidsIn(t, W), p, kids)
  PROVE  Taken(h, K, low, high, t, W, lev, lo, hi, p, keys, kids, ks1, ds1, Front(path))
<1> DEFINE ks == KeysIn(t, W)
           ds == KidsIn(t, W)
           a == t.root
<1>a. Form(h, K, low, high, t, W, lev, lo, hi, x, kid, {}) /\ path # <<>> /\ hi[x] = k /\ x \in W /\ kid \in W
      /\ W \subseteq Nat /\ k \in K
  OBVIOUS
<1>b. p = Last(path).blk /\ i = Last(path).off
  OBVIOUS
<1>c. keys = InsertAt(t.blk[p].keys, i, k) /\ kids = InsertAt(t.blk[p].kids, i + 1, kid)
  OBVIOUS
<1>d. ks1 = With(ks, p, keys) /\ ds1 = With(ds, p, kids)
  OBVIOUS
<1>1. Leg(W, ks, ds, lev, a, path, x)
  OBVIOUS
<1>c0. path # <<>>
  OBVIOUS
<1>e. lev \in [W -> Nat]
  OBVIOUS
<1>2. Shape(K, low, high, W, a, ks, ds, lev, lo, hi, x, kid, {}) /\ Stored(h, K, t, W)
  BY ONLY <1>a DEF Form
<1> HIDE DEF a
<1>2a. DOMAIN ks = W /\ DOMAIN ds = W
  BY ONLY ViewIs
<1> HIDE DEF ks, ds
<1>3. LeadsTo(W, ks, ds, Last(path), x) /\ lev[Last(path).blk] = lev[x] + 1 /\ Leg(W, ks, ds, lev, a, Front(path), Last(path).blk)
  BY ONLY <1>c0, <1>e, <1>1, LegUp
<1>4. p \in W /\ ds[p] # <<>> /\ i \in 1 .. Len(ks[p]) + 1 /\ ds[p][i] = x
  BY ONLY <1>3, <1>b DEF LeadsTo
<1>5. ks[p] = t.blk[p].keys /\ ds[p] = t.blk[p].kids
  <2>1. ks[p] = t.blk[p].keys /\ ds[p] = KidsOf(t.blk[p])
    BY ONLY <1>4, ViewIs DEF ks, ds
  <2> QED BY ONLY <1>4, <2>1 DEF KidsOf
<1>5a. t.blk[p].type = "U"
  <2>1. ds[p] = KidsOf(t.blk[p])
    BY ONLY <1>4, ViewIs DEF ds
  <2> QED BY ONLY <1>4, <2>1 DEF KidsOf
<1>6. IsAbsorb(ks, ds, p, i, hi[x], kid, ks1, ds1)
  BY ONLY <1>a, <1>c, <1>d, <1>5 DEF IsAbsorb
<1>7. Shape(K, low, high, W, a, ks1, ds1, lev, lo, hi, 0, 0, {})
  <2> DEFINE E == {}
  <2>1. E = E \ {p} /\ Shape(K, low, high, W, a, ks, ds, lev, lo, hi, x, kid, E)
    BY <1>2
  <2> HIDE DEF E
  <2>2. Shape(K, low, high, W, a, ks1, ds1, lev, lo, hi, 0, 0, E)
    BY ONLY Ordered(K), <1>a, <1>4, <1>6, <2>1, Absorb
  <2> QED BY <2>2 DEF E
<1>8. ks1[p] = keys /\ ds1[p] = kids /\ \A d \in W : d # p => ks1[d] = ks[d] /\ ds1[d] = ds[d]
  BY ONLY <1>d, <1>4, <1>2a DEF With
<1>9. SameAbove(t, W, lev, p, ks1, ds1)
  <2> SUFFICES ASSUME NEW d \in W, lev[d] > lev[p]
               PROVE  ks1[d] = KeysIn(t, W)[d] /\ ds1[d] = KidsIn(t, W)[d]
    BY DEF SameAbove
  <2>1. lev[p] \in Nat /\ lev[d] > lev[p]
    BY ONLY <1>4, lev \in [W -> Nat], lev[d] > lev[p]
  <2>2. d # p
    BY ONLY <2>1
  <2> QED BY ONLY <1>8, <2>2 DEF ks, ds
<1>10. /\ keys \in Seq(K) /\ kids \in Seq(Nat) /\ Len(keys) \in Nat /\ Len(keys) >= 1 /\ Len(kids) = Len(keys) + 1
       /\ Len(keys) = Len(ks[p]) + 1
  <2>1. /\ ks[p] \in Seq(K) /\ Len(ks[p]) \in Nat /\ ds[p] \in Seq(W) /\ Len(ds[p]) = Len(ks[p]) + 1
    BY ONLY Ordered(K), <1>2, <1>4, BlockFacts
  <2> DEFINE s == ks[p]
             d == ds[p]
             j == i + 1
  <2>2. /\ keys = InsertAt(s, i, k) /\ kids = InsertAt(d, j, kid) /\ s \in Seq(K) /\ d \in Seq(W)
        /\ i \in 1 .. Len(s) + 1 /\ j \in 1 .. Len(d) + 1 /\ Len(s) \in Nat /\ Len(d) = Len(s) + 1
    BY ONLY <1>c, <1>4, <1>5, <2>1
  <2> HIDE DEF s, d, j
  <2>3. InsertAt(s, i, k) \in Seq(K) /\ Len(InsertAt(s, i, k)) = Len(s) + 1
    BY ONLY <1>a, <2>2, InsertIs
  <2>4. InsertAt(d, j, kid) \in Seq(W) /\ Len(InsertAt(d, j, kid)) = Len(d) + 1
    BY ONLY <1>a, <2>2, InsertIs
  <2>5. kids \in Seq(Nat)
    BY ONLY <1>a, <2>2, <2>4, SeqMonotonic
  <2>6. s = ks[p]
    BY DEF s
  <2> QED BY ONLY <2>2, <2>3, <2>4, <2>5, <2>6
<1> QED BY ONLY <1>2, <1>3, <1>4, <1>5, <1>5a, <1>7, <1>8, <1>9, <1>10, <1>b, <1>d DEF ks, ds, a, Taken

-----------------------------------------------------------------------------
(***************************************************************************)
(* One turn of the loop of xioxins.                                        *)
(***************************************************************************)
IsPush(t, path, k, kid, p, keys, kids) ==
  /\ path # <<>> /\ p = Last(path).blk
  /\ keys = InsertAt(t.blk[p].keys, Last(path).off, k)
  /\ kids = InsertAt(t.blk[p].kids, Last(path).off + 1, kid)

\* The parent of a pending split with the key and the kid it takes in has a
\* shape.
LEMMA PushParts ==
  ASSUME NEW K, Ordered(K), NEW h, NEW low, NEW high, NEW t, NEW path, NEW k, NEW kid,
         Pending(h, K, low, high, t, path, k, kid), NEW p, NEW keys, NEW kids, IsPush(t, path, k, kid, p, keys, kids)
  PROVE  \E W, lev, lo, hi, ks1, ds1 : Taken(h, K, low, high, t, W, lev, lo, hi, p, keys, kids, ks1, ds1, Front(path))
<1>1. PICK W, lev, lo, hi, x :
           /\ Form(h, K, low, high, t, W, lev, lo, hi, x, kid, {}) /\ hi[x] = k
           /\ Leg(W, KeysIn(t, W), KidsIn(t, W), lev, t.root, path, x)
           /\ x \in W /\ kid \in W /\ k \in K /\ t.root \in W /\ W \subseteq Nat /\ lev \in [W -> Nat]
  BY ONLY Ordered(K), Pending(h, K, low, high, t, path, k, kid), PendingParts
<1> DEFINE ks1 == With(KeysIn(t, W), p, keys)
           ds1 == With(KidsIn(t, W), p, kids)
           i == Last(path).off
<1>2. path # <<>> /\ p = Last(path).blk /\ i = Last(path).off
  BY DEF IsPush
<1>3. keys = InsertAt(t.blk[p].keys, i, k) /\ kids = InsertAt(t.blk[p].kids, i + 1, kid)
  BY DEF IsPush
<1>4. ks1 = With(KeysIn(t, W), p, keys) /\ ds1 = With(KidsIn(t, W), p, kids)
  OBVIOUS
<1> HIDE DEF i, ks1, ds1
<1>5. Taken(h, K, low, high, t, W, lev, lo, hi, p, keys, kids, ks1, ds1, Front(path))
  BY ONLY Ordered(K), <1>1, <1>2, <1>3, <1>4, TakesKey
<1> QED BY ONLY <1>5

\* The key and the new block fit into the block above.
LEMMA PushFits ==
  ASSUME NEW K, Ordered(K), NEW h, NEW low, NEW high, NEW t, NEW path, NEW k, NEW kid,
         Pending(h, K, low, high, t, path, k, kid), NEW p, NEW keys, NEW kids, IsPush(t, path, k, kid, p, keys, kids),
         USize(t, keys) <= t.blksize
  PROVE  Good(h, K, low, high, Put(t, p, Branch(keys, kids)))
<1>1. PICK W, lev, lo, hi, ks1, ds1 :
        Taken(h, K, low, high, t, W, lev, lo, hi, p, keys, kids, ks1, ds1, Front(path))
  BY ONLY Ordered(K), Pending(h, K, low, high, t, path, k, kid), IsPush(t, path, k, kid, p, keys, kids), PushParts
<1>2. USize(h, keys) <= h.blksize
  <2>1. t \in Indexes(h, K)
    BY <1>1 DEF Taken, Stored
  <2> QED BY <2>1, SizesOf
<1> DEFINE node == Branch(keys, kids)
           t2 == Put(t, p, node)
<1>3. TreeNode(h, K, node) /\ node.keys = keys /\ KidsOf(node) = kids
  <2>1. keys \in Seq(K) /\ kids \in Seq(Nat) /\ kids # <<>>
    <3>1. keys \in Seq(K) /\ kids \in Seq(Nat) /\ Len(keys) \in Nat /\ Len(kids) = Len(keys) + 1
      BY <1>1 DEF Taken
    <3> QED BY ONLY <3>1
  <2> QED BY ONLY <1>2, <2>1, TreeNodes
<1> HIDE DEF node
<1>4. Stored(h, K, t, W) /\ p \in W
  BY ONLY <1>1 DEF Taken
<1>5. Stored(h, K, t2, W) /\ t2.root = t.root /\ Wrote(t, t2, W, p, node)
  BY ONLY <1>3, <1>4, StoredPut
<1> HIDE DEF t2
<1>6. KeysIn(t2, W) = With(KeysIn(t, W), p, node.keys) /\ KidsIn(t2, W) = With(KidsIn(t, W), p, KidsOf(node))
  BY ONLY <1>4, <1>5, ViewPut
<1>7. Shape(K, low, high, W, t2.root, KeysIn(t2, W), KidsIn(t2, W), lev, lo, hi, 0, 0, {})
  BY ONLY <1>1, <1>3, <1>5, <1>6 DEF Taken
<1>8. Form(h, K, low, high, t2, W, lev, lo, hi, 0, 0, {})
  BY ONLY <1>5, <1>7 DEF Form
<1>9. Good(h, K, low, high, t2)
  BY ONLY <1>8 DEF Good
<1> QED BY <1>9 DEF t2, node

\* The last one and the last two of a sequence.
LEMMA LastTwo ==
  ASSUME NEW S, NEW s, s \in Seq(S), NEW n, n = Len(s), n >= 2
  PROVE  SubSeq(s, n, n) = <<s[n]>> /\ SubSeq(s, n - 1, n) = <<s[n - 1], s[n]>>
<1> DEFINE a == SubSeq(s, n, n)
           b == SubSeq(s, n - 1, n)
<1>1. n \in Nat
  BY LenProperties
<1>2. a \in Seq(S) /\ Len(a) = 1 /\ a[1] = s[n]
  BY <1>1
<1>3. b \in Seq(S) /\ Len(b) = 2 /\ b[1] = s[n - 1] /\ b[2] = s[n]
  BY <1>1
<1> HIDE DEF a, b
<1>4. a = <<s[n]>>
  <2>1. s[n] \in S
    BY <1>1
  <2> QED BY <1>2, <2>1
<1>5. b = <<s[n - 1], s[n]>>
  <2>1. s[n] \in S /\ s[n - 1] \in S
    BY <1>1
  <2> QED BY <1>3, <2>1
<1> QED BY <1>4, <1>5 DEF a, b

\* The block above keeps all but its last two keys.
LEMMA PushSplits ==
  ASSUME NEW K, Ordered(K), NEW h, Header(h), NEW low, NEW high, NEW t, NEW path, NEW k, NEW kid,
         Pending(h, K, low, high, t, path, k, kid), NEW p, NEW keys, NEW kids, IsPush(t, path, k, kid, p, keys, kids),
         ~(USize(t, keys) <= t.blksize), NEW n, n = Len(keys), NEW split,
         split = Put(t, p, Branch(SubSeq(keys, 1, n - 2), SubSeq(kids, 1, n - 1))),
         NEW right, right = Branch(<<keys[n]>>, <<kids[n], kids[n + 1]>>)
  PROVE  Pending(h, K, low, high, Add(split, right), Front(path), keys[n - 1], NewBlock(split))
<1>1. PICK W, lev, lo, hi, ks1, ds1 :
        Taken(h, K, low, high, t, W, lev, lo, hi, p, keys, kids, ks1, ds1, Front(path))
  BY ONLY Ordered(K), Pending(h, K, low, high, t, path, k, kid), IsPush(t, path, k, kid, p, keys, kids), PushParts
<1>2. t \in Indexes(h, K) /\ keys \in Seq(K) /\ kids \in Seq(Nat) /\ n \in Nat /\ n >= 1 /\ Len(kids) = n + 1
  BY <1>1 DEF Taken, Stored
<1>3. n >= 3
  <2>1. ~(USize(h, keys) <= h.blksize)
    BY <1>2, SizesOf
  <2>2. ~(Len(keys) \in {1, 2})
    BY ONLY Header(h), <1>2, <2>1, FewFit
  <2>3. n = Len(keys)
    OBVIOUS
  <2> QED BY ONLY <1>2, <2>2, <2>3
<1> DEFINE m == n - 1
           lk == SubSeq(keys, 1, m - 1)
           ld == SubSeq(kids, 1, m)
           c == NewBlock(split)
           t3 == Add(split, right)
<1>4. lk \in Seq(K) /\ Len(lk) = n - 2 /\ ld \in Seq(Nat) /\ ld # <<>> /\ LeftKids(kids, m) = ld
  <2>1. m \in 1 .. Len(keys) /\ m \in 1 .. Len(kids) /\ m - 1 = n - 2 /\ m \in Nat /\ m >= 1
    BY ONLY <1>2, <1>3, n = Len(keys)
  <2> HIDE DEF m
  <2>2. lk \in Seq(K) /\ Len(lk) = m - 1
    BY ONLY <1>2, <2>1, PartsIs
  <2>3. ld \in Seq(Nat) /\ Len(ld) = m
    BY ONLY <1>2, <2>1, PartsIs
  <2>4. kids # <<>>
    BY ONLY <1>2
  <2> QED BY ONLY <2>1, <2>2, <2>3, <2>4 DEF LeftKids
<1>5. USize(h, lk) <= h.blksize
  <2>1. /\ TreeNode(h, K, t.blk[p]) /\ t.blk[p].type = "U" /\ n = Len(t.blk[p].keys) + 1
    BY <1>1 DEF Taken, Stored
  <2>2. USize(h, t.blk[p].keys) <= h.blksize /\ t.blk[p].keys \in Seq(K)
    <3>1. t.blk[p] \in Node(K) /\ Room(h, t.blk[p])
      BY <2>1 DEF TreeNode
    <3> QED BY <2>1, <3>1, NodeTypes DEF Room, NodeSize
  <2> DEFINE u == t.blk[p].keys
  <2>3. Len(u) \in Nat /\ Len(lk) \in Nat /\ Len(lk) <= Len(u)
    <3>1. Len(u) \in Nat /\ n = Len(u) + 1
      BY <2>1, <2>2
    <3> HIDE DEF u, lk
    <3> QED BY ONLY <1>2, <1>3, <1>4, <3>1
  <2>4. USize(h, u) <= h.blksize
    BY <2>2
  <2> HIDE DEF u, lk
  <2> QED BY ONLY Header(h), <2>3, <2>4, FewerFit
<1>6. RightKids(kids, m) = <<kids[n], kids[n + 1]>> /\ SubSeq(keys, m + 1, n) = <<keys[n]>>
  <2>1. m + 1 = n /\ n >= 2 /\ n = Len(keys)
    BY ONLY <1>2, <1>3, n = Len(keys)
  <2> DEFINE j == n + 1
  <2>2. j >= 2 /\ j = Len(kids) /\ j - 1 = n
    BY ONLY <1>2, <1>3
  <2> HIDE DEF m
  <2>3. SubSeq(keys, n, n) = <<keys[n]>>
    BY ONLY <1>2, <2>1, LastTwo
  <2> HIDE DEF j
  <2>4. SubSeq(kids, j - 1, j) = <<kids[j - 1], kids[j]>>
    BY ONLY <1>2, <2>2, LastTwo
  <2>5. kids # <<>>
    BY ONLY <1>2, <1>3
  <2>6. j = n + 1
    BY DEF j
  <2> QED BY ONLY <2>1, <2>2, <2>3, <2>4, <2>5, <2>6 DEF RightKids
<1>7. TreeNode(h, K, right) /\ right.keys = SubSeq(keys, m + 1, n) /\ KidsOf(right) = RightKids(kids, m)
  <2> DEFINE s == <<keys[n]>>
             d == <<kids[n], kids[n + 1]>>
  <2>1. keys[n] \in K /\ kids[n] \in Nat /\ kids[n + 1] \in Nat
    BY ONLY <1>2, <1>3, n = Len(keys)
  <2>2. s \in Seq(K) /\ Len(s) = 1 /\ d \in Seq(Nat) /\ d # <<>>
    BY ONLY <2>1
  <2>3. s = SubSeq(keys, m + 1, n) /\ d = RightKids(kids, m) /\ right = Branch(s, d)
    BY <1>6
  <2> HIDE DEF s, d
  <2>4. USize(h, s) <= h.blksize
    BY ONLY Header(h), <1>2, <2>2, FewFit
  <2>5. TreeNode(h, K, Branch(s, d)) /\ Branch(s, d).keys = s /\ KidsOf(Branch(s, d)) = d
    BY ONLY <2>2, <2>4, TreeNodes
  <2> QED BY ONLY <2>3, <2>5
<1>8. TreeNode(h, K, Branch(lk, ld)) /\ Branch(lk, ld).keys = lk /\ KidsOf(Branch(lk, ld)) = ld /\ split = Put(t, p, Branch(lk, ld))
  <2>1. TreeNode(h, K, Branch(lk, ld)) /\ Branch(lk, ld).keys = lk /\ KidsOf(Branch(lk, ld)) = ld
    <3> HIDE DEF lk, ld
    <3> QED BY ONLY <1>4, <1>5, TreeNodes
  <2>2. m - 1 = n - 2
    BY ONLY <1>2
  <2> QED BY ONLY <2>1, <2>2, split = Put(t, p, Branch(SubSeq(keys, 1, n - 2), SubSeq(kids, 1, n - 1)))
<1> HIDE DEF lk, ld
<1>9. Stored(h, K, t, W) /\ p \in W
  BY ONLY <1>1 DEF Taken
<1>10. Stored(h, K, split, W) /\ split.root = t.root /\ Wrote(t, split, W, p, Branch(lk, ld))
  BY ONLY <1>8, <1>9, StoredPut
<1>11. /\ c \in Nat \ {0} /\ c \notin W
       /\ Stored(h, K, t3, W \cup {c}) /\ t3.root = split.root /\ Wrote(split, t3, W, c, right)
  BY ONLY <1>7, <1>10, StoredAdd
<1> HIDE DEF c, t3
<1>12. /\ t3.blk[c] = right /\ t3.blk[p] = Branch(lk, ld)
       /\ \A d \in W : d # p => t3.blk[d] = t.blk[d]
  BY ONLY <1>9, <1>10, <1>11 DEF Wrote
<1>13. ks1[p] = keys /\ ds1[p] = kids /\ \A d \in W : d # p => ks1[d] = KeysIn(t, W)[d] /\ ds1[d] = KidsIn(t, W)[d]
  BY ONLY <1>1 DEF Taken
<1>14. \A d \in W : d # p => t3.blk[d].keys = ks1[d] /\ KidsOf(t3.blk[d]) = ds1[d]
  BY ONLY <1>12, <1>13, ViewIs
<1>15. /\ t3.blk[p].keys = SubSeq(ks1[p], 1, m - 1) /\ KidsOf(t3.blk[p]) = LeftKids(ds1[p], m)
       /\ t3.blk[c].keys = SubSeq(ks1[p], m + 1, Len(ks1[p])) /\ KidsOf(t3.blk[c]) = RightKids(ds1[p], m)
  BY ONLY <1>4, <1>7, <1>8, <1>12, <1>13, n = Len(keys) DEF lk
<1>16. m \in 2 .. Len(ks1[p]) - 1 /\ t3.root = t.root /\ keys[m] = ks1[p][m]
  BY ONLY <1>2, <1>3, <1>10, <1>11, <1>13, n = Len(keys)
<1> HIDE DEF m
<1>17. IsSplit(ks1, ds1, p, m, c, W \cup {c}, KeysIn(t3, W \cup {c}), KidsIn(t3, W \cup {c}))
  BY ONLY <1>9, <1>11, <1>14, <1>15, ViewSplit
<1>18. /\ Shape(K, low, high, W, t.root, ks1, ds1, lev, lo, hi, 0, 0, {}) /\ SameAbove(t, W, lev, p, ks1, ds1)
       /\ Leg(W, KeysIn(t, W), KidsIn(t, W), lev, t.root, Front(path), p)
  BY ONLY <1>1 DEF Taken
<1> DEFINE f == Front(path)
<1>19. Leg(W, KeysIn(t, W), KidsIn(t, W), lev, t.root, f, p)
  BY <1>18
<1> HIDE DEF f
<1>20. Pending(h, K, low, high, t3, f, ks1[p][m], c)
  BY ONLY Ordered(K), <1>9, <1>11, <1>16, <1>17, <1>18, <1>19, AfterSplit
<1> QED BY <1>16, <1>20 DEF t3, c, m, f

-----------------------------------------------------------------------------
(***************************************************************************)
(* The turns of xioxins.                                                   *)
(***************************************************************************)
\* The states of the loop of xioxins.
PushState(K) == [path : Seq([blk : Nat, off : Nat]), k : K, kid : Nat, more : BOOLEAN]
\* After n of N turns the split is absorbed, or pending with N - n steps of the
\* way left.
PushHas(h, K, low, high, N, n, u) ==
  IF u.more THEN Pending(h, K, low, high, u.t, u.path, u.k, u.kid) /\ Len(u.path) + n + 1 = N
            ELSE Good(h, K, low, high, u.t)
IsState(h, K, u) ==
  u \in [t : Indexes(h, K), path : Seq([blk : Nat, off : Nat]), k : K, kid : Nat, more : BOOLEAN]

\* The types of a pending split.
LEMMA PendingTypes ==
  ASSUME NEW K, Ordered(K), NEW h, NEW low, NEW high, NEW t, NEW path, NEW k, NEW kid,
         Pending(h, K, low, high, t, path, k, kid)
  PROVE  t \in Indexes(h, K) /\ path \in Seq([blk : Nat, off : Nat]) /\ k \in K /\ kid \in Nat
<1>1. PICK W, lev, lo, hi, x :
           /\ Form(h, K, low, high, t, W, lev, lo, hi, x, kid, {}) /\ hi[x] = k
           /\ Leg(W, KeysIn(t, W), KidsIn(t, W), lev, t.root, path, x)
           /\ x \in W /\ kid \in W /\ k \in K /\ t.root \in W /\ W \subseteq Nat /\ lev \in [W -> Nat]
  BY ONLY Ordered(K), Pending(h, K, low, high, t, path, k, kid), PendingParts
<1>2. t \in Indexes(h, K)
  BY <1>1 DEF Form, Stored
<1>3. path \in Seq([blk : Nat, off : Nat])
  BY <1>1 DEF Leg
<1> QED BY <1>1, <1>2, <1>3

\* The type of a sound tree.
LEMMA GoodTypes ==
  ASSUME NEW K, NEW h, NEW low, NEW high, NEW t, Good(h, K, low, high, t)
  PROVE  t \in Indexes(h, K)
BY DEF Good, Form, Stored

\* One turn of the loop of xioxins: the split is absorbed, or the branch is
\* split and pending one level up.
LEMMA PushTurn ==
  ASSUME NEW K, Ordered(K), NEW h, Header(h), NEW low, low \in K, NEW high, high \in K,
         NEW N, N \in Nat, NEW n, n \in 0 .. N - 1, NEW u, IsState(h, K, u), PushHas(h, K, low, high, N, n, u)
  PROVE  IsState(h, K, PushOne(u)) /\ PushHas(h, K, low, high, N, n + 1, PushOne(u))
<1>1. CASE ~u.more
  BY ONLY <1>1, IsState(h, K, u), PushHas(h, K, low, high, N, n, u) DEF PushOne, PushHas
<1>2. CASE u.more
  <2> DEFINE t == u.t
             path == u.path
             k == u.k
             kid == u.kid
             v == PushOne(u)
  <2>1. Pending(h, K, low, high, t, path, k, kid) /\ Len(path) + n + 1 = N
    BY ONLY <1>2, PushHas(h, K, low, high, N, n, u) DEF PushHas
  <2>2. /\ u = [t |-> t, path |-> path, k |-> k, kid |-> kid, more |-> TRUE]
        /\ path \in Seq([blk : Nat, off : Nat]) /\ k \in K /\ kid \in Nat
    BY ONLY <1>2, IsState(h, K, u) DEF IsState
  <2>3. CASE path = <<>>
    <3> DEFINE t2 == [Add(t, Branch(<<k>>, <<t.root, kid>>)) EXCEPT !.root = NewBlock(t)]
    <3>1. v = [t |-> t2, path |-> path, k |-> k, kid |-> kid, more |-> FALSE]
      BY ONLY <2>2, <2>3, <1>2 DEF PushOne, NewTop
    <3>2. t2 = [Add(t, Branch(<<k>>, <<t.root, kid>>)) EXCEPT !.root = NewBlock(t)]
      OBVIOUS
    <3> HIDE DEF t, path, k, kid, t2
    <3>3. Good(h, K, low, high, t2)
      BY ONLY Ordered(K), Header(h), low \in K, high \in K, <2>1, <2>3, <3>2, TopGrows
    <3>4. t2 \in Indexes(h, K)
      BY ONLY <3>3, GoodTypes
    <3>5. path \in Seq([blk : Nat, off : Nat]) /\ k \in K /\ kid \in Nat
      BY ONLY <2>2
    <3>6. IsState(h, K, v)
      BY ONLY <3>1, <3>4, <3>5 DEF IsState
    <3>7. PushHas(h, K, low, high, N, n + 1, v)
      BY ONLY <3>1, <3>3 DEF PushHas
    <3> QED BY ONLY <3>6, <3>7 DEF v
  <2>4. CASE path # <<>>
    <3> DEFINE s == Last(path)
               p == s.blk
               keys == InsertAt(t.blk[p].keys, s.off, k)
               kids == InsertAt(t.blk[p].kids, s.off + 1, kid)
               m == Len(keys)
               split == Put(t, p, Branch(SubSeq(keys, 1, m - 2), SubSeq(kids, 1, m - 1)))
               right == Branch(<<keys[m]>>, <<kids[m], kids[m + 1]>>)
               f == Front(path)
    <3>1. IsPush(t, path, k, kid, p, keys, kids)
      BY <2>4 DEF IsPush
    <3>2. CASE USize(t, keys) <= t.blksize
      <4> DEFINE t2 == Put(t, p, Branch(keys, kids))
      <4>1. v = [t |-> t2, path |-> path, k |-> k, kid |-> kid, more |-> FALSE]
        BY ONLY <2>2, <2>4, <3>2, <1>2 DEF PushOne
      <4> HIDE DEF keys, kids, p, t, path, k, kid
      <4>2. Good(h, K, low, high, t2)
        BY ONLY Ordered(K), <2>1, <3>1, <3>2, PushFits
      <4> HIDE DEF t2
      <4>3. t2 \in Indexes(h, K)
        BY ONLY <4>2, GoodTypes
      <4>4. path \in Seq([blk : Nat, off : Nat]) /\ k \in K /\ kid \in Nat
        BY ONLY <2>2
      <4>5. IsState(h, K, v)
        BY ONLY <4>1, <4>3, <4>4 DEF IsState
      <4>6. PushHas(h, K, low, high, N, n + 1, v)
        BY ONLY <4>1, <4>2 DEF PushHas
      <4> QED BY ONLY <4>5, <4>6 DEF v
    <3>3. CASE ~(USize(t, keys) <= t.blksize)
      <4> DEFINE t2 == Add(split, right)
                 k2 == keys[m - 1]
                 c == NewBlock(split)
      <4>1. v = [t |-> t2, path |-> f, k |-> k2, kid |-> c, more |-> TRUE]
        BY ONLY <2>2, <2>4, <3>3, <1>2 DEF PushOne
      <4>2. /\ split = Put(t, p, Branch(SubSeq(keys, 1, m - 2), SubSeq(kids, 1, m - 1)))
            /\ right = Branch(<<keys[m]>>, <<kids[m], kids[m + 1]>>) /\ m = Len(keys)
        OBVIOUS
      <4> HIDE DEF split, right, m, keys, kids, p, t, path, k, kid
      <4>3. Pending(h, K, low, high, t2, f, k2, c)
        BY ONLY Ordered(K), Header(h), <2>1, <3>1, <3>3, <4>2, PushSplits
      <4> HIDE DEF t2, k2, c
      <4>4. t2 \in Indexes(h, K) /\ f \in Seq([blk : Nat, off : Nat]) /\ k2 \in K /\ c \in Nat
        BY ONLY Ordered(K), <4>3, PendingTypes
      <4>5. Len(f) + (n + 1) + 1 = N
        <5>1. Len(f) = Len(path) - 1 /\ Len(path) \in Nat
          BY ONLY <2>2, <2>4, FrontIs
        <5> HIDE DEF f
        <5> QED BY ONLY <2>1, <5>1, n \in 0 .. N - 1, N \in Nat
      <4> QED BY ONLY <4>1, <4>3, <4>4, <4>5 DEF IsState, PushHas, v
    <3> QED BY ONLY <3>2, <3>3
  <2> QED BY ONLY <2>3, <2>4
<1> QED BY ONLY <1>1, <1>2, IsState(h, K, u) DEF IsState

-----------------------------------------------------------------------------
(***************************************************************************)
(* All turns of xioxins: what was pending goes into the tree.              *)
(***************************************************************************)
\* Whatever goes up from a block that was split, it ends in a good index.
LEMMA PushesUp ==
  ASSUME NEW K, Ordered(K), NEW h, Header(h), NEW low, low \in K, NEW high, high \in K,
         NEW t, NEW path, NEW k, NEW kid, Pending(h, K, low, high, t, path, k, kid)
  PROVE  Good(h, K, low, high, PushUp(t, path, k, kid))
<1> DEFINE U == [t : Indexes(h, K), path : Seq([blk : Nat, off : Nat]), k : K, kid : Nat, more : BOOLEAN]
           N == Len(path) + 1
           I == {q \in (0 .. N) \X U : PushHas(h, K, low, high, N, q[1], q[2])}
           a == [t |-> t, path |-> path, k |-> k, kid |-> kid, more |-> TRUE]
           g == [q \in I |-> PushOne(q[2])]
<1>1. t \in Indexes(h, K) /\ path \in Seq([blk : Nat, off : Nat]) /\ k \in K /\ kid \in Nat
  BY ONLY Ordered(K), Pending(h, K, low, high, t, path, k, kid), PendingTypes
<1>2. N \in Nat
  BY <1>1
<1>3. <<0, a>> \in I
  <2>1. a \in U
    BY <1>1
  <2>2. PushHas(h, K, low, high, N, 0, a)
    <3>1. Len(path) + 0 + 1 = N
      BY <1>1
    <3> HIDE DEF N
    <3> QED BY <3>1 DEF PushHas
  <2>3. 0 \in 0 .. N
    BY ONLY <1>2
  <2> HIDE DEF a, U, N
  <2> QED BY <2>1, <2>2, <2>3
<1>4. ASSUME NEW n \in 0 .. N - 1, NEW u \in U, <<n, u>> \in I
      PROVE  g[<<n, u>>] = PushOne(u) /\ <<n + 1, g[<<n, u>>]>> \in I
  <2>1. PushHas(h, K, low, high, N, n, u)
    BY <1>4
  <2>2. IsState(h, K, u)
    BY DEF IsState
  <2>3. n + 1 \in 0 .. N
    BY ONLY <1>2, n \in 0 .. N - 1
  <2> HIDE DEF N
  <2>4. IsState(h, K, PushOne(u)) /\ PushHas(h, K, low, high, N, n + 1, PushOne(u))
    BY ONLY Ordered(K), Header(h), low \in K, high \in K, <1>2, n \in 0 .. N - 1, <2>1, <2>2, PushTurn
  <2>5. PushOne(u) \in U
    BY <2>4 DEF IsState
  <2>6. g[<<n, u>>] = PushOne(u)
    <3> HIDE DEF I
    <3> QED BY <1>4
  <2> HIDE DEF U, g
  <2> QED BY <2>3, <2>4, <2>5, <2>6
<1>5. I \in SUBSET ((0 .. N) \X U)
  OBVIOUS
<1> HIDE DEF I, g, U, N, a
<1>6. \E f \in [0 .. N -> U] : LoopOf(f, N, a, g) /\ \A n \in 0 .. N : <<n, f[n]>> \in I
  BY ONLY <1>2, <1>3, <1>4, <1>5, UpTo
<1>7. PICK f \in [0 .. N -> U] : LoopOf(f, N, a, g) /\ \A n \in 0 .. N : <<n, f[n]>> \in I
  BY <1>6
<1>8. f[0] = a /\ \A n \in 0 .. N - 1 : f[n + 1] = PushOne(f[n])
  <2>1. f[0] = a /\ \A n \in 0 .. N - 1 : f[n + 1] = g[<<n, f[n]>>]
    BY <1>7 DEF LoopOf
  <2>2. ASSUME NEW n \in 0 .. N - 1 PROVE f[n + 1] = PushOne(f[n])
    <3>1. n \in 0 .. N
      BY <1>2
    <3>2. f[n] \in U /\ <<n, f[n]>> \in I
      BY <1>7, <3>1
    <3> QED BY <1>4, <2>1, <3>2
  <2> QED BY <2>1, <2>2
<1> DEFINE Rec(W) == W = [n \in 0 .. Len(path) + 1 |->
                          IF n = 0 THEN [t |-> t, path |-> path, k |-> k, kid |-> kid, more |-> TRUE]
                                   ELSE PushOne(W[n - 1])]
<1>9. Rec(f)
  <2>1. f = [n \in 0 .. N |-> f[n]]
    BY <1>7
  <2>2. \A n \in 0 .. N : f[n] = IF n = 0 THEN a ELSE PushOne(f[n - 1])
    <3> TAKE n \in 0 .. N
    <3>1. n # 0 => n - 1 \in 0 .. N - 1 /\ n - 1 + 1 = n
      BY <1>2
    <3> QED BY <1>8, <3>1
  <2>3. f = [n \in 0 .. N |-> IF n = 0 THEN a ELSE PushOne(f[n - 1])]
    BY ONLY <2>1, <2>2
  <2> QED BY <2>3 DEF N, a
<1> DEFINE W == CHOOSE w : Rec(w)
<1>10. Rec(W)
  <2> HIDE DEF Rec
  <2> QED BY <1>9
<1>11. PushUp(t, path, k, kid) = W[Len(path) + 1].t
  BY DEF PushUp
<1> HIDE DEF W
<1>12. W[0] = a /\ \A n \in 0 .. N - 1 : W[n + 1] = PushOne(W[n])
  <2>1. \A n \in 0 .. N : W[n] = IF n = 0 THEN a ELSE PushOne(W[n - 1])
    BY <1>10 DEF N, a
  <2> HIDE DEF Rec
  <2>2. W[0] = a
    BY <1>2, <2>1
  <2>3. ASSUME NEW n \in 0 .. N - 1 PROVE W[n + 1] = PushOne(W[n])
    <3>1. n + 1 \in 0 .. N /\ n + 1 # 0 /\ n + 1 - 1 = n
      BY <1>2
    <3> QED BY <2>1, <3>1
  <2> QED BY <2>2, <2>3
<1> HIDE DEF Rec
<1> DEFINE T == {n \in 0 .. N : W[n] = f[n]}
<1>13. 0 .. N \subseteq T
  <2>1. 0 \in T
    BY <1>2, <1>8, <1>12
  <2>2. ASSUME NEW n \in 0 .. N - 1, n \in T PROVE n + 1 \in T
    <3>1. n + 1 \in 0 .. N
      BY <1>2
    <3> QED BY <1>8, <1>12, <2>2, <3>1
  <2> HIDE DEF T
  <2> QED BY <1>2, <2>1, <2>2, NumbersUpTo
<1> DEFINE w == W[N]
<1>14. <<N, w>> \in I
  <2>1. N \in 0 .. N
    BY <1>2
  <2>2. W[N] = f[N]
    BY <1>13, <2>1
  <2> QED BY <1>7, <2>1, <2>2
<1>15. PushHas(h, K, low, high, N, N, w) /\ w \in U
  <2> HIDE DEF w
  <2> QED BY <1>14 DEF I
<1>16. ~w.more
  <2>1. ASSUME w.more PROVE FALSE
    <3>1. Len(w.path) + N + 1 = N /\ w.path \in Seq([blk : Nat, off : Nat])
      BY <1>15, <2>1 DEF PushHas, U
    <3> DEFINE z == w.path
    <3>2. Len(z) \in Nat
      BY <3>1
    <3> HIDE DEF z, w
    <3>3. Len(z) + N + 1 = N
      BY <3>1 DEF z
    <3> QED BY <1>2, <3>2, <3>3
  <2> QED BY <2>1
<1>17. Good(h, K, low, high, w.t)
  BY <1>15, <1>16 DEF PushHas
<1> QED BY <1>11, <1>17 DEF N

-----------------------------------------------------------------------------
(***************************************************************************)
(* A part of a leaf takes no more room than the leaf: with front           *)
(* compression an entry depends on the one before it.                      *)
(***************************************************************************)
\* The entries d are some of the entries e, in their order, or smaller.
Among(d, m, e, n, f) ==
  /\ f \in [1 .. m -> 1 .. n]
  /\ \A i \in 1 .. m : d[i] <= e[f[i]]
  /\ \A i \in 1 .. m : i > 1 => f[i - 1] < f[i]

\* A sum over some of the entries is not more than that over all.
LEMMA TotalAmong ==
  ASSUME NEW n, n \in Nat, NEW e, Counts(e, n), NEW m, m \in Nat, NEW d, Counts(d, m), NEW f, Among(d, m, e, n, f)
  PROVE  Total(d, m) <= Total(e, n)
<1>1. PICK F : SumsOf(F, e, n, Total(e, n))
  BY TotalSum
<1>2. PICK G : SumsOf(G, d, m, Total(d, m))
  BY TotalSum
<1>3. /\ F \in [0 .. n -> Nat] /\ Total(e, n) = F[n] /\ F[0] = 0
      /\ \A i \in 0 .. n - 1 : F[i + 1] = F[i] + e[i + 1] /\ e[i + 1] \in Nat
  <2>1. \A i \in 0 .. n - 1 : i + 1 \in 1 .. n
    OBVIOUS
  <2> QED BY <1>1, <2>1 DEF SumsOf, Counts
<1>4. /\ G \in [0 .. m -> Nat] /\ Total(d, m) = G[m] /\ G[0] = 0
      /\ \A i \in 0 .. m - 1 : G[i + 1] = G[i] + d[i + 1] /\ d[i + 1] \in Nat
  <2>1. \A i \in 0 .. m - 1 : i + 1 \in 1 .. m
    OBVIOUS
  <2> QED BY <1>2, <2>1 DEF SumsOf, Counts
<1>5. \A j \in 0 .. n : \A i \in 0 .. j : F[i] <= F[j]
  <2> DEFINE T == {j \in 0 .. n : \A i \in 0 .. j : F[i] <= F[j]}
  <2>1. 0 \in T
    BY <1>3
  <2>2. ASSUME NEW j \in 0 .. n - 1, j \in T PROVE j + 1 \in T
    <3>1. j + 1 \in 0 .. n /\ j \in 0 .. n
      OBVIOUS
    <3>2. F[j + 1] = F[j] + e[j + 1] /\ e[j + 1] \in Nat /\ F[j] \in Nat /\ F[j + 1] \in Nat
      BY <1>3, <3>1
    <3>3. ASSUME NEW i \in 0 .. j + 1 PROVE F[i] <= F[j + 1]
      <4>1. CASE i = j + 1
        BY <3>2, <4>1
      <4>2. CASE i # j + 1
        <5>1. i \in 0 .. j /\ i \in 0 .. n
          BY <4>2
        <5>2. F[i] <= F[j] /\ F[i] \in Nat
          BY <1>3, <2>2, <5>1
        <5> QED BY <3>2, <5>2
      <4> QED BY <4>1, <4>2
    <3> QED BY <3>1, <3>3
  <2> HIDE DEF T
  <2>3. 0 .. n \subseteq T
    BY <2>1, <2>2, NumbersUpTo
  <2> QED BY <2>3 DEF T
<1> DEFINE T == {j \in 0 .. m : j = 0 \/ G[j] <= F[f[j]]}
<1>6. 0 \in T
  OBVIOUS
<1>7. ASSUME NEW j \in 0 .. m - 1, j \in T PROVE j + 1 \in T
  <2>1. j + 1 \in 1 .. m /\ j + 1 \in 0 .. m /\ j \in 0 .. m
    OBVIOUS
  <2> DEFINE c == f[j + 1]
             b == c - 1
  <2>2. c \in 1 .. n /\ d[j + 1] <= e[c] /\ b \in 0 .. n - 1 /\ b + 1 = c /\ b \in 0 .. n /\ c \in 0 .. n
    BY <2>1 DEF Among
  <2> HIDE DEF b, c
  <2>3. F[c] = F[b] + e[c] /\ F[b] \in Nat /\ F[c] \in Nat /\ e[c] \in Nat
    BY <1>3, <2>2
  <2>4. G[j + 1] = G[j] + d[j + 1] /\ G[j] \in Nat /\ d[j + 1] \in Nat /\ G[j + 1] \in Nat
    BY <1>4, <2>1
  <2>5. G[j] <= F[b]
    <3>1. CASE j = 0
      BY <1>4, <2>3, <3>1
    <3>2. CASE j # 0
      <4>1. j \in 1 .. m /\ j + 1 > 1 /\ j + 1 - 1 = j
        BY <3>2
      <4>2. f[j] < f[j + 1] /\ f[j] \in 1 .. n
        BY <2>1, <4>1 DEF Among
      <4> DEFINE a == f[j]
      <4>3. a < c /\ a \in 1 .. n
        BY <4>2 DEF c
      <4> HIDE DEF a
      <4>4. a \in 0 .. b /\ a \in 0 .. n
        BY <2>2, <4>3
      <4>5. F[a] <= F[b] /\ F[a] \in Nat
        BY <1>3, <1>5, <2>2, <4>4
      <4>6. G[j] <= F[a]
        BY <1>7, <3>2 DEF a
      <4> QED BY <2>3, <2>4, <4>5, <4>6
    <3> QED BY <3>1, <3>2
  <2>6. G[j + 1] <= F[c]
    <3> DEFINE g1 == G[j + 1]
               g0 == G[j]
               dd == d[j + 1]
               f1 == F[c]
               f0 == F[b]
               ee == e[c]
    <3>1. /\ g1 = g0 + dd /\ f1 = f0 + ee /\ dd <= ee /\ g0 <= f0 /\ g0 \in Nat /\ dd \in Nat /\ f0 \in Nat /\ ee \in Nat
      BY <2>2, <2>3, <2>4, <2>5
    <3> HIDE DEF g1, g0, dd, f1, f0, ee
    <3>2. g1 <= f1
      BY <3>1
    <3> QED BY <3>2 DEF g1, f1
  <2> QED BY <2>1, <2>6 DEF c
<1> HIDE DEF T
<1>8. 0 .. m \subseteq T
  BY <1>6, <1>7, NumbersUpTo
<1>9. m = 0 \/ G[m] <= F[f[m]]
  <2>1. m \in 0 .. m
    OBVIOUS
  <2> QED BY <1>8, <2>1 DEF T
<1>10. CASE m = 0
  BY <1>3, <1>4, <1>10
<1>11. CASE m # 0
  <2>1. m \in 1 .. m
    BY <1>11
  <2>2. f[m] \in 1 .. n
    BY <2>1 DEF Among
  <2> DEFINE a == f[m]
  <2>3. a \in 1 .. n /\ G[m] <= F[a]
    BY <1>9, <1>11, <2>2
  <2> HIDE DEF a
  <2>4. a \in 0 .. n /\ n \in 0 .. n
    BY <2>3
  <2>5. F[a] <= F[n] /\ F[a] \in Nat /\ F[n] \in Nat /\ G[m] \in Nat
    BY <1>3, <1>4, <1>5, <2>4
  <2> QED BY <1>3, <1>4, <2>3, <2>5
<1> QED BY <1>10, <1>11

\* So too for the entries of leaves.
LEMMA SizeAmong ==
  ASSUME NEW t, t.parts \in Seq(Nat \ {0}), NEW S, NEW s, s \in Seq(S), NEW u, u \in Seq(S), NEW f,
         f \in [1 .. Len(u) -> 1 .. Len(s)],
         \A i \in 1 .. Len(u) : EntrySize(t, u, i) <= EntrySize(t, s, f[i]),
         \A i \in 1 .. Len(u) : i > 1 => f[i - 1] < f[i]
  PROVE  VSize(t, u) <= VSize(t, s)
<1> DEFINE n == Len(s)
           m == Len(u)
           e == [i \in DOMAIN s |-> EntrySize(t, s, i)]
           d == [i \in DOMAIN u |-> EntrySize(t, u, i)]
<1>1. n \in Nat /\ m \in Nat /\ DOMAIN s = 1 .. n /\ DOMAIN u = 1 .. m
  BY LenProperties
<1>2. VSize(t, u) = 1 + Total(d, m) + Terminator(t) /\ VSize(t, s) = 1 + Total(e, n) + Terminator(t)
  BY DEF VSize
<1>3. (\A i \in 1 .. n : e[i] = EntrySize(t, s, i)) /\ \A i \in 1 .. m : d[i] = EntrySize(t, u, i)
  BY <1>1
<1>4. Counts(e, n) /\ Counts(d, m)
  <2>1. \A i \in Nat : EntrySize(t, s, i) \in Nat
    BY EntrySizeIs
  <2>2. \A i \in Nat : EntrySize(t, u, i) \in Nat
    BY EntrySizeIs
  <2> HIDE DEF d, e, n, m
  <2>3. (\A i \in 1 .. n : i \in Nat) /\ \A i \in 1 .. m : i \in Nat
    BY <1>1
  <2> QED BY ONLY <1>3, <2>1, <2>2, <2>3 DEF Counts
<1>5. Among(d, m, e, n, f)
  <2>0. f \in [1 .. m -> 1 .. n] /\ (\A i \in 1 .. m : EntrySize(t, u, i) <= EntrySize(t, s, f[i]))
        /\ (\A i \in 1 .. m : i > 1 => f[i - 1] < f[i])
    OBVIOUS
  <2> HIDE DEF d, e, n, m
  <2>1. \A i \in 1 .. m : d[i] <= e[f[i]]
    <3> TAKE i \in 1 .. m
    <3>1. f[i] \in 1 .. n
      BY <2>0
    <3> QED BY <1>3, <2>0, <3>1
  <2> QED BY <2>0, <2>1 DEF Among
<1> HIDE DEF d, e, n, m
<1>6. Total(d, m) <= Total(e, n) /\ Total(d, m) \in Nat /\ Total(e, n) \in Nat
  BY <1>1, <1>4, <1>5, TotalAmong, TotalIs
<1>7. Terminator(t) \in Nat
  BY PosSizeIs
<1> QED BY <1>2, <1>6, <1>7

\* The bytes that k takes behind a.
Gap(t, a, k) == KeySize(t) - Repeats(t, a, k) + 1

\* The size of an entry depends on the entry before it only.
LEMMA EntryIs ==
  ASSUME NEW t, t.parts \in Seq(Nat \ {0})
  PROVE  /\ \A keys : \A i \in Nat : EntrySize(t, keys, i) =
              IF i > 1 /\ Compressed(t) THEN Gap(t, keys[i - 1], keys[i]) ELSE KeySize(t)
         /\ \A a, k : Gap(t, a, k) \in Nat
<1>1. \A a, k : Repeats(t, a, k) \in Nat /\ Repeats(t, a, k) + PosSize(t) <= KeySize(t)
  BY RepeatsIs
<1>2. PosSize(t) \in Nat /\ KeySize(t) \in Nat
  BY PosSizeIs
<1>3. \A a, k : Gap(t, a, k) \in Nat
  <2> TAKE a, k
  <2> DEFINE r == Repeats(t, a, k)
  <2>1. r \in Nat /\ r + PosSize(t) <= KeySize(t)
    BY <1>1
  <2>2. Gap(t, a, k) = KeySize(t) - r + 1
    BY DEF Gap
  <2> HIDE DEF r
  <2> QED BY <1>2, <2>1, <2>2
<1> QED BY <1>3 DEF EntrySize, Gap

\* a and c are the same up to i.
SameUpTo(i, a, c) == \A j \in 1 .. i : a[j] = c[j]

\* Keys that share more bytes take less room.
LEMMA RepeatsMore ==
  ASSUME NEW t, t.parts \in Seq(Nat \ {0}), NEW a, NEW c, NEW b, NEW e,
         \A i \in 1 .. Len(t.parts) : SameUpTo(i, a, c) => SameUpTo(i, b, e)
  PROVE  Gap(t, b, e) <= Gap(t, a, c)
<1> DEFINE n == Len(t.parts)
           x == [i \in DOMAIN t.parts |-> IF \A j \in 1 .. i : a[j] = c[j] THEN t.parts[i] ELSE 0]
           y == [i \in DOMAIN t.parts |-> IF \A j \in 1 .. i : b[j] = e[j] THEN t.parts[i] ELSE 0]
<1>1. n \in Nat /\ DOMAIN t.parts = 1 .. n /\ \A i \in 1 .. n : t.parts[i] \in Nat
  BY LenProperties, ElementOfSeq
<1>2. \A i \in 1 .. n : /\ x[i] = IF SameUpTo(i, a, c) THEN t.parts[i] ELSE 0
                        /\ y[i] = IF SameUpTo(i, b, e) THEN t.parts[i] ELSE 0
  BY <1>1 DEF SameUpTo
<1>3. Repeats(t, a, c) = Total(x, n) /\ Repeats(t, b, e) = Total(y, n)
  BY DEF Repeats
<1> HIDE DEF x, y
<1>4. \A i \in 1 .. n : x[i] \in Nat /\ y[i] \in Nat /\ x[i] <= y[i]
  <2>1. \A i \in 1 .. n : SameUpTo(i, a, c) => SameUpTo(i, b, e)
    OBVIOUS
  <2> QED BY <1>1, <1>2, <2>1
<1>5. Counts(x, n) /\ Counts(y, n)
  BY <1>4 DEF Counts
<1> HIDE DEF n
<1>6. Total(x, n) <= Total(y, n) /\ Total(x, n) \in Nat /\ Total(y, n) \in Nat
  BY <1>1, <1>4, <1>5, TotalMore, TotalIs
<1>7. KeySize(t) \in Nat
  BY PosSizeIs
<1> QED BY <1>3, <1>6, <1>7 DEF Gap

\* Where a key is left out, the next takes as much behind the one before it
\* as one of the two took.
LEMMA GapOver ==
  ASSUME NEW t, t.parts \in Seq(Nat \ {0}), NEW a, NEW b, NEW c
  PROVE  Gap(t, a, c) <= Gap(t, a, b) \/ Gap(t, a, c) <= Gap(t, b, c)
<1> DEFINE n == Len(t.parts)
<1>1. n \in Nat
  BY LenProperties
<1>2. CASE \A i \in 1 .. n : SameUpTo(i, a, b) => SameUpTo(i, b, c)
  <2>1. \A i \in 1 .. n : SameUpTo(i, a, b) => SameUpTo(i, a, c)
    BY <1>2 DEF SameUpTo
  <2> QED BY <2>1, RepeatsMore
<1>3. CASE ~ \A i \in 1 .. n : SameUpTo(i, a, b) => SameUpTo(i, b, c)
  <2>1. PICK i \in 1 .. n : SameUpTo(i, a, b) /\ ~ SameUpTo(i, b, c)
    BY <1>3
  <2>2. ASSUME NEW j \in 1 .. n, SameUpTo(j, b, c) PROVE SameUpTo(j, a, c)
    <3>1. j < i
      <4>1. CASE i <= j
        <5>1. \A m \in 1 .. i : m \in 1 .. j
          BY <1>1, <4>1
        <5> QED BY <2>1, <2>2, <5>1 DEF SameUpTo
      <4> QED BY <1>1, <4>1
    <3>2. \A m \in 1 .. j : m \in 1 .. i
      BY <1>1, <3>1
    <3> QED BY <2>1, <2>2, <3>2 DEF SameUpTo
  <2> QED BY <2>2, RepeatsMore
<1> QED BY <1>2, <1>3

\* A key between two leaves out at least as much as they have in common.
LEMMA GapBetween ==
  ASSUME NEW t, t.parts \in Seq(Nat \ {0}), NEW m, m \in Nat, Len(t.parts) <= m,
         NEW a, NEW b, NEW c, a \in Keys(m), b \in Keys(m), c \in Keys(m), Less(a, b), Less(b, c)
  PROVE  Gap(t, b, c) <= Gap(t, a, c)
<1> DEFINE n == Len(t.parts)
<1>1. n \in Nat /\ n <= m
  BY LenProperties
<1>2. PICK p \in 1 .. m : a[p] < b[p] /\ \A j \in 1 .. p - 1 : a[j] = b[j]
  BY LessIs
<1>3. PICK q \in 1 .. m : b[q] < c[q] /\ \A j \in 1 .. q - 1 : b[j] = c[j]
  BY LessIs
<1> HIDE DEF n
<1>4. ASSUME NEW i \in 1 .. n, SameUpTo(i, a, c) PROVE SameUpTo(i, b, c)
  <2>1. i \in 1 .. m
    BY <1>1
  <2>2. \A j \in 1 .. m : a[j] \in Int /\ b[j] \in Int /\ c[j] \in Int
    BY DEF Keys
  <2>3. q > i
    <3>1. CASE q <= i /\ q < p
      <4>1. q \in 1 .. i /\ q \in 1 .. p - 1
        BY <3>1
      <4>2. a[q] = c[q] /\ a[q] = b[q]
        BY <1>2, <1>4, <4>1 DEF SameUpTo
      <4> QED BY <1>3, <2>2, <4>2
    <3>2. CASE q <= i /\ q >= p
      <4>1. p \in 1 .. i
        BY <3>2, <2>1
      <4>2. a[p] = c[p]
        BY <1>4, <4>1 DEF SameUpTo
      <4>3. b[p] <= c[p]
        <5>1. CASE q = p
          BY <1>3, <2>2, <5>1
        <5>2. CASE q # p
          <6>1. p \in 1 .. q - 1
            BY <3>2, <5>2
          <6> QED BY <1>3, <2>2, <6>1
        <5> QED BY <5>1, <5>2
      <4> QED BY <1>2, <2>2, <4>2, <4>3
    <3> QED BY <3>1, <3>2
  <2>4. \A j \in 1 .. i : j \in 1 .. q - 1
    BY <2>1, <2>3
  <2> QED BY <1>3, <2>4 DEF SameUpTo
<1> QED BY <1>4, RepeatsMore DEF n

\* The first keys of a leaf take no more than all of them.
LEMMA FirstSize ==
  ASSUME NEW t, t.parts \in Seq(Nat \ {0}), NEW S, NEW s, s \in Seq(S), NEW m, m \in Nat, m <= Len(s)
  PROVE  VSize(t, SubSeq(s, 1, m)) <= VSize(t, s)
<1> DEFINE u == SubSeq(s, 1, m)
           n == Len(s)
           f == [i \in 1 .. m |-> i]
<1>1. u \in Seq(S) /\ Len(u) = m /\ \A i \in 1 .. m : u[i] = s[i]
  BY FirstIs
<1>2. n \in Nat
  BY LenProperties
<1>3. f \in [1 .. m -> 1 .. n] /\ (\A i \in 1 .. m : f[i] = i) /\ (\A i \in 1 .. m : i > 1 => f[i - 1] < f[i])
  BY <1>2
<1> HIDE DEF u, f
<1>4. \A i \in 1 .. m : EntrySize(t, u, i) <= EntrySize(t, s, f[i])
  <2> TAKE i \in 1 .. m
  <2>1. i > 1 => i - 1 \in 1 .. m
    OBVIOUS
  <2>2. i \in Nat /\ f[i] = i
    BY <1>3
  <2>3. EntrySize(t, u, i) = EntrySize(t, s, i)
    <3>1. /\ EntrySize(t, u, i) = IF i > 1 /\ Compressed(t) THEN Gap(t, u[i - 1], u[i]) ELSE KeySize(t)
          /\ EntrySize(t, s, i) = IF i > 1 /\ Compressed(t) THEN Gap(t, s[i - 1], s[i]) ELSE KeySize(t)
      BY <2>2, EntryIs
    <3>2. u[i] = s[i] /\ (i > 1 => u[i - 1] = s[i - 1])
      BY <1>1, <2>1
    <3> QED BY <3>1, <3>2
  <2>4. EntrySize(t, u, i) \in Nat
    BY <2>2, EntrySizeIs
  <2> QED BY <2>2, <2>3, <2>4
<1>5. VSize(t, u) <= VSize(t, s)
  <2>1. f \in [1 .. Len(u) -> 1 .. Len(s)]
    BY <1>1, <1>3
  <2>2. \A i \in 1 .. Len(u) : EntrySize(t, u, i) <= EntrySize(t, s, f[i])
    BY <1>1, <1>4
  <2>3. \A i \in 1 .. Len(u) : i > 1 => f[i - 1] < f[i]
    BY <1>1, <1>3
  <2> QED BY ONLY t.parts \in Seq(Nat \ {0}), s \in Seq(S), <1>1, <2>1, <2>2, <2>3, SizeAmong
<1> QED BY <1>5 DEF u

\* So do its last ones, also when the first of them is another key k between
\* that and the one before.
LEMMA RestSize ==
  ASSUME NEW t, t.parts \in Seq(Nat \ {0}), NEW S, NEW s, s \in Seq(S), NEW u, u \in Seq(S),
         NEW q, q \in Nat, Len(u) + q = Len(s),
         \A i \in 1 .. Len(u) : i > 1 => u[i] = s[q + i],
         Len(u) > 1 => Gap(t, u[1], u[2]) <= Gap(t, s[q + 1], s[q + 2])
  PROVE  VSize(t, u) <= VSize(t, s)
<1> DEFINE n == Len(s)
           m == Len(u)
           f == [i \in 1 .. m |-> IF i = 1 THEN 1 ELSE q + i]
<1>1. n \in Nat /\ m \in Nat /\ m + q = n
  BY LenProperties
<1>2. \A i \in 1 .. m : f[i] = IF i = 1 THEN 1 ELSE q + i
  OBVIOUS
<1>3. f \in [1 .. m -> 1 .. n]
  BY <1>1
<1> HIDE DEF f
<1>4. \A i \in 1 .. m : i > 1 => f[i - 1] < f[i]
  <2> TAKE i \in 1 .. m
  <2>1. i > 1 => i - 1 \in 1 .. m
    BY <1>1
  <2> QED BY <1>1, <1>2, <2>1
<1>5. (\A i \in 1 .. m : i > 1 => u[i] = s[q + i]) /\ (m > 1 => Gap(t, u[1], u[2]) <= Gap(t, s[q + 1], s[q + 2]))
  OBVIOUS
<1> HIDE DEF n, m
<1>6. \A i \in 1 .. m : EntrySize(t, u, i) <= EntrySize(t, s, f[i])
  <2> TAKE i \in 1 .. m
  <2> DEFINE j == f[i]
  <2>0. i \in Nat /\ j \in Nat /\ KeySize(t) \in Nat
    BY <1>1, <1>2, PosSizeIs
  <2>1. /\ EntrySize(t, u, i) = IF i > 1 /\ Compressed(t) THEN Gap(t, u[i - 1], u[i]) ELSE KeySize(t)
        /\ EntrySize(t, s, j) = IF j > 1 /\ Compressed(t) THEN Gap(t, s[j - 1], s[j]) ELSE KeySize(t)
    BY <2>0, EntryIs
  <2>2. CASE i = 1
    <3>1. j = 1
      BY <1>2, <2>2
    <3> HIDE DEF j
    <3> QED BY <2>0, <2>1, <2>2, <3>1 DEF j
  <2>3. CASE i > 1
    <3>1. j = q + i /\ j > 1 /\ i - 1 \in 1 .. m
      BY <1>1, <1>2, <2>3
    <3> HIDE DEF j
    <3>2. Gap(t, u[i - 1], u[i]) <= Gap(t, s[j - 1], s[j])
      <4>1. CASE i = 2
        <5>1. q + 1 = j - 1 /\ q + 2 = j /\ i - 1 = 1 /\ m > 1
          BY <1>1, <3>1, <4>1
        <5> QED BY <1>5, <4>1, <5>1
      <4>2. CASE i # 2
        <5>1. i - 1 > 1 /\ q + (i - 1) = j - 1
          BY <1>1, <2>3, <3>1, <4>2
        <5>2. u[i - 1] = s[j - 1] /\ u[i] = s[j]
          BY <1>5, <2>3, <3>1, <5>1
        <5>3. Gap(t, u[i - 1], u[i]) \in Nat
          BY EntryIs
        <5> QED BY <5>2, <5>3
      <4> QED BY <4>1, <4>2
    <3> QED BY <2>0, <2>1, <2>3, <3>1, <3>2 DEF j
  <2> QED BY <1>1, <2>2, <2>3
<1> QED BY ONLY t.parts \in Seq(Nat \ {0}), s \in Seq(S), u \in Seq(S), <1>3, <1>4, <1>6, SizeAmong DEF n, m

\* A key less takes no more.
LEMMA LessSize ==
  ASSUME NEW t, t.parts \in Seq(Nat \ {0}), NEW S, NEW s, s \in Seq(S), NEW x, x \in 1 .. Len(s)
  PROVE  VSize(t, RemoveAt(s, x)) <= VSize(t, s)
<1> DEFINE u == RemoveAt(s, x)
           n == Len(s)
           m == n - 1
<1>1. u \in Seq(S) /\ Len(u) = m /\ \A j \in 1 .. m : u[j] = IF j < x THEN s[j] ELSE s[j + 1]
  BY RemoveAtIs
<1>2. n \in Nat /\ x \in 1 .. n
  BY LenProperties
<1> DEFINE same == x > 1 /\ x < n /\ Gap(t, s[x - 1], s[x + 1]) <= Gap(t, s[x - 1], s[x])
           f == [i \in 1 .. m |-> IF i < x \/ (i = x /\ (x = 1 \/ same)) THEN i ELSE i + 1]
<1>3. \A i \in 1 .. m : f[i] = IF i < x \/ (i = x /\ (x = 1 \/ same)) THEN i ELSE i + 1
  OBVIOUS
<1>4. f \in [1 .. m -> 1 .. n]
  <2> HIDE DEF same
  <2> QED BY <1>2
<1> HIDE DEF f
<1>5. \A i \in 1 .. m : i > 1 => f[i - 1] < f[i]
  <2> TAKE i \in 1 .. m
  <2> HIDE DEF same
  <2>1. i > 1 => i - 1 \in 1 .. m
    BY <1>2
  <2> QED BY <1>2, <1>3, <2>1
<1> HIDE DEF u
<1>6. \A i \in 1 .. m : EntrySize(t, u, i) <= EntrySize(t, s, f[i])
  <2> TAKE i \in 1 .. m
  <2> DEFINE j == f[i]
  <2>0. i \in Nat /\ j \in Nat /\ KeySize(t) \in Nat /\ j \in 1 .. n
    BY <1>2, <1>4, PosSizeIs, SMTT(60)
  <2>1. /\ EntrySize(t, u, i) = IF i > 1 /\ Compressed(t) THEN Gap(t, u[i - 1], u[i]) ELSE KeySize(t)
        /\ EntrySize(t, s, j) = IF j > 1 /\ Compressed(t) THEN Gap(t, s[j - 1], s[j]) ELSE KeySize(t)
    BY <2>0, EntryIs
  <2>2. CASE i = 1 /\ x > 1
    <3>1. j = 1
      BY <1>2, <1>3, <2>2
    <3> HIDE DEF j
    <3> QED BY <2>0, <2>1, <2>2, <3>1 DEF j
  <2>2a. CASE i = 1 /\ x = 1
    <3>1. j = 1
      BY <1>2, <1>3, <2>2a
    <3> HIDE DEF j
    <3> QED BY <2>0, <2>1, <2>2a, <3>1 DEF j
  <2>3. CASE i > 1
    <3>1. j > 1 /\ i - 1 \in 1 .. m
      <4> HIDE DEF same
      <4> QED BY <1>2, <1>3, <2>3
    <3>2. Gap(t, u[i - 1], u[i]) <= Gap(t, s[j - 1], s[j])
      <4>0. Gap(t, u[i - 1], u[i]) \in Nat
        BY EntryIs
      <4>1. CASE i < x
        <5>1. j = i /\ u[i] = s[i] /\ u[i - 1] = s[i - 1]
          BY <1>1, <1>2, <1>3, <3>1, <4>1
        <5> QED BY <4>0, <5>1
      <4>2. CASE i > x
        <5>1. j = i + 1 /\ j - 1 = i /\ u[i] = s[i + 1] /\ u[i - 1] = s[i]
          <6>1. j = i + 1 /\ j - 1 = i
            <7> HIDE DEF same
            <7> QED BY <1>2, <1>3, <4>2
          <6>2. u[i] = s[i + 1]
            BY <1>1, <1>2, <4>2
          <6>3. ~(i - 1 < x) /\ i - 1 + 1 = i
            BY <1>2, <4>2
          <6>4. u[i - 1] = s[i]
            BY <1>1, <3>1, <6>3
          <6> QED BY <6>1, <6>2, <6>4
        <5> QED BY <4>0, <5>1
      <4>3. CASE i = x
        <5>1. u[i] = s[x + 1] /\ u[i - 1] = s[x - 1]
          BY <1>1, <1>2, <3>1, <4>3
        <5>2. CASE same
          <6>1. j = x
            BY <1>3, <4>3, <5>2
          <6> QED BY <5>1, <5>2, <6>1
        <5>3. CASE ~same
          <6>1. j = x + 1 /\ j - 1 = x
            <7>1. x # 1
              BY <2>3, <4>3
            <7> HIDE DEF same
            <7> QED BY <1>2, <1>3, <4>3, <5>3, <7>1
          <6>2. x > 1 /\ x < n
            BY <1>2, <2>3, <4>3
          <6>3. Gap(t, s[x - 1], s[x + 1]) <= Gap(t, s[x], s[x + 1])
            BY <5>3, <6>2, GapOver
          <6> QED BY <5>1, <6>1, <6>3
        <5> QED BY <5>2, <5>3
      <4> QED BY <1>2, <4>1, <4>2, <4>3
    <3> HIDE DEF j
    <3> QED BY <2>0, <2>1, <2>3, <3>1, <3>2 DEF j
  <2> QED BY <1>2, <2>2, <2>2a, <2>3
<1> DEFINE g == f
<1>7. VSize(t, u) <= VSize(t, s)
  <2>1. f \in [1 .. Len(u) -> 1 .. Len(s)]
    BY <1>1, <1>4
  <2>2. \A i \in 1 .. Len(u) : EntrySize(t, u, i) <= EntrySize(t, s, f[i])
    BY <1>1, <1>6
  <2>3. \A i \in 1 .. Len(u) : i > 1 => f[i - 1] < f[i]
    BY <1>1, <1>5
  <2> QED BY ONLY t.parts \in Seq(Nat \ {0}), s \in Seq(S), <1>1, <2>1, <2>2, <2>3, SizeAmong
<1> QED BY <1>7 DEF u

\* The size of a leaf is a number.
LEMMA VSizeIs ==
  ASSUME NEW t, t.parts \in Seq(Nat \ {0}), NEW S, NEW s, s \in Seq(S)
  PROVE  VSize(t, s) \in Nat
<1> DEFINE e == [j \in DOMAIN s |-> EntrySize(t, s, j)]
<1>1. Len(s) \in Nat /\ DOMAIN s = 1 .. Len(s)
  BY LenProperties
<1>2. \A j \in Nat : EntrySize(t, s, j) \in Nat
  BY EntrySizeIs
<1>3. Counts(e, Len(s))
  BY <1>1, <1>2 DEF Counts
<1>4. VSize(t, s) = 1 + Total(e, Len(s)) + Terminator(t)
  BY DEF VSize
<1> HIDE DEF e
<1>5. Total(e, Len(s)) \in Nat /\ Terminator(t) \in Nat
  BY <1>1, <1>3, TotalIs, PosSizeIs
<1> QED BY <1>4, <1>5

-----------------------------------------------------------------------------
(***************************************************************************)
(* An overfull leaf has room after it gave keys away.                      *)
(***************************************************************************)
\* What is known of the leaf b that gets the key k: its new keys.
IsGain(h, K, m, old, i, k, keys) ==
  /\ K \subseteq Keys(m) /\ m \in Nat /\ Len(h.parts) <= m
  /\ old \in Seq(K) /\ keys \in Seq(K) /\ Len(keys) = Len(old) + 1 /\ i \in 1 .. Len(old) + 1 /\ k \in K
  /\ \A j \in 1 .. Len(old) + 1 : keys[j] = IF j < i THEN old[j] ELSE IF j = i THEN k ELSE old[j - 1]
  /\ \A j \in 1 .. Len(old) : j < i => Less(old[j], k)
  /\ \A j \in 1 .. Len(old) : j >= i => Less(k, old[j])
  /\ VSize(h, old) <= h.blksize

\* A leaf without the last of its new keys fits; so do the last ones, if not
\* all fit up to the first of those.
LEMMA SplitFits ==
  ASSUME NEW K, NEW h, Header(h), NEW m, NEW old, NEW i, NEW k, NEW keys, IsGain(h, K, m, old, i, k, keys),
         NEW n, n \in 2 .. Len(keys) - 1, ~(VSize(h, SubSeq(keys, 1, n + 1)) <= h.blksize)
  PROVE  VSize(h, SubSeq(keys, n + 1, Len(keys))) <= h.blksize
<1>1. /\ K \subseteq Keys(m) /\ m \in Nat /\ Len(h.parts) <= m /\ h.parts \in Seq(Nat \ {0}) /\ h.blksize \in Nat
      /\ old \in Seq(K) /\ keys \in Seq(K) /\ Len(keys) = Len(old) + 1 /\ i \in 1 .. Len(old) + 1 /\ k \in K
  BY DEF IsGain, Header
<1>2. /\ \A j \in 1 .. Len(old) + 1 : keys[j] = IF j < i THEN old[j] ELSE IF j = i THEN k ELSE old[j - 1]
      /\ \A j \in 1 .. Len(old) : j < i => Less(old[j], k)
      /\ \A j \in 1 .. Len(old) : j >= i => Less(k, old[j])
      /\ VSize(h, old) <= h.blksize
  BY DEF IsGain
<1> DEFINE N == Len(old)
           z == n + 1
           q == n - 1
           u == SubSeq(keys, z, Len(keys))
           v == SubSeq(keys, 1, z)
           w == SubSeq(old, 1, z)
<1>3. /\ N \in Nat /\ n \in 2 .. N /\ z \in Nat /\ q \in Nat /\ z = n + 1 /\ q = n - 1 /\ z <= N + 1 /\ Len(keys) = N + 1
  BY <1>1
<1>4. VSize(h, old) \in Nat /\ VSize(h, v) \in Nat
  <2>0. v \in Seq(K)
    BY ONLY <1>1, <1>3, FirstIs
  <2> QED BY ONLY <1>1, <2>0, VSizeIs
<1>5. i <= z
  <2>1. ASSUME i > z PROVE FALSE
    <3>1. z <= N
      BY <1>1, <1>3, <2>1
    <3>2. v \in Seq(K) /\ Len(v) = z /\ \A j \in 1 .. z : v[j] = keys[j]
      BY <1>1, <1>3, FirstIs
    <3>3. w \in Seq(K) /\ Len(w) = z /\ \A j \in 1 .. z : w[j] = old[j]
      BY <1>1, <1>3, <3>1, FirstIs
    <3> HIDE DEF v, w, z
    <3>4. \A j \in 1 .. z : v[j] = w[j]
      <4> TAKE j \in 1 .. z
      <4>1. j \in 1 .. Len(old) + 1 /\ j < i
        BY <1>1, <1>3, <2>1, <3>1
      <4>2. keys[j] = old[j]
        BY <1>2, <4>1
      <4> QED BY <3>2, <3>3, <4>2
    <3>5. v = w
      BY ONLY <1>3, <3>2, <3>3, <3>4
    <3>6. VSize(h, SubSeq(old, 1, z)) <= VSize(h, old)
      BY ONLY <1>1, <1>3, <3>1, FirstSize
    <3> DEFINE a == VSize(h, v)
               b == VSize(h, old)
    <3>7. a \in Nat /\ b \in Nat /\ a <= b /\ b <= h.blksize
      BY <1>2, <1>4, <3>5, <3>6 DEF w
    <3>8. ~(a <= h.blksize)
      BY DEF v, z
    <3> HIDE DEF a, b
    <3> QED BY <1>1, <3>7, <3>8
  <2> QED BY <1>1, <1>3, <2>1
<1>6. u \in Seq(K) /\ Len(u) = N + 1 - n /\ \A j \in 1 .. N + 1 - n : u[j] = keys[n + j]
  <2> DEFINE l == Len(keys)
             d == l - n
  <2>1. n \in Nat /\ z = n + 1 /\ l \in Nat /\ n <= l /\ l <= Len(keys) /\ d = l - n
    BY <1>1, <1>3
  <2>2. d = N + 1 - n
    BY <1>3
  <2>4. u = SubSeq(keys, z, l)
    OBVIOUS
  <2> HIDE DEF d, l, z, u
  <2>3. SubSeq(keys, z, l) \in Seq(K) /\ Len(SubSeq(keys, z, l)) = d /\ \A j \in 1 .. d : SubSeq(keys, z, l)[j] = keys[n + j]
    <3>1. keys \in Seq(K)
      BY <1>1
    <3> QED BY ONLY <3>1, <2>1, SliceIs
  <2> QED BY ONLY <2>2, <2>3, <2>4
<1> HIDE DEF u, N, q
<1>7. \A j \in 1 .. Len(u) : j > 1 => u[j] = old[q + j]
  <2> TAKE j \in 1 .. Len(u)
  <2> HAVE j > 1
  <2>1. n + j \in 1 .. N + 1 /\ ~(n + j < i) /\ n + j # i /\ n + j - 1 = q + j
    BY <1>1, <1>3, <1>5, <1>6
  <2>2. u[j] = keys[n + j]
    BY <1>6
  <2>3. keys[n + j] = old[n + j - 1]
    BY <1>2, <2>1 DEF N
  <2> QED BY <2>1, <2>2, <2>3
<1>8. Len(u) > 1 => Gap(h, u[1], u[2]) <= Gap(h, old[q + 1], old[q + 2])
  <2> HAVE Len(u) > 1
  <2>1. n \in 1 .. N /\ n + 1 \in 1 .. N /\ q + 1 = n /\ q + 2 = n + 1 /\ 1 \in 1 .. Len(u) /\ 2 \in 1 .. Len(u)
    BY <1>3, <1>6
  <2>2. u[1] = keys[n + 1] /\ u[2] = old[n + 1]
    BY <1>6, <1>7, <2>1
  <2>3. old[n] \in Keys(m) /\ old[n + 1] \in Keys(m) /\ k \in Keys(m)
    <3>1. old[n] \in K /\ old[n + 1] \in K
      BY <1>1, <2>1 DEF N
    <3> QED BY <1>1, <3>1
  <2>4. CASE i = n + 1
    <3>1. keys[n + 1] = k
      BY <1>2, <1>3, <2>1, <2>4 DEF N
    <3>2. Less(old[n], k) /\ Less(k, old[n + 1])
      BY <1>2, <1>3, <2>1, <2>4 DEF N
    <3> DEFINE a == old[n]
               b == old[n + 1]
    <3>3. a \in Keys(m) /\ b \in Keys(m) /\ Less(a, k) /\ Less(k, b)
      BY <2>3, <3>2
    <3> HIDE DEF a, b
    <3>4. Gap(h, k, b) <= Gap(h, a, b)
      BY ONLY <1>1, <2>3, <3>3, GapBetween
    <3> QED BY <2>1, <2>2, <3>1, <3>4 DEF a, b
  <2>5. CASE i # n + 1
    <3>1. ~(n + 1 < i) /\ n + 1 # i /\ n + 1 \in 1 .. N + 1 /\ n + 1 - 1 = n
      BY <1>1, <1>3, <1>5, <2>1, <2>5
    <3>2. keys[n + 1] = old[n]
      BY <1>2, <3>1 DEF N
    <3>3. Gap(h, u[1], u[2]) \in Nat
      BY <1>1, EntryIs
    <3> QED BY <2>1, <2>2, <3>2, <3>3
  <2> QED BY <2>4, <2>5
<1>9. q \in Nat /\ Len(u) + q = Len(old)
  BY <1>3, <1>6 DEF N, q
<1>10. VSize(h, u) <= VSize(h, old)
  BY ONLY <1>1, <1>6, <1>7, <1>8, <1>9, RestSize
<1>11. VSize(h, u) \in Nat
  BY ONLY <1>1, <1>6, VSizeIs
<1> DEFINE a == VSize(h, u)
           b == VSize(h, old)
<1>12. a \in Nat /\ b \in Nat /\ a <= b /\ b <= h.blksize /\ h.blksize \in Nat
  BY <1>1, <1>2, <1>4, <1>10, <1>11
<1> HIDE DEF a, b
<1>13. a <= h.blksize
  BY <1>12
<1> QED BY <1>13 DEF a, u, z

-----------------------------------------------------------------------------
(***************************************************************************)
(* xioxins at a leaf, in all its cases.                                    *)
(***************************************************************************)
\* The greatest number of keys that fit in a leaf, of one key at least.
LEMMA FitsIs ==
  ASSUME NEW K, NEW h, Header(h), NEW t, t \in Indexes(h, K), NEW keys, keys \in Seq(K), Len(keys) >= 1,
         NEW fits, fits = {n \in DOMAIN keys : VSize(t, SubSeq(keys, 1, n)) <= t.blksize}, NEW n, n = Max(fits)
  PROVE  /\ n \in 1 .. Len(keys) /\ VSize(h, SubSeq(keys, 1, n)) <= h.blksize
         /\ n # Len(keys) => n >= 2 /\ ~(VSize(h, SubSeq(keys, 1, n + 1)) <= h.blksize)
<1> DEFINE N == Len(keys)
<1>1. N \in Nat /\ N >= 1 /\ DOMAIN keys = 1 .. N
  BY LenProperties
<1>2. fits = {x \in 1 .. N : VSize(h, SubSeq(keys, 1, x)) <= h.blksize}
  <2>1. t.blksize = h.blksize /\ \A s : VSize(t, s) = VSize(h, s)
    BY SizesOf
  <2> QED BY <1>1, <2>1
<1>3. ASSUME NEW x, x \in {1, 2}, x <= N PROVE x \in fits
  <2> DEFINE s == SubSeq(keys, 1, x)
  <2>1. s \in Seq(K) /\ Len(s) = x
    <3>1. x \in Nat /\ x <= Len(keys)
      BY <1>3
    <3> QED BY ONLY <3>1, keys \in Seq(K), FirstIs
  <2>2. Len(s) \in {1, 2}
    BY <1>3, <2>1
  <2> HIDE DEF s
  <2>3. VSize(h, s) + 1 <= h.blksize
    BY ONLY Header(h), t \in Indexes(h, K), <2>1, <2>2, FewFit
  <2>4. VSize(h, s) \in Nat /\ h.blksize \in Nat
    BY <2>1, VSizeIs DEF Header
  <2>5. VSize(h, s) <= h.blksize
    BY ONLY <2>3, <2>4
  <2>6. x \in 1 .. N
    BY <1>1, <1>3
  <2> QED BY <1>2, <2>5, <2>6 DEF s
<1> HIDE DEF N
<1>4. n \in fits /\ \A y \in fits : y <= n
  <2>1. fits \in SUBSET (0 .. N)
    BY <1>1, <1>2
  <2>2. fits # {}
    BY <1>1, <1>3
  <2> QED BY ONLY <1>1, <2>1, <2>2, n = Max(fits), MaxIs
<1>5. n \in 1 .. N /\ VSize(h, SubSeq(keys, 1, n)) <= h.blksize
  BY <1>2, <1>4
<1>6. ASSUME n # N PROVE n >= 2 /\ ~(VSize(h, SubSeq(keys, 1, n + 1)) <= h.blksize)
  <2>1. N >= 2
    BY <1>1, <1>5, <1>6
  <2>2. 2 <= n
    BY <1>3, <1>4, <2>1
  <2>3. n + 1 \in 1 .. N /\ ~(n + 1 <= n)
    BY <1>1, <1>5, <1>6
  <2>4. n + 1 \notin fits
    BY <1>4, <2>3
  <2> QED BY <1>2, <2>2, <2>3, <2>4
<1> QED BY <1>5, <1>6 DEF N

\* What a leaf block becomes with its new keys.
Inserted(t, b, keys, path, n) ==
  IF n = Len(keys) THEN Put(t, b, Leaf(keys)) ELSE Overflow(t, b, keys, n, path)

\* xioxins writes the leaf, gives keys to its brother or splits it: the tree is
\* sound in each case.
LEMMA InsertedInto ==
  ASSUME NEW K, Ordered(K), NEW h, Header(h), NEW low, low \in K, NEW high, high \in K, NEW m, m \in Nat,
         K \subseteq Keys(m), Len(h.parts) <= m, NEW t, NEW W, NEW lev, NEW lo, NEW hi,
         Form(h, K, low, high, t, W, lev, lo, hi, 0, 0, {}), NEW b, b \in W, NEW i, NEW k,
         Belongs(K, KeysIn(t, W), KidsIn(t, W), lo, hi, b, i, k),
         NEW path, Leg(W, KeysIn(t, W), KidsIn(t, W), lev, t.root, path, b),
         NEW keys, keys = InsertAt(t.blk[b].keys, i, k), NEW fits,
         fits = {n \in DOMAIN keys : VSize(t, SubSeq(keys, 1, n)) <= t.blksize}, NEW n, n = Max(fits)
  PROVE  Good(h, K, low, high, Inserted(t, b, keys, path, n))
<1>a. /\ Form(h, K, low, high, t, W, lev, lo, hi, 0, 0, {}) /\ b \in W
      /\ Belongs(K, KeysIn(t, W), KidsIn(t, W), lo, hi, b, i, k) /\ keys = InsertAt(t.blk[b].keys, i, k)
  OBVIOUS
<1>b. Leg(W, KeysIn(t, W), KidsIn(t, W), lev, t.root, path, b)
  OBVIOUS
<1>c. K \subseteq Keys(m) /\ m \in Nat /\ Len(h.parts) <= m
  OBVIOUS
<1>d. Ordered(K) /\ Header(h) /\ low \in K /\ high \in K
  OBVIOUS
<1> DEFINE old == t.blk[b].keys
           ks1 == With(KeysIn(t, W), b, keys)
<1>1. /\ keys \in Seq(K) /\ Len(keys) = Len(old) + 1 /\ old \in Seq(K)
      /\ KidsIn(t, W)[b] = <<>> /\ i \in 1 .. Len(old) + 1 /\ k \in K
  BY ONLY <1>a, <1>d, GainAt
<1>2. Stored(h, K, t, W) /\ t \in Indexes(h, K)
  BY ONLY <1>a DEF Form, Stored
<1>3. t.blk[b].type = "V" /\ VSize(h, old) <= h.blksize
  <2>1. t.blk[b].type \in {"U", "V"} /\ (t.blk[b].type = "U" => t.blk[b].kids # <<>>)
    BY ONLY <1>a, <1>2, StoredBlock
  <2>2. KidsOf(t.blk[b]) = <<>>
    BY ONLY <1>a, <1>1, ViewIs
  <2>3. t.blk[b].type = "V"
    BY ONLY <2>1, <2>2 DEF KidsOf
  <2> QED BY ONLY <1>a, <1>2, <2>3, RoomOf
<1>4. KeysIn(t, W)[b] = old
  BY ONLY <1>a, ViewIs
<1> HIDE DEF old
<1>5. Len(old) \in Nat /\ Len(keys) >= 1
  BY ONLY <1>1, LenProperties
<1>6. /\ n \in 1 .. Len(keys) /\ VSize(h, SubSeq(keys, 1, n)) <= h.blksize
      /\ n # Len(keys) => n >= 2 /\ ~(VSize(h, SubSeq(keys, 1, n + 1)) <= h.blksize)
  <2>1. n = Max(fits) /\ fits = {x \in DOMAIN keys : VSize(t, SubSeq(keys, 1, x)) <= t.blksize}
    OBVIOUS
  <2> QED BY ONLY <1>1, <1>2, <1>5, <1>d, <2>1, FitsIs
<1>7. CASE n = Len(keys)
  <2>1. SubSeq(keys, 1, n) = keys
    <3> DEFINE s == SubSeq(keys, 1, n)
    <3>1. n \in Nat /\ n <= Len(keys)
      BY <1>6
    <3>2. s \in Seq(K) /\ Len(s) = n /\ \A j \in 1 .. n : s[j] = keys[j]
      BY ONLY <1>1, <3>1, FirstIs
    <3> HIDE DEF s
    <3>3. s = keys
      BY ONLY <1>1, <1>7, <3>2
    <3> QED BY <3>3 DEF s
  <2>2. VSize(h, keys) <= h.blksize
    BY ONLY <1>6, <2>1
  <2>3. Good(h, K, low, high, Put(t, b, Leaf(keys)))
    BY ONLY <1>d, <1>a, <2>2, LeafGains
  <2> QED BY ONLY <1>7, <2>3 DEF Inserted
<1>8. CASE n # Len(keys)
  <2>0. Inserted(t, b, keys, path, n) = Overflow(t, b, keys, n, path)
    BY ONLY <1>8 DEF Inserted
  <2>1. n \in 2 .. Len(keys) - 1 /\ n \in 1 .. Len(keys) - 1 /\ ~(VSize(h, SubSeq(keys, 1, n + 1)) <= h.blksize)
    BY ONLY <1>1, <1>5, <1>6, <1>8
  <2> DEFINE up == Last(path)
             p == up.blk
             x == up.off
             parent == t.blk[p]
             brother == parent.kids[x + 1]
             moved == MovedKeys(keys, n, parent.keys[x], t.blk[brother].keys)
             split == Put(t, b, Leaf(SubSeq(keys, 1, n - 1)))
             q == n + 1
             z == NewKey(parent, x, keys[q])
             shares == path # <<>> /\ ~AtEnd(t, up) /\ VSize(t, moved) <= t.blksize
             one == Put(Put(Put(t, b, Leaf(SubSeq(keys, 1, n))), brother, Leaf(moved)), p, z)
             two == PushUp(Add(split, Leaf(SubSeq(keys, q, Len(keys)))), path, keys[n], NewBlock(split))
  <2>2. Overflow(t, b, keys, n, path) = IF shares THEN one ELSE two
    BY DEF Overflow, MovedKeys, NewKey
  <2>3. CASE shares
    <3>1. path # <<>> /\ VSize(h, moved) <= h.blksize
      BY ONLY <2>3, <1>2, SizesOf
    <3>2. x <= Len(parent.keys)
      <4>1. up \in [blk : Nat, off : Nat] /\ LeadsTo(W, KeysIn(t, W), KidsIn(t, W), up, b)
        <5>1. lev \in [W -> Nat]
          BY ONLY <1>a DEF Form, Shape, ShapeTypes
        <5>2. path # <<>>
          BY <3>1
        <5> QED BY ONLY <1>b, <5>1, <5>2, LegUp
      <4>2. p \in W /\ x \in Nat
        BY ONLY <4>1 DEF LeadsTo
      <4>3. parent.keys \in Seq(K)
        BY ONLY <1>2, <4>2, StoredBlock
      <4>4. Len(parent.keys) \in Nat /\ ~(x > Len(parent.keys))
        BY ONLY <2>3, <4>3, LenProperties DEF AtEnd
      <4> QED BY ONLY <4>2, <4>4
    <3>3. p = Last(path).blk /\ x = Last(path).off /\ brother = t.blk[p].kids[x + 1] /\ q = n + 1
      OBVIOUS
    <3>3b. moved = MovedKeys(keys, n, t.blk[p].keys[x], t.blk[brother].keys)
      OBVIOUS
    <3>3c. z = NewKey(t.blk[p], x, keys[q])
      OBVIOUS
    <3>3d. VSize(h, moved) <= h.blksize
      BY <3>1
    <3>3a. x <= Len(t.blk[p].keys)
      BY <3>2
    <3>3e. path # <<>>
      BY <3>1
    <3>3f. n \in 1 .. Len(keys) - 1
      BY <2>1
    <3> HIDE DEF p, x, parent, brother, moved, q, z, up
    <3>4. VSize(h, SubSeq(keys, 1, n)) <= h.blksize
      BY ONLY <1>6
    <3>4a. IsShare(h, t, path, keys, n, p, x, brother, moved, q, z)
      BY ONLY <3>3, <3>3a, <3>3b, <3>3c, <3>3d, <3>3e, <3>3f, <3>4 DEF IsShare
    <3>5. Good(h, K, low, high, one)
      BY ONLY <1>a, <1>b, <1>d, <3>4a, LeafShares
    <3> QED BY ONLY <2>0, <2>2, <2>3, <3>5
  <2>4. CASE ~shares
    <3>1. IsGain(h, K, m, old, i, k, keys)
      <4>1. \A j \in 1 .. Len(old) + 1 : keys[j] = IF j < i THEN old[j] ELSE IF j = i THEN k ELSE old[j - 1]
        <5>1. keys = InsertAt(old, i, k)
          BY <1>a DEF old
        <5>2. \A j \in 1 .. Len(old) + 1 : InsertAt(old, i, k)[j] = IF j < i THEN old[j] ELSE IF j = i THEN k ELSE old[j - 1]
          BY ONLY <1>1, InsertIs
        <5> QED BY ONLY <5>1, <5>2
      <4>2. /\ \A j \in 1 .. Len(old) : j < i => Less(old[j], k)
            /\ \A j \in 1 .. Len(old) : j >= i => Less(k, old[j])
        BY ONLY <1>4, <1>a DEF Belongs
      <4> QED BY ONLY <1>1, <1>3, <1>c, <4>1, <4>2 DEF IsGain
    <3>2. VSize(h, SubSeq(keys, n + 1, Len(keys))) <= h.blksize
      BY ONLY <1>d, <2>1, <3>1, SplitFits
    <3>3. VSize(h, SubSeq(keys, 1, n - 1)) <= h.blksize
      <4> DEFINE s == SubSeq(keys, 1, n)
                 y == n - 1
                 u == SubSeq(s, 1, y)
                 v == SubSeq(keys, 1, y)
      <4>1. n \in Nat /\ n <= Len(keys) /\ y \in Nat /\ y <= Len(keys) /\ y <= n
        BY ONLY <2>1, <1>1, <1>5
      <4> HIDE DEF y
      <4>2. s \in Seq(K) /\ Len(s) = n /\ \A j \in 1 .. n : s[j] = keys[j]
        BY ONLY <1>1, <4>1, FirstIs
      <4>3. VSize(h, s) <= h.blksize
        BY ONLY <1>6
      <4> HIDE DEF s
      <4>4. u \in Seq(K) /\ Len(u) = y /\ \A j \in 1 .. y : u[j] = s[j]
        BY ONLY <4>1, <4>2, FirstIs
      <4>5. v \in Seq(K) /\ Len(v) = y /\ \A j \in 1 .. y : v[j] = keys[j]
        BY ONLY <1>1, <4>1, FirstIs
      <4>6. h.parts \in Seq(Nat \ {0}) /\ h.blksize \in Nat
        BY ONLY <1>d DEF Header
      <4>7. VSize(h, u) <= VSize(h, s)
        BY ONLY <4>1, <4>2, <4>6, FirstSize
      <4>8. VSize(h, u) \in Nat /\ VSize(h, s) \in Nat
        BY ONLY <4>2, <4>4, <4>6, VSizeIs
      <4> HIDE DEF u, v
      <4>9. u = v
        <5>1. \A j \in 1 .. y : u[j] = v[j]
          BY ONLY <4>1, <4>2, <4>4, <4>5
        <5> QED BY ONLY <4>4, <4>5, <5>1
      <4>10. VSize(h, v) <= h.blksize
        BY ONLY <4>3, <4>6, <4>7, <4>8, <4>9
      <4> QED BY ONLY <4>10 DEF v, y
    <3>4. split = Put(t, b, Leaf(SubSeq(keys, 1, n - 1)))
      OBVIOUS
    <3> HIDE DEF split
    <3>5. Pending(h, K, low, high, Add(split, Leaf(SubSeq(keys, n + 1, Len(keys)))), path, keys[n], NewBlock(split))
      BY ONLY <1>a, <1>b, <1>d, <2>1, <3>2, <3>3, <3>4, LeafSplits
    <3> DEFINE t3 == Add(split, Leaf(SubSeq(keys, n + 1, Len(keys))))
               k3 == keys[n]
               c == NewBlock(split)
    <3>6. Pending(h, K, low, high, t3, path, k3, c)
      BY <3>5
    <3> HIDE DEF t3, k3, c
    <3>7. Good(h, K, low, high, PushUp(t3, path, k3, c))
      BY ONLY <1>d, <3>6, PushesUp
    <3> QED BY ONLY <2>0, <2>2, <2>4, <3>7 DEF t3, k3, c
  <2> QED BY ONLY <2>3, <2>4
<1> QED BY ONLY <1>7, <1>8

-----------------------------------------------------------------------------
(***************************************************************************)
(* An insert keeps the index sound.                                        *)
(***************************************************************************)
\* The first key of an index gets a leaf, which is the top.
LEMMA FirstKey ==
  ASSUME NEW K, Ordered(K), NEW h, Header(h), NEW low, low \in K, NEW high, high \in K, NEW t, Stored(h, K, t, {}),
         NEW k, k \in K, Less(low, k), Less(k, high),
         NEW t2, t2 = [Add(t, Leaf(<<k>>)) EXCEPT !.root = NewBlock(t)]
  PROVE  Good(h, K, low, high, t2)
<1> DEFINE c == NewBlock(t)
           s == <<k>>
           node == Leaf(s)
           t1 == Add(t, node)
           E0 == {}
           W == E0 \cup {c}
<1>1. s \in Seq(K) /\ Len(s) = 1 /\ s[1] = k
  OBVIOUS
<1>2. t2 = [t1 EXCEPT !.root = c] /\ Stored(h, K, t, E0) /\ t \in Indexes(h, K) /\ c = NewBlock(t)
  BY DEF Stored
<1> HIDE DEF s
<1>3. TreeNode(h, K, node) /\ node.keys = s /\ KidsOf(node) = <<>>
  <2>1. VSize(h, s) + 1 <= h.blksize
    <3>1. Len(s) \in {1, 2}
      BY <1>1
    <3> QED BY ONLY <1>1, <1>2, <3>1, Header(h), FewFit
  <2>2. VSize(h, s) \in Nat /\ h.blksize \in Nat
    BY <1>1, VSizeIs DEF Header
  <2>3. VSize(h, s) <= h.blksize
    BY ONLY <2>1, <2>2
  <2> QED BY ONLY <1>1, <2>3, TreeNodes
<1> HIDE DEF node, E0
<1>4. /\ c \in Nat \ {0} /\ c \notin E0 /\ Stored(h, K, t1, E0 \cup {c}) /\ Wrote(t, t1, E0, c, node)
  BY ONLY <1>2, <1>3, StoredAdd
<1> HIDE DEF c, t1
<1>5. W = {c} /\ Stored(h, K, t1, W)
  BY <1>4 DEF E0
<1>6. Stored(h, K, t2, W) /\ t2.root = c /\ t2.blk = t1.blk
  BY ONLY <1>2, <1>4, <1>5, StoredRoot
<1> HIDE DEF W
<1> DEFINE ks == KeysIn(t2, W)
           ds == KidsIn(t2, W)
           lev == [d \in W |-> 0]
           lo == [d \in W |-> low]
           hi == [d \in W |-> high]
<1>7. ks = [d \in W |-> s] /\ ds = [d \in W |-> <<>>]
  <2>1. t2.blk[c] = node
    BY ONLY <1>4, <1>6 DEF Wrote
  <2> QED BY ONLY <1>3, <1>5, <2>1 DEF KeysIn, KidsIn
<1> HIDE DEF ks, ds
<1>8. ShapeTypes(K, W, c, ks, ds, lev, lo, hi)
  <2>1. <<>> \in Seq(W)
    OBVIOUS
  <2> QED BY ONLY <1>1, <1>4, <1>5, <1>7, <2>1, low \in K, high \in K DEF ShapeTypes
<1>9. c \in W /\ lev[c] = 0 /\ lo[c] = low /\ hi[c] = high /\ ks[c] = s /\ ds[c] = <<>>
  BY ONLY <1>5, <1>7
<1>10. Less(low, high)
  BY Order
<1>11. Sorted(s) /\ Within(s, low, high) /\ s # <<>>
  BY <1>1 DEF Sorted, Within
<1> HIDE DEF lev, lo, hi
<1>12. \A b \in W : b = c
  BY ONLY <1>5
<1>13. Shape(K, low, high, W, c, ks, ds, lev, lo, hi, 0, 0, {})
  <2>1. lo[c] = low /\ EndOf(hi, 0, 0, c) = high
    BY ONLY <1>4, <1>9 DEF EndOf
  <2>2. \A b \in W : ShapeOfBlock(c, ks, ds, lev, lo, hi, b)
    BY ONLY <1>9, <1>10, <1>11, <1>12 DEF ShapeOfBlock
  <2>3. \A b \in W : ShapeOfKids(ks, ds, lev, lo, hi, 0, 0, b)
    BY ONLY <1>9, <1>12 DEF ShapeOfKids
  <2>4. \A b \in W : ks[b] = <<>> => b \in {}
    BY ONLY <1>9, <1>11, <1>12
  <2>5. \A b \in W : b \in {c, 0} \/ \E p \in W : IsKidOf(ds, b, p)
    BY ONLY <1>12
  <2>6. \A b, d \in W : b # d /\ lev[b] = lev[d] => Apart(lo, hi, b, d)
    BY ONLY <1>12
  <2>7. Hole(W, c, lev, lo, hi, 0, 0)
    BY DEF Hole
  <2> QED BY ONLY <1>8, <2>1, <2>2, <2>3, <2>4, <2>5, <2>6, <2>7 DEF Shape
<1>14. Form(h, K, low, high, t2, W, lev, lo, hi, 0, 0, {})
  BY ONLY <1>6, <1>13 DEF Form, ks, ds
<1> QED BY ONLY <1>14 DEF Good

=============================================================================
