------------------------------ MODULE KeyList ------------------------------
(***************************************************************************)
(* What an index promises the programs that use it: a set of keys in       *)
(* order, a set of free record places, and the position of a program among *)
(* the keys: on a key (1), before the first (2), after a key that need not *)
(* be there (3), or after the last (4).                                    *)
(***************************************************************************)
EXTENDS IndexKeys

VARIABLES
  kind,  \* never changes: whether two keys may have the same bytes (dup), and
         \* the keys that programs use (keys)
  keys,  \* the keys that are there
  free,  \* the free record places
  at     \* the position

list == <<kind, keys, free, at>>
Key == kind.keys
Length == Len(CHOOSE k \in Key : TRUE) - 1

On(k) == [flg |-> 1, key |-> k]
After(k) == [flg |-> 3, key |-> k]
Edge(flg) == [at EXCEPT !.flg = flg]
Lowest(S) == CHOOSE k \in S : \A j \in S : j = k \/ Less(k, j)
Highest(S) == CHOOSE k \in S : \A j \in S : j = k \/ Less(j, k)
With(bytes) == {j \in keys : Bytes(j) = bytes}
Begin(part) == {j \in keys : IsPrefix(part, j)}

(***************************************************************************)
(* Reads: the position after each.                                         *)
(***************************************************************************)
First(bytes) ==
  LET S == With(bytes)
  IN IF S # {} THEN On(Lowest(S)) ELSE After(Filled(bytes, Length, 0))

LastWith(part) ==
  LET S == Begin(part)
  IN IF S # {} THEN On(Highest(S)) ELSE After(Filled(part, Length, MaxByte))

\* From a key of an index without keys it goes before the first.
Next ==
  LET S == IF at.flg = 2 THEN keys ELSE {j \in keys : Less(at.key, j)}
  IN IF at.flg = 4 THEN at
     ELSE IF S # {} THEN On(Lowest(S))
     ELSE IF keys = {} /\ at.flg # 2 THEN Edge(2) ELSE Edge(4)

Previous ==
  LET S == IF at.flg = 4 THEN keys ELSE {j \in keys : Less(j, at.key)}
  IN IF at.flg = 2 \/ S = {} THEN Edge(2) ELSE On(Highest(S))

Reads ==
  /\ \/ at' = Next \/ at' = Previous
     \/ \E k \in Key :
          \/ at' = First(Bytes(k))
          \/ \E n \in 1 .. Length : at' = LastWith(SubSeq(k, 1, n))
  /\ UNCHANGED <<kind, keys, free>>

(***************************************************************************)
(* Changes, by the program or by another one.                              *)
(***************************************************************************)
Inserts ==
  \E k \in Key \ keys :
    /\ at' \in {On(k), at}
    /\ kind.dup \/ With(Bytes(k)) = {}
    /\ keys' = keys \cup {k}

\* The flag of the position of the program that tried becomes any.
Refusals ==
  /\ \E k \in Key : With(Bytes(k)) # {}
  /\ \E flg \in 1 .. 4 : at' = Edge(flg)
  /\ UNCHANGED keys

Deletes ==
  \/ \E k \in Key \cup {at.key} :
       /\ at' = After(k) \/ (k \in keys /\ at' = at)
       /\ keys' = keys \ {k}
  \/ UNCHANGED keys /\ \E k \in Key :
       With(Bytes(k)) = {} /\ at' = First(Bytes(k))

Places ==
  /\ \/ \E place \in free : free' = free \ {place}
     \/ \E k \in Key : Last(k) \notin free /\ free' = free \cup {Last(k)}
  /\ UNCHANGED <<kind, keys, at>>

KeyListInit == free = {} /\ at.flg = 2
KeyListNext ==
  \/ Reads
  \/ (Inserts \/ Refusals \/ Deletes) /\ UNCHANGED <<kind, free>>
  \/ Places
KeyListSpec == KeyListInit /\ [][KeyListNext]_list
=============================================================================
