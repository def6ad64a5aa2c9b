---------------------------- MODULE IndexKeys ----------------------------
(***************************************************************************)
(* Keys of an index: the bytes of a key with the place of its record       *)
(* behind them, so keys with the same bytes are ordered by place.  The     *)
(* bytes are taken together in parts, and two parts differ in their first  *)
(* byte or not at all.                                                     *)
(***************************************************************************)
EXTENDS Integers, SequencesExt

Bytes(k) == Front(k)
MaxByte == 255
MaxPlace == 256  \* 0x7FFFFFFFFFFF, above every place

Less(a, b) ==
  \E i \in 1 .. Len(a) : a[i] < b[i] /\ \A j \in 1 .. i - 1 : a[j] = b[j]

\* A part of a key of n bytes filled up, with the highest place behind.
Filled(part, n, byte) ==
  [i \in 1 .. n + 1 |-> IF i > n THEN MaxPlace
                        ELSE IF i > Len(part) THEN byte ELSE part[i]]
=============================================================================
