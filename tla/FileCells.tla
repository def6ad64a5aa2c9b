----------------------------- MODULE FileCells -----------------------------
(***************************************************************************)
(* A file as a sequence of cells; the cell at file position pos is element *)
(* pos + 1.                                                                *)
(***************************************************************************)
EXTENDS Naturals, Sequences

Zero == "zero" \* a byte that was never written, before the end of the file

Least(a, b) == IF a < b THEN a ELSE b
Most(a, b) == IF a > b THEN a ELSE b

\* What fioread returns of n cells at pos, and the file after fiowrite.
ReadAt(s, pos, n) == SubSeq(s, pos + 1, Least(pos + n, Len(s)))
WriteAt(s, pos, c) ==
  [i \in 1 .. Most(Len(s), pos + Len(c)) |->
     IF i \in pos + 1 .. pos + Len(c) THEN c[i - pos]
     ELSE IF i <= Len(s) THEN s[i] ELSE Zero]
=============================================================================
