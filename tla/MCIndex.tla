------------------------------ MODULE MCIndex ------------------------------
(* Index files of few keys. *)
EXTENDS Index

\* Long keys in the smallest real blocks: two keys fill a block.
Large(version) ==
  [version |-> version, blksize |-> 512,
   parts |-> IF version >= 9 THEN <<240>> ELSE <<230>>, dup |-> FALSE, fix |-> FALSE]
\* A tree of three levels, in the format with compression and the one without,
\* with a U block of two keys at its right, or at its left end.
Deep(version, order) ==
  [header |-> Large(version), load |-> [i \in DOMAIN order |-> <<order[i], 1>>],
   keys |-> {<<i>> : i \in ToSet(order)}, places |-> {1}, changes |-> 2]
\* Any number of changes to an index of up to four keys.
Long ==
  [header |-> Large(10), load |-> <<>>,
   keys |-> {<<i>> : i \in 1 .. 4}, places |-> {1}, changes |-> Unbounded]
\* Keys that share half of their bytes, or all of them: a block holds two, or
\* three, or more keys, and one new key can push several out.
Shared ==
  [header |-> [version |-> 10, blksize |-> 512, parts |-> <<120, 120>>,
               dup |-> TRUE, fix |-> FALSE],
   load |-> <<<<2, 2, 1>>, <<2, 3, 1>>, <<2, 4, 1>>, <<2, 5, 1>>, <<2, 1, 1>>>>,
   keys |-> {<<1, 1>>} \cup {<<2, i>> : i \in 1 .. 5}, places |-> {1, 2}, changes |-> 2]
\* Four free record places in a block (84 in the smallest real one).
Recs ==
  [header |-> [version |-> 10, blksize |-> 33, parts |-> <<1>>, dup |-> FALSE, fix |-> TRUE],
   load |-> <<>>, keys |-> {<<1>>}, places |-> 1 .. 5, changes |-> Unbounded]
MCFiles == {Deep(10, <<1, 2, 3, 4, 5, 6, 7, 8, 9>>),
            Deep(8, <<1, 5, 6, 7, 8, 9, 10, 2, 3, 4>>), Long, Shared, Recs}
=============================================================================
