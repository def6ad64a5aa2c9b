------------------------------ MODULE MCFilepi ------------------------------
(* Programs that lock files with filepi, on small instances. *)
EXTENDS Filepi, TLC

Processes == Permutations(Proc)
=============================================================================
