----------------------------- MODULE MCFileLock -----------------------------
(* The file lock layer on small instances. *)
EXTENDS FileLock, TLC

Processes == Permutations(Proc)
=============================================================================
