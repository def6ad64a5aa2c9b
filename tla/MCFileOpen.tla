----------------------------- MODULE MCFileOpen -----------------------------
EXTENDS FileOpen, TLC

ProcSymmetry == Permutations(Proc)
=============================================================================
