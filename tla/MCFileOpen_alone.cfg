CONSTANTS
  Proc = {p1, p2, p3}
  Nobody = nobody
  Modes = {"SHR", "ERO", "EXC", "PRP", "EFC"}
SPECIFICATION OpenSpec
SYMMETRY ProcSymmetry
INVARIANTS OpenInv ExclusiveIsAlone
PROPERTY OnlyPrepareIntrudes
