----------------------------- MODULE LockManager -----------------------------
(***************************************************************************)
(* What the lock calls of the file layer promise a program, whatever is    *)
(* done with handles, opens and closes below: a process takes one lock at  *)
(* a time, only while no other process has one in conflict with it, and    *)
(* only the holder's own calls give locks back.                            *)
(***************************************************************************)
CONSTANTS Proc, Item

VARIABLE held  \* held[p][x]: the kind of lock p has on item x

Kind == {"rd", "wr", "sem"}

Conflict(j, k) ==
  \/ j = "sem" /\ k = "sem"
  \/ j = "wr" /\ k \in {"rd", "wr"}
  \/ j = "rd" /\ k = "wr"

Init == held = [p \in Proc |-> [x \in Item |-> "none"]]

Others(p) == \A q \in Proc \ {p} : held'[q] = held[q]

Take(p, x) ==
  /\ held'[p][x] \in Kind
  /\ \A q \in Proc \ {p} : ~Conflict(held'[p][x], held[q][x])
  /\ \A y \in Item \ {x} : held'[p][y] = held[p][y]
  /\ Others(p)

GiveBack(p) ==
  /\ \A x \in Item : held'[p][x] \in {held[p][x], "none"}
  /\ Others(p)

Next == \E p \in Proc : GiveBack(p) \/ \E x \in Item : Take(p, x)

Spec == Init /\ [][Next]_held
=============================================================================
