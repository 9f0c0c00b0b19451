--------------------------- MODULE MCTimerGroups ---------------------------
(* A small instance: five names that collide around the end of the ring. *)
EXTENDS TimerGroups

CONSTANTS n1, n2, n3, n4, n5

FiveNames == {n1, n2, n3, n4, n5}

Colliding ==
  [n \in FiveNames |-> CASE n \in {n1, n2} -> 3 [] n \in {n3, n4} -> 0 [] OTHER -> 2]
=============================================================================
