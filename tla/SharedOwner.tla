---------------------------- MODULE SharedOwner ----------------------------
(***************************************************************************)
(* What AtomicSharedPtr promises: shared ownership.  A heap cell lives     *)
(* from the moment it gets its first owner to the moment it loses its last *)
(* one, and only an owner can make another.                                *)
(***************************************************************************)
CONSTANTS Pointers, Cells

VARIABLES
  owners,   \* the pointers that own a cell
  live      \* the cells that exist

Owns(p) == \E c \in Cells : p \in owners[c]

Init == owners = [c \in Cells |-> {}] /\ live = {}

Make(p, c) ==
  /\ c \notin live /\ ~Owns(p)
  /\ owners' = [owners EXCEPT ![c] = {p}]
  /\ live' = live \cup {c}

Share(q, c) ==
  /\ c \in live /\ owners[c] # {} /\ ~Owns(q)
  /\ owners' = [owners EXCEPT ![c] = @ \cup {q}]
  /\ UNCHANGED live

Transfer(p, q, c) ==
  /\ c \in live /\ p \in owners[c] /\ ~Owns(q)
  /\ owners' = [owners EXCEPT ![c] = (@ \ {p}) \cup {q}]
  /\ UNCHANGED live

Drop(p, c) ==
  /\ c \in live /\ p \in owners[c]
  /\ owners' = [owners EXCEPT ![c] = @ \ {p}]
  /\ live' = IF owners[c] = {p} THEN live \ {c} ELSE live

Next ==
  \E p \in Pointers, c \in Cells :
    Make(p, c) \/ Share(p, c) \/ Drop(p, c) \/ \E q \in Pointers : Transfer(p, q, c)

Spec == Init /\ [][Next]_<<owners, live>>
=============================================================================
