----------------------------- MODULE SharedPtr -----------------------------
(***************************************************************************)
(* AtomicSharedPtr, one atomic instruction per step.                       *)
(*                                                                         *)
(* Tasks work on pointer objects; as with std::shared_ptr an object is     *)
(* used by one task at a time, while any number of tasks work on pointers  *)
(* to one State.  What a task has begun and not finished is op[t].  The    *)
(* heap gives out a freed cell again.                                      *)
(***************************************************************************)
EXTENDS Integers, FiniteSets

CONSTANTS
  Tasks,
  Pointers,   \* AtomicSharedPtr objects
  Cells,      \* addresses `new State` may return
  Null        \* nullptr

ASSUME NullAssumption == Null \notin Cells /\ Null \notin Pointers
ASSUME PointersFinite == IsFiniteSet(Pointers)

VARIABLES
  ptr,     \* the member `state` of each pointer
  count,   \* m_ref_count
  heap,    \* cells allocated
  op       \* what each task is in the middle of

vars == <<ptr, count, heap, op>>

(* kind: "add", `p` has loaded the address and fetch_add() comes next;     *)
(* "sub", the fetch_sub() of `p` returned and it was the last one or not;  *)
(* an assignment goes on with copying or moving from `from`.               *)
Idle == [kind |-> "idle", p |-> Null, last |-> FALSE, then |-> "done", from |-> Null]

Init ==
  /\ ptr = [p \in Pointers |-> Null]
  /\ count = [c \in Cells |-> 0]
  /\ heap = {}
  /\ op = [t \in Tasks |-> Idle]

(* t is free to work on p. *)
Mine(t, p) == op[t] = Idle /\ \A u \in Tasks : p \notin {op[u].p, op[u].from}

(* AtomicSharedPtr(T), make() *)
Make(t, p) ==
  /\ Mine(t, p) /\ ptr[p] = Null
  /\ \E c \in Cells \ heap :
       /\ heap' = heap \cup {c}
       /\ ptr' = [ptr EXCEPT ![p] = c]
       /\ count' = [count EXCEPT ![c] = 1]
  /\ UNCHANGED op

(* The copy constructor of q: load the address ... *)
Load(t, p, q) ==
  /\ ptr' = [ptr EXCEPT ![q] = ptr[p]]
  /\ op' = [op EXCEPT ![t] = IF ptr[p] = Null THEN Idle
                             ELSE [Idle EXCEPT !.kind = "add", !.p = q, !.from = p]]
  /\ UNCHANGED <<count, heap>>

Copy(t, p, q) == Mine(t, p) /\ Mine(t, q) /\ p # q /\ ptr[q] = Null /\ Load(t, p, q)

(* Mutant: the copy does not count itself. *)
AddForgotten(t) ==
  /\ op[t].kind = "add"
  /\ op' = [op EXCEPT ![t] = Idle]
  /\ UNCHANGED <<ptr, heap, count>>

(* ... and fetch_add(). *)
Add(t) ==
  /\ op[t].kind = "add"
  /\ count' = [count EXCEPT ![ptr[op[t].p]] = @ + 1]
  /\ op' = [op EXCEPT ![t] = Idle]
  /\ UNCHANGED <<ptr, heap>>

(* The move constructor of q *)
Steal(t, p, q) ==
  /\ ptr' = [ptr EXCEPT ![q] = ptr[p], ![p] = Null]
  /\ op' = [op EXCEPT ![t] = Idle]
  /\ UNCHANGED <<count, heap>>

Move(t, p, q) == Mine(t, p) /\ Mine(t, q) /\ p # q /\ ptr[q] = Null /\ Steal(t, p, q)

(* reset(), the first step: fetch_sub() *)
Sub(t, p, then, from) ==
  /\ count' = [count EXCEPT ![ptr[p]] = @ - 1]
  /\ op' = [op EXCEPT ![t] = [kind |-> "sub", p |-> p, last |-> count[ptr[p]] = 1,
                              then |-> then, from |-> from]]
  /\ UNCHANGED <<ptr, heap>>

Reset(t, p) == Mine(t, p) /\ ptr[p] # Null /\ Sub(t, p, "done", Null)

(* p = q and p = std::move(q); an empty p goes straight on. *)
Assign(t, p, q, how) ==
  /\ Mine(t, p) /\ Mine(t, q) /\ p # q
  /\ \/ ptr[p] # Null /\ Sub(t, p, how, q)
     \/ ptr[p] = Null /\ how = "copy" /\ Load(t, q, p)
     \/ ptr[p] = Null /\ how = "move" /\ Steal(t, q, p)

(* reset(), the second step: the last owner deletes the State; then the    *)
(* member is cleared and the assignment goes on.                           *)
Finish(t) ==
  /\ op[t].kind = "sub"
  /\ heap' = IF op[t].last THEN heap \ {ptr[op[t].p]} ELSE heap
  /\ ptr' = [ptr EXCEPT ![op[t].p] = Null]
  /\ op' = [op EXCEPT ![t] = IF op[t].then = "done" THEN Idle
                             ELSE [op[t] EXCEPT !.kind = op[t].then]]
  /\ UNCHANGED count

Continue(t) ==
  \/ op[t].kind = "copy" /\ Load(t, op[t].from, op[t].p)
  \/ op[t].kind = "move" /\ Steal(t, op[t].from, op[t].p)

Next ==
  \E t \in Tasks :
    \/ Add(t) \/ Finish(t) \/ Continue(t)
    \/ \E p \in Pointers : Make(t, p) \/ Reset(t, p)
    \/ \E p, q \in Pointers :
         \/ Copy(t, p, q) \/ Move(t, p, q)
         \/ \E how \in {"copy", "move"} : Assign(t, p, q, how)

Spec == Init /\ [][Next]_vars

-----------------------------------------------------------------------------
(* The refinement: a pointer owns a cell from its fetch_add() to its       *)
(* fetch_sub(), and a cell whose last owner has left is gone.              *)
Counted(p) == \A t \in Tasks : op[t].p = p => op[t].kind \notin {"add", "sub"}
Owners(c) == {p \in Pointers : ptr[p] = c /\ Counted(p)}
Dying == {ptr[op[t].p] : t \in {t \in Tasks : op[t].kind = "sub" /\ op[t].last}}

Owner == INSTANCE SharedOwner WITH
  owners <- [c \in Cells |-> Owners(c)],
  live <- heap \ Dying

(* The reference count implements shared ownership: whatever copies,       *)
(* moves, assignments and resets of several tasks interleave between their *)
(* atomic instructions, no State is deleted while a pointer owns it, none  *)
(* is deleted twice or left behind, and none is counted up after it is     *)
(* gone.                                                                   *)
Ownership == Owner!Spec
=============================================================================
