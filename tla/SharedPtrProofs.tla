-------------------------- MODULE SharedPtrProofs --------------------------
(***************************************************************************)
(* SharedPtr implements SharedOwner, for any tasks, pointers and cells.    *)
(***************************************************************************)
EXTENDS SharedPtr, FiniteSetTheorems, TLAPS

(* What a task is in the middle of. *)
Ops == [kind : {"idle", "add", "sub", "copy", "move"}, p : Pointers \cup {Null},
        last : BOOLEAN, then : {"done", "copy", "move"}, from : Pointers \cup {Null}]

TypeOK ==
  /\ ptr \in [Pointers -> Cells \cup {Null}]
  /\ count \in [Cells -> Int]
  /\ heap \subseteq Cells
  /\ op \in [Tasks -> Ops]

(* What holds at each point of an operation. *)
AtWell(t) ==
  /\ op[t].kind = "idle" => op[t] = Idle
  /\ op[t].kind # "idle" => op[t].p \in Pointers /\ op[t].from # op[t].p
  /\ op[t].kind = "add" =>
       op[t].from \in Pointers /\ ptr[op[t].p] \in Cells /\ ptr[op[t].from] = ptr[op[t].p]
  /\ op[t].kind = "sub" =>
       ptr[op[t].p] \in Cells /\ (op[t].then # "done" => op[t].from \in Pointers)
  /\ op[t].kind \in {"copy", "move"} => op[t].from \in Pointers /\ ptr[op[t].p] = Null

OpsWell == \A t \in Tasks : AtWell(t)

(* x is used by no task but t. *)
Alone(t, x) == \A u \in Tasks : u # t => x # op[u].p /\ x # op[u].from

Separate == \A t \in Tasks : \A x \in Pointers : x \in {op[t].p, op[t].from} => Alone(t, x)

(* t has decided to delete c. *)
Deletes(t, c) == op[t].kind = "sub" /\ op[t].last /\ ptr[op[t].p] = c

Counts == \A c \in Cells : count[c] = Cardinality(Owners(c))

(* A cell is allocated while it has an owner or a task is about to delete  *)
(* it, one task and without owners.                                        *)
Lives ==
  \A c \in Cells :
    /\ c \in heap <=> Owners(c) # {} \/ \E t \in Tasks : Deletes(t, c)
    /\ \A t \in Tasks : Deletes(t, c) =>
         Owners(c) = {} /\ \A u \in Tasks : Deletes(u, c) => u = t

IInv == TypeOK /\ OpsWell /\ Separate /\ Counts /\ Lives

-----------------------------------------------------------------------------
(* The cells that live are those with an owner. *)
LEMMA LiveOwned == IInv => heap \ Dying = {c \in Cells : Owners(c) # {}}
<1> SUFFICES ASSUME IInv PROVE heap \ Dying = {c \in Cells : Owners(c) # {}}
  OBVIOUS
<1>1. \A c \in Cells : c \in Dying <=> \E t \in Tasks : Deletes(t, c)
  BY DEF Dying, Deletes
<1>2. QED
  BY <1>1 DEF IInv, TypeOK, Lives

LEMMA LiveOwnedNext == (IInv => heap \ Dying = {c \in Cells : Owners(c) # {}})'
BY LiveOwned, PTL

(* A set of pointers: its size when one joins or leaves. *)
LEMMA OneMore ==
  ASSUME NEW S, S \subseteq Pointers, NEW x \in Pointers, x \notin S
  PROVE  Cardinality(S \cup {x}) = Cardinality(S) + 1 /\ Cardinality(S) \in Nat
<1>1. IsFiniteSet(S)
  BY PointersFinite, FS_Subset
<1>2. QED
  BY <1>1, FS_AddElement, FS_CardinalityType

LEMMA OneLess ==
  ASSUME NEW S, S \subseteq Pointers, NEW x \in S
  PROVE  /\ Cardinality(S \ {x}) = Cardinality(S) - 1
         /\ Cardinality(S) = 1 <=> S = {x}
<1>1. IsFiniteSet(S)
  BY PointersFinite, FS_Subset
<1>2. Cardinality(S) = Cardinality(S \ {x}) + 1 /\ Cardinality(S \ {x}) \in Nat
  <2>1. IsFiniteSet(S \ {x}) /\ x \notin S \ {x} /\ S = (S \ {x}) \cup {x}
    BY <1>1, FS_RemoveElement
  <2>2. QED
    BY <2>1, FS_AddElement, FS_CardinalityType
<1>3. Cardinality(S \ {x}) = 0 <=> S \ {x} = {}
  BY <1>1, FS_EmptySet, FS_RemoveElement
<1>4. QED
  BY <1>2, <1>3

(* A task whose operation and pointers a step leaves alone stays well. *)
LEMMA Untouched ==
  ASSUME NEW u \in Tasks, AtWell(u), op'[u] = op[u],
         \A x \in Pointers : x \in {op[u].p, op[u].from} => ptr'[x] = ptr[x]
  PROVE  AtWell(u)'
BY DEF AtWell, Idle

-----------------------------------------------------------------------------
(* The operations, by what they do to the owners of the cells              *)

(* A mapped state: Owner's variables. *)
Mapped == <<[c \in Cells |-> Owners(c)], heap \ Dying>>

(* A step that changes neither the owners nor the counts, the heap and     *)
(* the deletions keeps the last two parts of the invariant.                *)
LEMMA OwnersKept ==
  ASSUME IInv, IInv', \A c \in Cells : Owners(c)' = Owners(c)
  PROVE  UNCHANGED Mapped
BY LiveOwned, LiveOwnedNext DEF Mapped

LEMMA MakeStep ==
  ASSUME IInv, NEW t \in Tasks, NEW p \in Pointers, Make(t, p)
  PROVE  IInv' /\ \E c \in Cells : Owner!Make(p, c)
<1> USE NullAssumption DEF Mine
<1> PICK c \in Cells \ heap : heap' = heap \cup {c} /\ ptr' = [ptr EXCEPT ![p] = c]
                              /\ count' = [count EXCEPT ![c] = 1]
  BY DEF Make
<1>1. op' = op /\ op[t] = Idle /\ ptr[p] = Null /\ \A u \in Tasks : p # op[u].p /\ p # op[u].from
  BY DEF Make
<1>2. Owners(c) = {} /\ \A u \in Tasks : ~Deletes(u, c)
  BY DEF IInv, Lives
<1>3. Owners(c)' = {p} /\ \A d \in Cells \ {c} : Owners(d)' = Owners(d)
  BY <1>1, <1>2 DEF IInv, TypeOK, Owners, Counted
<1>4. \A u \in Tasks, d \in Cells : Deletes(u, d)' <=> Deletes(u, d)
  BY <1>1 DEF IInv, TypeOK, OpsWell, AtWell, Deletes
<1>5. TypeOK'
  BY <1>1 DEF IInv, TypeOK
<1>6. OpsWell' /\ Separate'
  BY <1>1 DEF IInv, TypeOK, OpsWell, AtWell, Separate, Alone, Ops
<1>7. Counts'
  BY <1>3, FS_Singleton DEF IInv, TypeOK, Counts
<1>8. Lives'
  BY <1>2, <1>3, <1>4 DEF IInv, Lives
<1>9. IInv'
  BY <1>5, <1>6, <1>7, <1>8 DEF IInv
<1>10. Owner!Make(p, c)
  <2>1. c \notin heap \ Dying
    OBVIOUS
  <2>2. \A d \in Cells : p \notin Owners(d)
    BY <1>1 DEF Owners
  <2>3. [d \in Cells |-> Owners(d)]' = [[d \in Cells |-> Owners(d)] EXCEPT ![c] = {p}]
    BY <1>3
  <2>4. (heap \ Dying)' = (heap \ Dying) \cup {c}
    BY <1>3, <1>2, <1>9, LiveOwned, LiveOwnedNext
  <2>5. QED
    BY <2>1, <2>2, <2>3, <2>4 DEF Owner!Make, Owner!Owns
<1>11. QED
  BY <1>9, <1>10

(* The conditions under which the code copies or moves p into q. *)
Ready(t, p, q) ==
  /\ p \in Pointers /\ q \in Pointers /\ p # q /\ ptr[q] = Null
  /\ op[t].kind \in {"idle", "copy", "move"}
  /\ Alone(t, p) /\ Alone(t, q)
  /\ \A x \in Pointers : x \in {op[t].p, op[t].from} => x \in {p, q}

LEMMA LoadStep ==
  ASSUME IInv, NEW t \in Tasks, NEW p, NEW q, Ready(t, p, q), Load(t, p, q)
  PROVE  IInv' /\ UNCHANGED Mapped
<1> USE NullAssumption
<1>1. \A u \in Tasks, d \in Cells : Deletes(u, d)' <=> Deletes(u, d)
  BY DEF IInv, TypeOK, Ops, Ready, Alone, Load, Deletes, Idle
<1>2. \A d \in Cells : Owners(d)' = Owners(d)
  <2>1. \A x \in Pointers \ {q} : Counted(x)' <=> Counted(x)
    BY DEF IInv, TypeOK, Ops, Ready, Alone, Load, Counted, Idle
  <2>2. ptr'[q] = Null \/ ~Counted(q)'
    BY DEF IInv, TypeOK, Ops, Ready, Load, Counted, Idle
  <2>3. QED
    BY <2>1, <2>2 DEF IInv, TypeOK, Ready, Load, Owners
<1>3. TypeOK'
  BY DEF IInv, TypeOK, Ops, Ready, Load, Idle
<1>4. OpsWell'
  <2>1. AtWell(t)'
    BY DEF IInv, TypeOK, AtWell, Ops, Ready, Load, Idle
  <2>2. ASSUME NEW u \in Tasks, u # t
        PROVE  AtWell(u)'
    <3>1. op'[u] = op[u] /\ AtWell(u) /\ q # op[u].p /\ q # op[u].from
      BY <2>2 DEF IInv, TypeOK, OpsWell, Ready, Alone, Load
    <3>2. \A x \in Pointers : x # q => ptr'[x] = ptr[x]
      BY DEF IInv, TypeOK, Ready, Load
    <3>3. QED
      BY <3>1, <3>2, Untouched
  <2>3. QED
    BY <2>1, <2>2 DEF OpsWell
<1>5. Separate'
  BY DEF IInv, TypeOK, Separate, Ops, Ready, Alone, Load, Idle
<1>6. Counts' /\ Lives'
  BY <1>1, <1>2 DEF IInv, Counts, Lives, Load
<1>7. QED
  BY <1>2, <1>3, <1>4, <1>5, <1>6, OwnersKept DEF IInv

LEMMA AddStep ==
  ASSUME IInv, NEW t \in Tasks, Add(t)
  PROVE  IInv' /\ \E q \in Pointers, c \in Cells : Owner!Share(q, c)
<1> USE NullAssumption
<1>1. PICK q \in Pointers, f \in Pointers, c \in Cells :
        /\ q = op[t].p /\ f = op[t].from /\ q # f /\ c = ptr[q] /\ ptr[f] = c
        /\ op[t].kind = "add" /\ Alone(t, q) /\ Alone(t, f)
  BY DEF IInv, OpsWell, AtWell, Separate, Add
<1>2. /\ ptr' = ptr /\ heap' = heap /\ count' = [count EXCEPT ![c] = @ + 1]
      /\ op' = [op EXCEPT ![t] = Idle]
  BY <1>1 DEF Add
<1>3. f \in Owners(c) /\ \A d \in Cells : q \notin Owners(d)
  BY <1>1 DEF Owners, Counted, Alone
<1>4. Owners(c)' = Owners(c) \cup {q} /\ \A d \in Cells \ {c} : Owners(d)' = Owners(d)
  <2>1. \A x \in Pointers : Counted(x)' <=> Counted(x) \/ x = q
    BY <1>1, <1>2 DEF IInv, TypeOK, Counted, Alone, Idle
  <2>2. QED
    BY <1>1, <1>2, <2>1 DEF Owners
<1>5. \A u \in Tasks, d \in Cells : Deletes(u, d)' <=> Deletes(u, d)
  BY <1>1, <1>2 DEF IInv, TypeOK, Deletes, Idle
<1>6. TypeOK'
  BY <1>1, <1>2 DEF IInv, TypeOK, Ops, Idle
<1>7. OpsWell'
  <2>1. AtWell(t)'
    BY <1>2 DEF IInv, TypeOK, AtWell, Idle
  <2>2. QED
    BY <1>2, <2>1, Untouched DEF IInv, TypeOK, OpsWell
<1>8. Separate'
  BY <1>2 DEF IInv, TypeOK, Separate, Alone, Idle
<1>9. Counts'
  <2>1. Cardinality(Owners(c) \cup {q}) = Cardinality(Owners(c)) + 1
    BY <1>1, <1>3, OneMore DEF Owners
  <2>2. QED
    BY <1>1, <1>2, <1>4, <2>1 DEF IInv, TypeOK, Counts
<1>10. Lives'
  BY <1>1, <1>2, <1>3, <1>4, <1>5 DEF IInv, Lives
<1>11. IInv'
  BY <1>6, <1>7, <1>8, <1>9, <1>10 DEF IInv
<1>12. Owner!Share(q, c)
  <2>1. c \in heap \ Dying /\ (heap \ Dying)' = heap \ Dying
    BY <1>1, <1>3, <1>4, <1>11, LiveOwned, LiveOwnedNext
  <2>2. [d \in Cells |-> Owners(d)]' = [[d \in Cells |-> Owners(d)] EXCEPT ![c] = @ \cup {q}]
    BY <1>4
  <2>3. QED
    BY <1>1, <1>3, <2>1, <2>2 DEF Owner!Share, Owner!Owns
<1>13. QED
  BY <1>1, <1>11, <1>12

LEMMA StealStep ==
  ASSUME IInv, NEW t \in Tasks, NEW p, NEW q, Ready(t, p, q), Steal(t, p, q)
  PROVE  IInv' /\ (UNCHANGED Mapped \/ \E c \in Cells : Owner!Transfer(p, q, c))
<1> USE NullAssumption
<1>1. PICK c \in Cells \cup {Null} :
        /\ p \in Pointers /\ q \in Pointers /\ p # q /\ ptr[q] = Null /\ c = ptr[p]
        /\ op[t].kind \notin {"add", "sub"} /\ Alone(t, p) /\ Alone(t, q)
  BY DEF IInv, TypeOK, Ready
<1>2. /\ ptr' = [ptr EXCEPT ![q] = c, ![p] = Null] /\ heap' = heap /\ count' = count
      /\ op' = [op EXCEPT ![t] = Idle]
  BY <1>1 DEF Steal
<1>3. \A x \in Pointers : Counted(x)' <=> Counted(x)
  BY <1>1, <1>2 DEF IInv, TypeOK, Counted, Alone, Idle
<1>4. Counted(p) /\ Counted(q)
  BY <1>1 DEF Counted, Alone
<1>5. \A u \in Tasks, d \in Cells : Deletes(u, d)' <=> Deletes(u, d)
  <2>1. \A d \in Cells : ~Deletes(t, d) /\ ~Deletes(t, d)'
    BY <1>1, <1>2 DEF IInv, TypeOK, Deletes, Idle
  <2>2. ASSUME NEW u \in Tasks, u # t, NEW d \in Cells
        PROVE  Deletes(u, d)' <=> Deletes(u, d)
    <3>1. op'[u] = op[u] /\ op[u].p # p /\ op[u].p # q
      BY <1>1, <1>2, <2>2 DEF IInv, TypeOK, Alone
    <3>2. op[u].kind = "sub" => op[u].p \in Pointers
      BY <2>2 DEF IInv, OpsWell, AtWell
    <3>3. QED
      BY <1>2, <3>1, <3>2 DEF IInv, TypeOK, Deletes
  <2>3. QED
    BY <2>1, <2>2
<1>6. TypeOK'
  BY <1>1, <1>2 DEF IInv, TypeOK, Ops, Idle
<1>7. OpsWell'
  <2>1. AtWell(t)'
    BY <1>2 DEF IInv, TypeOK, AtWell, Idle
  <2>2. ASSUME NEW u \in Tasks, u # t
        PROVE  AtWell(u)'
    <3>1. op'[u] = op[u] /\ AtWell(u) /\ p \notin {op[u].p, op[u].from} /\ q \notin {op[u].p, op[u].from}
      BY <1>1, <1>2, <2>2 DEF IInv, TypeOK, OpsWell, Alone
    <3>2. \A x \in Pointers : x \notin {p, q} => ptr'[x] = ptr[x]
      BY <1>1, <1>2 DEF IInv, TypeOK
    <3>3. QED
      BY <3>1, <3>2, Untouched
  <2>3. QED
    BY <2>1, <2>2 DEF OpsWell
<1>8. Separate'
  BY <1>2 DEF IInv, TypeOK, Separate, Alone, Idle
<1>9. CASE c = Null
  <2>1. \A d \in Cells : Owners(d)' = Owners(d)
    BY <1>1, <1>2, <1>3, <1>9 DEF IInv, TypeOK, Owners
  <2>2. Counts' /\ Lives'
    BY <1>2, <1>5, <2>1 DEF IInv, Counts, Lives
  <2>3. QED
    BY <1>6, <1>7, <1>8, <2>1, <2>2, OwnersKept DEF IInv
<1>10. CASE c \in Cells
  <2>1. p \in Owners(c) /\ \A d \in Cells : q \notin Owners(d)
    BY <1>1, <1>4, <1>10 DEF Owners
  <2>2. Owners(c)' = (Owners(c) \ {p}) \cup {q} /\ \A d \in Cells \ {c} : Owners(d)' = Owners(d)
    BY <1>1, <1>2, <1>3, <1>4, <1>10 DEF IInv, TypeOK, Owners
  <2>3. Counts'
    <3>1. Cardinality(Owners(c) \ {p}) = Cardinality(Owners(c)) - 1
      BY <2>1, OneLess DEF Owners
    <3>2. /\ Cardinality((Owners(c) \ {p}) \cup {q}) = Cardinality(Owners(c) \ {p}) + 1
          /\ Cardinality(Owners(c) \ {p}) \in Nat
      <4>1. Owners(c) \ {p} \subseteq Pointers /\ q \notin Owners(c) \ {p}
        BY <2>1, <1>10 DEF Owners
      <4>2. QED
        BY <4>1, <1>1, OneMore
    <3>3. count[c] = Cardinality(Owners(c)) /\ count[c] \in Int
      BY <1>10 DEF IInv, TypeOK, Counts
    <3>4. count'[c] = Cardinality(Owners(c)')
      BY <1>2, <2>2, <3>1, <3>2, <3>3
    <3>5. QED
      BY <1>2, <2>2, <3>4 DEF IInv, Counts
  <2>4. Lives'
    BY <1>2, <1>5, <1>10, <2>1, <2>2 DEF IInv, Lives
  <2>5. IInv'
    BY <1>6, <1>7, <1>8, <2>3, <2>4 DEF IInv
  <2>6. c \in heap \ Dying /\ (heap \ Dying)' = heap \ Dying
    BY <1>10, <2>1, <2>2, <2>5, LiveOwned, LiveOwnedNext
  <2>7. [d \in Cells |-> Owners(d)]' =
          [[d \in Cells |-> Owners(d)] EXCEPT ![c] = (@ \ {p}) \cup {q}]
    BY <2>2
  <2>8. Owner!Transfer(p, q, c)
    BY <1>10, <2>1, <2>6, <2>7 DEF Owner!Transfer, Owner!Owns
  <2>9. QED
    BY <1>10, <2>5, <2>8
<1>11. QED
  BY <1>1, <1>9, <1>10

(* What Reset() and Assign() have checked when they come to fetch_sub(). *)
Released(t, p, then, from) ==
  /\ p \in Pointers /\ ptr[p] # Null /\ op[t] = Idle /\ Alone(t, p)
  /\ then \in {"done", "copy", "move"} /\ from \in Pointers \cup {Null} /\ from # p
  /\ then # "done" => from \in Pointers
  /\ from \in Pointers => Alone(t, from)

LEMMA SubStep ==
  ASSUME IInv, NEW t \in Tasks, NEW p, NEW then, NEW from,
         Released(t, p, then, from), Sub(t, p, then, from)
  PROVE  IInv' /\ \E c \in Cells : Owner!Drop(p, c)
<1> USE NullAssumption
<1>1. PICK c \in Cells : p \in Pointers /\ c = ptr[p] /\ op[t] = Idle /\ Alone(t, p)
  BY DEF IInv, TypeOK, Released
<1>2. /\ ptr' = ptr /\ heap' = heap /\ count' = [count EXCEPT ![c] = @ - 1]
      /\ op' = [op EXCEPT ![t] = [kind |-> "sub", p |-> p, last |-> count[c] = 1,
                                  then |-> then, from |-> from]]
  BY <1>1 DEF Sub
<1>3. p \in Owners(c) /\ Owners(c) \subseteq Pointers
  BY <1>1 DEF Owners, Counted, Alone, Idle
<1>4. /\ Cardinality(Owners(c) \ {p}) = Cardinality(Owners(c)) - 1
      /\ Cardinality(Owners(c)) = 1 <=> Owners(c) = {p}
  BY <1>3, OneLess
<1>5. Owners(c)' = Owners(c) \ {p} /\ \A d \in Cells \ {c} : Owners(d)' = Owners(d)
  <2>1. \A x \in Pointers : Counted(x)' <=> Counted(x) /\ x # p
    BY <1>1, <1>2 DEF IInv, TypeOK, Counted, Alone, Idle
  <2>2. QED
    BY <1>1, <1>2, <2>1 DEF Owners
<1>6. count[c] = Cardinality(Owners(c)) /\ count[c] \in Int
  BY DEF IInv, TypeOK, Counts
<1>7. /\ \A u \in Tasks \ {t}, d \in Cells : Deletes(u, d)' <=> Deletes(u, d)
      /\ \A d \in Cells : ~Deletes(t, d) /\ (Deletes(t, d)' <=> d = c /\ Owners(c) = {p})
  <2>1. count[c] = 1 <=> Owners(c) = {p}
    BY <1>4, <1>6
  <2>2. op'[t].kind = "sub" /\ op'[t].p = p /\ op'[t].last = (count[c] = 1) /\ op[t].kind # "sub"
    BY <1>1, <1>2 DEF IInv, TypeOK, Idle
  <2>3. \A u \in Tasks \ {t} : op'[u] = op[u]
    BY <1>2 DEF IInv, TypeOK
  <2>4. \A d \in Cells : ~Deletes(t, d) /\ (Deletes(t, d)' <=> d = c /\ count[c] = 1)
    BY <1>1, <1>2, <2>2 DEF Deletes
  <2>5. QED
    BY <1>2, <2>1, <2>3, <2>4 DEF Deletes
<1>8. TypeOK'
  <2>1. op'[t] \in Ops
    BY <1>1, <1>2 DEF IInv, TypeOK, Ops, Released
  <2>2. QED
    BY <1>2, <1>6, <2>1 DEF IInv, TypeOK
<1>9. OpsWell'
  <2>1. AtWell(t)'
    BY <1>1, <1>2 DEF IInv, TypeOK, AtWell, Released
  <2>2. QED
    BY <1>2, <2>1, Untouched DEF IInv, TypeOK, OpsWell
<1>10. Separate'
  BY <1>1, <1>2 DEF IInv, TypeOK, Separate, Alone, Released
<1>11. Counts'
  BY <1>2, <1>4, <1>5, <1>6 DEF IInv, TypeOK, Counts
<1>12. Lives'
  <2>1. c \in heap /\ \A u \in Tasks : ~Deletes(u, c)
    BY <1>3 DEF IInv, Lives
  <2>2. QED
    BY <1>2, <1>3, <1>5, <1>7, <2>1 DEF IInv, Lives
<1>13. IInv'
  BY <1>8, <1>9, <1>10, <1>11, <1>12 DEF IInv
<1>14. Owner!Drop(p, c)
  <2>1. c \in heap \ Dying
    BY <1>3, LiveOwned
  <2>2. (heap \ Dying)' = IF Owners(c) = {p} THEN (heap \ Dying) \ {c} ELSE heap \ Dying
    BY <1>3, <1>5, <1>13, LiveOwned, LiveOwnedNext
  <2>3. [d \in Cells |-> Owners(d)]' = [[d \in Cells |-> Owners(d)] EXCEPT ![c] = @ \ {p}]
    BY <1>5
  <2>4. QED
    BY <1>3, <2>1, <2>2, <2>3 DEF Owner!Drop
<1>15. QED
  BY <1>13, <1>14

LEMMA FinishStep ==
  ASSUME IInv, NEW t \in Tasks, Finish(t)
  PROVE  IInv' /\ UNCHANGED Mapped
<1> USE NullAssumption
<1>1. PICK q \in Pointers, c \in Cells :
        /\ q = op[t].p /\ c = ptr[q] /\ op[t].kind = "sub" /\ Alone(t, q) /\ op[t].from # q
        /\ op[t].then # "done" => op[t].from \in Pointers
  BY DEF IInv, OpsWell, AtWell, Separate, Finish
<1>2. /\ heap' = IF op[t].last THEN heap \ {c} ELSE heap
      /\ ptr' = [ptr EXCEPT ![q] = Null] /\ count' = count
      /\ op' = [op EXCEPT ![t] = IF op[t].then = "done" THEN Idle
                                 ELSE [op[t] EXCEPT !.kind = op[t].then]]
  BY <1>1 DEF Finish
<1>3. op[t] \in Ops /\ op'[t].kind \in {"idle", "copy", "move"}
  BY <1>2 DEF IInv, TypeOK, Ops, Idle
<1>4. \A d \in Cells : Owners(d)' = Owners(d)
  <2>1. \A x \in Pointers \ {q} : Counted(x)' <=> Counted(x)
    BY <1>1, <1>2, <1>3 DEF IInv, TypeOK, Ops, Counted, Idle
  <2>2. ~Counted(q) /\ ptr'[q] = Null
    BY <1>1, <1>2 DEF IInv, TypeOK, Counted
  <2>3. QED
    BY <1>2, <2>1, <2>2 DEF IInv, TypeOK, Owners
<1>5. ASSUME NEW u \in Tasks, u # t
      PROVE  /\ op'[u] = op[u] /\ AtWell(u)'
             /\ \A d \in Cells : Deletes(u, d)' <=> Deletes(u, d)
  <2>1. op'[u] = op[u] /\ AtWell(u) /\ q \notin {op[u].p, op[u].from}
    BY <1>1, <1>2, <1>5 DEF IInv, TypeOK, OpsWell, Alone
  <2>2. \A x \in Pointers : x # q => ptr'[x] = ptr[x]
    BY <1>2 DEF IInv, TypeOK
  <2>3. op[u].kind = "sub" => op[u].p \in Pointers
    BY <2>1 DEF AtWell
  <2>4. QED
    BY <2>1, <2>2, <2>3, Untouched DEF Deletes
<1>6. \A d \in Cells : ~Deletes(t, d)' /\ (Deletes(t, d) <=> d = c /\ op[t].last)
  BY <1>1, <1>3 DEF Deletes
<1>7. TypeOK'
  BY <1>2, <1>3 DEF IInv, TypeOK, Ops, Idle
<1>8. OpsWell'
  <2>1. AtWell(t)'
    BY <1>1, <1>2, <1>3 DEF IInv, TypeOK, Ops, AtWell, Idle
  <2>2. QED
    BY <1>5, <2>1 DEF OpsWell
<1>9. Separate'
  <2>1. op'[t].p \in {op[t].p, Null} /\ op'[t].from \in {op[t].from, Null}
    BY <1>2, <1>3 DEF IInv, TypeOK, Ops, Idle
  <2>2. QED
    BY <1>5, <2>1 DEF IInv, Separate, Alone
<1>10. Counts'
  BY <1>2, <1>4 DEF IInv, Counts
<1>11. Lives'
  <2>1. CASE op[t].last
    BY <1>2, <1>4, <1>5, <1>6, <2>1 DEF IInv, Lives
  <2>2. CASE ~op[t].last
    BY <1>2, <1>4, <1>5, <1>6, <2>2 DEF IInv, Lives
  <2>3. QED
    BY <2>1, <2>2
<1>12. QED
  BY <1>4, <1>7, <1>8, <1>9, <1>10, <1>11, OwnersKept DEF IInv

-----------------------------------------------------------------------------
(* The refinement                                                          *)

LEMMA InitMaps == Init => IInv /\ Owner!Init
<1> SUFFICES ASSUME Init PROVE IInv /\ Owner!Init
  OBVIOUS
<1> USE NullAssumption DEF Init
<1>1. \A c \in Cells : Owners(c) = {}
  BY DEF Owners
<1>2. \A t \in Tasks : op[t].kind = "idle"
  BY DEF Idle
<1>3. TypeOK
  BY DEF TypeOK, Ops, Idle
<1>4. OpsWell /\ Separate
  BY DEF OpsWell, AtWell, Separate, Idle
<1>5. Counts
  BY <1>1, FS_EmptySet DEF Counts
<1>6. Lives
  BY <1>1, <1>2 DEF Lives, Deletes
<1>7. Owner!Init
  BY <1>1 DEF Owner!Init
<1>8. QED
  BY <1>3, <1>4, <1>5, <1>6, <1>7 DEF IInv

(* What a task may do while it is idle, or in the middle of an assignment. *)
LEMMA IdleReady ==
  ASSUME NEW t \in Tasks, NEW p \in Pointers, NEW q \in Pointers,
         Mine(t, p), Mine(t, q), p # q, ptr[q] = Null
  PROVE  Ready(t, p, q)
BY NullAssumption DEF Mine, Ready, Alone, Idle

LEMMA AssignReady ==
  ASSUME IInv, NEW t \in Tasks, op[t].kind \in {"copy", "move"}
  PROVE  Ready(t, op[t].from, op[t].p)
BY DEF IInv, OpsWell, AtWell, Separate, Ready

LEMMA NextMaps == IInv /\ [Next]_vars => IInv' /\ (Owner!Next \/ UNCHANGED Mapped)
<1> SUFFICES ASSUME IInv, [Next]_vars
             PROVE  IInv' /\ (Owner!Next \/ UNCHANGED Mapped)
  OBVIOUS
<1>1. CASE UNCHANGED vars
  <2>1. \A c \in Cells : Owners(c)' = Owners(c)
    BY <1>1 DEF vars, Owners, Counted
  <2>2. IInv'
    BY <1>1 DEF vars, IInv, TypeOK, OpsWell, AtWell, Separate, Alone, Counts, Lives, Deletes,
                Owners, Counted
  <2>3. QED
    BY <2>1, <2>2, OwnersKept
<1>2. ASSUME NEW t \in Tasks, Add(t)
      PROVE  IInv' /\ (Owner!Next \/ UNCHANGED Mapped)
  BY <1>2, AddStep DEF Owner!Next
<1>3. ASSUME NEW t \in Tasks, Finish(t)
      PROVE  IInv' /\ (Owner!Next \/ UNCHANGED Mapped)
  BY <1>3, FinishStep
<1>4. ASSUME NEW t \in Tasks, Continue(t)
      PROVE  IInv' /\ (Owner!Next \/ UNCHANGED Mapped)
  <2>1. PICK p \in Pointers, q \in Pointers : p = op[t].from /\ q = op[t].p /\ Ready(t, p, q)
    BY <1>4, AssignReady DEF Continue, Ready
  <2>2. CASE op[t].kind = "copy"
    BY <1>4, <2>1, <2>2, LoadStep DEF Continue
  <2>3. CASE op[t].kind = "move"
    BY <1>4, <2>1, <2>3, StealStep DEF Continue, Owner!Next
  <2>4. QED
    BY <1>4, <2>2, <2>3 DEF Continue
<1>5. ASSUME NEW t \in Tasks, NEW p \in Pointers, Make(t, p)
      PROVE  IInv' /\ (Owner!Next \/ UNCHANGED Mapped)
  BY <1>5, MakeStep DEF Owner!Next
<1>6. ASSUME NEW t \in Tasks, NEW p \in Pointers, Reset(t, p)
      PROVE  IInv' /\ (Owner!Next \/ UNCHANGED Mapped)
  <2>1. Released(t, p, "done", Null)
    BY <1>6, NullAssumption DEF Reset, Mine, Alone, Released
  <2>2. QED
    BY <1>6, <2>1, SubStep DEF Reset, Owner!Next
<1>7. ASSUME NEW t \in Tasks, NEW p \in Pointers, NEW q \in Pointers, Copy(t, p, q)
      PROVE  IInv' /\ (Owner!Next \/ UNCHANGED Mapped)
  BY <1>7, IdleReady, LoadStep DEF Copy
<1>8. ASSUME NEW t \in Tasks, NEW p \in Pointers, NEW q \in Pointers, Move(t, p, q)
      PROVE  IInv' /\ (Owner!Next \/ UNCHANGED Mapped)
  BY <1>8, IdleReady, StealStep DEF Move, Owner!Next
<1>9. ASSUME NEW t \in Tasks, NEW p \in Pointers, NEW q \in Pointers,
             NEW how \in {"copy", "move"}, Assign(t, p, q, how)
      PROVE  IInv' /\ (Owner!Next \/ UNCHANGED Mapped)
  <2>1. CASE ptr[p] # Null
    <3>1. Released(t, p, how, q) /\ Sub(t, p, how, q)
      BY <1>9, <2>1, NullAssumption DEF Assign, Mine, Alone, Released
    <3>2. QED
      BY <3>1, SubStep DEF Owner!Next
  <2>2. CASE ptr[p] = Null
    <3>1. Ready(t, q, p)
      BY <1>9, <2>2, IdleReady DEF Assign
    <3>2. CASE Load(t, q, p)
      BY <3>1, <3>2, LoadStep
    <3>3. CASE Steal(t, q, p)
      BY <3>1, <3>3, StealStep DEF Owner!Next
    <3>4. QED
      BY <1>9, <2>2, <3>2, <3>3 DEF Assign
  <2>3. QED
    BY <2>1, <2>2
<1>10. QED
  BY <1>1, <1>2, <1>3, <1>4, <1>5, <1>6, <1>7, <1>8, <1>9 DEF Next

(* AtomicSharedPtr implements shared ownership for any number of tasks,    *)
(* pointers and cells: between the atomic instructions of copies, moves,   *)
(* assignments and resets no State dies under an owner, is deleted twice   *)
(* or is left behind.                                                      *)
THEOREM ImplementsOwnership == Spec => Ownership
<1>1. Init => IInv /\ Owner!Init
  BY InitMaps
<1>2. IInv /\ [Next]_vars => IInv' /\ [Owner!Next]_Mapped
  BY NextMaps
<1>3. QED
  BY <1>1, <1>2, PTL DEF Spec, Ownership, Owner!Spec, Mapped
=============================================================================
