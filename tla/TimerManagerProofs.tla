------------------------- MODULE TimerManagerProofs -------------------------
(***************************************************************************)
(* Proofs about TimerManager, for a pool of any size and any delays.  That *)
(* a node is in one place only is inductive together with its type and     *)
(* with the fact that only queued timers carry a removal request: a timer  *)
(* leaves the queue through Handled, which must not find it anywhere else. *)
(*                                                                         *)
(* And about TimerGroups with its hash map, for any number of buckets, any *)
(* keys and any hash function.  That find() finds what was put rests on    *)
(* the chains: a key's probes meet no empty bucket before the key.  For    *)
(* the loop of erase() it also takes a bucket w that no probe sequence     *)
(* crosses: counted from w the ring is a line, and the loop's test for a   *)
(* misplaced key says that the key crosses the hole.                       *)
(***************************************************************************)
EXTENDS TimerManager, TimerGroups, FiniteSetTheorems, SequenceTheorems,
  WellFoundedInduction, TLAPS

IInv == TypeOK /\ PoolPartition /\ RemovedIsGone

-----------------------------------------------------------------------------
(* Sequences without repetition                                            *)

(* Taking the head off execution_queue leaves exactly the others. *)
LEMMA TailDistinct ==
  ASSUME NEW S, NEW s \in Seq(S), s # <<>>, Distinct(s)
  PROVE  /\ Tail(s) \in Seq(S) /\ Distinct(Tail(s))
         /\ Head(s) \in Ran(s)
         /\ Ran(Tail(s)) = Ran(s) \ {Head(s)}
         /\ Tail(s) = <<>> <=> Len(s) = 1
<1>1. Len(s) \in Nat \ {0} /\ DOMAIN s = 1..Len(s) /\ Head(s) = s[1]
  OBVIOUS
<1>2. /\ Tail(s) \in Seq(S) /\ Len(Tail(s)) = Len(s) - 1
      /\ DOMAIN Tail(s) = 1..(Len(s) - 1)
      /\ \A i \in 1..(Len(s) - 1) : Tail(s)[i] = s[i + 1]
  BY <1>1
<1>3. Distinct(Tail(s))
  <2>1. SUFFICES ASSUME NEW i \in 1..(Len(s) - 1), NEW j \in 1..(Len(s) - 1), s[i + 1] = s[j + 1]
                 PROVE  i = j
    BY <1>2 DEF Distinct
  <2>2. i + 1 \in DOMAIN s /\ j + 1 \in DOMAIN s
    BY <1>1
  <2> QED BY <2>1, <2>2 DEF Distinct
<1>4. Head(s) \in Ran(s)
  BY <1>1 DEF Ran
<1>5. Ran(Tail(s)) \subseteq Ran(s) \ {Head(s)}
  <2>1. SUFFICES ASSUME NEW i \in 1..(Len(s) - 1)
                 PROVE  s[i + 1] \in Ran(s) /\ s[i + 1] # s[1]
    BY <1>1, <1>2 DEF Ran
  <2>2. i + 1 \in DOMAIN s /\ 1 \in DOMAIN s /\ i + 1 # 1
    BY <1>1
  <2> QED BY <2>2 DEF Ran, Distinct
<1>6. Ran(s) \ {Head(s)} \subseteq Ran(Tail(s))
  <2>1. SUFFICES ASSUME NEW i \in 1..Len(s), s[i] # s[1]
                 PROVE  s[i] \in Ran(Tail(s))
    BY <1>1 DEF Ran
  <2>2. i - 1 \in 1..(Len(s) - 1)
    BY <2>1, <1>1
  <2>3. Tail(s)[i - 1] = s[i]
    BY <2>2, <1>2
  <2> QED BY <2>2, <2>3, <1>2 DEF Ran
<1>7. Tail(s) = <<>> <=> Len(s) = 1
  BY <1>1, <1>2
<1> QED BY <1>2, <1>3, <1>4, <1>5, <1>6, <1>7

(* What pop_heap takes is a sequence of distinct active timers. *)
LEMMA EarliestDistinct ==
  ASSUME TypeOK, NEW k \in Nat, NEW q \in Earliest(k)
  PROVE  q \in Seq(Nodes) /\ Distinct(q) /\ Ran(q) \subseteq active
<1>1. q \in [1..k -> active] /\ active \subseteq Nodes
  BY DEF Earliest, TypeOK
<1>2. q \in Seq(Nodes) /\ DOMAIN q = 1..k
  BY <1>1
<1>3. Ran(q) \subseteq active
  BY <1>1, <1>2 DEF Ran
<1>4. Distinct(q)
  <2>1. \A i, j \in 1..k : i < j => q[i] # q[j]
    BY DEF Earliest
  <2>2. \A i, j \in 1..k : i < j \/ j < i \/ i = j
    OBVIOUS
  <2> QED BY <1>2, <2>1, <2>2 DEF Distinct
<1> QED BY <1>2, <1>3, <1>4

(* The number of timers a tick takes is a number. *)
LEMMA TakenNat == TypeOK => Taken(Cardinality(Due), Cardinality(active)) \in Nat
<1>1. SUFFICES ASSUME TypeOK PROVE Taken(Cardinality(Due), Cardinality(active)) \in Nat
  OBVIOUS
<1>2. IsFiniteSet(Nodes)
  BY FS_Interval, PoolAssumption DEF Nodes
<1>3. IsFiniteSet(active) /\ IsFiniteSet(Due)
  BY <1>1, <1>2, FS_Subset DEF TypeOK, Due
<1>4. Cardinality(active) \in Nat /\ Cardinality(Due) \in Nat
  BY <1>3, FS_CardinalityType
<1> QED BY <1>4 DEF Taken

-----------------------------------------------------------------------------
(* Nodes                                                                   *)

LEMMA CleanType == Clean \in Node /\ Clean.state = "Inactive" /\ ~Clean.removeReq
BY DEF Clean, Node

(* A timer that is added has a clean node with its state, times and kind. *)
LEMMA AddIInv ==
  ASSUME IInv, NEW nd \in Node, nd.state = "Active", ~nd.removeReq, Add(nd)
  PROVE  IInv'
<1>1. PICK n \in free : /\ node' = [node EXCEPT ![n] = nd]
                        /\ free' = free \ {n} /\ active' = active \cup {n}
  BY DEF Add
<1>2. n \in Nodes /\ node[n].state = "Inactive"
  BY DEF IInv, TypeOK, PoolPartition, In
<1>3. TypeOK'
  BY <1>1, <1>2 DEF Add, IInv, TypeOK
<1>4. \A m \in Nodes : node'[m] = IF m = n THEN nd ELSE node[m]
  BY <1>1, <1>2 DEF IInv, TypeOK
<1>5. PoolPartition'
  BY <1>1, <1>2, <1>4 DEF Add, IInv, PoolPartition, In, Ran, Distinct
<1>6. RemovedIsGone'
  BY <1>4 DEF IInv, RemovedIsGone
<1> QED BY <1>3, <1>5, <1>6 DEF IInv

(* An active or paused timer n is freed by remove(). *)
LEMMA RemoveIInv ==
  ASSUME IInv, NEW n \in Nodes, RemoveTimer(n)
  PROVE  IInv'
<1>1. CASE node[n].state = "Processing"
  <2>1. node' = [node EXCEPT ![n].removeReq = TRUE]
        /\ UNCHANGED <<free, active, paused, timeouts, intervals, queue, pc, lag>>
    BY <1>1 DEF RemoveTimer
  <2>2. node[n] \in Node /\ [node[n] EXCEPT !.removeReq = TRUE] \in Node
    <3>1. node[n] \in Node
      BY DEF IInv, TypeOK
    <3> QED BY <3>1 DEF Node
  <2>3. TypeOK'
    BY <2>1, <2>2 DEF IInv, TypeOK
  <2>4. \A m \in Nodes : node'[m].state = node[m].state /\ (m # n => node'[m] = node[m])
    BY <2>1, <2>2 DEF IInv, TypeOK, Node
  <2>5. PoolPartition'
    BY <2>1, <2>4 DEF IInv, PoolPartition, In, Ran, Distinct
  <2>6. RemovedIsGone'
    BY <1>1, <2>4 DEF IInv, RemovedIsGone
  <2> QED BY <2>3, <2>5, <2>6 DEF IInv
<1>2. CASE node[n].state # "Processing"
  <2>1. /\ node' = [node EXCEPT ![n] = Clean] /\ free' = free \cup {n}
        /\ active' = active \ {n} /\ paused' = paused \ {n}
        /\ UNCHANGED <<queue, pc, lag>>
    BY <1>2 DEF RemoveTimer, Freed
  <2>2. timeouts' \in Nat /\ intervals' \in Nat
    BY <1>2 DEF RemoveTimer, Freed, IInv, TypeOK
  <2>3. TypeOK'
    BY <2>1, <2>2, CleanType DEF IInv, TypeOK
  <2>4. \A m \in Nodes : node'[m] = IF m = n THEN Clean ELSE node[m]
    BY <2>1 DEF IInv, TypeOK
  <2>5. PoolPartition'
    BY <1>2, <2>1, <2>4, CleanType DEF RemoveTimer, IInv, PoolPartition, In, Ran, Distinct
  <2>6. RemovedIsGone'
    BY <2>4, CleanType DEF IInv, RemovedIsGone
  <2> QED BY <2>3, <2>5, <2>6 DEF IInv
<1> QED BY <1>1, <1>2

LEMMA PauseIInv ==
  ASSUME IInv, NEW n \in Nodes, Pause(n)
  PROVE  IInv'
<1>0. node[n] \in Node
  BY DEF IInv, TypeOK
<1>1. CASE node[n].state = "Processing"
  <2>1. node' = [node EXCEPT ![n].pauseReq = TRUE]
        /\ UNCHANGED <<free, active, paused, timeouts, intervals, queue, pc, lag>>
    BY <1>1 DEF Pause
  <2>2. [node[n] EXCEPT !.pauseReq = TRUE] \in Node
    BY <1>0 DEF Node
  <2>3. TypeOK'
    BY <2>1, <2>2 DEF IInv, TypeOK
  <2>4. \A m \in Nodes : node'[m].state = node[m].state /\ node'[m].removeReq = node[m].removeReq
    BY <2>1, <1>0 DEF IInv, TypeOK, Node
  <2>5. PoolPartition'
    BY <2>1, <2>4 DEF IInv, PoolPartition, In, Ran, Distinct
  <2>6. RemovedIsGone'
    BY <2>4 DEF IInv, RemovedIsGone
  <2> QED BY <2>3, <2>5, <2>6 DEF IInv
<1>2. CASE node[n].state = "Active"
  <2> DEFINE nd == [node[n] EXCEPT !.left = Remaining(@), !.state = "Paused"]
  <2>1. /\ node' = [node EXCEPT ![n] = nd]
        /\ active' = active \ {n} /\ paused' = paused \cup {n}
        /\ UNCHANGED <<free, queue, pc, lag, timeouts, intervals>>
    BY <1>2, <1>0 DEF Pause, IInv, TypeOK
  <2>2. nd \in Node /\ nd.state = "Paused" /\ nd.removeReq = node[n].removeReq
    <3>1. Remaining(node[n].left) \in Int
      BY <1>0 DEF Node, Remaining
    <3> QED BY <1>0, <3>1 DEF Node
  <2> HIDE DEF nd
  <2>3. TypeOK'
    BY <2>1, <2>2 DEF IInv, TypeOK
  <2>4. \A m \in Nodes : node'[m] = IF m = n THEN nd ELSE node[m]
    BY <2>1 DEF IInv, TypeOK
  <2>5. PoolPartition'
    BY <1>2, <2>1, <2>2, <2>4 DEF IInv, PoolPartition, In, Ran, Distinct
  <2>6. RemovedIsGone'
    BY <1>2, <2>2, <2>4 DEF IInv, RemovedIsGone
  <2> QED BY <2>3, <2>5, <2>6 DEF IInv
<1> QED BY <1>1, <1>2 DEF Pause

LEMMA ResumeIInv ==
  ASSUME IInv, NEW n \in Nodes, Resume(n)
  PROVE  IInv'
<1> DEFINE nd == [node[n] EXCEPT !.state = "Active"]
<1>0. node[n] \in Node /\ node[n].state = "Paused"
  BY DEF IInv, TypeOK, Resume
<1>1. /\ node' = [node EXCEPT ![n] = nd]
      /\ active' = active \cup {n} /\ paused' = paused \ {n}
      /\ UNCHANGED <<free, queue, pc, lag, timeouts, intervals>>
  BY <1>0 DEF Resume, IInv, TypeOK
<1>2. nd \in Node /\ nd.state = "Active" /\ nd.removeReq = node[n].removeReq
  BY <1>0 DEF Node
<1> HIDE DEF nd
<1>3. TypeOK'
  BY <1>1, <1>2 DEF IInv, TypeOK
<1>4. \A m \in Nodes : node'[m] = IF m = n THEN nd ELSE node[m]
  BY <1>1 DEF IInv, TypeOK
<1>5. PoolPartition'
  BY <1>0, <1>1, <1>2, <1>4 DEF IInv, PoolPartition, In, Ran, Distinct
<1>6. RemovedIsGone'
  BY <1>0, <1>2, <1>4 DEF IInv, RemovedIsGone
<1> QED BY <1>3, <1>5, <1>6 DEF IInv

-----------------------------------------------------------------------------
(* The tick                                                                *)

LEMMA TickIInv ==
  ASSUME IInv, Tick
  PROVE  IInv'
<1> DEFINE run(n) == [node[n] EXCEPT !.state = "Processing", !.left = 0,
                                     !.pauseReq = FALSE, !.removeReq = FALSE]
<1>1. PICK q \in Earliest(Taken(Cardinality(Due), Cardinality(active))) :
        /\ queue' = q
        /\ active' = active \ Ran(q)
        /\ node' = [n \in Nodes |-> IF n \in Ran(q) THEN run(n) ELSE node[n]]
        /\ pc' = IF q = <<>> THEN "idle" ELSE "next"
  BY DEF Tick
<1>2. q \in Seq(Nodes) /\ Distinct(q) /\ Ran(q) \subseteq active
  BY TakenNat, EarliestDistinct DEF IInv
<1>3. /\ lag' = 0 /\ UNCHANGED <<free, paused, timeouts, intervals>>
      /\ pc = "idle" /\ queue = <<>>
  BY DEF Tick, IInv, PoolPartition
<1>4. \A n \in Nodes : run(n) \in Node /\ run(n).state = "Processing" /\ ~run(n).removeReq
  <2>1. SUFFICES ASSUME NEW n \in Nodes
                 PROVE  run(n) \in Node /\ run(n).state = "Processing" /\ ~run(n).removeReq
    OBVIOUS
  <2>2. node[n] \in Node
    BY DEF IInv, TypeOK
  <2>3. 0 \in Int
    OBVIOUS
  <2> QED BY <2>2, <2>3 DEF Node
<1> HIDE DEF run
<1>5. \A n \in Nodes : node'[n] = IF n \in Ran(q) THEN run(n) ELSE node[n]
  BY <1>1
<1>6. TypeOK'
  BY <1>1, <1>2, <1>3, <1>4, TimeAssumption DEF IInv, TypeOK
<1>7. PoolPartition'
  <2>1. In("Processing") = {}
    BY <1>3 DEF IInv, PoolPartition, Ran
  <2>2. Ran(q) = In("Processing")'
    BY <2>1, <1>2, <1>4, <1>5 DEF IInv, TypeOK, In
  <2>3. active \ Ran(q) = In("Active")'
    BY <1>2, <1>4, <1>5 DEF IInv, PoolPartition, In
  <2>4. free = In("Inactive")' /\ paused = In("Paused")'
    BY <1>2, <1>4, <1>5 DEF IInv, PoolPartition, In
  <2>5. pc' = "idle" <=> queue' = <<>>
    BY <1>1
  <2>6. Ran(queue)' = Ran(q) /\ Distinct(queue)'
    BY <1>1, <1>2 DEF Ran, Distinct
  <2> QED BY <1>1, <1>3, <2>2, <2>3, <2>4, <2>5, <2>6 DEF PoolPartition
<1>8. RemovedIsGone'
  BY <1>4, <1>5 DEF IInv, RemovedIsGone
<1> QED BY <1>6, <1>7, <1>8 DEF IInv

(* A timer leaves the queue for exactly one other place: given a node of   *)
(* the state of that place, the invariant holds.                           *)
LEMMA LeaveQueue ==
  ASSUME IInv, queue # <<>>, NEW nd \in Node, ~nd.removeReq,
         node' = [node EXCEPT ![Head(queue)] = nd],
         queue' = Tail(queue),
         pc' = (IF Len(queue) = 1 THEN "idle" ELSE "next"),
         UNCHANGED lag, timeouts' \in Nat, intervals' \in Nat,
         \/ nd.state = "Inactive" /\ free' = free \cup {Head(queue)}
                                  /\ UNCHANGED <<active, paused>>
         \/ nd.state = "Active" /\ active' = active \cup {Head(queue)}
                                /\ UNCHANGED <<free, paused>>
         \/ nd.state = "Paused" /\ paused' = paused \cup {Head(queue)}
                                /\ UNCHANGED <<free, active>>
  PROVE  IInv'
<1> DEFINE h == Head(queue)
<1>1. /\ Tail(queue) \in Seq(Nodes) /\ Distinct(Tail(queue))
      /\ h \in Ran(queue) /\ Ran(Tail(queue)) = Ran(queue) \ {h}
      /\ Tail(queue) = <<>> <=> Len(queue) = 1
  BY TailDistinct DEF IInv, TypeOK, PoolPartition
<1>2. h \in Nodes /\ node[h].state = "Processing"
  BY <1>1 DEF IInv, PoolPartition, In
<1> HIDE DEF h
<1>3. \A n \in Nodes : node'[n] = IF n = h THEN nd ELSE node[n]
  BY <1>2 DEF IInv, TypeOK, h
<1>4. TypeOK'
  BY <1>1, <1>2 DEF IInv, TypeOK, h
<1>5. PoolPartition'
  <2>1. Ran(queue)' = Ran(queue) \ {h} /\ Distinct(queue)'
    BY <1>1 DEF Ran, Distinct
  <2>2. nd.state # "Processing"
    OBVIOUS
  <2>3. Ran(queue)' = In("Processing")'
    BY <2>1, <2>2, <1>2, <1>3 DEF IInv, PoolPartition, In
  <2>4. free' = In("Inactive")' /\ active' = In("Active")' /\ paused' = In("Paused")'
    BY <1>2, <1>3 DEF IInv, PoolPartition, In, h
  <2>5. pc' = "idle" <=> queue' = <<>>
    BY <1>1
  <2> QED BY <2>1, <2>3, <2>4, <2>5 DEF PoolPartition
<1>6. RemovedIsGone'
  BY <1>3 DEF IInv, RemovedIsGone
<1> QED BY <1>4, <1>5, <1>6 DEF IInv

LEMMA FinishIInv ==
  ASSUME IInv, NEW done \in BOOLEAN, Finish(done)
  PROVE  IInv'
<1> DEFINE h == Head(queue)
           nd == [node[h] EXCEPT !.repeat = CountedDown(@)]
           pausedNd == [nd EXCEPT !.state = "Paused", !.pauseReq = FALSE]
           activeNd == [nd EXCEPT !.state = "Active", !.left = nd.interval - lag]
<1>1. /\ queue # <<>> /\ queue' = Tail(queue) /\ UNCHANGED lag
      /\ pc' = IF Len(queue) = 1 THEN "idle" ELSE "next"
      /\ timeouts \in Nat /\ intervals \in Nat
  BY DEF Finish, IInv, TypeOK, PoolPartition
<1>2. h \in Nodes
  BY <1>1 DEF IInv, TypeOK
<1>3. nd \in Node
  <2>1. node[h] \in Node /\ CountedDown(node[h].repeat) \in Nat \cup {-1}
    BY <1>2 DEF IInv, TypeOK, Node, CountedDown
  <2> QED BY <2>1 DEF Node
<1>4. nd.interval - lag \in Int
  <2>1. \A x \in Node : x.interval \in Int
    BY TimeAssumption DEF Node
  <2>2. nd.interval \in Int
    BY <1>3, <2>1
  <2>3. lag \in Int
    BY DEF IInv, TypeOK
  <2> QED BY <2>2, <2>3
<1>5. Handled(h, done)
  BY DEF Finish
<1>6. CASE Freed(h) /\ UNCHANGED <<active, paused>>
  <2>1. timeouts' \in Nat /\ intervals' \in Nat
    BY <1>1, <1>6 DEF Freed
  <2>2. node' = [node EXCEPT ![h] = Clean] /\ free' = free \cup {h}
    BY <1>6 DEF Freed
  <2> QED BY <1>1, <1>6, <2>1, <2>2, CleanType, LeaveQueue
<1>7. CASE /\ ~nd.removeReq /\ nd.pauseReq
           /\ node' = [node EXCEPT ![h] = pausedNd]
           /\ paused' = paused \cup {h}
           /\ UNCHANGED <<free, active, timeouts, intervals>>
  <2>1. pausedNd \in Node /\ pausedNd.state = "Paused" /\ ~pausedNd.removeReq
    BY <1>3, <1>7 DEF Node
  <2> HIDE DEF nd, pausedNd
  <2> QED BY <1>1, <1>7, <2>1, LeaveQueue
<1>8. CASE /\ ~nd.removeReq /\ ~nd.pauseReq
           /\ node' = [node EXCEPT ![h] = activeNd]
           /\ active' = active \cup {h}
           /\ UNCHANGED <<free, paused, timeouts, intervals>>
  <2>1. activeNd \in Node /\ activeNd.state = "Active" /\ ~activeNd.removeReq
    BY <1>3, <1>4, <1>8 DEF Node
  <2> HIDE DEF nd, activeNd
  <2> QED BY <1>1, <1>8, <2>1, LeaveQueue
<1> QED BY <1>5, <1>6, <1>7, <1>8 DEF Handled

(* Time changes no node's place. *)
LEMMA AdvanceIInv ==
  ASSUME IInv, Advance
  PROVE  IInv'
<1>1. \A n \in Nodes : node'[n] = Older(node[n])
  BY DEF Advance
<1>2. ASSUME NEW nd \in Node
      PROVE  Older(nd) \in Node /\ Older(nd).state = nd.state /\ Older(nd).removeReq = nd.removeReq
  <2> DEFINE l == IF nd.state = "Active" THEN nd.left - 1 ELSE nd.left
             u == IF nd.state = "Inactive" \/ nd.limit = NoLimit \/ nd.limit <= -MaxLag
                  THEN nd.limit ELSE nd.limit - 1
  <2>1. l \in Int
    BY DEF Node
  <2>2. u \in Int \cup {NoLimit}
    <3>1. nd.limit \in Int \cup {NoLimit}
      BY DEF Node
    <3> QED BY <3>1
  <2>3. Older(nd) = [nd EXCEPT !.left = l, !.limit = u]
    BY DEF Older
  <2> HIDE DEF l, u
  <2> QED BY <2>1, <2>2, <2>3 DEF Node
<1>3. \A n \in Nodes : /\ node'[n] \in Node /\ node'[n].state = node[n].state
                       /\ node'[n].removeReq = node[n].removeReq
  BY <1>1, <1>2 DEF IInv, TypeOK
<1>4. node' \in [Nodes -> Node]
  BY <1>3 DEF Advance
<1>5. lag' \in 0..MaxLag
  BY TimeAssumption DEF Advance, IInv, TypeOK, PoolPartition
<1>6. TypeOK'
  BY <1>4, <1>5 DEF Advance, IInv, TypeOK
<1>7. PoolPartition'
  BY <1>3 DEF Advance, IInv, PoolPartition, In, Ran, Distinct
<1>8. RemovedIsGone'
  BY <1>3 DEF IInv, RemovedIsGone
<1> QED BY <1>6, <1>7, <1>8 DEF IInv

-----------------------------------------------------------------------------
(* Counters                                                                *)

OneShot == {n \in Nodes \ In("Inactive") : node[n].kind = "timeout"}
Periodic == {n \in Nodes \ In("Inactive") : node[n].kind # "timeout"}

LEMMA CountedFinite == IsFiniteSet(OneShot) /\ IsFiniteSet(Periodic)
<1>1. IsFiniteSet(Nodes)
  BY FS_Interval, PoolAssumption DEF Nodes
<1>2. OneShot \subseteq Nodes /\ Periodic \subseteq Nodes
  BY DEF OneShot, Periodic
<1> QED BY <1>1, <1>2, FS_Subset

(* Steps that create and free no timer leave both counters right. *)
LEMMA SameTimers ==
  ASSUME CountsMatch, UNCHANGED <<timeouts, intervals>>,
         \A n \in Nodes : /\ node'[n].kind = node[n].kind
                          /\ node'[n].state = "Inactive" <=> node[n].state = "Inactive"
  PROVE  CountsMatch'
<1>1. OneShot' = OneShot /\ Periodic' = Periodic
  BY DEF OneShot, Periodic, In
<1>2. timeouts = Cardinality(OneShot) /\ intervals = Cardinality(Periodic)
  BY DEF CountsMatch, OneShot, Periodic
<1>3. timeouts' = Cardinality(OneShot') /\ intervals' = Cardinality(Periodic')
  BY <1>1, <1>2
<1> QED BY <1>3 DEF CountsMatch, OneShot, Periodic

(* addTimeout() and its relatives count the timer they add. *)
LEMMA AddCounts ==
  ASSUME IInv, CountsMatch, NEW nd \in Node, nd.state = "Active", Add(nd)
  PROVE  CountsMatch'
<1>1. PICK n \in free : node' = [node EXCEPT ![n] = nd]
  BY DEF Add
<1>2. n \in Nodes /\ node[n].state = "Inactive"
  BY DEF IInv, TypeOK, PoolPartition, In
<1>3. \A m \in Nodes : node'[m] = IF m = n THEN nd ELSE node[m]
  BY <1>1, <1>2 DEF IInv, TypeOK
<1>4. n \notin OneShot /\ n \notin Periodic
  BY <1>2 DEF OneShot, Periodic, In
<1>5. timeouts = Cardinality(OneShot) /\ intervals = Cardinality(Periodic)
  BY DEF CountsMatch, OneShot, Periodic
<1>6. CASE nd.kind = "timeout"
  <2>1. OneShot' = OneShot \cup {n} /\ Periodic' = Periodic
    BY <1>2, <1>3, <1>6 DEF OneShot, Periodic, In
  <2>2. Cardinality(OneShot') = timeouts + 1 /\ Cardinality(Periodic') = intervals
    BY <1>4, <1>5, <2>1, CountedFinite, FS_AddElement
  <2>3. timeouts' = timeouts + 1 /\ intervals' = intervals
    BY <1>6 DEF Add
  <2> QED BY <2>2, <2>3 DEF CountsMatch, OneShot, Periodic
<1>7. CASE nd.kind # "timeout"
  <2>1. Periodic' = Periodic \cup {n} /\ OneShot' = OneShot
    BY <1>2, <1>3, <1>7 DEF OneShot, Periodic, In
  <2>2. Cardinality(Periodic') = intervals + 1 /\ Cardinality(OneShot') = timeouts
    BY <1>4, <1>5, <2>1, CountedFinite, FS_AddElement
  <2>3. intervals' = intervals + 1 /\ timeouts' = timeouts
    BY <1>7 DEF Add
  <2> QED BY <2>2, <2>3 DEF CountsMatch, OneShot, Periodic
<1> QED BY <1>6, <1>7

(* A timer that is freed was counted, so the guards of decTimeouts() and   *)
(* decIntervals() against an underflow never keep a counter from going     *)
(* down.                                                                   *)
LEMMA FreedCounts ==
  ASSUME IInv, CountsMatch, NEW n \in Nodes, node[n].state # "Inactive", Freed(n)
  PROVE  CountsMatch'
<1>1. \A m \in Nodes : node'[m] = IF m = n THEN Clean ELSE node[m]
  BY DEF Freed, IInv, TypeOK
<1>2. timeouts = Cardinality(OneShot) /\ intervals = Cardinality(Periodic)
  BY DEF CountsMatch, OneShot, Periodic
<1>3. timeouts \in Nat /\ intervals \in Nat
  BY DEF IInv, TypeOK
<1>4. CASE node[n].kind = "timeout"
  <2>1. n \in OneShot /\ OneShot' = OneShot \ {n} /\ Periodic' = Periodic
    BY <1>1, <1>4, CleanType DEF OneShot, Periodic, In
  <2>2. Cardinality(OneShot \ {n}) = timeouts - 1 /\ Cardinality(OneShot \ {n}) \in Nat
    BY <1>2, <2>1, CountedFinite, FS_RemoveElement, FS_CardinalityType
  <2>3. timeouts' = timeouts - 1 /\ intervals' = intervals
    BY <1>3, <1>4, <2>2 DEF Freed
  <2> QED BY <1>2, <2>1, <2>2, <2>3 DEF CountsMatch, OneShot, Periodic
<1>5. CASE node[n].kind # "timeout"
  <2>1. n \in Periodic /\ Periodic' = Periodic \ {n} /\ OneShot' = OneShot
    BY <1>1, <1>5, CleanType DEF OneShot, Periodic, In
  <2>2. Cardinality(Periodic \ {n}) = intervals - 1 /\ Cardinality(Periodic \ {n}) \in Nat
    BY <1>2, <2>1, CountedFinite, FS_RemoveElement, FS_CardinalityType
  <2>3. intervals' = intervals - 1 /\ timeouts' = timeouts
    BY <1>3, <1>5, <2>2 DEF Freed
  <2> QED BY <1>2, <2>1, <2>2, <2>3 DEF CountsMatch, OneShot, Periodic
<1> QED BY <1>4, <1>5

LEMMA InitCounts == Init => CountsMatch
<1>1. SUFFICES ASSUME Init PROVE CountsMatch
  OBVIOUS
<1>2. OneShot = {} /\ Periodic = {}
  BY <1>1, CleanType DEF Init, OneShot, Periodic, In
<1>3. Cardinality({}) = 0
  BY FS_EmptySet
<1> QED BY <1>1, <1>2, <1>3 DEF Init, CountsMatch, OneShot, Periodic

LEMMA NextCounts == IInv /\ CountsMatch /\ [Next]_vars => CountsMatch'
<1> SUFFICES ASSUME IInv, CountsMatch, [Next]_vars PROVE CountsMatch'
  OBVIOUS
<1>1. ASSUME NEW d \in Delays, AddTimeout(d) PROVE CountsMatch'
  <2> DEFINE nd == [Clean EXCEPT !.state = "Active", !.left = d, !.repeat = 1]
  <2>1. nd \in Node /\ nd.state = "Active"
    <3>1. d \in Int /\ 1 \in Nat
      BY TimeAssumption
    <3> QED BY <3>1, CleanType DEF Node
  <2> QED BY <1>1, <2>1, AddCounts DEF AddTimeout
<1>2. ASSUME NEW d \in Intervals, NEW r \in Repeats, AddInterval(d, r) PROVE CountsMatch'
  <2> DEFINE nd == [Clean EXCEPT !.state = "Active", !.kind = "interval", !.left = d,
                                 !.interval = d, !.repeat = r]
  <2>1. nd \in Node /\ nd.state = "Active"
    <3>1. d \in Int /\ r \in Nat \cup {-1}
      BY TimeAssumption, RepeatAssumption
    <3> QED BY <3>1, CleanType DEF Node
  <2> QED BY <1>2, <2>1, AddCounts DEF AddInterval
<1>3. ASSUME NEW d \in Intervals, NEW l \in Limits \cup {NoLimit}, AddIntervalUntil(d, l)
      PROVE  CountsMatch'
  <2> DEFINE nd == [Clean EXCEPT !.state = "Active", !.kind = "until", !.left = d,
                                 !.interval = d, !.repeat = -1, !.limit = l]
  <2>1. nd \in Node /\ nd.state = "Active"
    <3>1. d \in Int /\ l \in Int \cup {NoLimit} /\ -1 \in Nat \cup {-1}
      BY TimeAssumption
    <3> QED BY <3>1, CleanType DEF Node
  <2> QED BY <1>3, <2>1, AddCounts DEF AddIntervalUntil
<1>4. ASSUME NEW n \in Nodes, RemoveTimer(n) PROVE CountsMatch'
  <2>1. CASE node[n].state = "Processing"
    <3>1. node' = [node EXCEPT ![n].removeReq = TRUE] /\ UNCHANGED <<timeouts, intervals>>
      BY <1>4, <2>1 DEF RemoveTimer
    <3>2. \A m \in Nodes : node'[m].kind = node[m].kind /\ node'[m].state = node[m].state
      BY <3>1 DEF IInv, TypeOK, Node
    <3> QED BY <3>1, <3>2, SameTimers
  <2>2. CASE node[n].state # "Processing"
    BY <1>4, <2>2, FreedCounts DEF RemoveTimer
  <2> QED BY <2>1, <2>2
<1>5. ASSUME NEW n \in Nodes, Pause(n) \/ Resume(n) PROVE CountsMatch'
  <2>1. UNCHANGED <<timeouts, intervals>>
    BY <1>5 DEF Pause, Resume
  <2>2. node[n] \in Node /\ node \in [Nodes -> Node] /\ node[n].state # "Inactive"
    BY <1>5 DEF IInv, TypeOK, Pause, Resume
  <2>3. PICK nd : /\ node' = [node EXCEPT ![n] = nd]
                  /\ nd.kind = node[n].kind /\ nd.state # "Inactive"
    <3>1. CASE Resume(n)
      <4>1. node' = [node EXCEPT ![n] = [node[n] EXCEPT !.state = "Active"]]
        BY <2>2, <3>1 DEF Resume
      <4>2. /\ [node[n] EXCEPT !.state = "Active"].kind = node[n].kind
            /\ [node[n] EXCEPT !.state = "Active"].state = "Active"
        BY <2>2 DEF Node
      <4> QED BY <4>1, <4>2
    <3>2. CASE Pause(n) /\ node[n].state = "Processing"
      <4>1. node' = [node EXCEPT ![n] = [node[n] EXCEPT !.pauseReq = TRUE]]
        BY <2>2, <3>2 DEF Pause
      <4>2. /\ [node[n] EXCEPT !.pauseReq = TRUE].kind = node[n].kind
            /\ [node[n] EXCEPT !.pauseReq = TRUE].state = "Processing"
        BY <2>2, <3>2 DEF Node
      <4> QED BY <4>1, <4>2
    <3>3. CASE Pause(n) /\ node[n].state # "Processing"
      <4> DEFINE nd == [node[n] EXCEPT !.left = Remaining(@), !.state = "Paused"]
      <4>1. node' = [node EXCEPT ![n] = nd]
        BY <2>2, <3>3 DEF Pause
      <4>2. nd.kind = node[n].kind /\ nd.state = "Paused"
        BY <2>2 DEF Node
      <4> QED BY <4>1, <4>2
    <3> QED BY <1>5, <3>1, <3>2, <3>3
  <2>4. \A m \in Nodes : node'[m] = IF m = n THEN nd ELSE node[m]
    BY <2>2, <2>3
  <2>5. \A m \in Nodes : /\ node'[m].kind = node[m].kind
                         /\ node'[m].state = "Inactive" <=> node[m].state = "Inactive"
    BY <2>2, <2>3, <2>4
  <2> QED BY <2>1, <2>5, SameTimers
<1>6. CASE Tick
  <2>1. UNCHANGED <<timeouts, intervals>>
    BY <1>6 DEF Tick
  <2>2. PICK q \in Earliest(Taken(Cardinality(Due), Cardinality(active))) :
          node' = [n \in Nodes |->
            IF n \in Ran(q)
            THEN [node[n] EXCEPT !.state = "Processing", !.left = 0,
                                 !.pauseReq = FALSE, !.removeReq = FALSE]
            ELSE node[n]]
    BY <1>6 DEF Tick
  <2>3. Ran(q) \subseteq In("Active")
    BY TakenNat, EarliestDistinct DEF IInv, PoolPartition
  <2>4. \A m \in Nodes : /\ node'[m].kind = node[m].kind
                         /\ node'[m].state = "Inactive" <=> node[m].state = "Inactive"
    BY <2>2, <2>3 DEF IInv, TypeOK, Node, In
  <2> QED BY <2>1, <2>4, SameTimers
<1>7. CASE Callback
  BY <1>7, SameTimers DEF Callback
<1>8. ASSUME NEW done \in BOOLEAN, Finish(done) PROVE CountsMatch'
  <2>1. PICK h \in Nodes : h = Head(queue) /\ node[h].state = "Processing"
    <3>1. queue # <<>> /\ Distinct(queue) /\ queue \in Seq(Nodes)
      BY <1>8 DEF Finish, IInv, TypeOK, PoolPartition
    <3>2. Head(queue) \in Ran(queue)
      BY <3>1, TailDistinct
    <3> QED BY <3>2 DEF IInv, PoolPartition, In
  <2>2. Handled(h, done)
    BY <1>8, <2>1 DEF Finish
  <2>3. CASE Freed(h)
    BY <2>1, <2>3, FreedCounts
  <2>4. CASE ~Freed(h)
    <3>1. UNCHANGED <<timeouts, intervals>>
      BY <2>2, <2>4 DEF Handled
    <3>2. PICK nd \in Node : /\ nd.kind = node[h].kind
            /\ \/ node' = [node EXCEPT ![h] = [nd EXCEPT !.state = "Paused", !.pauseReq = FALSE]]
               \/ node' = [node EXCEPT ![h] = [nd EXCEPT !.state = "Active", !.left = nd.interval - lag]]
      <4> DEFINE nd == [node[h] EXCEPT !.repeat = CountedDown(@)]
      <4>1. node[h] \in Node /\ CountedDown(node[h].repeat) \in Nat \cup {-1}
        BY <2>1 DEF IInv, TypeOK, Node, CountedDown
      <4>2. nd \in Node /\ nd.kind = node[h].kind
        BY <4>1 DEF Node
      <4> QED BY <2>2, <2>4, <4>2 DEF Handled
    <3>3. PICK md : /\ node' = [node EXCEPT ![h] = md]
                    /\ md.kind = node[h].kind /\ md.state # "Inactive"
      <4> DEFINE pausedNd == [nd EXCEPT !.state = "Paused", !.pauseReq = FALSE]
                 activeNd == [nd EXCEPT !.state = "Active", !.left = nd.interval - lag]
      <4>1. /\ pausedNd.kind = nd.kind /\ pausedNd.state = "Paused"
            /\ activeNd.kind = nd.kind /\ activeNd.state = "Active"
        BY DEF Node
      <4>2. node' = [node EXCEPT ![h] = pausedNd] \/ node' = [node EXCEPT ![h] = activeNd]
        BY <3>2
      <4> HIDE DEF pausedNd, activeNd
      <4> QED BY <3>2, <4>1, <4>2
    <3>4. \A m \in Nodes : node'[m] = IF m = h THEN md ELSE node[m]
      BY <3>3 DEF IInv, TypeOK
    <3>5. \A m \in Nodes : /\ node'[m].kind = node[m].kind
                           /\ node'[m].state = "Inactive" <=> node[m].state = "Inactive"
      BY <2>1, <3>3, <3>4
    <3> QED BY <3>1, <3>5, SameTimers
  <2> QED BY <2>3, <2>4
<1>9. CASE Advance
  <2>1. UNCHANGED <<timeouts, intervals>>
    BY <1>9 DEF Advance
  <2>2. \A m \in Nodes : node'[m].kind = node[m].kind /\ node'[m].state = node[m].state
    BY <1>9 DEF Advance, Older, IInv, TypeOK, Node
  <2> QED BY <2>1, <2>2, SameTimers
<1>10. CASE UNCHANGED vars
  BY <1>10, SameTimers DEF vars
<1> QED BY <1>1, <1>2, <1>3, <1>4, <1>5, <1>6, <1>7, <1>8, <1>9, <1>10 DEF Next

-----------------------------------------------------------------------------
(* The theorems                                                            *)

LEMMA InitIInv == Init => IInv
<1>1. SUFFICES ASSUME Init PROVE IInv
  OBVIOUS
<1>2. TypeOK
  BY <1>1, CleanType, TimeAssumption DEF Init, TypeOK
<1>3. PoolPartition
  BY <1>1, CleanType DEF Init, PoolPartition, In, Ran, Distinct
<1>4. RemovedIsGone
  BY <1>1, CleanType DEF Init, RemovedIsGone
<1> QED BY <1>2, <1>3, <1>4 DEF IInv

LEMMA NextIInv == IInv /\ [Next]_vars => IInv'
<1> SUFFICES ASSUME IInv, [Next]_vars PROVE IInv'
  OBVIOUS
<1>1. ASSUME NEW d \in Delays, AddTimeout(d) PROVE IInv'
  <2> DEFINE nd == [Clean EXCEPT !.state = "Active", !.left = d, !.repeat = 1]
  <2>1. nd \in Node /\ nd.state = "Active" /\ ~nd.removeReq
    <3>1. d \in Int /\ 1 \in Nat
      BY TimeAssumption
    <3> QED BY <3>1, CleanType DEF Node
  <2>2. Add(nd)
    BY <1>1 DEF AddTimeout
  <2> QED BY <2>1, <2>2, AddIInv
<1>2. ASSUME NEW d \in Intervals, NEW r \in Repeats, AddInterval(d, r) PROVE IInv'
  <2> DEFINE nd == [Clean EXCEPT !.state = "Active", !.kind = "interval", !.left = d,
                                 !.interval = d, !.repeat = r]
  <2>1. nd \in Node /\ nd.state = "Active" /\ ~nd.removeReq
    <3>1. d \in Int /\ r \in Nat \cup {-1}
      BY TimeAssumption, RepeatAssumption
    <3> QED BY <3>1, CleanType DEF Node
  <2>2. Add(nd)
    BY <1>2 DEF AddInterval
  <2> QED BY <2>1, <2>2, AddIInv
<1>3. ASSUME NEW d \in Intervals, NEW l \in Limits \cup {NoLimit}, AddIntervalUntil(d, l)
      PROVE  IInv'
  <2> DEFINE nd == [Clean EXCEPT !.state = "Active", !.kind = "until", !.left = d,
                                 !.interval = d, !.repeat = -1, !.limit = l]
  <2>1. nd \in Node /\ nd.state = "Active" /\ ~nd.removeReq
    <3>1. d \in Int /\ l \in Int \cup {NoLimit} /\ -1 \in Nat \cup {-1}
      BY TimeAssumption
    <3> QED BY <3>1, CleanType DEF Node
  <2>2. Add(nd)
    BY <1>3 DEF AddIntervalUntil
  <2> QED BY <2>1, <2>2, AddIInv
<1>4. ASSUME NEW n \in Nodes, RemoveTimer(n) \/ Pause(n) \/ Resume(n) PROVE IInv'
  BY <1>4, RemoveIInv, PauseIInv, ResumeIInv
<1>5. CASE Tick
  BY <1>5, TickIInv
<1>6. CASE Callback
  BY <1>6 DEF Callback, IInv, TypeOK, PoolPartition, In, Ran, Distinct, RemovedIsGone
<1>7. ASSUME NEW done \in BOOLEAN, Finish(done) PROVE IInv'
  BY <1>7, FinishIInv
<1>8. CASE Advance
  BY <1>8, AdvanceIInv
<1>9. CASE UNCHANGED vars
  BY <1>9 DEF vars, IInv, TypeOK, PoolPartition, In, Ran, Distinct, RemovedIsGone
<1> QED BY <1>1, <1>2, <1>3, <1>4, <1>5, <1>6, <1>7, <1>8, <1>9 DEF Next

LEMMA IInvHolds == Spec => []IInv
BY InitIInv, NextIInv, PTL DEF Spec

(* Whatever callbacks add, remove and pause, every field of the pool keeps *)
(* its type and the queue of a tick holds nodes of the pool only.          *)
THEOREM TimerTypeCorrect == Spec => []TypeOK
<1>1. IInv => TypeOK
  BY DEF IInv
<1> QED BY <1>1, IInvHolds, PTL

(* For every size of the pool, no operation, in a callback or between      *)
(* ticks, loses a node of TimerStorage or gives out one that process()     *)
(* still has in its execution_queue.                                       *)
THEOREM NoNodeLost == Spec => []PoolPartition
<1>1. IInv => PoolPartition
  BY DEF IInv
<1> QED BY <1>1, IInvHolds, PTL

(* A timer whose removal was asked for while a tick held it is never put   *)
(* back among the active or the paused timers.                             *)
THEOREM RemovedStaysGone == Spec => []RemovedIsGone
<1>1. IInv => RemovedIsGone
  BY DEF IInv
<1> QED BY <1>1, IInvHolds, PTL

(* For every size of the pool, countTimeouts() and countIntervals() are    *)
(* the timers there are: a timer that a callback removed, paused or let    *)
(* run out is subtracted once, and never from a counter that is 0.         *)
THEOREM CountsRight == Spec => []CountsMatch
<1>1. IInv /\ CountsMatch /\ [Next]_vars => CountsMatch'
  BY NextCounts
<1>2. Init => CountsMatch
  BY InitCounts
<1> QED BY <1>1, <1>2, IInvHolds, PTL DEF Spec

-----------------------------------------------------------------------------
(* Natural numbers                                                         *)

(* An induction over natural numbers is an argument about the least        *)
(* counterexample.                                                         *)
LEMMA Least ==
  ASSUME NEW T, T \subseteq Nat, T # {}
  PROVE  \E x \in T : \A y \in T : x <= y
<1>1. PICK x \in T : \A y \in T : ~(<<y, x>> \in OpToRel(<, Nat))
  BY WFMin, NatLessThanWellFounded
<1>2. \A y \in Nat : y < x => <<y, x>> \in OpToRel(<, Nat)
  BY DEF OpToRel
<1>3. \A y \in T : y \in Nat /\ ~(y < x)
  BY <1>1, <1>2
<1> QED BY <1>3

(* Induction, over a set instead of a predicate. *)
LEMMA UpTo ==
  ASSUME NEW n \in Nat, NEW T, 0 \in T, \A p \in 0..n - 1 : p \in T => p + 1 \in T
  PROVE  \A p \in 0..n : p \in T
<1> SUFFICES ASSUME NEW m \in 0..n, m \notin T
             PROVE  FALSE
  OBVIOUS
<1> DEFINE U == {p \in 0..n : p \notin T}
<1>1. U \subseteq Nat /\ U # {}
  OBVIOUS
<1>2. PICK x \in U : \A y \in U : x <= y
  BY <1>1, Least
<1>3. x - 1 \in 0..n - 1 /\ x - 1 \notin U
  BY <1>2
<1>4. x - 1 \in T
  BY <1>3
<1>5. (x - 1) + 1 \in T
  BY <1>3, <1>4
<1> QED BY <1>2, <1>5

-----------------------------------------------------------------------------
(* The ring of buckets                                                     *)

Ring == 0 .. MaxSize - 1

(* The probes from bucket h to bucket b. *)
Dist(h, b) == IF h <= b THEN b - h ELSE b - h + MaxSize

Mod(a) == a % MaxSize

(* The remainder, without dividing. *)
LEMMA ModIs ==
  ASSUME NEW a \in Nat, a < 3 * MaxSize
  PROVE  Mod(a) = IF a < MaxSize THEN a ELSE IF a < 2 * MaxSize THEN a - MaxSize ELSE a - 2 * MaxSize
<1> USE SizeAssumption
<1>1. CASE a < MaxSize
  BY <1>1 DEF Mod
<1>2. CASE MaxSize <= a /\ a < 2 * MaxSize
  BY <1>2 DEF Mod
<1>3. CASE 2 * MaxSize <= a
  BY <1>3 DEF Mod
<1> QED BY <1>1, <1>2, <1>3

(* The bucket that many probes from h is b. *)
LEMMA DistIs ==
  ASSUME NEW h \in Ring, NEW b \in Ring
  PROVE  /\ Dist(h, b) \in Ring
         /\ Mod(h + Dist(h, b)) = b
         /\ \A c \in Ring : Dist(h, b) = Dist(h, c) => b = c
<1> USE SizeAssumption
<1>1. Dist(h, b) \in Ring /\ \A c \in Ring : Dist(h, b) = Dist(h, c) => b = c
  BY DEF Dist, Ring
<1>2. PICK a \in Nat : /\ a = h + Dist(h, b) /\ a < 2 * MaxSize /\ a < 3 * MaxSize
                       /\ b = IF a < MaxSize THEN a ELSE a - MaxSize
  BY DEF Dist, Ring
<1>3. Mod(a) = b
  BY <1>2, ModIs
<1> QED BY <1>1, <1>2, <1>3

(* The n-th probe. *)
LEMMA ProbeIs ==
  ASSUME NEW h \in Ring, NEW n \in Ring
  PROVE  Mod(h + n) \in Ring /\ Dist(h, Mod(h + n)) = n
<1> USE SizeAssumption
<1>1. PICK a \in Nat : a = h + n /\ a < 2 * MaxSize /\ a < 3 * MaxSize
  BY DEF Ring
<1>2. Mod(a) = IF a < MaxSize THEN a ELSE a - MaxSize
  BY <1>1, ModIs
<1> QED BY <1>1, <1>2 DEF Ring, Dist

(* Counted from a bucket w that no probe sequence wraps past, the ring is  *)
(* a line.                                                                 *)
LEMMA OnLine ==
  ASSUME NEW w \in Ring, NEW h \in Ring, NEW x \in Ring, NEW c \in Ring, Dist(w, h) <= Dist(w, c)
  PROVE  Dist(h, x) < Dist(h, c) <=> Dist(w, h) <= Dist(w, x) /\ Dist(w, x) < Dist(w, c)
BY SizeAssumption DEF Ring, Dist

(* What remove_bucket_and_rehash() tests: does the key, on its way from    *)
(* its ideal bucket to next, cross the hole?                               *)
LEMMA MisplacedIs ==
  ASSUME NEW ideal \in Ring, NEW hole \in Ring, NEW next \in Ring
  PROVE  Misplaced(ideal, hole, next) <=> Dist(ideal, hole) < Dist(ideal, next)
BY SizeAssumption DEF Ring, Dist, Misplaced

(* The bucket after s, counted from w. *)
AfterIs(w, s, next) ==
  next \in Ring /\ Dist(w, next) = IF s + 1 < MaxSize THEN s + 1
                                   ELSE IF s + 1 < 2 * MaxSize THEN s + 1 - MaxSize
                                   ELSE s + 1 - 2 * MaxSize

(* The bucket that the loop started at b comes to. *)
LEMMA TurnIs ==
  ASSUME NEW w \in Ring, NEW b \in Ring, NEW n \in 0 .. 2 * MaxSize - 1
  PROVE  AfterIs(w, Dist(w, b) + n, Mod(b + (n + 1)))
<1> USE SizeAssumption
<1>1. PICK a \in Nat : a = b + (n + 1) /\ a < 3 * MaxSize
  BY DEF Ring
<1>2. PICK x : x = Mod(a) /\ x = IF a < MaxSize THEN a
               ELSE IF a < 2 * MaxSize THEN a - MaxSize ELSE a - 2 * MaxSize
  BY <1>1, ModIs
<1>3. x \in Ring
  BY <1>1, <1>2 DEF Ring
<1>4. AfterIs(w, Dist(w, b) + n, x)
  BY <1>1, <1>2, <1>3 DEF Ring, Dist, AfterIs
<1> QED BY <1>1, <1>2, <1>4

-----------------------------------------------------------------------------
(* Maps                                                                    *)

Entries == [key : Keys, value : Seq(Ids)]

Maps == [buckets : [Ring -> {Empty} \cup 1..MaxSize], entries : Seq(Entries)]

Used(m) == {b \in Ring : m.buckets[b] # Empty}

Home(m, b) == Hash[KeyAt(m, b)]

(* The buckets refer to the entries, one to each. *)
Dense(m) ==
  /\ Len(m.entries) <= MaxSize
  /\ \A b \in Used(m) : m.buckets[b] \in 1..Len(m.entries)
  /\ \A b, c \in Used(m) : m.buckets[b] = m.buckets[c] => b = c
  /\ \A d \in 1..Len(m.entries) : \E b \in Used(m) : m.buckets[b] = d

DistinctKeys(m) ==
  \A d, e \in 1..Len(m.entries) : m.entries[d].key = m.entries[e].key => d = e

(* A key's probes meet no empty bucket before the key. *)
Chained(m) ==
  \A b \in Used(m), x \in Ring : Dist(Home(m, b), x) < Dist(Home(m, b), b) => x \in Used(m)

(* No probe sequence goes from the bucket before w to w: keys were put in  *)
(* one after the other, and the last to find an empty bucket ends there.   *)
Uncrossed(m, w) == \A b \in Used(m) : Dist(w, Home(m, b)) <= Dist(w, b)

MapOK(m) ==
  /\ m \in Maps /\ Dense(m) /\ DistinctKeys(m) /\ Chained(m)
  /\ \E w \in Ring : Uncrossed(m, w)

(* What a used bucket refers to. *)
LEMMA BucketTypes ==
  ASSUME NEW m \in Maps, Dense(m)
  PROVE  /\ m.entries \in Seq(Entries) /\ Len(m.entries) \in Nat
         /\ m.buckets \in [Ring -> {Empty} \cup 1..MaxSize]
         /\ \A d \in 1..Len(m.entries) : m.entries[d] \in Entries /\ m.entries[d].key \in Keys
         /\ \A b \in Used(m) : /\ b \in Ring /\ m.buckets[b] \in 1..Len(m.entries)
                               /\ KeyAt(m, b) \in Keys /\ Home(m, b) \in Ring
<1>1. m.entries \in Seq(Entries) /\ Len(m.entries) \in Nat
      /\ m.buckets \in [Ring -> {Empty} \cup 1..MaxSize]
  BY DEF Maps
<1>2. \A d \in 1..Len(m.entries) : m.entries[d] \in Entries
  BY <1>1
<1>3. \A d \in 1..Len(m.entries) : m.entries[d].key \in Keys
  BY <1>2 DEF Entries
<1>4. \A b \in Used(m) : b \in Ring /\ m.buckets[b] \in 1..Len(m.entries)
  BY DEF Dense, Used
<1>5. \A b \in Used(m) : KeyAt(m, b) \in Keys
  BY <1>3, <1>4 DEF KeyAt
<1>6. \A b \in Used(m) : Home(m, b) \in Ring
  BY <1>5, HashAssumption DEF Home, Ring
<1> QED BY <1>1, <1>2, <1>3, <1>4, <1>5, <1>6

(* A key is in one bucket. *)
LEMMA OneBucket ==
  ASSUME NEW m \in Maps, Dense(m), DistinctKeys(m), NEW b \in Used(m), NEW c \in Used(m),
         KeyAt(m, b) = KeyAt(m, c)
  PROVE  b = c
BY BucketTypes DEF Dense, DistinctKeys, KeyAt

(* The smallest of a set of probes. *)
LEMMA MinIs ==
  ASSUME NEW T, NEW x \in T, \A y \in T : x <= y, T \subseteq Nat
  PROVE  Min(T) = x
<1>1. Min(T) \in T /\ \A y \in T : Min(T) <= y
  BY DEF Min
<1>2. Min(T) <= x /\ x <= Min(T) /\ Min(T) \in Nat /\ x \in Nat
  BY <1>1
<1> QED BY <1>2

(* Ends, in terms of the ring. *)
LEMMA EndsIs ==
  ASSUME NEW m, NEW k
  PROVE  Ends(m, k) = {n \in Ring : m.buckets[Mod(Hash[k] + n)] = Empty
                                    \/ KeyAt(m, Mod(Hash[k] + n)) = k}
BY DEF Ends, Ring, Mod

(* findSlot_base() of a key that is there, *)
LEMMA SlotOfKey ==
  ASSUME NEW m, MapOK(m), NEW k \in Keys, NEW b \in Used(m), KeyAt(m, b) = k
  PROVE  FindSlot(m, k) = b
<1>1. m \in Maps /\ Dense(m) /\ DistinctKeys(m) /\ Chained(m)
  BY DEF MapOK
<1>2. PICK h \in Ring : h = Hash[k] /\ h = Home(m, b)
  BY HashAssumption DEF Home, Ring
<1>3. b \in Ring /\ m.buckets[b] # Empty
  BY DEF Used
<1>4. PICK d \in Ring : d = Dist(h, b) /\ Mod(h + d) = b
  BY <1>2, <1>3, DistIs
<1>5. d \in Ends(m, k)
  BY <1>2, <1>4, EndsIs
<1>6. ASSUME NEW y \in Ends(m, k)
      PROVE  d <= y
  <2>1. /\ y \in Ring
        /\ m.buckets[Mod(h + y)] = Empty \/ KeyAt(m, Mod(h + y)) = k
    BY <1>2, <1>6, EndsIs
  <2>2. PICK c \in Ring : c = Mod(h + y) /\ Dist(h, c) = y
    BY <1>2, <2>1, ProbeIs
  <2>3. CASE c \in Used(m)
    <3>1. KeyAt(m, c) = KeyAt(m, b)
      BY <2>1, <2>2, <2>3 DEF Used
    <3>2. c = b
      BY <1>1, <2>3, <3>1, OneBucket
    <3> QED BY <1>4, <2>2, <3>2 DEF Ring
  <2>4. CASE c \notin Used(m)
    <3>1. ~(Dist(h, c) < Dist(h, b))
      BY <1>1, <1>2, <2>2, <2>4 DEF Chained
    <3> QED BY <1>4, <2>1, <2>2, <3>1 DEF Ring
  <2> QED BY <2>3, <2>4
<1>7. Ends(m, k) \subseteq Nat
  BY EndsIs DEF Ring
<1>8. Min(Ends(m, k)) = d
  BY <1>5, <1>6, <1>7, MinIs
<1>9. FindSlot(m, k) = Mod(Hash[k] + Min(Ends(m, k)))
  BY <1>5 DEF FindSlot, Mod
<1> QED BY <1>2, <1>4, <1>8, <1>9

(* and of one that is not: an empty bucket that its probes reach, if there *)
(* is one.                                                                 *)
LEMMA SlotOfNone ==
  ASSUME NEW m, MapOK(m), NEW k \in Keys, \A b \in Used(m) : KeyAt(m, b) # k
  PROVE  \/ FindSlot(m, k) = Empty /\ Used(m) = Ring
         \/ /\ FindSlot(m, k) \in Ring \ Used(m)
            /\ \A x \in Ring : Dist(Hash[k], x) < Dist(Hash[k], FindSlot(m, k)) => x \in Used(m)
<1>1. PICK h \in Ring : h = Hash[k]
  BY HashAssumption DEF Ring
<1>2. \A n \in Ring : n \in Ends(m, k) <=> Mod(h + n) \notin Used(m)
  <2> TAKE n \in Ring
  <2>1. Mod(h + n) \in Ring
    BY <1>1, ProbeIs
  <2> QED BY <1>1, <2>1, EndsIs DEF Used
<1>3. Ends(m, k) \subseteq Ring
  BY EndsIs
<1>4. CASE Ends(m, k) = {}
  <2>1. \A b \in Ring : b \in Used(m)
    BY <1>1, <1>2, <1>4, DistIs
  <2> QED BY <1>4, <2>1 DEF FindSlot, Used
<1>5. CASE Ends(m, k) # {}
  <2>1. PICK d \in Ends(m, k) : \A y \in Ends(m, k) : d <= y
    BY <1>3, <1>5, Least DEF Ring
  <2>2. Min(Ends(m, k)) = d /\ d \in Ring
    BY <1>3, <2>1, MinIs DEF Ring
  <2>3. PICK b \in Ring : b = Mod(h + d) /\ Dist(h, b) = d
    BY <2>2, ProbeIs
  <2>4. FindSlot(m, k) = b
    BY <1>1, <1>5, <2>2, <2>3 DEF FindSlot, Mod
  <2>5. b \notin Used(m)
    BY <1>2, <2>1, <2>2, <2>3
  <2>6. ASSUME NEW x \in Ring, Dist(h, x) < Dist(h, b)
        PROVE  x \in Used(m)
    <3>1. Dist(h, x) \in Ring /\ Mod(h + Dist(h, x)) = x
      BY DistIs
    <3>2. Dist(h, x) \notin Ends(m, k)
      BY <2>1, <2>2, <2>3, <2>6, <3>1 DEF Ring
    <3> QED BY <1>2, <3>1, <3>2
  <2> QED BY <1>1, <2>4, <2>5, <2>6
<1> QED BY <1>4, <1>5

(* contains() and find() *)
LEMMA Lookup ==
  ASSUME NEW m, MapOK(m), NEW k \in Keys
  PROVE  /\ Has(m, k) <=> \E d \in 1..Len(m.entries) : m.entries[d].key = k
         /\ \A d \in 1..Len(m.entries) : m.entries[d].key = k =>
              Find(m, k) = m.entries[d].value /\ m.buckets[FindSlot(m, k)] = d
<1>1. m \in Maps /\ Dense(m)
  BY DEF MapOK
<1>2. ASSUME NEW d \in 1..Len(m.entries), m.entries[d].key = k
      PROVE  Has(m, k) /\ Find(m, k) = m.entries[d].value /\ m.buckets[FindSlot(m, k)] = d
  <2>1. PICK b \in Used(m) : m.buckets[b] = d
    BY <1>1 DEF Dense
  <2>2. KeyAt(m, b) = k
    BY <1>2, <2>1 DEF KeyAt
  <2>3. FindSlot(m, k) = b
    BY <2>2, SlotOfKey
  <2>4. b # Empty /\ m.buckets[b] # Empty
    BY SizeAssumption DEF Used, Ring, Empty
  <2>5. FindIndex(m, k) = b
    BY <2>3, <2>4 DEF FindIndex
  <2> QED BY <2>1, <2>3, <2>4, <2>5 DEF Has, Find
<1>3. ASSUME ~ \E d \in 1..Len(m.entries) : m.entries[d].key = k
      PROVE  ~Has(m, k)
  <2>1. \A b \in Used(m) : KeyAt(m, b) # k
    BY <1>1, <1>3, BucketTypes DEF KeyAt
  <2>2. FindSlot(m, k) = Empty \/ FindSlot(m, k) \in Ring \ Used(m)
    BY <2>1, SlotOfNone
  <2> QED BY <2>2 DEF Has, FindIndex, Used
<1> QED BY <1>2, <1>3

-----------------------------------------------------------------------------
(* insert()                                                                *)

(* The map holds what the function g says. *)
Agree(m, g) ==
  /\ DOMAIN g = {m.entries[d].key : d \in 1..Len(m.entries)}
  /\ \A d \in 1..Len(m.entries) : g[m.entries[d].key] = m.entries[d].value

(* The shape of a map depends on which key is in which bucket, not on      *)
(* where in the array its entry is.                                        *)
LEMMA SameShape ==
  ASSUME NEW m, NEW n, Used(n) = Used(m), \A b \in Used(m) : KeyAt(n, b) = KeyAt(m, b),
         Chained(m), NEW w \in Ring, Uncrossed(m, w)
  PROVE  Chained(n) /\ Uncrossed(n, w)
<1>1. \A b \in Used(m) : Home(n, b) = Home(m, b)
  BY DEF Home
<1> QED BY <1>1 DEF Chained, Uncrossed

(* An update. *)
LEMMA UpdateOK ==
  ASSUME NEW m, MapOK(m), NEW g, Agree(m, g), NEW k \in Keys, NEW v \in Seq(Ids),
         NEW d \in 1..Len(m.entries), m.entries[d].key = k
  PROVE  MapOK(Insert(m, k, v)) /\ Agree(Insert(m, k, v), With(g, k, v))
<1>1. m \in Maps /\ Dense(m) /\ DistinctKeys(m) /\ Chained(m)
  BY DEF MapOK
<1>2. PICK w \in Ring : Uncrossed(m, w)
  BY DEF MapOK
<1>3. PICK es : es = m.entries /\ es \in Seq(Entries)
  BY <1>1, BucketTypes
<1>4. PICK e : e = [es[d] EXCEPT !.value = v]
  OBVIOUS
<1>5. d \in 1..Len(es) /\ es[d] \in Entries /\ es[d].key = k
  BY <1>3
<1>6. e \in Entries /\ e.key = k /\ e.value = v
  BY <1>4, <1>5 DEF Entries
<1>7. PICK fs : fs = [es EXCEPT ![d] = e]
  OBVIOUS
<1>8. /\ fs \in Seq(Entries) /\ Len(fs) = Len(es) /\ Len(es) \in Nat
      /\ \A c \in 1..Len(es) : fs[c] = IF c = d THEN e ELSE es[c]
  BY <1>3, <1>5, <1>6, <1>7
<1>9. PICK n : n = [m EXCEPT !.entries = fs]
  OBVIOUS
<1>10. n \in Maps /\ n.buckets = m.buckets /\ n.entries = fs
  BY <1>1, <1>8, <1>9 DEF Maps
<1>11. Insert(m, k, v) = n
  <2>1. FindSlot(m, k) # Empty /\ m.buckets[FindSlot(m, k)] = d /\ d # Empty
    <3>1. Has(m, k) /\ m.buckets[FindSlot(m, k)] = d
      BY Lookup
    <3> QED BY <3>1, <1>5, <1>8 DEF Has, FindIndex, Empty
  <2>2. Insert(m, k, v) = [m EXCEPT !.entries[d].value = v]
    BY <2>1 DEF Insert
  <2> QED BY <1>3, <1>4, <1>7, <1>9, <2>2
<1>12. \A c \in 1..Len(es) : fs[c].key = es[c].key
  BY <1>5, <1>6, <1>8
<1>13. Used(n) = Used(m)
  BY <1>10 DEF Used
<1>14. Dense(n)
  BY <1>1, <1>3, <1>8, <1>10, <1>13 DEF Dense
<1>15. DistinctKeys(n)
  BY <1>1, <1>3, <1>8, <1>10, <1>12 DEF DistinctKeys
<1>16. \A b \in Used(m) : KeyAt(n, b) = KeyAt(m, b)
  BY <1>1, <1>3, <1>10, <1>12, BucketTypes DEF KeyAt
<1>17. Chained(n) /\ Uncrossed(n, w)
  BY <1>1, <1>2, <1>13, <1>16, SameShape
<1>18. MapOK(n)
  BY <1>10, <1>14, <1>15, <1>17 DEF MapOK
<1>19. Agree(n, With(g, k, v))
  <2>1. k \in DOMAIN g
    BY <1>3, <1>5 DEF Agree
  <2>2. DOMAIN With(g, k, v) = DOMAIN g
    BY <2>1 DEF With
  <2>3. {fs[c].key : c \in 1..Len(fs)} = {es[c].key : c \in 1..Len(es)}
    BY <1>8, <1>12
  <2>4. \A c \in 1..Len(es) : es[c].key = k => c = d
    BY <1>1, <1>3, <1>5 DEF DistinctKeys
  <2>5. \A c \in 1..Len(es) : es[c].key \in DOMAIN g /\ g[es[c].key] = es[c].value
    BY <1>3 DEF Agree
  <2>6. \A c \in 1..Len(fs) : With(g, k, v)[fs[c].key] = fs[c].value
    BY <1>5, <1>6, <1>8, <1>12, <2>1, <2>4, <2>5 DEF With
  <2>7. PICK f : f = With(g, k, v)
    OBVIOUS
  <2>8. DOMAIN f = {n.entries[c].key : c \in 1..Len(n.entries)}
    <3>1. DOMAIN g = {es[c].key : c \in 1..Len(es)}
      BY <1>3 DEF Agree
    <3>2. PICK ks : ks = DOMAIN g /\ ks = {fs[c].key : c \in 1..Len(fs)}
      BY <2>3, <3>1
    <3>3. {n.entries[c].key : c \in 1..Len(n.entries)} = ks
      BY <1>10, <3>2
    <3> QED BY <2>2, <2>7, <3>2, <3>3
  <2>9. \A c \in 1..Len(n.entries) : f[n.entries[c].key] = n.entries[c].value
    BY <1>10, <2>6, <2>7
  <2> QED BY <2>7, <2>8, <2>9 DEF Agree
<1> QED BY <1>11, <1>18, <1>19

(* A map that is not full has an empty bucket. *)
LEMMA RoomLeft ==
  ASSUME NEW m \in Maps, Dense(m), ~Full(m)
  PROVE  Used(m) # Ring
<1> SUFFICES ASSUME Used(m) = Ring
             PROVE  FALSE
  OBVIOUS
<1>1. PICK l \in Nat : l = Len(m.entries) /\ l < MaxSize
  BY SizeAssumption, BucketTypes DEF Dense, Full
<1>2. m.buckets \in [Ring -> 1..l]
  BY <1>1, BucketTypes
<1>3. IsFiniteSet(Ring) /\ Cardinality(Ring) = MaxSize
  <2>1. IsFiniteSet(0 .. MaxSize - 1) /\ Cardinality(0 .. MaxSize - 1) = MaxSize
    BY FS_Interval, SizeAssumption
  <2> QED BY <2>1 DEF Ring
<1>4. IsFiniteSet(1..l) /\ Cardinality(1..l) = l
  <2>1. 1 \in Int /\ l \in Int
    BY <1>1
  <2>2. IsFiniteSet(1..l) /\ Cardinality(1..l) = IF 1 > l THEN 0 ELSE l - 1 + 1
    BY <2>1, FS_Interval
  <2> QED BY <1>1, <2>2
<1>5. Cardinality(1..l) < Cardinality(Ring)
  BY <1>1, <1>3, <1>4
<1>6. \E b, c \in Ring : b # c /\ m.buckets[b] = m.buckets[c]
  BY <1>2, <1>3, <1>4, <1>5, FS_PigeonHole
<1> QED BY <1>6 DEF Dense

(* A new entry. *)
LEMMA NewOK ==
  ASSUME NEW m, MapOK(m), NEW g, Agree(m, g), NEW k \in Keys, NEW v \in Seq(Ids),
         k \notin DOMAIN g, ~Full(m)
  PROVE  MapOK(Insert(m, k, v)) /\ Agree(Insert(m, k, v), With(g, k, v))
<1>1. m \in Maps /\ Dense(m) /\ DistinctKeys(m) /\ Chained(m)
  BY DEF MapOK
<1>2. PICK es, l : /\ es = m.entries /\ es \in Seq(Entries)
                   /\ l = Len(es) /\ l \in Nat /\ l < MaxSize
  BY <1>1, BucketTypes, SizeAssumption DEF Full, Dense
<1>3. \A c \in 1..l : es[c] \in Entries /\ es[c].key \in Keys /\ es[c].key # k
  BY <1>1, <1>2, BucketTypes DEF Agree
<1>4. \A b \in Used(m) : KeyAt(m, b) # k
  BY <1>1, <1>2, <1>3, BucketTypes DEF KeyAt
<1>5. PICK b : /\ b = FindSlot(m, k) /\ b \in Ring /\ b \notin Used(m)
               /\ \A x \in Ring : Dist(Hash[k], x) < Dist(Hash[k], b) => x \in Used(m)
  <2>1. Used(m) # Ring
    BY <1>1, RoomLeft
  <2> QED BY <1>4, <2>1, SlotOfNone
<1>6. PICK e : e = [key |-> k, value |-> v]
  OBVIOUS
<1>7. e \in Entries /\ e.key = k /\ e.value = v
  BY <1>6 DEF Entries
<1>8. PICK fs : fs = Append(es, e)
  OBVIOUS
<1>9. /\ fs \in Seq(Entries) /\ Len(fs) = l + 1 /\ fs[l + 1] = e
      /\ \A c \in 1..l : fs[c] = es[c]
  BY <1>2, <1>7, <1>8
<1>10. \A c \in 1..l + 1 : c \in 1..l \/ c = l + 1
  BY <1>2
<1>11. PICK bs : bs = [m.buckets EXCEPT ![b] = l + 1]
  OBVIOUS
<1>12. /\ bs \in [Ring -> {Empty} \cup 1..MaxSize]
       /\ \A x \in Ring : bs[x] = IF x = b THEN l + 1 ELSE m.buckets[x]
  <2>1. m.buckets \in [Ring -> {Empty} \cup 1..MaxSize]
    BY <1>1, BucketTypes
  <2>2. l + 1 \in 1..MaxSize
    BY <1>2, SizeAssumption
  <2> QED BY <1>5, <1>11, <2>1, <2>2
<1>13. PICK n : n = [buckets |-> bs, entries |-> fs]
  OBVIOUS
<1>14. n \in Maps /\ n.buckets = bs /\ n.entries = fs
  BY <1>9, <1>12, <1>13 DEF Maps
<1>15. Insert(m, k, v) = n
  <2>1. b # Empty /\ m.buckets[b] = Empty
    BY <1>5, SizeAssumption DEF Ring, Empty, Used
  <2> QED BY <1>2, <1>5, <1>6, <1>8, <1>11, <1>13, <2>1 DEF Insert
<1>16. Used(n) = Used(m) \cup {b}
  <2>1. l + 1 # Empty
    BY <1>2 DEF Empty
  <2> QED BY <1>5, <1>12, <1>14, <2>1 DEF Used
<1>17. \A x \in Used(m) : x # b /\ bs[x] = m.buckets[x] /\ bs[x] \in 1..l
  BY <1>1, <1>2, <1>5, <1>12, BucketTypes
<1>18. bs[b] = l + 1
  BY <1>5, <1>12
<1>19. Dense(n)
  <2>1. \A x \in Used(n) : bs[x] \in 1..l + 1
    BY <1>2, <1>16, <1>17, <1>18
  <2>2. ASSUME NEW x \in Used(n), NEW y \in Used(n), bs[x] = bs[y]
        PROVE  x = y
    <3>1. x \in Used(m) /\ y \in Used(m) => x = y
      BY <1>1, <1>17, <2>2 DEF Dense
    <3>2. l + 1 \notin 1..l
      BY <1>2
    <3> QED BY <1>16, <1>17, <1>18, <2>2, <3>1, <3>2
  <2>3. \A d \in 1..l : \E x \in Used(n) : bs[x] = d
    BY <1>1, <1>2, <1>16, <1>17 DEF Dense
  <2>4. \A d \in 1..l + 1 : \E x \in Used(n) : bs[x] = d
    BY <1>10, <1>16, <1>18, <2>3
  <2>5. l + 1 <= MaxSize
    BY <1>2, SizeAssumption
  <2> QED BY <1>9, <1>14, <2>1, <2>2, <2>4, <2>5 DEF Dense
<1>20. DistinctKeys(n)
  <2> SUFFICES ASSUME NEW c \in 1..l + 1, NEW d \in 1..l + 1, fs[c].key = fs[d].key
               PROVE  c = d
    BY <1>9, <1>14 DEF DistinctKeys
  <2>1. c \in 1..l /\ d \in 1..l => c = d
    BY <1>1, <1>2, <1>9 DEF DistinctKeys
  <2> QED BY <1>3, <1>7, <1>9, <1>10, <2>1
<1>21. \A x \in Used(m) : KeyAt(n, x) = KeyAt(m, x)
  BY <1>2, <1>9, <1>14, <1>17 DEF KeyAt
<1>22. KeyAt(n, b) = k
  BY <1>7, <1>9, <1>14, <1>18 DEF KeyAt
<1>23. Chained(n)
  BY <1>1, <1>5, <1>16, <1>21, <1>22 DEF Chained, Home
<1>24. \E w \in Ring : Uncrossed(n, w)
  <2>1. PICK w \in Ring : w = IF b = MaxSize - 1 THEN 0 ELSE b + 1
    BY <1>5, SizeAssumption DEF Ring
  <2>2. ASSUME NEW h \in Ring, NEW c \in Ring, ~(Dist(h, b) < Dist(h, c))
        PROVE  Dist(w, h) <= Dist(w, c)
    <3>1. CASE b = MaxSize - 1
      BY <1>5, <2>1, <2>2, <3>1, SizeAssumption DEF Ring, Dist
    <3>2. CASE b # MaxSize - 1
      BY <1>5, <2>1, <2>2, <3>2, SizeAssumption DEF Ring, Dist
    <3> QED BY <3>1, <3>2
  <2>3. ASSUME NEW c \in Used(m)
        PROVE  Dist(w, Home(n, c)) <= Dist(w, c)
    <3>1. Home(n, c) = Home(m, c) /\ Home(m, c) \in Ring /\ c \in Ring
      BY <1>1, <1>21, BucketTypes DEF Home
    <3>2. ~(Dist(Home(m, c), b) < Dist(Home(m, c), c))
      BY <1>1, <1>5 DEF Chained
    <3> QED BY <2>2, <3>1, <3>2
  <2>4. Dist(w, Home(n, b)) <= Dist(w, b)
    <3>1. Home(n, b) \in Ring
      BY <1>22, HashAssumption DEF Home, Ring
    <3>2. ~(Dist(Home(n, b), b) < Dist(Home(n, b), b))
      <4>1. PICK h \in Ring : h = Home(n, b)
        BY <3>1
      <4>2. Dist(h, b) \in Nat
        BY <1>5, DistIs DEF Ring
      <4> QED BY <4>1, <4>2
    <3> QED BY <1>5, <2>2, <3>1, <3>2
  <2>5. Uncrossed(n, w)
    BY <1>16, <2>3, <2>4 DEF Uncrossed
  <2> QED BY <2>5
<1>25. MapOK(n)
  BY <1>14, <1>19, <1>20, <1>23, <1>24 DEF MapOK
<1>26. Agree(n, With(g, k, v))
  <2>1. DOMAIN g = {es[c].key : c \in 1..l} /\ \A c \in 1..l : g[es[c].key] = es[c].value
    BY <1>2 DEF Agree
  <2>2. DOMAIN With(g, k, v) = DOMAIN g \cup {k}
    BY DEF With
  <2>3. {fs[c].key : c \in 1..l + 1} = {es[c].key : c \in 1..l} \cup {k}
    <3>1. \A c \in 1..l : c \in 1..l + 1 /\ fs[c].key = es[c].key
      BY <1>2, <1>9
    <3>2. l + 1 \in 1..l + 1 /\ fs[l + 1].key = k
      BY <1>2, <1>7, <1>9
    <3> QED BY <1>10, <3>1, <3>2
  <2>4. \A c \in 1..l : With(g, k, v)[fs[c].key] = fs[c].value
    BY <1>3, <1>9, <2>1 DEF With
  <2>5. With(g, k, v)[fs[l + 1].key] = fs[l + 1].value
    BY <1>7, <1>9 DEF With
  <2>6. PICK f : f = With(g, k, v)
    OBVIOUS
  <2>7. DOMAIN f = {n.entries[c].key : c \in 1..Len(n.entries)}
    <3>1. PICK ks : ks = {fs[c].key : c \in 1..l + 1} /\ ks = DOMAIN g \cup {k}
      BY <2>1, <2>3
    <3>2. {n.entries[c].key : c \in 1..Len(n.entries)} = ks
      BY <1>9, <1>14, <3>1
    <3> QED BY <2>2, <2>6, <3>1, <3>2
  <2>8. \A c \in 1..Len(n.entries) : f[n.entries[c].key] = n.entries[c].value
    BY <1>9, <1>10, <1>14, <2>4, <2>5, <2>6
  <2> QED BY <2>6, <2>7, <2>8 DEF Agree
<1> QED BY <1>15, <1>25, <1>26

(* insert() of a key that is there, or into a map with room. *)
LEMMA InsertOK ==
  ASSUME NEW m, MapOK(m), NEW g, Agree(m, g), NEW k \in Keys, NEW v \in Seq(Ids),
         k \in DOMAIN g \/ ~Full(m)
  PROVE  MapOK(Insert(m, k, v)) /\ Agree(Insert(m, k, v), With(g, k, v))
<1>1. CASE k \in DOMAIN g
  <2>1. PICK d \in 1..Len(m.entries) : m.entries[d].key = k
    BY <1>1 DEF Agree
  <2> QED BY <2>1, UpdateOK
<1>2. CASE k \notin DOMAIN g
  BY <1>2, NewOK
<1> QED BY <1>1, <1>2

-----------------------------------------------------------------------------
(* erase()                                                                 *)

HomeOf(es, d) == Hash[es[d].key]

Filled(u) == {x \in Ring : u[x] # Empty}

(* Its probes from home to x cross y. *)
Crosses(w, h, x, y) == Dist(w, h) <= Dist(w, y) /\ Dist(w, y) < Dist(w, x)

(* remove_bucket_and_rehash() at its loop: the buckets u have lost the     *)
(* entry at place, and a hole is all there is in a probe sequence's way.   *)
(* Counted from w, the loop has come to bucket s, and the keys that cross  *)
(* the hole are still ahead.                                               *)
Shifted(es, place, w, s, u, hole, on) ==
  /\ u \in [Ring -> {Empty} \cup 1..Len(es)] /\ hole \in Ring /\ on \in BOOLEAN
  /\ \A x, y \in Filled(u) : u[x] = u[y] => x = y
  /\ \A d \in 1..Len(es) : d # place <=> \E x \in Filled(u) : u[x] = d
  /\ u[hole] = Empty
  /\ \A x \in Filled(u) : Dist(w, HomeOf(es, u[x])) <= Dist(w, x)
  /\ \A x \in Filled(u), y \in Ring : Crosses(w, HomeOf(es, u[x]), x, y) => y = hole \/ y \in Filled(u)
  /\ \A x \in Filled(u) : Crosses(w, HomeOf(es, u[x]), x, hole) => on /\ s < Dist(w, x)
  /\ on => Dist(w, hole) <= s /\ s < Dist(w, hole) + MaxSize

(* What a bucket holds while the loop runs, and where it is. *)
LEMMA FilledTypes ==
  ASSUME NEW es \in Seq(Entries), NEW u \in [Ring -> {Empty} \cup 1..Len(es)], NEW w \in Ring
  PROVE  /\ \A x \in Filled(u) : x \in Ring /\ u[x] \in 1..Len(es) /\ HomeOf(es, u[x]) \in Ring
         /\ \A x \in Ring : Dist(w, x) \in Ring
         /\ \A x, y \in Ring : Dist(w, x) = Dist(w, y) => x = y
         /\ \A x \in Ring \ Filled(u) : u[x] = Empty
<1>1. \A x \in Filled(u) : x \in Ring /\ u[x] \in 1..Len(es)
  BY DEF Filled
<1>2. \A d \in 1..Len(es) : es[d] \in Entries
  OBVIOUS
<1>3. \A d \in 1..Len(es) : es[d].key \in Keys
  BY <1>2 DEF Entries
<1>4. \A x \in Filled(u) : HomeOf(es, u[x]) \in Ring
  BY <1>1, <1>3, HashAssumption DEF HomeOf, Ring
<1>5. \A x \in Ring : Dist(w, x) \in Ring
  BY DistIs
<1>6. \A x, y \in Ring : Dist(w, x) = Dist(w, y) => x = y
  BY DistIs
<1> QED BY <1>1, <1>4, <1>5, <1>6 DEF Filled

(* No key crosses the hole once the loop has come to the end of the line. *)
LEMMA NoneAhead ==
  ASSUME NEW es \in Seq(Entries), NEW place, NEW w \in Ring, NEW s \in Nat, NEW u, NEW hole, NEW on,
         Shifted(es, place, w, s, u, hole, on), MaxSize <= s + 1,
         NEW x \in Filled(u)
  PROVE  ~Crosses(w, HomeOf(es, u[x]), x, hole)
<1>1. u \in [Ring -> {Empty} \cup 1..Len(es)]
  BY DEF Shifted
<1>2. Dist(w, x) \in Ring
  BY <1>1, FilledTypes
<1>3. ~(s < Dist(w, x))
  BY <1>2, SizeAssumption DEF Ring
<1> QED BY <1>3 DEF Shifted

(* An empty bucket: the loop is over. *)
LEMMA ShiftStops ==
  ASSUME NEW es \in Seq(Entries), NEW place, NEW w \in Ring, NEW s \in Nat, NEW u, NEW hole, NEW on,
         Shifted(es, place, w, s, u, hole, on),
         NEW next, ~on \/ (AfterIs(w, s, next) /\ u[next] = Empty), NEW off \in BOOLEAN, ~off
  PROVE  Shifted(es, place, w, s + 1, u, hole, off)
<1>1. u \in [Ring -> {Empty} \cup 1..Len(es)] /\ hole \in Ring
  BY DEF Shifted
<1>2. ASSUME NEW x \in Filled(u), Crosses(w, HomeOf(es, u[x]), x, hole)
      PROVE  FALSE
  <2>1. on /\ s < Dist(w, x) /\ Dist(w, hole) <= s
    BY <1>2 DEF Shifted
  <2>2. PICK h \in Ring : h = HomeOf(es, u[x])
    BY <1>1, FilledTypes
  <2>3. /\ x \in Ring /\ next \in Ring /\ next \notin Filled(u)
        /\ Dist(w, x) \in Ring /\ Dist(w, hole) \in Ring /\ Dist(w, h) \in Ring
    BY <1>1, <2>1, <2>2, FilledTypes DEF AfterIs, Filled
  <2>4. s + 1 < MaxSize /\ Dist(w, next) = s + 1
    BY <1>2, <2>1, <2>3, NoneAhead, SizeAssumption DEF AfterIs, Ring
  <2>5. Dist(w, x) # Dist(w, next)
    BY <1>1, <2>3, FilledTypes
  <2>6. Crosses(w, h, x, next) /\ next # hole
    BY <1>2, <2>1, <2>2, <2>3, <2>4, <2>5 DEF Crosses, Ring
  <2> QED BY <2>2, <2>3, <2>6 DEF Shifted
<1> QED BY <1>2 DEF Shifted

(* Whether the key at next is misplaced: it crosses the hole. *)
LEMMA MisplacedCrosses ==
  ASSUME NEW es \in Seq(Entries), NEW place, NEW w \in Ring, NEW s \in Nat, NEW u, NEW hole, NEW on,
         Shifted(es, place, w, s, u, hole, on), NEW next \in Filled(u)
  PROVE  Misplaced(HomeOf(es, u[next]), hole, next) <=> Crosses(w, HomeOf(es, u[next]), next, hole)
<1>1. u \in [Ring -> {Empty} \cup 1..Len(es)] /\ hole \in Ring
  BY DEF Shifted
<1>2. PICK h \in Ring : h = HomeOf(es, u[next]) /\ Dist(w, h) <= Dist(w, next)
  BY <1>1, FilledTypes DEF Shifted
<1>3. next \in Ring
  BY DEF Filled
<1>4. Misplaced(h, hole, next) <=> Dist(h, hole) < Dist(h, next)
  BY <1>1, <1>3, MisplacedIs
<1>5. Dist(h, hole) < Dist(h, next) <=> Crosses(w, h, next, hole)
  BY <1>1, <1>2, <1>3, OnLine DEF Crosses
<1> QED BY <1>2, <1>4, <1>5

(* A key that is not misplaced stays. *)
LEMMA ShiftKeeps ==
  ASSUME NEW es \in Seq(Entries), NEW place, NEW w \in Ring, NEW s \in Nat,
         NEW u, NEW hole, NEW on \in BOOLEAN, on,
         Shifted(es, place, w, s, u, hole, on),
         NEW next \in Filled(u), AfterIs(w, s, next), ~Misplaced(HomeOf(es, u[next]), hole, next)
  PROVE  Shifted(es, place, w, s + 1, u, hole, on)
<1>1. u \in [Ring -> {Empty} \cup 1..Len(es)] /\ hole \in Ring /\ u[hole] = Empty
  BY DEF Shifted
<1>2. ~Crosses(w, HomeOf(es, u[next]), next, hole)
  BY MisplacedCrosses
<1>3. /\ next \in Ring /\ next # hole /\ Dist(w, next) # Dist(w, hole)
      /\ Dist(w, hole) \in Ring /\ Dist(w, next) \in Ring
  BY <1>1, FilledTypes DEF Filled
<1>4. Dist(w, hole) <= s /\ s < Dist(w, hole) + MaxSize
  BY DEF Shifted
<1>5. ASSUME NEW x \in Filled(u), Crosses(w, HomeOf(es, u[x]), x, hole)
      PROVE  s + 1 < Dist(w, x)
  <2>1. s < Dist(w, x) /\ x # next
    BY <1>2, <1>5 DEF Shifted
  <2>2. x \in Ring /\ Dist(w, x) \in Ring /\ Dist(w, x) # Dist(w, next)
    BY <1>1, <1>3, <2>1, FilledTypes
  <2>3. ~(MaxSize <= s + 1)
    BY <1>5, NoneAhead
  <2> QED BY <2>1, <2>2, <2>3, SizeAssumption DEF AfterIs, Ring
<1>6. Dist(w, hole) <= s + 1 /\ s + 1 < Dist(w, hole) + MaxSize
  BY <1>3, <1>4, SizeAssumption DEF AfterIs, Ring
<1> QED BY <1>5, <1>6 DEF Shifted

(* A misplaced key moves to the hole, and leaves one. *)
LEMMA ShiftMoves ==
  ASSUME NEW es \in Seq(Entries), NEW place, NEW w \in Ring, NEW s \in Nat,
         NEW u, NEW hole, NEW on \in BOOLEAN, on,
         Shifted(es, place, w, s, u, hole, on),
         NEW next \in Filled(u), AfterIs(w, s, next), Misplaced(HomeOf(es, u[next]), hole, next),
         NEW v, v = [u EXCEPT ![hole] = u[next], ![next] = Empty]
  PROVE  Shifted(es, place, w, s + 1, v, next, on)
<1>1. u \in [Ring -> {Empty} \cup 1..Len(es)] /\ hole \in Ring /\ u[hole] = Empty
  BY DEF Shifted
<1>2. Crosses(w, HomeOf(es, u[next]), next, hole)
  BY MisplacedCrosses
<1>3. /\ next \in Ring /\ next # hole /\ u[next] \in 1..Len(es) /\ u[next] # Empty
      /\ Dist(w, hole) \in Ring /\ Dist(w, next) \in Ring
  BY <1>1, FilledTypes DEF Filled
<1>4. Dist(w, next) = s + 1
  <2>1. ~(MaxSize <= s + 1)
    BY <1>2, NoneAhead
  <2> QED BY <2>1, SizeAssumption DEF AfterIs
<1>5. /\ v \in [Ring -> {Empty} \cup 1..Len(es)] /\ v[next] = Empty /\ v[hole] = u[next]
      /\ \A x \in Ring \ {hole, next} : v[x] = u[x]
  BY <1>1, <1>3
<1>6. Filled(v) = (Filled(u) \ {next}) \cup {hole}
  BY <1>1, <1>3, <1>5 DEF Filled
<1>7. hole \notin Filled(u)
  BY <1>1 DEF Filled
<1>8. \A x \in Filled(v) : x # hole => x \in Filled(u) /\ x # next /\ v[x] = u[x]
  <2>1. \A x \in Filled(u) : x \in Ring
    BY DEF Filled
  <2> QED BY <1>5, <1>6, <1>7, <2>1
<1>9. \A x \in Filled(v) : \E y \in Filled(u) : v[x] = u[y] /\ y = IF x = hole THEN next ELSE x
  BY <1>5, <1>8
<1>10. \A x, y \in Filled(v) : v[x] = v[y] => x = y
  <2>1. \A x, y \in Filled(u) : u[x] = u[y] => x = y
    BY DEF Shifted
  <2>2. \A x \in Filled(v) : x # hole => v[x] # v[hole]
    BY <1>5, <1>8, <2>1
  <2> QED BY <1>8, <2>1, <2>2
<1>11. ASSUME NEW d \in 1..Len(es)
       PROVE  d # place <=> \E x \in Filled(v) : v[x] = d
  <2>1. d # place <=> \E x \in Filled(u) : u[x] = d
    BY DEF Shifted
  <2>2. ASSUME NEW x \in Filled(u), u[x] = d
        PROVE  \E y \in Filled(v) : v[y] = d
    <3>1. CASE x = next
      BY <1>5, <1>6, <2>2, <3>1
    <3>2. CASE x # next
      <4>1. x \in Ring \ {hole, next}
        BY <1>7, <3>2 DEF Filled
      <4> QED BY <1>5, <1>6, <2>2, <3>2, <4>1
    <3> QED BY <3>1, <3>2
  <2> QED BY <1>9, <2>1, <2>2
<1>12. \A x \in Filled(v) : Dist(w, HomeOf(es, v[x])) <= Dist(w, x)
  <2>1. \A x \in Filled(u) : Dist(w, HomeOf(es, u[x])) <= Dist(w, x)
    BY DEF Shifted
  <2> QED BY <1>2, <1>5, <1>8, <2>1 DEF Crosses
<1>13. ASSUME NEW x \in Filled(v), NEW y \in Ring, Crosses(w, HomeOf(es, v[x]), x, y), y # next
       PROVE  y \in Filled(v)
  <2>1. \A z \in Filled(u) : Crosses(w, HomeOf(es, u[z]), z, y) => y = hole \/ y \in Filled(u)
    BY DEF Shifted
  <2>2. CASE x = hole
    <3>1. Dist(w, y) \in Ring
      BY <1>1, FilledTypes
    <3>2. Crosses(w, HomeOf(es, u[next]), next, y)
      BY <1>2, <1>3, <1>5, <1>13, <2>2, <3>1 DEF Crosses, Ring
    <3> QED BY <1>6, <1>13, <2>1, <3>2
  <2>3. CASE x # hole
    BY <1>6, <1>8, <1>13, <2>1, <2>3
  <2> QED BY <2>2, <2>3
<1>14. ASSUME NEW x \in Filled(v), Crosses(w, HomeOf(es, v[x]), x, next)
       PROVE  s + 1 < Dist(w, x)
  BY <1>4, <1>14 DEF Crosses
<1>15. Dist(w, next) <= s + 1 /\ s + 1 < Dist(w, next) + MaxSize
  BY <1>4, SizeAssumption
<1> QED BY <1>3, <1>5, <1>10, <1>11, <1>12, <1>13, <1>14, <1>15 DEF Shifted

(* One turn of the loop, at bucket next. *)
Visit(es, r, next) ==
  LET dense == r.buckets[next]
  IN  IF ~r.on \/ dense = Empty THEN [r EXCEPT !.on = FALSE]
      ELSE IF Misplaced(Hash[es[dense].key], r.hole, next)
      THEN [r EXCEPT !.buckets = [@ EXCEPT ![r.hole] = dense, ![next] = Empty], !.hole = next]
      ELSE r

Shifts(n) == [buckets : [Ring -> {Empty} \cup 1..n], hole : Ring, on : BOOLEAN]

(* A turn of the loop keeps the loop invariant. *)
LEMMA VisitShifts ==
  ASSUME NEW es \in Seq(Entries), NEW place, NEW w \in Ring, NEW s \in Nat,
         NEW r \in Shifts(Len(es)), Shifted(es, place, w, s, r.buckets, r.hole, r.on),
         NEW next, AfterIs(w, s, next), NEW q, q = Visit(es, r, next)
  PROVE  q \in Shifts(Len(es)) /\ Shifted(es, place, w, s + 1, q.buckets, q.hole, q.on)
<1>1. PICK u, hole, on : u = r.buckets /\ hole = r.hole /\ on = r.on
                         /\ Shifted(es, place, w, s, u, hole, on)
  OBVIOUS
<1>2. r = [buckets |-> u, hole |-> hole, on |-> on] /\ next \in Ring
      /\ u \in [Ring -> {Empty} \cup 1..Len(es)] /\ hole \in Ring /\ on \in BOOLEAN
  BY <1>1 DEF Shifts, AfterIs
<1>3. CASE ~on \/ u[next] = Empty
  <2>1. PICK off \in BOOLEAN : ~off
    OBVIOUS
  <2>2. q = [buckets |-> u, hole |-> hole, on |-> off]
    BY <1>1, <1>2, <1>3, <2>1 DEF Visit
  <2>3. Shifted(es, place, w, s + 1, u, hole, off)
    BY <1>1, <1>3, <2>1, ShiftStops
  <2> QED BY <1>2, <2>1, <2>2, <2>3 DEF Shifts
<1>4. CASE on /\ u[next] # Empty /\ Misplaced(HomeOf(es, u[next]), hole, next)
  <2>1. PICK v : v = [u EXCEPT ![hole] = u[next], ![next] = Empty]
    OBVIOUS
  <2>2. q = [buckets |-> v, hole |-> next, on |-> on]
    BY <1>1, <1>2, <1>4, <2>1 DEF Visit, HomeOf
  <2>3. next \in Filled(u)
    BY <1>2, <1>4 DEF Filled
  <2>4. Shifted(es, place, w, s + 1, v, next, on)
    BY <1>1, <1>2, <1>4, <2>1, <2>3, ShiftMoves
  <2>5. v \in [Ring -> {Empty} \cup 1..Len(es)]
    BY <2>4 DEF Shifted
  <2> QED BY <1>2, <2>2, <2>4, <2>5 DEF Shifts
<1>5. CASE on /\ u[next] # Empty /\ ~Misplaced(HomeOf(es, u[next]), hole, next)
  <2>1. q = [buckets |-> u, hole |-> hole, on |-> on]
    BY <1>1, <1>2, <1>5 DEF Visit, HomeOf
  <2>2. next \in Filled(u)
    BY <1>2, <1>5 DEF Filled
  <2>3. Shifted(es, place, w, s + 1, u, hole, on)
    BY <1>1, <1>2, <1>5, <2>2, ShiftKeeps
  <2> QED BY <1>2, <2>1, <2>3 DEF Shifts
<1> QED BY <1>3, <1>4, <1>5

(* The loop, as a function of its turns. *)
Walk(m, b, f, i) ==
  IF i = 0 THEN [buckets |-> [m.buckets EXCEPT ![b] = Empty], hole |-> b, on |-> TRUE]
  ELSE Visit(m.entries, f[i - 1], Mod(b + i))

(* The recursion in RemoveBucketAndRehash has a solution. *)
LEMMA WalkExists ==
  ASSUME NEW m, NEW b, NEW l \in Nat
  PROVE  \E f : f = [p \in 0..l |-> Walk(m, b, f, p)]
<1> DEFINE T == {n \in Nat : \E f : f = [p \in 0..n |-> Walk(m, b, f, p)]}
<1>1. 0 \in T
  <2>1. PICK f : f = [p \in 0..0 |-> Walk(m, b, b, 0)]
    OBVIOUS
  <2>2. \A p \in 0..0 : Walk(m, b, b, 0) = Walk(m, b, f, p)
    BY DEF Walk
  <2>3. f = [p \in 0..0 |-> Walk(m, b, f, p)]
    BY <2>1, <2>2
  <2> QED BY <2>3
<1>2. ASSUME NEW n \in Nat, n \in T
      PROVE  n + 1 \in T
  <2>1. PICK f : f = [p \in 0..n |-> Walk(m, b, f, p)]
    BY <1>2
  <2>2. PICK g : g = [p \in 0..n + 1 |-> IF p <= n THEN f[p] ELSE Walk(m, b, f, p)]
    OBVIOUS
  <2>3. \A p \in 0..n : g[p] = f[p] /\ f[p] = Walk(m, b, f, p)
    <3>1. \A p \in 0..n : f[p] = Walk(m, b, f, p)
      BY <2>1, Zenon
    <3>2. \A p \in 0..n : g[p] = f[p]
      BY <2>2
    <3> QED BY <3>1, <3>2
  <2>4. \A p \in 0..n + 1 : Walk(m, b, g, p) = Walk(m, b, f, p)
    <3> TAKE p \in 0..n + 1
    <3>1. p # 0 => g[p - 1] = f[p - 1]
      BY <2>3
    <3> QED BY <3>1 DEF Walk
  <2>5. \A p \in 0..n + 1 : g[p] = Walk(m, b, g, p)
    <3> TAKE p \in 0..n + 1
    <3>1. CASE p <= n
      BY <2>3, <2>4, <3>1
    <3>2. CASE p > n
      BY <2>2, <2>4, <3>2
    <3> QED BY <3>1, <3>2
  <2>6. g = [p \in 0..n + 1 |-> Walk(m, b, g, p)]
    BY <2>2, <2>5
  <2> QED BY <2>6
<1> HIDE DEF T
<1>3. \A p \in 0..l : p \in T
  BY <1>1, <1>2, UpTo
<1>4. l \in T
  BY <1>3
<1> QED BY <1>4 DEF T

(* remove_bucket_and_rehash(): the entry leaves, the others keep their     *)
(* place in their probe sequences.                                         *)
LEMMA RehashOK ==
  ASSUME NEW m, MapOK(m), NEW w \in Ring, Uncrossed(m, w), NEW b \in Used(m),
         NEW u, u = RemoveBucketAndRehash(m, b)
  PROVE  /\ u \in [Ring -> {Empty} \cup 1..Len(m.entries)]
         /\ \A x, y \in Filled(u) : u[x] = u[y] => x = y
         /\ \A d \in 1..Len(m.entries) : d # m.buckets[b] <=> \E x \in Filled(u) : u[x] = d
         /\ \A x \in Filled(u) : Dist(w, HomeOf(m.entries, u[x])) <= Dist(w, x)
         /\ \A x \in Filled(u), y \in Ring :
              Dist(HomeOf(m.entries, u[x]), y) < Dist(HomeOf(m.entries, u[x]), x) => y \in Filled(u)
<1>1. m \in Maps /\ Dense(m) /\ Chained(m)
  BY DEF MapOK
<1>2. PICK es, place : es = m.entries /\ es \in Seq(Entries) /\ place = m.buckets[b]
  BY <1>1, BucketTypes
<1>3. PICK l \in Nat : l = 2 * MaxSize
  BY SizeAssumption
<1>4. PICK f : f = [p \in 0..l |-> Walk(m, b, f, p)] /\ u = f[l].buckets
  <2>1. PICK f : f = CHOOSE g : g = [p \in 0 .. 2 * MaxSize |-> Walk(m, b, g, p)]
    OBVIOUS
  <2>2. \E g : g = [p \in 0 .. 2 * MaxSize |-> Walk(m, b, g, p)]
    BY <1>3, WalkExists
  <2>3. f = [p \in 0 .. 2 * MaxSize |-> Walk(m, b, f, p)]
    BY <2>1, <2>2, Zenon
  <2>4. RemoveBucketAndRehash(m, b) = f[2 * MaxSize].buckets
    BY <2>1 DEF RemoveBucketAndRehash, Walk, Visit, Mod
  <2> QED BY <1>3, <2>3, <2>4
<1>5. \A p \in 0..l : f[p] = Walk(m, b, f, p)
  BY <1>4
<1>6. /\ b \in Ring /\ m.buckets[b] \in 1..Len(es)
      /\ \A x \in Used(m) : x \in Ring /\ m.buckets[x] \in 1..Len(es)
  BY <1>1, <1>2, BucketTypes
<1> DEFINE s(p) == Dist(w, b) + p
           T == {p \in 0..l : /\ f[p] \in Shifts(Len(es))
                              /\ Shifted(es, place, w, s(p), f[p].buckets, f[p].hole, f[p].on)}
<1>7. Dist(w, b) \in Ring /\ Dist(w, b) \in Nat
  BY <1>6, DistIs DEF Ring
<1>8. 0 \in T
  <2>1. PICK v : v = [m.buckets EXCEPT ![b] = Empty]
    OBVIOUS
  <2>2. f[0] = [buckets |-> v, hole |-> b, on |-> TRUE]
    <3>1. f[0] = Walk(m, b, f, 0)
      BY <1>3, <1>5
    <3> QED BY <2>1, <3>1 DEF Walk
  <2>3. m.buckets \in [Ring -> {Empty} \cup 1..MaxSize]
    BY <1>1, BucketTypes
  <2>4. m.buckets \in [Ring -> {Empty} \cup 1..Len(es)]
    BY <1>6, <2>3 DEF Used
  <2>5. /\ v \in [Ring -> {Empty} \cup 1..Len(es)] /\ v[b] = Empty
        /\ \A x \in Ring \ {b} : v[x] = m.buckets[x]
    BY <1>6, <2>1, <2>4
  <2>6. Filled(v) = Used(m) \ {b}
    BY <1>6, <2>5 DEF Filled, Used
  <2>7. \A x \in Filled(v) : x \in Used(m) /\ x # b /\ v[x] = m.buckets[x]
    BY <1>6, <2>5, <2>6
  <2>8. \A x, y \in Filled(v) : v[x] = v[y] => x = y
    BY <1>1, <2>7 DEF Dense
  <2>9. ASSUME NEW d \in 1..Len(es)
        PROVE  d # place <=> \E x \in Filled(v) : v[x] = d
    <3>1. PICK x \in Used(m) : m.buckets[x] = d
      BY <1>1, <1>2 DEF Dense
    <3>2. \A y \in Used(m) : m.buckets[y] = d => y = x
      BY <1>1, <3>1 DEF Dense
    <3>3. d # place <=> x # b
      BY <1>1, <1>2, <3>1, <3>2
    <3> QED BY <2>6, <2>7, <3>1, <3>2, <3>3
  <2>10. \A x \in Filled(v) : HomeOf(es, v[x]) = Home(m, x)
    BY <1>2, <2>7 DEF HomeOf, Home, KeyAt
  <2>11. \A x \in Filled(v) : Dist(w, HomeOf(es, v[x])) <= Dist(w, x)
    BY <2>7, <2>10 DEF Uncrossed
  <2>12. ASSUME NEW x \in Filled(v), NEW y \in Ring, Crosses(w, HomeOf(es, v[x]), x, y), y # b
         PROVE  y \in Filled(v)
    <3>1. PICK h \in Ring : h = HomeOf(es, v[x]) /\ h = Home(m, x) /\ x \in Ring
      BY <1>1, <2>7, <2>10, BucketTypes
    <3>2. Dist(h, y) < Dist(h, x)
      BY <2>11, <2>12, <3>1, OnLine DEF Crosses
    <3>3. y \in Used(m)
      BY <1>1, <2>7, <3>1, <3>2 DEF Chained
    <3> QED BY <2>6, <2>12, <3>3
  <2>13. \A x \in Filled(v) : Crosses(w, HomeOf(es, v[x]), x, b) => Dist(w, b) < Dist(w, x)
    BY DEF Crosses
  <2>14. Dist(w, b) <= Dist(w, b) /\ Dist(w, b) < Dist(w, b) + MaxSize
    BY <1>7, SizeAssumption DEF Ring
  <2>15. Shifted(es, place, w, Dist(w, b), v, b, TRUE)
    BY <1>6, <2>5, <2>8, <2>9, <2>11, <2>12, <2>13, <2>14 DEF Shifted
  <2>16. Dist(w, b) + 0 = Dist(w, b) /\ 0 \in 0..l
    BY <1>3, <1>7
  <2>17. f[0] \in Shifts(Len(es))
    BY <1>6, <2>2, <2>5 DEF Shifts
  <2>18. f[0].buckets = v /\ f[0].hole = b /\ f[0].on = TRUE
    BY <2>2
  <2>19. Shifted(es, place, w, s(0), f[0].buckets, f[0].hole, f[0].on)
    BY <2>15, <2>16, <2>18, Zenon
  <2> QED BY <2>16, <2>17, <2>19
<1>9. ASSUME NEW p \in 0..l - 1, p \in T
      PROVE  p + 1 \in T
  <2>1. PICK r, n : r = f[p] /\ r \in Shifts(Len(es)) /\ n = s(p)
                    /\ Shifted(es, place, w, n, r.buckets, r.hole, r.on)
    BY <1>9
  <2>2. n \in Nat /\ n + 1 = s(p + 1) /\ p + 1 \in 0..l /\ p + 1 # 0 /\ p + 1 - 1 = p
    BY <1>3, <1>7, <2>1
  <2>3. PICK next : next = Mod(b + (p + 1))
    OBVIOUS
  <2>4. f[p + 1] = Visit(es, r, next)
    BY <1>2, <1>5, <2>1, <2>2, <2>3 DEF Walk
  <2>5. AfterIs(w, n, next)
    BY <1>3, <1>6, <2>1, <2>3, TurnIs
  <2>6. PICK q : q = f[p + 1] /\ q = Visit(es, r, next)
    BY <2>4
  <2>7. q \in Shifts(Len(es)) /\ Shifted(es, place, w, n + 1, q.buckets, q.hole, q.on)
    BY <2>1, <2>2, <2>5, <2>6, <1>2, VisitShifts, Zenon
  <2> QED BY <2>2, <2>6, <2>7
<1>10. l \in T
  <2> HIDE DEF T
  <2>1. \A p \in 0..l : p \in T
    BY <1>8, <1>9, UpTo
  <2> QED BY <1>3, <2>1
<1>11. PICK n, hole, on : n = s(l) /\ Shifted(es, place, w, n, u, hole, on)
  BY <1>4, <1>10
<1>12. ~on /\ hole \in Ring /\ u \in [Ring -> {Empty} \cup 1..Len(es)]
  <2>1. hole \in Ring /\ u \in [Ring -> {Empty} \cup 1..Len(es)]
    BY <1>11 DEF Shifted
  <2>2. Dist(w, hole) \in Ring
    BY <2>1, DistIs
  <2>3. on => n < Dist(w, hole) + MaxSize
    BY <1>11 DEF Shifted
  <2>4. ~(n < Dist(w, hole) + MaxSize)
    BY <1>3, <1>7, <1>11, <2>2, SizeAssumption DEF Ring
  <2> QED BY <2>1, <2>3, <2>4
<1>13. ASSUME NEW x \in Filled(u), NEW y \in Ring, NEW h, h = HomeOf(es, u[x]), Dist(h, y) < Dist(h, x)
       PROVE  y \in Filled(u)
  <2>1. h \in Ring /\ x \in Ring
    BY <1>2, <1>12, <1>13, FilledTypes
  <2>2. Dist(w, h) <= Dist(w, x)
    BY <1>11, <1>13 DEF Shifted
  <2>3. Crosses(w, h, x, y)
    BY <1>13, <2>1, <2>2, OnLine DEF Crosses
  <2>4. ~Crosses(w, h, x, hole)
    BY <1>11, <1>12, <1>13 DEF Shifted
  <2> QED BY <1>11, <1>13, <2>3, <2>4 DEF Shifted
<1>14. /\ \A x, y \in Filled(u) : u[x] = u[y] => x = y
       /\ \A d \in 1..Len(es) : d # place <=> \E x \in Filled(u) : u[x] = d
       /\ \A x \in Filled(u) : Dist(w, HomeOf(es, u[x])) <= Dist(w, x)
  BY <1>11 DEF Shifted
<1> QED BY <1>2, <1>12, <1>13, <1>14

(* erase() of the entry at place: the last entry takes its place. *)
Replaced(es, place) == [es EXCEPT ![place] = es[Len(es)]]

Shortened(fs, es, place) ==
  /\ fs \in Seq(Entries) /\ Len(fs) = Len(es) - 1
  /\ \A c \in 1..Len(es) - 1 : fs[c] = IF c = place THEN es[Len(es)] ELSE es[c]

LEMMA FrontIs ==
  ASSUME NEW es \in Seq(Entries), NEW place \in 1..Len(es)
  PROVE  Shortened(Front(Replaced(es, place)), es, place)
<1>1. PICK fs : fs = Front(Replaced(es, place))
  OBVIOUS
<1>2. PICK gs, l : gs = Replaced(es, place) /\ l \in Nat \ {0} /\ l = Len(es)
  OBVIOUS
<1>3. gs \in Seq(Entries) /\ Len(gs) = l /\ \A c \in 1..l : gs[c] = IF c = place THEN es[l] ELSE es[c]
  BY <1>2 DEF Replaced
<1>4. fs = SubSeq(gs, 1, l - 1)
  BY <1>1, <1>2, <1>3 DEF Front
<1>5. fs \in Seq(Entries) /\ Len(fs) = l - 1 /\ \A c \in 1..l - 1 : fs[c] = gs[c]
  <2>1. PICK k \in Int : k = l - 1 /\ 1 \in Int /\ 0 <= k
    BY <1>2
  <2>2. \A c \in 1..k : gs[c] \in Entries
    BY <1>2, <1>3, <2>1
  <2>3. PICK hs : /\ hs = SubSeq(gs, 1, k) /\ hs \in Seq(Entries)
                  /\ Len(hs) = IF 1 <= k THEN k - 1 + 1 ELSE 0
                  /\ \A c \in 1 .. k - 1 + 1 : hs[c] = gs[1 + c - 1]
    <3>1. /\ SubSeq(gs, 1, k) \in Seq(Entries)
          /\ Len(SubSeq(gs, 1, k)) = IF 1 <= k THEN k - 1 + 1 ELSE 0
          /\ \A c \in 1 .. k - 1 + 1 : SubSeq(gs, 1, k)[c] = gs[1 + c - 1]
      BY <2>1, <2>2, SubSeqProperties
    <3> QED BY <3>1, Zenon
  <2>4. fs = hs
    BY <1>4, <2>1, <2>3
  <2>5. Len(hs) = k
    BY <2>1, <2>3
  <2>6. \A c \in 1..k : c \in 1 .. k - 1 + 1 /\ 1 + c - 1 = c
    BY <2>1
  <2>7. \A c \in 1..k : hs[c] = gs[c]
    BY <2>3, <2>6
  <2> QED BY <2>1, <2>3, <2>4, <2>5, <2>7
<1>6. \A c \in 1..l - 1 : c \in 1..l
  BY <1>2
<1> QED BY <1>1, <1>2, <1>3, <1>5, <1>6 DEF Shortened

(* erase(), whichever entry the last one replaces. *)
LEMMA EraseOK ==
  ASSUME NEW m, MapOK(m), NEW g, Agree(m, g), NEW k \in Keys, Has(m, k)
  PROVE  MapOK(Erase(m, k)) /\ Agree(Erase(m, k), Without(g, k))
<1>1. m \in Maps /\ Dense(m) /\ DistinctKeys(m)
  BY DEF MapOK
<1>2. PICK w \in Ring : Uncrossed(m, w)
  BY DEF MapOK
<1>3. PICK es, l : es = m.entries /\ es \in Seq(Entries) /\ l = Len(es) /\ l \in Nat /\ l <= MaxSize
  BY <1>1, BucketTypes DEF Dense
<1>4. PICK place \in 1..l : es[place].key = k /\ m.buckets[FindSlot(m, k)] = place
  <2>1. PICK d \in 1..Len(m.entries) : m.entries[d].key = k
    BY Lookup
  <2>2. m.buckets[FindSlot(m, k)] = d
    BY <2>1, Lookup
  <2> QED BY <1>3, <2>1, <2>2
<1>5. PICK b \in Used(m) : b = FindIndex(m, k) /\ m.buckets[b] = place /\ b # Empty
  <2>1. PICK b \in Used(m) : m.buckets[b] = place
    BY <1>1, <1>3 DEF Dense
  <2>2. KeyAt(m, b) = k
    BY <1>3, <1>4, <2>1 DEF KeyAt
  <2>3. FindSlot(m, k) = b
    BY <2>2, SlotOfKey
  <2> QED BY <2>1, <2>3 DEF Has, FindIndex
<1>6. PICK u : u = RemoveBucketAndRehash(m, b)
  OBVIOUS
<1>7. /\ u \in [Ring -> {Empty} \cup 1..l]
      /\ \A x, y \in Filled(u) : u[x] = u[y] => x = y
      /\ \A d \in 1..l : d # place <=> \E x \in Filled(u) : u[x] = d
      /\ \A x \in Filled(u) : Dist(w, HomeOf(es, u[x])) <= Dist(w, x)
      /\ \A x \in Filled(u), y \in Ring :
           Dist(HomeOf(es, u[x]), y) < Dist(HomeOf(es, u[x]), x) => y \in Filled(u)
  BY <1>2, <1>3, <1>5, <1>6, RehashOK
<1>8. \A x \in Filled(u) : x \in Ring /\ u[x] \in 1..l /\ u[x] # place
  BY <1>7 DEF Filled
<1>9. PICK v : v = IF place = l THEN u ELSE UpdateLastElementBucket(u, l, place)
  OBVIOUS
<1>10. v = [x \in Ring |-> IF u[x] = l THEN place ELSE u[x]]
  <2>1. CASE place = l
    BY <1>7, <1>9, <2>1
  <2>2. CASE place # l
    BY <1>7, <1>9, <2>2 DEF UpdateLastElementBucket
  <2> QED BY <2>1, <2>2
<1>11. PICK fs : fs = Front(Replaced(es, place))
  OBVIOUS
<1>12. /\ fs \in Seq(Entries) /\ Len(fs) = l - 1 /\ l \in Nat \ {0}
       /\ \A c \in 1..l - 1 : fs[c] = IF c = place THEN es[l] ELSE es[c]
  <2>1. l \in Nat \ {0}
    BY <1>3, <1>4
  <2>2. place \in 1..Len(es)
    BY <1>3, <1>4
  <2>3. Shortened(fs, es, place)
    BY <1>3, <1>11, <2>2, FrontIs
  <2> QED BY <1>3, <2>1, <2>3 DEF Shortened
<1>13. PICK n : n = [buckets |-> v, entries |-> fs]
  OBVIOUS
<1>14. Erase(m, k) = n
  BY <1>3, <1>5, <1>6, <1>9, <1>11, <1>13 DEF Erase, Replaced
<1>15. /\ v \in [Ring -> {Empty} \cup 1..MaxSize]
       /\ \A x \in Ring : v[x] = IF u[x] = l THEN place ELSE u[x]
  <2>1. \A x \in Ring : u[x] \in {Empty} \cup 1..MaxSize /\ place \in 1..MaxSize
    BY <1>3, <1>4, <1>7, SizeAssumption
  <2> QED BY <1>10, <2>1
<1>16. n \in Maps /\ n.buckets = v /\ n.entries = fs
  BY <1>12, <1>13, <1>15 DEF Maps
<1>17. Used(n) = Filled(u)
  <2>1. place # Empty /\ l # Empty
    BY <1>3, <1>4 DEF Empty
  <2> QED BY <1>15, <1>16, <2>1 DEF Used, Filled
<1>18. ASSUME NEW x \in Filled(u)
       PROVE  v[x] \in 1..l - 1 /\ fs[v[x]] = es[u[x]]
  <2>1. u[x] \in 1..l /\ u[x] # place /\ v[x] = IF u[x] = l THEN place ELSE u[x]
    BY <1>8, <1>15
  <2>2. CASE u[x] = l
    <3>1. v[x] = place /\ place \in 1..l - 1
      BY <1>4, <1>12, <2>1, <2>2
    <3> QED BY <1>12, <2>2, <3>1
  <2>3. CASE u[x] # l
    <3>1. v[x] = u[x] /\ u[x] \in 1..l - 1
      BY <1>12, <2>1, <2>3
    <3> QED BY <1>12, <2>1, <3>1
  <2> QED BY <2>2, <2>3
<1>19. Dense(n)
  <2>1. ASSUME NEW x \in Filled(u), NEW y \in Filled(u), v[x] = v[y]
        PROVE  x = y
    <3>1. u[x] = u[y]
      BY <1>8, <1>15, <2>1
    <3> QED BY <1>7, <3>1
  <2>2. ASSUME NEW d \in 1..l - 1
        PROVE  \E x \in Filled(u) : v[x] = d
    <3>1. d \in 1..l /\ l \in 1..l /\ d # l
      BY <1>12
    <3>2. CASE d = place
      <4>1. PICK x \in Filled(u) : u[x] = l
        BY <1>7, <3>1, <3>2
      <4> QED BY <1>8, <1>15, <3>2, <4>1
    <3>3. CASE d # place
      <4>1. PICK x \in Filled(u) : u[x] = d
        BY <1>7, <3>1, <3>3
      <4> QED BY <1>8, <1>15, <3>1, <4>1
    <3> QED BY <3>2, <3>3
  <2>3. l - 1 <= MaxSize
    BY <1>3, SizeAssumption
  <2> QED BY <1>12, <1>16, <1>17, <1>18, <2>1, <2>2, <2>3 DEF Dense
<1>20. \A c \in 1..l - 1 : \E d \in 1..l : fs[c] = es[d] /\ d # place /\ d = IF c = place THEN l ELSE c
  <2> TAKE c \in 1..l - 1
  <2>1. PICK d : d = IF c = place THEN l ELSE c
    OBVIOUS
  <2>2. d \in 1..l /\ d # place /\ fs[c] = es[d]
    BY <1>12, <2>1
  <2> QED BY <2>1, <2>2
<1>21. DistinctKeys(n)
  <2> SUFFICES ASSUME NEW c \in 1..l - 1, NEW d \in 1..l - 1, fs[c].key = fs[d].key
               PROVE  c = d
    BY <1>12, <1>16 DEF DistinctKeys
  <2>1. PICK x \in 1..l : fs[c] = es[x] /\ x = IF c = place THEN l ELSE c
    BY <1>20
  <2>2. PICK y \in 1..l : fs[d] = es[y] /\ y = IF d = place THEN l ELSE d
    BY <1>20
  <2>3. x = y
    BY <1>1, <1>3, <2>1, <2>2 DEF DistinctKeys
  <2> QED BY <1>12, <2>1, <2>2, <2>3
<1>22. \A x \in Filled(u) : Home(n, x) = HomeOf(es, u[x])
  BY <1>16, <1>18 DEF Home, HomeOf, KeyAt
<1>23. Chained(n)
  BY <1>7, <1>17, <1>22 DEF Chained
<1>24. Uncrossed(n, w)
  BY <1>7, <1>17, <1>22 DEF Uncrossed
<1>25. MapOK(n)
  BY <1>16, <1>19, <1>21, <1>23, <1>24 DEF MapOK
<1>26. Agree(n, Without(g, k))
  <2>1. DOMAIN g = {es[c].key : c \in 1..l} /\ \A c \in 1..l : g[es[c].key] = es[c].value
    BY <1>3 DEF Agree
  <2>2. \A c \in 1..l : es[c].key = k => c = place
    BY <1>1, <1>3, <1>4 DEF DistinctKeys
  <2>3. PICK f : f = Without(g, k)
    OBVIOUS
  <2>4. DOMAIN f = DOMAIN g \ {k} /\ \A x \in DOMAIN g \ {k} : f[x] = g[x]
    BY <2>3 DEF Without
  <2>5. \A c \in 1..l - 1 : fs[c].key \in DOMAIN g \ {k} /\ f[fs[c].key] = fs[c].value
    <3> TAKE c \in 1..l - 1
    <3>1. PICK d \in 1..l : fs[c] = es[d] /\ d # place
      BY <1>20
    <3>2. es[d].key \in DOMAIN g \ {k}
      BY <2>1, <2>2, <3>1
    <3> QED BY <2>1, <2>4, <3>1, <3>2
  <2>6. ASSUME NEW x \in DOMAIN g \ {k}
        PROVE  \E c \in 1..l - 1 : fs[c].key = x
    <3>1. PICK d \in 1..l : es[d].key = x /\ d # place
      BY <1>4, <2>1
    <3>2. CASE d = l
      <4>1. place \in 1..l - 1
        BY <1>4, <1>12, <3>1, <3>2
      <4> QED BY <1>12, <3>1, <3>2, <4>1
    <3>3. CASE d # l
      <4>1. d \in 1..l - 1
        BY <1>12, <3>3
      <4> QED BY <1>12, <3>1, <4>1
    <3> QED BY <3>2, <3>3
  <2>7. DOMAIN f = {fs[c].key : c \in 1..l - 1}
    BY <2>4, <2>5, <2>6
  <2>8. DOMAIN f = {n.entries[c].key : c \in 1..Len(n.entries)}
    BY <1>12, <1>16, <2>7
  <2>9. \A c \in 1..Len(n.entries) : f[n.entries[c].key] = n.entries[c].value
    BY <1>12, <1>16, <2>5
  <2> QED BY <2>3, <2>8, <2>9 DEF Agree
<1> QED BY <1>14, <1>25, <1>26

-----------------------------------------------------------------------------
(* The named groups                                                        *)

(* The map, well formed, holds the groups there are. *)
GroupsHeld == MapOK(map) /\ Agree(map, groups)

(* contains() and find() of a map that agrees with g. *)
LEMMA Found ==
  ASSUME NEW m, MapOK(m), NEW g, Agree(m, g), NEW k \in Keys
  PROVE  /\ Has(m, k) <=> k \in DOMAIN g
         /\ k \in DOMAIN g => Find(m, k) = g[k] /\ g[k] \in Seq(Ids)
<1>1. Has(m, k) <=> \E d \in 1..Len(m.entries) : m.entries[d].key = k
  BY Lookup
<1>2. k \in DOMAIN g <=> \E d \in 1..Len(m.entries) : m.entries[d].key = k
  BY DEF Agree
<1>3. ASSUME k \in DOMAIN g
      PROVE  Find(m, k) = g[k] /\ g[k] \in Seq(Ids)
  <2>1. PICK d \in 1..Len(m.entries) : m.entries[d].key = k
    BY <1>2, <1>3
  <2>2. Find(m, k) = m.entries[d].value
    BY <2>1, Lookup
  <2>3. g[k] = m.entries[d].value
    BY <2>1 DEF Agree
  <2>4. m.entries[d] \in Entries
    BY <2>1, BucketTypes DEF MapOK
  <2> QED BY <2>2, <2>3, <2>4 DEF Entries
<1> QED BY <1>1, <1>2, <1>3

(* The map as the constructor leaves it. *)
LEMMA NoEntriesOK == MapOK(NoEntries) /\ Agree(NoEntries, <<>>)
<1>1. PICK m : m = NoEntries
  OBVIOUS
<1>2. m.entries = <<>> /\ m.buckets = [b \in Ring |-> Empty] /\ m \in Maps
  BY <1>1 DEF NoEntries, Ring, Maps
<1>3. Len(m.entries) = 0 /\ 1..Len(m.entries) = {} /\ Used(m) = {}
  BY <1>2 DEF Used
<1>4. Dense(m) /\ DistinctKeys(m) /\ Chained(m)
  BY <1>3, SizeAssumption DEF Dense, DistinctKeys, Chained
<1>5. 0 \in Ring /\ Uncrossed(m, 0)
  BY <1>3, SizeAssumption DEF Ring, Uncrossed
<1>6. Agree(m, <<>>)
  <2>1. {m.entries[d].key : d \in 1..Len(m.entries)} = {} /\ DOMAIN <<>> = {}
    BY <1>3
  <2> QED BY <1>3, <2>1 DEF Agree
<1> QED BY <1>1, <1>2, <1>4, <1>5, <1>6 DEF MapOK

(* createGroup() *)
LEMMA CreatedOK ==
  ASSUME NEW m, MapOK(m), NEW g, Agree(m, g), NEW k \in Keys,
         NEW f, f = IF k \in DOMAIN g \/ Full(m) THEN g ELSE With(g, k, <<>>)
  PROVE  MapOK(Created(m, k)) /\ Agree(Created(m, k), f)
<1>1. Has(m, k) <=> k \in DOMAIN g
  BY Found
<1>2. CASE k \in DOMAIN g \/ Full(m)
  BY <1>1, <1>2 DEF Created
<1>3. CASE ~(k \in DOMAIN g \/ Full(m))
  <2>1. <<>> \in Seq(Ids)
    OBVIOUS
  <2>2. MapOK(Insert(m, k, <<>>)) /\ Agree(Insert(m, k, <<>>), With(g, k, <<>>))
    BY <1>3, <2>1, InsertOK
  <2> QED BY <1>1, <1>3, <2>2 DEF Created
<1> QED BY <1>2, <1>3

(* addToGroup(), with the group it makes. *)
LEMMA AddToGroupHolds ==
  ASSUME GroupsHeld, NEW n \in Keys, NEW t \in Ids, AddToGroup(n, t)
  PROVE  GroupsHeld'
<1>1. PICK m, g : /\ m = Created(map, n)
                  /\ g = IF n \in DOMAIN groups \/ Full(map) THEN groups ELSE With(groups, n, <<>>)
  OBVIOUS
<1>2. MapOK(m) /\ Agree(m, g)
  BY <1>1, CreatedOK DEF GroupsHeld
<1>3. Has(m, n) <=> n \in DOMAIN g
  BY <1>2, Found
<1>4. CASE n \in DOMAIN g /\ Len(g[n]) < MaxPerGroup /\ t \notin ToSet(g[n])
  <2>1. PICK ids \in Seq(Ids) : ids = g[n] /\ Find(m, n) = ids
    BY <1>2, <1>4, Found
  <2>2. Append(ids, t) \in Seq(Ids)
    OBVIOUS
  <2>3. map' = Insert(m, n, Append(ids, t)) /\ groups' = With(g, n, Append(ids, t))
    BY <1>1, <1>3, <1>4, <2>1 DEF AddToGroup
  <2>4. /\ MapOK(Insert(m, n, Append(ids, t)))
        /\ Agree(Insert(m, n, Append(ids, t)), With(g, n, Append(ids, t)))
    BY <1>2, <1>4, <2>2, InsertOK
  <2> QED BY <2>3, <2>4 DEF GroupsHeld
<1>5. CASE ~(n \in DOMAIN g /\ Len(g[n]) < MaxPerGroup /\ t \notin ToSet(g[n]))
  <2>1. n \in DOMAIN g => Find(m, n) = g[n]
    BY <1>2, Found
  <2>2. map' = m /\ groups' = g
    BY <1>1, <1>3, <1>5, <2>1 DEF AddToGroup
  <2> QED BY <1>2, <2>2 DEF GroupsHeld
<1> QED BY <1>4, <1>5

(* removeFromGroup() *)
LEMMA RemoveFromGroupHolds ==
  ASSUME GroupsHeld, NEW n \in Keys, NEW t \in Ids, RemoveFromGroup(n, t)
  PROVE  GroupsHeld'
<1>1. MapOK(map) /\ Agree(map, groups) /\ Has(map, n)
  BY DEF GroupsHeld, RemoveFromGroup
<1>2. n \in DOMAIN groups
  BY <1>1, Found
<1>3. PICK ids \in Seq(Ids) : ids = groups[n] /\ Find(map, n) = ids
  BY <1>1, <1>2, Found
<1>4. PICK left : left = ErasePod(ids)
  OBVIOUS
<1>5. left \in Seq(Ids)
  <2>1. PICK l : l = Len(ids) - 1
    OBVIOUS
  <2>2. 1 \in Int /\ l \in Int /\ \A c \in 1..l : ids[c] \in Ids
    BY <2>1
  <2>3. SubSeq(ids, 1, l) \in Seq(Ids)
    BY <2>2, SubSeqProperties
  <2> QED BY <1>4, <2>1, <2>3 DEF ErasePod, Front
<1>6. map' = Insert(map, n, left) /\ groups' = With(groups, n, left)
  BY <1>3, <1>4 DEF RemoveFromGroup
<1> QED BY <1>1, <1>2, <1>5, <1>6, InsertOK DEF GroupsHeld

(* The invariant, for each operation on groups, timers and batches. *)
LEMMA GroupsStep == GroupsHeld /\ [GroupsNext]_groupVars => GroupsHeld'
<1> SUFFICES ASSUME GroupsHeld, [GroupsNext]_groupVars
             PROVE  GroupsHeld'
  OBVIOUS
<1>1. MapOK(map) /\ Agree(map, groups)
  BY DEF GroupsHeld
<1>2. ASSUME NEW n \in Keys, CreateGroup(n)
      PROVE  GroupsHeld'
  BY <1>1, <1>2, CreatedOK DEF CreateGroup, GroupsHeld
<1>3. ASSUME NEW n \in Keys, ClearGroup(n) \/ RemoveGroup(n)
      PROVE  GroupsHeld'
  BY <1>1, <1>3, EraseOK DEF ClearGroup, RemoveGroup, GroupsHeld
<1>4. ASSUME NEW n \in Keys, NEW t \in Ids, AddToGroup(n, t)
      PROVE  GroupsHeld'
  BY <1>4, AddToGroupHolds
<1>5. ASSUME NEW n \in Keys, NEW t \in Ids, RemoveFromGroup(n, t)
      PROVE  GroupsHeld'
  BY <1>5, RemoveFromGroupHolds
<1>6. ASSUME \E n \in Keys : PauseGroup(n) \/ ResumeGroup(n)
      PROVE  GroupsHeld'
  BY <1>1, <1>6 DEF PauseGroup, ResumeGroup, GroupsHeld
<1>7. ASSUME \E t \in Ids : Start(t) \/ End(t) \/ BatchAdd(t) \/ BatchRemove(t)
      PROVE  GroupsHeld'
  BY <1>1, <1>7 DEF Start, End, BatchAdd, BatchRemove, GroupsHeld
<1>8. CASE PauseAll \/ ResumeAll \/ ClearAll \/ ClearBatch
  BY <1>1, <1>8 DEF PauseAll, ResumeAll, ClearAll, ClearBatch, GroupsHeld
<1>9. CASE UNCHANGED groupVars
  BY <1>1, <1>9 DEF groupVars, GroupsHeld
<1> QED BY <1>2, <1>3, <1>4, <1>5, <1>6, <1>7, <1>8, <1>9 DEF GroupsNext

(* find() and contains() of StaticHashMap, in every history of its groups:  *)
(* for any hash function, any number of buckets and any keys.               *)
THEOREM PutIsFound == GroupsSpec => []FindsWhatWasPut
<1>1. GroupsInit => GroupsHeld
  BY NoEntriesOK DEF GroupsInit, GroupsHeld
<1>2. GroupsHeld => FindsWhatWasPut
  BY Found DEF GroupsHeld, FindsWhatWasPut
<1> QED BY <1>1, <1>2, GroupsStep, PTL DEF GroupsSpec
=============================================================================
