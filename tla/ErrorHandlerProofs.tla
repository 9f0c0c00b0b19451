------------------------- MODULE ErrorHandlerProofs -------------------------
(***************************************************************************)
(* Proofs about ErrorHandler, for any sizes of the history, of the queue   *)
(* and of the context stack, any period of millis() and any nesting of     *)
(* callbacks, guarded scopes and safe calls.                               *)
(***************************************************************************)
EXTENDS ErrorHandler, FiniteSetTheorems, SequenceTheorems, TLAPS

-----------------------------------------------------------------------------
(* Arithmetic modulo a size, minima and maxima                             *)

Turn(a, c) == a % c

LEMMA Turned ==
  ASSUME NEW c \in Nat, c >= 1
  PROVE  \A a \in Int : 0 <= a /\ a < c + c => Turn(a, c) = IF a < c THEN a ELSE a - c
<1>1. ASSUME NEW a \in Int, 0 <= a, a < c
      PROVE  a % c = a
  BY <1>1
<1>2. ASSUME NEW a \in Int, c <= a, a < c + c
      PROVE  a % c = a - c
  BY <1>2
<1>3. \A a \in Int : a >= c \/ a < c
  OBVIOUS
<1> QED BY <1>1, <1>2, <1>3 DEF Turn

(* Elapsed() of two readings of millis(). *)
LEMMA ElapsedIs ==
  ASSUME NEW c \in Nat \ {0}, NEW a \in 0..c - 1, NEW b \in 0..c - 1
  PROVE  (a - b) % c = IF b <= a THEN a - b ELSE a - b + c
<1>1. CASE b <= a
  BY <1>1
<1>2. CASE ~(b <= a)
  BY <1>2
<1> QED BY <1>1, <1>2

LEMMA MinIs ==
  ASSUME NEW a \in Int, NEW b \in Int
  PROVE  Min({a, b}) = IF a <= b THEN a ELSE b
BY DEF Min

LEMMA MaxIs ==
  ASSUME NEW a \in Int, NEW b \in Int
  PROVE  Max({a, b}) = IF a <= b THEN b ELSE a
BY DEF Max

LEMMA MaxExists ==
  ASSUME NEW n \in Nat, NEW S \in SUBSET (1..n), S # {}
  PROVE  Max(S) \in S
<1>1. {n - k : k \in S} \subseteq Nat /\ {n - k : k \in S} # {}
  <2>1. \A k \in S : n - k \in Nat
    OBVIOUS
  <2> QED BY <2>1
<1>2. PICK m \in {n - k : k \in S} : \A y \in {n - k : k \in S} : ~(<<y, m>> \in OpToRel(<, Nat))
  BY <1>1, NatLessThanWellFounded, WFMin
<1>3. \A y \in {n - k : k \in S} : ~(y < m)
  BY <1>1, <1>2 DEF OpToRel
<1>4. PICK k \in S : m = n - k
  BY <1>2
<1>5. \A l \in S : k >= l
  <2>1. \A l \in S : ~(n - l < n - k)
    BY <1>3, <1>4
  <2> QED BY <2>1
<1> QED BY <1>5 DEF Max

-----------------------------------------------------------------------------
(* The inductive invariants                                                *)

Reportable == Errors \cup {Failure(c, s) : c \in Contexts, s \in {Warning, Error, Critical}}

CallFrame == [kind : {"report", "safe", "fallback", "failed"}, error : Reportable, at : Nat,
              running : BOOLEAN, depth : Nat]

ProcessFrame == [kind : {"process"}, depth : Nat, running : BOOLEAN,
                 entry : (0..Capacity - 1) \cup {None}, left : Int]

Frames == CallFrame \cup ProcessFrame

Queue == [slot : [0..Capacity - 1 -> Errors \cup {None}], head : 0..Capacity - 1,
          tail : 0..Capacity - 1, count : 0..SizeWrap - 1]

Scope == [context : Places, guard : BOOLEAN]

Stats == [total : Nat, filtered : Nat, throttled : Nat, duplicate : Nat,
          severity : [Severities -> Nat]]

Ring == [slot : [0..HistorySize - 1 -> [error : Reportable, code : Nat] \cup {None}],
         index : 0..HistorySize - 1, count : 0..HistorySize]

(* A sequence of calls was made at depths that do not fall, within d. *)
Nested(fs, d) ==
  /\ \A k \in 1..Len(fs) : fs[k].depth <= d
  /\ \A k, l \in 1..Len(fs) : k <= l => fs[k].depth <= fs[l].depth

(* The entries that processOne() calls have reported are among q. *)
InProgress(fs, q) ==
  \A k \in 1..Len(fs) : fs[k].kind = "process" /\ fs[k].entry # None => fs[k].entry \in q

(* Calls in progress, in scopes d deep and with entries q being processed. *)
CallsFit(fs, d, q) == fs \in Seq(Frames) /\ Nested(fs, d) /\ InProgress(fs, q)

(* Until a callback takes entries off the queue, only the one at the head  *)
(* is processed.                                                           *)
Heads ==
  IF reentered THEN 0..Capacity - 1 ELSE IF queue.count > 0 THEN {queue.head} ELSE {}

(* The queue's tail follows its last entry. *)
QueueOK ==
  /\ queue \in Queue /\ waiting \in Seq(Errors) /\ reentered \in BOOLEAN
  /\ QueueFaithful
  /\ ~reentered => queue.count <= Capacity /\ queue.tail = (queue.head + queue.count) % Capacity

CallsOK ==
  /\ callback \in BOOLEAN /\ scopes \in Seq(Scope)
  /\ CallsFit(frames, Len(scopes), Heads)

(* A context stack st and the pushes sc that no pop has followed, when the *)
(* pushes and pops by hand are up to now not unpaired (up) and none was    *)
(* dropped (dr).                                                           *)
Tracks(st, sc, up, dr) ==
  /\ st \in Seq(Places) /\ sc \in Seq(Scope) /\ up \in BOOLEAN /\ dr \in BOOLEAN
  /\ ~up => Len(st) <= Len(sc)
  /\ ~up /\ ~dr => Len(st) = Len(sc) /\ \A k \in 1..Len(sc) : st[k] = sc[k].context

ContextsOK == Tracks(stack, scopes, unpaired, dropped)

(* Where the k-th error of a ring with n of them stands, the next one      *)
(* going to x.                                                             *)
Place(x, n, k) ==
  IF n < HistorySize THEN k - 1
  ELSE IF x + k - 1 < HistorySize THEN x + k - 1 ELSE x + k - 1 - HistorySize

(* The errors of severity s among those accepted. *)
OfSeverity(q, s) == {k \in 1..Len(q) : q[k].severity = s}

(* HistoryIsTail, place by place; the ring is filled from its first place *)
(* on, and the total is the number of errors accepted.                    *)
Kept(st, rg, q) ==
  /\ st \in Stats /\ rg \in Ring /\ q \in Seq(Reportable)
  /\ st.total = Len(q)
  /\ rg.count < HistorySize => rg.index = rg.count
  /\ rg.count = IF Len(q) <= HistorySize THEN Len(q) ELSE HistorySize
  /\ \A k \in 1..rg.count :
       rg.slot[Place(rg.index, rg.count, k)] = [error |-> q[Len(q) - rg.count + k], code |-> Len(q) - rg.count + k]
  /\ \A s \in Severities : st.severity[s] = Cardinality(OfSeverity(q, s))

RecordOK == Kept(stats, ring, accepted)

(* What isThrottled() and isDuplicate() take for the time that has passed  *)
(* is never more than the time that has.                                   *)
RateOK ==
  /\ now \in 0..Wrap - 1
  /\ window \in Intervals \cup {None}
  /\ throttle \in [Contexts -> [last : 0..Wrap - 1, interval : Intervals] \cup {None}]
  /\ seen \in [Keys -> 0..Wrap - 1 \cup {None}]
  /\ age \in [context : [Contexts -> Nat], key : [Keys -> Nat]]
  /\ \A c \in Contexts : throttle[c] # None =>
       age.context[c] >= Elapsed(throttle[c].last) \/ age.context[c] >= MaxAge
  /\ \A k \in Keys : IF seen[k] = None THEN age.key[k] >= MaxAge
                     ELSE age.key[k] >= Elapsed(seen[k]) \/ age.key[k] >= MaxAge

IInv == QueueOK /\ CallsOK /\ ContextsOK /\ RecordOK /\ RateOK

LEMMA Sizes ==
  /\ HistorySize \in Nat \ {0} /\ Capacity \in Nat \ {0} /\ StackMax \in Nat \ {0}
  /\ SizeWrap \in Nat /\ Capacity < SizeWrap
  /\ MaxPolicies \in Nat /\ MaxAge \in Nat /\ Wrap \in Nat \ {0} /\ Intervals \subseteq 0..Wrap - 1
BY SizeAssumption

LEMMA ReportableParts ==
  ASSUME NEW e \in Reportable
  PROVE  e.context \in Contexts /\ Key(e) \in Keys /\ e.severity \in Severities
<1>1. CASE e \in Errors
  BY <1>1, ErrorAssumption DEF Contexts, Keys
<1>2. CASE e \notin Errors
  <2>1. PICK c \in Contexts, s \in {Warning, Error, Critical} : e = Failure(c, s)
    BY <1>2 DEF Reportable
  <2>2. e.context = c /\ e.message = What /\ e.severity = s
    BY <2>1 DEF Failure
  <2>3. Key(e) = Key(Failure(c, Error))
    BY <2>2 DEF Key, Failure
  <2> QED BY <2>2, <2>3 DEF Keys, Severities, Warning, Error, Critical, Info
<1> QED BY <1>1, <1>2

-----------------------------------------------------------------------------
(* The queue                                                               *)

(* A queue that a callback has taken entries off. *)
LEMMA QueueLost ==
  ASSUME QueueOK, reentered', queue' \in Queue, waiting' \in Seq(Errors), reentered' \in BOOLEAN
  PROVE  QueueOK'
BY DEF QueueOK, QueueFaithful

LEMMA EnqueueLost ==
  ASSUME QueueOK, NEW e \in Errors, Enqueue(e), reentered
  PROVE  QueueOK'
<1>1. PICK m : m = queue.count + 1 /\ m \in 0..SizeWrap - 1
  BY Sizes DEF QueueOK, Queue, Enqueue
<1>2. PICK tm : tm = (queue.tail + 1) % Capacity /\ tm \in 0..Capacity - 1
  BY Sizes DEF QueueOK, Queue
<1>3. PICK sm : sm = [queue.slot EXCEPT ![queue.tail] = e] /\ sm \in [0..Capacity - 1 -> Errors \cup {None}]
  <2>1. PICK sl : sl = queue.slot /\ sl \in [0..Capacity - 1 -> Errors \cup {None}]
    BY DEF QueueOK, Queue
  <2>2. [sl EXCEPT ![queue.tail] = e] \in [0..Capacity - 1 -> Errors \cup {None}]
    BY <2>1
  <2> QED BY <2>1, <2>2
<1>4. queue' = [queue EXCEPT !.slot = sm, !.tail = tm, !.count = m]
  BY <1>1, <1>2, <1>3 DEF Enqueue, QueueOK, Queue
<1>5. queue' \in Queue
  BY <1>1, <1>2, <1>3, <1>4 DEF QueueOK, Queue
<1>6. waiting' = waiting /\ reentered' = reentered
  BY DEF Enqueue
<1> QED BY <1>5, <1>6, QueueLost DEF QueueOK

LEMMA EnqueueKept ==
  ASSUME QueueOK, NEW e \in Errors, Enqueue(e), ~reentered
  PROVE  QueueOK'
<1>1. PICK C, h, n, tl, sl : /\ C = Capacity /\ h = queue.head /\ n = queue.count /\ tl = queue.tail
                             /\ sl = queue.slot
  OBVIOUS
<1>2. /\ C \in Nat /\ C >= 1 /\ h \in Nat /\ h < C /\ n \in Nat /\ n < C /\ tl \in 0..C - 1
      /\ sl \in [0..C - 1 -> Errors \cup {None}]
  <2>1. /\ queue.head \in 0..Capacity - 1 /\ queue.tail \in 0..Capacity - 1 /\ queue.count \in 0..SizeWrap - 1
        /\ queue.slot \in [0..Capacity - 1 -> Errors \cup {None}]
    BY DEF QueueOK, Queue
  <2>2. queue.count < Capacity
    BY DEF Enqueue
  <2> QED BY <1>1, <2>1, <2>2, Sizes
<1>20. \A a \in Int : 0 <= a /\ a < C + C => Turn(a, C) = IF a < C THEN a ELSE a - C
  BY <1>2, Turned
<1>3. tl = Turn(h + n, C) /\ tl = IF h + n < C THEN h + n ELSE h + n - C
  <2>1. tl = Turn(h + n, C)
    BY <1>1 DEF QueueOK, Turn
  <2> QED BY <1>2, <1>20, <2>1
<1>4. /\ n = Len(waiting)
      /\ \A k \in 1..n : sl[Turn(h + k - 1, C)] = waiting[k]
  BY <1>1, <1>2, LenProperties DEF QueueOK, QueueFaithful, Turn
<1>5. PICK sm : sm = [sl EXCEPT ![tl] = e]
  OBVIOUS
<1>6. sm \in [0..C - 1 -> Errors \cup {None}] /\ \A k \in 0..C - 1 : sm[k] = IF k = tl THEN e ELSE sl[k]
  BY <1>2, <1>5
<1>7. PICK tm : tm = Turn(tl + 1, C)
  OBVIOUS
<1>8. tm = (IF tl + 1 < C THEN tl + 1 ELSE tl + 1 - C) /\ tm \in 0..C - 1
  <2>1. PICK a : a = tl + 1 /\ a \in Int
    BY <1>2
  <2>2. Turn(a, C) = (IF a < C THEN a ELSE a - C) /\ Turn(a, C) \in 0..C - 1
    BY <1>2, <1>20, <2>1
  <2> QED BY <1>2, <1>7, <2>1, <2>2
<1>9. queue' = [queue EXCEPT !.slot = sm, !.tail = tm, !.count = n + 1]
  BY <1>1, <1>5, <1>7 DEF Enqueue, QueueOK, Queue, Turn
<1>30. PICK m : m = n + 1 /\ m \in 0..SizeWrap - 1 /\ m <= Capacity
  BY <1>1, <1>2, Sizes
<1>10. /\ queue' \in Queue
       /\ queue'.slot = sm /\ queue'.tail = tm /\ queue'.count = m /\ queue'.head = h
  <2>1. queue' = [queue EXCEPT !.slot = sm, !.tail = tm, !.count = m]
    BY <1>9, <1>30
  <2>2. queue \in Queue /\ sm \in [0..Capacity - 1 -> Errors \cup {None}] /\ tm \in 0..Capacity - 1
    BY <1>1, <1>6, <1>8 DEF QueueOK
  <2> QED BY <1>1, <1>30, <2>1, <2>2 DEF Queue
<1>11. /\ waiting' \in Seq(Errors) /\ Len(waiting') = n + 1 /\ waiting'[n + 1] = e
       /\ \A k \in 1..n : waiting'[k] = waiting[k]
  BY <1>4, AppendProperties DEF Enqueue, QueueOK
<1>31. reentered' = reentered /\ reentered \in BOOLEAN
  BY DEF Enqueue, QueueOK
<1>12. tm = Turn(h + (n + 1), C)
  <2>1. Turn(h + (n + 1), C) = IF h + (n + 1) < C THEN h + (n + 1) ELSE h + (n + 1) - C
    <3>1. PICK a : a = h + (n + 1) /\ a \in Int
      BY <1>2
    <3>2. Turn(a, C) = IF a < C THEN a ELSE a - C
      BY <1>2, <1>20, <3>1
    <3> QED BY <1>2, <3>1, <3>2
  <2> QED BY <1>2, <1>3, <1>8, <2>1
<1>13. ASSUME NEW k \in 1..n + 1
       PROVE  sm[Turn(h + k - 1, C)] = waiting'[k]
  <2>1. Turn(h + k - 1, C) = (IF h + k - 1 < C THEN h + k - 1 ELSE h + k - 1 - C) /\ Turn(h + k - 1, C) \in 0..C - 1
    <3>1. PICK a : a = h + k - 1 /\ a \in Int
      BY <1>2
    <3>2. Turn(a, C) = (IF a < C THEN a ELSE a - C) /\ Turn(a, C) \in 0..C - 1
      BY <1>2, <1>20, <3>1
    <3> QED BY <1>2, <3>1, <3>2
  <2>2. CASE k = n + 1
    BY <1>2, <1>3, <1>6, <1>11, <2>1, <2>2
  <2>3. CASE k # n + 1
    <3>1. k \in 1..n /\ Turn(h + k - 1, C) # tl
      BY <1>2, <1>3, <2>1, <2>3
    <3> QED BY <1>4, <1>6, <1>11, <2>1, <3>1
  <2> QED BY <2>2, <2>3
<1>14. DOMAIN waiting' = 1..n + 1
  BY <1>11, LenProperties
<1> QED BY <1>1, <1>30, <1>31, <1>10, <1>11, <1>12, <1>13, <1>14 DEF QueueOK, QueueFaithful, Turn

LEMMA EnqueueOK ==
  ASSUME QueueOK, NEW e \in Errors, Enqueue(e)
  PROVE  QueueOK'
BY EnqueueLost, EnqueueKept

LEMMA PopLost ==
  ASSUME QueueOK, ProcessPop, reentered', Top.entry \in 0..Capacity - 1
  PROVE  QueueOK'
<1>1. PICK m : m = (queue.count - 1) % SizeWrap /\ m \in 0..SizeWrap - 1
  BY Sizes DEF QueueOK, Queue
<1>2. PICK hm : hm = (queue.head + 1) % Capacity /\ hm \in 0..Capacity - 1
  BY Sizes DEF QueueOK, Queue
<1>3. PICK sm : sm = [queue.slot EXCEPT ![Top.entry] = None] /\ sm \in [0..Capacity - 1 -> Errors \cup {None}]
  <2>1. PICK sl : sl = queue.slot /\ sl \in [0..Capacity - 1 -> Errors \cup {None}]
    BY DEF QueueOK, Queue
  <2>2. [sl EXCEPT ![Top.entry] = None] \in [0..Capacity - 1 -> Errors \cup {None}]
    BY <2>1
  <2> QED BY <2>1, <2>2
<1>4. queue' = [queue EXCEPT !.slot = sm, !.head = hm, !.count = m]
  BY <1>1, <1>2, <1>3 DEF ProcessPop, QueueOK, Queue
<1>5. queue' \in Queue
  BY <1>1, <1>2, <1>3, <1>4 DEF QueueOK, Queue
<1>6. waiting' = <<>> /\ waiting' \in Seq(Errors)
  BY EmptySeq DEF ProcessPop
<1>7. reentered' \in BOOLEAN
  BY DEF ProcessPop
<1> QED BY <1>5, <1>6, <1>7, QueueLost

LEMMA PopKept ==
  ASSUME QueueOK, ProcessPop, ~reentered', queue.count > 0, Top.entry = queue.head
  PROVE  QueueOK'
<1>40. ~reentered /\ queue.count <= Capacity
  BY DEF ProcessPop, QueueOK
<1>1. PICK C, h, n, tl, sl : /\ C = Capacity /\ h = queue.head /\ n = queue.count /\ tl = queue.tail
                             /\ sl = queue.slot
  OBVIOUS
<1>2. /\ C \in Nat /\ C >= 1 /\ h \in Nat /\ h < C /\ n \in Nat /\ n <= C /\ n >= 1 /\ tl \in 0..C - 1
      /\ sl \in [0..C - 1 -> Errors \cup {None}]
  <2>1. /\ queue.head \in 0..Capacity - 1 /\ queue.tail \in 0..Capacity - 1 /\ queue.count \in 0..SizeWrap - 1
        /\ queue.slot \in [0..Capacity - 1 -> Errors \cup {None}]
    BY DEF QueueOK, Queue
  <2> QED BY <1>1, <1>40, <2>1, Sizes
<1>20. \A a \in Int : 0 <= a /\ a < C + C => Turn(a, C) = IF a < C THEN a ELSE a - C
  BY <1>2, Turned
<1>3. tl = Turn(h + n, C) /\ tl = IF h + n < C THEN h + n ELSE h + n - C
  <2>1. tl = Turn(h + n, C)
    BY <1>1, <1>40 DEF QueueOK, Turn
  <2> QED BY <1>2, <1>20, <2>1
<1>4. /\ n = Len(waiting)
      /\ \A k \in 1..n : sl[Turn(h + k - 1, C)] = waiting[k]
  BY <1>1, <1>2, <1>40, LenProperties DEF QueueOK, QueueFaithful, Turn
<1>5. PICK sm : sm = [sl EXCEPT ![h] = None]
  OBVIOUS
<1>6. sm \in [0..C - 1 -> Errors \cup {None}] /\ \A k \in 0..C - 1 : k # h => sm[k] = sl[k]
  BY <1>2, <1>5
<1>7. PICK hm : hm = Turn(h + 1, C)
  OBVIOUS
<1>8. hm = (IF h + 1 < C THEN h + 1 ELSE h + 1 - C) /\ hm \in 0..C - 1
  <2>1. PICK a : a = h + 1 /\ a \in Int
    BY <1>2
  <2>2. Turn(a, C) = (IF a < C THEN a ELSE a - C) /\ Turn(a, C) \in 0..C - 1
    BY <1>2, <1>20, <2>1
  <2> QED BY <1>2, <1>7, <2>1, <2>2
<1>30. PICK m : m = n - 1 /\ m \in 0..SizeWrap - 1 /\ m <= Capacity /\ m = (n - 1) % SizeWrap
  <2>1. PICK m : m = n - 1 /\ m \in Nat /\ m < SizeWrap /\ m <= Capacity /\ SizeWrap \in Nat /\ SizeWrap >= 1
    BY <1>1, <1>2, Sizes
  <2>2. Turn(m, SizeWrap) = m
    BY <2>1, Turned
  <2> QED BY <2>1, <2>2 DEF Turn
<1>9. queue' = [queue EXCEPT !.slot = sm, !.head = hm, !.count = m]
  BY <1>1, <1>5, <1>7, <1>30 DEF ProcessPop, QueueOK, Queue, Turn
<1>10. /\ queue' \in Queue
       /\ queue'.slot = sm /\ queue'.head = hm /\ queue'.count = m /\ queue'.tail = tl
  <2>1. queue' = [queue EXCEPT !.slot = sm, !.head = hm, !.count = m]
    BY <1>9, <1>30
  <2>2. queue \in Queue /\ sm \in [0..Capacity - 1 -> Errors \cup {None}] /\ hm \in 0..Capacity - 1
    BY <1>1, <1>6, <1>8 DEF QueueOK
  <2> QED BY <1>1, <1>30, <2>1, <2>2 DEF Queue
<1>11. /\ waiting' \in Seq(Errors) /\ Len(waiting') = n - 1
       /\ \A k \in 1..n - 1 : waiting'[k] = waiting[k + 1]
  <2>1. waiting # <<>> /\ waiting' = Tail(waiting) /\ waiting \in Seq(Errors)
    BY <1>2, <1>4, EmptySeq DEF ProcessPop, QueueOK
  <2> QED BY <1>4, <2>1, HeadTailProperties
<1>12. tl = Turn(hm + (n - 1), C)
  <2>1. Turn(hm + (n - 1), C) = IF hm + (n - 1) < C THEN hm + (n - 1) ELSE hm + (n - 1) - C
    <3>1. PICK a : a = hm + (n - 1) /\ a \in Int
      BY <1>2, <1>8
    <3>2. Turn(a, C) = IF a < C THEN a ELSE a - C
      BY <1>2, <1>8, <1>20, <3>1
    <3> QED BY <1>2, <1>8, <3>1, <3>2
  <2> QED BY <1>2, <1>3, <1>8, <2>1
<1>13. ASSUME NEW k \in 1..n - 1
       PROVE  sm[Turn(hm + k - 1, C)] = waiting'[k]
  <2>1. Turn(hm + k - 1, C) = (IF hm + k - 1 < C THEN hm + k - 1 ELSE hm + k - 1 - C) /\ Turn(hm + k - 1, C) \in 0..C - 1
    <3>1. PICK a : a = hm + k - 1 /\ a \in Int
      BY <1>2, <1>8
    <3>2. Turn(a, C) = (IF a < C THEN a ELSE a - C) /\ Turn(a, C) \in 0..C - 1
      BY <1>2, <1>8, <1>20, <3>1
    <3> QED BY <1>2, <1>8, <3>1, <3>2
  <2>2. Turn(h + (k + 1) - 1, C) = (IF h + k < C THEN h + k ELSE h + k - C)
    <3>1. PICK a : a = h + (k + 1) - 1 /\ a \in Int /\ a = h + k
      BY <1>2
    <3>2. Turn(a, C) = IF a < C THEN a ELSE a - C
      BY <1>2, <1>20, <3>1
    <3> QED BY <1>2, <1>8, <3>1, <3>2
  <2>3. Turn(hm + k - 1, C) = Turn(h + (k + 1) - 1, C) /\ Turn(hm + k - 1, C) # h
    BY <1>2, <1>8, <2>1, <2>2
  <2>4. k + 1 \in 1..n
    BY <1>2
  <2> QED BY <1>4, <1>6, <1>11, <2>1, <2>3, <2>4
<1>14. DOMAIN waiting' = 1..n - 1
  BY <1>11, LenProperties
<1>31. reentered' \in BOOLEAN
  BY DEF ProcessPop
<1> QED BY <1>1, <1>30, <1>31, <1>10, <1>11, <1>12, <1>13, <1>14 DEF QueueOK, QueueFaithful, Turn

LEMMA ClearOK ==
  ASSUME QueueOK, Clear
  PROVE  QueueOK'
<1>1. 0 \in 0..Capacity - 1 /\ 0 \in 0..SizeWrap - 1 /\ 0 <= Capacity /\ (0 + 0) % Capacity = 0
  BY Sizes
<1>2. queue' \in Queue /\ queue'.head = 0 /\ queue'.tail = 0 /\ queue'.count = 0
  BY <1>1 DEF Clear, QueueOK, Queue
<1>3. waiting' = <<>> /\ waiting' \in Seq(Errors) /\ Len(waiting') = 0 /\ DOMAIN waiting' = 1..0
  BY EmptySeq, LenProperties DEF Clear
<1>4. reentered' \in BOOLEAN
  BY DEF Clear, Processing
<1> QED BY <1>1, <1>2, <1>3, <1>4 DEF QueueOK, QueueFaithful

LEMMA QueueUnchanged ==
  ASSUME QueueOK, UNCHANGED queued
  PROVE  QueueOK'
BY DEF QueueOK, QueueFaithful, queued

-----------------------------------------------------------------------------
(* The calls in progress                                                   *)

LEMMA FrameDepth ==
  ASSUME NEW f \in Frames
  PROVE  f.depth \in Nat
BY DEF Frames, CallFrame, ProcessFrame

LEMMA PushFits ==
  ASSUME NEW d \in Nat, NEW q, NEW fs, CallsFit(fs, d, q), NEW r \in Frames, r.depth = d,
         r.kind = "process" => r.entry = None
  PROVE  CallsFit(Append(fs, r), d, q)
<1>1. PICK gs, m : gs = Append(fs, r) /\ m = Len(fs)
  OBVIOUS
<1>2. fs \in Seq(Frames) /\ m \in Nat
  BY <1>1, LenProperties DEF CallsFit
<1>3. gs \in Seq(Frames) /\ Len(gs) = m + 1 /\ gs[m + 1] = r /\ \A k \in 1..m : gs[k] = fs[k]
  BY <1>1, <1>2, AppendProperties
<1>4. \A k \in 1..m + 1 : k \in 1..m \/ k = m + 1
  BY <1>2
<1>5. \A k \in 1..m : fs[k] \in Frames /\ fs[k].depth \in Nat /\ fs[k].depth <= d
  BY <1>1, <1>2, ElementOfSeq, FrameDepth DEF CallsFit, Nested
<1>6. Nested(gs, d)
  <2>1. \A k \in 1..m + 1 : gs[k].depth <= d
    BY <1>3, <1>4, <1>5
  <2>2. \A k, l \in 1..m + 1 : k <= l => gs[k].depth <= gs[l].depth
    <3>1. SUFFICES ASSUME NEW k \in 1..m + 1, NEW l \in 1..m + 1, k <= l
                   PROVE  gs[k].depth <= gs[l].depth
      OBVIOUS
    <3>2. CASE l = m + 1
      BY <1>3, <2>1, <3>2
    <3>3. CASE l # m + 1
      <4>1. k \in 1..m /\ l \in 1..m
        BY <1>2, <3>1, <3>3
      <4> QED BY <1>1, <1>3, <3>1, <4>1 DEF CallsFit, Nested
    <3> QED BY <3>2, <3>3
  <2> QED BY <1>3, <2>1, <2>2 DEF Nested
<1>7. InProgress(gs, q)
  <2>1. \A k \in 1..m : fs[k].kind = "process" /\ fs[k].entry # None => fs[k].entry \in q
    BY <1>1 DEF CallsFit, InProgress
  <2> QED BY <1>3, <1>4, <2>1 DEF InProgress
<1> QED BY <1>1, <1>3, <1>6, <1>7 DEF CallsFit

LEMMA CutFits ==
  ASSUME NEW d \in Nat, NEW q, NEW fs, CallsFit(fs, d, q), NEW j \in 1..Len(fs)
  PROVE  CallsFit(SubSeq(fs, 1, j - 1), d, q) /\ CallsFit(SubSeq(fs, 1, j - 1), fs[j].depth, q)
<1>1. fs \in Seq(Frames) /\ Len(fs) \in Nat
  BY LenProperties DEF CallsFit
<1>2. PICK m : m = j - 1 /\ m \in Nat /\ m <= Len(fs)
  BY <1>1
<1>3. PICK gs : gs = SubSeq(fs, 1, m)
  OBVIOUS
<1>4. gs \in Seq(Frames) /\ Len(gs) = m /\ \A k \in 1..m : gs[k] = fs[k] /\ k \in 1..Len(fs) /\ k <= j
  <2>1. \A k \in 1..m : fs[k] \in Frames /\ k \in 1..Len(fs) /\ k <= j
    BY <1>1, <1>2, ElementOfSeq
  <2>2. /\ gs \in Seq(Frames) /\ Len(gs) = IF 1 <= m THEN m - 1 + 1 ELSE 0
        /\ \A k \in 1..m - 1 + 1 : gs[k] = fs[1 + k - 1]
    BY <1>2, <1>3, <2>1, SubSeqProperties
  <2>3. m - 1 + 1 = m /\ \A k \in 1..m : 1 + k - 1 = k
    BY <1>2
  <2>4. Len(gs) = m
    BY <1>2, <2>2, <2>3
  <2>5. \A k \in 1..m : gs[k] = fs[k]
    BY <2>2, <2>3
  <2> QED BY <2>1, <2>2, <2>4, <2>5
<1>5. Nested(gs, d) /\ Nested(gs, fs[j].depth)
  BY <1>4 DEF CallsFit, Nested
<1>6. InProgress(gs, q)
  BY <1>4 DEF CallsFit, InProgress
<1> QED BY <1>2, <1>3, <1>4, <1>5, <1>6 DEF CallsFit

LEMMA PopFits ==
  ASSUME NEW d \in Nat, NEW q, NEW fs, CallsFit(fs, d, q), fs # <<>>
  PROVE  CallsFit(Front(fs), d, q)
<1>1. Len(fs) \in 1..Len(fs)
  BY EmptySeq DEF CallsFit
<1> QED BY <1>1, CutFits DEF Front

(* The innermost call changes, and so may the entries being processed. *)
LEMMA SwapFits ==
  ASSUME NEW d \in Nat, NEW q, NEW fs, CallsFit(fs, d, q), fs # <<>>, NEW p,
         q \subseteq p \/ \A k \in 1..Len(fs) - 1 : fs[k].kind # "process",
         NEW top, top = fs[Len(fs)], NEW r \in Frames, r.depth = top.depth,
         r.kind = "process" => r.entry = None \/ r.entry \in p
  PROVE  CallsFit([fs EXCEPT ![Len(fs)] = r], d, p)
<1>1. PICK gs, z : gs = [fs EXCEPT ![Len(fs)] = r] /\ z = Len(fs)
  OBVIOUS
<1>2. fs \in Seq(Frames) /\ z \in Nat /\ z >= 1
  BY <1>1, EmptySeq DEF CallsFit
<1>3. gs \in Seq(Frames) /\ Len(gs) = z /\ \A k \in 1..z : gs[k] = IF k = z THEN r ELSE fs[k]
  BY <1>1, <1>2, ExceptSeq
<1>4. \A k \in 1..z : gs[k].depth = fs[k].depth
  BY <1>1, <1>3
<1>5. Nested(gs, d)
  BY <1>1, <1>3, <1>4 DEF CallsFit, Nested
<1>6. ASSUME NEW k \in 1..z, gs[k].kind = "process", gs[k].entry # None
      PROVE  gs[k].entry \in p
  <2>1. CASE k = z
    BY <1>3, <1>6, <2>1
  <2>2. CASE k # z
    <3>1. k \in 1..z - 1 /\ gs[k] = fs[k]
      BY <1>2, <1>3, <2>2
    <3>2. fs[k].entry \in q
      BY <1>1, <1>6, <3>1 DEF CallsFit, InProgress
    <3> QED BY <1>1, <1>6, <3>1, <3>2
  <2> QED BY <2>1, <2>2
<1> QED BY <1>1, <1>3, <1>5, <1>6 DEF CallsFit, InProgress

(* Other entries are processed: more of them, or none. *)
LEMMA MoreFit ==
  ASSUME NEW d, NEW q, NEW fs, CallsFit(fs, d, q), NEW p,
         q \subseteq p \/ \A k \in 1..Len(fs) : fs[k].kind # "process"
  PROVE  CallsFit(fs, d, p)
BY DEF CallsFit, InProgress

LEMMA ReportPushes ==
  ASSUME callback \in BOOLEAN, NEW e \in Reportable, NEW fs, NEW d \in Nat, Report(e, fs, d)
  PROVE  \E r \in CallFrame : r.kind = "report" /\ r.depth = d /\ frames' = Append(fs, r)
<1>1. /\ Frame("report", e, MaxPolicies, FALSE, d) \in CallFrame
      /\ Frame("report", e, MaxPolicies, FALSE, d).kind = "report"
      /\ Frame("report", e, MaxPolicies, FALSE, d).depth = d
  BY Sizes DEF Frame, CallFrame
<1>2. /\ Frame("report", e, 0, callback, d) \in CallFrame
      /\ Frame("report", e, 0, callback, d).kind = "report"
      /\ Frame("report", e, 0, callback, d).depth = d
  BY DEF Frame, CallFrame
<1> QED BY <1>1, <1>2 DEF Report

LEMMA ReportFits ==
  ASSUME callback \in BOOLEAN, NEW e \in Reportable, NEW d \in Nat, NEW q, NEW fs, CallsFit(fs, d, q),
         Report(e, fs, d)
  PROVE  CallsFit(frames', d, q)
<1>1. PICK r \in CallFrame : r.kind = "report" /\ r.depth = d /\ frames' = Append(fs, r)
  BY ReportPushes
<1> QED BY <1>1, PushFits DEF Frames

LEMMA CallsParts ==
  ASSUME CallsOK, QueueOK
  PROVE  /\ Len(scopes) \in Nat /\ queue.count \in Nat
         /\ frames \in Seq(Frames) /\ Len(frames) \in Nat
         /\ DOMAIN frames = 1..Len(frames)
         /\ frames # <<>> => /\ Len(frames) \in 1..Len(frames)
                             /\ Top = frames[Len(frames)] /\ Top \in Frames
                             /\ Top.depth \in Nat /\ Top.depth <= Len(scopes)
                             /\ \A k \in 1..Len(frames) : frames[k].depth <= Top.depth
<1>1. /\ Len(scopes) \in Nat /\ queue.count \in Nat
      /\ frames \in Seq(Frames) /\ Len(frames) \in Nat
      /\ DOMAIN frames = 1..Len(frames)
  BY LenProperties, Sizes DEF CallsOK, QueueOK, Queue, CallsFit
<1>2. ASSUME frames # <<>>
      PROVE  /\ Len(frames) \in 1..Len(frames)
             /\ Top = frames[Len(frames)] /\ Top \in Frames
             /\ Top.depth \in Nat /\ Top.depth <= Len(scopes)
             /\ \A k \in 1..Len(frames) : frames[k].depth <= Top.depth
  <2>1. Len(frames) \in 1..Len(frames)
    BY <1>1, <1>2, EmptySeq
  <2>2. Top \in Frames
    BY <1>1, <2>1, ElementOfSeq DEF Top
  <2>3. \A k \in 1..Len(frames) : k <= Len(frames)
    BY <1>1
  <2> QED BY <1>1, <2>1, <2>2, <2>3, FrameDepth DEF Top, CallsOK, CallsFit, Nested
<1> QED BY <1>1, <1>2

(* The scopes of the running code, and of the calls below it. *)
LEMMA BaseIs ==
  ASSUME CallsOK, QueueOK
  PROVE  /\ Base \in Nat /\ Base <= Len(scopes)
         /\ \A k \in 1..Len(frames) : frames[k].depth \in Nat /\ frames[k].depth <= Base
<1>1. \A k \in 1..Len(frames) : frames[k].depth \in Nat
  BY CallsParts, ElementOfSeq, FrameDepth
<1>2. CASE frames = <<>>
  <2>1. Len(frames) = 0 /\ Base = 0 /\ Len(scopes) \in Nat
    BY <1>2, EmptySeq, CallsParts DEF Base
  <2> QED BY <2>1
<1>3. CASE frames # <<>>
  BY <1>1, <1>3, CallsParts DEF Base
<1> QED BY <1>2, <1>3

LEMMA CallsHold ==
  ASSUME callback' \in BOOLEAN, scopes' \in Seq(Scope), CallsFit(frames', Len(scopes'), Heads')
  PROVE  CallsOK'
BY DEF CallsOK, CallsFit, Nested, InProgress

LEMMA CallsUnchanged ==
  ASSUME CallsOK, QueueOK, callback' \in BOOLEAN, UNCHANGED <<frames, scopes>>, UNCHANGED queued
  PROVE  CallsOK'
<1>1. Heads' = Heads
  BY DEF Heads, queued
<1> QED BY <1>1, CallsHold DEF CallsOK

LEMMA QueueCalls ==
  ASSUME CallsOK, QueueOK, UNCHANGED <<frames, scopes, callback>>,
         Clear \/ \E e \in Errors : Enqueue(e)
  PROVE  CallsOK'
<1>1. queue \in Queue /\ queue.count \in Nat /\ frames \in Seq(Frames) /\ DOMAIN frames = 1..Len(frames)
  BY CallsParts DEF QueueOK
<1>2. Heads \subseteq 0..Capacity - 1
  BY <1>1 DEF Heads, Queue
<1>3. Heads \subseteq Heads' \/ \A k \in 1..Len(frames) : frames[k].kind # "process"
  <2>1. CASE Clear
    <3>1. CASE reentered'
      BY <1>2, <3>1 DEF Heads
    <3>2. CASE ~reentered'
      BY <1>1, <2>1, <3>2 DEF Clear, Processing
    <3> QED BY <3>1, <3>2
  <2>2. CASE \E e \in Errors : Enqueue(e)
    <3>1. queue'.count = queue.count + 1 /\ queue'.head = queue.head /\ reentered' = reentered
      BY <1>1, <2>2 DEF Enqueue, Queue
    <3> QED BY <1>1, <3>1 DEF Heads
  <2> QED BY <2>1, <2>2
<1>4. CallsFit(frames, Len(scopes), Heads')
  BY <1>3, MoreFit DEF CallsOK
<1> QED BY <1>4, CallsHold DEF CallsOK

LEMMA FrontIs ==
  ASSUME NEW S, NEW q \in Seq(S), q # <<>>
  PROVE  Front(q) \in Seq(S) /\ Len(Front(q)) = Len(q) - 1
<1>1. Len(q) \in Nat /\ Len(q) >= 1
  BY EmptySeq
<1>2. PICK m : m = Len(q) - 1 /\ m \in Nat
  BY <1>1
<1>3. \A k \in 1..m : q[k] \in S
  BY <1>1, <1>2, ElementOfSeq
<1>4. SubSeq(q, 1, m) \in Seq(S) /\ Len(SubSeq(q, 1, m)) = IF 1 <= m THEN m - 1 + 1 ELSE 0
  BY <1>2, <1>3, SubSeqProperties
<1>5. (IF 1 <= m THEN m - 1 + 1 ELSE 0) = m
  BY <1>2
<1> QED BY <1>2, <1>4, <1>5 DEF Front

(* The first n members of a sequence. *)
LEMMA CutIs ==
  ASSUME NEW S, NEW q \in Seq(S), NEW n \in Nat, n <= Len(q)
  PROVE  /\ SubSeq(q, 1, n) \in Seq(S) /\ Len(SubSeq(q, 1, n)) = n
         /\ \A k \in 1..n : SubSeq(q, 1, n)[k] = q[k]
<1>1. Len(q) \in Nat
  BY LenProperties
<1>2. \A k \in 1..n : q[k] \in S
  BY <1>1, ElementOfSeq
<1>3. /\ SubSeq(q, 1, n) \in Seq(S) /\ Len(SubSeq(q, 1, n)) = (IF 1 <= n THEN n - 1 + 1 ELSE 0)
      /\ \A k \in 1..n - 1 + 1 : SubSeq(q, 1, n)[k] = q[1 + k - 1]
  BY <1>2, SubSeqProperties
<1>4. (IF 1 <= n THEN n - 1 + 1 ELSE 0) = n /\ n - 1 + 1 = n /\ \A k \in 1..n : 1 + k - 1 = k
  OBVIOUS
<1> QED BY <1>3, <1>4

(* The guards above a depth. *)
LEMMA GuardsAre ==
  ASSUME scopes \in Seq(Scope), NEW d \in Nat, d <= Len(scopes)
  PROVE  /\ Cardinality(Guards(d)) \in Nat /\ Cardinality(Guards(d)) <= Len(scopes) - d
         /\ Guards(d) \subseteq 1..Len(scopes)
         /\ Guards(d) # {} => Max(Guards(d)) \in Guards(d)
<1>1. Len(scopes) \in Nat /\ DOMAIN scopes = 1..Len(scopes)
  BY LenProperties
<1>2. Guards(d) \subseteq d + 1..Len(scopes) /\ Guards(d) \subseteq 1..Len(scopes)
  BY <1>1 DEF Guards
<1>3. PICK lo, hi : lo = d + 1 /\ hi = Len(scopes) /\ lo \in Int /\ hi \in Int
  BY <1>1
<1>4. IsFiniteSet(lo..hi) /\ Cardinality(lo..hi) = IF lo > hi THEN 0 ELSE hi - lo + 1
  BY <1>3, FS_Interval
<1>5. /\ IsFiniteSet(Guards(d)) /\ Cardinality(Guards(d)) <= Cardinality(lo..hi)
      /\ Cardinality(Guards(d)) \in Nat
  BY <1>2, <1>3, <1>4, FS_Subset, FS_CardinalityType
<1>6. Cardinality(Guards(d)) <= Len(scopes) - d
  BY <1>1, <1>3, <1>4, <1>5
<1> QED BY <1>1, <1>2, <1>5, <1>6, MaxExists

(* A scope is entered or left: the calls in progress were made in fewer.   *)
LEMMA ScopeCalls ==
  ASSUME CallsOK, QueueOK, UNCHANGED <<frames, callback>>, UNCHANGED queued,
         scopes' \in Seq(Scope), Base <= Len(scopes')
  PROVE  CallsOK'
<1>1. Len(scopes') \in Nat
  BY LenProperties
<1>2. Nested(frames, Len(scopes'))
  BY <1>1, BaseIs DEF CallsOK, CallsFit, Nested
<1>3. Heads' = Heads
  BY DEF Heads, queued
<1>4. CallsFit(frames', Len(scopes'), Heads')
  BY <1>2, <1>3 DEF CallsOK, CallsFit
<1> QED BY <1>4, CallsHold DEF CallsOK

(* What the steps that push and pop leave alone. *)
LEMMA Scoping ==
  ASSUME LeaveScope \/ PopContext \/ \E c \in Places : EnterScope(c) \/ PushContext(c)
  PROVE  UNCHANGED <<frames, callback>> /\ UNCHANGED queued /\ UNCHANGED counted
         /\ UNCHANGED <<now, window, throttle, seen, age>>
BY DEF LeaveScope, PopContext, EnterScope, PushContext, Push, config

(* A push, and the scopes that are left: those above some depth, which is  *)
(* at least that of the running code.                                      *)
LEMMA Pushing ==
  ASSUME scopes \in Seq(Scope), NEW c \in Places, EnterScope(c) \/ PushContext(c)
  PROVE  /\ \E g \in BOOLEAN : scopes' = Append(scopes, [context |-> c, guard |-> g])
         /\ scopes' \in Seq(Scope) /\ Len(scopes') = Len(scopes) + 1
         /\ scopes'[Len(scopes) + 1].context = c /\ \A k \in 1..Len(scopes) : scopes'[k] = scopes[k]
<1>1. PICK g \in BOOLEAN : scopes' = Append(scopes, [context |-> c, guard |-> g])
  BY DEF EnterScope, PushContext, Push
<1>2. PICK x : x = [context |-> c, guard |-> g]
  OBVIOUS
<1>3. x \in Scope /\ x.context = c
  BY <1>2 DEF Scope
<1> QED BY <1>1, <1>2, <1>3, AppendProperties

LEMMA ScopeStep ==
  ASSUME CallsOK, QueueOK, LeaveScope \/ PopContext \/ \E c \in Places : EnterScope(c) \/ PushContext(c)
  PROVE  CallsOK'
<1>1. /\ scopes \in Seq(Scope) /\ Len(scopes) \in Nat /\ Base \in Nat /\ Base <= Len(scopes)
  BY CallsParts, BaseIs DEF CallsOK
<1>2. ASSUME NEW c \in Places, EnterScope(c) \/ PushContext(c)
      PROVE  scopes' \in Seq(Scope) /\ Base <= Len(scopes')
  BY <1>1, <1>2, Pushing
<1>3. ASSUME LeaveScope
      PROVE  scopes' \in Seq(Scope) /\ Base <= Len(scopes')
  <2>1. PICK g : g = Max(Guards(Base)) /\ scopes' = SubSeq(scopes, 1, g - 1) /\ g \in Guards(Base)
    BY <1>1, <1>3, GuardsAre DEF LeaveScope
  <2>2. g \in 1..Len(scopes) /\ g > Base
    BY <1>1, <2>1, LenProperties DEF Guards
  <2>3. PICK m : m = g - 1 /\ m \in Nat /\ m <= Len(scopes) /\ Base <= m
    BY <1>1, <2>2
  <2> QED BY <1>1, <2>1, <2>3, CutIs
<1>4. ASSUME PopContext
      PROVE  scopes' \in Seq(Scope) /\ Base <= Len(scopes')
  <2>1. CASE scopes' = scopes
    BY <1>1, <2>1
  <2>2. CASE scopes' = Front(scopes) /\ Len(scopes) > Base
    <3>1. scopes # <<>>
      BY <1>1, <2>2, EmptySeq
    <3> QED BY <1>1, <2>2, <3>1, FrontIs
  <2> QED BY <1>4, <2>1, <2>2 DEF PopContext
<1>5. scopes' \in Seq(Scope) /\ Base <= Len(scopes')
  BY <1>2, <1>3, <1>4
<1> QED BY <1>5, Scoping, ScopeCalls

LEMMA FramesHold ==
  ASSUME CallsOK, QueueOK, UNCHANGED <<scopes, callback>>, CallsFit(frames', Len(scopes), Heads')
  PROVE  CallsOK'
BY CallsHold DEF CallsOK

LEMMA HeadsStay ==
  ASSUME UNCHANGED queued
  PROVE  Heads' = Heads
BY DEF Heads, queued

LEMMA PopCalls ==
  ASSUME CallsOK, QueueOK, Reported \/ Return \/ ProcessEnd
  PROVE  CallsOK'
<1>1. frames # <<>> /\ frames' = Front(frames) /\ UNCHANGED <<scopes, callback>> /\ UNCHANGED queued
  BY DEF Reported, Return, ProcessEnd, Returning, At, config, contexts
<1>2. CallsFit(Front(frames), Len(scopes), Heads)
  BY <1>1, CallsParts, PopFits DEF CallsOK
<1>3. Heads' = Heads
  BY <1>1, HeadsStay
<1> QED BY <1>1, <1>2, <1>3, FramesHold

LEMMA SwapCalls ==
  ASSUME CallsOK, QueueOK, DispatchToPolicies \/ Fallback
  PROVE  CallsOK'
<1>1. /\ frames # <<>> /\ UNCHANGED <<scopes, callback>> /\ UNCHANGED queued
      /\ Top.kind \in {"report", "failed"}
  BY DEF DispatchToPolicies, Fallback, Returning, At, config, contexts
<1>2. Top \in CallFrame
  BY <1>1, CallsParts DEF Frames, ProcessFrame
<1>3. PICK r : r \in Frames /\ r.depth = Top.depth /\ r.kind # "process" /\ frames' = [frames EXCEPT ![Len(frames)] = r]
  <2>1. CASE DispatchToPolicies
    <3>1. PICK r, b : /\ frames' = Replaced(r)
                      /\ b \in BOOLEAN /\ r = [Top EXCEPT !.at = @ + 1, !.running = b]
      BY <2>1 DEF DispatchToPolicies, Calls
    <3>2. r \in Frames /\ r.depth = Top.depth /\ r.kind # "process"
      <4>1. PICK m \in Nat : m = Top.at + 1
        BY <1>2 DEF CallFrame
      <4>2. r = [Top EXCEPT !.at = m, !.running = b]
        BY <1>2, <3>1, <4>1 DEF CallFrame
      <4> QED BY <1>1, <1>2, <3>1, <4>2 DEF CallFrame, Frames
    <3> QED BY <3>1, <3>2 DEF Replaced
  <2>2. CASE Fallback
    <3>1. PICK r : r = [Top EXCEPT !.kind = "fallback", !.running = TRUE]
      OBVIOUS
    <3>2. r \in Frames /\ r.depth = Top.depth /\ r.kind # "process"
      BY <1>2, <3>1 DEF CallFrame, Frames
    <3> QED BY <2>2, <3>1, <3>2 DEF Fallback, Replaced
  <2> QED BY <2>1, <2>2
<1>4. CallsFit(frames, Len(scopes), Heads) /\ Len(scopes) \in Nat
  BY CallsParts DEF CallsOK
<1>5. CallsFit([frames EXCEPT ![Len(frames)] = r], Len(scopes), Heads)
  BY <1>1, <1>3, <1>4, SwapFits, CallsParts
<1>6. Heads' = Heads
  BY <1>1, HeadsStay
<1> QED BY <1>1, <1>3, <1>5, <1>6, FramesHold

LEMMA PushCalls ==
  ASSUME CallsOK, QueueOK,
         \/ \E n \in {0, 1} : Process(n)
         \/ \E c \in Contexts, b \in BOOLEAN : ExecuteSafe(c, b)
  PROVE  CallsOK'
<1>1. UNCHANGED <<scopes, callback>> /\ UNCHANGED queued
  BY DEF Process, ExecuteSafe, config, contexts
<1>2. PICK r : /\ frames' = Append(frames, r) /\ r \in Frames /\ r.depth = Len(scopes)
               /\ r.kind = "process" => r.entry = None
  <2>1. Len(scopes) \in Nat /\ queue.count \in Nat
    BY CallsParts
  <2>2. ASSUME NEW n \in {0, 1}, Process(n)
        PROVE  \E r : /\ frames' = Append(frames, r) /\ r \in Frames /\ r.depth = Len(scopes)
                      /\ r.kind = "process" => r.entry = None
    <3>1. PICK m \in Nat : m = IF n = 0 THEN queue.count ELSE n
      BY <2>1
    <3>2. PICK r : r = [kind |-> "process", depth |-> Len(scopes), running |-> FALSE,
                        entry |-> None, left |-> m]
      OBVIOUS
    <3>3. r \in Frames /\ r.depth = Len(scopes) /\ r.entry = None
      BY <2>1, <3>1, <3>2 DEF Frames, ProcessFrame
    <3>4. frames' = Append(frames, r)
      BY <2>2, <3>1, <3>2 DEF Process
    <3> QED BY <3>3, <3>4
  <2>3. ASSUME NEW c \in Contexts, NEW b \in BOOLEAN, ExecuteSafe(c, b)
        PROVE  \E r : frames' = Append(frames, r) /\ r \in Frames /\ r.depth = Len(scopes) /\ r.kind # "process"
    <3>1. PICK m \in Nat : m = IF b THEN 1 ELSE 0
      OBVIOUS
    <3>2. PICK r : r = Frame("safe", Failure(c, Error), m, TRUE, Len(scopes))
      OBVIOUS
    <3>3. Failure(c, Error) \in Reportable
      BY DEF Reportable
    <3>4. r \in Frames /\ r.depth = Len(scopes) /\ r.kind # "process"
      BY <2>1, <3>1, <3>2, <3>3 DEF Frames, CallFrame, Frame
    <3> QED BY <2>3, <3>1, <3>2, <3>4 DEF ExecuteSafe
  <2> QED BY <2>2, <2>3
<1>3. CallsFit(frames, Len(scopes), Heads) /\ Len(scopes) \in Nat
  BY CallsParts DEF CallsOK
<1>4. CallsFit(Append(frames, r), Len(scopes), Heads)
  BY <1>2, <1>3, PushFits
<1>5. Heads' = Heads
  BY <1>1, HeadsStay
<1> QED BY <1>1, <1>2, <1>4, <1>5, FramesHold

LEMMA ReportCalls ==
  ASSUME CallsOK, QueueOK, NEW e \in Errors, ReportError(e)
  PROVE  CallsOK'
<1>1. /\ UNCHANGED <<scopes, callback>> /\ UNCHANGED queued
      /\ Report(e, frames, Len(scopes)) /\ e \in Reportable
  BY DEF ReportError, config, contexts, Reportable
<1>2. CallsFit(frames, Len(scopes), Heads) /\ Len(scopes) \in Nat /\ callback \in BOOLEAN
  BY CallsParts DEF CallsOK
<1>3. CallsFit(frames', Len(scopes), Heads) /\ Heads' = Heads
  BY <1>1, <1>2, ReportFits, HeadsStay
<1> QED BY <1>1, <1>3, FramesHold

(* executeSafe() of a null function: its call, and what it reports. *)
LEMMA NullReported ==
  ASSUME CallsOK, QueueOK, NEW c \in Contexts, NEW b \in BOOLEAN, ExecuteNull(c, b)
  PROVE  \E fs, e : /\ CallsFit(fs, Len(scopes), Heads)
                    /\ e \in Reportable /\ Report(e, fs, Len(scopes))
<1>1. Len(scopes) \in Nat /\ CallsFit(frames, Len(scopes), Heads)
  BY CallsParts DEF CallsOK
<1>2. PICK m \in Nat : m = IF b THEN 1 ELSE 0
  OBVIOUS
<1>3. PICK r : r = Frame("failed", Failure(c, Error), m, FALSE, Len(scopes))
  OBVIOUS
<1>4. Failure(c, Error) \in Reportable /\ Failure(c, Warning) \in Reportable
  BY DEF Reportable
<1>5. r \in Frames /\ r.depth = Len(scopes) /\ r.kind # "process"
  BY <1>1, <1>2, <1>3, <1>4 DEF Frames, CallFrame, Frame
<1>6. CallsFit(Append(frames, r), Len(scopes), Heads)
  BY <1>1, <1>5, PushFits
<1>7. Report(Failure(c, Warning), Append(frames, r), Len(scopes))
  BY <1>2, <1>3 DEF ExecuteNull
<1> QED BY <1>4, <1>6, <1>7

LEMMA NullCalls ==
  ASSUME CallsOK, QueueOK, NEW c \in Contexts, NEW b \in BOOLEAN, ExecuteNull(c, b)
  PROVE  CallsOK'
<1>1. PICK fs, e : /\ CallsFit(fs, Len(scopes), Heads)
                   /\ e \in Reportable /\ Report(e, fs, Len(scopes))
  BY NullReported
<1>2. Len(scopes) \in Nat /\ callback \in BOOLEAN
  BY CallsParts DEF CallsOK
<1>3. CallsFit(frames', Len(scopes), Heads)
  BY <1>1, <1>2, ReportFits
<1>4. UNCHANGED <<scopes, callback>> /\ UNCHANGED queued
  BY DEF ExecuteNull, config, contexts
<1> QED BY <1>3, <1>4, HeadsStay, FramesHold

(* The entry that processOne() reports, if it is valid. *)
LEMMA HeadReported ==
  ASSUME CallsOK, QueueOK, ProcessHead
  PROVE  LET below == Replaced([Top EXCEPT !.entry = queue.head]) IN
         /\ CallsFit(below, Len(scopes), Heads)
         /\ \/ frames' = below /\ UNCHANGED <<throttle, seen, counted, age>>
            \/ \E e \in Errors : Report(e, below, Len(scopes))
<1>1. frames # <<>> /\ Top.kind = "process" /\ queue.count > 0 /\ queue.head \in 0..Capacity - 1
  BY DEF ProcessHead, At, QueueOK, Queue
<1>2. Top \in ProcessFrame
  BY <1>1, CallsParts DEF Frames, CallFrame
<1>3. PICK r : r = [Top EXCEPT !.entry = queue.head]
  OBVIOUS
<1>4. r \in Frames /\ r.depth = Top.depth /\ r.kind = "process" /\ r.entry = queue.head
  BY <1>1, <1>2, <1>3 DEF ProcessFrame, Frames
<1>5. CallsFit(frames, Len(scopes), Heads) /\ Len(scopes) \in Nat
  BY CallsParts DEF CallsOK
<1>6. r.entry \in Heads
  BY <1>1, <1>4 DEF Heads
<1>7. CallsFit([frames EXCEPT ![Len(frames)] = r], Len(scopes), Heads)
  BY <1>1, <1>4, <1>5, <1>6, SwapFits, CallsParts
<1>8. queue.slot[queue.head] # None => queue.slot[queue.head] \in Errors
  BY Sizes DEF QueueOK, Queue
<1> QED BY <1>3, <1>7, <1>8 DEF ProcessHead, Replaced

LEMMA HeadCalls ==
  ASSUME CallsOK, QueueOK, ProcessHead
  PROVE  CallsOK'
<1>1. UNCHANGED <<scopes, callback>> /\ UNCHANGED queued
  BY DEF ProcessHead, config, contexts
<1>2. PICK below : /\ CallsFit(below, Len(scopes), Heads)
                   /\ frames' = below \/ \E e \in Errors : Report(e, below, Len(scopes))
  BY HeadReported
<1>3. Len(scopes) \in Nat /\ callback \in BOOLEAN
  BY CallsParts DEF CallsOK
<1>4. ASSUME NEW e \in Errors, Report(e, below, Len(scopes))
      PROVE  CallsFit(frames', Len(scopes), Heads)
  <2>1. e \in Reportable
    BY DEF Reportable
  <2> QED BY <1>2, <1>3, <1>4, <2>1, ReportFits
<1>5. CallsFit(frames', Len(scopes), Heads) /\ Heads' = Heads
  BY <1>1, <1>2, <1>4, HeadsStay
<1> QED BY <1>1, <1>5, FramesHold

(* The entry taken off is the one at the head, unless a callback has taken *)
(* entries off before.                                                     *)
LEMMA EntryIs ==
  ASSUME CallsOK, QueueOK, ProcessPop
  PROVE  /\ frames # <<>> /\ Top \in ProcessFrame /\ Top.entry \in Heads /\ Top.entry \in 0..Capacity - 1
         /\ ~reentered => queue.count > 0 /\ Top.entry = queue.head
<1>1. frames # <<>> /\ Top.kind = "process" /\ Top.entry # None
  BY DEF ProcessPop, At
<1>2. Top \in ProcessFrame
  BY <1>1, CallsParts DEF Frames, CallFrame
<1>3. Top.entry \in Heads
  BY <1>1, CallsParts DEF CallsOK, CallsFit, InProgress
<1>4. Top.entry \in 0..Capacity - 1
  BY <1>1, <1>2 DEF ProcessFrame
<1> QED BY <1>1, <1>2, <1>3, <1>4 DEF Heads

LEMMA PopQueueOK ==
  ASSUME CallsOK, QueueOK, ProcessPop
  PROVE  QueueOK'
<1>1. CASE reentered'
  BY <1>1, EntryIs, PopLost
<1>2. CASE ~reentered'
  <2>1. ~reentered
    BY <1>2 DEF ProcessPop
  <2> QED BY <1>2, <2>1, EntryIs, PopKept
<1> QED BY <1>1, <1>2

LEMMA PopEntryCalls ==
  ASSUME CallsOK, QueueOK, ProcessPop
  PROVE  CallsOK'
<1>1. /\ UNCHANGED <<scopes, callback>>
      /\ frames' = Replaced([Top EXCEPT !.entry = None, !.left = @ - 1])
  BY DEF ProcessPop, config, contexts
<1>2. frames # <<>> /\ Top \in ProcessFrame
  BY EntryIs
<1>3. PICK r : r = [Top EXCEPT !.entry = None, !.left = @ - 1]
  OBVIOUS
<1>4. r \in Frames /\ r.depth = Top.depth /\ r.entry = None
  <2>1. PICK m \in Int : m = Top.left - 1
    BY <1>2 DEF ProcessFrame
  <2>2. r = [Top EXCEPT !.entry = None, !.left = m]
    BY <1>2, <1>3, <2>1 DEF ProcessFrame
  <2> QED BY <1>2, <2>2 DEF ProcessFrame, Frames
<1>5. CallsFit(frames, Len(scopes), Heads) /\ Len(scopes) \in Nat
  BY CallsParts DEF CallsOK
<1>6. Heads \subseteq Heads' \/ \A k \in 1..Len(frames) - 1 : frames[k].kind # "process"
  <2>1. CASE reentered'
    <3>1. Heads \subseteq 0..Capacity - 1
      BY DEF Heads, QueueOK, Queue
    <3> QED BY <2>1, <3>1 DEF Heads
  <2>2. CASE ~reentered'
    BY <2>2 DEF ProcessPop, Processing
  <2> QED BY <2>1, <2>2
<1>7. CallsFit([frames EXCEPT ![Len(frames)] = r], Len(scopes), Heads')
  BY <1>2, <1>4, <1>5, <1>6, SwapFits, CallsParts
<1> QED BY <1>1, <1>3, <1>7, FramesHold DEF Replaced

(* Where an exception is caught: the frame that catches it, its scopes and *)
(* the calls that are left when its failure is reported.                   *)
LEMMA ThrowCaught ==
  ASSUME CallsOK, QueueOK, NEW s \in {Error, Critical}, Throw(s)
  PROVE  \E d, fs, e : /\ d \in Nat /\ d <= Len(scopes) /\ CallsFit(fs, d, Heads)
                       /\ e \in Reportable /\ Report(e, fs, d)
                       /\ scopes' = SubSeq(scopes, 1, d) /\ stack' = Unwound(Cardinality(Guards(d)))
                       /\ Afresh(Cardinality(Guards(d)) < Len(scopes) - d)
<1>1. PICK j, f : j = Max(Catching) /\ f = frames[j]
  OBVIOUS
<1>2. /\ CallsFit(frames, Len(scopes), Heads) /\ Len(scopes) \in Nat
      /\ frames \in Seq(Frames) /\ Len(frames) \in Nat /\ DOMAIN frames = 1..Len(frames)
  BY CallsParts DEF CallsOK
<1>3. j \in Catching /\ j \in 1..Len(frames)
  <2>1. Catching \subseteq 1..Len(frames) /\ Catching # {}
    BY <1>2 DEF Catching, Throw
  <2> QED BY <1>1, <1>2, <2>1, MaxExists
<1>4. f \in CallFrame /\ f.kind \in {"safe", "fallback"}
  <2>1. f \in Frames
    BY <1>1, <1>2, <1>3, ElementOfSeq
  <2> QED BY <1>1, <1>3, <2>1 DEF Catching, Frames, ProcessFrame
<1>5. PICK a : a = IF f.kind = "safe" THEN f.at ELSE 0
  OBVIOUS
<1>6. PICK r : r = [f EXCEPT !.kind = "failed", !.running = FALSE, !.at = a]
  OBVIOUS
<1>7. r \in Frames /\ r.depth = f.depth /\ r.kind = "failed"
  <2>1. a \in Nat
    BY <1>4, <1>5 DEF CallFrame
  <2> QED BY <1>4, <1>6, <2>1 DEF CallFrame, Frames
<1>8. PICK d : d = f.depth /\ d \in Nat /\ d <= Len(scopes)
  BY <1>1, <1>2, <1>3, <1>4 DEF CallFrame, CallsFit, Nested
<1>9. PICK fs : fs = Append(SubSeq(frames, 1, j - 1), r)
  OBVIOUS
<1>10. CallsFit(fs, d, Heads)
  <2>1. CallsFit(SubSeq(frames, 1, j - 1), d, Heads)
    BY <1>1, <1>2, <1>3, <1>8, CutFits
  <2> QED BY <1>2, <1>7, <1>8, <1>9, <2>1, PushFits
<1>11. PICK e : e = Failure(f.error.context, s)
  OBVIOUS
<1>12. e \in Reportable
  BY <1>4, <1>11, ReportableParts DEF CallFrame, Reportable
<1>13. /\ scopes' = SubSeq(scopes, 1, d) /\ stack' = Unwound(Cardinality(Guards(d)))
       /\ Afresh(Cardinality(Guards(d)) < Len(scopes) - d) /\ Report(e, fs, d)
  <2>1. r = [f EXCEPT !.kind = "failed", !.running = FALSE, !.at = IF f.kind = "safe" THEN @ ELSE 0]
    BY <1>4, <1>5, <1>6 DEF CallFrame
  <2> QED BY <1>1, <1>8, <1>9, <1>11, <2>1 DEF Throw
<1> QED BY <1>8, <1>10, <1>12, <1>13

LEMMA ThrowCalls ==
  ASSUME CallsOK, QueueOK, NEW s \in {Error, Critical}, Throw(s)
  PROVE  CallsOK'
<1>1. PICK d, fs, e : /\ d \in Nat /\ d <= Len(scopes) /\ CallsFit(fs, d, Heads)
                      /\ e \in Reportable /\ Report(e, fs, d) /\ scopes' = SubSeq(scopes, 1, d)
  BY ThrowCaught
<1>2. scopes \in Seq(Scope) /\ callback \in BOOLEAN
  BY DEF CallsOK
<1>3. callback' = callback /\ UNCHANGED queued
  BY DEF Throw, config
<1>4. scopes' \in Seq(Scope) /\ Len(scopes') = d
  BY <1>1, <1>2, CutIs
<1>5. CallsFit(frames', d, Heads) /\ Heads' = Heads
  BY <1>1, <1>2, <1>3, ReportFits, HeadsStay
<1> QED BY <1>2, <1>3, <1>4, <1>5, CallsHold

LEMMA CallsStep ==
  ASSUME CallsOK, QueueOK, Next
  PROVE  CallsOK'
<1>1. ASSUME NEW e \in Errors, ReportError(e) \/ Enqueue(e)
      PROVE  CallsOK'
  BY <1>1, ReportCalls, QueueCalls DEF Enqueue, config, contexts
<1>2. CASE DispatchToPolicies \/ Fallback
  BY <1>2, SwapCalls
<1>3. CASE Reported \/ Return \/ ProcessEnd
  BY <1>3, PopCalls
<1>4. CASE \/ \E k \in Kinds : RegisterPolicy(k)
           \/ \E s \in Filters : SetFilter(s)
           \/ \E c \in Contexts, i \in Intervals : SetThrottle(c, i)
           \/ \E w \in Intervals \union {None} : SetDeduplication(w)
           \/ OnError \/ ResetStats \/ Tick
  <2>1. callback' \in BOOLEAN /\ UNCHANGED <<frames, scopes>> /\ UNCHANGED queued
    BY <1>4 DEF RegisterPolicy, SetFilter, SetThrottle, SetDeduplication, OnError, ResetStats, Tick, CallsOK, config, contexts
  <2> QED BY <2>1, CallsUnchanged
<1>5. CASE LeaveScope \/ PopContext \/ \E c \in Places : EnterScope(c) \/ PushContext(c)
  BY <1>5, ScopeStep
<1>6. CASE \/ \E n \in {0, 1} : Process(n)
           \/ \E c \in Contexts, b \in BOOLEAN : ExecuteSafe(c, b)
  BY <1>6, PushCalls
<1>7. ASSUME NEW s \in {Error, Critical}, Throw(s)
      PROVE  CallsOK'
  BY <1>7, ThrowCalls
<1>8. CASE ProcessHead
  BY <1>8, HeadCalls
<1>9. CASE ProcessPop
  BY <1>9, PopEntryCalls
<1>10. CASE Clear
  BY <1>10, QueueCalls DEF Clear, config, contexts
<1>11. ASSUME NEW c \in Contexts, NEW b \in BOOLEAN, ExecuteNull(c, b)
       PROVE  CallsOK'
  BY <1>11, NullCalls
<1> QED BY <1>1, <1>2, <1>3, <1>4, <1>5, <1>6, <1>7, <1>8, <1>9, <1>10, <1>11 DEF Next

LEMMA QueueStep ==
  ASSUME CallsOK, QueueOK, Next
  PROVE  QueueOK'
<1>1. ASSUME NEW e \in Errors, ReportError(e) \/ Enqueue(e)
      PROVE  QueueOK'
  BY <1>1, EnqueueOK, QueueUnchanged DEF ReportError
<1>2. CASE ProcessPop
  BY <1>2, PopQueueOK
<1>3. CASE Clear
  BY <1>3, ClearOK
<1>4. CASE \/ DispatchToPolicies \/ Reported \/ OnError \/ ResetStats \/ Return \/ Fallback
           \/ ProcessHead \/ ProcessEnd \/ Tick
  BY <1>4, QueueUnchanged DEF DispatchToPolicies, Reported, OnError, ResetStats, Return, Fallback,
                              ProcessHead, ProcessEnd, Tick
<1>5. CASE \/ \E k \in Kinds : RegisterPolicy(k)
           \/ \E s \in Filters : SetFilter(s)
           \/ \E c \in Contexts, i \in Intervals : SetThrottle(c, i)
           \/ \E w \in Intervals \union {None} : SetDeduplication(w)
           \/ \E c \in Contexts, b \in BOOLEAN : ExecuteSafe(c, b) \/ ExecuteNull(c, b)
           \/ \E s \in {Error, Critical} : Throw(s)
           \/ \E n \in {0, 1} : Process(n)
  BY <1>5, QueueUnchanged DEF RegisterPolicy, SetFilter, SetThrottle, SetDeduplication, ExecuteSafe, ExecuteNull,
                              Throw, Process
<1>6. CASE LeaveScope \/ PopContext \/ \E c \in Places : EnterScope(c) \/ PushContext(c)
  BY <1>6, Scoping, QueueUnchanged
<1> QED BY <1>1, <1>2, <1>3, <1>4, <1>5, <1>6 DEF Next

-----------------------------------------------------------------------------
(* The context stack                                                       *)

LEMMA PushTracks ==
  ASSUME ContextsOK, NEW c \in Places, EnterScope(c) \/ PushContext(c)
  PROVE  ContextsOK'
<1>1. /\ stack \in Seq(Places) /\ scopes \in Seq(Scope) /\ Len(stack) \in Nat /\ Len(scopes) \in Nat
      /\ unpaired \in BOOLEAN /\ dropped \in BOOLEAN /\ StackMax \in Nat
  BY LenProperties, Sizes DEF ContextsOK, Tracks
<1>2. /\ scopes' \in Seq(Scope) /\ Len(scopes') = Len(scopes) + 1
      /\ scopes'[Len(scopes) + 1].context = c /\ \A k \in 1..Len(scopes) : scopes'[k] = scopes[k]
  BY <1>1, Pushing
<1>3. /\ unpaired' = unpaired /\ dropped' \in BOOLEAN
      /\ stack' = Pushed(c) /\ dropped' = (dropped \/ Len(stack) >= StackMax)
  BY <1>1 DEF EnterScope, PushContext, Push
<1>6. ~dropped' => ~dropped /\ Len(stack) < StackMax
  <2>1. ~dropped' => ~dropped /\ ~(Len(stack) >= StackMax)
    BY <1>3, Zenon
  <2> QED BY <1>1, <2>1
<1>4. CASE Len(stack) < StackMax
  <2>1. /\ stack' \in Seq(Places) /\ Len(stack') = Len(stack) + 1 /\ stack'[Len(stack) + 1] = c
        /\ \A k \in 1..Len(stack) : stack'[k] = stack[k]
    BY <1>1, <1>3, <1>4, AppendProperties DEF Pushed
  <2>2. ~unpaired' => Len(stack') <= Len(scopes')
    BY <1>1, <1>2, <1>3, <2>1 DEF ContextsOK, Tracks
  <2>3. ASSUME ~unpaired', ~dropped'
        PROVE  Len(stack') = Len(scopes') /\ \A k \in 1..Len(scopes') : stack'[k] = scopes'[k].context
    <3>1. Len(stack) = Len(scopes) /\ \A k \in 1..Len(scopes) : stack[k] = scopes[k].context
      BY <1>3, <1>6, <2>3 DEF ContextsOK, Tracks
    <3>2. \A k \in 1..Len(scopes) + 1 : k \in 1..Len(scopes) \/ k = Len(scopes) + 1
      BY <1>1
    <3> QED BY <1>2, <2>1, <3>1, <3>2
  <2> QED BY <1>1, <1>2, <1>3, <2>1, <2>2, <2>3 DEF ContextsOK, Tracks
<1>5. CASE ~(Len(stack) < StackMax)
  <2>1. stack' = stack /\ dropped'
    BY <1>1, <1>3, <1>5, <1>6 DEF Pushed
  <2>2. ~unpaired' => Len(stack') <= Len(scopes')
    BY <1>1, <1>2, <1>3, <2>1 DEF ContextsOK, Tracks
  <2> QED BY <1>1, <1>2, <1>3, <2>1, <2>2 DEF ContextsOK, Tracks
<1> QED BY <1>4, <1>5

(* p contexts are popped as the scopes above the first m are left. *)
LEMMA Shrinks ==
  ASSUME ContextsOK, NEW m \in Nat, NEW p \in Nat, m <= Len(scopes),
         scopes' \in Seq(Scope), Len(scopes') = m, \A k \in 1..m : scopes'[k] = scopes[k],
         stack' \in Seq(Places), Len(stack') = (IF Len(stack) >= p THEN Len(stack) - p ELSE 0),
         \A k \in 1..Len(stack') : stack'[k] = stack[k],
         unpaired' \in BOOLEAN, dropped' \in BOOLEAN,
         (stack' = <<>> /\ scopes' = <<>>) \/ (~unpaired' => ~unpaired /\ p = Len(scopes) - m),
         (stack' = <<>> /\ scopes' = <<>>) \/ (~dropped' => ~dropped)
  PROVE  ContextsOK'
<1>1. /\ Len(stack) \in Nat /\ Len(scopes) \in Nat /\ Len(stack') \in Nat
      /\ unpaired \in BOOLEAN /\ dropped \in BOOLEAN
  BY LenProperties DEF ContextsOK, Tracks
<1>2. CASE stack' = <<>> /\ scopes' = <<>>
  <2>1. Len(stack') = 0 /\ Len(scopes') = 0 /\ 1..Len(scopes') = {}
    BY <1>2, EmptySeq
  <2> QED BY <2>1 DEF ContextsOK, Tracks
<1>3. CASE ~(stack' = <<>> /\ scopes' = <<>>)
  <2>1. ASSUME ~unpaired'
        PROVE  Len(stack') <= Len(scopes')
    <3>1. Len(stack) <= Len(scopes) /\ p = Len(scopes) - m
      BY <1>3, <2>1 DEF ContextsOK, Tracks
    <3> QED BY <1>1, <3>1
  <2>2. ASSUME ~unpaired', ~dropped'
        PROVE  Len(stack') = Len(scopes') /\ \A k \in 1..Len(scopes') : stack'[k] = scopes'[k].context
    <3>1. ~unpaired /\ ~dropped /\ p = Len(scopes) - m
      BY <1>3, <2>2
    <3>2. Len(stack) = Len(scopes) /\ \A k \in 1..Len(scopes) : stack[k] = scopes[k].context
      BY <3>1 DEF ContextsOK, Tracks
    <3>3. Len(stack') = m
      BY <1>1, <3>1, <3>2
    <3>4. \A k \in 1..m : k \in 1..Len(scopes)
      BY <1>1
    <3> QED BY <3>2, <3>3, <3>4
  <2> QED BY <2>1, <2>2 DEF ContextsOK, Tracks
<1> QED BY <1>2, <1>3

(* What a pop leaves of the histories. *)
LEMMA AfreshIs ==
  ASSUME NEW w, Afresh(w)
  PROVE  /\ unpaired' \in BOOLEAN /\ dropped' \in BOOLEAN
         /\ (stack' = <<>> /\ scopes' = <<>>) \/ (~unpaired' => ~unpaired /\ ~w)
         /\ (stack' = <<>> /\ scopes' = <<>>) \/ (~dropped' => ~dropped)
BY Zenon DEF Afresh

(* popContext() *)
LEMMA PoppedIs ==
  ASSUME ContextsOK, stack' = Popped(stack)
  PROVE  /\ stack' \in Seq(Places) /\ Len(stack') = (IF Len(stack) >= 1 THEN Len(stack) - 1 ELSE 0)
         /\ \A k \in 1..Len(stack') : stack'[k] = stack[k]
<1>1. stack \in Seq(Places) /\ Len(stack) \in Nat
  BY LenProperties DEF ContextsOK, Tracks
<1>2. CASE stack = <<>>
  <2>1. stack' = stack /\ Len(stack) = 0
    BY <1>2, EmptySeq DEF Popped
  <2> QED BY <1>1, <2>1
<1>3. CASE stack # <<>>
  <2>1. PICK m : m = Len(stack) - 1 /\ m \in Nat /\ m <= Len(stack) /\ Len(stack) >= 1
    BY <1>1, <1>3, EmptySeq
  <2>2. stack' = SubSeq(stack, 1, m)
    BY <1>3, <2>1 DEF Popped, Front
  <2>3. stack' \in Seq(Places) /\ Len(stack') = m /\ \A k \in 1..m : stack'[k] = stack[k]
    BY <1>1, <2>1, <2>2, CutIs
  <2> QED BY <2>1, <2>3
<1> QED BY <1>2, <1>3

LEMMA LeaveTracks ==
  ASSUME CallsOK, QueueOK, ContextsOK, LeaveScope
  PROVE  ContextsOK'
<1>1. scopes \in Seq(Scope) /\ Len(scopes) \in Nat /\ Base \in Nat /\ Base <= Len(scopes)
  BY CallsParts, BaseIs DEF CallsOK
<1>2. PICK g : /\ g = Max(Guards(Base)) /\ g \in 1..Len(scopes) /\ scopes' = SubSeq(scopes, 1, g - 1)
               /\ stack' = Popped(stack) /\ Afresh(g < Len(scopes))
  BY <1>1, GuardsAre DEF LeaveScope
<1>3. PICK m : m = g - 1 /\ m \in Nat /\ m <= Len(scopes)
  BY <1>1, <1>2
<1>4. scopes' \in Seq(Scope) /\ Len(scopes') = m /\ \A k \in 1..m : scopes'[k] = scopes[k]
  BY <1>1, <1>2, <1>3, CutIs
<1>5. ~(g < Len(scopes)) => 1 = Len(scopes) - m
  BY <1>1, <1>2, <1>3
<1>6. /\ unpaired' \in BOOLEAN /\ dropped' \in BOOLEAN
      /\ (stack' = <<>> /\ scopes' = <<>>) \/ (~unpaired' => ~unpaired /\ ~(g < Len(scopes)))
      /\ (stack' = <<>> /\ scopes' = <<>>) \/ (~dropped' => ~dropped)
  BY <1>2, AfreshIs, Zenon
<1> QED BY <1>2, <1>3, <1>4, <1>5, <1>6, PoppedIs, Shrinks

LEMMA PopTracks ==
  ASSUME CallsOK, QueueOK, ContextsOK, PopContext
  PROVE  ContextsOK'
<1>1. scopes \in Seq(Scope) /\ Len(scopes) \in Nat /\ Base \in Nat
  BY CallsParts, BaseIs DEF CallsOK
<1>2. stack' = Popped(stack)
  BY DEF PopContext
<1>3. CASE Len(scopes) > Base /\ ~Last(scopes).guard
  <2>1. PICK m : m = Len(scopes) - 1 /\ m \in Nat /\ m <= Len(scopes) /\ 1 = Len(scopes) - m
    BY <1>1, <1>3
  <2>2. scopes' = Front(scopes) /\ Afresh(~(Len(scopes) > Base /\ ~Last(scopes).guard))
    BY <1>3 DEF PopContext
  <2>3. scopes' \in Seq(Scope) /\ Len(scopes') = m /\ \A k \in 1..m : scopes'[k] = scopes[k]
    BY <1>1, <2>1, <2>2, CutIs DEF Front
  <2>4. /\ unpaired' \in BOOLEAN /\ dropped' \in BOOLEAN
        /\ (stack' = <<>> /\ scopes' = <<>>) \/ (~unpaired' => ~unpaired)
        /\ (stack' = <<>> /\ scopes' = <<>>) \/ (~dropped' => ~dropped)
    BY <2>2, AfreshIs, Zenon
  <2> QED BY <1>2, <2>1, <2>3, <2>4, PoppedIs, Shrinks
<1>4. CASE ~(Len(scopes) > Base /\ ~Last(scopes).guard)
  <2>1. scopes' = scopes /\ Afresh(~(Len(scopes) > Base /\ ~Last(scopes).guard))
    BY <1>4 DEF PopContext
  <2>2. /\ unpaired' \in BOOLEAN /\ dropped' \in BOOLEAN
        /\ (stack' = <<>> /\ scopes' = <<>>) \/ unpaired'
        /\ (stack' = <<>> /\ scopes' = <<>>) \/ (~dropped' => ~dropped)
    BY <1>4, <2>1, AfreshIs, Zenon
  <2>3. PICK m : m = Len(scopes) /\ m \in Nat /\ m <= Len(scopes)
    BY <1>1
  <2>4. scopes' \in Seq(Scope) /\ Len(scopes') = m /\ \A k \in 1..m : scopes'[k] = scopes[k]
    BY <1>1, <2>1, <2>3
  <2> QED BY <1>2, <2>2, <2>3, <2>4, PoppedIs, Shrinks
<1> QED BY <1>3, <1>4

LEMMA ThrowTracks ==
  ASSUME CallsOK, QueueOK, ContextsOK, NEW s \in {Error, Critical}, Throw(s)
  PROVE  ContextsOK'
<1>1. PICK d : /\ d \in Nat /\ d <= Len(scopes)
               /\ scopes' = SubSeq(scopes, 1, d) /\ stack' = Unwound(Cardinality(Guards(d)))
               /\ Afresh(Cardinality(Guards(d)) < Len(scopes) - d)
  BY ThrowCaught
<1>2. /\ scopes \in Seq(Scope) /\ stack \in Seq(Places) /\ Len(scopes) \in Nat /\ Len(stack) \in Nat
  BY LenProperties DEF ContextsOK, Tracks
<1>3. PICK p : p = Cardinality(Guards(d)) /\ p \in Nat /\ p <= Len(scopes) - d
  BY <1>1, <1>2, GuardsAre
<1>4. scopes' \in Seq(Scope) /\ Len(scopes') = d /\ \A k \in 1..d : scopes'[k] = scopes[k]
  BY <1>1, <1>2, CutIs
<1>5. PICK m : m = (IF Len(stack) >= p THEN Len(stack) - p ELSE 0) /\ m \in Nat /\ m <= Len(stack)
  BY <1>2, <1>3
<1>6. stack' = [k \in 1..m |-> stack[k]]
  <2>1. PICK x : x = Len(stack) - p /\ x \in Int
    BY <1>2, <1>3
  <2>2. Max({0, x}) = m
    BY <1>2, <1>3, <1>5, <2>1, MaxIs
  <2> QED BY <1>1, <1>3, <2>1, <2>2 DEF Unwound
<1>7. stack' \in Seq(Places) /\ Len(stack') = m /\ \A k \in 1..m : stack'[k] = stack[k]
  <2>1. \A k \in 1..m : stack[k] \in Places
    BY <1>2, <1>5, ElementOfSeq
  <2>2. PICK q : q = stack' /\ q \in [1..m -> Places] /\ m \in Nat
    BY <1>5, <1>6, <2>1
  <2>3. q \in Seq(Places) /\ Len(q) = m
    BY <2>2
  <2> QED BY <1>6, <2>2, <2>3
<1>8. ~(p < Len(scopes) - d) => p = Len(scopes) - d
  BY <1>1, <1>2, <1>3
<1>9. /\ unpaired' \in BOOLEAN /\ dropped' \in BOOLEAN
      /\ (stack' = <<>> /\ scopes' = <<>>) \/ (~unpaired' => ~unpaired /\ ~(p < Len(scopes) - d))
      /\ (stack' = <<>> /\ scopes' = <<>>) \/ (~dropped' => ~dropped)
  BY <1>1, <1>3, AfreshIs, Zenon
<1> QED BY <1>1, <1>3, <1>4, <1>5, <1>7, <1>8, <1>9, Shrinks

LEMMA ContextsUnchanged ==
  ASSUME ContextsOK, UNCHANGED contexts
  PROVE  ContextsOK'
BY DEF ContextsOK, Tracks, contexts

LEMMA ContextsStep ==
  ASSUME CallsOK, QueueOK, ContextsOK, Next
  PROVE  ContextsOK'
<1>1. ASSUME NEW e \in Errors, ReportError(e) \/ Enqueue(e)
      PROVE  ContextsOK'
  BY <1>1, ContextsUnchanged DEF ReportError, Enqueue
<1>2. CASE \/ DispatchToPolicies \/ Reported \/ OnError \/ ResetStats \/ Return \/ Fallback
           \/ ProcessHead \/ ProcessPop \/ ProcessEnd \/ Clear \/ Tick
  BY <1>2, ContextsUnchanged DEF DispatchToPolicies, Reported, OnError, ResetStats, Return, Fallback,
                                 ProcessHead, ProcessPop, ProcessEnd, Clear, Tick
<1>3. CASE \/ \E k \in Kinds : RegisterPolicy(k)
           \/ \E s \in Filters : SetFilter(s)
           \/ \E c \in Contexts, i \in Intervals : SetThrottle(c, i)
           \/ \E w \in Intervals \union {None} : SetDeduplication(w)
           \/ \E c \in Contexts, b \in BOOLEAN : ExecuteSafe(c, b) \/ ExecuteNull(c, b)
           \/ \E n \in {0, 1} : Process(n)
  BY <1>3, ContextsUnchanged DEF RegisterPolicy, SetFilter, SetThrottle, SetDeduplication, ExecuteSafe,
                                 ExecuteNull, Process
<1>4. CASE LeaveScope \/ PopContext \/ \E c \in Places : EnterScope(c) \/ PushContext(c)
  BY <1>4, LeaveTracks, PopTracks, PushTracks
<1>5. ASSUME NEW s \in {Error, Critical}, Throw(s)
      PROVE  ContextsOK'
  BY <1>5, ThrowTracks
<1> QED BY <1>1, <1>2, <1>3, <1>4, <1>5 DEF Next

LEMMA ContextsTracked ==
  ASSUME ContextsOK
  PROVE  ContextUnwinds
<1>1. stack \in Seq(Places) /\ scopes \in Seq(Scope)
  BY DEF ContextsOK, Tracks
<1>2. /\ Len(stack) \in Nat /\ DOMAIN stack = 1..Len(stack) /\ stack = [k \in DOMAIN stack |-> stack[k]]
      /\ Len(scopes) \in Nat /\ DOMAIN scopes = 1..Len(scopes)
  BY <1>1, LenProperties
<1>3. ASSUME ~unpaired, ~dropped
      PROVE  stack = [i \in DOMAIN scopes |-> scopes[i].context]
  <2>1. DOMAIN stack = DOMAIN scopes /\ \A k \in DOMAIN scopes : stack[k] = scopes[k].context
    BY <1>2, <1>3 DEF ContextsOK, Tracks
  <2> QED BY <1>2, <2>1
<1> QED BY <1>3 DEF ContextUnwinds, ContextsOK, Tracks

-----------------------------------------------------------------------------
(* The statistics and the history                                          *)

LEMMA HistoryIs ==
  ASSUME ring \in Ring
  PROVE  /\ DOMAIN History = 1..ring.count
         /\ \A k \in 1..ring.count : History[k] = ring.slot[Place(ring.index, ring.count, k)]
<1>1. PICK H, n, x : H = HistorySize /\ n = ring.count /\ x = ring.index
  OBVIOUS
<1>2. H \in Nat /\ H >= 1 /\ n \in Nat /\ n <= H /\ x \in Nat /\ x < H
  BY <1>1, Sizes DEF Ring
<1>3. PICK start : start = IF n < H THEN 0 ELSE x
  OBVIOUS
<1>4. History = [k \in 1..n |-> ring.slot[Turn(start + k - 1, H)]]
  BY <1>1, <1>3 DEF History, Turn
<1>5. ASSUME NEW k \in 1..n
      PROVE  Turn(start + k - 1, H) = Place(x, n, k)
  <2>1. PICK a : a = start + k - 1 /\ a \in Int /\ 0 <= a /\ a < H + H
    BY <1>2, <1>3
  <2>2. Turn(a, H) = IF a < H THEN a ELSE a - H
    BY <1>2, <2>1, Turned
  <2>3. (IF a < H THEN a ELSE a - H) = Place(x, n, k)
    BY <1>1, <1>2, <1>3, <2>1 DEF Place
  <2> QED BY <2>1, <2>2, <2>3
<1> QED BY <1>1, <1>4, <1>5

LEMMA RecordIsTail ==
  ASSUME RecordOK
  PROVE  HistoryIsTail
<1>1. stats \in Stats /\ ring \in Ring /\ accepted \in Seq(Reportable)
  BY DEF RecordOK, Kept
<1>2. Len(accepted) \in Nat /\ DOMAIN accepted = 1..Len(accepted) /\ HistorySize \in Nat
  BY <1>1, LenProperties, Sizes
<1>3. Min({Len(accepted), HistorySize}) = IF Len(accepted) <= HistorySize THEN Len(accepted) ELSE HistorySize
  BY <1>2, MinIs
<1>4. /\ DOMAIN History = 1..ring.count
      /\ \A k \in 1..ring.count : History[k] = ring.slot[Place(ring.index, ring.count, k)]
  BY <1>1, HistoryIs
<1>5. \A s : {k \in DOMAIN accepted : accepted[k].severity = s} = OfSeverity(accepted, s)
  BY <1>2 DEF OfSeverity
<1> QED BY <1>1, <1>3, <1>4, <1>5 DEF RecordOK, HistoryIsTail, Kept

(* The ring after one more error: the others keep their places, but for    *)
(* the oldest of a full ring.                                              *)
LEMMA PlacesMove ==
  ASSUME NEW H, H = HistorySize, NEW n \in Nat, n <= H, NEW x \in Nat, x < H, n < H => x = n,
         NEW m, m = (IF n < H THEN n + 1 ELSE n), NEW y, y = (IF x + 1 < H THEN x + 1 ELSE 0)
  PROVE  /\ Place(y, m, m) = x
         /\ \A k \in 1..m - 1 : /\ Place(y, m, k) = Place(x, n, n - m + 1 + k)
                                /\ Place(y, m, k) # x /\ Place(y, m, k) \in 0..H - 1
                                /\ n - m + 1 + k \in 1..n
<1>1. H \in Nat /\ H >= 1
  BY Sizes
<1>2. CASE n < H
  <2>1. m = n + 1 /\ x = n
    BY <1>2
  <2>2. CASE n + 1 < H
    BY <1>1, <2>1, <2>2 DEF Place
  <2>3. CASE n + 1 = H
    BY <1>1, <2>1, <2>3 DEF Place
  <2> QED BY <1>1, <1>2, <2>2, <2>3
<1>3. CASE n = H
  <2>1. m = H
    BY <1>3
  <2>2. Place(y, m, m) = x
    BY <1>1, <1>3, <2>1 DEF Place
  <2>3. ASSUME NEW k \in 1..m - 1
        PROVE  /\ Place(y, m, k) = Place(x, n, n - m + 1 + k)
               /\ Place(y, m, k) # x /\ Place(y, m, k) \in 0..H - 1
               /\ n - m + 1 + k \in 1..n
    BY <1>1, <1>3, <2>1 DEF Place
  <2> QED BY <2>2, <2>3
<1> QED BY <1>1, <1>2, <1>3

LEMMA SeverityCounts ==
  ASSUME NEW q \in Seq(Reportable), NEW e \in Reportable, NEW s
  PROVE  Cardinality(OfSeverity(Append(q, e), s)) =
           Cardinality(OfSeverity(q, s)) + IF e.severity = s THEN 1 ELSE 0
<1>1. PICK n : n = Len(q) /\ n \in Nat
  BY LenProperties
<1>2. PICK p : p = Append(q, e)
  OBVIOUS
<1>3. Len(p) = n + 1 /\ p[n + 1] = e /\ \A k \in 1..n : p[k] = q[k]
  BY <1>1, <1>2, AppendProperties
<1>4. PICK S : S = OfSeverity(q, s) /\ S \subseteq 1..n
  BY <1>1 DEF OfSeverity
<1>5. IsFiniteSet(S) /\ Cardinality(S) \in Nat
  <2>1. IsFiniteSet(1..n)
    BY <1>1, FS_Interval
  <2> QED BY <1>4, <2>1, FS_Subset, FS_CardinalityType
<1>6. n + 1 \notin S /\ \A k \in 1..n + 1 : k \in 1..n \/ k = n + 1
  BY <1>1, <1>4
<1>7. CASE e.severity = s
  <2>1. OfSeverity(p, s) = S \cup {n + 1}
    BY <1>1, <1>3, <1>4, <1>6, <1>7 DEF OfSeverity
  <2>2. Cardinality(S \cup {n + 1}) = Cardinality(S) + 1
    BY <1>5, <1>6, FS_AddElement
  <2> QED BY <1>2, <1>4, <1>7, <2>1, <2>2
<1>8. CASE e.severity # s
  <2>1. OfSeverity(p, s) = S
    BY <1>1, <1>3, <1>4, <1>6, <1>8 DEF OfSeverity
  <2> QED BY <1>2, <1>4, <1>5, <1>8, <2>1
<1> QED BY <1>7, <1>8


LEMMA AcceptKept ==
  ASSUME RecordOK, NEW e \in Reportable,
         stats' = Counted(e), ring' = Recorded(e), accepted' = Append(accepted, e)
  PROVE  RecordOK'
<1>1. PICK H, n, x, sl, z : /\ H = HistorySize /\ n = ring.count /\ x = ring.index /\ sl = ring.slot
                            /\ z = Len(accepted)
  OBVIOUS
<1>2. /\ H \in Nat /\ H >= 1 /\ n \in Nat /\ n <= H /\ x \in Nat /\ x < H /\ (n < H => x = n) /\ z \in Nat
      /\ stats \in Stats /\ accepted \in Seq(Reportable)
  BY <1>1, Sizes, LenProperties DEF RecordOK, Kept, Ring
<1>3. sl \in [0..H - 1 -> [error : Reportable, code : Nat] \cup {None}]
  BY <1>1 DEF RecordOK, Kept, Ring
<1>4. stats.total = z /\ z + 1 \in Nat /\ n = IF z <= H THEN z ELSE H
  BY <1>1, <1>2 DEF RecordOK, Kept
<1>5. PICK ent : ent = [error |-> e, code |-> z + 1] /\ ent \in [error : Reportable, code : Nat]
  <2>1. PICK w : w = z + 1 /\ w \in Nat
    BY <1>4
  <2>2. [error |-> e, code |-> w] \in [error : Reportable, code : Nat]
    BY <2>1
  <2> QED BY <2>1, <2>2
<1>6. PICK sm : sm = [sl EXCEPT ![x] = ent]
  OBVIOUS
<1>7. /\ sm \in [0..H - 1 -> [error : Reportable, code : Nat] \cup {None}] /\ sm[x] = ent
      /\ \A k \in 0..H - 1 : k # x => sm[k] = sl[k]
  BY <1>2, <1>3, <1>5, <1>6
<1>8. PICK y : y = (IF x + 1 < H THEN x + 1 ELSE 0) /\ y = Turn(x + 1, H) /\ y \in 0..H - 1
  <2>1. PICK a : a = x + 1 /\ a \in Int /\ 0 <= a /\ a < H + H
    BY <1>2
  <2>2. Turn(a, H) = IF a < H THEN a ELSE a - H
    BY <1>2, <2>1, Turned
  <2> QED BY <1>2, <2>1, <2>2
<1>9. PICK m : m = (IF n < H THEN n + 1 ELSE n) /\ m \in 0..H /\ m >= 1
  BY <1>2
<1>10. ring' = [slot |-> sm, index |-> y, count |-> m]
  BY <1>1, <1>4, <1>5, <1>6, <1>8, <1>9 DEF Recorded, Turn
<1>11. ring' \in Ring /\ ring'.slot = sm /\ ring'.index = y /\ ring'.count = m
  BY <1>1, <1>7, <1>8, <1>9, <1>10 DEF Ring
<1>12. /\ accepted' \in Seq(Reportable) /\ Len(accepted') = z + 1 /\ accepted'[z + 1] = e
       /\ \A k \in 1..z : accepted'[k] = accepted[k]
  BY <1>1, <1>2, AppendProperties
<1>13. /\ Place(y, m, m) = x
       /\ \A k \in 1..m - 1 : /\ Place(y, m, k) = Place(x, n, n - m + 1 + k)
                              /\ Place(y, m, k) # x /\ Place(y, m, k) \in 0..H - 1
                              /\ n - m + 1 + k \in 1..n
  <2>1. /\ H = HistorySize /\ n \in Nat /\ n <= H /\ x \in Nat /\ x < H /\ (n < H => x = n)
        /\ m = (IF n < H THEN n + 1 ELSE n) /\ y = (IF x + 1 < H THEN x + 1 ELSE 0)
    BY <1>1, <1>2, <1>8, <1>9
  <2> QED BY <2>1, PlacesMove
<1>14. \A k \in 1..n : sl[Place(x, n, k)] = [error |-> accepted[z - n + k], code |-> z - n + k]
  BY <1>1 DEF RecordOK, Kept
<1>15. ASSUME NEW k \in 1..m
       PROVE  sm[Place(y, m, k)] = [error |-> accepted'[z + 1 - m + k], code |-> z + 1 - m + k]
  <2>1. CASE k = m
    <3>1. z + 1 - m + k = z + 1
      BY <1>2, <1>9, <2>1
    <3> QED BY <1>5, <1>7, <1>12, <1>13, <2>1, <3>1
  <2>2. CASE k # m
    <3>1. k \in 1..m - 1
      BY <1>9, <2>2
    <3>2. PICK j : j = n - m + 1 + k /\ j \in 1..n /\ Place(y, m, k) = Place(x, n, j)
      BY <1>13, <3>1
    <3>3. sm[Place(y, m, k)] = sl[Place(x, n, j)]
      BY <1>7, <1>13, <3>1, <3>2
    <3>4. z + 1 - m + k = z - n + j /\ z - n + j \in 1..z
      BY <1>2, <1>4, <1>9, <3>2
    <3> QED BY <1>12, <1>14, <3>2, <3>3, <3>4
  <2> QED BY <2>1, <2>2
<1>16. /\ stats' \in Stats /\ stats'.total = z + 1
       /\ \A s \in Severities : stats'.severity[s] = stats.severity[s] + IF e.severity = s THEN 1 ELSE 0
  <2>1. e.severity \in Severities /\ stats.severity \in [Severities -> Nat]
    BY <1>2, ReportableParts DEF Stats
  <2>2. PICK sv : sv = [stats.severity EXCEPT ![e.severity] = @ + 1]
    OBVIOUS
  <2>3. sv \in [Severities -> Nat] /\ \A s \in Severities : sv[s] = stats.severity[s] + IF e.severity = s THEN 1 ELSE 0
    BY <2>1, <2>2
  <2>4. PICK w : w = z + 1 /\ w \in Nat
    BY <1>4
  <2>5. stats' = [stats EXCEPT !.total = w, !.severity = sv]
    BY <1>2, <1>4, <2>2, <2>4 DEF Counted, Stats
  <2>6. stats' \in Stats /\ stats'.total = w /\ stats'.severity = sv
    BY <1>2, <2>3, <2>4, <2>5 DEF Stats
  <2> QED BY <2>3, <2>4, <2>6
<1>17. ASSUME NEW s \in Severities
       PROVE  stats'.severity[s] = Cardinality(OfSeverity(accepted', s))
  <2>1. stats.severity[s] = Cardinality(OfSeverity(accepted, s))
    BY DEF RecordOK, Kept
  <2>2. Cardinality(OfSeverity(accepted', s)) = Cardinality(OfSeverity(accepted, s)) + IF e.severity = s THEN 1 ELSE 0
    BY <1>2, SeverityCounts
  <2> QED BY <1>16, <2>1, <2>2
<1>18. m < H => y = m
  BY <1>2, <1>8, <1>9
<1>19. m = IF z + 1 <= H THEN z + 1 ELSE H
  BY <1>2, <1>4, <1>9
<1>20. Kept(stats', ring', accepted')
  BY <1>1, <1>11, <1>12, <1>15, <1>16, <1>17, <1>18, <1>19 DEF Kept
<1> QED BY <1>20 DEF RecordOK, Kept, OfSeverity

LEMMA RecordUnchanged ==
  ASSUME RecordOK, UNCHANGED counted
  PROVE  RecordOK'
BY DEF RecordOK, Kept, OfSeverity, counted

LEMMA ReportRecords ==
  ASSUME RecordOK, NEW e \in Reportable, NEW fs, NEW d, Report(e, fs, d)
  PROVE  RecordOK'
<1>1. CASE stats' = Counted(e) /\ ring' = Recorded(e) /\ accepted' = Append(accepted, e)
  BY <1>1, AcceptKept
<1>2. ASSUME UNCHANGED <<ring, accepted>>, stats' \in Stats, stats'.total = stats.total, stats'.severity = stats.severity
      PROVE  RecordOK'
  BY <1>2 DEF RecordOK, Kept, OfSeverity
<1>3. stats \in Stats
  BY DEF RecordOK, Kept
<1>4. CASE stats' = [stats EXCEPT !.filtered = @ + 1] /\ UNCHANGED <<ring, accepted>>
  BY <1>2, <1>3, <1>4 DEF Stats
<1>5. CASE stats' = [stats EXCEPT !.throttled = @ + 1] /\ UNCHANGED <<ring, accepted>>
  BY <1>2, <1>3, <1>5 DEF Stats
<1>6. CASE stats' = [stats EXCEPT !.duplicate = @ + 1] /\ UNCHANGED <<ring, accepted>>
  BY <1>2, <1>3, <1>6 DEF Stats
<1> QED BY <1>1, <1>4, <1>5, <1>6 DEF Report

LEMMA ResetKept ==
  ASSUME RecordOK, ResetStats
  PROVE  RecordOK'
<1>1. ring \in Ring /\ HistorySize \in Nat /\ HistorySize >= 1
  BY Sizes DEF RecordOK, Kept
<1>2. stats' = Zero /\ Zero \in Stats /\ Zero.total = 0 /\ \A s \in Severities : Zero.severity[s] = 0
  BY DEF ResetStats, Zero, Stats
<1>3. ring' \in Ring /\ ring'.index = 0 /\ ring'.count = 0
  <2>1. ring' = [ring EXCEPT !.index = 0, !.count = 0]
    BY DEF ResetStats
  <2>2. 0 \in 0..HistorySize - 1 /\ 0 \in 0..HistorySize
    BY <1>1
  <2> QED BY <1>1, <2>1, <2>2 DEF Ring
<1>4. accepted' = <<>> /\ accepted' \in Seq(Reportable) /\ Len(accepted') = 0
  BY EmptySeq DEF ResetStats
<1>5. \A s : OfSeverity(accepted', s) = {}
  BY <1>4 DEF OfSeverity
<1>6. Kept(stats', ring', accepted')
  <2>1. \A s \in Severities : stats'.severity[s] = Cardinality(OfSeverity(accepted', s))
    BY <1>2, <1>5, FS_EmptySet
  <2>2. 1..ring'.count = {}
    BY <1>3
  <2>3. ring'.count = IF Len(accepted') <= HistorySize THEN Len(accepted') ELSE HistorySize
    BY <1>1, <1>3, <1>4
  <2> QED BY <1>2, <1>3, <1>4, <2>1, <2>2, <2>3 DEF Kept
<1> QED BY <1>6 DEF RecordOK, Kept, OfSeverity

LEMMA RecordStep ==
  ASSUME CallsOK, QueueOK, RecordOK, Next
  PROVE  RecordOK'
<1>1. ASSUME NEW e \in Errors, ReportError(e) \/ Enqueue(e)
      PROVE  RecordOK'
  <2>1. e \in Reportable
    BY DEF Reportable
  <2> QED BY <1>1, <2>1, ReportRecords, RecordUnchanged DEF ReportError, Enqueue
<1>2. ASSUME NEW s \in {Error, Critical}, Throw(s)
      PROVE  RecordOK'
  BY <1>2, ThrowCaught, ReportRecords
<1>3. CASE ProcessHead
  <2>1. UNCHANGED counted \/ \E e \in Errors : \E fs, d : Report(e, fs, d)
    BY <1>3, HeadReported
  <2>2. Errors \subseteq Reportable
    BY DEF Reportable
  <2> QED BY <2>1, <2>2, ReportRecords, RecordUnchanged
<1>4. CASE ResetStats
  BY <1>4, ResetKept
<1>5. CASE \/ DispatchToPolicies \/ Reported \/ OnError \/ Return \/ Fallback
           \/ ProcessPop \/ ProcessEnd \/ Clear \/ Tick
  BY <1>5, RecordUnchanged DEF DispatchToPolicies, Reported, OnError, Return, Fallback,
                               ProcessPop, ProcessEnd, Clear, Tick
<1>6. CASE \/ \E k \in Kinds : RegisterPolicy(k)
           \/ \E s \in Filters : SetFilter(s)
           \/ \E c \in Contexts, i \in Intervals : SetThrottle(c, i)
           \/ \E w \in Intervals \union {None} : SetDeduplication(w)
           \/ \E c \in Contexts, b \in BOOLEAN : ExecuteSafe(c, b)
           \/ \E n \in {0, 1} : Process(n)
  BY <1>6, RecordUnchanged DEF RegisterPolicy, SetFilter, SetThrottle, SetDeduplication, ExecuteSafe,
                               Process
<1>7. CASE LeaveScope \/ PopContext \/ \E c \in Places : EnterScope(c) \/ PushContext(c)
  BY <1>7, Scoping, RecordUnchanged
<1>8. ASSUME NEW c \in Contexts, NEW b \in BOOLEAN, ExecuteNull(c, b)
      PROVE  RecordOK'
  BY <1>8, NullReported, ReportRecords
<1> QED BY <1>1, <1>2, <1>3, <1>4, <1>5, <1>6, <1>7, <1>8 DEF Next

-----------------------------------------------------------------------------
(* Throttling and deduplication                                            *)

Since(n, t) == (n - t) % Wrap

Throttles == [last : 0..Wrap - 1, interval : Intervals] \cup {None}

(* An age in step with the time t that a map keeps, at time n. *)
InStep(n, t, a) == a >= Since(n, t) \/ a >= MaxAge

ContextAges(n, th, ac) ==
  /\ th \in [Contexts -> Throttles] /\ ac \in [Contexts -> Nat]
  /\ \A c \in Contexts : th[c] # None => InStep(n, th[c].last, ac[c])

KeyAges(n, sn, ak) ==
  /\ sn \in [Keys -> 0..Wrap - 1 \cup {None}] /\ ak \in [Keys -> Nat]
  /\ \A k \in Keys : IF sn[k] = None THEN ak[k] >= MaxAge ELSE InStep(n, sn[k], ak[k])

Ages == [context : [Contexts -> Nat], key : [Keys -> Nat]]

LEMMA RateParts ==
  RateOK <=> /\ now \in 0..Wrap - 1 /\ window \in Intervals \cup {None}
             /\ age \in Ages
             /\ ContextAges(now, throttle, age.context) /\ KeyAges(now, seen, age.key)
BY DEF RateOK, Ages, ContextAges, KeyAges, InStep, Since, Elapsed, Throttles

LEMMA RatePartsNext ==
  ASSUME now' \in 0..Wrap - 1, window' \in Intervals \cup {None}, age' \in Ages,
         ContextAges(now', throttle', age'.context), KeyAges(now', seen', age'.key)
  PROVE  RateOK'
BY DEF RateOK, Ages, ContextAges, KeyAges, InStep, Since, Elapsed, Throttles

LEMMA SinceIs ==
  ASSUME NEW n \in 0..Wrap - 1, NEW t \in 0..Wrap - 1
  PROVE  Since(n, t) = (IF t <= n THEN n - t ELSE n - t + Wrap) /\ Since(n, t) \in Nat
<1>1. Wrap \in Nat \ {0}
  BY Sizes
<1>2. Since(n, t) = IF t <= n THEN n - t ELSE n - t + Wrap
  BY <1>1, ElapsedIs DEF Since
<1> QED BY <1>1, <1>2

(* A millisecond adds at most one to what has elapsed, also over the wrap. *)
LEMMA SinceTicks ==
  ASSUME NEW n \in 0..Wrap - 1, NEW m, m = (n + 1) % Wrap
  PROVE  /\ m \in 0..Wrap - 1
         /\ \A t \in 0..Wrap - 1 : Since(m, t) <= Since(n, t) + 1
<1>1. PICK W : W = Wrap /\ W \in Nat /\ W >= 1
  BY Sizes
<1>2. m = IF n + 1 < W THEN n + 1 ELSE 0
  <2>1. PICK a : a = n + 1 /\ a \in Int /\ 0 <= a /\ a < W + W
    BY <1>1
  <2>2. Turn(a, W) = IF a < W THEN a ELSE a - W
    BY <1>1, <2>1, Turned
  <2> QED BY <1>1, <2>1, <2>2 DEF Turn
<1>3. m \in 0..Wrap - 1
  BY <1>1, <1>2
<1>4. ASSUME NEW t \in 0..Wrap - 1
      PROVE  Since(m, t) <= Since(n, t) + 1
  <2>1. Since(m, t) = IF t <= m THEN m - t ELSE m - t + W
    BY <1>1, <1>3, SinceIs
  <2>2. Since(n, t) = IF t <= n THEN n - t ELSE n - t + W
    BY <1>1, SinceIs
  <2> QED BY <1>1, <1>2, <2>1, <2>2
<1> QED BY <1>3, <1>4

LEMMA AgeTicks ==
  ASSUME NEW n \in 0..Wrap - 1, NEW m, m = (n + 1) % Wrap, NEW t \in 0..Wrap - 1,
         NEW a \in Nat, InStep(n, t, a)
  PROVE  InStep(m, t, Min({a + 1, MaxAge}))
<1>1. PICK b : b = a + 1 /\ b \in Nat /\ MaxAge \in Nat
  BY Sizes
<1>2. Min({b, MaxAge}) = IF b <= MaxAge THEN b ELSE MaxAge
  BY <1>1, MinIs
<1>3. PICK x, y : x = Since(n, t) /\ y = Since(m, t) /\ x \in Nat /\ y \in Nat /\ y <= x + 1
  BY SinceTicks, SinceIs
<1>4. a >= x \/ a >= MaxAge
  BY <1>3 DEF InStep
<1>5. Min({b, MaxAge}) >= y \/ Min({b, MaxAge}) >= MaxAge
  BY <1>1, <1>2, <1>3, <1>4
<1> QED BY <1>1, <1>3, <1>5 DEF InStep

LEMMA TickRate ==
  ASSUME RateOK, Tick
  PROVE  RateOK'
<1>1. /\ now \in 0..Wrap - 1 /\ window \in Intervals \cup {None} /\ age \in Ages
      /\ ContextAges(now, throttle, age.context) /\ KeyAges(now, seen, age.key)
  BY RateParts
<1>2. PICK ac, ak : /\ ac = [c \in Contexts |-> Min({age.context[c] + 1, MaxAge})]
                    /\ ak = [k \in Keys |-> Min({age.key[k] + 1, MaxAge})]
  OBVIOUS
<1>3. /\ now' = (now + 1) % Wrap /\ age' = [context |-> ac, key |-> ak]
      /\ UNCHANGED <<window, throttle, seen>>
  BY <1>2 DEF Tick, config
<1>4. now' \in 0..Wrap - 1
  BY <1>1, <1>3, SinceTicks
<1>5. \A a \in Nat : Min({a + 1, MaxAge}) \in Nat /\ (a >= MaxAge => Min({a + 1, MaxAge}) >= MaxAge)
  <2>1. \A a \in Nat : Min({a + 1, MaxAge}) = IF a + 1 <= MaxAge THEN a + 1 ELSE MaxAge
    <3>1. ASSUME NEW a \in Nat PROVE Min({a + 1, MaxAge}) = IF a + 1 <= MaxAge THEN a + 1 ELSE MaxAge
      <4>1. PICK b : b = a + 1 /\ b \in Int /\ MaxAge \in Int
        BY Sizes
      <4> QED BY <4>1, MinIs
    <3> QED BY <3>1
  <2> QED BY <2>1, Sizes
<1>6. ContextAges(now', throttle, ac)
  <2>1. throttle \in [Contexts -> Throttles] /\ age.context \in [Contexts -> Nat]
    BY <1>1 DEF ContextAges
  <2>2. ac \in [Contexts -> Nat]
    BY <1>2, <1>5, <2>1
  <2>3. ASSUME NEW c \in Contexts, throttle[c] # None
        PROVE  InStep(now', throttle[c].last, ac[c])
    <3>1. throttle[c].last \in 0..Wrap - 1
      BY <2>1, <2>3 DEF Throttles
    <3>2. InStep(now, throttle[c].last, age.context[c])
      BY <1>1, <2>3 DEF ContextAges
    <3> QED BY <1>1, <1>2, <1>3, <2>1, <3>1, <3>2, AgeTicks
  <2> QED BY <2>1, <2>2, <2>3 DEF ContextAges
<1>7. KeyAges(now', seen, ak)
  <2>1. seen \in [Keys -> 0..Wrap - 1 \cup {None}] /\ age.key \in [Keys -> Nat]
    BY <1>1 DEF KeyAges
  <2>2. ak \in [Keys -> Nat]
    BY <1>2, <1>5, <2>1
  <2>3. ASSUME NEW k \in Keys
        PROVE  IF seen[k] = None THEN ak[k] >= MaxAge ELSE InStep(now', seen[k], ak[k])
    <3>1. CASE seen[k] = None
      BY <1>1, <1>2, <1>5, <2>1, <3>1 DEF KeyAges
    <3>2. CASE seen[k] # None
      <4>1. seen[k] \in 0..Wrap - 1 /\ InStep(now, seen[k], age.key[k])
        BY <1>1, <2>1, <3>2 DEF KeyAges
      <4> QED BY <1>1, <1>2, <1>3, <2>1, <3>2, <4>1, AgeTicks
    <3> QED BY <3>1, <3>2
  <2> QED BY <2>1, <2>2, <2>3 DEF KeyAges
<1>8. age' \in Ages /\ age'.context = ac /\ age'.key = ak
  BY <1>3, <1>6, <1>7 DEF Ages, ContextAges, KeyAges
<1> QED BY <1>1, <1>3, <1>4, <1>6, <1>7, <1>8, RatePartsNext

(* A context that gets through starts again. *)
LEMMA ContextStarts ==
  ASSUME RateOK, NEW e \in Reportable, NEW ac,
         ac = [age.context EXCEPT ![e.context] = IF throttle[e.context] = None THEN @ ELSE 0]
  PROVE  ContextAges(now, Through(e), ac)
<1>1. /\ now \in 0..Wrap - 1 /\ throttle \in [Contexts -> Throttles] /\ age.context \in [Contexts -> Nat]
      /\ \A c \in Contexts : throttle[c] # None => InStep(now, throttle[c].last, age.context[c])
  BY RateParts DEF ContextAges
<1>2. PICK c : c = e.context /\ c \in Contexts
  BY ReportableParts
<1>3. PICK t : t = IF throttle[c] = None THEN None ELSE [throttle[c] EXCEPT !.last = now]
  OBVIOUS
<1>4. Through(e) = [throttle EXCEPT ![c] = t]
  BY <1>1, <1>2, <1>3 DEF Through
<1>5. t \in Throttles /\ (t # None => throttle[c] # None /\ t.last = now)
  BY <1>1, <1>2, <1>3 DEF Throttles
<1>6. Since(now, now) = 0
  BY <1>1, SinceIs
<1>7. ac \in [Contexts -> Nat] /\ (t # None => ac[c] = 0) /\ \A x \in Contexts : x # c => ac[x] = age.context[x]
  BY <1>1, <1>2, <1>5
<1>8. Through(e) \in [Contexts -> Throttles] /\ Through(e)[c] = t /\ \A x \in Contexts : x # c => Through(e)[x] = throttle[x]
  BY <1>1, <1>2, <1>4, <1>5
<1>9. t # None => InStep(now, t.last, ac[c])
  BY <1>5, <1>6, <1>7 DEF InStep
<1> QED BY <1>1, <1>7, <1>8, <1>9 DEF ContextAges

(* So does the key of an error that is accepted. *)
LEMMA KeyStarts ==
  ASSUME RateOK, NEW e \in Reportable, NEW sn, NEW ak,
         sn = (IF window = None THEN seen ELSE [seen EXCEPT ![Key(e)] = now]),
         ak = [age.key EXCEPT ![Key(e)] = IF window = None THEN @ ELSE 0]
  PROVE  KeyAges(now, sn, ak)
<1>1. /\ now \in 0..Wrap - 1 /\ seen \in [Keys -> 0..Wrap - 1 \cup {None}] /\ age.key \in [Keys -> Nat]
      /\ \A k \in Keys : IF seen[k] = None THEN age.key[k] >= MaxAge ELSE InStep(now, seen[k], age.key[k])
  BY RateParts DEF KeyAges
<1>2. PICK k : k = Key(e) /\ k \in Keys
  BY ReportableParts
<1>3. CASE window = None
  <2>1. sn = seen /\ ak = age.key
    BY <1>1, <1>2, <1>3
  <2> QED BY <1>1, <2>1 DEF KeyAges
<1>4. CASE window # None
  <2>1. /\ sn \in [Keys -> 0..Wrap - 1 \cup {None}] /\ sn[k] = now
        /\ \A x \in Keys : x # k => sn[x] = seen[x]
    BY <1>1, <1>2, <1>4
  <2>2. /\ ak \in [Keys -> Nat] /\ ak[k] = 0
        /\ \A x \in Keys : x # k => ak[x] = age.key[x]
    BY <1>1, <1>2, <1>4
  <2>3. now # None
    BY <1>1, ErrorAssumption, Sizes
  <2>4. InStep(now, now, 0)
    BY <1>1, SinceIs DEF InStep
  <2> QED BY <1>1, <2>1, <2>2, <2>3, <2>4 DEF KeyAges
<1> QED BY <1>3, <1>4

LEMMA ReportRate ==
  ASSUME RateOK, NEW e \in Reportable, NEW fs, NEW d, Report(e, fs, d), UNCHANGED <<now, window>>
  PROVE  RateOK'
<1>1. /\ now \in 0..Wrap - 1 /\ window \in Intervals \cup {None} /\ age \in Ages
      /\ ContextAges(now, throttle, age.context) /\ KeyAges(now, seen, age.key)
  BY RateParts
<1>2. CASE UNCHANGED <<throttle, seen, age>>
  BY <1>1, <1>2, RatePartsNext
<1>3. PICK ac, ak : /\ ac = [age.context EXCEPT ![e.context] = IF throttle[e.context] = None THEN @ ELSE 0]
                    /\ ak = [age.key EXCEPT ![Key(e)] = IF window = None THEN @ ELSE 0]
  OBVIOUS
<1>4. ContextAges(now, Through(e), ac)
  BY <1>3, ContextStarts
<1>5. ac \in [Contexts -> Nat] /\ Aged(e) = [context |-> ac, key |-> age.key]
  BY <1>1, <1>3, <1>4 DEF ContextAges, Aged, Ages
<1>6. CASE throttle' = Through(e) /\ age' = Aged(e) /\ UNCHANGED seen
  <2>1. age' \in Ages /\ age'.context = ac /\ age'.key = age.key
    BY <1>1, <1>5, <1>6 DEF Ages
  <2> QED BY <1>1, <1>4, <1>6, <2>1, RatePartsNext
<1>7. CASE /\ throttle' = Through(e)
           /\ seen' = IF window = None THEN seen ELSE [seen EXCEPT ![Key(e)] = now]
           /\ age' = [Aged(e) EXCEPT !.key[Key(e)] = IF window = None THEN @ ELSE 0]
  <2>1. KeyAges(now, seen', ak)
    BY <1>3, <1>7, KeyStarts
  <2>2. age' = [context |-> ac, key |-> ak]
    BY <1>3, <1>5, <1>7
  <2>3. age' \in Ages /\ age'.context = ac /\ age'.key = ak
    BY <1>5, <2>1, <2>2 DEF Ages, KeyAges
  <2> QED BY <1>1, <1>4, <1>7, <2>1, <2>3, RatePartsNext
<1> QED BY <1>2, <1>6, <1>7 DEF Report

LEMMA ThrottleRate ==
  ASSUME RateOK, NEW c \in Contexts, NEW i \in Intervals, SetThrottle(c, i)
  PROVE  RateOK'
<1>1. /\ now \in 0..Wrap - 1 /\ window \in Intervals \cup {None} /\ age \in Ages
      /\ ContextAges(now, throttle, age.context) /\ KeyAges(now, seen, age.key)
  BY RateParts
<1>2. PICK t, ac : t = [last |-> 0, interval |-> i] /\ ac = [age.context EXCEPT ![c] = MaxAge]
  OBVIOUS
<1>3. t \in Throttles /\ MaxAge \in Nat
  BY <1>2, Sizes DEF Throttles
<1>4. throttle' = [throttle EXCEPT ![c] = t] /\ UNCHANGED <<now, window, seen>>
  BY <1>2 DEF SetThrottle
<1>5. ac \in [Contexts -> Nat] /\ age' = [context |-> ac, key |-> age.key]
  BY <1>1, <1>2, <1>3 DEF SetThrottle, Ages
<1>6. age' \in Ages /\ age'.context = ac /\ age'.key = age.key
  BY <1>1, <1>5 DEF Ages
<1>7. ContextAges(now, throttle', ac)
  <2>1. throttle \in [Contexts -> Throttles] /\ age.context \in [Contexts -> Nat]
    BY <1>1 DEF ContextAges
  <2>2. /\ throttle' \in [Contexts -> Throttles]
        /\ \A x \in Contexts : x # c => throttle'[x] = throttle[x] /\ ac[x] = age.context[x]
        /\ ac[c] = MaxAge
    BY <1>2, <1>3, <1>4, <2>1
  <2>3. \A t0 : InStep(now, t0, MaxAge)
    BY <1>3 DEF InStep
  <2> QED BY <1>1, <1>5, <2>2, <2>3 DEF ContextAges
<1> QED BY <1>1, <1>4, <1>6, <1>7, RatePartsNext

LEMMA RateUnchanged ==
  ASSUME RateOK, UNCHANGED <<now, throttle, seen, age>>, window' \in Intervals \cup {None}
  PROVE  RateOK'
BY RateParts, RatePartsNext

(* The steps that report an error, and what they leave alone. *)
LEMMA Reporting ==
  ASSUME CallsOK, QueueOK, 
         \/ \E e \in Errors : ReportError(e)
         \/ \E s \in {Error, Critical} : Throw(s)
         \/ \E c \in Contexts, b \in BOOLEAN : ExecuteNull(c, b)
         \/ ProcessHead
  PROVE  /\ UNCHANGED <<now, window>>
         /\ UNCHANGED <<throttle, seen, counted, age>> \/ \E e \in Reportable : \E fs, d : Report(e, fs, d)
<1>1. Errors \subseteq Reportable
  BY DEF Reportable
<1>2. ASSUME NEW s \in {Error, Critical}, Throw(s)
      PROVE  UNCHANGED <<now, window>> /\ \E e \in Reportable : \E fs, d : Report(e, fs, d)
  BY <1>2, ThrowCaught DEF Throw, config
<1>3. CASE ProcessHead
  BY <1>1, <1>3, HeadReported DEF ProcessHead, config
<1>4. CASE \E e \in Errors : ReportError(e)
  BY <1>1, <1>4 DEF ReportError, config
<1>5. ASSUME NEW c \in Contexts, NEW b \in BOOLEAN, ExecuteNull(c, b)
      PROVE  UNCHANGED <<now, window>> /\ \E e \in Reportable : \E fs, d : Report(e, fs, d)
  BY <1>5, NullReported DEF ExecuteNull, config
<1> QED BY <1>2, <1>3, <1>4, <1>5

LEMMA RateStep ==
  ASSUME CallsOK, QueueOK, RateOK, Next
  PROVE  RateOK'
<1>1. CASE \/ \E e \in Errors : ReportError(e)
           \/ \E s \in {Error, Critical} : Throw(s)
           \/ \E c \in Contexts, b \in BOOLEAN : ExecuteNull(c, b)
           \/ ProcessHead
  <2>1. window \in Intervals \cup {None}
    BY RateParts
  <2> QED BY <1>1, <2>1, Reporting, ReportRate, RateUnchanged
<1>2. CASE Tick
  BY <1>2, TickRate
<1>3. CASE \E c \in Contexts, i \in Intervals : SetThrottle(c, i)
  BY <1>3, ThrottleRate
<1>4. CASE \E w \in Intervals \union {None} : SetDeduplication(w)
  BY <1>4, RateUnchanged DEF SetDeduplication
<1>5. window \in Intervals \cup {None}
  BY RateParts
<1>6. CASE \/ DispatchToPolicies \/ Reported \/ OnError \/ Return \/ Fallback
           \/ ProcessPop \/ ProcessEnd \/ Clear \/ ResetStats
  <2>1. UNCHANGED <<now, window, throttle, seen, age>>
    BY <1>6 DEF DispatchToPolicies, Reported, OnError, Return, Fallback, ProcessPop, ProcessEnd,
                Clear, ResetStats, config
  <2> QED BY <1>5, <2>1, RateUnchanged
<1>7. CASE \/ \E k \in Kinds : RegisterPolicy(k)
           \/ \E s \in Filters : SetFilter(s)
           \/ \E e \in Errors : Enqueue(e)
           \/ \E c \in Contexts, b \in BOOLEAN : ExecuteSafe(c, b)
           \/ \E n \in {0, 1} : Process(n)
  <2>1. UNCHANGED <<now, window, throttle, seen, age>>
    BY <1>7 DEF RegisterPolicy, SetFilter, Enqueue, ExecuteSafe, Process, config
  <2> QED BY <1>5, <2>1, RateUnchanged
<1>8. CASE LeaveScope \/ PopContext \/ \E c \in Places : EnterScope(c) \/ PushContext(c)
  BY <1>5, <1>8, Scoping, RateUnchanged
<1> QED BY <1>1, <1>2, <1>3, <1>4, <1>6, <1>7, <1>8 DEF Next

(* An error is accepted by a report that neither the throttle nor the      *)
(* deduplication suppresses.                                               *)
LEMMA Accepting ==
  ASSUME CallsOK, QueueOK, RecordOK, Next, Len(accepted') > Len(accepted)
  PROVE  \E e \in Reportable : ~IsThrottled(e) /\ ~IsDuplicate(e) /\ accepted'[Len(accepted')] = e
<1>1. accepted \in Seq(Reportable) /\ Len(accepted) \in Nat
  BY LenProperties DEF RecordOK, Kept
<1>2. ASSUME UNCHANGED counted
      PROVE  FALSE
  BY <1>1, <1>2 DEF counted
<1>3. CASE \/ \E e \in Errors : ReportError(e)
           \/ \E s \in {Error, Critical} : Throw(s)
           \/ \E c \in Contexts, b \in BOOLEAN : ExecuteNull(c, b)
           \/ ProcessHead
  <2>1. PICK e \in Reportable : \E fs, d : Report(e, fs, d)
    BY <1>2, <1>3, Reporting
  <2>2. ~IsThrottled(e) /\ ~IsDuplicate(e) /\ accepted' = Append(accepted, e)
    <3>1. accepted' # accepted
      BY <1>1
    <3> QED BY <2>1, <3>1 DEF Report
  <2>3. accepted'[Len(accepted')] = e
    BY <1>1, <2>2, AppendProperties
  <2> QED BY <2>2, <2>3
<1>4. CASE ResetStats
  BY <1>1, <1>4, EmptySeq DEF ResetStats
<1>5. CASE \/ DispatchToPolicies \/ Reported \/ OnError \/ Return \/ Fallback
           \/ ProcessPop \/ ProcessEnd \/ Clear \/ Tick
  BY <1>2, <1>5 DEF DispatchToPolicies, Reported, OnError, Return, Fallback,
                    ProcessPop, ProcessEnd, Clear, Tick
<1>6. CASE \/ \E k \in Kinds : RegisterPolicy(k)
           \/ \E s \in Filters : SetFilter(s)
           \/ \E c \in Contexts, i \in Intervals : SetThrottle(c, i)
           \/ \E w \in Intervals \union {None} : SetDeduplication(w)
           \/ \E e \in Errors : Enqueue(e)
           \/ \E c \in Contexts, b \in BOOLEAN : ExecuteSafe(c, b)
           \/ \E n \in {0, 1} : Process(n)
  BY <1>2, <1>6 DEF RegisterPolicy, SetFilter, SetThrottle, SetDeduplication, Enqueue, ExecuteSafe,
                    Process
<1>7. CASE LeaveScope \/ PopContext \/ \E c \in Places : EnterScope(c) \/ PushContext(c)
  BY <1>2, <1>7, Scoping
<1> QED BY <1>3, <1>4, <1>5, <1>6, <1>7 DEF Next

(* An age in step with a time that is no longer within a limit. *)
LEMMA Expired ==
  ASSUME NEW n \in 0..Wrap - 1, NEW t \in 0..Wrap - 1, NEW a \in Nat, NEW i \in Intervals,
         InStep(n, t, a), ~(Since(n, t) < i)
  PROVE  a >= Min({i, MaxAge})
<1>1. i \in Int /\ MaxAge \in Int
  BY Sizes
<1>2. Min({i, MaxAge}) = IF i <= MaxAge THEN i ELSE MaxAge
  BY <1>1, MinIs
<1>3. PICK x : x = Since(n, t) /\ x \in Nat
  BY SinceIs
<1> QED BY <1>1, <1>2, <1>3 DEF InStep

LEMMA LimitedStep ==
  ASSUME IInv, Next, Len(accepted') > Len(accepted)
  PROVE  LET e == accepted'[Len(accepted')]
         IN  /\ throttle[e.context] # None =>
                  age.context[e.context] >= Min({throttle[e.context].interval, MaxAge})
             /\ window # None => age.key[Key(e)] >= Min({window, MaxAge})
<1>1. PICK e \in Reportable : ~IsThrottled(e) /\ ~IsDuplicate(e) /\ accepted'[Len(accepted')] = e
  BY Accepting DEF IInv
<1>2. /\ now \in 0..Wrap - 1 /\ window \in Intervals \cup {None} /\ age \in Ages
      /\ ContextAges(now, throttle, age.context) /\ KeyAges(now, seen, age.key)
  BY RateParts DEF IInv
<1>3. PICK c, k : c = e.context /\ k = Key(e) /\ c \in Contexts /\ k \in Keys
  BY ReportableParts
<1>4. ASSUME throttle[c] # None
      PROVE  age.context[c] >= Min({throttle[c].interval, MaxAge})
  <2>1. throttle[c].last \in 0..Wrap - 1 /\ throttle[c].interval \in Intervals /\ age.context[c] \in Nat
    BY <1>2, <1>3, <1>4 DEF ContextAges, Throttles
  <2>2. InStep(now, throttle[c].last, age.context[c])
    BY <1>2, <1>3, <1>4 DEF ContextAges
  <2>3. ~(Since(now, throttle[c].last) < throttle[c].interval)
    BY <1>1, <1>3, <1>4 DEF IsThrottled, Elapsed, Since
  <2> QED BY <1>2, <2>1, <2>2, <2>3, Expired
<1>5. ASSUME window # None
      PROVE  age.key[k] >= Min({window, MaxAge})
  <2>1. window \in Intervals /\ age.key[k] \in Nat
    BY <1>2, <1>3, <1>5 DEF KeyAges
  <2>2. CASE seen[k] = None
    <3>1. age.key[k] >= MaxAge
      BY <1>2, <1>3, <2>2 DEF KeyAges
    <3>2. window \in Int /\ MaxAge \in Int
      BY <2>1, Sizes
    <3>3. Min({window, MaxAge}) = IF window <= MaxAge THEN window ELSE MaxAge
      BY <3>2, MinIs
    <3> QED BY <2>1, <3>1, <3>2, <3>3
  <2>3. CASE seen[k] # None
    <3>1. seen[k] \in 0..Wrap - 1 /\ InStep(now, seen[k], age.key[k])
      BY <1>2, <1>3, <2>3 DEF KeyAges
    <3>2. ~(Since(now, seen[k]) < window)
      BY <1>1, <1>3, <1>5, <2>3 DEF IsDuplicate, Elapsed, Since
    <3> QED BY <1>2, <2>1, <3>1, <3>2, Expired
  <2> QED BY <2>2, <2>3
<1> QED BY <1>1, <1>3, <1>4, <1>5

-----------------------------------------------------------------------------
(* The theorems                                                            *)

LEMMA InitOK ==
  ASSUME Init
  PROVE  IInv
<1>1. QueueOK
  <2>1. PICK C : C = Capacity /\ C \in Nat /\ C >= 1
    BY Sizes
  <2>2. queue \in Queue /\ queue.head = 0 /\ queue.tail = 0 /\ queue.count = 0
    BY <2>1, Sizes DEF Init, Queue
  <2>3. waiting = <<>> /\ waiting \in Seq(Errors) /\ Len(waiting) = 0 /\ DOMAIN waiting = {}
    BY EmptySeq DEF Init
  <2>4. 0 % C = 0
    <3>1. Turn(0, C) = 0
      BY <2>1, Turned
    <3> QED BY <3>1 DEF Turn
  <2>5. reentered \in BOOLEAN
    BY Zenon DEF Init
  <2> QED BY <2>1, <2>2, <2>3, <2>4, <2>5 DEF QueueOK, QueueFaithful
<1>2. CallsOK /\ ContextsOK
  <2>1. /\ frames = <<>> /\ frames \in Seq(Frames) /\ Len(frames) = 0
        /\ scopes = <<>> /\ scopes \in Seq(Scope) /\ Len(scopes) = 0
        /\ stack = <<>> /\ stack \in Seq(Places) /\ Len(stack) = 0 /\ callback = FALSE
    BY EmptySeq DEF Init
  <2>2. 1..Len(frames) = {}
    BY <2>1
  <2>3. CallsFit(frames, Len(scopes), Heads)
    BY <2>1, <2>2 DEF CallsFit, Nested, InProgress
  <2>4. callback \in BOOLEAN /\ unpaired \in BOOLEAN /\ dropped \in BOOLEAN
    BY Zenon DEF Init
  <2>5. CallsOK
    BY <2>1, <2>3, <2>4, Zenon DEF CallsOK
  <2>6. Len(stack) <= Len(scopes) /\ Len(stack) = Len(scopes) /\ 1..Len(scopes) = {}
    BY <2>1
  <2>7. ContextsOK
    BY <2>1, <2>4, <2>6, Zenon DEF ContextsOK, Tracks
  <2> QED BY <2>5, <2>7
<1>3. RecordOK
  <2>1. HistorySize \in Nat /\ HistorySize >= 1
    BY Sizes
  <2>2. stats = Zero /\ Zero \in Stats /\ Zero.total = 0 /\ \A s \in Severities : Zero.severity[s] = 0
    BY DEF Init, Zero, Stats
  <2>3. ring \in Ring /\ ring.index = 0 /\ ring.count = 0
    BY <2>1 DEF Init, Ring
  <2>4. accepted = <<>> /\ accepted \in Seq(Reportable) /\ Len(accepted) = 0
    BY EmptySeq DEF Init
  <2>5. \A s : OfSeverity(accepted, s) = {}
    BY <2>4 DEF OfSeverity
  <2>6. \A s \in Severities : stats.severity[s] = Cardinality(OfSeverity(accepted, s))
    BY <2>2, <2>5, FS_EmptySet
  <2>7. 1..ring.count = {}
    BY <2>3
  <2>8. ring.count = IF Len(accepted) <= HistorySize THEN Len(accepted) ELSE HistorySize
    BY <2>1, <2>3, <2>4
  <2> QED BY <2>2, <2>3, <2>4, <2>6, <2>7, <2>8 DEF RecordOK, Kept
<1>4. RateOK
  <2>1. now = 0 /\ now \in 0..Wrap - 1 /\ window = None /\ MaxAge \in Nat
    BY Sizes DEF Init
  <2>2. throttle = [c \in Contexts |-> None] /\ seen = [k \in Keys |-> None]
    BY DEF Init
  <2>3. PICK ac, ak : ac = [c \in Contexts |-> MaxAge] /\ ak = [k \in Keys |-> MaxAge]
    OBVIOUS
  <2>4. age = [context |-> ac, key |-> ak]
    BY <2>3 DEF Init
  <2>5. ac \in [Contexts -> Nat] /\ ak \in [Keys -> Nat]
    BY <2>1, <2>3
  <2>6. age \in Ages /\ age.context = ac /\ age.key = ak
    BY <2>4, <2>5 DEF Ages
  <2>7. ContextAges(now, throttle, ac)
    BY <2>2, <2>5 DEF ContextAges, Throttles
  <2>8. KeyAges(now, seen, ak)
    BY <2>1, <2>2, <2>3, <2>5 DEF KeyAges
  <2> QED BY <2>1, <2>6, <2>7, <2>8, RateParts
<1> QED BY <1>1, <1>2, <1>3, <1>4 DEF IInv

LEMMA Stutters ==
  ASSUME IInv, UNCHANGED vars
  PROVE  IInv'
<1>1. /\ UNCHANGED queued /\ UNCHANGED <<frames, scopes>> /\ UNCHANGED contexts
      /\ UNCHANGED counted /\ UNCHANGED <<now, throttle, seen, age>>
      /\ UNCHANGED <<window, callback>>
  BY DEF vars, config, contexts
<1>2. callback' \in BOOLEAN /\ window' \in Intervals \cup {None}
  BY <1>1, RateParts DEF IInv, CallsOK
<1> QED BY <1>1, <1>2, QueueUnchanged, CallsUnchanged, ContextsUnchanged, RecordUnchanged, RateUnchanged DEF IInv

LEMMA Inductive == Spec => []IInv
<1>1. Init => IInv
  BY InitOK
<1>2. IInv /\ [Next]_vars => IInv'
  BY CallsStep, QueueStep, ContextsStep, RecordStep, RateStep, Stutters DEF IInv
<1> QED BY <1>1, <1>2, PTL DEF Spec

(* What the queue holds from its head on is what was enqueued and has not  *)
(* been processed, in that order, for every capacity: enqueue() from the   *)
(* callback of the entry that processOne() reports, and an exception that  *)
(* abandons it there, included; until a callback takes entries off itself. *)
THEOREM QueueStaysFaithful == Spec => []QueueFaithful
<1>1. IInv => QueueFaithful
  BY DEF IInv, QueueOK
<1> QED BY <1>1, Inductive, PTL

(* popContext(), by hand, by the guards and by the unwinding of an         *)
(* exception to any executeSafe() below, leaves on the stack exactly the   *)
(* contexts that were pushed and not popped, and never more than those     *)
(* once a push was dropped, for every depth of the stack and of the calls, *)
(* as long as pushes and pops by hand are paired.                          *)
THEOREM ContextsUnwound == Spec => []ContextUnwinds
<1>1. IInv => ContextUnwinds
  BY ContextsTracked DEF IInv
<1> QED BY <1>1, Inductive, PTL

(* printErrorHistory() lists the last errors accepted since resetStats(),  *)
(* with the codes they were given, and the counters agree with them, for   *)
(* every size of the history.                                              *)
THEOREM HistoryStaysTail == Spec => []HistoryIsTail
<1>1. IInv => HistoryIsTail
  BY RecordIsTail DEF IInv
<1> QED BY <1>1, Inductive, PTL

(* reportError() accepts two errors of a throttled context an interval     *)
(* apart and two of one key a window apart, for every period of millis()   *)
(* and every interval shorter than it.                                     *)
THEOREM RateStaysLimited == Spec => RateLimited
<1>1. IInv /\ [Next]_vars =>
        [Len(accepted') > Len(accepted) =>
           LET e == accepted'[Len(accepted')]
           IN  /\ throttle[e.context] # None =>
                    age.context[e.context] >= Min({throttle[e.context].interval, MaxAge})
               /\ window # None => age.key[Key(e)] >= Min({window, MaxAge})]_vars
  BY LimitedStep
<1> QED BY <1>1, Inductive, PTL DEF Spec, RateLimited
=============================================================================
