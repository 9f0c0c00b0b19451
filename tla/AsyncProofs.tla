---------------------------- MODULE AsyncProofs ----------------------------
(***************************************************************************)
(* Proofs about the Executor of Async, for any pool of slots, any futures  *)
(* and any number of futures scheduled from inside a poll(); and about the *)
(* event dispatcher, for any events and listeners and dispatches nested to *)
(* any depth.  Both walk an array that what they call may change.          *)
(***************************************************************************)
EXTENDS Async, EventDispatcher, FiniteSetTheorems, SequenceTheorems, WellFoundedInduction, TLAPS

-----------------------------------------------------------------------------
(* The inductive invariants                                                *)

Distinct(q) == \A k, l \in 1..Len(q) : q[k] = q[l] => k = l

Within(s, q) == \E k \in 1..Len(q) : q[k] = s

(* Two arrays that share out the slots. *)
Shared(a, f) ==
  /\ a \in Seq(Slots) /\ f \in Seq(Slots)
  /\ Distinct(a) /\ Distinct(f)
  /\ \A k \in 1..Len(a) : ~Within(a[k], f)
  /\ \A s \in Slots : Within(s, a) \/ Within(s, f)
  /\ Len(a) + Len(f) = Cardinality(Slots)

(* SlotsPartition with the two facts that its steps rest on: no slot is    *)
(* twice in an array, and none is in both.                                 *)
PoolOK ==
  /\ DOMAIN fut = Slots
  /\ Shared(active, free)
  /\ \A s \in Slots : Within(s, free) => fut[s] = NoFuture

(* SweepExact with the range of the index, and with `polled` confined to   *)
(* active slots: a slot that is taken again has not been called.           *)
SweepOK ==
  /\ pc \in {"sketch", "poll", "callback"}
  /\ i \in 1..Len(active) + 1
  /\ pc = "sketch" => i = 1 /\ polled = {}
  /\ pc = "callback" => i <= Len(active)
  /\ \A s \in polled : Within(s, active)
  /\ \A k \in 1..Len(active) : /\ k < i => active[k] \in polled
                               /\ k > i => active[k] \notin polled
                               /\ k = i => (active[k] \in polled <=> pc = "callback")

-----------------------------------------------------------------------------
(* What happens to the arrays                                              *)

LEMMA Prefix ==
  ASSUME NEW q, NEW n \in Nat, \A k \in 1..n : q[k] \in Slots
  PROVE  /\ SubSeq(q, 1, n) \in Seq(Slots) /\ Len(SubSeq(q, 1, n)) = n
         /\ \A k \in 1..n : SubSeq(q, 1, n)[k] = q[k]
<1>1. PICK p : p = SubSeq(q, 1, n)
  OBVIOUS
<1>2. /\ p \in Seq(Slots) /\ Len(p) = IF 1 <= n THEN n - 1 + 1 ELSE 0
      /\ \A k \in 1..n - 1 + 1 : p[k] = q[1 + k - 1]
  BY <1>1, SubSeqProperties
<1>3. n - 1 + 1 = n /\ \A k \in 1..n : 1 + k - 1 = k
  OBVIOUS
<1>4. Len(p) = n
  BY <1>2, <1>3
<1>5. \A k \in 1..n : p[k] = q[k]
  BY <1>2, <1>3
<1> QED BY <1>1, <1>2, <1>4, <1>5

LEMMA Takes ==
  ASSUME NEW a, NEW f, Shared(a, f), f # <<>>
  PROVE  LET s == f[Len(f)]  b == Append(a, s)  g == SubSeq(f, 1, Len(f) - 1) IN
         /\ s \in Slots /\ ~Within(s, a) /\ ~Within(s, g) /\ Shared(b, g)
         /\ Len(b) = Len(a) + 1 /\ b[Len(a) + 1] = s
         /\ \A k \in 1..Len(a) : b[k] = a[k]
         /\ \A t \in Slots : Within(t, g) => Within(t, f)
<1>1. a \in Seq(Slots) /\ f \in Seq(Slots) /\ Len(a) \in Nat /\ Len(f) \in Nat \ {0}
  BY EmptySeq, LenProperties DEF Shared
<1>2. PICK s : s = f[Len(f)] /\ s \in Slots
  BY <1>1, ElementOfSeq
<1>3. PICK b : b = Append(a, s)
  OBVIOUS
<1>4. b \in Seq(Slots) /\ Len(b) = Len(a) + 1 /\ b[Len(a) + 1] = s /\ \A k \in 1..Len(a) : b[k] = a[k]
  BY <1>1, <1>2, <1>3, AppendProperties
<1>5. PICK g : g = SubSeq(f, 1, Len(f) - 1)
  OBVIOUS
<1>6. g \in Seq(Slots) /\ Len(g) = Len(f) - 1 /\ \A k \in 1..Len(g) : g[k] = f[k]
  <2>1. PICK m : m = Len(f) - 1 /\ m \in Nat
    BY <1>1
  <2>2. \A k \in 1..m : f[k] \in Slots
    BY <1>1, <2>1, ElementOfSeq
  <2>3. g = SubSeq(f, 1, m)
    BY <1>5, <2>1
  <2>4. g \in Seq(Slots) /\ Len(g) = m /\ \A k \in 1..m : g[k] = f[k]
    BY <2>1, <2>2, <2>3, Prefix
  <2> QED BY <2>1, <2>4
<1>7. ~Within(s, a) /\ ~Within(s, g)
  BY <1>1, <1>2, <1>6 DEF Shared, Within, Distinct
<1>8. Distinct(b) /\ Distinct(g)
  <2>1. \A k, l \in 1..Len(a) : a[k] = a[l] => k = l
    BY DEF Shared, Distinct
  <2>2. \A k \in 1..Len(a) : a[k] # s
    BY <1>7 DEF Within
  <2>3. Distinct(b)
    BY <1>1, <1>4, <2>1, <2>2 DEF Distinct
  <2>4. \A k, l \in 1..Len(f) : f[k] = f[l] => k = l
    BY DEF Shared, Distinct
  <2>5. Distinct(g)
    BY <1>1, <1>6, <2>4 DEF Distinct
  <2> QED BY <2>3, <2>5
<1>9. \A t \in Slots : Within(t, g) => Within(t, f)
  BY <1>1, <1>6 DEF Within
<1>10. \A k \in 1..Len(b) : ~Within(b[k], g)
  <2>1. \A k \in 1..Len(a) : \A l \in 1..Len(f) : f[l] # a[k]
    BY DEF Shared, Within
  <2>2. \A l \in 1..Len(g) : g[l] # s
    BY <1>7 DEF Within
  <2>3. \A l \in 1..Len(g) : l \in 1..Len(f) /\ g[l] = f[l]
    BY <1>1, <1>6
  <2>4. \A k \in 1..Len(b) : b[k] = s \/ (k \in 1..Len(a) /\ b[k] = a[k])
    BY <1>1, <1>4
  <2> QED BY <2>1, <2>2, <2>3, <2>4 DEF Within
<1>11. \A t \in Slots : Within(t, b) \/ Within(t, g)
  <2>1. SUFFICES ASSUME NEW t \in Slots, ~Within(t, g)
                 PROVE  Within(t, b)
    OBVIOUS
  <2>2. CASE t = s
    BY <1>1, <1>4, <2>2 DEF Within
  <2>3. CASE Within(t, a)
    BY <1>1, <1>4, <2>3 DEF Within
  <2>4. CASE Within(t, f) /\ t # s
    BY <1>1, <1>2, <1>6, <2>1, <2>4 DEF Within
  <2> QED BY <2>2, <2>3, <2>4 DEF Shared
<1>12. Len(b) + Len(g) = Cardinality(Slots)
  BY <1>1, <1>4, <1>6 DEF Shared
<1>13. Shared(b, g)
  BY <1>4, <1>6, <1>8, <1>10, <1>11, <1>12 DEF Shared
<1> QED BY <1>2, <1>3, <1>4, <1>5, <1>7, <1>9, <1>13

LEMMA Releases ==
  ASSUME NEW a, NEW f, Shared(a, f), NEW j \in 1..Len(a)
  PROVE  LET n == Len(a)  s == a[j]  b == SubSeq([a EXCEPT ![j] = a[n]], 1, n - 1)  g == Append(f, s) IN
         /\ s \in Slots /\ Shared(b, g) /\ Len(b) = n - 1 /\ ~Within(s, b)
         /\ \A k \in 1..n - 1 : b[k] = IF k = j THEN a[n] ELSE a[k]
         /\ \A t \in Slots : Within(t, g) => t = s \/ Within(t, f)
         /\ \A t \in Slots : Within(t, a) /\ t # s => Within(t, b)
<1>1. a \in Seq(Slots) /\ f \in Seq(Slots) /\ Len(a) \in Nat /\ Len(f) \in Nat /\ j \in Nat /\ 1 <= j /\ j <= Len(a)
  BY LenProperties DEF Shared
<1>2. PICK n : n = Len(a) /\ n \in Nat /\ n >= 1
  BY <1>1
<1>3. \A k \in 1..n : a[k] \in Slots
  BY <1>1, <1>2, ElementOfSeq
<1>4. PICK s : s = a[j] /\ s \in Slots
  BY <1>1, <1>2, <1>3
<1>5. PICK e : e = [a EXCEPT ![j] = a[n]]
  OBVIOUS
<1>6. \A k \in 1..n : e[k] = IF k = j THEN a[n] ELSE a[k]
  BY <1>1, <1>2, <1>5, LenProperties
<1>7. PICK b : b = SubSeq(e, 1, n - 1)
  OBVIOUS
<1>8. b \in Seq(Slots) /\ Len(b) = n - 1 /\ \A k \in 1..n - 1 : b[k] = IF k = j THEN a[n] ELSE a[k]
  <2>1. \A k \in 1..n - 1 : e[k] \in Slots /\ k \in 1..n
    BY <1>2, <1>3, <1>6
  <2>2. PICK m : m = n - 1 /\ m \in Nat
    BY <1>2
  <2>3. b = SubSeq(e, 1, m)
    BY <1>7, <2>2
  <2>4. b \in Seq(Slots) /\ Len(b) = m /\ \A k \in 1..m : b[k] = e[k]
    BY <2>1, <2>2, <2>3, Prefix
  <2> QED BY <1>6, <2>1, <2>2, <2>4
<1>9. PICK g : g = Append(f, s)
  OBVIOUS
<1>10. g \in Seq(Slots) /\ Len(g) = Len(f) + 1 /\ g[Len(f) + 1] = s /\ \A k \in 1..Len(f) : g[k] = f[k]
  BY <1>1, <1>4, <1>9, AppendProperties
<1>11. Distinct(b) /\ ~Within(s, b)
  <2>1. \A k, l \in 1..n : a[k] = a[l] => k = l
    BY <1>2 DEF Shared, Distinct
  <2>2. \A k \in 1..n - 1 : b[k] # s
    BY <1>1, <1>2, <1>4, <1>8, <2>1
  <2>3. \A k, l \in 1..n - 1 : b[k] = b[l] => k = l
    BY <1>1, <1>2, <1>8, <2>1
  <2> QED BY <1>8, <2>2, <2>3 DEF Distinct, Within
<1>12. ~Within(s, f)
  BY <1>1, <1>4 DEF Shared
<1>13. Distinct(g)
  <2>1. \A k, l \in 1..Len(f) : f[k] = f[l] => k = l
    BY DEF Shared, Distinct
  <2>2. \A k \in 1..Len(f) : f[k] # s
    BY <1>12 DEF Within
  <2>3. \A k \in 1..Len(g) : k \in 1..Len(f) \/ k = Len(f) + 1
    BY <1>1, <1>10
  <2> QED BY <1>10, <2>1, <2>2, <2>3 DEF Distinct
<1>14. \A t \in Slots : Within(t, g) <=> t = s \/ Within(t, f)
  BY <1>1, <1>10 DEF Within
<1>15. \A t \in Slots : Within(t, a) /\ t # s => Within(t, b)
  <2>1. SUFFICES ASSUME NEW t \in Slots, t # s, NEW k \in 1..n, a[k] = t
                 PROVE  Within(t, b)
    BY <1>2 DEF Within
  <2>2. CASE k = n
    <3>1. j \in 1..n - 1
      BY <1>1, <1>2, <1>4, <2>1, <2>2
    <3>2. b[j] = t
      BY <1>8, <2>1, <2>2, <3>1
    <3> QED BY <1>8, <3>1, <3>2 DEF Within
  <2>3. CASE k # n
    <3>1. k \in 1..n - 1 /\ k # j
      BY <1>2, <1>4, <2>1, <2>3
    <3>2. b[k] = t
      BY <1>8, <2>1, <3>1
    <3> QED BY <1>8, <3>1, <3>2 DEF Within
  <2> QED BY <2>2, <2>3
<1>16. \A k \in 1..Len(b) : ~Within(b[k], g)
  <2>1. SUFFICES ASSUME NEW k \in 1..n - 1
                 PROVE  ~Within(b[k], g)
    BY <1>8
  <2>2. b[k] # s /\ b[k] \in Slots
    BY <1>2, <1>3, <1>8, <1>11, <2>1 DEF Within
  <2>3. ~Within(b[k], f)
    <3>1. \A l \in 1..n : ~Within(a[l], f)
      BY <1>2 DEF Shared
    <3>2. PICK l \in 1..n : b[k] = a[l]
      BY <1>2, <1>8, <2>1
    <3> QED BY <3>1, <3>2
  <2> QED BY <1>14, <2>2, <2>3
<1>17. \A t \in Slots : Within(t, b) \/ Within(t, g)
  BY <1>14, <1>15 DEF Shared
<1>18. Len(b) + Len(g) = Cardinality(Slots)
  BY <1>1, <1>2, <1>8, <1>10 DEF Shared
<1>19. Shared(b, g)
  BY <1>8, <1>10, <1>11, <1>13, <1>16, <1>17, <1>18 DEF Shared
<1> QED BY <1>2, <1>4, <1>5, <1>7, <1>8, <1>9, <1>11, <1>14, <1>15, <1>19

-----------------------------------------------------------------------------
(* The executor's steps                                                    *)

LEMMA InitOK ==
  ASSUME Init
  PROVE  PoolOK /\ SweepOK
<1>1. PICK n : n = Cardinality(Slots) /\ n \in Nat /\ ExistsBijection(1..n, Slots)
  BY AsyncAssumption, FS_CardinalityType
<1>2. \E q \in [1..n -> Slots] : {q[k] : k \in DOMAIN q} = Slots
  <2>1. PICK q : q \in Bijection(1..n, Slots)
    BY <1>1 DEF ExistsBijection
  <2>2. q \in [1..n -> Slots] /\ \A s \in Slots : \E k \in 1..n : q[k] = s
    BY <2>1 DEF Bijection, Surjection
  <2> QED BY <2>2
<1>3. free \in [1..n -> Slots] /\ {free[k] : k \in DOMAIN free} = Slots
  BY <1>1, <1>2 DEF Init
<1>4. free \in Seq(Slots) /\ Len(free) = n
  BY <1>1, <1>3
<1>5. Distinct(free)
  <2>1. free \in Surjection(1..n, Slots)
    BY <1>3 DEF Surjection
  <2>2. IsFiniteSet(1..n) /\ Cardinality(1..n) = n
    BY <1>1, FS_Interval
  <2>3. free \in Injection(1..n, Slots)
    BY <1>1, <2>1, <2>2, FS_SurjSameCardinalityImpliesInj
  <2> QED BY <1>4, <2>3 DEF Injection, IsInjective, Distinct
<1>6. active = <<>> /\ active \in Seq(Slots) /\ Len(active) = 0
  BY EmptySeq DEF Init
<1>7. \A s \in Slots : Within(s, free)
  BY <1>3, <1>4 DEF Within
<1>8. Shared(active, free)
  BY <1>1, <1>4, <1>5, <1>6, <1>7 DEF Shared, Distinct
<1>9. PoolOK
  BY <1>8 DEF Init, PoolOK
<1> QED BY <1>6, <1>9 DEF Init, SweepOK

LEMMA ExecuteOK ==
  ASSUME PoolOK, SweepOK, NEW shape \in Shapes, NEW d \in Delays, Execute(shape, d)
  PROVE  PoolOK' /\ SweepOK'
<1>1. PICK s : s = free[Len(free)]
  OBVIOUS
<1>2. active' = Append(active, s) /\ free' = SubSeq(free, 1, Len(free) - 1) /\ free # <<>>
  BY <1>1 DEF Execute
<1>3. /\ s \in Slots /\ ~Within(s, active) /\ ~Within(s, free') /\ Shared(active', free')
      /\ Len(active') = Len(active) + 1 /\ active'[Len(active) + 1] = s
      /\ \A k \in 1..Len(active) : active'[k] = active[k]
      /\ \A t \in Slots : Within(t, free') => Within(t, free)
  BY <1>1, <1>2, Takes DEF PoolOK
<1>4. PICK x : fut' = [fut EXCEPT ![s] = x]
  BY <1>1 DEF Execute
<1>5. PoolOK'
  <2>1. DOMAIN fut' = Slots /\ \A t \in Slots : t # s => fut'[t] = fut[t]
    BY <1>3, <1>4 DEF PoolOK
  <2>2. \A t \in Slots : Within(t, free') => fut'[t] = NoFuture
    BY <1>3, <2>1 DEF PoolOK
  <2>3. \A t \in Slots : Within(t, free)' <=> Within(t, free')
    BY DEF Within
  <2>4. Shared(active, free)'
    BY <1>3 DEF Shared, Distinct, Within
  <2> QED BY <2>1, <2>2, <2>3, <2>4 DEF PoolOK
<1>6. Len(active) \in Nat
  BY LenProperties DEF PoolOK, Shared
<1>7. i' = i /\ pc' = pc /\ polled' = polled /\ pc \in {"sketch", "callback"}
  BY DEF Execute, Sketch
<1>8. \A t \in polled : \E k \in 1..Len(active') : active'[k] = t
  BY <1>3, <1>6 DEF SweepOK, Within
<1>9. s \notin polled
  BY <1>3 DEF SweepOK
<1>10. \A k \in 1..Len(active) + 1 : /\ k < i => active'[k] \in polled
                                     /\ k > i => active'[k] \notin polled
                                     /\ k = i => (active'[k] \in polled <=> pc = "callback")
  <2>1. ASSUME NEW k \in 1..Len(active)
        PROVE  /\ k < i => active'[k] \in polled
               /\ k > i => active'[k] \notin polled
               /\ k = i => (active'[k] \in polled <=> pc = "callback")
    BY <1>3 DEF SweepOK
  <2>2. i <= Len(active) + 1 /\ i \in Nat /\ (pc = "callback" => i <= Len(active))
    BY <1>6 DEF SweepOK
  <2>3. \A k \in 1..Len(active) + 1 : k \in 1..Len(active) \/ k = Len(active) + 1
    BY <1>6
  <2> QED BY <1>3, <1>6, <1>9, <2>1, <2>2, <2>3
<1>11. i \in 1..Len(active') + 1 /\ (pc = "callback" => i <= Len(active'))
  BY <1>3, <1>6 DEF SweepOK
<1> QED BY <1>3, <1>5, <1>7, <1>8, <1>10, <1>11 DEF SweepOK, Within

LEMMA CallOK ==
  ASSUME PoolOK, SweepOK, PollCall
  PROVE  PoolOK' /\ SweepOK'
<1>1. active' = active /\ free' = free /\ i' = i /\ pc = "poll" /\ pc' = "callback" /\ i <= Len(active)
  BY DEF PollCall
<1>2. active \in Seq(Slots) /\ Len(active) \in Nat /\ i \in 1..Len(active)
  BY <1>1, LenProperties DEF PoolOK, Shared, SweepOK
<1>3. PICK s : s = active[i] /\ s \in Slots
  BY <1>2, ElementOfSeq
<1>4. polled' = polled \cup {s}
  BY <1>3 DEF PollCall
<1>5. DOMAIN fut' = Slots /\ \A t \in Slots : t # s => fut'[t] = fut[t]
  BY <1>3 DEF PoolOK, PollCall
<1>6. ~Within(s, free)
  BY <1>2, <1>3 DEF PoolOK, Shared
<1>7. PoolOK'
  BY <1>1, <1>5, <1>6 DEF PoolOK, Shared, Distinct, Within
<1>8. \A k, l \in 1..Len(active) : active[k] = active[l] => k = l
  BY DEF PoolOK, Shared, Distinct
<1>9. \A k \in 1..Len(active) : /\ k < i => active[k] \in polled'
                                /\ k > i => active[k] \notin polled'
                                /\ k = i => active[k] \in polled'
  BY <1>2, <1>3, <1>4, <1>8 DEF SweepOK
<1>10. \A t \in polled' : \E k \in 1..Len(active) : active[k] = t
  BY <1>2, <1>3, <1>4 DEF SweepOK, Within
<1> QED BY <1>1, <1>2, <1>7, <1>9, <1>10 DEF SweepOK, Within

LEMMA ReturnOK ==
  ASSUME PoolOK, SweepOK, Return
  PROVE  PoolOK' /\ SweepOK'
<1>1. pc = "callback" /\ pc' = "poll"
  BY DEF Return
<1>2. active \in Seq(Slots) /\ Len(active) \in Nat /\ i \in 1..Len(active)
  BY <1>1, LenProperties DEF PoolOK, Shared, SweepOK
<1>3. PICK s : s = active[i] /\ s \in Slots
  BY <1>2, ElementOfSeq
<1>4. CASE i' = i + 1 /\ UNCHANGED <<fut, active, free, polled>>
  <2>1. PoolOK'
    BY <1>4 DEF PoolOK, Shared, Distinct, Within
  <2>2. \A k \in 1..Len(active) : /\ k < i + 1 => active[k] \in polled
                                  /\ k >= i + 1 => active[k] \notin polled
    BY <1>1, <1>2 DEF SweepOK
  <2> QED BY <1>1, <1>2, <1>4, <2>1, <2>2 DEF SweepOK, Within
<1>5. CASE /\ fut' = [fut EXCEPT ![s] = NoFuture]
           /\ free' = Append(free, s)
           /\ active' = SubSeq([active EXCEPT ![i] = active[Len(active)]], 1, Len(active) - 1)
           /\ polled' = polled \ {s}
           /\ i' = i
  <2>1. PICK n : n = Len(active) /\ n \in Nat /\ n >= 1
    BY <1>2
  <2>2. /\ Shared(active', free') /\ Len(active') = n - 1 /\ ~Within(s, active')
        /\ \A k \in 1..n - 1 : active'[k] = IF k = i THEN active[n] ELSE active[k]
        /\ \A t \in Slots : Within(t, free') => t = s \/ Within(t, free)
        /\ \A t \in Slots : Within(t, active) /\ t # s => Within(t, active')
    <3>1. Shared(active, free)
      BY DEF PoolOK
    <3>2. LET b == SubSeq([active EXCEPT ![i] = active[Len(active)]], 1, Len(active) - 1)
              g == Append(free, active[i]) IN
          /\ Shared(b, g) /\ Len(b) = Len(active) - 1 /\ ~Within(active[i], b)
          /\ \A k \in 1..Len(active) - 1 : b[k] = IF k = i THEN active[Len(active)] ELSE active[k]
          /\ \A t \in Slots : Within(t, g) => t = active[i] \/ Within(t, free)
          /\ \A t \in Slots : Within(t, active) /\ t # active[i] => Within(t, b)
      BY <1>2, <3>1, Releases
    <3> QED BY <1>3, <1>5, <2>1, <3>2
  <2>3. DOMAIN fut' = Slots /\ \A t \in Slots : fut'[t] = IF t = s THEN NoFuture ELSE fut[t]
    BY <1>3, <1>5 DEF PoolOK
  <2>4. \A t \in Slots : Within(t, free') => fut'[t] = NoFuture
    BY <2>2, <2>3 DEF PoolOK
  <2>5. PoolOK'
    BY <2>2, <2>3, <2>4 DEF PoolOK, Shared, Distinct, Within
  <2>6. \A k \in 1..n - 1 : /\ k < i => active'[k] \in polled'
                            /\ k >= i => active'[k] \notin polled'
    <3>1. \A k, l \in 1..n : active[k] = active[l] => k = l
      BY <2>1 DEF PoolOK, Shared, Distinct
    <3>2. \A k \in 1..n : /\ k < i => active[k] \in polled
                          /\ k > i => active[k] \notin polled
      BY <2>1 DEF SweepOK
    <3> QED BY <1>2, <1>3, <1>5, <2>1, <2>2, <3>1, <3>2
  <2>7. \A t \in polled' : Within(t, active')
    <3>1. SUFFICES ASSUME NEW t \in polled, t # s
                   PROVE  Within(t, active')
      BY <1>5
    <3>2. Within(t, active)
      BY DEF SweepOK
    <3>3. t \in Slots
      BY <1>2, <3>2, ElementOfSeq DEF Within
    <3> QED BY <2>2, <3>1, <3>2, <3>3
  <2>8. i \in 1..n - 1 + 1
    BY <1>2, <2>1
  <2> QED BY <1>1, <1>5, <2>1, <2>2, <2>5, <2>6, <2>7, <2>8 DEF SweepOK, Within
<1> QED BY <1>3, <1>4, <1>5 DEF Return

LEMMA PoolUnchanged ==
  ASSUME PoolOK, SweepOK, UNCHANGED execVars
  PROVE  PoolOK' /\ SweepOK'
BY DEF execVars, PoolOK, SweepOK, Shared, Distinct, Within

IInv == PoolOK /\ SweepOK

LEMMA StepOK ==
  ASSUME IInv, [Next]_vars
  PROVE  IInv'
<1>1. ASSUME NEW shape \in Shapes, NEW d \in Delays, Execute(shape, d)
      PROVE  IInv'
  BY <1>1, ExecuteOK DEF IInv
<1>2. CASE PollBegin
  <2>1. Len(active) \in Nat
    BY LenProperties DEF IInv, PoolOK, Shared
  <2>2. PoolOK'
    BY <1>2 DEF PollBegin, IInv, PoolOK, Shared, Distinct, Within
  <2>3. SweepOK'
    BY <1>2, <2>1 DEF PollBegin, IInv, SweepOK, Within
  <2> QED BY <2>2, <2>3 DEF IInv
<1>3. CASE PollCall
  BY <1>3, CallOK DEF IInv
<1>4. CASE Return
  BY <1>4, ReturnOK DEF IInv
<1>5. CASE PollEnd
  <2>1. Len(active) \in Nat
    BY LenProperties DEF IInv, PoolOK, Shared
  <2>2. PoolOK'
    BY <1>5 DEF PollEnd, IInv, PoolOK, Shared, Distinct, Within
  <2>3. SweepOK'
    BY <1>5, <2>1 DEF PollEnd, IInv, SweepOK, Within
  <2> QED BY <2>2, <2>3 DEF IInv
<1>6. CASE NewDeferred \/ Clock \/ UNCHANGED vars
  BY <1>6, PoolUnchanged DEF NewDeferred, Clock, vars, IInv
<1>7. CASE \E state \in {"Resolved", "Rejected"} : Settle(state) \/ \E w \in Writers : Check(w, state)
  BY <1>7, PoolUnchanged DEF Settle, Check, IInv
<1>8. CASE \E w \in Writers : Lend(w) \/ WriteState(w) \/ WritePayload(w) \/ WriterEnds(w)
  BY <1>8, PoolUnchanged DEF Lend, WriteState, WritePayload, WriterEnds, IInv
<1> QED BY <1>1, <1>2, <1>3, <1>4, <1>5, <1>6, <1>7, <1>8 DEF Next, Poll

LEMMA Inductive == Spec => []IInv
<1>1. Init => IInv
  BY InitOK DEF IInv
<1>2. IInv /\ [Next]_vars => IInv'
  BY StepOK
<1> QED BY <1>1, <1>2, PTL DEF Spec

(* For a pool of any size, and however the futures that poll() calls       *)
(* execute() others, every slot is in exactly one of the arrays and a free *)
(* slot's function has been cleared.                                       *)
THEOREM PoolPartitioned == Spec => []SlotsPartition
<1>1. IInv => SlotsPartition
  <2>1. SUFFICES ASSUME IInv
                 PROVE  SlotsPartition
    OBVIOUS
  <2>2. /\ active \in Seq(Slots) /\ free \in Seq(Slots)
        /\ DOMAIN active = 1..Len(active) /\ DOMAIN free = 1..Len(free)
    BY <2>1, LenProperties DEF IInv, PoolOK, Shared
  <2>3. Len(active) + Len(free) = Cardinality(Slots)
    BY <2>1 DEF IInv, PoolOK, Shared
  <2>4. /\ \A k \in 1..Len(active) : active[k] \in Slots
        /\ \A k \in 1..Len(free) : free[k] \in Slots
    BY <2>2, ElementOfSeq
  <2>5. Elems(active) \cup Elems(free) = Slots
    <3>1. Elems(active) = {active[k] : k \in 1..Len(active)} /\ Elems(free) = {free[k] : k \in 1..Len(free)}
      BY <2>2 DEF Elems
    <3>2. \A s \in Slots : Within(s, active) \/ Within(s, free)
      BY <2>1 DEF IInv, PoolOK, Shared
    <3> QED BY <2>4, <3>1, <3>2 DEF Within
  <2>6. \A s \in Elems(free) : fut[s] = NoFuture
    BY <2>1, <2>2, <2>4 DEF IInv, PoolOK, Within, Elems
  <2> QED BY <2>3, <2>5, <2>6 DEF SlotsPartition
<1> QED BY <1>1, Inductive, PTL

(* One pass of poll() calls each future once, whichever futures finish in  *)
(* it and are replaced by the last, and whichever are added meanwhile.     *)
THEOREM EachPolledOnce == Spec => []SweepExact
<1>1. IInv => SweepExact
  <2>1. SUFFICES ASSUME IInv, NEW k \in DOMAIN active, pc # "sketch"
                 PROVE  /\ k < i => active[k] \in polled
                        /\ k > i => active[k] \notin polled
                        /\ k = i => (active[k] \in polled <=> pc # "poll")
    BY DEF SweepExact
  <2>2. k \in 1..Len(active)
    BY <2>1, LenProperties DEF IInv, PoolOK, Shared
  <2> QED BY <2>1, <2>2 DEF IInv, SweepOK
<1> QED BY <1>1, Inductive, PTL

-----------------------------------------------------------------------------
(* Natural numbers                                                         *)

(* An induction over natural numbers is an argument about the least        *)
(* counterexample.                                                         *)
LEMMA Least ==
  ASSUME NEW T, T \subseteq Nat, T # {}
  PROVE  \E x \in T : \A y \in T : x <= y
<1>1. PICK x \in T : \A y \in T : ~(<<y, x>> \in OpToRel(<, Nat))
  BY WFMin, NatLessThanWellFounded
<1>2. \A y \in Nat : y < x => <<y, x>> \in OpToRel(<, Nat)
  BY DEF OpToRel
<1>3. \A y \in T : y \in Nat /\ ~(y < x)
  BY <1>1, <1>2
<1> QED BY <1>3

(* Induction, over a set instead of a predicate. *)
LEMMA UpTo ==
  ASSUME NEW n \in Nat, NEW T, 0 \in T, \A p \in 0..n - 1 : p \in T => p + 1 \in T
  PROVE  \A p \in 0..n : p \in T
<1> SUFFICES ASSUME NEW m \in 0..n, m \notin T
             PROVE  FALSE
  OBVIOUS
<1> DEFINE U == {p \in 0..n : p \notin T}
<1>1. U \subseteq Nat /\ U # {}
  OBVIOUS
<1>2. PICK x \in U : \A y \in U : x <= y
  BY <1>1, Least
<1>3. x - 1 \in 0..n - 1 /\ x - 1 \notin U
  BY <1>2
<1>4. x - 1 \in T
  BY <1>3
<1>5. (x - 1) + 1 \in T
  BY <1>3, <1>4
<1> QED BY <1>2, <1>5

-----------------------------------------------------------------------------
(* Groups and the dispatches in progress                                   *)

Listener == [id : Nat, once : BOOLEAN, marked : BOOLEAN]

Group == [event : Events, active : BOOLEAN, listeners : Seq(Listener)]

DistinctIds(ls) == \A k, l \in 1..Len(ls) : ls[k].id = ls[l].id => k = l

GroupOK(g, n) ==
  /\ g \in Group /\ DistinctIds(g.listeners)
  /\ \A k \in 1..Len(g.listeners) : g.listeners[k].id < n

(* No event has two active groups. *)
GroupsOK ==
  /\ nextId \in Nat /\ groups \in Seq(Group)
  /\ \A g \in DOMAIN groups : GroupOK(groups[g], nextId)
  /\ \A g, h \in DOMAIN groups :
       groups[g].active /\ groups[h].active /\ groups[g].event = groups[h].event => g = h

Frame == [group : Nat, at : Nat, end : Nat, running : BOOLEAN, cleanup : BOOLEAN,
          called : SUBSET Nat, torn : {"no", "cleared", "erased"}]

(* A dispatch in progress over the groups gs.  The last line says that a   *)
(* listener it passed over, or one for a single call that it called, makes *)
(* it clean up.                                                            *)
FrameOK(fr, gs) ==
  /\ fr.group \in DOMAIN gs /\ gs[fr.group].active
  /\ 1 <= fr.at /\ fr.at <= fr.end + 1 /\ fr.end <= Len(gs[fr.group].listeners)
  /\ fr.running => fr.at <= fr.end
  /\ \A k \in 1..fr.end :
       LET l == gs[fr.group].listeners[k] IN
       /\ k < fr.at => l.id \in fr.called \/ l.marked
       /\ k > fr.at => l.id \notin fr.called
       /\ k = fr.at => (l.id \in fr.called <=> fr.running)
       /\ k < fr.at /\ ~fr.cleanup => l.id \in fr.called /\ ~l.once

(* Until dispatch_depth_ passes its last value it counts the dispatches in *)
(* progress and the exceptions that left one counted.                      *)
CountOK ==
  /\ leaked \in Nat
  /\ ~wrapped => depth = leaked + Len(frames) /\ depth < DepthWrap

FramesOK ==
  /\ frames \in Seq(Frame)
  /\ \A f \in DOMAIN frames : /\ frames[f].torn = "no" => FrameOK(frames[f], groups)
                              /\ frames[f].torn = "erased" => wrapped

DispatchInv == GroupsOK /\ CountOK /\ FramesOK

(* While the depth is counted groups only grow and listeners are only      *)
(* marked.                                                                 *)
ListGrown(ls, ms) ==
  /\ Len(ls) <= Len(ms)
  /\ \A k \in 1..Len(ls) : /\ ms[k].id = ls[k].id /\ ms[k].once = ls[k].once
                           /\ ls[k].marked => ms[k].marked

Grown(gs, hs) ==
  \A g \in DOMAIN gs :
    /\ g \in DOMAIN hs
    /\ gs[g].active => hs[g].active
    /\ ListGrown(gs[g].listeners, hs[g].listeners)

LEMMA ListenerTypes ==
  ASSUME NEW ls \in Seq(Listener)
  PROVE  /\ Len(ls) \in Nat /\ DOMAIN ls = 1..Len(ls)
         /\ \A k \in 1..Len(ls) : ls[k] \in Listener /\ ls[k].id \in Nat
<1>1. /\ Len(ls) \in Nat /\ DOMAIN ls = 1..Len(ls)
      /\ \A k \in 1..Len(ls) : ls[k] \in Listener
  OBVIOUS
<1> QED BY <1>1 DEF Listener

LEMMA SameGrown ==
  ASSUME NEW ls \in Seq(Listener)
  PROVE  ListGrown(ls, ls)
BY ListenerTypes DEF ListGrown

LEMMA GrownFrame ==
  ASSUME NEW gs \in Seq(Group), NEW hs \in Seq(Group), Grown(gs, hs),
         NEW fr \in Frame, FrameOK(fr, gs)
  PROVE  FrameOK(fr, hs)
<1>1. PICK g : g = fr.group
  OBVIOUS
<1>2. /\ g \in DOMAIN gs /\ g \in DOMAIN hs /\ hs[g].active
      /\ Len(gs[g].listeners) <= Len(hs[g].listeners)
  BY <1>1 DEF Grown, ListGrown, FrameOK
<1>3. Len(gs[g].listeners) \in Nat /\ Len(hs[g].listeners) \in Nat /\ fr.end \in Nat /\ fr.at \in Nat
  BY <1>2 DEF Group, Frame
<1>4. fr.end <= Len(gs[g].listeners)
  BY <1>1 DEF FrameOK
<1>5. \A k \in 1..fr.end :
        /\ hs[g].listeners[k].id = gs[g].listeners[k].id
        /\ hs[g].listeners[k].once = gs[g].listeners[k].once
        /\ gs[g].listeners[k].marked => hs[g].listeners[k].marked
  BY <1>2, <1>3, <1>4 DEF Grown, ListGrown
<1>6. ASSUME NEW k \in 1..fr.end
      PROVE  LET l == hs[g].listeners[k] IN
             /\ k < fr.at => l.id \in fr.called \/ l.marked
             /\ k > fr.at => l.id \notin fr.called
             /\ k = fr.at => (l.id \in fr.called <=> fr.running)
             /\ k < fr.at /\ ~fr.cleanup => l.id \in fr.called /\ ~l.once
  BY <1>1, <1>5 DEF FrameOK
<1>7. 1 <= fr.at /\ fr.at <= fr.end + 1 /\ (fr.running => fr.at <= fr.end)
  BY DEF FrameOK
<1>8. fr.end <= Len(hs[g].listeners)
  BY <1>2, <1>3, <1>4
<1> QED BY <1>1, <1>2, <1>6, <1>7, <1>8 DEF FrameOK

(* findGroup() finds the one active group. *)
LEMMA Found ==
  ASSUME GroupsOK, NEW e \in Events
  PROVE  /\ FindGroup(e) # 0 => /\ FindGroup(e) \in DOMAIN groups
                                /\ groups[FindGroup(e)].active /\ groups[FindGroup(e)].event = e
         /\ FindGroup(e) = 0 => \A g \in DOMAIN groups : ~(groups[g].active /\ groups[g].event = e)
<1>1. CASE Active(e) = {}
  BY <1>1 DEF FindGroup, Active
<1>2. CASE Active(e) # {}
  <2>1. PICK g \in Active(e) : TRUE
    BY <1>2
  <2>2. \A h \in Active(e) : g = h
    BY <2>1 DEF Active, GroupsOK
  <2>3. g \in Nat
    BY <2>1 DEF Active, GroupsOK
  <2>4. \E x \in Active(e) : \A h \in Active(e) : x <= h
    BY <2>2, <2>3
  <2>5. FindGroup(e) \in Active(e)
    BY <1>2, <2>4 DEF FindGroup
  <2>6. 0 \notin Active(e)
    BY DEF Active, GroupsOK
  <2> QED BY <2>5, <2>6 DEF Active
<1> QED BY <1>1, <1>2

-----------------------------------------------------------------------------
(* Steps of the groups                                                     *)

LEMMA LaterIds ==
  ASSUME NEW g, NEW n \in Nat, NEW m \in Nat, n <= m, GroupOK(g, n)
  PROVE  GroupOK(g, m)
<1>1. g.listeners \in Seq(Listener)
  BY DEF GroupOK, Group
<1> QED BY <1>1, ListenerTypes DEF GroupOK

(* A group is replaced by one of the same event, active only if it was. *)
LEMMA Replaced ==
  ASSUME GroupsOK, NEW g \in DOMAIN groups, NEW x, nextId' \in Nat, nextId <= nextId',
         GroupOK(x, nextId'), x.event = groups[g].event, x.active => groups[g].active,
         groups' = [groups EXCEPT ![g] = x]
  PROVE  /\ GroupsOK'
         /\ (groups[g].active => x.active) /\ ListGrown(groups[g].listeners, x.listeners)
            => Grown(groups, groups')
<1>1. groups' \in Seq(Group) /\ DOMAIN groups' = DOMAIN groups
  BY DEF GroupsOK, GroupOK
<1>2. \A h \in DOMAIN groups : groups'[h] = IF h = g THEN x ELSE groups[h]
  BY DEF GroupsOK
<1>3. \A h \in DOMAIN groups' : GroupOK(groups'[h], nextId')
  BY <1>1, <1>2, LaterIds DEF GroupsOK
<1>4. \A h \in DOMAIN groups :
        groups'[h].event = groups[h].event /\ (groups'[h].active => groups[h].active)
  BY <1>2
<1>5. GroupsOK'
  BY <1>1, <1>3, <1>4 DEF GroupsOK
<1>6. \A h \in DOMAIN groups : groups[h].listeners \in Seq(Listener)
  BY DEF GroupsOK, GroupOK, Group
<1> QED BY <1>1, <1>2, <1>5, <1>6, SameGrown DEF Grown

(* A group is added for an event that has none. *)
LEMMA Added ==
  ASSUME GroupsOK, NEW x, GroupOK(x, nextId'), nextId' \in Nat, nextId <= nextId',
         groups' = Append(groups, x),
         \A g \in DOMAIN groups : ~(groups[g].active /\ groups[g].event = x.event)
  PROVE  GroupsOK' /\ Grown(groups, groups')
<1>1. /\ groups' \in Seq(Group) /\ DOMAIN groups = 1..Len(groups) /\ DOMAIN groups' = 1..Len(groups) + 1
      /\ Len(groups) \in Nat
  BY DEF GroupsOK, GroupOK
<1>2. \A h \in 1..Len(groups) + 1 : groups'[h] = IF h = Len(groups) + 1 THEN x ELSE groups[h]
  BY DEF GroupsOK
<1>3. \A h \in DOMAIN groups : GroupOK(groups[h], nextId')
  BY LaterIds DEF GroupsOK
<1>4. \A h \in DOMAIN groups' : GroupOK(groups'[h], nextId')
  BY <1>1, <1>2, <1>3
<1>5. \A h \in DOMAIN groups : h \in DOMAIN groups' /\ groups'[h] = groups[h]
  BY <1>1, <1>2
<1>6. \A h \in DOMAIN groups : groups[h].listeners \in Seq(Listener)
  BY DEF GroupsOK, GroupOK, Group
<1>7. ASSUME NEW g \in DOMAIN groups', NEW h \in DOMAIN groups',
             groups'[g].active, groups'[h].active, groups'[g].event = groups'[h].event
      PROVE  g = h
  BY <1>1, <1>2, <1>7 DEF GroupsOK
<1>8. GroupsOK'
  BY <1>1, <1>4, <1>7 DEF GroupsOK
<1> QED BY <1>5, <1>6, <1>8, SameGrown DEF Grown

-----------------------------------------------------------------------------
(* Lists of listeners                                                      *)

(* addListener() *)
LEMMA Appended ==
  ASSUME NEW g, NEW n \in Nat, GroupOK(g, n), NEW once \in BOOLEAN,
         NEW x \in Group, x.listeners = Append(g.listeners, Entry(n, once))
  PROVE  GroupOK(x, n + 1) /\ ListGrown(g.listeners, x.listeners)
<1>1. PICK ls, l : ls = g.listeners /\ l = Entry(n, once)
  OBVIOUS
<1>2. ls \in Seq(Listener) /\ DistinctIds(ls)
  BY <1>1 DEF GroupOK, Group
<1>3. l \in Listener /\ l.id = n
  BY <1>1 DEF Entry, Listener
<1>4. PICK m \in Nat : m = Len(ls)
  BY <1>2
<1>5. PICK ms : ms = x.listeners /\ ms = Append(ls, l)
  BY <1>1
<1>6. /\ ms \in Seq(Listener) /\ Len(ms) = m + 1 /\ ms[m + 1] = l
      /\ \A k \in 1..m : ms[k] = ls[k]
  BY <1>2, <1>3, <1>4, <1>5
<1>7. \A k \in 1..m : ls[k].id \in Nat /\ ls[k].id < n
  BY <1>1, <1>2, <1>4, ListenerTypes DEF GroupOK
<1>8. \A k \in 1..m + 1 : k \in 1..m \/ k = m + 1
  BY <1>4
<1>9. ListGrown(ls, ms)
  BY <1>4, <1>6 DEF ListGrown
<1>10. \A k \in 1..m : ms[k].id \in Nat /\ ms[k].id < n
  BY <1>6, <1>7
<1>11. \A k \in 1..m + 1 : ms[k].id < n + 1
  BY <1>3, <1>6, <1>8, <1>10
<1>12. DistinctIds(ms)
  <2> SUFFICES ASSUME NEW k \in 1..m + 1, NEW j \in 1..m + 1, ms[k].id = ms[j].id
               PROVE  k = j
    BY <1>6 DEF DistinctIds
  <2>1. \A h \in 1..m : ms[h].id # ms[m + 1].id
    BY <1>3, <1>6, <1>10
  <2>2. CASE k \in 1..m /\ j \in 1..m
    BY <1>2, <1>4, <1>6, <2>2 DEF DistinctIds
  <2>3. CASE ~(k \in 1..m /\ j \in 1..m)
    BY <1>8, <2>1, <2>3
  <2> QED BY <2>2, <2>3
<1> QED BY <1>1, <1>5, <1>6, <1>9, <1>11, <1>12 DEF GroupOK

(* Lists that differ in marks only. *)
Remark(ls, ms) ==
  /\ ms \in Seq(Listener) /\ Len(ms) = Len(ls)
  /\ \A k \in 1..Len(ms) : /\ ms[k].id = ls[k].id /\ ms[k].once = ls[k].once
                           /\ ls[k].marked => ms[k].marked

LEMMA Remarked ==
  ASSUME NEW g, NEW n \in Nat, GroupOK(g, n), NEW x \in Group, Remark(g.listeners, x.listeners)
  PROVE  GroupOK(x, n) /\ ListGrown(g.listeners, x.listeners)
<1>1. PICK ls, ms : ls = g.listeners /\ ms = x.listeners
  OBVIOUS
<1>2. ls \in Seq(Listener) /\ Len(ls) \in Nat /\ Remark(ls, ms)
  BY <1>1 DEF GroupOK, Group
<1>3. DistinctIds(ls) /\ \A k \in 1..Len(ls) : ls[k].id < n
  BY <1>1 DEF GroupOK
<1>4. DistinctIds(ms) /\ \A k \in 1..Len(ms) : ms[k].id < n
  BY <1>2, <1>3 DEF DistinctIds, Remark
<1>5. ListGrown(ls, ms)
  BY <1>2 DEF ListGrown, Remark
<1> QED BY <1>1, <1>4, <1>5 DEF GroupOK

(* Lists whose entries come from the old one, none twice. *)
Drawn(ms, ls) ==
  /\ ms \in Seq(Listener) /\ DistinctIds(ms)
  /\ \A k \in 1..Len(ms) : \E l \in 1..Len(ls) : ms[k] = ls[l]

LEMMA DrawnGroup ==
  ASSUME NEW g, NEW n \in Nat, GroupOK(g, n), NEW x \in Group, Drawn(x.listeners, g.listeners)
  PROVE  GroupOK(x, n)
BY DEF GroupOK, Drawn

LEMMA RemoveAtDrawn ==
  ASSUME NEW ls \in Seq(Listener), DistinctIds(ls), NEW k \in 1..Len(ls)
  PROVE  Drawn(RemoveAt(ls, k), ls)
<1>1. PICK n \in Nat : n = Len(ls) /\ k \in 1..n
  OBVIOUS
<1>2. PICK u, v : u = SubSeq(ls, 1, k - 1) /\ v = SubSeq(ls, k + 1, n)
  OBVIOUS
<1>3. PICK a \in Nat : a = k - 1
  BY <1>1
<1>4. u \in Seq(Listener) /\ Len(u) = a /\ \A j \in 1..a : u[j] = ls[j]
  BY <1>1, <1>2, <1>3
<1>5. v \in Seq(Listener) /\ Len(v) = n - k /\ \A j \in 1..n - k : v[j] = ls[k + j]
  BY <1>1, <1>2
<1>6. PICK ms : ms = RemoveAt(ls, k) /\ ms = u \o v
  BY <1>1, <1>2 DEF RemoveAt
<1>7. ms \in Seq(Listener) /\ Len(ms) = n - 1
  BY <1>1, <1>3, <1>4, <1>5, <1>6
<1>8. \A j \in 1..n - 1 : ms[j] = IF j <= a THEN u[j] ELSE v[j - a]
  BY <1>1, <1>3, <1>4, <1>5, <1>6, ConcatProperties
<1>9. \A j \in 1..n - 1 : \E p \in 1..n : ms[j] = ls[p] /\ p = IF j <= a THEN j ELSE j + 1
  <2> TAKE j \in 1..n - 1
  <2>1. CASE j <= a
    BY <1>1, <1>3, <1>4, <1>8, <2>1
  <2>2. CASE j > a
    <3>1. j - a \in 1..n - k /\ k + (j - a) = j + 1 /\ j + 1 \in 1..n
      BY <1>1, <1>3, <2>2
    <3> QED BY <1>3, <1>5, <1>8, <2>2, <3>1
  <2> QED BY <1>3, <2>1, <2>2
<1>10. DistinctIds(ms)
  <2> SUFFICES ASSUME NEW p \in 1..n - 1, NEW j \in 1..n - 1, ms[p].id = ms[j].id
               PROVE  p = j
    BY <1>7 DEF DistinctIds
  <2>1. PICK x \in 1..n : ms[p] = ls[x] /\ x = IF p <= a THEN p ELSE p + 1
    BY <1>9
  <2>2. PICK y \in 1..n : ms[j] = ls[y] /\ y = IF j <= a THEN j ELSE j + 1
    BY <1>9
  <2>3. x = y
    BY <1>1, <2>1, <2>2 DEF DistinctIds
  <2> QED BY <1>3, <2>1, <2>2, <2>3
<1> QED BY <1>1, <1>6, <1>7, <1>9, <1>10 DEF Drawn

(* cleanupMarkedListeners(): what the first n turns of its loop keep. *)
Turn(ls, f, p) ==
  IF p = 0 THEN <<>> ELSE IF ls[p].marked THEN f[p - 1] ELSE Append(f[p - 1], ls[p])

LEMMA KeptExists ==
  ASSUME NEW ls \in Seq(Listener)
  PROVE  \E f : f = [p \in 0..Len(ls) |-> Turn(ls, f, p)]
<1> DEFINE T == {n \in Nat : \E f : f = [p \in 0..n |-> Turn(ls, f, p)]}
<1>1. 0 \in T
  <2>1. PICK f : f = [p \in 0..0 |-> <<>>]
    OBVIOUS
  <2>2. f = [p \in 0..0 |-> Turn(ls, f, p)]
    BY <2>1 DEF Turn
  <2> QED BY <2>2
<1>2. ASSUME NEW n \in Nat, n \in T
      PROVE  n + 1 \in T
  <2>1. PICK f : f = [p \in 0..n |-> Turn(ls, f, p)]
    BY <1>2
  <2>2. PICK g : g = [p \in 0..n + 1 |-> IF p <= n THEN f[p] ELSE Turn(ls, f, p)]
    OBVIOUS
  <2>3. \A p \in 0..n : g[p] = f[p] /\ f[p] = Turn(ls, f, p)
    <3>1. \A p \in 0..n : f[p] = Turn(ls, f, p)
      BY <2>1, Zenon
    <3>2. \A p \in 0..n : g[p] = f[p]
      BY <2>2
    <3> QED BY <3>1, <3>2
  <2>4. \A p \in 0..n + 1 : Turn(ls, g, p) = Turn(ls, f, p)
    <3> TAKE p \in 0..n + 1
    <3>1. p # 0 => g[p - 1] = f[p - 1]
      BY <2>3
    <3> QED BY <3>1 DEF Turn
  <2>5. \A p \in 0..n + 1 : g[p] = Turn(ls, g, p)
    <3> TAKE p \in 0..n + 1
    <3>1. CASE p <= n
      BY <2>3, <2>4, <3>1
    <3>2. CASE p > n
      BY <2>2, <2>4, <3>2
    <3> QED BY <3>1, <3>2
  <2>6. g = [p \in 0..n + 1 |-> Turn(ls, g, p)]
    BY <2>2, <2>5
  <2> QED BY <2>6
<1> HIDE DEF T
<1>3. \A p \in 0..Len(ls) : p \in T
  BY <1>1, <1>2, UpTo
<1>4. Len(ls) \in T
  BY <1>3
<1> QED BY <1>4 DEF T

(* q holds unmarked entries of the first i of ls, none twice. *)
Gathered(ls, q, p) ==
  /\ q \in Seq(Listener) /\ DistinctIds(q)
  /\ \A k \in 1..Len(q) : \E l \in 1..p : q[k] = ls[l] /\ ~ls[l].marked

LEMMA KeptDrawn ==
  ASSUME NEW ls \in Seq(Listener), DistinctIds(ls)
  PROVE  Drawn(Kept(ls), ls) /\ \A k \in 1..Len(Kept(ls)) : ~Kept(ls)[k].marked
<1>1. PICK n \in Nat : n = Len(ls)
  OBVIOUS
<1>2. PICK f : f = [p \in 0..n |-> Turn(ls, f, p)] /\ Kept(ls) = f[n]
  BY <1>1, KeptExists DEF Kept, Turn
<1>3. \A p \in 0..n : f[p] = Turn(ls, f, p)
  BY <1>2
<1> DEFINE T == {p \in 0..n : Gathered(ls, f[p], p)}
<1>4. 0 \in T
  <2>1. f[0] = <<>>
    BY <1>3 DEF Turn
  <2>2. Gathered(ls, <<>>, 0)
    BY DEF Gathered, DistinctIds
  <2> QED BY <2>1, <2>2
<1>5. ASSUME NEW p \in 0..n - 1, p \in T
      PROVE  p + 1 \in T
  <2>1. Gathered(ls, f[p], p) /\ p + 1 \in 0..n /\ p + 1 \in 1..n /\ ls[p + 1] \in Listener
    BY <1>1, <1>5
  <2>2. f[p + 1] = IF ls[p + 1].marked THEN f[p] ELSE Append(f[p], ls[p + 1])
    <3>1. f[p + 1] = Turn(ls, f, p + 1) /\ p + 1 # 0 /\ (p + 1) - 1 = p
      BY <1>3, <2>1
    <3> QED BY <3>1 DEF Turn
  <2>3. CASE ls[p + 1].marked
    <3>1. \A k \in 1..Len(f[p]) : \E l \in 1..p + 1 : f[p][k] = ls[l] /\ ~ls[l].marked
      BY <2>1 DEF Gathered
    <3>2. Gathered(ls, f[p + 1], p + 1)
      BY <2>1, <2>2, <2>3, <3>1 DEF Gathered
    <3> QED BY <2>1, <3>2
  <2>4. CASE ~ls[p + 1].marked
    <3>0. PICK q : q = f[p] /\ Gathered(ls, q, p)
      BY <2>1
    <3>1. PICK m \in Nat : m = Len(q) /\ q = f[p] /\ Gathered(ls, q, p)
      BY <3>0 DEF Gathered
    <3>2. PICK r : r = f[p + 1] /\ r = Append(q, ls[p + 1])
      BY <2>2, <2>4, <3>1
    <3>3. /\ r \in Seq(Listener) /\ Len(r) = m + 1 /\ r[m + 1] = ls[p + 1]
          /\ \A k \in 1..m : r[k] = q[k]
      BY <2>1, <3>1, <3>2 DEF Gathered
    <3>4. \A k \in 1..m + 1 : k \in 1..m \/ k = m + 1
      BY <3>1
    <3>5. \A k \in 1..m : q[k].id # ls[p + 1].id
      <4> TAKE k \in 1..m
      <4>1. PICK l \in 1..p : q[k] = ls[l]
        BY <3>1 DEF Gathered
      <4>2. l \in 1..n /\ l # p + 1
        BY <4>1
      <4> QED BY <1>1, <2>1, <4>1, <4>2 DEF DistinctIds
    <3>6. DistinctIds(r)
      <4> SUFFICES ASSUME NEW k \in 1..m + 1, NEW l \in 1..m + 1, r[k].id = r[l].id
                   PROVE  k = l
        BY <3>3 DEF DistinctIds
      <4>1. \A a, b \in 1..m : q[a].id = q[b].id => a = b
        BY <3>1 DEF DistinctIds, Gathered
      <4> QED BY <3>3, <3>4, <3>5, <4>1
    <3>7. \A k \in 1..m + 1 : \E l \in 1..p + 1 : r[k] = ls[l] /\ ~ls[l].marked
      <4>1. \A k \in 1..m : \E l \in 1..p + 1 : q[k] = ls[l] /\ ~ls[l].marked
        <5>1. \A k \in 1..m : \E l \in 1..p : q[k] = ls[l] /\ ~ls[l].marked
          BY <3>1 DEF Gathered
        <5>2. \A l \in 1..p : l \in 1..p + 1
          BY <2>1
        <5> QED BY <5>1, <5>2
      <4>2. p + 1 \in 1..p + 1
        BY <2>1
      <4> QED BY <2>4, <3>3, <3>4, <4>1, <4>2
    <3>8. Gathered(ls, f[p + 1], p + 1)
      <4>1. Gathered(ls, r, p + 1)
        BY <3>3, <3>6, <3>7 DEF Gathered
      <4> QED BY <3>2, <4>1
    <3> QED BY <2>1, <3>8
  <2> QED BY <2>3, <2>4
<1>6. n \in T
  <2> HIDE DEF T
  <2>1. \A p \in 0..n : p \in T
    BY <1>4, <1>5, UpTo
  <2> QED BY <2>1
<1>7. Gathered(ls, f[n], n)
  BY <1>6
<1> QED BY <1>1, <1>2, <1>7 DEF Drawn, Gathered

-----------------------------------------------------------------------------
(* Steps                                                                   *)

LEMMA GrownIInv ==
  ASSUME DispatchInv, GroupsOK', Grown(groups, groups'), UNCHANGED <<depth, frames, leaked, wrapped>>
  PROVE  DispatchInv'
<1>1. groups \in Seq(Group) /\ groups' \in Seq(Group)
  BY DEF DispatchInv, GroupsOK
<1>2. ASSUME NEW f \in DOMAIN frames, frames[f].torn = "no"
      PROVE  FrameOK(frames[f], groups')
  <2>1. frames[f] \in Frame /\ FrameOK(frames[f], groups)
    BY <1>2 DEF DispatchInv, FramesOK
  <2> QED BY <1>1, <2>1, GrownFrame
<1>3. CountOK'
  BY DEF DispatchInv, CountOK
<1>4. FramesOK'
  BY <1>2 DEF DispatchInv, FramesOK
<1> QED BY <1>3, <1>4 DEF DispatchInv

(* The innermost dispatch makes a step to x. *)
LEMMA TopIInv ==
  ASSUME DispatchInv, frames # <<>>, NEW x \in Frame, x.torn = Top.torn,
         x.torn = "no" => FrameOK(x, groups'),
         GroupsOK', Grown(groups, groups'),
         frames' = [frames EXCEPT ![Len(frames)] = x], UNCHANGED <<depth, leaked, wrapped>>
  PROVE  DispatchInv'
<1>1. groups \in Seq(Group) /\ groups' \in Seq(Group)
  BY DEF DispatchInv, GroupsOK
<1>2. frames \in Seq(Frame) /\ Len(frames) \in 1..Len(frames) /\ DOMAIN frames = 1..Len(frames)
  BY DEF DispatchInv, FramesOK
<1>3. /\ frames' \in Seq(Frame) /\ Len(frames') = Len(frames) /\ DOMAIN frames' = DOMAIN frames
      /\ \A f \in DOMAIN frames : frames'[f] = IF f = Len(frames) THEN x ELSE frames[f]
  BY <1>2
<1>4. ASSUME NEW f \in DOMAIN frames, frames[f].torn = "no"
      PROVE  FrameOK(frames[f], groups')
  <2>1. frames[f] \in Frame /\ FrameOK(frames[f], groups)
    BY <1>4 DEF DispatchInv, FramesOK
  <2> QED BY <1>1, <2>1, GrownFrame
<1>5. x.torn = "erased" => wrapped
  BY <1>2 DEF Top, DispatchInv, FramesOK
<1>6. \A f \in DOMAIN frames : frames[f].torn = "erased" => wrapped
  BY DEF DispatchInv, FramesOK
<1>7. FramesOK'
  BY <1>3, <1>4, <1>5, <1>6 DEF FramesOK
<1>8. CountOK'
  BY <1>3 DEF DispatchInv, CountOK
<1> QED BY <1>7, <1>8 DEF DispatchInv

LEMMA StillGrown ==
  ASSUME DispatchInv, UNCHANGED groups, nextId' \in Nat, nextId <= nextId'
  PROVE  GroupsOK' /\ Grown(groups, groups')
<1>1. \A g \in DOMAIN groups : GroupOK(groups[g], nextId') /\ groups[g].listeners \in Seq(Listener)
  BY LaterIds DEF DispatchInv, GroupsOK, GroupOK, Group
<1> QED BY <1>1, SameGrown DEF DispatchInv, GroupsOK, Grown

LEMMA AppendedLast ==
  ASSUME NEW gs \in Seq(Group), NEW y \in Group, NEW x \in Group, NEW hs,
         hs = [Append(gs, y) EXCEPT ![Len(gs) + 1] = x]
  PROVE  hs = Append(gs, x)
<1>1. PICK n \in Nat : n = Len(gs)
  OBVIOUS
<1>2. PICK u, v : u = Append(gs, y) /\ v = Append(gs, x)
  OBVIOUS
<1>3. /\ u \in Seq(Group) /\ Len(u) = n + 1 /\ v \in Seq(Group) /\ Len(v) = n + 1
      /\ v[n + 1] = x /\ \A k \in 1..n : u[k] = gs[k] /\ v[k] = gs[k]
  BY <1>1, <1>2
<1>4. hs = [u EXCEPT ![n + 1] = x]
  BY <1>1, <1>2
<1>5. hs \in Seq(Group) /\ Len(hs) = n + 1 /\ \A k \in 1..n + 1 : hs[k] = IF k = n + 1 THEN x ELSE u[k]
  BY <1>3, <1>4
<1>6. \A k \in 1..n + 1 : hs[k] = v[k]
  BY <1>3, <1>5
<1>7. hs = v
  BY <1>3, <1>5, <1>6, SeqEqual
<1> QED BY <1>2, <1>7

LEMMA AddIInv ==
  ASSUME DispatchInv, NEW e \in Events, NEW once \in BOOLEAN, AddListener(e, once)
  PROVE  DispatchInv'
<1> DEFINE l == Entry(nextId, once)
<1>1. /\ nextId \in Nat /\ nextId' = nextId + 1 /\ UNCHANGED <<depth, frames, leaked, wrapped>>
      /\ groups \in Seq(Group)
  BY DEF AddListener, DispatchInv, GroupsOK
<1>2. ASSUME UNCHANGED groups
      PROVE  DispatchInv'
  BY <1>1, <1>2, StillGrown, GrownIInv
<1>3. CASE FindGroup(e) # 0
  <2>1. PICK g \in DOMAIN groups : g = FindGroup(e) /\ GroupOK(groups[g], nextId) /\ g # 0
    BY <1>3, Found DEF DispatchInv, GroupsOK
  <2>2. \/ UNCHANGED groups
        \/ groups' = [groups EXCEPT ![g].listeners = Append(@, l)]
    BY <1>3, <2>1 DEF AddListener, GetOrCreateGroup
  <2>3. PICK x : x = [groups[g] EXCEPT !.listeners = Append(@, l)]
    OBVIOUS
  <2>4. /\ GroupOK(x, nextId') /\ x.event = groups[g].event /\ x.active = groups[g].active
        /\ ListGrown(groups[g].listeners, x.listeners)
    <3>1. PICK ms : ms = Append(groups[g].listeners, l) /\ ms \in Seq(Listener)
      <4>1. groups[g].listeners \in Seq(Listener)
        BY <2>1 DEF GroupOK, Group
      <4>2. l \in Listener
        BY <1>1 DEF Entry, Listener
      <4>3. Append(groups[g].listeners, l) \in Seq(Listener)
        BY <4>1, <4>2, AppendProperties
      <4> HIDE DEF l
      <4> QED BY <4>3, Zenon
    <3>2. x = [groups[g] EXCEPT !.listeners = ms]
      BY <2>3, <3>1
    <3>3. /\ x \in Group /\ x.listeners = ms
          /\ x.event = groups[g].event /\ x.active = groups[g].active
      BY <2>1, <3>1, <3>2 DEF GroupOK, Group
    <3>4. x.listeners = Append(groups[g].listeners, Entry(nextId, once))
      BY <3>1, <3>3
    <3>5. GroupOK(x, nextId + 1) /\ ListGrown(groups[g].listeners, x.listeners)
      BY <1>1, <2>1, <3>3, <3>4, Appended
    <3> QED BY <1>1, <3>3, <3>5
  <2>5. UNCHANGED groups \/ groups' = [groups EXCEPT ![g] = x]
    BY <2>2, <2>3
  <2>6. ASSUME groups' = [groups EXCEPT ![g] = x]
        PROVE  GroupsOK' /\ Grown(groups, groups')
    <3>1. GroupsOK /\ nextId' \in Nat /\ nextId <= nextId'
      BY <1>1 DEF DispatchInv
    <3> QED BY <2>4, <2>6, <3>1, Replaced, Zenon
  <2> QED BY <1>1, <1>2, <2>5, <2>6, GrownIInv
<1>4. CASE FindGroup(e) = 0 /\ Len(groups) < MaxEvents
  <2>1. PICK y : y = [event |-> e, active |-> TRUE, listeners |-> <<>>]
    OBVIOUS
  <2>2. PICK n \in Nat : n = Len(groups) + 1
    BY <1>1
  <2>3. PICK gs : gs = Append(groups, y) /\ gs = GetOrCreateGroup(e)
    BY <1>4, <2>1 DEF GetOrCreateGroup
  <2>4. Len(gs) = n /\ gs # groups /\ gs[n] = y /\ n # 0
    <3>1. y \in Group
      BY <2>1 DEF Group
    <3>2. PICK m \in Nat : m = Len(groups) /\ n = m + 1
      BY <1>1, <2>2
    <3>3. Len(Append(groups, y)) = m + 1 /\ Append(groups, y)[m + 1] = y
      BY <1>1, <3>1, <3>2
    <3>4. gs = Append(groups, y)
      BY <2>3
    <3>5. Len(gs) = n /\ gs[n] = y /\ n # 0 /\ Len(gs) # Len(groups)
      BY <3>2, <3>3, <3>4
    <3> QED BY <3>5
  <2>5. PICK x : x = [y EXCEPT !.listeners = Append(@, l)]
    OBVIOUS
  <2>6. groups' = [gs EXCEPT ![n] = x]
    <3>1. Len(gs[n].listeners) < MaxListeners
      BY <2>1, <2>4, CapacityAssumption
    <3>2. groups' = [gs EXCEPT ![n].listeners = Append(@, l)]
      BY <1>4, <2>3, <2>4, <3>1 DEF AddListener
    <3> QED BY <2>4, <2>5, <3>2
  <2>7. y \in Group /\ l \in Listener /\ l.id = nextId
    BY <1>1, <2>1 DEF Group, Entry, Listener
  <2>8. GroupOK(x, nextId') /\ x.event = e /\ x \in Group
    <3>1. PICK t : t = Append(<<>>, l)
      OBVIOUS
    <3>2. t \in Seq(Listener) /\ Len(t) = 1 /\ t[1] = l
      BY <2>7, <3>1
    <3>3. x = [y EXCEPT !.listeners = t]
      <4> HIDE DEF l
      <4> QED BY <2>1, <2>5, <3>1
    <3>4. x \in Group /\ x.event = e /\ x.listeners = t
      BY <2>1, <2>7, <3>2, <3>3 DEF Group
    <3>5. DistinctIds(t) /\ \A k \in 1..Len(t) : t[k].id < nextId'
      BY <1>1, <2>7, <3>2 DEF DistinctIds
    <3> QED BY <3>4, <3>5 DEF GroupOK
  <2>9. groups' = Append(groups, x)
    BY <1>1, <2>2, <2>3, <2>6, <2>7, <2>8, AppendedLast, Zenon
  <2>10. GroupsOK' /\ Grown(groups, groups')
    <3>1. GroupsOK /\ nextId' \in Nat /\ nextId <= nextId'
      BY <1>1 DEF DispatchInv
    <3>2. \A g \in DOMAIN groups : ~(groups[g].active /\ groups[g].event = x.event)
      BY <1>4, <2>8, <3>1, Found
    <3> QED BY <2>9, <2>8, <3>1, <3>2, Added, Zenon
  <2> QED BY <1>1, <2>10, GrownIInv
<1>5. CASE FindGroup(e) = 0 /\ ~(Len(groups) < MaxEvents)
  <2>1. UNCHANGED groups
    BY <1>5 DEF AddListener, GetOrCreateGroup
  <2> QED BY <1>2, <2>1
<1> QED BY <1>3, <1>4, <1>5

(* Marking entries of a group. *)
LEMMA MarkedGroups ==
  ASSUME DispatchInv, NEW g \in DOMAIN groups, NEW ms, Remark(groups[g].listeners, ms),
         groups' = [groups EXCEPT ![g].listeners = ms], UNCHANGED nextId
  PROVE  GroupsOK' /\ Grown(groups, groups')
<1>1. GroupsOK /\ nextId \in Nat /\ nextId' \in Nat /\ nextId <= nextId' /\ GroupOK(groups[g], nextId)
  BY DEF DispatchInv, GroupsOK
<1>2. PICK x : x = [groups[g] EXCEPT !.listeners = ms] /\ groups' = [groups EXCEPT ![g] = x]
  OBVIOUS
<1>3. /\ x \in Group /\ x.event = groups[g].event /\ x.active = groups[g].active /\ x.listeners = ms
  BY <1>1, <1>2 DEF Group, GroupOK, Remark
<1>4. GroupOK(x, nextId) /\ ListGrown(groups[g].listeners, x.listeners)
  BY <1>1, <1>3, Remarked
<1>5. GroupOK(x, nextId')
  BY <1>4
<1> QED BY <1>1, <1>2, <1>3, <1>4, <1>5, Replaced, Zenon

LEMMA MarkedOne ==
  ASSUME DispatchInv, NEW g \in DOMAIN groups, NEW k \in DOMAIN groups[g].listeners,
         groups' = [groups EXCEPT ![g].listeners[k].marked = TRUE], UNCHANGED nextId
  PROVE  GroupsOK' /\ Grown(groups, groups')
<1>1. PICK ls : ls = groups[g].listeners /\ ls \in Seq(Listener)
  BY DEF DispatchInv, GroupsOK, GroupOK, Group
<1>2. PICK m : m = [ls[k] EXCEPT !.marked = TRUE]
  OBVIOUS
<1>3. k \in 1..Len(ls) /\ ls[k] \in Listener
  BY <1>1
<1>4. m \in Listener /\ m.id = ls[k].id /\ m.once = ls[k].once /\ m.marked
  BY <1>2, <1>3 DEF Listener
<1>5. PICK ms : ms = [ls EXCEPT ![k] = m]
  OBVIOUS
<1>6. /\ ms \in Seq(Listener) /\ Len(ms) = Len(ls)
      /\ \A j \in 1..Len(ls) : ms[j] = IF j = k THEN m ELSE ls[j]
  BY <1>1, <1>3, <1>4, <1>5
<1>7. groups' = [groups EXCEPT ![g].listeners = ms]
  BY <1>1, <1>2, <1>5
<1>8. Remark(groups[g].listeners, ms)
  BY <1>1, <1>4, <1>6 DEF Remark
<1> QED BY <1>7, <1>8, MarkedGroups, Zenon

(* The array of group g, and no other, may have changed under frame f. *)
LEMMA TornFrame ==
  ASSUME DispatchInv, GroupsOK', NEW g, NEW f \in DOMAIN frames, wrapped,
         \A h \in DOMAIN groups : h # g => h \in DOMAIN groups' /\ groups'[h] = groups[h]
  PROVE  /\ TornWalks(g)[f] \in Frame
         /\ TornWalks(g)[f].torn = "no" => FrameOK(TornWalks(g)[f], groups')
<1>1. PICK t : t = frames[f] /\ t \in Frame
  BY DEF DispatchInv, FramesOK
<1>2. PICK x : x = TornWalks(g)[f] /\ x = IF t.group = g THEN [t EXCEPT !.torn = "erased"] ELSE t
  BY <1>1 DEF TornWalks
<1>3. CASE t.group = g
  <2>1. x = [t EXCEPT !.torn = "erased"]
    BY <1>2, <1>3
  <2>2. x \in Frame /\ x.torn = "erased"
    BY <1>1, <2>1 DEF Frame
  <2> QED BY <1>2, <2>2
<1>4. CASE t.group # g
  <2>1. t.torn = "no" => FrameOK(t, groups)
    BY <1>1 DEF DispatchInv, FramesOK
  <2>2. x = t
    BY <1>2, <1>4
  <2>3. ASSUME t.torn = "no"
        PROVE  FrameOK(t, groups')
    <3>1. FrameOK(t, groups) /\ t.group \in DOMAIN groups
      BY <2>1, <2>3 DEF FrameOK
    <3>2. t.group \in DOMAIN groups' /\ groups'[t.group] = groups[t.group]
      BY <1>4, <3>1
    <3> QED BY <3>1, <3>2 DEF FrameOK
  <2> QED BY <1>1, <1>2, <2>2, <2>3
<1> QED BY <1>3, <1>4

LEMMA TornTypes ==
  ASSUME frames \in Seq(Frame), NEW g
  PROVE  TornWalks(g) \in Seq(Frame) /\ Len(TornWalks(g)) = Len(frames) /\ DOMAIN TornWalks(g) = DOMAIN frames
<1>1. \A t \in Frame : [t EXCEPT !.torn = "erased"] \in Frame
  BY DEF Frame
<1>2. DOMAIN frames = 1..Len(frames) /\ Len(frames) \in Nat /\ \A f \in 1..Len(frames) : frames[f] \in Frame
  OBVIOUS
<1> QED BY <1>1, <1>2 DEF TornWalks

(* An array is changed while dispatch_depth_ is 0. *)
LEMMA TornIInv ==
  ASSUME DispatchInv, GroupsOK', NEW g, ~(depth > 0),
         \A h \in DOMAIN groups : h # g => h \in DOMAIN groups' /\ groups'[h] = groups[h],
         frames' = TornWalks(g), UNCHANGED <<depth, leaked, wrapped>>
  PROVE  DispatchInv'
<1>1. frames \in Seq(Frame) /\ Len(frames) \in Nat /\ DOMAIN frames = 1..Len(frames)
  BY DEF DispatchInv, FramesOK
<1>2. frames' \in Seq(Frame) /\ Len(frames') = Len(frames) /\ DOMAIN frames' = DOMAIN frames
  BY <1>1, TornTypes
<1>3. CountOK'
  BY <1>2 DEF DispatchInv, CountOK
<1>4. ASSUME NEW f \in DOMAIN frames
      PROVE  wrapped
  BY <1>1 DEF DispatchInv, CountOK
<1>5. \A f \in DOMAIN frames' : /\ frames'[f].torn = "no" => FrameOK(frames'[f], groups')
                                /\ frames'[f].torn = "erased" => wrapped'
  BY <1>2, <1>4, TornFrame
<1>6. FramesOK'
  BY <1>2, <1>5 DEF FramesOK
<1> QED BY <1>3, <1>6 DEF DispatchInv

LEMMA RemoveByIdIInv ==
  ASSUME DispatchInv, NEW e \in Events, NEW id, RemoveListenerById(e, id)
  PROVE  DispatchInv'
<1>1. PICK g \in DOMAIN groups : g = FindGroup(e) /\ GroupOK(groups[g], nextId) /\ g # 0
  BY Found DEF RemoveListenerById, DispatchInv, GroupsOK
<1>2. PICK k \in DOMAIN groups[g].listeners :
        groups' = IF depth > 0 THEN [groups EXCEPT ![g].listeners[k].marked = TRUE]
                  ELSE [groups EXCEPT ![g].listeners = RemoveAt(@, k)]
  BY <1>1 DEF RemoveListenerById
<1>3. /\ frames' = (IF depth > 0 THEN frames ELSE TornWalks(g))
      /\ UNCHANGED <<depth, nextId, leaked, wrapped>>
  BY <1>1 DEF RemoveListenerById
<1>4. CASE depth > 0
  BY <1>2, <1>3, <1>4, MarkedOne, GrownIInv
<1>5. CASE ~(depth > 0)
  <2>1. PICK ls : ls = groups[g].listeners /\ ls \in Seq(Listener) /\ DistinctIds(ls) /\ k \in 1..Len(ls)
    BY <1>1 DEF GroupOK, Group
  <2>2. PICK ms : ms = RemoveAt(ls, k) /\ Drawn(ms, ls)
    BY <2>1, RemoveAtDrawn
  <2>3. PICK x : x = [groups[g] EXCEPT !.listeners = ms]
    OBVIOUS
  <2>4. groups' = [groups EXCEPT ![g] = x]
    BY <1>2, <1>5, <2>1, <2>2, <2>3
  <2>5. nextId \in Nat
    BY DEF DispatchInv, GroupsOK
  <2>6. GroupOK(x, nextId) /\ x.event = groups[g].event /\ x.active = groups[g].active
    <3>1. /\ x \in Group /\ x.event = groups[g].event /\ x.active = groups[g].active
          /\ x.listeners = ms
      BY <1>1, <2>2, <2>3 DEF Group, GroupOK, Drawn
    <3>2. Drawn(x.listeners, groups[g].listeners)
      BY <2>1, <2>2, <3>1
    <3> QED BY <1>1, <2>5, <3>1, <3>2, DrawnGroup
  <2>7. GroupsOK'
    <3>1. GroupsOK /\ nextId' \in Nat /\ nextId <= nextId' /\ GroupOK(x, nextId')
      BY <1>3, <2>5, <2>6 DEF DispatchInv
    <3> QED BY <2>4, <2>6, <3>1, Replaced, Zenon
  <2>8. \A h \in DOMAIN groups : h # g => h \in DOMAIN groups' /\ groups'[h] = groups[h]
    BY <2>4 DEF DispatchInv, GroupsOK
  <2> QED BY <1>3, <1>5, <2>7, <2>8, TornIInv
<1> QED BY <1>4, <1>5

LEMMA RemoveAllIInv ==
  ASSUME DispatchInv, NEW e \in Events, RemoveListener(e)
  PROVE  DispatchInv'
<1>1. PICK g \in DOMAIN groups : g = FindGroup(e) /\ GroupOK(groups[g], nextId) /\ g # 0
  BY Found DEF RemoveListener, DispatchInv, GroupsOK
<1>2. groups' = IF depth > 0 THEN [groups EXCEPT ![g].listeners = Marked(@)]
                ELSE [groups EXCEPT ![g].listeners = <<>>, ![g].active = FALSE]
  BY <1>1 DEF RemoveListener
<1>3. /\ frames' = (IF depth > 0 THEN frames ELSE TornWalks(g))
      /\ UNCHANGED <<depth, nextId, leaked, wrapped>> /\ nextId \in Nat
  BY <1>1 DEF RemoveListener, DispatchInv, GroupsOK
<1>4. CASE depth > 0
  <2>1. PICK ls : ls = groups[g].listeners /\ ls \in Seq(Listener)
    BY <1>1 DEF GroupOK, Group
  <2>2. PICK ms : ms = Marked(ls)
    OBVIOUS
  <2>3. \A l \in Listener : /\ [l EXCEPT !.marked = TRUE] \in Listener
                            /\ [l EXCEPT !.marked = TRUE].id = l.id
                            /\ [l EXCEPT !.marked = TRUE].once = l.once
                            /\ [l EXCEPT !.marked = TRUE].marked
    BY DEF Listener
  <2>4. /\ Len(ls) \in Nat /\ DOMAIN ls = 1..Len(ls) /\ \A k \in 1..Len(ls) : ls[k] \in Listener
    BY <2>1
  <2>5. ms = [k \in 1..Len(ls) |-> [ls[k] EXCEPT !.marked = TRUE]]
    BY <2>2, <2>4 DEF Marked
  <2>6. /\ ms \in Seq(Listener) /\ Len(ms) = Len(ls)
    BY <2>3, <2>4, <2>5
  <2>7. \A k \in 1..Len(ls) : ms[k].id = ls[k].id /\ ms[k].once = ls[k].once /\ ms[k].marked
    BY <2>3, <2>4, <2>5
  <2>8. groups' = [groups EXCEPT ![g].listeners = ms]
    BY <1>2, <1>4, <2>1, <2>2
  <2>9. Remark(groups[g].listeners, ms) /\ UNCHANGED nextId
    BY <1>3, <2>1, <2>6, <2>7 DEF Remark
  <2>10. GroupsOK' /\ Grown(groups, groups')
    BY <2>8, <2>9, MarkedGroups, Zenon
  <2> QED BY <1>3, <1>4, <2>10, GrownIInv
<1>5. CASE ~(depth > 0)
  <2>1. PICK x : x = [groups[g] EXCEPT !.listeners = <<>>, !.active = FALSE]
    OBVIOUS
  <2>2. groups' = [groups EXCEPT ![g] = x]
    BY <1>2, <1>5, <2>1
  <2>3. /\ x \in Group /\ x.event = groups[g].event /\ x.active = FALSE
        /\ Drawn(x.listeners, groups[g].listeners)
    <3>1. /\ x \in Group /\ x.event = groups[g].event /\ x.active = FALSE /\ x.listeners = <<>>
      <4>1. PICK t : t \in Seq(Listener) /\ t = <<>>
        BY EmptySeq
      <4>2. PICK y \in Group : y = groups[g]
        BY <1>1 DEF GroupOK
      <4>3. x = [y EXCEPT !.listeners = t, !.active = FALSE]
        BY <2>1, <4>1, <4>2
      <4>4. x \in Group /\ x.event = y.event /\ x.active = FALSE /\ x.listeners = t
        BY <4>1, <4>3 DEF Group
      <4> QED BY <4>1, <4>2, <4>4
    <3>2. Drawn(<<>>, groups[g].listeners)
      BY DEF Drawn, DistinctIds
    <3> QED BY <3>1, <3>2
  <2>4. GroupOK(x, nextId) /\ x.event = groups[g].event /\ x.active = FALSE
    BY <1>1, <1>3, <2>3, DrawnGroup
  <2>5. GroupsOK'
    <3>1. GroupsOK /\ nextId' \in Nat /\ nextId <= nextId' /\ GroupOK(x, nextId')
      BY <1>3, <2>4 DEF DispatchInv
    <3> QED BY <2>2, <2>4, <3>1, Replaced, Zenon
  <2>6. \A h \in DOMAIN groups : h # g => h \in DOMAIN groups' /\ groups'[h] = groups[h]
    BY <2>2 DEF DispatchInv, GroupsOK
  <2> QED BY <1>3, <1>5, <2>5, <2>6, TornIInv
<1> QED BY <1>4, <1>5

(* What dispatch_depth_ counts does not wrap before its last value. *)
LEMMA NoWrap ==
  ASSUME NEW a \in Nat, a < DepthWrap
  PROVE  a % DepthWrap = a
BY CapacityAssumption

(* dispatchEvent() is entered *)
LEMMA DispatchIInv ==
  ASSUME DispatchInv, NEW e \in Events, Dispatch(e)
  PROVE  DispatchInv'
<1>1. PICK g \in DOMAIN groups : g = FindGroup(e) /\ groups[g].active
  BY Found DEF Dispatch, DispatchInv
<1>2. PICK n \in Nat : n = Len(groups[g].listeners)
  BY <1>1 DEF DispatchInv, GroupsOK, GroupOK, Group
<1>3. PICK x : x = [group |-> g, at |-> 1, end |-> n, running |-> FALSE, cleanup |-> FALSE, called |-> {},
                    torn |-> "no"]
  OBVIOUS
<1>4. /\ frames' = Append(frames, x) /\ depth' = (depth + 1) % DepthWrap
      /\ UNCHANGED <<groups, nextId, leaked>>
  BY <1>1, <1>2, <1>3 DEF Dispatch
<1>5. /\ x.group = g /\ x.at = 1 /\ x.end = n /\ ~x.running /\ ~x.cleanup /\ x.called = {}
      /\ x \in Frame /\ x.torn = "no"
  <2>1. g \in Nat
    BY <1>1 DEF DispatchInv, GroupsOK
  <2> QED BY <1>3, <2>1 DEF Frame
<1>6. FrameOK(x, groups)
  BY <1>1, <1>2, <1>5 DEF FrameOK
<1>7. /\ frames \in Seq(Frame) /\ Len(frames) \in Nat
      /\ \A f \in 1..Len(frames) : /\ frames[f].torn = "no" => FrameOK(frames[f], groups)
                                   /\ frames[f].torn = "erased" => wrapped
  BY DEF DispatchInv, FramesOK
<1>8. /\ frames' \in Seq(Frame) /\ Len(frames') = Len(frames) + 1 /\ DOMAIN frames' = 1..Len(frames) + 1
      /\ \A f \in 1..Len(frames) + 1 : frames'[f] = IF f = Len(frames) + 1 THEN x ELSE frames[f]
  BY <1>4, <1>5, <1>7
<1>9. ~wrapped' => ~wrapped /\ ~(leaked + Len(frames) + 1 >= DepthWrap)
  BY Zenon DEF Dispatch
<1>10. \A f \in DOMAIN frames' : /\ frames'[f].torn = "no" => FrameOK(frames'[f], groups')
                                 /\ frames'[f].torn = "erased" => wrapped'
  BY <1>4, <1>5, <1>6, <1>7, <1>8, <1>9
<1>11. FramesOK'
  BY <1>8, <1>10 DEF FramesOK
<1>12. GroupsOK'
  BY <1>4 DEF DispatchInv, GroupsOK
<1>13. CountOK'
  <2>1. leaked \in Nat
    BY DEF DispatchInv, CountOK
  <2>2. ASSUME ~wrapped'
        PROVE  depth + 1 = leaked + Len(frames) + 1 /\ depth + 1 < DepthWrap
    BY <1>7, <1>9, <2>1, <2>2, CapacityAssumption DEF DispatchInv, CountOK
  <2>3. ASSUME ~wrapped'
        PROVE  depth' = leaked + Len(frames) + 1 /\ depth' < DepthWrap
    <3>1. depth + 1 \in Nat
      BY <1>7, <2>1, <2>2, <2>3
    <3> QED BY <1>4, <2>2, <2>3, <3>1, NoWrap
  <2> QED BY <1>4, <1>7, <1>8, <2>1, <2>3 DEF CountOK
<1> QED BY <1>11, <1>12, <1>13 DEF DispatchInv

(* What is known of the innermost dispatch. *)
LEMMA Innermost ==
  ASSUME DispatchInv, frames # <<>>
  PROVE  /\ Len(frames) \in Nat \ {0} /\ Len(frames) \in DOMAIN frames /\ Top \in Frame
         /\ Top = frames[Len(frames)] /\ (Top.torn = "no" => FrameOK(Top, groups))
         /\ Top.at \in Nat /\ Top.end \in Nat
<1>1. frames \in Seq(Frame) /\ Len(frames) \in Nat /\ Len(frames) # 0 /\ DOMAIN frames = 1..Len(frames)
  BY DEF DispatchInv, FramesOK
<1>2. Len(frames) \in DOMAIN frames
  BY <1>1
<1>3. Top = frames[Len(frames)] /\ Top \in Frame
  BY <1>1, <1>2 DEF Top
<1>4. Top.torn = "no" => FrameOK(Top, groups)
  BY <1>2, <1>3 DEF DispatchInv, FramesOK
<1>5. Top.at \in Nat /\ Top.end \in Nat
  BY <1>3 DEF Frame
<1> QED BY <1>1, <1>2, <1>3, <1>4, <1>5

LEMMA GroupTypes ==
  ASSUME GroupsOK, NEW g \in DOMAIN groups
  PROVE  /\ GroupOK(groups[g], nextId) /\ groups[g].listeners \in Seq(Listener)
         /\ DOMAIN groups[g].listeners = 1..Len(groups[g].listeners)
         /\ Len(groups[g].listeners) \in Nat
<1>1. GroupOK(groups[g], nextId)
  BY DEF GroupsOK
<1>2. groups[g].listeners \in Seq(Listener)
  BY <1>1 DEF GroupOK, Group
<1> QED BY <1>1, <1>2

(* What a dispatch reads is an entry; if its array is whole, its own. *)
LEMMA CurrentType ==
  ASSUME DispatchInv, frames # <<>>, NEW l \in Current
  PROVE  l \in Listener
<1>1. CASE Live
  <2>1. l = groups[Top.group].listeners[Top.at] /\ Top.group \in DOMAIN groups
        /\ Top.at \in DOMAIN groups[Top.group].listeners
    BY <1>1 DEF Current, Live
  <2>2. groups[Top.group].listeners \in Seq(Listener)
    BY <2>1, GroupTypes DEF DispatchInv
  <2> QED BY <2>1, <2>2
<1>2. CASE ~Live
  BY <1>2 DEF Current, Listener
<1> QED BY <1>1, <1>2

LEMMA CurrentOwn ==
  ASSUME DispatchInv, frames # <<>>, Top.torn = "no", Top.at <= Top.end, NEW l \in Current
  PROVE  l = groups[Top.group].listeners[Top.at]
<1>1. /\ FrameOK(Top, groups) /\ Top.at \in Nat /\ Top.end \in Nat
  BY Innermost
<1>2. Top.group \in DOMAIN groups /\ 1 <= Top.at /\ Top.end <= Len(groups[Top.group].listeners)
  BY <1>1 DEF FrameOK
<1>3. Top.at \in DOMAIN groups[Top.group].listeners
  BY <1>1, <1>2, GroupTypes DEF DispatchInv
<1> QED BY <1>2, <1>3 DEF Current, Live

LEMMA SkipIInv ==
  ASSUME DispatchInv, Skip
  PROVE  DispatchInv'
<1>1. /\ frames # <<>> /\ ~Top.running /\ Top.at <= Top.end
      /\ Top.torn = "no" => groups[Top.group].listeners[Top.at].marked
  BY CurrentOwn DEF Skip
<1>2. PICK t : /\ t = Top /\ t \in Frame /\ t.at \in Nat /\ t.end \in Nat
               /\ t.torn = "no" => FrameOK(t, groups)
  BY <1>1, Innermost
<1>3. PICK x : x = [t EXCEPT !.at = @ + 1, !.cleanup = TRUE]
  OBVIOUS
<1>4. /\ x \in Frame /\ x.group = t.group /\ x.at = t.at + 1 /\ x.end = t.end
      /\ x.running = t.running /\ x.cleanup /\ x.called = t.called /\ x.torn = t.torn
  <2>1. PICK a \in Nat : a = t.at + 1
    BY <1>2
  <2>2. x = [t EXCEPT !.at = a, !.cleanup = TRUE]
    BY <1>3, <2>1
  <2>3. /\ x \in Frame /\ x.group = t.group /\ x.at = a /\ x.end = t.end
        /\ x.running = t.running /\ x.cleanup /\ x.called = t.called /\ x.torn = t.torn
    BY <1>2, <2>2 DEF Frame
  <2> QED BY <2>1, <2>3
<1>5. frames' = [frames EXCEPT ![Len(frames)] = x]
  BY <1>1, <1>2, <1>3, Innermost DEF Skip
<1>6. UNCHANGED <<groups, depth, nextId, leaked, wrapped>>
  BY DEF Skip
<1>7. ASSUME x.torn = "no"
      PROVE  FrameOK(x, groups)
  <2>0. t.torn = "no" /\ FrameOK(t, groups)
    BY <1>2, <1>4, <1>7
  <2>1. PICK ls : ls = groups[t.group].listeners /\ ls[t.at].marked
    BY <1>1, <1>2, <2>0
  <2>2. \A k \in 1..t.end : /\ k < t.at => ls[k].id \in t.called \/ ls[k].marked
                            /\ k > t.at => ls[k].id \notin t.called
    BY <2>0, <2>1 DEF FrameOK
  <2>3. \A k \in 1..t.end : /\ k < t.at + 1 => k < t.at \/ k = t.at
                            /\ k > t.at + 1 => k > t.at
                            /\ k = t.at + 1 => k > t.at
    BY <1>2
  <2>4. \A k \in 1..x.end : /\ k < x.at => ls[k].id \in x.called \/ ls[k].marked
                            /\ k > x.at => ls[k].id \notin x.called
                            /\ k = x.at => ls[k].id \notin x.called
    BY <1>4, <2>1, <2>2, <2>3
  <2>5. /\ x.group \in DOMAIN groups /\ groups[x.group].active /\ ls = groups[x.group].listeners
        /\ 1 <= x.at /\ x.at <= x.end + 1 /\ x.end <= Len(ls)
    BY <1>1, <1>2, <1>4, <2>0, <2>1 DEF FrameOK
  <2> QED BY <1>1, <1>2, <1>4, <2>0, <2>4, <2>5 DEF FrameOK
<1>8. nextId' \in Nat /\ nextId <= nextId'
  BY <1>6 DEF DispatchInv, GroupsOK
<1>9. GroupsOK' /\ Grown(groups, groups')
  BY <1>6, <1>8, StillGrown
<1>10. (x.torn = "no" => FrameOK(x, groups')) /\ UNCHANGED <<depth, leaked, wrapped>> /\ x.torn = Top.torn
  BY <1>2, <1>4, <1>6, <1>7
<1> QED BY <1>1, <1>4, <1>5, <1>9, <1>10, TopIInv, Zenon

LEMMA CallIInv ==
  ASSUME DispatchInv, Call
  PROVE  DispatchInv'
<1>1. frames # <<>> /\ ~Top.running /\ Top.at <= Top.end
  BY DEF Call
<1>2. PICK t : /\ t = Top /\ t \in Frame /\ t.at \in Nat /\ t.end \in Nat
               /\ t.torn = "no" => FrameOK(t, groups)
  BY <1>1, Innermost
<1>3. PICK l \in Current : frames' = [frames EXCEPT ![Len(frames)].running = TRUE,
                                                    ![Len(frames)].called = @ \cup {l.id}]
  BY DEF Call
<1>4. PICK p \in Nat : p = l.id
  BY <1>1, CurrentType DEF Listener
<1>5. PICK x : x = [t EXCEPT !.running = TRUE, !.called = @ \cup {p}]
  OBVIOUS
<1>6. /\ x \in Frame /\ x.group = t.group /\ x.at = t.at /\ x.end = t.end
      /\ x.running /\ x.cleanup = t.cleanup /\ x.called = t.called \cup {p} /\ x.torn = t.torn
  BY <1>2, <1>5 DEF Frame
<1>7. frames' = [frames EXCEPT ![Len(frames)] = x]
  BY <1>1, <1>2, <1>3, <1>4, <1>5, Innermost
<1>8. UNCHANGED <<groups, depth, nextId, leaked, wrapped>>
  BY DEF Call
<1>9. ASSUME x.torn = "no"
      PROVE  FrameOK(x, groups)
  <2>1. FrameOK(t, groups) /\ t.group \in DOMAIN groups /\ t.torn = "no"
    BY <1>2, <1>6, <1>9 DEF FrameOK
  <2>2. PICK ls : /\ ls = groups[t.group].listeners /\ ls \in Seq(Listener) /\ DistinctIds(ls)
                  /\ Len(ls) \in Nat
    BY <2>1, GroupTypes DEF DispatchInv, GroupOK
  <2>3. p = ls[t.at].id
    BY <1>1, <1>2, <1>4, <2>1, <2>2, CurrentOwn
  <2>4. t.at \in 1..Len(ls) /\ t.end <= Len(ls)
    BY <1>1, <1>2, <2>1, <2>2 DEF FrameOK
  <2>5. \A k \in 1..t.end : k \in 1..Len(ls)
    BY <1>2, <2>2, <2>4
  <2>6. \A k \in 1..t.end : k # t.at => ls[k].id # p
    BY <2>2, <2>3, <2>4, <2>5 DEF DistinctIds
  <2>7. \A k \in 1..t.end : /\ k < t.at => ls[k].id \in t.called \/ ls[k].marked
                            /\ k > t.at => ls[k].id \notin t.called
                            /\ k < t.at /\ ~t.cleanup => ls[k].id \in t.called /\ ~ls[k].once
    BY <2>1, <2>2 DEF FrameOK
  <2>8. \A k \in 1..x.end : /\ k < x.at => ls[k].id \in x.called \/ ls[k].marked
                            /\ k > x.at => ls[k].id \notin x.called
                            /\ k = x.at => ls[k].id \in x.called
                            /\ k < x.at /\ ~x.cleanup => ls[k].id \in x.called /\ ~ls[k].once
    BY <1>2, <1>6, <2>3, <2>6, <2>7
  <2>9. /\ x.group \in DOMAIN groups /\ groups[x.group].active /\ ls = groups[x.group].listeners
        /\ 1 <= x.at /\ x.at <= x.end + 1 /\ x.end <= Len(ls) /\ x.at <= x.end
    BY <1>1, <1>2, <1>6, <2>1, <2>2 DEF FrameOK
  <2> QED BY <1>6, <2>8, <2>9 DEF FrameOK
<1>10. nextId' \in Nat /\ nextId <= nextId'
  BY <1>8 DEF DispatchInv, GroupsOK
<1>11. GroupsOK' /\ Grown(groups, groups')
  BY <1>8, <1>10, StillGrown
<1>12. (x.torn = "no" => FrameOK(x, groups')) /\ UNCHANGED <<depth, leaked, wrapped>> /\ x.torn = Top.torn
  BY <1>2, <1>6, <1>8, <1>9
<1> QED BY <1>1, <1>6, <1>7, <1>11, <1>12, TopIInv, Zenon

LEMMA ReturnsIInv ==
  ASSUME DispatchInv, ListenerReturns
  PROVE  DispatchInv'
<1>1. frames # <<>> /\ Top.running /\ UNCHANGED <<depth, nextId, leaked, wrapped>>
  BY DEF ListenerReturns
<1>2. PICK t : /\ t = Top /\ t \in Frame /\ t.at \in Nat /\ t.end \in Nat
               /\ t.torn = "no" => FrameOK(t, groups)
  BY <1>1, Innermost
<1>3. PICK l \in Current :
        /\ groups' = IF l.once /\ Live
                     THEN [groups EXCEPT ![Top.group].listeners[Top.at].marked = TRUE] ELSE groups
        /\ frames' = [frames EXCEPT ![Len(frames)].running = FALSE, ![Len(frames)].at = @ + 1,
                                    ![Len(frames)].cleanup = @ \/ l.once]
  BY DEF ListenerReturns
<1>4. PICK o \in BOOLEAN : o = l.once
  BY <1>1, CurrentType DEF Listener
<1>5. PICK x : x = [t EXCEPT !.running = FALSE, !.at = @ + 1, !.cleanup = @ \/ o]
  OBVIOUS
<1>6. /\ x \in Frame /\ x.group = t.group /\ x.at = t.at + 1 /\ x.end = t.end
      /\ ~x.running /\ x.called = t.called /\ x.torn = t.torn
  <2>1. PICK a \in Nat : a = t.at + 1
    BY <1>2
  <2>2. PICK c \in BOOLEAN : c = (t.cleanup \/ o)
    OBVIOUS
  <2>3. x = [t EXCEPT !.running = FALSE, !.at = a, !.cleanup = c]
    BY <1>5, <2>1, <2>2
  <2>4. /\ x \in Frame /\ x.group = t.group /\ x.at = a /\ x.end = t.end
        /\ ~x.running /\ x.called = t.called /\ x.torn = t.torn
    BY <1>2, <2>3 DEF Frame
  <2> QED BY <2>1, <2>4
<1>7. x.cleanup <=> (t.cleanup \/ o)
  BY <1>2, <1>5 DEF Frame
<1>8. frames' = [frames EXCEPT ![Len(frames)] = x]
  BY <1>1, <1>2, <1>3, <1>4, <1>5, Innermost
<1>9. ASSUME x.torn = "no"
      PROVE  FrameOK(x, groups)
  <2>1. FrameOK(t, groups) /\ t.group \in DOMAIN groups /\ t.torn = "no"
    BY <1>2, <1>6, <1>9 DEF FrameOK
  <2>2. PICK ls : ls = groups[t.group].listeners /\ ls \in Seq(Listener) /\ Len(ls) \in Nat
    BY <2>1, GroupTypes DEF DispatchInv
  <2>3. t.at \in 1..t.end /\ t.at \in 1..Len(ls) /\ Top.at <= Top.end
    BY <1>1, <1>2, <2>1, <2>2 DEF FrameOK
  <2>4. o = ls[t.at].once
    BY <1>1, <1>2, <1>4, <2>1, <2>2, <2>3, CurrentOwn
  <2> QED BY <1>1, <1>2, <1>6, <1>7, <2>1, <2>2, <2>3, <2>4 DEF FrameOK
<1>10. GroupsOK' /\ Grown(groups, groups')
  <2>1. CASE UNCHANGED groups
    <3>1. nextId' \in Nat /\ nextId <= nextId'
      BY <1>1 DEF DispatchInv, GroupsOK
    <3> QED BY <2>1, <3>1, StillGrown
  <2>2. CASE ~UNCHANGED groups
    <3>1. Live /\ groups' = [groups EXCEPT ![Top.group].listeners[Top.at].marked = TRUE]
      BY <1>3, <2>2
    <3>2. Top.group \in DOMAIN groups /\ Top.at \in DOMAIN groups[Top.group].listeners /\ UNCHANGED nextId
      BY <1>1, <3>1 DEF Live
    <3> QED BY <3>1, <3>2, MarkedOne, Zenon
  <2> QED BY <2>1, <2>2
<1>11. groups \in Seq(Group) /\ groups' \in Seq(Group)
  BY <1>10 DEF DispatchInv, GroupsOK
<1>12. x.torn = "no" => FrameOK(x, groups')
  BY <1>6, <1>9, <1>10, <1>11, GrownFrame
<1>13. x.torn = Top.torn /\ UNCHANGED <<depth, leaked, wrapped>>
  BY <1>1, <1>2, <1>6
<1> QED BY <1>1, <1>6, <1>8, <1>10, <1>12, <1>13, TopIInv, Zenon

(* The innermost dispatch is left, and the arrays are as they were. *)
LEMMA PopIInv ==
  ASSUME DispatchInv, frames # <<>>, frames' = Front(frames), UNCHANGED <<groups, nextId, wrapped>>,
         CountOK'
  PROVE  DispatchInv'
<1>1. PICK n \in Nat : n + 1 = Len(frames) /\ frames \in Seq(Frame)
  BY Innermost DEF DispatchInv, FramesOK
<1>2. /\ frames' \in Seq(Frame) /\ DOMAIN frames' = 1..n
      /\ \A f \in 1..n : frames'[f] = frames[f] /\ f \in DOMAIN frames
  BY <1>1 DEF Front
<1>3. FramesOK'
  BY <1>2 DEF DispatchInv, FramesOK
<1>4. GroupsOK'
  BY DEF DispatchInv, GroupsOK
<1> QED BY <1>3, <1>4 DEF DispatchInv

LEMMA FrontLen ==
  ASSUME NEW s \in Seq(Frame), s # <<>>
  PROVE  /\ Front(s) \in Seq(Frame) /\ Len(Front(s)) = Len(s) - 1 /\ DOMAIN Front(s) = 1..Len(s) - 1
         /\ \A f \in 1..Len(s) - 1 : Front(s)[f] = s[f] /\ f \in DOMAIN s
<1>1. PICK n \in Nat : n + 1 = Len(s) /\ n = Len(s) - 1
  OBVIOUS
<1>2. PICK u : u = Front(s) /\ u = SubSeq(s, 1, n)
  BY <1>1 DEF Front
<1>3. \A k \in 1..n : s[k] \in Frame /\ k \in DOMAIN s
  BY <1>1
<1>4. u \in Seq(Frame) /\ Len(u) = n /\ DOMAIN u = 1..n /\ \A k \in 1..n : u[k] = s[k]
  BY <1>1, <1>2, <1>3
<1> QED BY <1>1, <1>2, <1>3, <1>4

LEMMA ThrowIInv ==
  ASSUME DispatchInv, Throw
  PROVE  DispatchInv'
<1>1. /\ frames # <<>> /\ frames' = Front(frames) /\ leaked' = leaked + 1
      /\ UNCHANGED <<groups, depth, nextId, wrapped>>
  BY DEF Throw
<1>2. Len(frames') = Len(frames) - 1 /\ Len(frames) \in Nat
  BY <1>1, FrontLen DEF DispatchInv, FramesOK
<1>3. CountOK'
  BY <1>1, <1>2 DEF DispatchInv, CountOK
<1> QED BY <1>1, <1>3, PopIInv

LEMMA CleanedOK ==
  ASSUME NEW g, NEW n \in Nat, GroupOK(g, n)
  PROVE  /\ GroupOK(Cleaned(g), n) /\ Cleaned(g).event = g.event
         /\ Cleaned(g).active => g.active
         /\ Cleaned(g).listeners = Kept(g.listeners)
<1>1. PICK ls : ls = g.listeners /\ ls \in Seq(Listener) /\ DistinctIds(ls) /\ g \in Group
  BY DEF GroupOK, Group
<1>2. PICK ms : ms = Kept(ls) /\ Drawn(ms, ls) /\ ms \in Seq(Listener)
  BY <1>1, KeptDrawn DEF Drawn
<1>3. PICK a \in BOOLEAN : a = (g.active /\ ms # <<>>)
  OBVIOUS
<1>4. PICK x : x = Cleaned(g) /\ x = [g EXCEPT !.listeners = ms, !.active = a]
  BY <1>1, <1>2, <1>3 DEF Cleaned
<1>5. x \in Group /\ x.event = g.event /\ x.active = a /\ x.listeners = ms
  BY <1>1, <1>2, <1>3, <1>4 DEF Group
<1>6. GroupOK(x, n)
  BY <1>1, <1>2, <1>5, DrawnGroup
<1> QED BY <1>1, <1>2, <1>3, <1>4, <1>5, <1>6

LEMMA EndIInv ==
  ASSUME DispatchInv, End
  PROVE  DispatchInv'
<1>1. frames # <<>> /\ depth' = (depth - 1) % DepthWrap /\ UNCHANGED <<nextId, leaked, wrapped>>
  BY DEF End
<1>2. PICK n \in Nat : n + 1 = Len(frames) /\ frames \in Seq(Frame)
  BY <1>1, Innermost DEF DispatchInv, FramesOK
<1>3. PICK g : g = Top.group
  OBVIOUS
<1>4. \/ UNCHANGED groups /\ frames' = Front(frames)
      \/ depth' = 0 /\ CleanUp
  BY DEF End
<1>5. TornWalks(g) \in Seq(Frame) /\ Len(TornWalks(g)) = n + 1 /\ TornWalks(g) # <<>>
  <2>1. TornWalks(g) \in Seq(Frame) /\ Len(TornWalks(g)) = n + 1
    BY <1>2, TornTypes
  <2> QED BY <1>2, <2>1
<1>6. Len(frames') = n
  <2>1. frames' = Front(frames) \/ frames' = Front(TornWalks(g))
    BY <1>3, <1>4 DEF CleanUp
  <2>2. Len(Front(frames)) = n /\ Len(Front(TornWalks(g))) = n
    BY <1>1, <1>2, <1>5, FrontLen
  <2> QED BY <2>1, <2>2
<1>7. CountOK'
  <2>1. leaked \in Nat
    BY DEF DispatchInv, CountOK
  <2>2. ASSUME ~wrapped
        PROVE  depth' = leaked + n /\ depth' < DepthWrap
    <3>1. depth - 1 = leaked + n /\ depth - 1 < DepthWrap
      BY <1>2, <2>1, <2>2, CapacityAssumption DEF DispatchInv, CountOK
    <3>2. depth - 1 \in Nat
      BY <2>1, <3>1
    <3> QED BY <1>1, <3>1, <3>2, NoWrap
  <2> QED BY <1>1, <1>6, <2>1, <2>2 DEF CountOK
<1>8. CASE UNCHANGED groups /\ frames' = Front(frames)
  BY <1>1, <1>7, <1>8, PopIInv
<1>9. CASE depth' = 0 /\ CleanUp
  <2>1. /\ groups' = (IF g \in DOMAIN groups THEN [groups EXCEPT ![g] = Cleaned(groups[g])] ELSE groups)
        /\ frames' = Front(TornWalks(g))
    BY <1>3, <1>9 DEF CleanUp
  <2>2. GroupsOK /\ nextId \in Nat /\ nextId' \in Nat /\ nextId <= nextId'
    BY <1>1 DEF DispatchInv, GroupsOK
  <2>3. /\ GroupsOK'
        /\ \A h \in DOMAIN groups : h # g => h \in DOMAIN groups' /\ groups'[h] = groups[h]
    <3>1. CASE g \in DOMAIN groups
      <4>1. PICK x : x = Cleaned(groups[g]) /\ groups' = [groups EXCEPT ![g] = x]
        BY <2>1, <3>1
      <4>2. GroupOK(x, nextId) /\ x.event = groups[g].event /\ (x.active => groups[g].active)
        BY <2>2, <3>1, <4>1, CleanedOK, GroupTypes
      <4>3. GroupOK(x, nextId')
        BY <1>1, <4>2
      <4>4. GroupsOK'
        BY <2>2, <3>1, <4>1, <4>2, <4>3, Replaced, Zenon
      <4>5. \A h \in DOMAIN groups : h # g => h \in DOMAIN groups' /\ groups'[h] = groups[h]
        BY <4>1
      <4> QED BY <4>4, <4>5
    <3>2. CASE g \notin DOMAIN groups
      BY <1>1, <2>1, <2>2, <3>2 DEF GroupsOK
    <3> QED BY <3>1, <3>2
  <2>4. /\ frames' \in Seq(Frame) /\ DOMAIN frames' = 1..n
        /\ \A f \in 1..n : frames'[f] = TornWalks(g)[f] /\ f \in DOMAIN frames
    <3>1. (n + 1) - 1 = n /\ \A f \in 1..n : f \in DOMAIN frames
      BY <1>2
    <3> QED BY <1>5, <2>1, <3>1, FrontLen
  <2>5. ASSUME NEW f \in 1..n
        PROVE  wrapped
    <3>1. n # 0 /\ leaked \in Nat
      BY <2>5 DEF DispatchInv, CountOK
    <3> QED BY <1>1, <1>6, <1>7, <1>9, <3>1 DEF CountOK
  <2>6. \A f \in 1..n : /\ frames'[f].torn = "no" => FrameOK(frames'[f], groups')
                        /\ frames'[f].torn = "erased" => wrapped'
    BY <1>1, <2>3, <2>4, <2>5, TornFrame
  <2>7. FramesOK'
    BY <2>4, <2>6 DEF FramesOK
  <2> QED BY <1>7, <2>3, <2>7 DEF DispatchInv
<1> QED BY <1>4, <1>8, <1>9

LEMMA ClearIInv ==
  ASSUME DispatchInv, Clear
  PROVE  DispatchInv'
<1>1. GroupsOK'
  BY DEF DispatchInv, GroupsOK, Clear
<1>2. frames \in Seq(Frame) /\ Len(frames) \in Nat /\ DOMAIN frames = 1..Len(frames)
  BY DEF DispatchInv, FramesOK
<1>3. \A t \in Frame : [t EXCEPT !.torn = "cleared"] \in Frame /\ [t EXCEPT !.torn = "cleared"].torn = "cleared"
  BY DEF Frame
<1>4. frames' = [f \in 1..Len(frames) |-> [frames[f] EXCEPT !.torn = "cleared"]]
  BY <1>2 DEF Clear
<1>5. /\ frames' \in Seq(Frame) /\ Len(frames') = Len(frames) /\ DOMAIN frames' = DOMAIN frames
      /\ \A f \in DOMAIN frames' : frames'[f].torn = "cleared"
  <2>1. \A f \in 1..Len(frames) : frames'[f] \in Frame /\ frames'[f].torn = "cleared"
    <3> TAKE f \in 1..Len(frames)
    <3>1. PICK t \in Frame : t = frames[f]
      BY <1>2
    <3>2. frames'[f] = [t EXCEPT !.torn = "cleared"]
      BY <1>4, <3>1
    <3> QED BY <1>3, <3>1, <3>2
  <2>2. frames' \in Seq(Frame) /\ Len(frames') = Len(frames) /\ DOMAIN frames' = 1..Len(frames)
    BY <1>2, <1>4, <2>1
  <2> QED BY <1>2, <2>1, <2>2
<1>6. FramesOK'
  BY <1>5 DEF FramesOK
<1>7. CountOK'
  BY <1>5 DEF DispatchInv, CountOK, Clear
<1> QED BY <1>1, <1>6, <1>7 DEF DispatchInv

LEMMA InvariantKept == DispatcherSpec => []DispatchInv
<1>1. DispatcherInit => DispatchInv
  BY CapacityAssumption DEF DispatcherInit, DispatchInv, GroupsOK, CountOK, FramesOK
<1>2. DispatchInv /\ [DispatcherNext]_dispatcherVars => DispatchInv'
  <2> SUFFICES ASSUME DispatchInv, [DispatcherNext]_dispatcherVars
               PROVE  DispatchInv'
    OBVIOUS
  <2>1. CASE \E e \in Events : On(e) \/ Once(e)
    BY <2>1, AddIInv DEF On, Once
  <2>2. CASE \E e \in Events, id \in 1..MaxId : RemoveListenerById(e, id)
    BY <2>2, RemoveByIdIInv
  <2>3. CASE \E e \in Events : RemoveListener(e)
    BY <2>3, RemoveAllIInv
  <2>4. CASE \E e \in Events : Dispatch(e)
    BY <2>4, DispatchIInv
  <2>5. CASE Clear \/ Skip \/ Call
    BY <2>5, ClearIInv, SkipIInv, CallIInv
  <2>6. CASE ListenerReturns \/ Throw \/ End
    BY <2>6, ReturnsIInv, ThrowIInv, EndIInv
  <2>7. CASE UNCHANGED dispatcherVars
    BY <2>7 DEF dispatcherVars, DispatchInv, GroupsOK, CountOK, FramesOK
  <2> QED BY <2>1, <2>2, <2>3, <2>4, <2>5, <2>6, <2>7 DEF DispatcherNext
<1> QED BY <1>1, <1>2, PTL DEF DispatcherSpec

(* dispatchEvent() calls each listener of its event once, whatever the     *)
(* listeners it calls add, remove, dispatch and throw, as long as its      *)
(* array is not changed under it; and before dispatch_depth_ passes its    *)
(* last value nothing but clear() does that.  For any number of events and *)
(* listeners, any nesting, and any width of dispatch_depth_.               *)
THEOREM DispatchStaysExact == DispatcherSpec => []DispatchExact
<1>1. ASSUME DispatchInv
      PROVE  DispatchExact
  <2> SUFFICES ASSUME NEW f \in DOMAIN frames
               PROVE  LET fr == frames[f]  ls == groups[fr.group].listeners IN
                      /\ fr.torn = "erased" => wrapped
                      /\ fr.torn = "no" =>
                           /\ fr.end <= Len(ls)
                           /\ Active(groups[fr.group].event) = {fr.group}
                           /\ \A k \in 1..fr.end :
                                /\ k < fr.at => (ls[k].id \in fr.called \/ ls[k].marked)
                                /\ k > fr.at => ls[k].id \notin fr.called
                                /\ k = fr.at => (ls[k].id \in fr.called <=> fr.running)
    BY DEF DispatchExact
  <2>1. PICK x : /\ x = frames[f] /\ (x.torn = "no" => FrameOK(x, groups))
                 /\ x.torn = "erased" => wrapped
    BY <1>1 DEF DispatchInv, FramesOK
  <2>2. x.torn = "no" => Active(groups[x.group].event) = {x.group}
    BY <1>1, <2>1 DEF Active, FrameOK, DispatchInv, GroupsOK
  <2> QED BY <2>1, <2>2 DEF FrameOK
<1> QED BY <1>1, InvariantKept, PTL

(* The outermost dispatch gives back the places of the listeners that were *)
(* removed before their turn and of the once-listeners that were called.   *)
THEOREM RemovedAlwaysCollected == DispatcherSpec => RemovedCollected
<1>1. ASSUME DispatchInv, Len(frames) = 1, Top.torn = "no", End, depth' = 0, NEW k \in 1..Top.end,
             groups[Top.group].listeners[k].marked,
             \/ groups[Top.group].listeners[k].id \notin Top.called
             \/ groups[Top.group].listeners[k].once,
             NEW m \in DOMAIN groups'[Top.group].listeners
      PROVE  groups'[Top.group].listeners[m].id # groups[Top.group].listeners[k].id
  <2>1. frames # <<>> /\ Top.at > Top.end
    BY <1>1 DEF End
  <2>2. PICK g \in DOMAIN groups : /\ g = Top.group /\ GroupOK(groups[g], nextId)
                                   /\ Top.at \in Nat /\ Top.end \in Nat /\ FrameOK(Top, groups)
    <3>1. FrameOK(Top, groups) /\ Top.at \in Nat /\ Top.end \in Nat
      BY <1>1, <2>1, Innermost
    <3>2. Top.group \in DOMAIN groups
      BY <3>1 DEF FrameOK
    <3>3. GroupOK(groups[Top.group], nextId)
      BY <1>1, <3>2, GroupTypes DEF DispatchInv
    <3> QED BY <3>1, <3>2, <3>3
  <2>3. PICK ls : ls = groups[g].listeners /\ ls \in Seq(Listener) /\ DistinctIds(ls)
    BY <2>2 DEF GroupOK, Group
  <2>4. k < Top.at /\ k \in 1..Len(ls)
    BY <2>1, <2>2, <2>3 DEF FrameOK
  <2>5. Top.cleanup
    BY <1>1, <2>2, <2>3, <2>4 DEF FrameOK
  <2>6. groups' = [groups EXCEPT ![g] = Cleaned(groups[g])]
    BY <1>1, <2>1, <2>2, <2>5 DEF End, CleanUp
  <2>7. PICK ms : ms = groups'[g].listeners /\ ms = Kept(ls)
    <3>1. nextId \in Nat
      BY <1>1 DEF DispatchInv, GroupsOK
    <3> QED BY <2>2, <2>3, <2>6, <3>1, CleanedOK
  <2>8. Drawn(ms, ls) /\ \A j \in 1..Len(ms) : ~ms[j].marked
    BY <2>3, <2>7, KeptDrawn
  <2>9. m \in 1..Len(ms)
    BY <1>1, <2>2, <2>7, <2>8 DEF Drawn
  <2>10. PICK l \in 1..Len(ls) : ms[m] = ls[l]
    BY <2>8, <2>9 DEF Drawn
  <2>11. l # k
    BY <1>1, <2>2, <2>3, <2>8, <2>9, <2>10
  <2> QED BY <2>2, <2>3, <2>4, <2>7, <2>10, <2>11 DEF DistinctIds
<1>2. DispatchInv /\ [DispatcherNext]_dispatcherVars
      => [(Len(frames) = 1 /\ Top.torn = "no" /\ End /\ depth' = 0)
          => \A k \in 1..Top.end :
               LET l == groups[Top.group].listeners[k] IN
               (l.marked /\ (l.id \notin Top.called \/ l.once))
               => \A m \in DOMAIN groups'[Top.group].listeners :
                    groups'[Top.group].listeners[m].id # l.id]_dispatcherVars
  BY <1>1
<1> QED BY <1>2, InvariantKept, PTL DEF DispatcherSpec, RemovedCollected

=============================================================================
