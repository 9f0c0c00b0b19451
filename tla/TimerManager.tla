---------------------------- MODULE TimerManager ----------------------------
(***************************************************************************)
(* Timers: the node pool (TimerStorage), the operations on it              *)
(* (TimerManager) and the tick that runs what is due (TimerProcessor,      *)
(* TimerBase::tick).                                                       *)
(*                                                                         *)
(* Everything runs in one task, but a tick is many steps: it takes due     *)
(* timers out of the heap, then runs their callbacks, and a callback may   *)
(* call every operation on every timer, itself and those still to run      *)
(* included.  (A tick() in a callback returns at once.)                    *)
(*                                                                         *)
(* Times are signed differences to now, as the 32-bit subtractions of the  *)
(* code are: `left` is next_call_ms - now, for a paused timer remaining_ms *)
(* and for a queued one, whose deadline is over, 0.  pause_requested is    *)
(* kept only until it is honoured.  A TimerId is its node: an id of an     *)
(* earlier generation finds nothing and changes nothing.                   *)
(***************************************************************************)
EXTENDS Integers, Sequences, FiniteSets

CONSTANTS
  MaxTimers,   \* nodes in the pool
  Delays,      \* values of timeout_ms
  Intervals,   \* values of interval_ms
  Repeats,     \* values of repeat_count; -1 is for ever
  Limits,      \* time-outs given to set_interval_until()
  NoLimit,     \* and none given
  MaxLate,     \* how overdue a timer may be before it is ticked (a bound)
  MaxLag       \* how much time may pass within one tick (a bound)

ASSUME PoolAssumption == MaxTimers \in Nat
ASSUME TimeAssumption ==
  /\ Delays \cup Intervals \subseteq Nat /\ Limits \subseteq Nat
  /\ MaxLate \in Nat \ {0} /\ MaxLag \in Nat
ASSUME LimitAssumption == NoLimit \notin Int
ASSUME RepeatAssumption == Repeats \subseteq (Nat \ {0}) \cup {-1}

VARIABLES
  node,       \* pool_
  free,       \* free_nodes_
  active,     \* active_timers_, the heap
  paused,     \* paused_timers_
  queue,      \* execution_queue, without the timers already handled
  pc,         \* "idle"; in a tick: "next" to run, or in a "callback"
  lag,        \* now - cached_time
  timeouts,   \* timeout_count_
  intervals   \* interval_count_

vars == <<node, free, active, paused, queue, pc, lag, timeouts, intervals>>

Nodes == 1..MaxTimers

Node == [state     : {"Inactive", "Active", "Paused", "Processing"},
         kind      : {"timeout", "interval", "until"},
         left      : Int,
         interval  : Intervals \cup {0},
         repeat    : Nat \cup {-1},
         limit     : Int \cup {NoLimit},   \* until_timeout_ms - now
         pauseReq  : BOOLEAN,
         removeReq : BOOLEAN]

Clean == [state |-> "Inactive", kind |-> "timeout", left |-> 0, interval |-> 0, repeat |-> 0,
          limit |-> NoLimit, pauseReq |-> FALSE, removeReq |-> FALSE]

Ran(s) == {s[i] : i \in DOMAIN s}

Init ==
  /\ node = [n \in Nodes |-> Clean]
  /\ free = Nodes
  /\ active = {} /\ paused = {} /\ queue = <<>>
  /\ pc = "idle" /\ lag = 0 /\ timeouts = 0 /\ intervals = 0

(* Code of the sketch runs between ticks and in callbacks. *)
Sketch == pc \in {"idle", "callback"}

-----------------------------------------------------------------------------
(* Adding                                                                  *)

(* allocateNode(), reset(), finalizeNode() and addActiveNode(); an empty   *)
(* pool returns INVALID_TIMER_ID.                                          *)
Add(nd) ==
  /\ Sketch
  /\ \E n \in free :
       /\ node' = [node EXCEPT ![n] = nd]
       /\ free' = free \ {n} /\ active' = active \cup {n}
  /\ timeouts' = IF nd.kind = "timeout" THEN timeouts + 1 ELSE timeouts
  /\ intervals' = IF nd.kind = "timeout" THEN intervals ELSE intervals + 1
  /\ UNCHANGED <<paused, queue, pc, lag>>

AddTimeout(d) ==
  Add([Clean EXCEPT !.state = "Active", !.left = d, !.repeat = 1])

AddInterval(d, r) ==
  Add([Clean EXCEPT !.state = "Active", !.kind = "interval", !.left = d, !.interval = d,
                    !.repeat = r])

AddIntervalUntil(d, l) ==
  Add([Clean EXCEPT !.state = "Active", !.kind = "until", !.left = d, !.interval = d,
                    !.repeat = -1, !.limit = l])

-----------------------------------------------------------------------------
(* remove(), pause(), resume()                                             *)

(* Mutant: the counters are not given back. *)
FreedUncounted(n) ==
  /\ node' = [node EXCEPT ![n] = Clean]
  /\ free' = free \cup {n}
  /\ UNCHANGED <<timeouts, intervals>>

(* freeNode() with decTimeouts() or decIntervals(). *)
Freed(n) ==
  /\ node' = [node EXCEPT ![n] = Clean]
  /\ free' = free \cup {n}
  /\ IF node[n].kind = "timeout"
     THEN timeouts' = (IF timeouts > 0 THEN timeouts - 1 ELSE 0) /\ UNCHANGED intervals
     ELSE intervals' = (IF intervals > 0 THEN intervals - 1 ELSE 0) /\ UNCHANGED timeouts

(* Mutant: remove() frees a timer that the running tick still has queued. *)
RemoveAtOnce(n) ==
  /\ Sketch /\ node[n].state # "Inactive"
  /\ Freed(n)
  /\ active' = active \ {n} /\ paused' = paused \ {n}
  /\ UNCHANGED <<queue, pc, lag>>

(* remove(): a timer the running tick has queued is only marked. *)
RemoveTimer(n) ==
  /\ Sketch /\ node[n].state # "Inactive"
  /\ IF node[n].state = "Processing"
     THEN /\ node' = [node EXCEPT ![n].removeReq = TRUE]
          /\ UNCHANGED <<free, active, paused, timeouts, intervals>>
     ELSE /\ Freed(n)
          /\ active' = active \ {n} /\ paused' = paused \ {n}
  /\ UNCHANGED <<queue, pc, lag>>

Remaining(t) == IF t <= 0 THEN 0 ELSE t

Pause(n) ==
  /\ Sketch /\ node[n].state \in {"Active", "Processing"}
  /\ IF node[n].state = "Processing"
     THEN node' = [node EXCEPT ![n].pauseReq = TRUE] /\ UNCHANGED <<active, paused>>
     ELSE /\ node' = [node EXCEPT ![n].left = Remaining(@), ![n].state = "Paused"]
          /\ active' = active \ {n} /\ paused' = paused \cup {n}
  /\ UNCHANGED <<free, queue, pc, lag, timeouts, intervals>>

Resume(n) ==
  /\ Sketch /\ node[n].state = "Paused"
  /\ node' = [node EXCEPT ![n].state = "Active"]
  /\ paused' = paused \ {n} /\ active' = active \cup {n}
  /\ UNCHANGED <<free, queue, pc, lag, timeouts, intervals>>

-----------------------------------------------------------------------------
(* tick(), process()                                                       *)

Due == {n \in active : node[n].left <= 0}

(* Orders in which pop_heap may take k timers: earliest first. *)
Earliest(k) ==
  {q \in [1..k -> active] :
     /\ \A i, j \in 1..k : i < j => q[i] # q[j] /\ node[q[i]].left <= node[q[j]].left
     /\ \A i \in 1..k, n \in active \ Ran(q) : node[q[i]].left <= node[n].left}

(* Mutant: the loop stops one timer short. *)
TakenTooFew(due, size) == IF due <= size \div 2 THEN due ELSE size \div 2

(* The loop compares the number taken with the size that shrinks as it     *)
(* takes them: it stops half-way, rounded up.                              *)
Taken(due, size) == IF due <= (size + 1) \div 2 THEN due ELSE (size + 1) \div 2

Tick ==
  /\ pc = "idle" /\ Due # {}
  /\ \E q \in Earliest(Taken(Cardinality(Due), Cardinality(active))) :
       /\ queue' = q
       /\ active' = active \ Ran(q)
       /\ node' = [n \in Nodes |->
            IF n \in Ran(q)
            THEN [node[n] EXCEPT !.state = "Processing", !.left = 0,
                                 !.pauseReq = FALSE, !.removeReq = FALSE]
            ELSE node[n]]
       /\ pc' = IF q = <<>> THEN "idle" ELSE "next"
  /\ lag' = 0
  /\ UNCHANGED <<free, paused, timeouts, intervals>>

Callback ==
  /\ pc = "next"
  /\ pc' = "callback"
  /\ UNCHANGED <<node, free, active, paused, queue, lag, timeouts, intervals>>

(* should_stop after the callback; `done` is what until_callback returned, *)
(* repeat_count has been counted down.                                     *)
Stops(nd, done) ==
  \/ nd.kind = "timeout"
  \/ nd.kind = "until" /\ (done \/ (nd.limit # NoLimit /\ nd.limit + lag <= 0))
  \/ nd.repeat = 1

CountedDown(r) == IF r > 0 THEN r - 1 ELSE r

(* Mutant: a removal asked for while the callback runs is forgotten when   *)
(* the timer goes on.                                                      *)
HandledUnremoved(n, done) ==
  LET nd == [node[n] EXCEPT !.repeat = CountedDown(@)] IN
  IF Stops(node[n], done)
  THEN Freed(n) /\ UNCHANGED <<active, paused>>
  ELSE /\ node' = [node EXCEPT ![n] = [nd EXCEPT !.state = "Active", !.left = nd.interval - lag]]
       /\ active' = active \cup {n}
       /\ UNCHANGED <<free, paused, timeouts, intervals>>

(* What becomes of a timer whose callback has returned. *)
Handled(n, done) ==
  LET nd == [node[n] EXCEPT !.repeat = CountedDown(@)] IN
  CASE nd.removeReq -> Freed(n) /\ UNCHANGED <<active, paused>>
    [] ~nd.removeReq /\ nd.pauseReq ->
         /\ node' = [node EXCEPT ![n] = [nd EXCEPT !.state = "Paused", !.pauseReq = FALSE]]
         /\ paused' = paused \cup {n}
         /\ UNCHANGED <<free, active, timeouts, intervals>>
    [] ~nd.removeReq /\ ~nd.pauseReq /\ ~Stops(node[n], done) ->
         /\ node' = [node EXCEPT ![n] = [nd EXCEPT !.state = "Active", !.left = nd.interval - lag]]
         /\ active' = active \cup {n}
         /\ UNCHANGED <<free, paused, timeouts, intervals>>
    [] OTHER -> Freed(n) /\ UNCHANGED <<active, paused>>

Finish(done) ==
  /\ pc = "callback"
  /\ Handled(Head(queue), done)
  /\ queue' = Tail(queue)
  /\ pc' = IF Len(queue) = 1 THEN "idle" ELSE "next"
  /\ UNCHANGED lag

-----------------------------------------------------------------------------
(* A millisecond passes.  A time-out of set_interval_until() that is over  *)
(* stays over.                                                             *)
Older(nd) ==
  [nd EXCEPT !.left = IF nd.state = "Active" THEN @ - 1 ELSE @,
             !.limit = IF nd.state = "Inactive" \/ @ = NoLimit \/ @ <= -MaxLag THEN @ ELSE @ - 1]

Advance ==
  /\ \A n \in active : node[n].left > -MaxLate
  /\ pc # "idle" => lag < MaxLag
  /\ node' = [n \in Nodes |-> Older(node[n])]
  /\ lag' = IF pc = "idle" THEN 0 ELSE lag + 1
  /\ UNCHANGED <<free, active, paused, queue, pc, timeouts, intervals>>

Next ==
  \/ \E d \in Delays : AddTimeout(d)
  \/ \E d \in Intervals, r \in Repeats : AddInterval(d, r)
  \/ \E d \in Intervals, l \in Limits \cup {NoLimit} : AddIntervalUntil(d, l)
  \/ \E n \in Nodes : RemoveTimer(n) \/ Pause(n) \/ Resume(n)
  \/ Tick \/ Callback \/ \E done \in BOOLEAN : Finish(done)
  \/ Advance

(* loop() keeps calling tick(), callbacks return, time passes. *)
Spec ==
  /\ Init /\ [][Next]_vars
  /\ WF_vars(Tick) /\ WF_vars(Callback) /\ WF_vars(\E done \in BOOLEAN : Finish(done))
  /\ WF_vars(Advance)

-----------------------------------------------------------------------------
(* Properties                                                              *)

(* Every field of the pool and every list of TimerStorage has its type.    *)
TypeOK ==
  /\ node \in [Nodes -> Node]
  /\ free \subseteq Nodes /\ queue \in Seq(Nodes)
  /\ active \subseteq Nodes /\ paused \subseteq Nodes
  /\ pc \in {"idle", "next", "callback"} /\ lag \in 0..MaxLag
  /\ timeouts \in Nat /\ intervals \in Nat

In(state) == {n \in Nodes : node[n].state = state}
Distinct(s) == \A i, j \in DOMAIN s : s[i] = s[j] => i = j

(* A node of the pool is in exactly one place, the one its state says:     *)
(* whatever callbacks remove, pause and add, no node is lost, or freed and *)
(* given out again while process() still holds a pointer to it.            *)
PoolPartition ==
  /\ free = In("Inactive")
  /\ Ran(queue) = In("Processing") /\ Distinct(queue)
  /\ active = In("Active") /\ paused = In("Paused")
  /\ pc = "idle" <=> queue = <<>>

(* countTimeouts() and countIntervals() count the timers that exist. *)
CountsMatch ==
  /\ timeouts = Cardinality({n \in Nodes \ In("Inactive") : node[n].kind = "timeout"})
  /\ intervals = Cardinality({n \in Nodes \ In("Inactive") : node[n].kind # "timeout"})

(* A timer removed in a callback does not come back: the request is        *)
(* honoured before process() is through with it.                           *)
RemovedIsGone == \A n \in Nodes : node[n].removeReq => node[n].state = "Processing"

(* A timer that is due is run, or the sketch takes it out first: process() *)
(* taking only half of the due timers starves none, whatever intervals and *)
(* callbacks add meanwhile.                                                *)
DueFires == \A n \in Nodes : n \in Due ~> n \notin active
=============================================================================
