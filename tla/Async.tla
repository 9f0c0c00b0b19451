------------------------------- MODULE Async -------------------------------
(***************************************************************************)
(* Futures: the Executor that polls them, Future with its combinators,     *)
(* time-outs and waits, and Deferred, the promise settled from elsewhere.  *)
(*                                                                         *)
(* The executor belongs to one task, the loop.  Its poll() is many steps:  *)
(* it calls each future in turn, and the code in a future (a chained       *)
(* function, an on_error callback) may schedule others.  A Deferred and    *)
(* the futures made from it share one AsyncResult; a copy of the Deferred  *)
(* may be given to another task, which settles it.  The AsyncResult lives  *)
(* while something refers to it, which is what SharedPtr shows of          *)
(* AtomicSharedPtr.                                                        *)
(*                                                                         *)
(* A future is a combinator over at most two simple ones: its input and    *)
(* value types are left out, of a value or an error only whether the       *)
(* reader gets the one that was written.  Times are millis() modulo Wrap.  *)
(***************************************************************************)
EXTENDS Integers, Sequences, FiniteSets

CONSTANTS
  Writers,     \* the tasks besides the loop
  Slots,       \* future_pool
  Cells,       \* AsyncResults that Deferreds and their futures share
  Null,
  Shapes,      \* the futures the sketch makes: [op, kids]
  Delays,      \* values of timeout_ms
  Wrap,        \* millis() is modulo Wrap
  MaxNested    \* futures that the calls of one poll() schedule (a bound)

ASSUME AsyncAssumption ==
  /\ Null \notin Cells /\ IsFiniteSet(Slots)
  /\ Wrap \in Nat \ {0} /\ Delays \subseteq Nat /\ MaxNested \in Nat

VARIABLES
  result,    \* the shared AsyncResults
  mine,      \* the one of the sketch's Deferred
  lent,      \* and of those of other tasks
  writer,    \* where the other tasks are
  fut,       \* what each slot's function has captured
  active,    \* active_futures
  free,      \* free_futures
  i,         \* index in poll()
  pc,        \* of the loop: "sketch"; in poll(): "poll", "callback"
  now,       \* millis()
  polled,    \* slots called in this poll() whose future is still there
  nested     \* futures scheduled by the calls of this poll()

promiseVars == <<result, mine, lent, writer>>
execVars == <<fut, active, free, i, pc, polled, nested>>
vars == <<promiseVars, execVars, now>>

States == {"Pending", "Resolved", "Rejected"}
PendingResult == [state |-> "Pending", whole |-> TRUE]
NoFuture == [op |-> "none", kids |-> <<"ok">>, res |-> <<"Pending", "Pending">>,
             cell |-> Null, due |-> 0, out |-> "Pending", whole |-> TRUE]

Init ==
  /\ result = [c \in Cells |-> PendingResult]
  /\ mine = Null /\ lent = [w \in Writers |-> Null] /\ writer = [w \in Writers |-> "off"]
  /\ fut = [s \in Slots |-> NoFuture]
  /\ active = <<>>
  /\ free = CHOOSE q \in [1..Cardinality(Slots) -> Slots] : {q[k] : k \in DOMAIN q} = Slots
  /\ i = 1 /\ pc = "sketch" /\ polled = {} /\ nested = 0
  /\ now = 0

(* The loop runs code of the sketch: between polls, or inside a future. *)
Sketch == pc \in {"sketch", "callback"}

-----------------------------------------------------------------------------
(* Deferred                                                                *)

InUse == ({mine} \cup {lent[w] : w \in Writers} \cup {fut[s].cell : s \in Slots}) \ {Null}

(* The sketch's Deferred is destroyed, or replaced by a new one. *)
NewDeferred ==
  /\ Sketch
  /\ \/ mine # Null /\ mine' = Null /\ UNCHANGED result
     \/ \E c \in Cells \ InUse : mine' = c /\ result' = [result EXCEPT ![c] = PendingResult]
  /\ UNCHANGED <<lent, writer, execVars, now>>

(* Another task is started with a copy of it. *)
Lend(w) ==
  /\ Sketch /\ writer[w] = "off" /\ mine # Null
  /\ lent' = [lent EXCEPT ![w] = mine] /\ writer' = [writer EXCEPT ![w] = "ready"]
  /\ UNCHANGED <<result, mine, execVars, now>>

(* resolve() and reject() in the loop itself: its poll() cannot come       *)
(* between.                                                                *)
Settle(state) ==
  /\ Sketch /\ mine # Null /\ result[mine].state = "Pending"
  /\ result' = [result EXCEPT ![mine] = [state |-> state, whole |-> TRUE]]
  /\ UNCHANGED <<mine, lent, writer, execVars, now>>

(* In another task: is_pending(), then the members are assigned in the     *)
(* order of their declaration, the state before the value and the error.   *)
Check(w, state) ==
  /\ writer[w] = "ready"
  /\ writer' = [writer EXCEPT ![w] = IF result[lent[w]].state = "Pending" THEN state ELSE "done"]
  /\ UNCHANGED <<result, mine, lent, execVars, now>>

WriteState(w) ==
  /\ writer[w] \in States
  /\ result' = [result EXCEPT ![lent[w]] = [state |-> writer[w], whole |-> FALSE]]
  /\ writer' = [writer EXCEPT ![w] = "payload"]
  /\ UNCHANGED <<mine, lent, execVars, now>>

WritePayload(w) ==
  /\ writer[w] = "payload"
  /\ result' = [result EXCEPT ![lent[w]].whole = TRUE]
  /\ writer' = [writer EXCEPT ![w] = "done"]
  /\ UNCHANGED <<mine, lent, execVars, now>>

(* The task ends, and its Deferred with it. *)
WriterEnds(w) ==
  /\ writer[w] = "done"
  /\ writer' = [writer EXCEPT ![w] = "off"] /\ lent' = [lent EXCEPT ![w] = Null]
  /\ UNCHANGED <<result, mine, execVars, now>>

-----------------------------------------------------------------------------
(* Futures                                                                 *)

Uses(shape, leaf) == \E k \in DOMAIN shape.kids : shape.kids[k] = leaf

(* A wait or a time-out computes when it is over. *)
Deadline(d) == (now + d) % Wrap

(* get_future() copies the pointer of the Deferred. *)
GetFuture(shape) == IF Uses(shape, "promise") THEN mine ELSE Null

NewFuture(shape, d) ==
  [NoFuture EXCEPT !.op = shape.op, !.kids = shape.kids, !.due = Deadline(d),
                   !.cell = GetFuture(shape)]

(* execute(): the future moves into the last free slot, at the end of the  *)
(* active ones; with no slot free nothing happens.                         *)
Execute(shape, d) ==
  /\ Sketch /\ free # <<>>
  /\ Uses(shape, "promise") => mine # Null
  /\ pc = "callback" => nested < MaxNested
  /\ LET s == free[Len(free)] IN
       /\ fut' = [fut EXCEPT ![s] = NewFuture(shape, d)]
       /\ active' = Append(active, s)
  /\ free' = SubSeq(free, 1, Len(free) - 1)
  /\ nested' = IF pc = "callback" THEN nested + 1 ELSE nested
  /\ UNCHANGED <<i, pc, polled, promiseVars, now>>

(* get_wait_async_state() *)
Waited(s) == IF fut[s].due <= now THEN "Resolved" ELSE "Pending"

(* What a simple future of slot s returns: a constant one, create_wait-    *)
(* future() or that of a Deferred.                                         *)
Simple(s, leaf) ==
  CASE leaf = "ok" -> "Resolved"
    [] leaf = "error" -> "Rejected"
    [] leaf = "wait" -> Waited(s)
    [] leaf = "promise" -> result[fut[s].cell].state

(* Future::poll() of the k-th part: a settled one is not called again. *)
Kid(s, k) ==
  IF fut[s].res[k] # "Pending" THEN fut[s].res[k] ELSE Simple(s, fut[s].kids[k])

(* and_then(): the second part starts when the first is resolved, and a    *)
(* rejected first part is the result.                                      *)
ThenPolled(s, first) == IF first = "Resolved" THEN Kid(s, 2) ELSE "Pending"

ThenOut(first, second) == IF first = "Resolved" THEN second ELSE first

(* A combined future is called: the results kept of its parts, and what it *)
(* returns.                                                                *)
AndThen(s) ==
  LET a == Kid(s, 1)
      b == ThenPolled(s, a)
  IN [res |-> <<a, b>>, out |-> ThenOut(a, b)]

AllOf(s) ==
  LET a == Kid(s, 1)  b == Kid(s, 2)
  IN [res |-> <<a, b>>,
      out |-> CASE "Rejected" \in {a, b} -> "Rejected"
                [] "Rejected" \notin {a, b} /\ "Pending" \notin {a, b} -> "Resolved"
                [] OTHER -> "Pending"]

(* Mutant: a settled promise is not seen by a race. *)
RaceDeaf(s) == [res |-> <<"Pending", Kid(s, 2)>>, out |-> Kid(s, 2)]

Race(s) ==
  LET a == Kid(s, 1)
      b == IF a = "Pending" THEN Kid(s, 2) ELSE "Pending"
  IN [res |-> <<a, b>>, out |-> IF a = "Pending" THEN b ELSE a]

Timeout(s) ==
  LET a == IF now >= fut[s].due THEN "Rejected" ELSE Kid(s, 1)
  IN [res |-> <<a, "Pending">>, out |-> a]

Called(s) ==
  CASE fut[s].op = "one" -> [res |-> <<Kid(s, 1), "Pending">>, out |-> Kid(s, 1)]
    [] fut[s].op = "then" -> AndThen(s)
    [] fut[s].op = "all" -> AllOf(s)
    [] fut[s].op = "race" -> Race(s)
    [] fut[s].op = "timeout" -> Timeout(s)

(* The promise is read while it is being written. *)
Torn(s) ==
  /\ fut[s].cell # Null /\ ~result[fut[s].cell].whole
  /\ \E k \in DOMAIN fut[s].kids :
       fut[s].kids[k] = "promise" /\ fut[s].res[k] # Called(s).res[k]

-----------------------------------------------------------------------------
(* Executor::poll()                                                        *)

PollBegin ==
  /\ pc = "sketch" /\ active # <<>>
  /\ pc' = "poll"
  /\ UNCHANGED <<fut, active, free, i, polled, nested, promiseVars, now>>

PollCall ==
  /\ pc = "poll" /\ i <= Len(active)
  /\ LET s == active[i] IN
       /\ fut' = [fut EXCEPT ![s].res = Called(s).res, ![s].out = Called(s).out,
                             ![s].whole = ~Torn(s)]
       /\ polled' = polled \cup {s}
  /\ pc' = "callback"
  /\ UNCHANGED <<active, free, i, nested, promiseVars, now>>

(* Mutant: the index moves on after a removal too. *)
ReturnAdvances ==
  /\ pc = "callback" /\ pc' = "poll" /\ i' = i + 1
  /\ LET n == Len(active)  s == active[i] IN
       \/ fut[s].out = "Pending" /\ UNCHANGED <<fut, active, free, polled>>
       \/ /\ fut[s].out # "Pending"
          /\ fut' = [fut EXCEPT ![s] = NoFuture]
          /\ free' = Append(free, s)
          /\ active' = SubSeq([active EXCEPT ![i] = active[n]], 1, n - 1)
          /\ polled' = polled \ {s}
  /\ UNCHANGED <<nested, promiseVars, now>>

(* Mutant: the last future is dropped instead of moved into the hole. *)
ReturnTruncates ==
  /\ pc = "callback" /\ pc' = "poll"
  /\ LET n == Len(active)  s == active[i] IN
       \/ fut[s].out = "Pending" /\ i' = i + 1 /\ UNCHANGED <<fut, active, free, polled>>
       \/ /\ fut[s].out # "Pending"
          /\ fut' = [fut EXCEPT ![s] = NoFuture]
          /\ free' = Append(free, s)
          /\ active' = SubSeq(active, 1, n - 1)
          /\ polled' = polled \ {s}
          /\ UNCHANGED i
  /\ UNCHANGED <<nested, promiseVars, now>>

(* The call has returned: a pending future is passed over, a settled one   *)
(* cleared and removed, the last active one taking its place.              *)
Return ==
  /\ pc = "callback" /\ pc' = "poll"
  /\ LET n == Len(active)  s == active[i] IN
       \/ fut[s].out = "Pending" /\ i' = i + 1 /\ UNCHANGED <<fut, active, free, polled>>
       \/ /\ fut[s].out # "Pending"
          /\ fut' = [fut EXCEPT ![s] = NoFuture]
          /\ free' = Append(free, s)
          /\ active' = SubSeq([active EXCEPT ![i] = active[n]], 1, n - 1)
          /\ polled' = polled \ {s}
          /\ UNCHANGED i
  /\ UNCHANGED <<nested, promiseVars, now>>

PollEnd ==
  /\ pc = "poll" /\ i > Len(active)
  /\ pc' = "sketch" /\ i' = 1 /\ polled' = {} /\ nested' = 0
  /\ UNCHANGED <<fut, active, free, promiseVars, now>>

Clock == now' = (now + 1) % Wrap /\ UNCHANGED <<execVars, promiseVars>>

-----------------------------------------------------------------------------
Poll == PollBegin \/ PollCall \/ Return \/ PollEnd

Next ==
  \/ NewDeferred
  \/ \E state \in {"Resolved", "Rejected"} : Settle(state) \/ \E w \in Writers : Check(w, state)
  \/ \E w \in Writers : Lend(w) \/ WriteState(w) \/ WritePayload(w) \/ WriterEnds(w)
  \/ \E shape \in Shapes, d \in Delays : Execute(shape, d)
  \/ Poll \/ Clock

(* loop() calls poll() on every pass, and calls return. *)
Spec == Init /\ [][Next]_vars /\ WF_vars(Poll)

-----------------------------------------------------------------------------
(* Properties                                                              *)

Elems(q) == {q[k] : k \in DOMAIN q}

(* Every slot is in exactly one of the two arrays, once, and a free one    *)
(* holds no future: none is lost, run twice or leaked however the calls of *)
(* a poll() add others.                                                    *)
SlotsPartition ==
  /\ Len(active) + Len(free) = Cardinality(Slots)
  /\ Elems(active) \cup Elems(free) = Slots
  /\ \A s \in Elems(free) : fut[s] = NoFuture

(* Each poll() calls every future exactly once: those before the index     *)
(* have been called in this pass and those after it have not, while        *)
(* finished ones leave and new ones come.                                  *)
SweepExact ==
  pc # "sketch" =>
    \A k \in DOMAIN active : /\ k < i => active[k] \in polled
                             /\ k > i => active[k] \notin polled
                             /\ k = i => (active[k] \in polled <=> pc # "poll")

Waits(s) == fut[s].op \in {"one", "race", "timeout"} /\ fut[s].kids[1] = "promise"

(* A promise settled by whatever task reaches its future: one that waits   *)
(* for it alone, or raced or timed out, leaves the executor.               *)
PromiseDelivered ==
  \A s \in Slots : (Waits(s) /\ result[fut[s].cell].state # "Pending") ~> (fut[s] = NoFuture)

(* Deferred, which "can be resolved or rejected manually from outside      *)
(* (e.g. from an ISR, Timer, or another thread)": a future that takes the  *)
(* settled result takes the value or the error written with it.  Not so:   *)
(* a poll() between WriteState and WritePayload takes the old value.       *)
SettledWhole == \A s \in Slots : fut[s].whole

=============================================================================
