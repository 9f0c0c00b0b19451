----------------------------- MODULE WiFiEvents -----------------------------
(***************************************************************************)
(* What the arduino_events task serves: its start (tcpipInit()), the list  *)
(* of callbacks that onEvent() fills, and hostByName(), which the sketch   *)
(* and the callbacks use and which works through two bits of the event     *)
(* group.                                                                  *)
(*                                                                         *)
(* The task walks the list by index, one entry per step, and a callback    *)
(* may register, remove, or look a name up.  The sketch changes the list   *)
(* only between events (the vector has no lock).  Setting a bit wakes      *)
(* every task that waits for it.  lwIP answers a lookup within 14 s, one   *)
(* second before hostByName() stops waiting, and a task that cleared       *)
(* IDLE sets it within 15 s, one second before another stops waiting.      *)
(***************************************************************************)
EXTENDS Naturals, Sequences, SequencesExt

CONSTANTS
  Bases,     \* event bases with a handler (WIFI_EVENT, IP_EVENT, ...), in order
  Ids,       \* Arduino events
  BaseOf,    \* the base of each
  Fns,       \* callback functions
  MaxStarts, \* failed starts (a bound)
  MaxRegs,   \* registrations (a bound)
  MaxLate    \* answers outliving their call that are counted (a bound)

AnyEvent == "MAX"   \* ARDUINO_EVENT_MAX
Tasks == {"loop", "events"}

ASSUME EventAssumption ==
  /\ AnyEvent \notin Ids /\ BaseOf \in [Ids -> 1..Len(Bases)]
  /\ {MaxStarts, MaxRegs, MaxLate} \subseteq Nat

VARIABLES
  net,    \* what tcpipInit() has made
  cbs,    \* cbEventList
  walk,   \* the task's loop over it
  dns     \* the event group's bits and the lookups

eventVars == <<net, cbs, walk, dns>>

Entries == [id : Nat, fn : Fns, ev : Ids \cup {AnyEvent}]

(* Where a hostByName() stands: before the IDLE bit, about to clear it, to *)
(* ask lwIP, waiting for DONE, about to clear that, to set IDLE.           *)
Pcs == {"out", "waitIdle", "clear", "ask", "waitDone", "clearDone", "setIdle"}
Busy == {"ask", "waitDone", "clearDone", "setIdle"}

EventsInit ==
  /\ net = [initialized |-> FALSE, group |-> FALSE, queue |-> FALSE, task |-> FALSE,
            noLoop |-> FALSE, handlers |-> [b \in 1..Len(Bases) |-> 0], starts |-> 0]
  /\ cbs = [list |-> <<>>, current_id |-> 1]
  /\ walk = [on |-> FALSE, ev |-> AnyEvent, i |-> 0, called |-> <<>>, cut |-> FALSE]
  /\ dns = [bits |-> {}, pc |-> [t \in Tasks |-> "out"], asked |-> {}, late |-> 0,
            overlap |-> FALSE]

-----------------------------------------------------------------------------
(* tcpipInit()                                                             *)

(* The handlers of the first k bases are registered once more. *)
Registered(n, k) ==
  [n EXCEPT !.handlers = [b \in 1..Len(Bases) |-> IF b <= k THEN @[b] + 1 ELSE @[b]]]

(* Mutant: a task that could not be created is not noticed. *)
StartedNoTaskCheck(n) ==
  LET q == [n EXCEPT !.group = TRUE, !.queue = TRUE] IN
  {n} \cup {[Registered([q EXCEPT !.task = t], Len(Bases)) EXCEPT !.initialized = TRUE]
            : t \in {n.task, TRUE}}

(* _start_network_event_task(): group, queue, event loop, task, handlers.  *)
(* What was made stays made; the handlers are registered anew by every     *)
(* attempt, and a failed event loop returns its error code, which is true. *)
Started(n) ==
  LET g == [n EXCEPT !.group = TRUE]
      q == [g EXCEPT !.queue = TRUE]
      t == [q EXCEPT !.task = TRUE]
  IN {n, g, q, [q EXCEPT !.noLoop = TRUE, !.initialized = TRUE]}
     \cup {Registered(t, k) : k \in 0..Len(Bases) - 1}
     \cup {[Registered(t, Len(Bases)) EXCEPT !.initialized = TRUE]}

tcpipInit ==
  /\ ~net.initialized
  /\ net' \in {[n EXCEPT !.starts = @ + 1] : n \in Started(net)}
  /\ net'.initialized \/ net'.starts <= MaxStarts
  /\ dns' = [dns EXCEPT !.bits = IF net'.group /\ ~net.group THEN {"IDLE"} ELSE @]
  /\ UNCHANGED <<cbs, walk>>

-----------------------------------------------------------------------------
(* cbEventList                                                             *)

(* Mutant: a new entry goes to the front of the list. *)
OnEventFront(l, e) == [l EXCEPT !.list = <<e>> \o @, !.current_id = @ + 1]

OnEvent(l, e) == [l EXCEPT !.list = Append(@, e), !.current_id = @ + 1]

NewEntry(l, fn, ev) == [id |-> l.current_id, fn |-> fn, ev |-> ev]

(* The places of list that a removal loop erases, of those that match: the *)
(* entry behind an erased one moves into its place and is passed over.     *)
Erased(list, matching) ==
  LET gone[k \in 0..Len(list)] == IF k = 0 THEN FALSE ELSE k \in matching /\ ~gone[k - 1]
  IN {k \in 1..Len(list) : gone[k]}

Without(list, ks) ==
  LET kept == {k \in 1..Len(list) : k \notin ks} IN
  [j \in 1..Len(list) - Cardinality(ks) |->
     list[CHOOSE k \in kept : Cardinality({i \in kept : i <= k}) = j]]

(* removeEvent(id) *)
RemoveEventId(l, id) ==
  [l EXCEPT !.list = Without(@, Erased(@, {k \in 1..Len(@) : @[k].id = id}))]

(* removeEvent(cbEvent, event) *)
RemoveEventFn(l, fn, ev) ==
  [l EXCEPT !.list =
     Without(@, Erased(@, {k \in 1..Len(@) : @[k].fn = fn /\ @[k].ev = ev}))]

SketchOnEvent(fn, ev) ==
  /\ ~walk.on /\ cbs.current_id <= MaxRegs
  /\ cbs' = OnEvent(cbs, NewEntry(cbs, fn, ev))
  /\ UNCHANGED <<net, walk, dns>>

SketchRemoveEvent ==
  /\ ~walk.on
  /\ \/ \E k \in 1..Len(cbs.list) : cbs' = RemoveEventId(cbs, cbs.list[k].id)
     \/ \E k \in 1..Len(cbs.list) : cbs' = RemoveEventFn(cbs, cbs.list[k].fn, cbs.list[k].ev)
  /\ UNCHANGED <<net, walk, dns>>

-----------------------------------------------------------------------------
(* The arduino_events task                                                 *)

(* _arduino_event_cb() translates and posts the events of the bases it is   *)
(* registered for.                                                         *)
Posted(ev) == net.handlers[BaseOf[ev]] > 0

(* xQueueReceive() *)
Receive(ev) ==
  /\ net.task /\ ~walk.on /\ Posted(ev)
  /\ walk' = [on |-> TRUE, ev |-> ev, i |-> 1, called |-> <<>>, cut |-> FALSE]
  /\ UNCHANGED <<net, cbs, dns>>

Matches(e) == e.ev \in {walk.ev, AnyEvent}

Passed == [walk EXCEPT !.i = @ + 1]
Called == [Passed EXCEPT !.called = Append(@, cbs.list[walk.i].id)]

Walking == walk.on /\ dns.pc["events"] = "out" /\ walk.i <= Len(cbs.list) /\ UNCHANGED net

PassOver == Walking /\ ~Matches(cbs.list[walk.i]) /\ walk' = Passed /\ UNCHANGED <<cbs, dns>>

(* A callback that returns, registers, removes, or looks a name up. *)
Call ==
  /\ Walking /\ Matches(cbs.list[walk.i])
  /\ \/ walk' = Called /\ UNCHANGED <<cbs, dns>>
     \/ /\ cbs.current_id <= MaxRegs
        /\ \E ev \in {walk.ev, AnyEvent} :
             cbs' = OnEvent(cbs, NewEntry(cbs, cbs.list[walk.i].fn, ev))
        /\ walk' = Called /\ UNCHANGED dns
     \/ /\ \E k \in 1..Len(cbs.list) : cbs' = RemoveEventId(cbs, cbs.list[k].id)
        /\ walk' = [Called EXCEPT !.cut = TRUE] /\ UNCHANGED dns
     \/ /\ walk' = Called /\ dns' = [dns EXCEPT !.pc["events"] = "waitIdle"]
        /\ UNCHANGED cbs

Return ==
  /\ walk.on /\ dns.pc["events"] = "out" /\ walk.i > Len(cbs.list)
  /\ walk' = [walk EXCEPT !.on = FALSE, !.i = 0, !.called = <<>>, !.cut = FALSE, !.ev = AnyEvent]
  /\ UNCHANGED <<net, cbs, dns>>

-----------------------------------------------------------------------------
(* hostByName()                                                            *)

(* Tasks that wait at `from` go on to `to` when their bit is set. *)
Woken(pc, from, to) == [t \in Tasks |-> IF pc[t] = from THEN to ELSE pc[t]]

Looking(d) == dns' = d /\ UNCHANGED <<net, cbs, walk>>
At(t, pc) == dns.pc[t] = pc

LookUp == net.group /\ At("loop", "out") /\ Looking([dns EXCEPT !.pc["loop"] = "waitIdle"])

(* waitStatusBits(WIFI_DNS_IDLE_BIT, 16000) *)
WaitIdle(t) == At(t, "waitIdle") /\ "IDLE" \in dns.bits /\ Looking([dns EXCEPT !.pc[t] = "clear"])

ClearBits(t) ==
  /\ At(t, "clear")
  /\ Looking([dns EXCEPT !.bits = {}, !.pc[t] = "ask",
                         !.overlap = @ \/ \E u \in Tasks : dns.pc[u] \in Busy])

(* Mutant: an error returns before the IDLE bit is set again. *)
AskReturnsEarly(t) ==
  /\ At(t, "ask")
  /\ \/ Looking([dns EXCEPT !.pc[t] = "out"])
     \/ Looking([dns EXCEPT !.pc[t] = "waitDone", !.asked = @ \cup {t}])

(* dns_gethostbyname(): answered or refused at once, or in progress. *)
Ask(t) ==
  /\ At(t, "ask")
  /\ \/ Looking([dns EXCEPT !.pc[t] = "setIdle"])
     \/ Looking([dns EXCEPT !.pc[t] = "waitDone", !.asked = @ \cup {t}])

(* Mutant: the wait ends before lwIP has given up. *)
WaitDoneShort(t) == At(t, "waitDone") /\ Looking([dns EXCEPT !.pc[t] = "clearDone"])

(* waitStatusBits(WIFI_DNS_DONE_BIT, 15000): the bit, or 15 s in which     *)
(* lwIP has answered and another task has taken the bit away.              *)
WaitDone(t) ==
  /\ At(t, "waitDone") /\ ("DONE" \in dns.bits \/ t \notin dns.asked)
  /\ Looking([dns EXCEPT !.pc[t] = "clearDone"])

ClearDone(t) ==
  /\ At(t, "clearDone")
  /\ Looking([dns EXCEPT !.bits = @ \ {"DONE"}, !.pc[t] = "setIdle"])

(* An answer that is still due when the call returns finds a dead frame. *)
SetIdle(t) ==
  /\ At(t, "setIdle")
  /\ Looking([dns EXCEPT !.bits = @ \cup {"IDLE"},
                         !.pc = Woken([@ EXCEPT ![t] = "out"], "waitIdle", "clear"),
                         !.asked = @ \ {t},
                         !.late = IF t \in dns.asked /\ @ < MaxLate THEN @ + 1 ELSE @])

(* wifi_dns_found_callback(), for a call that waits and for one that is gone. *)
Answered(d) == Looking([d EXCEPT !.bits = @ \cup {"DONE"}, !.pc = Woken(@, "waitDone", "clearDone")])
Found(t) == t \in dns.asked /\ Answered([dns EXCEPT !.asked = @ \ {t}])
FoundLate == dns.late > 0 /\ Answered([dns EXCEPT !.late = @ - 1])

hostByName(t) ==
  WaitIdle(t) \/ ClearBits(t) \/ Ask(t) \/ WaitDone(t) \/ ClearDone(t) \/ SetIdle(t)

EventsNext ==
  \/ tcpipInit
  \/ \E fn \in Fns, ev \in Ids \cup {AnyEvent} : SketchOnEvent(fn, ev)
  \/ SketchRemoveEvent
  \/ \E ev \in Ids : Receive(ev)
  \/ PassOver \/ Call \/ Return
  \/ LookUp \/ FoundLate
  \/ \E t \in Tasks : hostByName(t) \/ Found(t)

(* The scheduler runs both tasks, and lwIP answers every lookup. *)
EventsFairness ==
  \A t \in Tasks : WF_eventVars(Found(t)) /\ WF_eventVars(hostByName(t))

-----------------------------------------------------------------------------
(* Properties                                                              *)

(* tcpipInit() reports success only when every event can reach the sketch, *)
(* however many attempts failed half-way before, except when it was the    *)
(* event loop that could not be made.                                      *)
InitComplete ==
  net.initialized /\ ~net.noLoop => net.task /\ \A ev \in Ids : Posted(ev)

(* One event calls no callback twice, and when the walk ends without a     *)
(* removal in it every matching callback was called, those that callbacks  *)
(* registered included.                                                    *)
CallbacksOncePerEvent ==
  /\ IsInjective(walk.called)
  /\ walk.on /\ walk.i > Len(cbs.list) /\ ~walk.cut =>
       \A k \in 1..Len(cbs.list) :
         Matches(cbs.list[k]) => \E j \in 1..Len(walk.called) : walk.called[j] = cbs.list[k].id

(* An answer of lwIP outlives the hostByName() that waits for it, and is   *)
(* written to a dead frame, only if lookups of two tasks have overlapped.  *)
LateOnlyAfterOverlap == dns.late > 0 => dns.overlap

(* Every hostByName() gets the IDLE bit, though the bit is shared by both   *)
(* tasks and every path of a lookup has to give it back, and returns.      *)
LookupReturns == \A t \in Tasks : dns.pc[t] # "out" ~> dns.pc[t] = "out"
=============================================================================
