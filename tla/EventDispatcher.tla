-------------------------- MODULE EventDispatcher --------------------------
(***************************************************************************)
(* The event dispatcher: groups of listeners, one group per event, and a   *)
(* dispatch that walks the group of its event.                             *)
(*                                                                         *)
(* One task; but a listener may call every operation, a dispatch of the    *)
(* same or another event included, so the dispatches in progress are a     *)
(* stack of frames, each at its place in its group.  A listener may also   *)
(* throw: dispatch() is wrapped in ErrorHandler::safe(), which catches     *)
(* what flies through dispatchEvent() before it counts its depth down.     *)
(* dispatch_depth_ is a uint8_t, so enough exceptions, or dispatches       *)
(* inside each other, bring it back to 0 inside a dispatch.  Then removals *)
(* erase from, and clean-ups compact, an array that is being walked;       *)
(* clear() may be called in a listener and destroys all arrays.  A walk    *)
(* over an array that changed under it is torn: it goes on over what lies  *)
(* at its place now, or over an entry that was destroyed, of which         *)
(* anything may be read.  Names stand for their hashes.                    *)
(***************************************************************************)
EXTENDS Integers, Sequences, FiniteSets, SequencesExt

CONSTANTS
  Events,
  MaxEvents,      \* capacity for groups
  MaxListeners,   \* and for the listeners of one
  MaxId,          \* listeners ever registered (a bound)
  MaxNesting,     \* dispatches inside each other (a bound)
  MaxThrown,      \* exceptions of listeners (a bound)
  DepthWrap       \* the values of dispatch_depth_ (256)

ASSUME CapacityAssumption ==
  /\ MaxEvents \in Nat \ {0} /\ MaxListeners \in Nat \ {0}
  /\ MaxId \in Nat /\ MaxNesting \in Nat /\ MaxThrown \in Nat
  /\ DepthWrap \in Nat \ {0, 1}

VARIABLES
  groups,   \* storage_
  depth,    \* dispatch_depth_
  nextId,   \* next_listener_id_
  frames,   \* the dispatchEvent() calls in progress, the innermost last
  leaked,   \* history: exceptions that left a depth counted
  wrapped   \* history: dispatch_depth_ has passed its last value

dispatcherVars == <<groups, depth, nextId, frames, leaked, wrapped>>

DispatcherInit ==
  /\ groups = <<>> /\ depth = 0 /\ nextId = 1 /\ frames = <<>>
  /\ leaked = 0 /\ wrapped = FALSE

Top == frames[Len(frames)]

(* Code of the sketch runs outside dispatches and in listeners. *)
SketchRuns == frames # <<>> => Top.running

-----------------------------------------------------------------------------
(* Groups                                                                  *)

Active(e) == {g \in DOMAIN groups : groups[g].active /\ groups[g].event = e}

(* findGroup(): the first active group of the event, or 0. *)
FindGroup(e) ==
  IF Active(e) = {} THEN 0 ELSE CHOOSE g \in Active(e) : \A h \in Active(e) : g <= h

(* getOrCreateGroup(): a new group always goes to the end; with no room    *)
(* there the error handler is told.                                        *)
GetOrCreateGroup(e) ==
  IF FindGroup(e) = 0 /\ Len(groups) < MaxEvents
  THEN Append(groups, [event |-> e, active |-> TRUE, listeners |-> <<>>])
  ELSE groups

Entry(id, once) == [id |-> id, once |-> once, marked |-> FALSE]

(* addListener().  The id is used up, and a new group stays, even when     *)
(* there is no room.                                                       *)
AddListener(e, once) ==
  LET gs == GetOrCreateGroup(e)
      g  == IF FindGroup(e) # 0 THEN FindGroup(e) ELSE IF gs # groups THEN Len(gs) ELSE 0
      l  == Entry(nextId, once)
  IN /\ SketchRuns /\ nextId <= MaxId
     /\ nextId' = nextId + 1
     /\ groups' = IF g # 0 /\ Len(gs[g].listeners) < MaxListeners
                  THEN [gs EXCEPT ![g].listeners = Append(@, l)] ELSE gs
     /\ UNCHANGED <<depth, frames, leaked, wrapped>>

(* registerListener() adds either kind. *)
On(e) == AddListener(e, FALSE)

Once(e) == AddListener(e, TRUE)

(* The array of group g changes under the dispatches that walk it. *)
TornWalks(g) ==
  [f \in DOMAIN frames |-> IF frames[f].group = g THEN [frames[f] EXCEPT !.torn = "erased"]
                           ELSE frames[f]]

(* removeListenerById(): while the depth is counted the entry is only      *)
(* marked; else it is erased, and the group stays active even if it is     *)
(* empty.                                                                  *)
RemoveListenerById(e, id) ==
  LET g == FindGroup(e) IN
  /\ SketchRuns /\ g # 0
  /\ \E k \in DOMAIN groups[g].listeners :
       /\ groups[g].listeners[k].id = id
       /\ groups' = IF depth > 0 THEN [groups EXCEPT ![g].listeners[k].marked = TRUE]
                    ELSE [groups EXCEPT ![g].listeners = RemoveAt(@, k)]
  /\ frames' = IF depth > 0 THEN frames ELSE TornWalks(g)
  /\ UNCHANGED <<depth, nextId, leaked, wrapped>>

Marked(ls) == [k \in DOMAIN ls |-> [ls[k] EXCEPT !.marked = TRUE]]

(* removeListener(): all listeners of the event. *)
RemoveListener(e) ==
  LET g == FindGroup(e) IN
  /\ SketchRuns /\ g # 0
  /\ groups' = IF depth > 0 THEN [groups EXCEPT ![g].listeners = Marked(@)]
               ELSE [groups EXCEPT ![g].listeners = <<>>, ![g].active = FALSE]
  /\ frames' = IF depth > 0 THEN frames ELSE TornWalks(g)
  /\ UNCHANGED <<depth, nextId, leaked, wrapped>>

(* clear() asks for no depth. *)
Clear ==
  /\ SketchRuns /\ groups # <<>>
  /\ groups' = <<>>
  /\ frames' = [f \in DOMAIN frames |-> [frames[f] EXCEPT !.torn = "cleared"]]
  /\ UNCHANGED <<depth, nextId, leaked, wrapped>>

-----------------------------------------------------------------------------
(* dispatchEvent()                                                         *)

(* The loop runs to the end the array has now. *)
Dispatch(e) ==
  LET g == FindGroup(e) IN
  /\ SketchRuns /\ g # 0 /\ Len(frames) < MaxNesting
  /\ depth' = (depth + 1) % DepthWrap
  /\ wrapped' = (wrapped \/ leaked + Len(frames) + 1 >= DepthWrap)
  /\ frames' = Append(frames, [group |-> g, at |-> 1, end |-> Len(groups[g].listeners),
                               running |-> FALSE, cleanup |-> FALSE, called |-> {}, torn |-> "no"])
  /\ UNCHANGED <<groups, nextId, leaked>>

(* There is an entry where the innermost dispatch is. *)
Live == Top.group \in DOMAIN groups /\ Top.at \in DOMAIN groups[Top.group].listeners

(* What it reads there. *)
Current ==
  IF Live THEN {groups[Top.group].listeners[Top.at]}
  ELSE [id : {0}, once : BOOLEAN, marked : BOOLEAN]

(* A marked entry is passed over, *)
Skip ==
  /\ frames # <<>> /\ ~Top.running /\ Top.at <= Top.end
  /\ \E l \in Current : l.marked
  /\ frames' = [frames EXCEPT ![Len(frames)].at = @ + 1, ![Len(frames)].cleanup = TRUE]
  /\ UNCHANGED <<groups, depth, nextId, leaked, wrapped>>

(* the others are called. *)
Call ==
  /\ frames # <<>> /\ ~Top.running /\ Top.at <= Top.end
  /\ \E l \in Current :
       /\ ~l.marked
       /\ frames' = [frames EXCEPT ![Len(frames)].running = TRUE,
                                   ![Len(frames)].called = @ \cup {l.id}]
  /\ UNCHANGED <<groups, depth, nextId, leaked, wrapped>>

ListenerReturns ==
  /\ frames # <<>> /\ Top.running
  /\ \E l \in Current :
       /\ groups' = IF l.once /\ Live
                    THEN [groups EXCEPT ![Top.group].listeners[Top.at].marked = TRUE] ELSE groups
       /\ frames' = [frames EXCEPT ![Len(frames)].running = FALSE, ![Len(frames)].at = @ + 1,
                                   ![Len(frames)].cleanup = @ \/ l.once]
  /\ UNCHANGED <<depth, nextId, leaked, wrapped>>

(* The exception leaves dispatchEvent() before it counts its depth down. *)
Throw ==
  /\ frames # <<>> /\ Top.running /\ leaked < MaxThrown
  /\ frames' = Front(frames)
  /\ leaked' = leaked + 1
  /\ UNCHANGED <<groups, depth, nextId, wrapped>>

(* Mutant: the clean-up forgets one of two marked neighbours. *)
CleanedOnce(g) ==
  LET k == CHOOSE k \in DOMAIN g.listeners : g.listeners[k].marked
  IN IF \E m \in DOMAIN g.listeners : g.listeners[m].marked
     THEN [g EXCEPT !.listeners = RemoveAt(@, k)] ELSE g

(* What the loop of cleanupMarkedListeners() keeps, in its order. *)
Kept(ls) ==
  LET kept[i \in 0 .. Len(ls)] ==
        IF i = 0 THEN <<>> ELSE IF ls[i].marked THEN kept[i - 1] ELSE Append(kept[i - 1], ls[i])
  IN  kept[Len(ls)]

(* cleanupMarkedListeners() *)
Cleaned(g) ==
  LET rest == Kept(g.listeners)
  IN [g EXCEPT !.listeners = rest, !.active = @ /\ rest # <<>>]

(* The group of the dispatch that ends is compacted, if it still exists. *)
CleanUp ==
  /\ groups' = IF Top.group \in DOMAIN groups THEN [groups EXCEPT ![Top.group] = Cleaned(@)]
               ELSE groups
  /\ frames' = Front(TornWalks(Top.group))

(* Mutant: an inner dispatch cleans up too. *)
EndCleansAlways ==
  /\ frames # <<>> /\ ~Top.running /\ Top.at > Top.end
  /\ depth' = (depth - 1) % DepthWrap
  /\ IF Top.cleanup THEN CleanUp ELSE groups' = groups /\ frames' = Front(frames)
  /\ UNCHANGED <<nextId, leaked, wrapped>>

End ==
  /\ frames # <<>> /\ ~Top.running /\ Top.at > Top.end
  /\ depth' = (depth - 1) % DepthWrap
  /\ IF Top.cleanup /\ depth' = 0 THEN CleanUp ELSE groups' = groups /\ frames' = Front(frames)
  /\ UNCHANGED <<nextId, leaked, wrapped>>

DispatcherNext ==
  \/ \E e \in Events : \/ On(e) \/ Once(e)
                       \/ \E id \in 1..MaxId : RemoveListenerById(e, id)
                       \/ RemoveListener(e) \/ Dispatch(e)
  \/ Clear \/ Skip \/ Call \/ ListenerReturns \/ Throw \/ End

DispatcherSpec == DispatcherInit /\ [][DispatcherNext]_dispatcherVars

-----------------------------------------------------------------------------
(* Properties                                                              *)

(* Each dispatch calls every listener exactly once, unless it was removed  *)
(* before its turn: whatever the listeners it calls add, remove, dispatch  *)
(* and throw, it neither skips one nor calls one twice, it stays within    *)
(* the array, and its group stays the one that findGroup() finds, where a  *)
(* listener added meanwhile is not lost.  The array changes under it only  *)
(* by clear(), or once dispatch_depth_ has passed its last value.          *)
DispatchExact ==
  \A f \in DOMAIN frames :
    LET fr == frames[f]  ls == groups[fr.group].listeners IN
    /\ fr.torn = "erased" => wrapped
    /\ fr.torn = "no" =>
         /\ fr.end <= Len(ls)
         /\ Active(groups[fr.group].event) = {fr.group}
         /\ \A k \in 1..fr.end : /\ k < fr.at => (ls[k].id \in fr.called \/ ls[k].marked)
                                 /\ k > fr.at => ls[k].id \notin fr.called
                                 /\ k = fr.at => (ls[k].id \in fr.called <=> fr.running)

(* The outermost dispatch of an event gives back the places of the         *)
(* listeners removed before their turn and of the once-listeners it called *)
(* or that inner dispatches called, when it brings dispatch_depth_ to 0.   *)
RemovedCollected ==
  [][ (Len(frames) = 1 /\ Top.torn = "no" /\ End /\ depth' = 0)
      => \A k \in 1..Top.end :
           LET l == groups[Top.group].listeners[k] IN
           (l.marked /\ (l.id \notin Top.called \/ l.once))
           => \A m \in DOMAIN groups'[Top.group].listeners :
                groups'[Top.group].listeners[m].id # l.id ]_dispatcherVars
=============================================================================
