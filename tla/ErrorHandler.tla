---------------------------- MODULE ErrorHandler ----------------------------
(***************************************************************************)
(* The error handler: reportError() with its filter, throttle and          *)
(* deduplication, its statistics and history; executeSafe() and its        *)
(* fallback; the context stack; the policies; and the ErrorQueue.          *)
(*                                                                         *)
(* One task; but the error callback, a threshold action and the handlers   *)
(* of a SeverityPolicy are sketch code that may call every operation, so   *)
(* the calls in progress are a stack of frames.  The sketch may also throw *)
(* where some executeSafe() below catches it.  One use is left out, being  *)
(* undefined in the code: no more keys are used than the maps have room    *)
(* for.  Names stand for their hashes and a text is a member of a small    *)
(* set.                                                                    *)
(***************************************************************************)
EXTENDS Integers, Sequences, FiniteSets, SequencesExt

CONSTANTS
  Errors,        \* what the sketch reports: [context, message, severity]
  What,          \* the text of a failure that executeSafe() reports
  Places,        \* the names it pushes on the context stack
  Intervals,     \* the throttle intervals and deduplication windows it sets
  Filters,       \* the severities it filters by
  Kinds,         \* the policies it registers
  None,
  Wrap,          \* millis() counts modulo this
  SizeWrap,      \* and a size_t modulo this
  HistorySize, Capacity, StackMax, Threshold, MaxRetries,
  MaxChanges,    \* configuration calls in a behaviour (a bound)
  MaxReports,    \* reports between two resets of the statistics (a bound)
  MaxPolicies, MaxFrames, MaxNested, MaxScopes, MaxAge   \* bounds

ASSUME SizeAssumption ==
  /\ \A n \in {HistorySize, Capacity, StackMax, Threshold, MaxRetries} : n \in Nat \ {0}
  /\ \A n \in {MaxChanges, MaxReports, MaxPolicies, MaxFrames, MaxNested, MaxScopes, MaxAge} : n \in Nat
  /\ SizeWrap \in Nat /\ Capacity < SizeWrap
  /\ Wrap \in Nat \ {0} /\ Intervals \subseteq 0 .. Wrap - 1

Info == 0     Warning == 1     Error == 2     Critical == 3

Severities == Info .. Critical

ASSUME ErrorAssumption ==
  None \notin Nat /\ \A e \in Errors : e.severity \in Severities

Contexts == {e.context : e \in Errors}

Key(e) == <<e.context, e.message>>

(* What executeSafe() reports when its function fails or is not there. *)
Failure(c, s) == [context |-> c, message |-> What, severity |-> s]

Keys == {Key(e) : e \in Errors} \union {Key(Failure(c, Error)) : c \in Contexts}

VARIABLES
  now,        \* millis()
  filter,     \* the least severity reported (INFO when the filter is off)
  throttle,   \* throttle_map_: a context's last time and interval, or None
  window,     \* dedup_window_, None while deduplication is off
  seen,       \* dedup_map_
  stats,      \* the counters
  ring,       \* error_history_, history_index_ and history_count_
  callback,   \* an error callback is set
  policies,   \* policies_
  stack,      \* context_stack_
  queue,      \* an ErrorQueue; an entry that is not valid is None
  frames,     \* calls in progress, the innermost last
  scopes,     \* history: the pushes not popped yet, by a guard or by hand
  unpaired,   \* history: a push or pop by hand had no counterpart
  dropped,    \* history: a push found the stack full
  accepted,   \* history: the errors accepted since the last reset
  waiting,    \* history: the errors enqueued and not yet processed
  reentered,  \* history: entries were taken off while one was processed
  changes,    \* configuration calls made (for the bound)
  age         \* history: real time since a context or a key got through

config == <<filter, window, callback, changes>>
counted == <<stats, ring, accepted>>
contexts == <<stack, scopes, unpaired, dropped>>
queued == <<queue, waiting, reentered>>
vars == <<now, config, throttle, seen, counted, policies, contexts, queued, frames, age>>

Zero == [total |-> 0, filtered |-> 0, throttled |-> 0, duplicate |-> 0,
         severity |-> [s \in Severities |-> 0]]

Init ==
  /\ now = 0 /\ changes = 0 /\ filter = Info /\ window = None /\ callback = FALSE
  /\ throttle = [c \in Contexts |-> None]
  /\ seen = [k \in Keys |-> None]
  /\ stats = Zero
  /\ ring = [slot |-> [i \in 0 .. HistorySize - 1 |-> None], index |-> 0, count |-> 0]
  /\ policies = <<>> /\ stack = <<>> /\ frames = <<>> /\ scopes = <<>>
  /\ queue = [slot |-> [i \in 0 .. Capacity - 1 |-> None], head |-> 0, tail |-> 0, count |-> 0]
  /\ accepted = <<>> /\ waiting = <<>>
  /\ unpaired = FALSE /\ dropped = FALSE /\ reentered = FALSE
  /\ age = [context |-> [c \in Contexts |-> MaxAge], key |-> [k \in Keys |-> MaxAge]]

-----------------------------------------------------------------------------
(* Calls                                                                   *)

Top == frames[Len(frames)]

At(kinds) == frames # <<>> /\ Top.kind \in kinds

Replaced(f) == [frames EXCEPT ![Len(frames)] = f]

(* The errors reported since a reset or still to be, for the bound. *)
Reports == stats.total + stats.filtered + stats.throttled + stats.duplicate + queue.count

(* The sketch's code is running. *)
Sketch == frames # <<>> => Top.running

(* The scopes the running code was called in; its own guards are destroyed *)
(* when it returns.                                                        *)
Base == IF frames = <<>> THEN 0 ELSE Top.depth

Guards(depth) == {i \in DOMAIN scopes : i > depth /\ scopes[i].guard}

Returning(kinds) == At(kinds) /\ Guards(Base) = {}

(* A frame of a call made at a depth of scopes. *)
Frame(kind, e, at, running, depth) ==
  [kind |-> kind, error |-> e, at |-> at, running |-> running, depth |-> depth]

Configures == changes < MaxChanges /\ changes' = changes + 1

Room == Len(frames) < MaxFrames

-----------------------------------------------------------------------------
(* reportError()                                                           *)

Elapsed(since) == (now - since) % Wrap

(* Mutant: the deadline is computed and compared, and wraps. *)
IsThrottledDeadline(e) ==
  /\ throttle[e.context] # None
  /\ now < (throttle[e.context].last + throttle[e.context].interval) % Wrap

(* isThrottled(); a context it lets through starts a new interval (Through *)
(* below), whatever becomes of the error afterwards.                       *)
IsThrottled(e) ==
  throttle[e.context] # None /\ Elapsed(throttle[e.context].last) < throttle[e.context].interval

Through(e) ==
  [throttle EXCEPT ![e.context] = IF @ = None THEN None ELSE [@ EXCEPT !.last = now]]

Aged(e) == [age EXCEPT !.context[e.context] = IF throttle[e.context] = None THEN @ ELSE 0]

IsDuplicate(e) ==
  window # None /\ seen[Key(e)] # None /\ Elapsed(seen[Key(e)]) < window

(* Mutant: the history grows past its end before it starts again. *)
RecordedLate(e) ==
  [slot |-> [ring.slot EXCEPT ![ring.index] = [error |-> e, code |-> stats.total + 1]],
   index |-> IF ring.index + 1 < HistorySize THEN ring.index + 1 ELSE ring.index,
   count |-> IF ring.count < HistorySize THEN ring.count + 1 ELSE ring.count]

(* The error's place in the circular history. *)
Recorded(e) ==
  [slot |-> [ring.slot EXCEPT ![ring.index] = [error |-> e, code |-> stats.total + 1]],
   index |-> (ring.index + 1) % HistorySize,
   count |-> IF ring.count < HistorySize THEN ring.count + 1 ELSE ring.count]

(* The counters of an accepted error; the total becomes its error_code. *)
Counted(e) == [stats EXCEPT !.total = @ + 1, !.severity[e.severity] = @ + 1]

(* reportError() up to the callback, called over the frames below; a       *)
(* suppressed error returns at once.                                       *)
Report(e, below, depth) ==
  LET suppressed == Append(below, Frame("report", e, MaxPolicies, FALSE, depth))
  IN  \/ /\ e.severity < filter
         /\ stats' = [stats EXCEPT !.filtered = @ + 1]
         /\ frames' = suppressed
         /\ UNCHANGED <<throttle, seen, ring, accepted, age>>
      \/ /\ e.severity >= filter /\ IsThrottled(e)
         /\ stats' = [stats EXCEPT !.throttled = @ + 1]
         /\ frames' = suppressed
         /\ UNCHANGED <<throttle, seen, ring, accepted, age>>
      \/ /\ e.severity >= filter /\ ~IsThrottled(e) /\ IsDuplicate(e)
         /\ stats' = [stats EXCEPT !.duplicate = @ + 1]
         /\ throttle' = Through(e)
         /\ age' = Aged(e)
         /\ frames' = suppressed
         /\ UNCHANGED <<seen, ring, accepted>>
      \/ /\ e.severity >= filter /\ ~IsThrottled(e) /\ ~IsDuplicate(e)
         /\ stats' = Counted(e)
         /\ throttle' = Through(e)
         /\ seen' = IF window = None THEN seen ELSE [seen EXCEPT ![Key(e)] = now]
         /\ ring' = Recorded(e)
         /\ accepted' = Append(accepted, e)
         /\ age' = [Aged(e) EXCEPT !.key[Key(e)] = IF window = None THEN @ ELSE 0]
         /\ frames' = Append(below, Frame("report", e, 0, callback, depth))

(* The sketch reports, or one of its assertions fails. *)
ReportError(e) ==
  /\ Sketch /\ Room /\ Reports < MaxReports /\ Report(e, frames, Len(scopes))
  /\ UNCHANGED <<now, config, policies, contexts, queued>>

(* The next policy's count once its handle() has counted the error; all    *)
(* counts from the threshold on act alike.                                 *)
Handled(p) ==
  CASE p.kind = "retry"     -> [p EXCEPT !.count = IF @ + 1 < MaxRetries THEN @ + 1 ELSE 0]
    [] p.kind = "threshold" -> [p EXCEPT !.count = IF @ < Threshold THEN @ + 1 ELSE @]
    [] OTHER                -> p

(* A policy's handle() calls sketch code. *)
Calls(p, e) ==
  \/ p.kind = "threshold" /\ p.count >= Threshold
  \/ p.kind = "severity" /\ e.severity >= Warning

(* The policies when the running one returns: a threshold starts to count  *)
(* again when its action has returned.                                     *)
Settled ==
  IF Top.running /\ Top.at > 0 /\ policies[Top.at].kind = "threshold"
  THEN [policies EXCEPT ![Top.at].count = 0] ELSE policies

(* dispatchToPolicies(): the callback or a policy returns, and the next    *)
(* policy handles the error.                                               *)
DispatchToPolicies ==
  /\ Returning({"report"}) /\ Top.at < Len(policies)
  /\ LET p == Handled(policies[Top.at + 1])
     IN  /\ policies' = [Settled EXCEPT ![Top.at + 1] = p]
         /\ frames' = Replaced([Top EXCEPT !.at = @ + 1, !.running = Calls(p, Top.error)])
  /\ UNCHANGED <<now, config, throttle, seen, counted, contexts, queued, age>>

(* reportError() returns after the last policy. *)
Reported ==
  /\ Returning({"report"}) /\ Top.at >= Len(policies)
  /\ policies' = Settled
  /\ frames' = Front(frames)
  /\ UNCHANGED <<now, config, throttle, seen, counted, contexts, queued, age>>

(* registerPolicy(), of a fresh policy. *)
RegisterPolicy(k) ==
  /\ Sketch /\ Configures /\ Len(policies) < MaxPolicies
  /\ policies' = Append(policies, [kind |-> k, count |-> 0])
  /\ UNCHANGED <<now, filter, window, callback, throttle, seen, counted, contexts, queued, frames, age>>

-----------------------------------------------------------------------------
(* Configuration and statistics                                            *)

SetFilter(s) ==
  /\ Sketch /\ Configures /\ filter' = s
  /\ UNCHANGED <<now, window, callback, throttle, seen, counted, policies, contexts, queued, frames, age>>

(* setThrottle(): the context's last time becomes 0, not the present. *)
SetThrottle(c, i) ==
  /\ Sketch /\ Configures /\ throttle' = [throttle EXCEPT ![c] = [last |-> 0, interval |-> i]]
  /\ age' = [age EXCEPT !.context[c] = MaxAge]
  /\ UNCHANGED <<now, filter, window, callback, seen, counted, policies, contexts, queued, frames>>

(* enableDeduplication() and disableDeduplication(); the map stays. *)
SetDeduplication(w) ==
  /\ Sketch /\ Configures /\ window' = w
  /\ UNCHANGED <<now, filter, callback, throttle, seen, counted, policies, contexts, queued, frames, age>>

(* onError(), which never replaces a callback that is running. *)
OnError ==
  /\ frames = <<>> /\ Configures /\ callback' = TRUE
  /\ UNCHANGED <<now, filter, window, throttle, seen, counted, policies, contexts, queued, frames, age>>

(* Mutant: the history keeps its position over a reset. *)
ResetStatsKeepsCount ==
  /\ Sketch /\ stats' = Zero
  /\ ring' = [ring EXCEPT !.index = 0]
  /\ accepted' = <<>>
  /\ UNCHANGED <<now, config, throttle, seen, policies, contexts, queued, frames, age>>

(* resetStats(): the maps and the policies keep what they have. *)
ResetStats ==
  /\ Sketch /\ stats' = Zero
  /\ ring' = [ring EXCEPT !.index = 0, !.count = 0]
  /\ accepted' = <<>>
  /\ UNCHANGED <<now, config, throttle, seen, policies, contexts, queued, frames, age>>

(* printErrorHistory(): the errors it lists, the oldest first. *)
History ==
  LET start == IF ring.count < HistorySize THEN 0 ELSE ring.index
  IN  [i \in 1 .. ring.count |-> ring.slot[(start + i - 1) % HistorySize]]

-----------------------------------------------------------------------------
(* Contexts and safe execution                                             *)

(* push_back() on a full stack does nothing. *)
Pushed(c) == IF Len(stack) < StackMax THEN Append(stack, c) ELSE stack

(* Mutant: the outermost context is never popped. *)
PoppedButLast(s) == IF Len(s) > 1 THEN Front(s) ELSE s

(* popContext() *)
Popped(s) == IF s # <<>> THEN Front(s) ELSE s

(* A context is pushed, by a guard or by hand. *)
Push(c, guard) ==
  /\ Sketch /\ Len(scopes) < MaxScopes
  /\ stack' = Pushed(c)
  /\ scopes' = Append(scopes, [context |-> c, guard |-> guard])
  /\ dropped' = (dropped \/ Len(stack) >= StackMax)
  /\ UNCHANGED <<unpaired, now, config, throttle, seen, counted, policies, queued, frames, age>>

(* The histories start afresh when nothing is pushed and nothing is left.  *)
Afresh(wrong) ==
  LET empty == stack' = <<>> /\ scopes' = <<>>
  IN  unpaired' = (~empty /\ (unpaired \/ wrong)) /\ dropped' = (~empty /\ dropped)

(* pushContext() *)
PushContext(c) == Push(c, FALSE)

(* ERROR_CONTEXT: an ErrorContextGuard is constructed. *)
EnterScope(c) == Push(c, TRUE)

(* popContext(), of the code's own last push or of anything else. *)
PopContext ==
  /\ Sketch /\ stack' = Popped(stack)
  /\ LET own == Len(scopes) > Base /\ ~Last(scopes).guard
     IN  /\ scopes' = IF own THEN Front(scopes) ELSE scopes
         /\ Afresh(~own)
  /\ UNCHANGED <<now, config, throttle, seen, counted, policies, queued, frames, age>>

(* The last guard is destroyed, by the code that constructed it, and pops, *)
(* whatever has been pushed since.                                         *)
LeaveScope ==
  /\ Sketch /\ Guards(Base) # {}
  /\ LET g == Max(Guards(Base))
     IN  /\ stack' = Popped(stack)
         /\ scopes' = SubSeq(scopes, 1, g - 1)
         /\ Afresh(g < Len(scopes))
  /\ UNCHANGED <<now, config, throttle, seen, counted, policies, queued, frames, age>>

(* executeSafe() or, with a fallback, executeSafeWithFallback(). *)
ExecuteSafe(c, fallback) ==
  /\ Sketch /\ Room
  /\ frames' = Append(frames, Frame("safe", Failure(c, Error), IF fallback THEN 1 ELSE 0, TRUE, Len(scopes)))
  /\ UNCHANGED <<now, config, throttle, seen, counted, policies, contexts, queued, age>>

(* executeSafe() of a null function reports that and fails. *)
ExecuteNull(c, fallback) ==
  /\ Sketch /\ Room /\ Reports < MaxReports
  /\ LET f == Frame("failed", Failure(c, Error), IF fallback THEN 1 ELSE 0, FALSE, Len(scopes))
     IN  Report(Failure(c, Warning), Append(frames, f), Len(scopes))
  /\ UNCHANGED <<now, config, policies, contexts, queued>>

(* The function, or the fallback, returns without an exception. *)
Return ==
  /\ Returning({"safe", "fallback", "failed"})
  /\ Top.kind = "failed" => Top.at = 0
  /\ frames' = Front(frames)
  /\ UNCHANGED <<now, config, throttle, seen, counted, policies, contexts, queued, age>>

(* The report of a failure has returned and the fallback runs. *)
Fallback ==
  /\ Returning({"failed"}) /\ Top.at = 1
  /\ frames' = Replaced([Top EXCEPT !.kind = "fallback", !.running = TRUE])
  /\ UNCHANGED <<now, config, throttle, seen, counted, policies, contexts, queued, age>>

(* The stack when n guards have been destroyed. *)
Unwound(n) == [i \in 1 .. Max({0, Len(stack) - n}) |-> stack[i]]

Catching == {i \in DOMAIN frames : frames[i].kind \in {"safe", "fallback"}}

(* Sketch code throws.  The guards up to the innermost function or         *)
(* fallback that catches are destroyed and the calls above it abandoned,   *)
(* a processOne() without having taken its entry off the queue; then the   *)
(* failure is reported, and a failed fallback is the end of its call.      *)
Throw(s) ==
  /\ Sketch /\ Reports < MaxReports /\ Catching # {}
  /\ LET i == Max(Catching)
         f == frames[i]
         caught == [f EXCEPT !.kind = "failed", !.running = FALSE,
                                 !.at = IF f.kind = "safe" THEN @ ELSE 0]
         pops == Cardinality(Guards(f.depth))
     IN  /\ stack' = Unwound(pops)
         /\ scopes' = SubSeq(scopes, 1, f.depth)
         /\ Afresh(pops < Len(scopes) - f.depth)
         /\ s = Critical \/ f.kind = "safe"
         /\ Report(Failure(f.error.context, s), Append(SubSeq(frames, 1, i - 1), caught), f.depth)
  /\ UNCHANGED <<now, config, policies, queued>>

-----------------------------------------------------------------------------
(* ErrorQueue                                                              *)

(* Mutant: a full queue overwrites its oldest entry (which adds no report  *)
(* to those that are bounded).                                             *)
EnqueueOverwrites(e) ==
  /\ Sketch /\ (Reports < MaxReports \/ queue.count = Capacity)
  /\ queue' = [queue EXCEPT !.slot[queue.tail] = e,
                            !.tail = (@ + 1) % Capacity,
                            !.count = IF @ < Capacity THEN @ + 1 ELSE @]
  /\ waiting' = IF reentered \/ queue.count >= Capacity THEN waiting ELSE Append(waiting, e)
  /\ UNCHANGED <<now, config, throttle, seen, counted, policies, contexts, reentered, frames, age>>

(* enqueue(), also while an entry is being processed; a full queue drops   *)
(* the error.                                                              *)
Enqueue(e) ==
  /\ Sketch /\ Reports < MaxReports /\ queue.count < Capacity
  /\ queue' = [queue EXCEPT !.slot[queue.tail] = e, !.tail = (@ + 1) % Capacity, !.count = @ + 1]
  /\ waiting' = IF reentered THEN waiting ELSE Append(waiting, e)
  /\ UNCHANGED <<now, config, throttle, seen, counted, policies, contexts, reentered, frames, age>>

(* The calls of processOne() below the first n frames. *)
Processing(n) == \E i \in 1 .. n : frames[i].kind = "process"

(* processOne(), or processAll(): the number to process is fixed here. *)
Process(n) ==
  /\ Sketch /\ Len(frames) < MaxNested
  /\ frames' = Append(frames, [kind |-> "process", depth |-> Len(scopes), running |-> FALSE,
                               entry |-> None, left |-> IF n = 0 THEN queue.count ELSE n])
  /\ UNCHANGED <<now, config, throttle, seen, counted, policies, contexts, queued, age>>

(* processOne() reports the entry at the head, which stays there meanwhile. *)
ProcessHead ==
  /\ At({"process"}) /\ Top.entry = None /\ Top.left > 0 /\ queue.count > 0
  /\ LET below == Replaced([Top EXCEPT !.entry = queue.head])
     IN  IF queue.slot[queue.head] # None THEN Report(queue.slot[queue.head], below, Len(scopes))
         ELSE frames' = below /\ UNCHANGED <<throttle, seen, counted, age>>
  /\ UNCHANGED <<now, config, policies, contexts, queued>>

(* The report has returned: that entry is no longer valid, and the one now *)
(* at the head leaves the queue, which is another one, or none, when the   *)
(* callback has processed or cleared the queue itself.                     *)
ProcessPop ==
  /\ At({"process"}) /\ Top.entry # None
  /\ queue' = [queue EXCEPT !.slot[Top.entry] = None, !.head = (@ + 1) % Capacity,
                            !.count = (@ - 1) % SizeWrap]
  /\ reentered' = (reentered \/ Processing(Len(frames) - 1))
  /\ waiting' = IF reentered' THEN <<>> ELSE Tail(waiting)
  /\ frames' = Replaced([Top EXCEPT !.entry = None, !.left = @ - 1])
  /\ UNCHANGED <<now, config, throttle, seen, counted, policies, contexts, age>>

ProcessEnd ==
  /\ At({"process"}) /\ Top.entry = None /\ (Top.left = 0 \/ queue.count = 0)
  /\ frames' = Front(frames)
  /\ UNCHANGED <<now, config, throttle, seen, counted, policies, contexts, queued, age>>

(* clear(): the entries keep their valid flags. *)
Clear ==
  /\ Sketch
  /\ queue' = [queue EXCEPT !.head = 0, !.tail = 0, !.count = 0]
  /\ waiting' = <<>> /\ reentered' = Processing(Len(frames))
  /\ UNCHANGED <<now, config, throttle, seen, counted, policies, contexts, frames, age>>

-----------------------------------------------------------------------------
(* A millisecond passes. *)
Tick ==
  /\ now' = (now + 1) % Wrap
  /\ age' = [context |-> [c \in Contexts |-> Min({age.context[c] + 1, MaxAge})],
             key     |-> [k \in Keys |-> Min({age.key[k] + 1, MaxAge})]]
  /\ UNCHANGED <<config, throttle, seen, counted, policies, contexts, queued, frames>>

Next ==
  \/ \E e \in Errors : ReportError(e) \/ Enqueue(e)
  \/ DispatchToPolicies \/ Reported
  \/ \E k \in Kinds : RegisterPolicy(k)
  \/ \E s \in Filters : SetFilter(s)
  \/ \E c \in Contexts, i \in Intervals : SetThrottle(c, i)
  \/ \E w \in Intervals \union {None} : SetDeduplication(w)
  \/ OnError \/ ResetStats
  \/ \E c \in Places : EnterScope(c) \/ PushContext(c)
  \/ \E c \in Contexts, b \in BOOLEAN : ExecuteSafe(c, b) \/ ExecuteNull(c, b)
  \/ LeaveScope \/ PopContext \/ Return \/ Fallback
  \/ \E s \in {Error, Critical} : Throw(s)
  \/ \E n \in {0, 1} : Process(n)
  \/ ProcessHead \/ ProcessPop \/ ProcessEnd \/ Clear \/ Tick

Spec == Init /\ [][Next]_vars

-----------------------------------------------------------------------------
(* Properties                                                              *)

(* printErrorHistory() lists the last errors accepted since the last       *)
(* resetStats(), in their order and with their error codes, through        *)
(* re-entrant reports, resets from callbacks and the turn of the ring; and *)
(* total and per-severity counts agree with them.                          *)
HistoryIsTail ==
  LET first == Len(accepted) - ring.count
  IN  /\ ring.count = Min({Len(accepted), HistorySize})
      /\ \A i \in DOMAIN History :
           History[i] = [error |-> accepted[first + i], code |-> first + i]
      /\ \A s \in Severities :
           stats.severity[s] = Cardinality({k \in DOMAIN accepted : accepted[k].severity = s})

(* What the queue holds from its head on, valid, is what was enqueued and  *)
(* has not been processed, in that order: also when errors are enqueued    *)
(* from the callback of the one being processed, and when an exception     *)
(* abandons it.  A callback that takes entries off the queue itself breaks *)
(* it (processOne() then counts down for an entry that is gone) until the  *)
(* next clear() from outside.                                              *)
QueueFaithful ==
  ~reentered =>
    /\ queue.count = Len(waiting)
    /\ \A i \in DOMAIN waiting :
         queue.slot[(queue.head + i - 1) % Capacity] = waiting[i]

(* However scopes are left, by return, by popContext() or by an exception, *)
(* the context stack holds the contexts pushed and not yet popped, in      *)
(* their order; once a push has found it full it is at least never deeper  *)
(* than they are, and empty when all are left.  Silent while a push or pop *)
(* by hand lacks its counterpart.                                          *)
ContextUnwinds ==
  ~unpaired =>
    /\ Len(stack) <= Len(scopes)
    /\ ~dropped => stack = [i \in DOMAIN scopes |-> scopes[i].context]

(* Two errors of a throttled context that get through are an interval      *)
(* apart, and two of one key accepted under deduplication a window, also   *)
(* when millis() starts again from 0 in between.                           *)
RateLimited ==
  [][Len(accepted') > Len(accepted) =>
       LET e == accepted'[Len(accepted')]
       IN  /\ throttle[e.context] # None =>
                age.context[e.context] >= Min({throttle[e.context].interval, MaxAge})
           /\ window # None => age.key[Key(e)] >= Min({window, MaxAge})]_vars
=============================================================================
