--------------------------- MODULE MCErrorHandler ---------------------------
(* A small instance: two errors that differ in severity. *)
EXTENDS ErrorHandler

MCErrors == {[context |-> "net", message |-> "lost", severity |-> Error],
             [context |-> "net", message |-> "lost", severity |-> Critical]}

(* Parts of the state that share nothing. *)
Limited == window # None \/ \E c \in Contexts : throttle[c] # None

Stacked == stack # <<>> \/ scopes # <<>>

Queued ==
  \/ \E i \in DOMAIN queue.slot : queue.slot[i] # None
  \/ queue.head > 0 \/ queue.count > 0 \/ Processing(Len(frames))

Behind == \E i \in DOMAIN ring.slot : i >= ring.count /\ ring.slot[i] # None

(* TLC explores them apart: time passes at the start and where an interval *)
(* is set; the context stack is used with no queue, limit or policy and    *)
(* with one report; the queue with no policy; neither of them over what a  *)
(* reset leaves in the history; and a third error is accepted with neither *)
(* a limit nor the queue.                                                  *)
Apart ==
  /\ now # 0 => Limited \/ (changes = 0 /\ Reports = 0 /\ frames = <<>> /\ ~Behind)
  /\ Stacked => ~Queued /\ ~Limited /\ ~Behind /\ policies = <<>> /\ filter = Info /\ Len(accepted) <= 1
  /\ Queued => ~Behind /\ policies = <<>>
  /\ Len(accepted) > 2 => ~Limited /\ ~Queued
=============================================================================
