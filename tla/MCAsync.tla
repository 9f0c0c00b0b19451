------------------------------ MODULE MCAsync ------------------------------
(* A small instance of Async. *)
EXTENDS Async

TheShapes == {[op |-> "then", kids |-> <<"promise", "error">>],
              [op |-> "one", kids |-> <<"promise">>],
              [op |-> "all", kids |-> <<"ok", "wait">>],
              [op |-> "race", kids |-> <<"promise", "wait">>],
              [op |-> "timeout", kids |-> <<"promise">>]}
TheDelays == {1}
=============================================================================
