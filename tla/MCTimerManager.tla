--------------------------- MODULE MCTimerManager ---------------------------
(* Small instances of TimerManager. *)
EXTENDS TimerManager

SomeDelays == {1}
SomeIntervals == {0}
SomeRepeats == {1}
SomeLimits == {1}
=============================================================================
