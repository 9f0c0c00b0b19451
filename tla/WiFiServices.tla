---------------------------- MODULE WiFiServices ----------------------------
(* What the WiFi core offers a sketch besides the connection: addresses    *)
(* (WiFiNetif), event callbacks and name lookups (WiFiEvents).  The access *)
(* point's interface, the station's and the event task share no state, so  *)
(* a behaviour exercises one of them.                                      *)
EXTENDS WiFiNetif, WiFiEvents

VARIABLE used   \* the part that the sketch uses

vars == <<netifVars, eventVars, used>>

Init == NetifInit /\ EventsInit /\ used \in {"ap", "sta", "events"}

Next ==
  \/ used = "ap" /\ ApNext /\ UNCHANGED <<eventVars, used>>
  \/ used = "sta" /\ StaNext /\ UNCHANGED <<eventVars, used>>
  \/ used = "events" /\ EventsNext /\ UNCHANGED <<netifVars, used>>

Spec == Init /\ [][Next]_vars /\ EventsFairness
=============================================================================
