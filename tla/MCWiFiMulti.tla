---------------------------- MODULE MCWiFiMulti ----------------------------
(* A small instance: two access points of one name, the weaker one open. *)
EXTENDS WiFiMulti

TwoNetworks == {[ssid |-> "home", secure |-> TRUE, rssi |-> 2, chan |-> 1, bssid |-> 1],
                [ssid |-> "home", secure |-> FALSE, rssi |-> 1, chan |-> 6, bssid |-> 6]}

SomeEntries == [ssid : {"home"}, pass : BOOLEAN]
=============================================================================
