--------------------------- MODULE MCWiFiStation ---------------------------
(* Small instances of WiFiStation. *)
EXTENDS WiFiStation

AllJoinReasons == Reasons \ {"leave"}
NoExpiry == {"noap", "timeout", "authfail"}
=============================================================================
