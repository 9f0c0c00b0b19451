--------------------------- MODULE MCWiFiServices ---------------------------
(* A small instance of WiFiServices: 192.168.4.16/28 and around it.        *)
EXTENDS WiFiServices

SomeAddrs == {1040, 1041, 1045, 1052, 1055, 1056}
SomeMasks == {<<255, 0>>, <<255, 240>>, <<255, 248>>, <<254, 0>>}
TwoBases == <<"WIFI_EVENT", "IP_EVENT">>
TheirBase == [ev \in {"STA_START", "GOT_IP"} |-> IF ev = "GOT_IP" THEN 2 ELSE 1]
=============================================================================
