--------------------------- MODULE MCWiFiSockets ---------------------------
(* Small instances of WiFiSockets. *)
EXTENDS WiFiSockets, TLC

CONSTANTS d1, d2, d3, u1, u2, h1

ThreeDescs == {d1, d2, d3}
TwoUdps == {u1, u2}
OneHost == {h1}

Builds(u) == udp[u].len > 0 \/ udp[u].ended \/ udp[u].asked # NoHost

Receives(u) == udp[u].parsed \/ udp[u].rx # {} \/ parsing[u] > 0

(* The server and the WiFiUDP objects share nothing but descriptors, and   *)
(* two WiFiUDP objects besides those only the staging buffer: connections  *)
(* come in while no datagram has been built or received, and one of the    *)
(* objects builds while both receive.                                      *)
Apart ==
  /\ arrived > 0 => \A u \in Udps : ~Builds(u) /\ ~Receives(u)
  /\ \A u, v \in Udps : Builds(u) /\ Builds(v) => u = v

Symmetry == Permutations(Descs) \cup Permutations(Udps)
=============================================================================
