---------------------------- MODULE MCTcpClient ----------------------------
(* Small instances of TcpClient. *)
EXTENDS TcpClient, TLC

CONSTANTS c1, c2, c3, s1, s2, p1, p2

TwoClients == {c1, c2}
OneClient == {c1}
TwoSocks == {s1, s2}
OneSock == {s1}
TwoPeers == {p1, p2}
OnePeer == {p1}
OneTimeout == {0}
TwoTimeouts == {0, 99}

Symmetry == Permutations(Clients) \cup Permutations(Socks) \cup Permutations(Peers)
=============================================================================
