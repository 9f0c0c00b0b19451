---------------------------- MODULE MCTcpStream ----------------------------
(* Small instances of TcpStream. *)
EXTENDS TcpStream

CONSTANTS c1, c2, s1, p1

TwoClients == {c1, c2}
OneSock == {s1}
OnePeer == {p1}
OneTimeout == {0}
UpToThree == 1..3
=============================================================================
