---------------------------- MODULE WiFiSockets ----------------------------
(* A WiFiServer, the clients it hands out and WiFiUDP objects, competing   *)
(* for lwIP's descriptors.                                                 *)
EXTENDS TcpServer, UdpSocket

vars == <<desc, serverVars, udpVars>>

Init ==
  /\ desc = [s \in Descs |-> "free"]
  /\ ServerInit
  /\ UdpInit

Next ==
  \/ ServerNext /\ UNCHANGED udpVars
  \/ UdpNext /\ UNCHANGED serverVars

Spec == Init /\ [][Next]_vars

-----------------------------------------------------------------------------
(* Every member of WiFiServer and WiFiUDP, tx_buffer_len against the 1460  *)
(* bytes of tx_buffer included, and the descriptor table have their types. *)
TypeOK == desc \in [Descs -> Kinds] /\ ServerTypeOK /\ UdpTypeOK

(* No two holders share a descriptor and none holds one that was closed or *)
(* recycled for another kind of socket: WiFiServer's listening and staged  *)
(* sockets, the clients of available() and the WiFiUDP sockets.            *)
DescriptorsExclusive ==
  /\ sockfd # NoDesc => desc[sockfd] \in {"tcp", "listen"}
  /\ accepted # NoDesc => desc[accepted] = "conn" /\ accepted \notin clients
  /\ \A s \in clients : desc[s] = "conn"
  /\ \A u \in Udps : udp[u].fd # NoDesc => desc[udp[u].fd] = "udp"
  /\ \A u, v \in Udps : u # v /\ udp[u].fd # NoDesc => udp[u].fd # udp[v].fd

(* available() hands connections out in the order they completed and never *)
(* one twice, whether hasClient() staged them or not.                      *)
HandedInOrder ==
  [][\A s \in Descs : s \in clients' \ clients => connOf'[s] > handed]_vars

(* The stack is a member of the multicast group exactly once for every     *)
(* WiFiUDP object that says so, and only objects with a socket do.         *)
MembershipsMatch ==
  /\ joins = Cardinality({u \in Udps : udp[u].mcast})
  /\ \A u \in Udps : udp[u].mcast => udp[u].fd # NoDesc

(* A datagram that endPacket(), or write() on a full buffer, sends at any  *)
(* moment goes where the last beginPacket() was told unless parsePacket()  *)
(* took a datagram since, repeats no byte sent before unless endPacket()   *)
(* was called since, and tx_buffer is never overrun.  Calls come in any    *)
(* order, and sends in the middle of a write() included.                   *)
DatagramAsBuilt ==
  \A u \in Udps :
    /\ udp[u].remote # udp[u].asked => udp[u].parsed
    /\ udp[u].sent > 0 => udp[u].ended
    /\ udp[u].sent <= udp[u].len /\ udp[u].len <= MTU

(* rx_buffer holds bytes that came in on another object's socket only if   *)
(* that object's recvfrom() into the shared staging buffer fell between    *)
(* this one's recvfrom() and its copy.                                     *)
ReceivedOnOwnSocket == \A u \in Udps : u \notin crossed => udp[u].rx \subseteq {u}
=============================================================================
