----------------------------- MODULE UdpSocket -----------------------------
(***************************************************************************)
(* WiFiUDP: a datagram socket, a transmit buffer of one datagram that      *)
(* beginPacket(), write() and endPacket() fill and send, and a receive     *)
(* buffer that parsePacket() fills from a staging buffer shared by all     *)
(* WiFiUDP objects.                                                        *)
(*                                                                         *)
(* Nothing in the code asks for an order: every call may follow every      *)
(* other one, on each object from its own task.  The fields asked, parsed  *)
(* and ended record the calls since beginPacket(); the code has no such    *)
(* members.                                                                *)
(***************************************************************************)
EXTENDS Naturals, FiniteSets, Lwip

CONSTANTS Udps,      \* WiFiUDP objects
          Hosts,     \* remote endpoints
          Group,     \* the multicast group (a multicast_ip that is not 0)
          NoHost,    \* remote_port = 0; in the staging buffer: nobody's byte
          MTU        \* size of tx_buffer and of stagingBuf, 1460

ASSUME MTUAssumption == MTU \in Nat \ {0}
ASSUME HostAssumption == Group \notin Hosts /\ NoHost \notin Hosts \cup {Group}

VARIABLES
  udp,      \* members of each object
  staging,  \* on whose socket each byte of the static stagingBuf came in
  parsing,  \* bytes in stagingBuf that a parsePacket() has yet to copy, 0: none
  crossed,  \* objects whose bytes another recvfrom() overwrote before the copy
  joins     \* IGMP joins minus drops made on the stack

udpVars == <<udp, staging, parsing, crossed, joins>>

Dests == Hosts \cup {Group}

Udp == [fd     : Descs \cup {NoDesc},       \* udp_server
        bound  : BOOLEAN,                   \* server_port # 0
        mcast  : BOOLEAN,                   \* multicast_ip # 0
        remote : Dests \cup {NoHost},       \* remote_ip, remote_port
        len    : 0..MTU,                    \* tx_buffer_len
        sent   : 0..MTU,                    \* bytes at its start sent before
        rx     : SUBSET Udps,               \* whose bytes rx_buffer holds
        asked  : Dests \cup {NoHost},       \* destination of the last beginPacket()
        parsed : BOOLEAN,                   \* a datagram received since then?
        ended  : BOOLEAN]                   \* an endPacket() since then?

FreshUdp == [fd |-> NoDesc, bound |-> FALSE, mcast |-> FALSE, remote |-> NoHost,
             len |-> 0, sent |-> 0, rx |-> {},
             asked |-> NoHost, parsed |-> FALSE, ended |-> FALSE]

UdpInit ==
  /\ udp = [u \in Udps |-> FreshUdp]
  /\ staging = [k \in 1..MTU |-> NoHost]
  /\ parsing = [u \in Udps |-> 0]
  /\ crossed = {} /\ joins = 0

(* The task of u is not inside parsePacket(). *)
Idle(u) == parsing[u] = 0

(* Mutant: stop() leaves multicast_ip set. *)
StoppedUndropped(r) == [r EXCEPT !.len = 0, !.sent = 0, !.rx = {}, !.fd = NoDesc]

(* Members after stop(): the ports and the remote end stay. *)
StoppedUdp(r) == [r EXCEPT !.len = 0, !.sent = 0, !.rx = {}, !.fd = NoDesc, !.mcast = FALSE]

Dropped(u) == IF udp[u].mcast THEN joins - 1 ELSE joins

StopUdp(u) ==
  /\ Idle(u)
  /\ udp' = [udp EXCEPT ![u] = StoppedUdp(@)]
  /\ desc' = Closed(udp[u].fd)
  /\ joins' = Dropped(u)
  /\ UNCHANGED <<staging, parsing, crossed>>

(* begin() and beginMulticast(): stop() first, then socket(); a failure of *)
(* setsockopt(), bind() or the join stops again.  The descriptor just      *)
(* closed may be the one socket() returns.                                 *)
BeginUdp(u) ==
  /\ Idle(u)
  /\ \/ /\ udp' = [udp EXCEPT ![u] = [StoppedUdp(@) EXCEPT !.bound = TRUE]]
        /\ desc' = Closed(udp[u].fd)
        /\ joins' = Dropped(u)
     \/ \E s \in FreeDescs \cup ({udp[u].fd} \ {NoDesc}), g \in BOOLEAN :
          /\ udp' = [udp EXCEPT ![u] = [StoppedUdp(@) EXCEPT !.bound = TRUE,
                                                             !.fd = s, !.mcast = g]]
          /\ desc' = [Closed(udp[u].fd) EXCEPT ![s] = "udp"]
          /\ joins' = IF g THEN Dropped(u) + 1 ELSE Dropped(u)
  /\ UNCHANGED <<staging, parsing, crossed>>

(* Mutant: a packet begun on an open socket keeps what the buffer holds. *)
BegunUnemptied(r, d) ==
  [r EXCEPT !.remote = d, !.asked = d, !.parsed = FALSE, !.ended = FALSE,
            !.len = IF r.fd = NoDesc THEN 0 ELSE @, !.sent = IF r.fd = NoDesc THEN 0 ELSE @]

(* Members after beginPacket() to d, but for the socket it may open. *)
Begun(r, d) ==
  [r EXCEPT !.remote = d, !.len = 0, !.sent = 0,
            !.asked = d, !.parsed = FALSE, !.ended = FALSE]

(* beginPacket(ip, port), beginPacket() to the remote end there is, and    *)
(* beginMulticastPacket(): the buffer is emptied, and an unbound socket    *)
(* opened when there is none; that may fail.                               *)
BeginPacket(u, d) ==
  /\ Idle(u)
  /\ d = Group => (udp[u].bound /\ udp[u].mcast) \/ udp[u].remote = Group
  /\ \/ /\ udp' = [udp EXCEPT ![u] = Begun(@, d)]
        /\ UNCHANGED desc
     \/ /\ udp[u].fd = NoDesc
        /\ \E s \in FreeDescs :
             /\ udp' = [udp EXCEPT ![u] = [Begun(@, d) EXCEPT !.fd = s]]
             /\ desc' = [desc EXCEPT ![s] = "udp"]
  /\ UNCHANGED <<staging, parsing, crossed, joins>>

(* endPacket(): sendto() of the buffer to the remote end, whatever was     *)
(* done with either; it may fail.  Nothing is reset.                       *)
EndPacket(u) ==
  /\ Idle(u)
  /\ \E n \in {udp[u].sent} \cup (IF udp[u].fd = NoDesc THEN {} ELSE {udp[u].len}) :
       udp' = [udp EXCEPT ![u].sent = n, ![u].ended = TRUE]
  /\ UNCHANGED <<desc, staging, parsing, crossed, joins>>

(* write() of n <= MTU bytes: a full buffer is sent (a failure ignored) and *)
(* emptied on the way.                                                      *)
WriteUdp(u, n) ==
  /\ Idle(u)
  /\ \/ /\ udp[u].len + n <= MTU
        /\ udp' = [udp EXCEPT ![u].len = @ + n]
     \/ /\ udp[u].len + n > MTU
        /\ udp' = [udp EXCEPT ![u].len = @ + n - MTU, ![u].sent = 0]
  /\ UNCHANGED <<desc, staging, parsing, crossed, joins>>

(* parsePacket() up to recvfrom(), which puts the n bytes of a datagram    *)
(* from h over the first ones of the staging buffer; h becomes the remote  *)
(* end.  An empty datagram ends the call here.                             *)
ParseRecv(u, h, n) ==
  /\ Idle(u) /\ udp[u].rx = {} /\ udp[u].fd # NoDesc
  /\ udp' = [udp EXCEPT ![u].remote = h, ![u].parsed = TRUE]
  /\ staging' = [k \in 1..MTU |-> IF k <= n THEN u ELSE staging[k]]
  /\ parsing' = [parsing EXCEPT ![u] = n]
  /\ crossed' = (crossed \cup {v \in Udps : n > 0 /\ parsing[v] > 0}) \ {u}
  /\ UNCHANGED <<desc, joins>>

(* Mutant: the copy takes the whole staging buffer. *)
ParseCopyAll(u) ==
  /\ ~Idle(u)
  /\ parsing' = [parsing EXCEPT ![u] = 0]
  /\ udp' = [udp EXCEPT ![u].rx = {staging[k] : k \in 1..MTU} \ {NoHost}]
  /\ UNCHANGED <<desc, staging, crossed, joins>>

(* The rest of parsePacket(): the n bytes are copied to rx_buffer, whatever *)
(* they are by now, unless it cannot be allocated.                          *)
ParseCopy(u) ==
  /\ ~Idle(u)
  /\ parsing' = [parsing EXCEPT ![u] = 0]
  /\ \E b \in {{}, {staging[k] : k \in 1..parsing[u]}} : udp' = [udp EXCEPT ![u].rx = b]
  /\ UNCHANGED <<desc, staging, crossed, joins>>

(* read() of the last byte, flush(). *)
Drain(u) ==
  /\ Idle(u) /\ udp[u].rx # {}
  /\ udp' = [udp EXCEPT ![u].rx = {}]
  /\ UNCHANGED <<desc, staging, parsing, crossed, joins>>

UdpNext ==
  \E u \in Udps :
    \/ StopUdp(u) \/ BeginUdp(u) \/ EndPacket(u) \/ ParseCopy(u) \/ Drain(u)
    \/ \E d \in Dests : BeginPacket(u, d)
    \/ \E n \in 1..MTU : WriteUdp(u, n)
    \/ \E h \in Hosts, n \in 0..MTU : ParseRecv(u, h, n)

UdpTypeOK ==
  /\ udp \in [Udps -> Udp]
  /\ staging \in [1..MTU -> Udps \cup {NoHost}]
  /\ parsing \in [Udps -> 0..MTU]
  /\ crossed \subseteq Udps
  /\ joins \in Nat
=============================================================================
