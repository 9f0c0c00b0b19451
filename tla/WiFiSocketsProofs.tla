------------------------- MODULE WiFiSocketsProofs -------------------------
(***************************************************************************)
(* Proofs about WiFiSockets: WiFiServer, the clients it hands out and the  *)
(* WiFiUDP objects, for any number of descriptors, objects, connections    *)
(* and any size of the transmit buffer.                                    *)
(***************************************************************************)
EXTENDS WiFiSockets, FiniteSetTheorems, SequenceTheorems, TLAPS

-----------------------------------------------------------------------------
(* The inductive invariants                                                *)

(* TypeOK but for the count of joins, which JoinedOK bounds; the bytes a   *)
(* parsePacket() has still to copy came in on some socket.                 *)
Types ==
  /\ desc \in [Descs -> Kinds] /\ ServerTypeOK
  /\ udp \in [Udps -> Udp]
  /\ staging \in [1..MTU -> Udps \cup {NoHost}]
  /\ parsing \in [Udps -> 0..MTU]
  /\ crossed \subseteq Udps
  /\ \A u \in Udps : \A k \in 1..parsing[u] : staging[k] \in Udps

(* The connection numbers that WiFiServer still has to hand out: the one   *)
(* staged, then those queued, all later than the last one handed out.      *)
OrderOK ==
  /\ handed <= arrived
  /\ accepted # NoDesc => handed < connOf[accepted] /\ connOf[accepted] <= arrived
  /\ \A k \in 1..Len(backlog) :
       /\ handed < backlog[k] /\ backlog[k] <= arrived
       /\ accepted # NoDesc => connOf[accepted] < backlog[k]
       /\ \A l \in 1..Len(backlog) : k < l => backlog[k] < backlog[l]

Members == {u \in Udps : udp[u].mcast}

JoinedOK == IsFiniteSet(Members) /\ MembershipsMatch

(* What the members of an object say of the datagram it would send.        *)
Faithful(r) ==
  /\ r.remote # r.asked => r.parsed
  /\ r.sent > 0 => r.ended
  /\ r.sent <= r.len

BuiltOK == \A u \in Udps : Faithful(udp[u])

(* The bytes an object received and those it has still to copy are its     *)
(* own, unless another recvfrom() came between.                            *)
StagedOK ==
  \A u \in Udps \ crossed :
    /\ udp[u].rx \subseteq {u}
    /\ \A k \in 1..parsing[u] : staging[k] = u

-----------------------------------------------------------------------------
(* What a step of a WiFiUDP object does                                    *)

(* Object u gets the members r; its descriptor is kept, closed or opened. *)
Rebinds(u, r) ==
  \/ r.fd = udp[u].fd /\ desc' = desc
  \/ r.fd = NoDesc /\ desc' = Closed(udp[u].fd)
  \/ /\ r.fd \in FreeDescs \/ (r.fd = udp[u].fd /\ r.fd # NoDesc)
     /\ r.fd \in Descs
     /\ desc' = [d \in Descs |-> IF d = r.fd THEN "udp" ELSE IF d = udp[u].fd THEN "free" ELSE desc[d]]

(* It joins or leaves the multicast group. *)
Rejoins(u, r) ==
  /\ r.mcast => r.fd # NoDesc
  /\ joins' = IF r.mcast /\ ~udp[u].mcast THEN joins + 1
              ELSE IF udp[u].mcast /\ ~r.mcast THEN joins - 1 ELSE joins

(* Something is received, copied or drained. *)
Rereads(u, r) ==
  \/ /\ r.rx \in {udp[u].rx, {}}
     /\ staging' = staging /\ parsing' = parsing /\ crossed' = crossed
  \/ /\ r.rx = {}
     /\ \E n \in 0..MTU :
          /\ staging' = [k \in 1..MTU |-> IF k <= n THEN u ELSE staging[k]]
          /\ parsing' = [parsing EXCEPT ![u] = n]
          /\ crossed' = (crossed \cup {v \in Udps : n > 0 /\ parsing[v] > 0}) \ {u}
  \/ /\ r.rx \in {{}, {staging[k] : k \in 1..parsing[u]}}
     /\ staging' = staging /\ parsing' = [parsing EXCEPT ![u] = 0] /\ crossed' = crossed

Steps(u, r) ==
  /\ r \in Udp /\ udp' = [udp EXCEPT ![u] = r]
  /\ Faithful(udp[u]) => Faithful(r)
  /\ Rebinds(u, r) /\ Rejoins(u, r) /\ Rereads(u, r)

LEMMA StoppedParts ==
  ASSUME NEW r \in Udp
  PROVE  /\ StoppedUdp(r) \in Udp
         /\ StoppedUdp(r).fd = NoDesc /\ StoppedUdp(r).mcast = FALSE /\ StoppedUdp(r).rx = {}
         /\ Faithful(r) => Faithful(StoppedUdp(r))
<1>1. 0 \in 0..MTU
  BY MTUAssumption
<1>2. PICK q : q = StoppedUdp(r)
  OBVIOUS
<1>3. q \in Udp
  BY <1>1, <1>2 DEF StoppedUdp, Udp
<1>4. /\ q.fd = NoDesc /\ q.mcast = FALSE /\ q.rx = {} /\ q.len = 0 /\ q.sent = 0
      /\ q.remote = r.remote /\ q.asked = r.asked /\ q.parsed = r.parsed
  BY <1>2 DEF StoppedUdp, Udp
<1>5. Faithful(r) => Faithful(q)
  BY <1>4 DEF Faithful
<1> QED BY <1>2, <1>3, <1>4, <1>5

LEMMA BegunParts ==
  ASSUME NEW r \in Udp, NEW d \in Dests
  PROVE  /\ Begun(r, d) \in Udp /\ Faithful(Begun(r, d))
         /\ Begun(r, d).fd = r.fd /\ Begun(r, d).mcast = r.mcast /\ Begun(r, d).rx = r.rx
<1>1. 0 \in 0..MTU
  BY MTUAssumption
<1>2. PICK q : q = Begun(r, d)
  OBVIOUS
<1>3. q \in Udp
  BY <1>1, <1>2 DEF Begun, Udp
<1>4. /\ q.fd = r.fd /\ q.mcast = r.mcast /\ q.rx = r.rx
      /\ q.len = 0 /\ q.sent = 0 /\ q.remote = d /\ q.asked = d
  BY <1>2 DEF Begun, Udp
<1>5. Faithful(q)
  BY <1>4 DEF Faithful
<1> QED BY <1>2, <1>3, <1>4, <1>5

LEMMA JoinsCount ==
  ASSUME JoinedOK
  PROVE  joins \in Nat
BY FS_CardinalityType DEF JoinedOK, MembershipsMatch, Members

LEMMA StopSteps ==
  ASSUME Types, JoinedOK, NEW u \in Udps, StopUdp(u)
  PROVE  \E r : Steps(u, r)
<1>1. PICK r : r = StoppedUdp(udp[u])
  OBVIOUS
<1>2. r \in Udp /\ r.fd = NoDesc /\ r.mcast = FALSE /\ r.rx = {} /\ (Faithful(udp[u]) => Faithful(r))
  BY <1>1, StoppedParts DEF Types
<1>3. udp' = [udp EXCEPT ![u] = r]
  BY <1>1 DEF StopUdp
<1>4. Rebinds(u, r)
  BY <1>2 DEF StopUdp, Rebinds
<1>5. Rejoins(u, r)
  BY <1>2 DEF StopUdp, Rejoins, Dropped
<1>6. Rereads(u, r)
  BY <1>2 DEF StopUdp, Rereads
<1> QED BY <1>2, <1>3, <1>4, <1>5, <1>6 DEF Steps

LEMMA BeginSteps ==
  ASSUME Types, JoinedOK, NEW u \in Udps, BeginUdp(u)
  PROVE  \E r : Steps(u, r)
<1>1. PICK p : p = StoppedUdp(udp[u])
  OBVIOUS
<1>2. p \in Udp /\ p.fd = NoDesc /\ p.mcast = FALSE /\ p.rx = {} /\ (Faithful(udp[u]) => Faithful(p))
  BY <1>1, StoppedParts DEF Types
<1>3. joins \in Nat
  BY JoinsCount
<1>4. CASE /\ udp' = [udp EXCEPT ![u] = [p EXCEPT !.bound = TRUE]]
           /\ desc' = Closed(udp[u].fd) /\ joins' = Dropped(u)
  <2>1. PICK r : r = [p EXCEPT !.bound = TRUE]
    OBVIOUS
  <2>2. r \in Udp /\ r.fd = NoDesc /\ r.mcast = FALSE /\ r.rx = {} /\ (Faithful(udp[u]) => Faithful(r))
    BY <1>2, <2>1 DEF Udp, Faithful
  <2>3. Rebinds(u, r)
    BY <1>4, <2>2 DEF Rebinds
  <2>4. Rejoins(u, r)
    BY <1>4, <2>2 DEF Rejoins, Dropped
  <2>5. Rereads(u, r)
    BY <2>2 DEF BeginUdp, Rereads
  <2> QED BY <1>4, <2>1, <2>2, <2>3, <2>4, <2>5 DEF Steps
<1>5. ASSUME NEW s \in FreeDescs \cup ({udp[u].fd} \ {NoDesc}), NEW g \in BOOLEAN,
             udp' = [udp EXCEPT ![u] = [p EXCEPT !.bound = TRUE, !.fd = s, !.mcast = g]],
             desc' = [Closed(udp[u].fd) EXCEPT ![s] = "udp"],
             joins' = IF g THEN Dropped(u) + 1 ELSE Dropped(u)
      PROVE  \E r : Steps(u, r)
  <2>1. PICK r : r = [p EXCEPT !.bound = TRUE, !.fd = s, !.mcast = g]
    OBVIOUS
  <2>2. s \in Descs /\ s # NoDesc
    BY NoDescAssumption DEF Types, FreeDescs, Udp
  <2>3. r \in Udp /\ r.fd = s /\ r.mcast = g /\ r.rx = {} /\ (Faithful(udp[u]) => Faithful(r))
    BY <1>2, <2>1, <2>2 DEF Udp, Faithful
  <2>4. Rebinds(u, r)
    BY <1>5, <2>2, <2>3 DEF Rebinds, Closed
  <2>5. Rejoins(u, r)
    BY <1>3, <1>5, <2>2, <2>3 DEF Rejoins, Dropped
  <2>6. Rereads(u, r)
    BY <2>3 DEF BeginUdp, Rereads
  <2> QED BY <1>5, <2>1, <2>3, <2>4, <2>5, <2>6 DEF Steps
<1> QED BY <1>1, <1>4, <1>5 DEF BeginUdp

LEMMA BeginPacketSteps ==
  ASSUME Types, JoinedOK, NEW u \in Udps, NEW d \in Dests, BeginPacket(u, d)
  PROVE  \E r : Steps(u, r)
<1>1. /\ udp[u] \in Udp /\ joins \in Nat /\ joins' = joins
      /\ (udp[u].mcast => udp[u].fd # NoDesc)
  BY JoinsCount DEF Types, JoinedOK, MembershipsMatch, BeginPacket
<1>2. PICK p : p = Begun(udp[u], d)
  OBVIOUS
<1>3. /\ p \in Udp /\ p.fd = udp[u].fd /\ p.mcast = udp[u].mcast /\ p.rx = udp[u].rx
      /\ Faithful(p)
  BY <1>1, <1>2, BegunParts
<1>4. CASE udp' = [udp EXCEPT ![u] = p] /\ desc' = desc
  <2>1. Rebinds(u, p) /\ Rejoins(u, p)
    BY <1>1, <1>3, <1>4 DEF Rebinds, Rejoins
  <2>2. Rereads(u, p)
    BY <1>3 DEF BeginPacket, Rereads
  <2> QED BY <1>3, <1>4, <2>1, <2>2 DEF Steps
<1>5. ASSUME NEW s \in FreeDescs, desc' = [desc EXCEPT ![s] = "udp"], udp[u].fd = NoDesc,
             udp' = [udp EXCEPT ![u] = [p EXCEPT !.fd = s]]
      PROVE  \E r : Steps(u, r)
  <2>1. PICK r : r = [p EXCEPT !.fd = s]
    OBVIOUS
  <2>2. s \in Descs /\ s # NoDesc
    BY NoDescAssumption DEF FreeDescs
  <2>3. /\ r \in Udp /\ r.fd = s /\ r.mcast = udp[u].mcast /\ r.rx = udp[u].rx
        /\ Faithful(r)
    BY <1>3, <2>1, <2>2 DEF Udp, Faithful
  <2>4. Rebinds(u, r)
    BY <1>5, <2>2, <2>3, NoDescAssumption DEF Rebinds, Types
  <2>5. Rejoins(u, r)
    BY <1>1, <2>2, <2>3 DEF Rejoins
  <2>6. Rereads(u, r)
    BY <2>3 DEF BeginPacket, Rereads
  <2> QED BY <1>5, <2>1, <2>3, <2>4, <2>5, <2>6 DEF Steps
<1> QED BY <1>2, <1>4, <1>5 DEF BeginPacket

(* endPacket(), write() and a datagram received change what would be sent, *)
(* neither the socket nor the membership.                                  *)
LEMMA SendSteps ==
  ASSUME Types, JoinedOK, NEW u \in Udps, NEW r \in Udp, udp' = [udp EXCEPT ![u] = r],
         r.fd = udp[u].fd, r.mcast = udp[u].mcast, Faithful(udp[u]) => Faithful(r),
         desc' = desc, joins' = joins, Rereads(u, r)
  PROVE  Steps(u, r)
<1>1. udp[u] \in Udp /\ joins \in Nat /\ (udp[u].mcast => udp[u].fd # NoDesc)
  BY JoinsCount DEF Types, JoinedOK, MembershipsMatch
<1>2. Rebinds(u, r) /\ Rejoins(u, r)
  BY <1>1 DEF Rebinds, Rejoins
<1> QED BY <1>2 DEF Steps

LEMMA EndSteps ==
  ASSUME Types, JoinedOK, NEW u \in Udps, EndPacket(u)
  PROVE  \E r : Steps(u, r)
<1>1. udp[u] \in Udp /\ MTU \in Nat
  BY MTUAssumption DEF Types
<1>2. PICK n \in {udp[u].sent, udp[u].len} : udp' = [udp EXCEPT ![u].sent = n, ![u].ended = TRUE]
  BY DEF EndPacket
<1>3. PICK r : r = [udp[u] EXCEPT !.sent = n, !.ended = TRUE]
  OBVIOUS
<1>4. udp' = [udp EXCEPT ![u] = r]
  BY <1>2, <1>3 DEF Types
<1>5. n \in 0..MTU /\ (udp[u].sent <= udp[u].len => n <= udp[u].len)
  BY <1>1 DEF Udp
<1>6. /\ r \in Udp /\ r.fd = udp[u].fd /\ r.mcast = udp[u].mcast /\ r.rx = udp[u].rx
      /\ r.remote = udp[u].remote /\ r.asked = udp[u].asked /\ r.parsed = udp[u].parsed
      /\ r.sent = n /\ r.ended = TRUE /\ r.len = udp[u].len
  BY <1>1, <1>3, <1>5 DEF Udp
<1>7. Faithful(udp[u]) => Faithful(r)
  BY <1>5, <1>6 DEF Faithful
<1>8. Rereads(u, r)
  BY <1>6 DEF EndPacket, Rereads
<1> QED BY <1>4, <1>6, <1>7, <1>8, SendSteps DEF EndPacket

LEMMA WriteSteps ==
  ASSUME Types, JoinedOK, NEW u \in Udps, NEW n \in 1..MTU, WriteUdp(u, n)
  PROVE  \E r : Steps(u, r)
<1>1. /\ udp[u] \in Udp /\ MTU \in Nat /\ n \in Nat /\ n <= MTU
      /\ udp[u].len \in Nat /\ udp[u].len <= MTU /\ udp[u].sent \in 0..MTU
  BY MTUAssumption DEF Types, Udp
<1>2. PICK k \in 0..MTU, x \in 0..MTU :
        /\ udp' = [udp EXCEPT ![u].len = k, ![u].sent = x]
        /\ x = 0 \/ (x = udp[u].sent /\ k >= udp[u].len)
  <2>1. CASE udp[u].len + n <= MTU
    <3>1. PICK k \in 0..MTU : k = udp[u].len + n
      BY <1>1, <2>1
    <3>2. udp' = [udp EXCEPT ![u].len = k, ![u].sent = udp[u].sent]
      BY <1>1, <2>1, <3>1 DEF WriteUdp, Types, Udp
    <3>3. k >= udp[u].len
      BY <1>1, <3>1
    <3> udp[u].sent \in 0..MTU
      BY <1>1
    <3> WITNESS k \in 0..MTU, udp[u].sent \in 0..MTU
    <3> QED BY <3>2, <3>3
  <2>2. CASE udp[u].len + n > MTU
    <3>1. PICK k \in 0..MTU : k = udp[u].len + n - MTU
      BY <1>1, <2>2
    <3>2. udp' = [udp EXCEPT ![u].len = k, ![u].sent = 0]
      BY <1>1, <2>2, <3>1 DEF WriteUdp
    <3> 0 \in 0..MTU
      BY <1>1
    <3> WITNESS k \in 0..MTU, 0 \in 0..MTU
    <3> QED BY <3>2
  <2>3. udp[u].len + n <= MTU \/ udp[u].len + n > MTU
    BY <1>1
  <2> QED BY <2>1, <2>2, <2>3
<1>3. PICK r : r = [udp[u] EXCEPT !.len = k, !.sent = x]
  OBVIOUS
<1>4. udp' = [udp EXCEPT ![u] = r]
  BY <1>2, <1>3 DEF Types
<1>5. /\ r \in Udp /\ r.fd = udp[u].fd /\ r.mcast = udp[u].mcast /\ r.rx = udp[u].rx
      /\ r.remote = udp[u].remote /\ r.asked = udp[u].asked /\ r.parsed = udp[u].parsed
      /\ r.sent = x /\ r.ended = udp[u].ended /\ r.len = k
  BY <1>1, <1>3 DEF Udp
<1>6. Faithful(udp[u]) => Faithful(r)
  BY <1>1, <1>2, <1>5 DEF Faithful
<1>7. Rereads(u, r)
  BY <1>5 DEF WriteUdp, Rereads
<1> QED BY <1>4, <1>5, <1>6, <1>7, SendSteps DEF WriteUdp

LEMMA ParseRecvSteps ==
  ASSUME Types, JoinedOK, NEW u \in Udps, NEW h \in Hosts, NEW n \in 0..MTU, ParseRecv(u, h, n)
  PROVE  \E r : Steps(u, r)
<1>1. PICK r : r = [udp[u] EXCEPT !.remote = h, !.parsed = TRUE]
  OBVIOUS
<1>2. udp' = [udp EXCEPT ![u] = r] /\ udp[u] \in Udp
  BY <1>1 DEF ParseRecv, Types
<1>3. /\ r \in Udp /\ r.fd = udp[u].fd /\ r.mcast = udp[u].mcast /\ r.rx = udp[u].rx
      /\ r.parsed = TRUE /\ r.sent = udp[u].sent /\ r.ended = udp[u].ended /\ r.len = udp[u].len
  BY <1>1, <1>2 DEF Udp, Dests
<1>4. Faithful(udp[u]) => Faithful(r)
  BY <1>3 DEF Faithful
<1>5. Rereads(u, r)
  BY <1>3 DEF ParseRecv, Rereads
<1> QED BY <1>2, <1>3, <1>4, <1>5, SendSteps DEF ParseRecv

LEMMA ReadSteps ==
  ASSUME Types, JoinedOK, NEW u \in Udps, ParseCopy(u) \/ Drain(u)
  PROVE  \E r : Steps(u, r)
<1>1. udp[u] \in Udp /\ parsing[u] \in 0..MTU /\ MTU \in Nat
  BY MTUAssumption DEF Types
<1>3. PICK b :
        /\ udp' = [udp EXCEPT ![u].rx = b]
        /\ \/ /\ b \in {{}, {staging[k] : k \in 1..parsing[u]}}
              /\ parsing' = [parsing EXCEPT ![u] = 0]
           \/ b = {} /\ parsing' = parsing
        /\ staging' = staging /\ crossed' = crossed /\ desc' = desc /\ joins' = joins
  BY DEF ParseCopy, Drain
<1>4. b \subseteq Udps
  BY <1>1, <1>3 DEF Types
<1>5. PICK r : r = [udp[u] EXCEPT !.rx = b]
  OBVIOUS
<1>6. udp' = [udp EXCEPT ![u] = r]
  BY <1>3, <1>5 DEF Types
<1>7. /\ r \in Udp /\ r.fd = udp[u].fd /\ r.mcast = udp[u].mcast /\ r.rx = b
      /\ r.remote = udp[u].remote /\ r.asked = udp[u].asked /\ r.parsed = udp[u].parsed
      /\ r.sent = udp[u].sent /\ r.ended = udp[u].ended /\ r.len = udp[u].len
  BY <1>1, <1>4, <1>5 DEF Udp
<1>8. Faithful(udp[u]) => Faithful(r)
  BY <1>7 DEF Faithful
<1>9. Rereads(u, r)
  BY <1>3, <1>7 DEF Rereads
<1> QED BY <1>3, <1>6, <1>7, <1>8, <1>9, SendSteps

LEMMA UdpSteps ==
  ASSUME Types, JoinedOK, UdpNext
  PROVE  \E u \in Udps : \E r : Steps(u, r)
BY StopSteps, BeginSteps, BeginPacketSteps, EndSteps, WriteSteps, ParseRecvSteps, ReadSteps
   DEF UdpNext

-----------------------------------------------------------------------------
(* Types                                                                   *)

LEMMA UdpTypes ==
  ASSUME Types, NEW u \in Udps, NEW r, Steps(u, r), UNCHANGED serverVars
  PROVE  Types'
<1>1. udp' \in [Udps -> Udp] /\ udp[u] \in Udp
  BY DEF Types, Steps
<1>2. desc' \in [Descs -> Kinds]
  BY DEF Types, Steps, Rebinds, Closed, Kinds
<1>3. /\ staging' \in [1..MTU -> Udps \cup {NoHost}] /\ parsing' \in [Udps -> 0..MTU]
      /\ crossed' \subseteq Udps
      /\ \A v \in Udps : \A k \in 1..parsing'[v] : staging'[k] \in Udps
  <2>1. MTU \in Nat /\ 0 \in 0..MTU
    BY MTUAssumption
  <2>2. \A v \in Udps : parsing[v] \in 0..MTU
    BY DEF Types
  <2>3. CASE staging' = staging /\ parsing' = parsing /\ crossed' = crossed
    BY <2>3 DEF Types
  <2>4. CASE staging' = staging /\ parsing' = [parsing EXCEPT ![u] = 0] /\ crossed' = crossed
    BY <2>1, <2>4 DEF Types
  <2>5. ASSUME NEW n \in 0..MTU,
               staging' = [k \in 1..MTU |-> IF k <= n THEN u ELSE staging[k]],
               parsing' = [parsing EXCEPT ![u] = n],
               crossed' = (crossed \cup {v \in Udps : n > 0 /\ parsing[v] > 0}) \ {u}
        PROVE  <1>3
    <3>1. \A k \in 1..MTU : staging'[k] = IF k <= n THEN u ELSE staging[k]
      BY <2>5
    <3>2. \A v \in Udps : parsing'[v] = IF v = u THEN n ELSE parsing[v]
      BY <2>5 DEF Types
    <3>3. \A v \in Udps : \A k \in 1..parsing'[v] : staging'[k] \in Udps
      BY <2>1, <2>2, <3>1, <3>2 DEF Types
    <3>4. staging' \in [1..MTU -> Udps \cup {NoHost}]
      BY <2>5 DEF Types
    <3>5. parsing' \in [Udps -> 0..MTU] /\ crossed' \subseteq Udps
      BY <2>5 DEF Types
    <3> QED BY <3>3, <3>4, <3>5
  <2> QED BY <2>3, <2>4, <2>5 DEF Steps, Rereads
<1>5. ServerTypeOK'
  BY DEF Types, ServerTypeOK, serverVars
<1> QED BY <1>1, <1>2, <1>3, <1>5 DEF Types

LEMMA ServerTypes ==
  ASSUME Types, ServerNext, UNCHANGED udpVars
  PROVE  Types'
<1> USE DEF Types, ServerTypeOK
<1>1. SUFFICES ServerTypeOK' /\ desc' \in [Descs -> Kinds]
  BY DEF udpVars
<1>2. CASE Begin
  BY <1>2 DEF Begin, FreeDescs, Kinds
<1>3. ASSUME backlog # <<>>, backlog' = Tail(backlog)
      PROVE  backlog' \in Seq(1..MaxConns) /\ Head(backlog) \in 1..MaxConns
  BY <1>3, HeadTailProperties
<1>4. ASSUME NEW s \in FreeDescs, AcceptAs(s)
      PROVE  /\ s \in Descs /\ desc' \in [Descs -> Kinds] /\ backlog' \in Seq(1..MaxConns)
             /\ connOf' \in [Descs -> 0..MaxConns] /\ Head(backlog) \in 0..MaxConns
  BY <1>3, <1>4, BacklogAssumption DEF AcceptAs, Pending, FreeDescs, Kinds
<1>5. AcceptDropped => backlog' \in Seq(1..MaxConns)
  BY <1>3 DEF AcceptDropped, Pending
<1>6. CASE HasClient
  BY <1>4, <1>5, <1>6 DEF HasClient, AcceptDropped
<1>7. CASE Available
  BY <1>4, <1>5, <1>7 DEF Available, AcceptDropped
<1>8. <<>> \in Seq(1..MaxConns)
  OBVIOUS
<1>9. CASE End \/ Recreate
  BY <1>8, <1>9 DEF End, Recreate, Closed, Kinds
<1>10. CASE \E s \in Descs : ClientCloses(s)
  BY <1>10 DEF ClientCloses, Closed, Kinds
<1>11. CASE Arrive
  <2>1. arrived + 1 \in 1..MaxConns
    BY <1>11, BacklogAssumption DEF Arrive
  <2>2. backlog' \in Seq(1..MaxConns)
    BY <1>11, <2>1, AppendProperties DEF Arrive
  <2> QED BY <1>11, <2>1, <2>2 DEF Arrive
<1> QED BY <1>2, <1>6, <1>7, <1>9, <1>10, <1>11 DEF ServerNext

-----------------------------------------------------------------------------
(* The descriptors                                                         *)

LEMMA UdpExclusive ==
  ASSUME Types, DescriptorsExclusive, NEW u \in Udps, NEW r, Steps(u, r), UNCHANGED serverVars
  PROVE  DescriptorsExclusive'
<1>1. /\ udp[u] \in Udp /\ r \in Udp /\ udp \in [Udps -> Udp]
      /\ desc \in [Descs -> Kinds] /\ sockfd \in Descs \cup {NoDesc} /\ accepted \in Descs \cup {NoDesc}
      /\ clients \subseteq Descs
      /\ \A v \in Udps : udp[v].fd \in Descs \cup {NoDesc}
  BY DEF Types, ServerTypeOK, Steps, Udp
<1>2. \A v \in Udps : udp'[v] = IF v = u THEN r ELSE udp[v]
  BY <1>1 DEF Steps
<1>3. /\ \A d \in Descs : desc[d] \in {"tcp", "listen", "conn"} => desc'[d] = desc[d]
      /\ \A v \in Udps : v # u /\ udp[v].fd # NoDesc => desc'[udp[v].fd] = "udp" /\ udp[v].fd # r.fd
      /\ r.fd # NoDesc => desc'[r.fd] = "udp"
  <2>1. \A v \in Udps : udp[v].fd # NoDesc => udp[v].fd \in Descs /\ desc[udp[v].fd] = "udp"
    BY <1>1 DEF DescriptorsExclusive
  <2>2. \A v \in Udps : v # u /\ udp[v].fd # NoDesc => udp[v].fd # udp[u].fd
    BY DEF DescriptorsExclusive
  <2>3. CASE r.fd = udp[u].fd /\ desc' = desc
    BY <2>1, <2>2, <2>3
  <2>4. CASE r.fd = NoDesc /\ desc' = Closed(udp[u].fd)
    BY <1>1, <2>1, <2>2, <2>4, NoDescAssumption DEF Closed
  <2>5. CASE /\ r.fd \in FreeDescs \/ (r.fd = udp[u].fd /\ r.fd # NoDesc)
             /\ r.fd \in Descs
             /\ desc' = [d \in Descs |-> IF d = r.fd THEN "udp" ELSE IF d = udp[u].fd THEN "free" ELSE desc[d]]
    BY <1>1, <2>1, <2>2, <2>5, NoDescAssumption DEF FreeDescs
  <2> QED BY <2>3, <2>4, <2>5 DEF Steps, Rebinds
<1>4. sockfd' = sockfd /\ accepted' = accepted /\ clients' = clients
  BY DEF serverVars
<1>5. \A v \in Udps : udp'[v].fd # NoDesc => desc'[udp'[v].fd] = "udp"
  BY <1>2, <1>3
<1>6. \A v, w \in Udps : v # w /\ udp'[v].fd # NoDesc => udp'[v].fd # udp'[w].fd
  BY <1>2, <1>3 DEF DescriptorsExclusive
<1>7. \A s \in clients : desc'[s] = "conn"
  BY <1>1, <1>3 DEF DescriptorsExclusive
<1>8. /\ sockfd # NoDesc => desc'[sockfd] \in {"tcp", "listen"}
      /\ accepted # NoDesc => desc'[accepted] = "conn" /\ accepted \notin clients
  BY <1>1, <1>3 DEF DescriptorsExclusive
<1> QED BY <1>4, <1>5, <1>6, <1>7, <1>8 DEF DescriptorsExclusive

LEMMA ServerExclusive ==
  ASSUME Types, DescriptorsExclusive, ServerNext, UNCHANGED udpVars
  PROVE  DescriptorsExclusive'
<1>1. /\ desc \in [Descs -> Kinds] /\ sockfd \in Descs \cup {NoDesc} /\ accepted \in Descs \cup {NoDesc}
      /\ clients \subseteq Descs
      /\ \A v \in Udps : udp[v].fd \in Descs \cup {NoDesc}
  BY DEF Types, ServerTypeOK, Udp
<1>2. udp' = udp
  BY DEF udpVars
<1> USE <1>1, <1>2, NoDescAssumption DEF DescriptorsExclusive
<1>3. CASE Begin
  BY <1>3 DEF Begin, FreeDescs
<1>4. CASE HasClient
  BY <1>4 DEF HasClient, AcceptDropped, AcceptAs, FreeDescs
<1>5. CASE Available
  BY <1>5 DEF Available, AcceptDropped, AcceptAs, FreeDescs
<1>6. CASE End \/ Recreate
  BY <1>6 DEF End, Recreate, Closed
<1>7. CASE \E s \in Descs : ClientCloses(s)
  BY <1>7 DEF ClientCloses, Closed
<1>8. CASE Arrive
  BY <1>8 DEF Arrive
<1> QED BY <1>3, <1>4, <1>5, <1>6, <1>7, <1>8 DEF ServerNext

-----------------------------------------------------------------------------
(* The order of the connections                                            *)

LEMMA Orders ==
  ASSUME Types, OrderOK, ServerNext
  PROVE  OrderOK' /\ \A s \in clients' \ clients : connOf'[s] > handed
<1>1. /\ accepted \in Descs \cup {NoDesc} /\ arrived \in Nat /\ handed \in Nat
      /\ backlog \in Seq(Nat) /\ connOf \in [Descs -> Nat]
  <2>1. backlog \in Seq(1..MaxConns) /\ 1..MaxConns \subseteq Nat
    BY BacklogAssumption DEF Types, ServerTypeOK
  <2>2. backlog \in Seq(Nat)
    BY <2>1, SeqMonotonic
  <2> QED BY <2>2, BacklogAssumption DEF Types, ServerTypeOK
<1>2. Len(backlog) \in Nat /\ \A k \in 1..Len(backlog) : backlog[k] \in Nat
  BY <1>1, LenProperties, ElementOfSeq
<1>3. ASSUME backlog # <<>>
      PROVE  /\ Tail(backlog) \in Seq(Nat) /\ Len(Tail(backlog)) = Len(backlog) - 1
             /\ Head(backlog) = backlog[1] /\ 1 \in 1..Len(backlog)
             /\ \A k \in 1..Len(Tail(backlog)) : Tail(backlog)[k] = backlog[k + 1] /\ k + 1 \in 1..Len(backlog)
  BY <1>1, <1>2, <1>3, HeadTailProperties
<1>4. CASE Begin
  BY <1>1, <1>4 DEF Begin, OrderOK
<1>5. ASSUME backlog # <<>>, backlog' = Tail(backlog), handed' = handed, arrived' = arrived,
             accepted = NoDesc, accepted' = NoDesc
      PROVE  OrderOK'
  BY <1>1, <1>2, <1>3, <1>5 DEF OrderOK
<1>6. ASSUME NEW s \in FreeDescs, AcceptAs(s), accepted = NoDesc, arrived' = arrived
      PROVE  /\ connOf'[s] = Head(backlog) /\ handed < Head(backlog)
             /\ handed' = handed /\ accepted' = s => OrderOK'
             /\ handed' = Head(backlog) /\ accepted' = NoDesc => OrderOK'
  <2>1. backlog # <<>> /\ backlog' = Tail(backlog) /\ s \in Descs
    BY <1>6 DEF AcceptAs, Pending, FreeDescs
  <2>2. connOf'[s] = Head(backlog)
    BY <1>1, <1>6, <2>1 DEF AcceptAs
  <2>3. /\ handed < Head(backlog) /\ Head(backlog) <= arrived /\ Head(backlog) \in Nat
        /\ \A k \in 1..Len(backlog') :
             /\ backlog'[k] \in Nat /\ Head(backlog) < backlog'[k] /\ backlog'[k] <= arrived
             /\ handed < backlog'[k]
             /\ \A l \in 1..Len(backlog') : k < l => backlog'[k] < backlog'[l]
    BY <1>1, <1>2, <1>3, <2>1 DEF OrderOK
  <2>4. handed' = handed /\ accepted' = s => OrderOK'
    BY <1>1, <1>6, <2>2, <2>3 DEF OrderOK
  <2>5. handed' = Head(backlog) /\ accepted' = NoDesc => OrderOK'
    BY <1>1, <1>6, <2>2, <2>3 DEF OrderOK
  <2> QED BY <2>2, <2>3, <2>4, <2>5
<1>7. CASE HasClient
  <2>1. CASE AcceptDropped /\ UNCHANGED accepted
    BY <1>5, <1>7, <2>1 DEF HasClient, AcceptDropped, Pending
  <2>2. ASSUME NEW s \in FreeDescs, AcceptAs(s), accepted' = s
        PROVE  OrderOK'
    BY <1>6, <1>7, <2>2 DEF HasClient
  <2> QED BY <1>7, <2>1, <2>2 DEF HasClient
<1>8. CASE Available
  <2>1. CASE accepted # NoDesc
    <3>1. /\ handed' = connOf[accepted] /\ accepted' = NoDesc /\ connOf' = connOf /\ backlog' = backlog
          /\ arrived' = arrived /\ clients' = clients \cup {accepted}
      BY <1>8, <2>1 DEF Available
    <3> QED BY <1>1, <2>1, <3>1 DEF OrderOK
  <2>2. CASE accepted = NoDesc /\ AcceptDropped /\ UNCHANGED <<clients, handed>>
    BY <1>5, <1>8, <2>2 DEF Available, AcceptDropped, Pending
  <2>3. ASSUME NEW s \in FreeDescs, AcceptAs(s), accepted = NoDesc, clients' = clients \cup {s},
               handed' = Head(backlog)
        PROVE  OrderOK' /\ \A c \in clients' \ clients : connOf'[c] > handed
    <3>1. accepted' = NoDesc /\ arrived' = arrived
      BY <1>8, <2>3 DEF Available
    <3>2. connOf'[s] = Head(backlog) /\ handed < Head(backlog) /\ OrderOK'
      BY <1>6, <2>3, <3>1
    <3>3. Head(backlog) \in Nat
      BY <1>2, <1>3, <2>3 DEF AcceptAs, Pending
    <3> QED BY <1>1, <2>3, <3>2, <3>3
  <2> QED BY <1>8, <2>1, <2>2, <2>3 DEF Available
<1>9. CASE End \/ Recreate
  BY <1>1, <1>9, EmptySeq DEF End, Recreate, OrderOK
<1>10. CASE \E s \in Descs : ClientCloses(s)
  BY <1>1, <1>10 DEF ClientCloses, OrderOK
<1>11. CASE Arrive
  <2>1. arrived + 1 \in Nat /\ arrived' = arrived + 1 /\ backlog' = Append(backlog, arrived + 1)
    BY <1>1, <1>11 DEF Arrive
  <2>2. /\ Len(backlog') = Len(backlog) + 1
        /\ \A k \in 1..Len(backlog') : \/ k \in 1..Len(backlog) /\ backlog'[k] = backlog[k]
                                       \/ k = Len(backlog) + 1 /\ backlog'[k] = arrived + 1
    BY <1>1, <1>2, <2>1, AppendProperties
  <2>3. handed' = handed /\ accepted' = accepted /\ connOf' = connOf /\ clients' = clients
    BY <1>11 DEF Arrive
  <2> QED BY <1>1, <1>2, <2>1, <2>2, <2>3 DEF OrderOK
<1> QED BY <1>4, <1>7, <1>8, <1>9, <1>10, <1>11 DEF ServerNext, Begin, HasClient, End, Recreate, ClientCloses, Arrive

-----------------------------------------------------------------------------
(* The multicast group                                                     *)

LEMMA Joins ==
  ASSUME Types, JoinedOK, NEW u \in Udps, NEW r, Steps(u, r)
  PROVE  JoinedOK'
<1>1. udp[u] \in Udp /\ r \in Udp /\ udp \in [Udps -> Udp] /\ Rejoins(u, r)
  BY DEF Types, Steps
<1>2. \A v \in Udps : udp'[v] = IF v = u THEN r ELSE udp[v]
  BY <1>1 DEF Steps
<1>3. r.mcast \in BOOLEAN /\ udp[u].mcast \in BOOLEAN
  BY <1>1 DEF Udp
<1>4. IsFiniteSet(Members) /\ joins = Cardinality(Members) /\ Cardinality(Members) \in Nat
  BY FS_CardinalityType DEF JoinedOK, MembershipsMatch, Members
<1>5. IsFiniteSet(Members') /\ joins' = Cardinality(Members')
  <2>1. CASE r.mcast /\ ~udp[u].mcast
    <3>1. Members' = Members \cup {u} /\ u \notin Members
      BY <1>2, <1>3, <2>1 DEF Members
    <3> QED BY <1>1, <1>4, <2>1, <3>1, FS_AddElement DEF Rejoins
  <2>2. CASE udp[u].mcast /\ ~r.mcast
    <3>1. Members' = Members \ {u} /\ u \in Members
      BY <1>2, <1>3, <2>2 DEF Members
    <3> QED BY <1>1, <1>4, <2>2, <3>1, FS_RemoveElement DEF Rejoins
  <2>3. CASE r.mcast <=> udp[u].mcast
    <3>1. Members' = Members
      BY <1>2, <1>3, <2>3 DEF Members
    <3> QED BY <1>1, <1>3, <1>4, <2>3, <3>1 DEF Rejoins
  <2> QED BY <1>3, <2>1, <2>2, <2>3
<1>6. \A v \in Udps : udp'[v].mcast => udp'[v].fd # NoDesc
  BY <1>1, <1>2 DEF JoinedOK, MembershipsMatch, Rejoins
<1> QED BY <1>5, <1>6 DEF JoinedOK, MembershipsMatch, Members

-----------------------------------------------------------------------------
(* The datagram that is built and the one that is received                 *)

LEMMA Builds ==
  ASSUME Types, BuiltOK, NEW u \in Udps, NEW r, Steps(u, r)
  PROVE  BuiltOK'
<1>1. \A v \in Udps : udp'[v] = IF v = u THEN r ELSE udp[v]
  BY DEF Types, Steps
<1>2. \A v \in Udps : Faithful(udp'[v])
  BY <1>1 DEF BuiltOK, Steps
<1> QED BY <1>2 DEF BuiltOK, Faithful

LEMMA Receives ==
  ASSUME Types, StagedOK, NEW u \in Udps, NEW r, Steps(u, r)
  PROVE  StagedOK'
<1>1. \A v \in Udps : udp'[v] = IF v = u THEN r ELSE udp[v]
  BY DEF Types, Steps
<1>2. SUFFICES ASSUME NEW v \in Udps, v \notin crossed'
               PROVE  /\ udp'[v].rx \subseteq {v}
                      /\ \A k \in 1..parsing'[v] : staging'[k] = v
  BY DEF StagedOK
<1>3. MTU \in Nat /\ parsing[v] \in 0..MTU
  BY MTUAssumption DEF Types
<1>4. CASE /\ r.rx \in {udp[u].rx, {}}
           /\ staging' = staging /\ parsing' = parsing /\ crossed' = crossed
  BY <1>1, <1>2, <1>4 DEF StagedOK
<1>5. CASE /\ r.rx \in {{}, {staging[k] : k \in 1..parsing[u]}}
           /\ staging' = staging /\ parsing' = [parsing EXCEPT ![u] = 0] /\ crossed' = crossed
  <2>1. v \notin crossed
    BY <1>2, <1>5
  <2>2. CASE v = u
    BY <1>1, <1>5, <2>1, <2>2 DEF StagedOK, Types
  <2>3. CASE v # u
    BY <1>1, <1>5, <2>1, <2>3 DEF StagedOK, Types
  <2> QED BY <2>2, <2>3
<1>6. ASSUME r.rx = {}, NEW n \in 0..MTU,
             staging' = [k \in 1..MTU |-> IF k <= n THEN u ELSE staging[k]],
             parsing' = [parsing EXCEPT ![u] = n],
             crossed' = (crossed \cup {w \in Udps : n > 0 /\ parsing[w] > 0}) \ {u}
      PROVE  /\ udp'[v].rx \subseteq {v}
             /\ \A k \in 1..parsing'[v] : staging'[k] = v
  <2>1. CASE v = u
    <3>1. parsing'[v] = n /\ udp'[v].rx = {}
      BY <1>1, <1>6, <2>1 DEF Types
    <3>2. \A k \in 1..n : staging'[k] = u
      BY <1>3, <1>6
    <3> QED BY <2>1, <3>1, <3>2
  <2>2. CASE v # u
    <3>1. v \notin crossed /\ (n = 0 \/ parsing[v] = 0)
      BY <1>2, <1>3, <1>6, <2>2
    <3>2. parsing'[v] = parsing[v] /\ udp'[v].rx = udp[v].rx
      BY <1>1, <1>6, <2>2 DEF Types
    <3>3. \A k \in 1..parsing[v] : staging'[k] = staging[k]
      BY <1>3, <1>6, <3>1
    <3> QED BY <3>1, <3>2, <3>3 DEF StagedOK
  <2> QED BY <2>1, <2>2
<1> QED BY <1>4, <1>5, <1>6 DEF Steps, Rereads

-----------------------------------------------------------------------------
(* The invariant of the composition                                        *)

IInv == Types /\ DescriptorsExclusive /\ OrderOK /\ JoinedOK /\ BuiltOK /\ StagedOK

LEMMA InitOK ==
  ASSUME Init
  PROVE  IInv
<1>1. FreshUdp \in Udp
  BY MTUAssumption DEF FreshUdp, Udp
<1>2. udp = [u \in Udps |-> FreshUdp] /\ udp \in [Udps -> Udp]
  BY <1>1 DEF Init, UdpInit
<1>3. Types
  <2>1. desc \in [Descs -> Kinds]
    BY DEF Init, Kinds
  <2>2. 0 \in 0..MaxConns /\ <<>> \in Seq(1..MaxConns)
    BY BacklogAssumption
  <2>3. ServerTypeOK
    BY <2>2 DEF Init, ServerInit, ServerTypeOK
  <2>4. /\ staging \in [1..MTU -> Udps \cup {NoHost}] /\ parsing \in [Udps -> 0..MTU]
        /\ crossed = {} /\ \A u \in Udps : \A k \in 1..parsing[u] : staging[k] \in Udps
    BY MTUAssumption DEF Init, UdpInit
  <2> QED BY <1>2, <2>1, <2>3, <2>4 DEF Init, UdpInit, Types
<1>4. DescriptorsExclusive
  BY <1>2 DEF Init, ServerInit, DescriptorsExclusive, FreshUdp
<1>5. OrderOK
  BY EmptySeq DEF Init, ServerInit, OrderOK
<1>6. JoinedOK
  <2>1. {u \in Udps : udp[u].mcast} = {}
    BY <1>2 DEF FreshUdp
  <2> QED BY <1>2, <2>1, FS_EmptySet DEF Init, UdpInit, JoinedOK, MembershipsMatch, Members, FreshUdp
<1>7. BuiltOK
  BY <1>2 DEF BuiltOK, Faithful, FreshUdp
<1>8. StagedOK
  BY <1>2 DEF Init, UdpInit, StagedOK, FreshUdp
<1> QED BY <1>3, <1>4, <1>5, <1>6, <1>7, <1>8 DEF IInv

LEMMA StepOK ==
  ASSUME IInv, [Next]_vars
  PROVE  IInv'
<1>1. CASE ServerNext /\ UNCHANGED udpVars
  <2>1. Types' /\ DescriptorsExclusive' /\ OrderOK'
    BY <1>1, ServerTypes, ServerExclusive, Orders DEF IInv
  <2>2. /\ udp' = udp /\ joins' = joins
        /\ staging' = staging /\ parsing' = parsing /\ crossed' = crossed
    BY <1>1 DEF udpVars
  <2>3. JoinedOK' /\ BuiltOK' /\ StagedOK'
    BY <2>2 DEF IInv, JoinedOK, MembershipsMatch, Members, BuiltOK, Faithful, StagedOK
  <2> QED BY <2>1, <2>3 DEF IInv
<1>2. CASE UdpNext /\ UNCHANGED serverVars
  <2>1. PICK u \in Udps : \E r : Steps(u, r)
    BY <1>2, UdpSteps DEF IInv
  <2>2. PICK r : Steps(u, r)
    BY <2>1
  <2>3. Types' /\ DescriptorsExclusive'
    BY <1>2, <2>2, UdpTypes, UdpExclusive DEF IInv
  <2>4. JoinedOK' /\ BuiltOK' /\ StagedOK'
    BY <2>2, Joins, Builds, Receives DEF IInv
  <2>5. OrderOK'
    BY <1>2 DEF IInv, OrderOK, serverVars
  <2> QED BY <2>3, <2>4, <2>5 DEF IInv
<1>3. CASE UNCHANGED vars
  BY <1>3 DEF vars, serverVars, udpVars, IInv, Types, ServerTypeOK, DescriptorsExclusive, OrderOK,
              JoinedOK, MembershipsMatch, Members, BuiltOK, Faithful, StagedOK
<1> QED BY <1>1, <1>2, <1>3 DEF Next

LEMMA Inductive == Spec => []IInv
<1>1. Init => IInv
  BY InitOK
<1>2. IInv /\ [Next]_vars => IInv'
  BY StepOK
<1> QED BY <1>1, <1>2, PTL DEF Spec

(* The members of WiFiServer and WiFiUDP and the descriptor table keep     *)
(* their types, for any number of objects and any sequence of calls.       *)
THEOREM TypesStay == Spec => []TypeOK
<1>1. IInv => TypeOK
  BY JoinsCount DEF IInv, Types, TypeOK, UdpTypeOK
<1> QED BY <1>1, Inductive, PTL

(* However begin(), available(), stop() and the destructors of a server,   *)
(* its clients and the WiFiUDP objects interleave, and however often lwIP  *)
(* recycles a number, no two of them own one descriptor and none owns a    *)
(* descriptor that was closed.                                             *)
THEOREM OwnersStayExclusive == Spec => []DescriptorsExclusive
<1>1. IInv => DescriptorsExclusive
  BY DEF IInv
<1> QED BY <1>1, Inductive, PTL

(* WiFiServer hands every connection out at most once, in the order in     *)
(* which they arrived, through hasClient()'s stage, a full descriptor      *)
(* table, end() and a new begin().                                         *)
THEOREM ServedInOrder == Spec => HandedInOrder
<1>1. IInv /\ [Next]_vars => [\A s \in Descs : s \in clients' \ clients => connOf'[s] > handed]_vars
  <2>1. SUFFICES ASSUME IInv, Next, NEW s \in Descs, s \in clients' \ clients
                 PROVE  connOf'[s] > handed
    OBVIOUS
  <2>2. CASE ServerNext
    BY <2>1, <2>2, Orders DEF IInv
  <2>3. CASE UNCHANGED serverVars
    BY <2>1, <2>3 DEF serverVars
  <2> QED BY <2>1, <2>2, <2>3 DEF Next
<1> QED BY <1>1, Inductive, PTL DEF Spec, HandedInOrder

(* Every igmp_joingroup() of beginMulticast() is matched by one            *)
(* igmp_leavegroup() of stop(): the count of memberships is the number of  *)
(* objects whose multicast_ip is set.                                      *)
THEOREM MembershipsCounted == Spec => []MembershipsMatch
<1>1. IInv => MembershipsMatch
  BY DEF IInv, JoinedOK
<1> QED BY <1>1, Inductive, PTL

(* Whatever order beginPacket(), write(), endPacket(), parsePacket(),      *)
(* stop() and begin() are called in: the datagram that would be sent goes  *)
(* to the endpoint of the last beginPacket() unless parsePacket() took a   *)
(* datagram since, and repeats sent bytes only after an endPacket() since, *)
(* for a transmit buffer of any size, which is never overrun.              *)
THEOREM SentAsBuilt == Spec => []DatagramAsBuilt
<1>1. IInv => DatagramAsBuilt
  <2>1. SUFFICES ASSUME IInv, NEW u \in Udps
                 PROVE  Faithful(udp[u]) /\ udp[u].len <= MTU
    BY DEF DatagramAsBuilt, Faithful
  <2>2. udp[u].len \in 0..MTU
    BY <2>1 DEF IInv, Types, Udp
  <2> QED BY <2>1, <2>2, MTUAssumption DEF IInv, BuiltOK
<1> QED BY <1>1, Inductive, PTL

(* With any number of tasks inside parsePacket() at once, a byte of one    *)
(* object's datagram gets into another's rx_buffer through the static      *)
(* stagingBuf only when a recvfrom() fell between that other object's      *)
(* recvfrom() and its copy; what is copied never reaches beyond the        *)
(* datagram into bytes an earlier one left.                                *)
THEOREM NoCrossReading == Spec => []ReceivedOnOwnSocket
<1>1. IInv => ReceivedOnOwnSocket
  BY DEF IInv, StagedOK, ReceivedOnOwnSocket
<1> QED BY <1>1, Inductive, PTL

=============================================================================
