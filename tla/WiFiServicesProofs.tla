------------------------- MODULE WiFiServicesProofs -------------------------
(***************************************************************************)
(* Proofs about WiFiNetif and WiFiEvents in the specification of           *)
(* WiFiServices.                                                           *)
(***************************************************************************)
EXTENDS WiFiServices, FiniteSetTheorems, TLAPS

-----------------------------------------------------------------------------
(* The station's address                                                   *)

(* The flag _useStaticIp keeps begin() from starting the DHCP client, so   *)
(* it must only be set while the station has an address without it.        *)
StaInv ==
  /\ sta \in StaNetif
  /\ StationAddressed
  /\ sta.static => sta.dhcpc \/ sta.ip # 0

LEMMA AddrsPositive == \A a \in Addrs : a \in Nat /\ a # 0
BY AddressAssumption

(* What a call of set_esp_interface_ip() may leave of the station. *)
LEMMA SetStaIpResult ==
  ASSUME NEW s \in StaNetif, NEW ip \in Nat, NEW r \in SetStaIp(s, ip)
  PROVE  /\ r \in StaNetif /\ r.static = s.static
         /\ r.ok => r.dhcpc \/ r.ip # 0
<1>1. /\ s = [ip |-> s.ip, dhcpc |-> s.dhcpc, static |-> s.static, dns |-> s.dns, ok |-> s.ok]
      /\ s.ip \in Nat /\ s.dhcpc \in BOOLEAN /\ s.static \in BOOLEAN /\ s.dns \in Nat
  BY DEF StaNetif
<1>2. PICK c \in BOOLEAN, a \in Nat, o \in BOOLEAN :
        /\ r = [ip |-> a, dhcpc |-> c, static |-> s.static, dns |-> s.dns, ok |-> o]
        /\ o => c \/ a # 0
  BY <1>1 DEF SetStaIp, Failed
<1> QED BY <1>1, <1>2 DEF StaNetif

LEMMA SetDnsResult ==
  ASSUME NEW s \in StaNetif, NEW d \in Nat, NEW r \in SetDns(s, d)
  PROVE  /\ r \in StaNetif /\ r.static = s.static /\ r.ip = s.ip /\ r.dhcpc = s.dhcpc
         /\ r.ok => s.ok
<1>1. /\ s = [ip |-> s.ip, dhcpc |-> s.dhcpc, static |-> s.static, dns |-> s.dns, ok |-> s.ok]
      /\ s.ip \in Nat /\ s.dhcpc \in BOOLEAN /\ s.static \in BOOLEAN /\ s.dns \in Nat /\ s.ok \in BOOLEAN
  BY DEF StaNetif
<1>2. PICK a \in Nat, o \in BOOLEAN :
        /\ r = [ip |-> s.ip, dhcpc |-> s.dhcpc, static |-> s.static, dns |-> a, ok |-> o]
        /\ o => s.ok
  BY <1>1 DEF SetDns, Failed
<1> QED BY <1>1, <1>2 DEF StaNetif

LEMMA ConfigStaInv ==
  ASSUME StaInv, NEW ip \in Nat, NEW d \in Nat, config(ip, d)
  PROVE  StaInv'
<1>0. sta \in StaNetif
  BY DEF StaInv
<1>1. CASE sta' = Failed(sta)
  BY <1>0, <1>1 DEF StaInv, StationAddressed, StaNetif, Failed
<1>2. CASE sta' # Failed(sta)
  <2>1. PICK s \in SetStaIp(sta, ip) : \E s1 \in IF s.ok THEN SetDns(s, d) ELSE {s} :
          sta' = [s1 EXCEPT !.static = s1.ok]
    BY <1>2 DEF config
  <2>2. PICK s1 \in IF s.ok THEN SetDns(s, d) ELSE {s} : sta' = [s1 EXCEPT !.static = s1.ok]
    BY <2>1
  <2>3. s \in StaNetif /\ (s.ok => s.dhcpc \/ s.ip # 0)
    BY <1>0, SetStaIpResult
  <2>4. s1 \in StaNetif /\ (s1.ok => s1.dhcpc \/ s1.ip # 0)
    <3>1. CASE s.ok
      BY <2>2, <2>3, <3>1, SetDnsResult
    <3>2. CASE ~s.ok
      BY <2>2, <2>3, <3>2
    <3> QED BY <3>1, <3>2
  <2>5. /\ sta' \in StaNetif /\ sta'.static = s1.ok /\ sta'.ok = s1.ok
        /\ sta'.ip = s1.ip /\ sta'.dhcpc = s1.dhcpc
    BY <2>2, <2>4 DEF StaNetif
  <2> QED BY <2>4, <2>5 DEF StaInv, StationAddressed
<1> QED BY <1>1, <1>2

LEMMA StaNextStaInv ==
  ASSUME StaInv, StaNext
  PROVE  StaInv'
<1>0. sta \in StaNetif /\ \A a \in Addrs : a \in Nat /\ a # 0
  BY AddrsPositive DEF StaInv
<1>1. ASSUME NEW ip \in Addrs \cup {0}, NEW d \in Addrs \cup {0}, config(ip, d) PROVE StaInv'
  BY <1>0, <1>1, ConfigStaInv
<1>2. CASE beginAddress
  <2>1. CASE sta.static
    <3>1. sta' = [sta EXCEPT !.ok = TRUE]
      BY <1>2, <2>1 DEF beginAddress
    <3> QED BY <1>0, <2>1, <3>1 DEF StaInv, StationAddressed, StaNetif
  <2>2. CASE ~sta.static
    <3>1. sta' \in SetStaIp(sta, 0)
      BY <1>2, <2>2 DEF beginAddress
    <3> QED BY <1>0, <2>2, <3>1, SetStaIpResult DEF StaInv, StationAddressed
  <2> QED BY <2>1, <2>2
<1>3. ASSUME NEW ip \in Addrs, Leased(ip) PROVE StaInv'
  <2>1. sta' = [sta EXCEPT !.ip = ip] /\ sta.dhcpc
    BY <1>3 DEF Leased
  <2> QED BY <1>0, <2>1 DEF StaInv, StationAddressed, StaNetif
<1> QED BY <1>1, <1>2, <1>3 DEF StaNext

(* Whatever calls fail half-way, a config() or begin() that succeeds has   *)
(* left the station with a fixed address or with a running DHCP client.    *)
THEOREM StationStaysAddressed == Spec => []StationAddressed
<1>1. Init => StaInv
  BY DEF Init, NetifInit, StaInv, StaNetif, StationAddressed
<1>2. StaInv /\ [Next]_vars => StaInv'
  <2> SUFFICES ASSUME StaInv, [Next]_vars PROVE StaInv'
    OBVIOUS
  <2>1. CASE UNCHANGED sta
    BY <2>1 DEF StaInv, StationAddressed
  <2>2. CASE StaNext
    BY <2>2, StaNextStaInv
  <2>3. ApNext => UNCHANGED sta
    BY DEF ApNext, softAP, softAPConfig, softAPdisconnect
  <2> QED BY <2>1, <2>2, <2>3 DEF Next, vars, netifVars
<1>3. StaInv => StationAddressed
  BY DEF StaInv
<1> QED BY <1>1, <1>2, <1>3, PTL DEF Spec
-----------------------------------------------------------------------------
(* The access point's range                                                *)

LEMMA OnesValues ==
  /\ Ones(0) = 0 /\ Ones(128) = 1 /\ Ones(192) = 2 /\ Ones(224) = 3 /\ Ones(240) = 4
  /\ Ones(248) = 5 /\ Ones(252) = 6 /\ Ones(254) = 7 /\ Ones(255) = 8
<1>1. \A n \in 1..8 : n \in {1, 2, 3, 4, 5, 6, 7, 8}
  OBVIOUS
<1>2. /\ LeadingOnes[1] = 128 /\ LeadingOnes[2] = 192 /\ LeadingOnes[3] = 224
      /\ LeadingOnes[4] = 240 /\ LeadingOnes[5] = 248 /\ LeadingOnes[6] = 252
      /\ LeadingOnes[7] = 254 /\ LeadingOnes[8] = 255
  BY DEF LeadingOnes
<1>3. \A k \in 1..8 : Ones(LeadingOnes[k]) = k
  <2>1. SUFFICES ASSUME NEW k \in 1..8 PROVE Ones(LeadingOnes[k]) = k
    OBVIOUS
  <2>2. LeadingOnes[k] # 0
    BY <1>1, <1>2
  <2>3. \A n \in 1..8 : LeadingOnes[n] = LeadingOnes[k] => n = k
    BY <1>1, <1>2
  <2> QED BY <2>2, <2>3 DEF Ones
<1> QED BY <1>2, <1>3 DEF Ones

(* The subnets that set_esp_interface_ip() accepts: /24 to /28. *)
LEMMA AcceptedMasks ==
  ASSUME NEW m \in Masks, calculateSubnetCIDR(m) \in 24..28
  PROVE  HostMask(m) \in {15, 31, 63, 127, 255}
<1>1. MaskBytes = {128, 192, 224, 240, 248, 252, 254, 255}
  BY DEF MaskBytes, LeadingOnes
<1>2. \/ \E a \in MaskBytes \cup {0} : m = <<a, 0>>
      \/ \E b \in MaskBytes : m = <<255, b>>
  BY MaskAssumption
<1>3. CASE \E a \in MaskBytes \cup {0} : m = <<a, 0>>
  <2>1. PICK a \in {0, 128, 192, 224, 240, 248, 252, 254, 255} : m = <<a, 0>>
    BY <1>1, <1>3
  <2>2. 16 + Ones(a) + Ones(0) \in 24..28
    BY <2>1 DEF calculateSubnetCIDR
  <2>3. a = 255
    BY <2>2, OnesValues
  <2> QED BY <2>1, <2>3 DEF HostMask
<1>4. CASE \E b \in MaskBytes : m = <<255, b>>
  <2>1. PICK b \in {128, 192, 224, 240, 248, 252, 254, 255} : m = <<255, b>>
    BY <1>1, <1>4
  <2>2. 16 + Ones(255) + Ones(b) \in 24..28
    BY <2>1 DEF calculateSubnetCIDR
  <2>3. b \in {128, 192, 224, 240}
    BY <2>2, OnesValues
  <2> QED BY <2>1, <2>3 DEF HostMask
<1> QED BY <1>2, <1>3, <1>4

(* The range from start, in a network of h + 1 addresses. *)
LEMMA RangeFits ==
  ASSUME NEW h \in {15, 31, 63, 127, 255}, NEW ip \in Nat, NEW start \in Nat,
         ip - (ip % (h + 1)) = start - (start % (h + 1)),
         NEW first \in Nat,
         first = IF start % (h + 1) >= h - 10 THEN start - (start % (h + 1)) + 1 ELSE start
  PROVE  /\ ip - (ip % (h + 1)) <= first
         /\ first + 10 < ip - (ip % (h + 1)) + h
<1>1. CASE h = 15
  BY <1>1
<1>2. CASE h = 31
  BY <1>2
<1>3. CASE h = 63
  BY <1>3
<1>4. CASE h = 127
  BY <1>4
<1>5. CASE h = 255
  BY <1>5
<1> QED BY <1>1, <1>2, <1>3, <1>4, <1>5

(* Addresses from a network's first to its last have the same network. *)
LEMMA SameNetwork ==
  ASSUME NEW h \in {15, 31, 63, 127, 255}, NEW ip \in Nat, NEW x \in Nat,
         ip - (ip % (h + 1)) <= x, x <= ip - (ip % (h + 1)) + h
  PROVE  x - (x % (h + 1)) = ip - (ip % (h + 1))
<1>1. CASE h = 15
  BY <1>1
<1>2. CASE h = 31
  BY <1>2
<1>3. CASE h = 63
  BY <1>3
<1>4. CASE h = 127
  BY <1>4
<1>5. CASE h = 255
  BY <1>5
<1> QED BY <1>1, <1>2, <1>3, <1>4, <1>5
(* A range that set_esp_interface_ip() does not refuse. *)
Served(a) ==
  LET net0 == calculateNetworkID(a.ip, a.mask)
      end == calculateBroadcast(a.ip, a.mask) IN
  /\ \A x \in a.first..a.last : net0 <= x /\ x < end /\ x # a.ip
  /\ a.gw \in net0..end =>
       /\ a.gw \notin a.first..a.last
       /\ softAPNetworkID(a) <= a.first /\ a.last < softAPBroadcastIP(a)

LEMMA NotRefused ==
  ASSUME NEW ip \in Nat, NEW gw \in Nat, NEW m \in Masks, NEW start \in Nat,
         ~Refused(ip, gw, m, start),
         NEW a \in ApNetif, a.ip = ip, a.gw = gw, a.mask = m,
         a.first = LeaseStart(start, m), a.last = a.first + 10
  PROVE  Served(a)
<1> DEFINE net0 == calculateNetworkID(ip, m)
           end == calculateBroadcast(ip, m)
<1>1. PICK h \in {15, 31, 63, 127, 255} : h = HostMask(m)
  BY AcceptedMasks DEF Refused
<1>2. net0 = ip - (ip % (h + 1)) /\ end = net0 + h
  BY <1>1 DEF calculateNetworkID, calculateBroadcast, HostOf
<1>3. ip - (ip % (h + 1)) = start - (start % (h + 1))
  BY <1>1 DEF Refused, calculateNetworkID, HostOf
<1>4. /\ a.first \in Nat
      /\ a.first = IF start % (h + 1) >= h - 10 THEN start - (start % (h + 1)) + 1 ELSE start
  BY <1>1 DEF ApNetif, LeaseStart, calculateNetworkID, HostOf, Leases
<1>5. net0 <= a.first /\ a.first + 10 < end
  BY <1>2, <1>3, <1>4, RangeFits
<1>6. net0 \in Int /\ end \in Int
  BY <1>1, <1>2
<1>7. ip \notin a.first..a.last
  BY DEF Refused, Leases
<1>8. ASSUME gw \in net0..end
      PROVE  calculateNetworkID(gw, m) = net0 /\ calculateBroadcast(gw, m) = end
  <2>1. gw - (gw % (h + 1)) = ip - (ip % (h + 1))
    <3>1. ip - (ip % (h + 1)) <= gw /\ gw <= ip - (ip % (h + 1)) + h
      BY <1>1, <1>2, <1>6, <1>8
    <3> QED BY <3>1, SameNetwork
  <2> QED BY <1>1, <1>2, <2>1 DEF calculateNetworkID, calculateBroadcast, HostOf
<1>9. ASSUME gw \in net0..end PROVE gw \notin a.first..a.last
  BY <1>8, <1>9 DEF Refused, Leases
<1> HIDE DEF net0, end
<1>10. \A x \in a.first..a.last : net0 <= x /\ x < end /\ x # ip
  BY <1>4, <1>5, <1>6, <1>7
<1>11. gw \in net0..end =>
         /\ gw \notin a.first..a.last
         /\ softAPNetworkID(a) <= a.first /\ a.last < softAPBroadcastIP(a)
  BY <1>4, <1>5, <1>6, <1>8, <1>9 DEF softAPNetworkID, softAPBroadcastIP
<1> QED BY <1>10, <1>11 DEF Served, net0, end

ApInv ==
  /\ ap \in ApNetif
  /\ ap.server = "lease" => Served(ap)

(* The fields that the property is about stay as they are. *)
SameRange(a, b) ==
  /\ b.server = a.server /\ b.first = a.first /\ b.last = a.last
  /\ b.ip = a.ip /\ b.gw = a.gw /\ b.mask = a.mask

LEMMA SameRangeServed ==
  ASSUME NEW a, NEW b, SameRange(a, b), a.server = "lease" => Served(a)
  PROVE  b.server = "lease" => Served(b)
BY DEF SameRange, Served, softAPNetworkID, softAPBroadcastIP

LEMMA EnableAPResult ==
  ASSUME NEW a \in ApNetif, NEW e \in BOOLEAN, NEW b \in enableAP(a, e),
         a.server = "lease" => Served(a)
  PROVE  b \in ApNetif /\ (b.server = "lease" => Served(b))
<1>1. CASE b = [a EXCEPT !.ok = TRUE] \/ b = [a EXCEPT !.ok = FALSE]
  <2>1. b \in ApNetif /\ SameRange(a, b)
    BY <1>1 DEF ApNetif, SameRange
  <2> QED BY <2>1, SameRangeServed
<1>2. CASE b = [a EXCEPT !.on = e, !.ok = TRUE, !.server = IF e THEN "own" ELSE "stopped",
                         !.first = 0, !.last = 0]
  BY <1>2 DEF ApNetif
<1> QED BY <1>1, <1>2 DEF enableAP, Failed

LEMMA SetApIpResult ==
  ASSUME NEW a \in ApNetif, NEW ip \in Nat, NEW gw \in Nat, NEW m \in Masks, NEW given \in Nat,
         a.server = "lease" => Served(a), NEW b \in SetApIp(a, ip, gw, m, given)
  PROVE  b \in ApNetif /\ (b.server = "lease" => Served(b))
<1> DEFINE start == IF given = 0 THEN ip + 1 ELSE given
           stopped == [a EXCEPT !.server = "stopped", !.first = 0, !.last = 0]
           set == [stopped EXCEPT !.ip = ip, !.gw = gw, !.mask = m]
           leased == [set EXCEPT !.server = "lease", !.ok = TRUE, !.first = LeaseStart(start, m),
                                 !.last = LeaseStart(start, m) + Leases]
<1>0. m \in Netmasks /\ start \in Nat
  BY DEF Netmasks
<1> HIDE DEF start
<1>a. stopped \in ApNetif /\ stopped.server = "stopped"
  BY DEF ApNetif
<1>b. /\ set \in ApNetif /\ set.server = "stopped"
      /\ set.ip = ip /\ set.gw = gw /\ set.mask = m
  <2> HIDE DEF stopped
  <2> QED BY <1>0, <1>a DEF ApNetif
<1> HIDE DEF stopped, set
<1>1. CASE b = Failed(a)
  <2>1. b \in ApNetif /\ SameRange(a, b)
    BY <1>1 DEF ApNetif, SameRange, Failed
  <2> QED BY <2>1, SameRangeServed
<1>2. CASE b = Failed(stopped) \/ b = Failed(set)
  BY <1>a, <1>b, <1>2 DEF ApNetif, Failed
<1>3. CASE ~Refused(ip, gw, m, start) /\ b = leased
  <2>2. LeaseStart(start, m) \in Nat
    <3>1. PICK h \in {15, 31, 63, 127, 255} : h = HostMask(m)
      BY <1>3, AcceptedMasks DEF Refused
    <3>2. start % (h + 1) \in Nat /\ start - (start % (h + 1)) \in Nat
      BY <1>0
    <3> QED BY <1>0, <3>1, <3>2 DEF LeaseStart, HostOf, calculateNetworkID
  <2>3. /\ b \in ApNetif /\ b.ip = ip /\ b.gw = gw /\ b.mask = m
        /\ b.first = LeaseStart(start, m) /\ b.last = b.first + 10
    <3>1. PICK f \in Nat : f = LeaseStart(start, m)
      BY <2>2
    <3>2. b = [set EXCEPT !.server = "lease", !.ok = TRUE, !.first = f, !.last = f + 10]
      BY <1>3, <3>1 DEF Leases
    <3>3. f + 10 \in Nat
      OBVIOUS
    <3>4. /\ b \in ApNetif /\ b.ip = ip /\ b.gw = gw /\ b.mask = m
          /\ b.first = f /\ b.last = f + 10
      BY <1>b, <3>2, <3>3 DEF ApNetif
    <3> QED BY <3>1, <3>4
  <2>4. ~Refused(ip, gw, m, start) /\ start \in Nat
    BY <1>0, <1>3
  <2>5. Served(b)
    BY <2>3, <2>4, NotRefused
  <2> QED BY <2>3, <2>5
<1> QED BY <1>1, <1>2, <1>3 DEF SetApIp, start, stopped, set

LEMMA ApNextApInv ==
  ASSUME ApInv, ApNext
  PROVE  ApInv'
<1>0. ap \in ApNetif /\ (ap.server = "lease" => Served(ap))
  BY DEF ApInv
<1> SUFFICES ap' \in ApNetif /\ (ap'.server = "lease" => Served(ap'))
  BY DEF ApInv, Served, softAPNetworkID, softAPBroadcastIP
<1>1. ASSUME NEW name \in Names, softAP(name) PROVE ap' \in ApNetif /\ (ap'.server = "lease" => Served(ap'))
  <2>1. PICK a \in enableAP(ap, TRUE) :
          ap' \in IF ~a.ok THEN {a} ELSE {Failed(a)} \cup {[a EXCEPT !.conf = name]}
    BY <1>1 DEF softAP
  <2>2. a \in ApNetif /\ (a.server = "lease" => Served(a))
    BY <1>0, EnableAPResult
  <2>3. ap' \in ApNetif /\ SameRange(a, ap')
    BY <2>1, <2>2 DEF ApNetif, SameRange, Failed
  <2> QED BY <2>2, <2>3, SameRangeServed
<1>2. ASSUME NEW ip \in Addrs, NEW gw \in Addrs \cup {0}, NEW start \in Addrs \cup {0},
             NEW m \in Masks, softAPConfig(ip, gw, m, start)
      PROVE  ap' \in ApNetif /\ (ap'.server = "lease" => Served(ap'))
  <2>1. PICK a \in enableAP(ap, TRUE) :
          ap' \in IF a.ok THEN SetApIp(a, ip, gw, m, start) ELSE {a}
    BY <1>2 DEF softAPConfig
  <2>2. a \in ApNetif /\ (a.server = "lease" => Served(a))
    BY <1>0, EnableAPResult
  <2>3. ip \in Nat /\ gw \in Nat /\ start \in Nat
    BY AddrsPositive
  <2> QED BY <2>1, <2>2, <2>3, SetApIpResult
<1>3. ASSUME NEW wifioff \in BOOLEAN, softAPdisconnect(wifioff)
      PROVE  ap' \in ApNetif /\ (ap'.server = "lease" => Served(ap'))
  <2> DEFINE blank == [ap EXCEPT !.conf = "blank", !.ok = TRUE]
  <2>1. CASE ap' = Failed(ap) \/ ap' = blank
    <3>1. ap' \in ApNetif /\ SameRange(ap, ap')
      BY <1>0, <2>1 DEF ApNetif, SameRange, Failed
    <3> QED BY <1>0, <3>1, SameRangeServed
  <2>2. CASE \E a \in enableAP(blank, FALSE) : ap' = [a EXCEPT !.ok = ~a.ok]
    <3>1. blank \in ApNetif /\ SameRange(ap, blank)
      BY <1>0 DEF ApNetif, SameRange
    <3>2. blank.server = "lease" => Served(blank)
      BY <1>0, <3>1, SameRangeServed
    <3>3. PICK a \in enableAP(blank, FALSE) : ap' = [a EXCEPT !.ok = ~a.ok]
      BY <2>2
    <3> HIDE DEF blank
    <3>4. a \in ApNetif /\ (a.server = "lease" => Served(a))
      BY <3>1, <3>2, EnableAPResult
    <3>5. ap' \in ApNetif /\ SameRange(a, ap')
      BY <3>3, <3>4 DEF ApNetif, SameRange
    <3> QED BY <3>4, <3>5, SameRangeServed
  <2> QED BY <1>3, <2>1, <2>2 DEF softAPdisconnect
<1> QED BY <1>1, <1>2, <1>3 DEF ApNext

(* For every address, netmask, gateway and first lease that a sketch may   *)
(* give, and whichever driver calls fail: the range of the DHCP server     *)
(* that softAPConfig() starts is in the access point's subnet, ends before *)
(* the broadcast address and holds neither the access point's own address  *)
(* nor its gateway.                                                        *)
THEOREM RangeInOwnSubnet == Spec => []ServedFromOwnSubnet
<1>1. Init => ApInv
  <2>1. <<255, 0>> \in Netmasks
    BY DEF Netmasks
  <2> QED BY <2>1 DEF Init, NetifInit, ApInv, ApNetif
<1>2. ApInv /\ [Next]_vars => ApInv'
  <2> SUFFICES ASSUME ApInv, [Next]_vars PROVE ApInv'
    OBVIOUS
  <2>1. CASE UNCHANGED ap
    BY <2>1 DEF ApInv, Served, softAPNetworkID, softAPBroadcastIP
  <2>2. CASE ApNext
    BY <2>2, ApNextApInv
  <2>3. StaNext => UNCHANGED ap
    BY DEF StaNext, config, beginAddress, Leased
  <2> QED BY <2>1, <2>2, <2>3 DEF Next, vars, netifVars
<1>3. ApInv => ServedFromOwnSubnet
  BY DEF ApInv, Served, ServedFromOwnSubnet
<1> QED BY <1>1, <1>2, <1>3, PTL DEF Spec
-----------------------------------------------------------------------------
(* tcpipInit()                                                             *)

Handlers == [1..Len(Bases) -> Nat]

Nets == [initialized : BOOLEAN, group : BOOLEAN, queue : BOOLEAN, task : BOOLEAN,
         noLoop : BOOLEAN, handlers : Handlers, starts : Nat]

NetInv == net \in Nets /\ InitComplete

LEMMA RegisteredType ==
  ASSUME NEW n \in Nets, NEW k
  PROVE  /\ Registered(n, k) \in Nets
         /\ Registered(n, k).initialized = n.initialized
         /\ Registered(n, k).task = n.task /\ Registered(n, k).noLoop = n.noLoop
         /\ \A b \in 1..Len(Bases) : b <= k => Registered(n, k).handlers[b] > 0
<1> DEFINE h == [b \in 1..Len(Bases) |-> IF b <= k THEN n.handlers[b] + 1 ELSE n.handlers[b]]
<1>1. n.handlers \in [1..Len(Bases) -> Nat]
  BY DEF Nets, Handlers
<1>2. h \in Handlers /\ \A b \in 1..Len(Bases) : b <= k => h[b] > 0
  BY <1>1 DEF Handlers
<1>3. Registered(n, k) = [n EXCEPT !.handlers = h]
  BY DEF Registered
<1> HIDE DEF h
<1> QED BY <1>2, <1>3 DEF Nets

(* Only the last of the steps of _start_network_event_task() sets          *)
(* initialized, unless the event loop failed.                              *)
LEMMA StartedComplete ==
  ASSUME NEW n \in Nets, ~n.initialized, NEW r \in Started(n)
  PROVE  /\ r \in Nets
         /\ r.initialized /\ ~r.noLoop =>
              r.task /\ \A b \in 1..Len(Bases) : r.handlers[b] > 0
<1> DEFINE g == [n EXCEPT !.group = TRUE]
           q == [g EXCEPT !.queue = TRUE]
           t == [q EXCEPT !.task = TRUE]
<1>1. g \in Nets /\ ~g.initialized
  BY DEF Nets
<1>2. q \in Nets /\ ~q.initialized
  <2> HIDE DEF g
  <2> QED BY <1>1 DEF Nets
<1>3. t \in Nets /\ ~t.initialized /\ t.task
  <2> HIDE DEF q
  <2> QED BY <1>2 DEF Nets
<1> HIDE DEF g, q, t
<1>4. CASE r \in {n, g, q}
  BY <1>1, <1>2, <1>4
<1>5. CASE r = [q EXCEPT !.noLoop = TRUE, !.initialized = TRUE]
  BY <1>2, <1>5 DEF Nets
<1>6. CASE \E k \in 0..Len(Bases) - 1 : r = Registered(t, k)
  BY <1>3, <1>6, RegisteredType
<1>7. CASE r = [Registered(t, Len(Bases)) EXCEPT !.initialized = TRUE]
  <2>1. PICK u : u = Registered(t, Len(Bases))
    OBVIOUS
  <2>2. u \in Nets /\ u.task /\ \A b \in 1..Len(Bases) : u.handlers[b] > 0
    BY <1>3, <2>1, RegisteredType
  <2>3. r \in Nets /\ r.task = u.task /\ r.handlers = u.handlers
    BY <1>7, <2>1, <2>2 DEF Nets
  <2> QED BY <2>2, <2>3
<1> QED BY <1>4, <1>5, <1>6, <1>7 DEF Started, g, q, t

LEMMA TcpipInitNetInv ==
  ASSUME NetInv, tcpipInit
  PROVE  NetInv'
<1>1. net \in Nets /\ ~net.initialized
  BY DEF NetInv, tcpipInit
<1>2. PICK r \in Started(net) : net' = [r EXCEPT !.starts = @ + 1]
  BY DEF tcpipInit
<1>3. /\ r \in Nets
      /\ r.initialized /\ ~r.noLoop => r.task /\ \A b \in 1..Len(Bases) : r.handlers[b] > 0
  BY <1>1, StartedComplete
<1>4. /\ net' \in Nets /\ net'.initialized = r.initialized /\ net'.noLoop = r.noLoop
      /\ net'.task = r.task /\ net'.handlers = r.handlers
  BY <1>2, <1>3 DEF Nets
<1>5. \A ev \in Ids : BaseOf[ev] \in 1..Len(Bases)
  BY EventAssumption
<1> QED BY <1>3, <1>4, <1>5 DEF NetInv, InitComplete, Posted

(* However many starts failed and wherever: once tcpipInit() reports       *)
(* success, and the event loop was not what failed, the task runs and has  *)
(* a handler for the base of every event.                                  *)
THEOREM InitIsComplete == Spec => []InitComplete
<1>1. Init => NetInv
  <2>1. [b \in 1..Len(Bases) |-> 0] \in Handlers
    BY DEF Handlers
  <2> QED BY <2>1 DEF Init, EventsInit, NetInv, Nets, InitComplete
<1>2. NetInv /\ [Next]_vars => NetInv'
  <2> SUFFICES ASSUME NetInv, [Next]_vars PROVE NetInv'
    OBVIOUS
  <2>1. CASE UNCHANGED net
    BY <2>1 DEF NetInv, InitComplete, Posted
  <2>2. CASE tcpipInit
    BY <2>2, TcpipInitNetInv
  <2>3. EventsNext => tcpipInit \/ UNCHANGED net
    BY DEF EventsNext, SketchOnEvent, SketchRemoveEvent, Receive, PassOver, Call, Return, Walking,
           LookUp, FoundLate, hostByName, WaitIdle, ClearBits, Ask, WaitDone, ClearDone, SetIdle,
           Found, Answered, Looking
  <2> QED BY <2>1, <2>2, <2>3 DEF Next, vars, eventVars
<1>3. NetInv => InitComplete
  BY DEF NetInv
<1> QED BY <1>1, <1>2, <1>3, PTL DEF Spec

-----------------------------------------------------------------------------
(* hostByName()                                                            *)

Dnss == [bits : SUBSET {"IDLE", "DONE"}, pc : [Tasks -> Pcs], asked : SUBSET Tasks,
         late : Nat, overlap : BOOLEAN]

Waited == {"waitDone", "clearDone", "setIdle"}

(* As long as lookups have not overlapped, one task at most is between     *)
(* clearing IDLE and setting it, DONE is not set before that task asks     *)
(* lwIP, and when it is set no answer is due any more: so a wait for DONE  *)
(* ends only after the answer.                                             *)
Alone(d) ==
  /\ \A t, u \in Tasks : d.pc[t] \in Busy /\ d.pc[u] \in Busy => t = u
  /\ \A t \in Tasks : d.pc[t] = "ask" => "DONE" \notin d.bits
  /\ "DONE" \in d.bits => d.asked = {}
  /\ \A t \in d.asked : d.pc[t] = "waitDone"

DnsOK(d) ==
  /\ d \in Dnss
  /\ d.late > 0 => d.overlap
  /\ \A t \in d.asked : d.pc[t] \in Waited
  /\ ~d.overlap => Alone(d)

DnsInv == DnsOK(dns)

LEMMA AnsweredDnsOK ==
  ASSUME NEW d \in Dnss, d.late > 0 => d.overlap, \A t \in d.asked : d.pc[t] \in Waited,
         ~d.overlap => d.asked = {} /\ (\A t, u \in Tasks : d.pc[t] \in Busy /\ d.pc[u] \in Busy => t = u)
                       /\ \A t \in Tasks : d.pc[t] # "ask",
         NEW e, e = [d EXCEPT !.bits = @ \cup {"DONE"}, !.pc = Woken(@, "waitDone", "clearDone")]
  PROVE  DnsOK(e)
<1> DEFINE p == Woken(d.pc, "waitDone", "clearDone")
<1>1. d.pc \in [Tasks -> Pcs] /\ d.asked \subseteq Tasks
  BY DEF Dnss
<1>2. /\ p \in [Tasks -> Pcs]
      /\ \A t \in Tasks : p[t] = IF d.pc[t] = "waitDone" THEN "clearDone" ELSE d.pc[t]
  BY <1>1 DEF Woken, Pcs
<1>3. /\ \A t \in Tasks : p[t] \in Busy => d.pc[t] \in Busy
      /\ \A t \in Tasks : d.pc[t] \in Waited => p[t] \in Waited
      /\ \A t \in Tasks : p[t] = "ask" => d.pc[t] = "ask"
  BY <1>2 DEF Busy, Waited
<1> HIDE DEF p
<1>4. /\ e \in Dnss /\ e.pc = p /\ e.asked = d.asked /\ e.late = d.late /\ e.overlap = d.overlap
  BY <1>2 DEF Dnss, p
<1> QED BY <1>1, <1>3, <1>4 DEF DnsOK, Alone
(* Task t goes on to `to`; besides that only the bits and the lookups that *)
(* lwIP has been asked for change.                                         *)
Moves(t, to, bits, asked) ==
  /\ dns' \in Dnss /\ dns'.pc = [dns.pc EXCEPT ![t] = to]
  /\ dns'.bits = bits /\ dns'.asked = asked
  /\ dns'.late = dns.late /\ dns'.overlap = dns.overlap

LEMMA MovesIf ==
  ASSUME dns \in Dnss, NEW t \in Tasks, NEW to \in Pcs, NEW bits \in SUBSET {"IDLE", "DONE"},
         NEW asked \in SUBSET Tasks,
         dns' = [dns EXCEPT !.bits = bits, !.pc[t] = to, !.asked = asked]
  PROVE  Moves(t, to, bits, asked)
<1>1. PICK p \in [Tasks -> Pcs] : p = [dns.pc EXCEPT ![t] = to]
  BY DEF Dnss
<1>2. dns' = [dns EXCEPT !.bits = bits, !.pc = p, !.asked = asked]
  BY <1>1
<1> QED BY <1>1, <1>2 DEF Moves, Dnss

LEMMA MoveDnsOK ==
  ASSUME DnsOK(dns), NEW t \in Tasks, NEW to, NEW bits, NEW asked,
         Moves(t, to, bits, asked),
         asked \subseteq dns.asked \cup {t},
         t \in asked => to \in Waited,
         ~dns.overlap => /\ to \in Busy => dns.pc[t] \in Busy
                         /\ "DONE" \in bits => "DONE" \in dns.bits /\ t \notin asked
                         /\ to # "ask"
                         /\ t \in asked => to = "waitDone"
  PROVE  DnsOK(dns')
<1>1. dns.pc \in [Tasks -> Pcs] /\ dns.asked \subseteq Tasks
  BY DEF DnsOK, Dnss
<1>2. PICK p : p = dns'.pc
  OBVIOUS
<1>3. \A u \in Tasks : p[u] = IF u = t THEN to ELSE dns.pc[u]
  BY <1>1, <1>2 DEF Moves
<1>4. \A u \in asked : p[u] \in Waited
  BY <1>1, <1>3 DEF DnsOK
<1>5. ASSUME ~dns.overlap PROVE Alone(dns')
  <2>1. Alone(dns)
    BY <1>5 DEF DnsOK
  <2>2. \A u, v \in Tasks : p[u] \in Busy /\ p[v] \in Busy => u = v
    BY <1>3, <1>5, <2>1 DEF Alone
  <2>3. \A u \in Tasks : p[u] = "ask" => "DONE" \notin bits
    BY <1>3, <1>5, <2>1 DEF Alone
  <2>4. "DONE" \in bits => asked = {}
    BY <1>5, <2>1 DEF Alone
  <2>5. \A u \in asked : p[u] = "waitDone"
    BY <1>1, <1>3, <1>5, <2>1 DEF Alone
  <2> QED BY <1>2, <2>2, <2>3, <2>4, <2>5 DEF Alone, Moves
<1> QED BY <1>2, <1>4, <1>5 DEF DnsOK, Moves

LEMMA ClearBitsDnsInv ==
  ASSUME DnsInv, NEW t \in Tasks, ClearBits(t)
  PROVE  DnsOK(dns')
<1>1. dns \in Dnss /\ dns.pc \in [Tasks -> Pcs] /\ dns.pc[t] = "clear"
  BY DEF DnsInv, DnsOK, Dnss, ClearBits, At
<1>2. PICK p \in [Tasks -> Pcs] : p = [dns.pc EXCEPT ![t] = "ask"]
  BY <1>1 DEF Pcs
<1>3. PICK o \in BOOLEAN : o = (dns.overlap \/ \E u \in Tasks : dns.pc[u] \in Busy)
  OBVIOUS
<1>4. dns' = [dns EXCEPT !.bits = {}, !.pc = p, !.overlap = o]
  BY <1>2, <1>3 DEF ClearBits, Looking
<1>5. /\ dns' \in Dnss /\ dns'.bits = {} /\ dns'.pc = p /\ dns'.overlap = o
      /\ dns'.asked = dns.asked /\ dns'.late = dns.late
  BY <1>1, <1>4 DEF Dnss
<1>6. \A u \in Tasks : p[u] = IF u = t THEN "ask" ELSE dns.pc[u]
  BY <1>1, <1>2
<1>7. t \notin dns.asked
  BY <1>1 DEF DnsInv, DnsOK, Waited
<1>8. \A u \in dns.asked : p[u] = dns.pc[u] /\ u \in Tasks
  BY <1>1, <1>6, <1>7 DEF Dnss
<1>9. ASSUME ~o PROVE Alone(dns')
  <2>1. ~dns.overlap /\ \A u \in Tasks : dns.pc[u] \notin Busy
    BY <1>3, <1>9
  <2>2. \A u \in Tasks : p[u] \in Busy => u = t
    BY <1>6, <2>1
  <2>3. \A u \in dns.asked : p[u] = "waitDone"
    BY <1>8, <2>1 DEF DnsInv, DnsOK, Alone
  <2> QED BY <1>5, <2>2, <2>3 DEF Alone
<1>10. dns.late > 0 => o
  BY <1>3 DEF DnsInv, DnsOK
<1> QED BY <1>5, <1>8, <1>9, <1>10 DEF DnsOK, DnsInv

LEMMA SetIdleDnsInv ==
  ASSUME DnsInv, NEW t \in Tasks, SetIdle(t)
  PROVE  DnsOK(dns')
<1>1. dns \in Dnss /\ dns.pc \in [Tasks -> Pcs] /\ dns.pc[t] = "setIdle" /\ dns.asked \subseteq Tasks
  BY DEF DnsInv, DnsOK, Dnss, SetIdle, At
<1>2. PICK p \in [Tasks -> Pcs] : p = Woken([dns.pc EXCEPT ![t] = "out"], "waitIdle", "clear")
  BY <1>1 DEF Woken, Pcs
<1>3. \A u \in Tasks : p[u] = IF u = t THEN "out"
                             ELSE IF dns.pc[u] = "waitIdle" THEN "clear" ELSE dns.pc[u]
  BY <1>1, <1>2 DEF Woken
<1>4. PICK l \in Nat : l = IF t \in dns.asked /\ dns.late < MaxLate THEN dns.late + 1 ELSE dns.late
  BY <1>1 DEF Dnss
<1>5. dns' = [dns EXCEPT !.bits = dns.bits \cup {"IDLE"}, !.pc = p, !.asked = dns.asked \ {t},
                         !.late = l]
  BY <1>2, <1>4 DEF SetIdle, Looking
<1>6. /\ dns' \in Dnss /\ dns'.bits = dns.bits \cup {"IDLE"} /\ dns'.pc = p
      /\ dns'.asked = dns.asked \ {t} /\ dns'.late = l /\ dns'.overlap = dns.overlap
  BY <1>1, <1>5 DEF Dnss
<1>7. l > 0 => dns.overlap
  <2>1. ASSUME t \in dns.asked PROVE dns.overlap
    BY <1>1, <2>1 DEF DnsInv, DnsOK, Alone
  <2> QED BY <1>4, <2>1 DEF DnsInv, DnsOK
<1>8. \A u \in dns.asked \ {t} : p[u] = dns.pc[u]
  BY <1>1, <1>3 DEF DnsInv, DnsOK, Waited
<1>9. \A u \in Tasks : (p[u] \in Busy => dns.pc[u] \in Busy) /\ (p[u] = "ask" => dns.pc[u] = "ask")
  BY <1>3 DEF Busy
<1>10. ASSUME ~dns.overlap PROVE Alone(dns')
  <2>1. Alone(dns)
    BY <1>10 DEF DnsInv, DnsOK
  <2>2. \A u, v \in Tasks : p[u] \in Busy /\ p[v] \in Busy => u = v
    BY <1>9, <2>1 DEF Alone
  <2>3. \A u \in Tasks : p[u] = "ask" => "DONE" \notin dns.bits \cup {"IDLE"}
    BY <1>9, <2>1 DEF Alone
  <2>4. "DONE" \in dns.bits \cup {"IDLE"} => dns.asked \ {t} = {}
    BY <2>1 DEF Alone
  <2>5. \A u \in dns.asked \ {t} : p[u] = "waitDone"
    BY <1>8, <2>1 DEF Alone
  <2> QED BY <1>6, <2>2, <2>3, <2>4, <2>5 DEF Alone
<1> QED BY <1>6, <1>7, <1>8, <1>10 DEF DnsInv, DnsOK

LEMMA FoundDnsInv ==
  ASSUME DnsInv, NEW t \in Tasks, Found(t)
  PROVE  DnsOK(dns')
<1>1. dns \in Dnss /\ dns.pc \in [Tasks -> Pcs] /\ t \in dns.asked /\ dns.asked \subseteq Tasks
  BY DEF DnsInv, DnsOK, Dnss, Found
<1>2. PICK d : d = [dns EXCEPT !.asked = @ \ {t}]
  OBVIOUS
<1>3. /\ d \in Dnss /\ d.bits = dns.bits /\ d.pc = dns.pc /\ d.asked = dns.asked \ {t}
      /\ d.late = dns.late /\ d.overlap = dns.overlap
  BY <1>1, <1>2 DEF Dnss
<1>4. dns' = [d EXCEPT !.bits = @ \cup {"DONE"}, !.pc = Woken(@, "waitDone", "clearDone")]
  BY <1>2 DEF Found, Answered, Looking
<1>5. ASSUME ~dns.overlap
      PROVE  /\ dns.asked \ {t} = {}
             /\ \A u, v \in Tasks : dns.pc[u] \in Busy /\ dns.pc[v] \in Busy => u = v
             /\ \A u \in Tasks : dns.pc[u] # "ask"
  <2>1. Alone(dns)
    BY <1>5 DEF DnsInv, DnsOK
  <2>2. dns.pc[t] = "waitDone" /\ \A u \in dns.asked : dns.pc[u] \in Busy
    BY <1>1, <2>1 DEF Alone, Busy
  <2>3. \A u, v \in Tasks : dns.pc[u] \in Busy /\ dns.pc[v] \in Busy => u = v
    BY <2>1 DEF Alone
  <2>4. \A u \in dns.asked : u = t
    BY <1>1, <2>2, <2>3 DEF Busy
  <2>5. \A u \in Tasks : dns.pc[u] # "ask"
    BY <1>1, <2>2, <2>3 DEF Busy
  <2> QED BY <2>3, <2>4, <2>5
<1>6. /\ d.late > 0 => d.overlap
      /\ \A u \in d.asked : d.pc[u] \in Waited
  BY <1>3 DEF DnsInv, DnsOK
<1> QED BY <1>3, <1>4, <1>5, <1>6, AnsweredDnsOK

LEMMA FoundLateDnsInv ==
  ASSUME DnsInv, FoundLate
  PROVE  DnsOK(dns')
<1>1. dns \in Dnss /\ dns.late > 0 /\ dns.overlap
  BY DEF DnsInv, DnsOK, FoundLate
<1>2. PICK d : d = [dns EXCEPT !.late = @ - 1]
  OBVIOUS
<1>3. dns.late - 1 \in Nat
  BY <1>1 DEF Dnss
<1>4. d \in Dnss /\ d.pc = dns.pc /\ d.asked = dns.asked /\ d.overlap = dns.overlap
  BY <1>1, <1>2, <1>3 DEF Dnss
<1>5. dns' = [d EXCEPT !.bits = @ \cup {"DONE"}, !.pc = Woken(@, "waitDone", "clearDone")]
  BY <1>2 DEF FoundLate, Answered, Looking
<1>6. \A u \in d.asked : d.pc[u] \in Waited
  BY <1>4 DEF DnsInv, DnsOK
<1> QED BY <1>1, <1>4, <1>5, <1>6, AnsweredDnsOK

LEMMA LookupDnsInv ==
  ASSUME DnsInv, NEW t \in Tasks, hostByName(t)
  PROVE  DnsOK(dns')
<1>0. /\ dns.bits \in SUBSET {"IDLE", "DONE"} /\ dns.asked \in SUBSET Tasks
      /\ DnsOK(dns) /\ dns \in Dnss
  BY DEF DnsInv, DnsOK, Dnss
<1>1. CASE WaitIdle(t)
  <2>1. /\ dns.pc[t] = "waitIdle"
        /\ dns' = [dns EXCEPT !.bits = dns.bits, !.pc[t] = "clear", !.asked = dns.asked]
    BY <1>0, <1>1 DEF WaitIdle, At, Looking, Dnss
  <2>2. t \notin dns.asked /\ "clear" \in Pcs /\ "clear" \notin Busy
    BY <2>1 DEF DnsInv, DnsOK, Waited, Pcs, Busy
  <2>3. Moves(t, "clear", dns.bits, dns.asked)
    BY <1>0, <2>1, <2>2, MovesIf
  <2> QED BY <1>0, <2>2, <2>3, MoveDnsOK
<1>2. CASE ClearBits(t)
  BY <1>2, ClearBitsDnsInv
<1>3. CASE Ask(t)
  <2>1. dns.pc[t] = "ask" /\ t \notin dns.asked
    BY <1>3 DEF Ask, At, DnsInv, DnsOK, Waited
  <2>2. /\ "setIdle" \in Pcs /\ "waitDone" \in Pcs /\ "waitDone" \in Waited
        /\ dns.pc[t] \in Busy
    BY <2>1 DEF Pcs, Waited, Busy
  <2>3. ~dns.overlap => "DONE" \notin dns.bits
    BY <2>1 DEF DnsInv, DnsOK, Alone
  <2>4. CASE dns' = [dns EXCEPT !.pc[t] = "setIdle"]
    <3>1. dns' = [dns EXCEPT !.bits = dns.bits, !.pc[t] = "setIdle", !.asked = dns.asked]
      BY <1>0, <2>4 DEF Dnss
    <3>2. Moves(t, "setIdle", dns.bits, dns.asked)
      BY <1>0, <2>2, <3>1, MovesIf
    <3> QED BY <1>0, <2>1, <2>2, <3>2, MoveDnsOK
  <2>5. CASE dns' = [dns EXCEPT !.pc[t] = "waitDone", !.asked = @ \cup {t}]
    <3>1. dns' = [dns EXCEPT !.bits = dns.bits, !.pc[t] = "waitDone", !.asked = dns.asked \cup {t}]
      BY <1>0, <2>5 DEF Dnss
    <3>2. dns.asked \cup {t} \in SUBSET Tasks
      BY <1>0
    <3>3. Moves(t, "waitDone", dns.bits, dns.asked \cup {t})
      BY <1>0, <2>2, <3>1, <3>2, MovesIf
    <3> QED BY <1>0, <2>1, <2>2, <2>3, <3>3, MoveDnsOK
  <2> QED BY <1>3, <2>4, <2>5 DEF Ask, Looking
<1>4. CASE WaitDone(t)
  <2>1. /\ dns.pc[t] = "waitDone" /\ ("DONE" \in dns.bits \/ t \notin dns.asked)
        /\ dns' = [dns EXCEPT !.bits = dns.bits, !.pc[t] = "clearDone", !.asked = dns.asked]
    BY <1>0, <1>4 DEF WaitDone, At, Looking, Dnss
  <2>2. "clearDone" \in Pcs /\ "clearDone" \in Waited /\ dns.pc[t] \in Busy
    BY <2>1 DEF Pcs, Waited, Busy
  <2>3. ~dns.overlap => t \notin dns.asked
    BY <2>1 DEF DnsInv, DnsOK, Alone
  <2>4. Moves(t, "clearDone", dns.bits, dns.asked)
    BY <1>0, <2>1, <2>2, MovesIf
  <2> QED BY <1>0, <2>1, <2>2, <2>3, <2>4, MoveDnsOK
<1>5. CASE ClearDone(t)
  <2>1. /\ dns.pc[t] = "clearDone"
        /\ dns' = [dns EXCEPT !.bits = dns.bits \ {"DONE"}, !.pc[t] = "setIdle", !.asked = dns.asked]
    BY <1>0, <1>5 DEF ClearDone, At, Looking, Dnss
  <2>2. "setIdle" \in Pcs /\ "setIdle" \in Waited /\ dns.pc[t] \in Busy
    BY <2>1 DEF Pcs, Waited, Busy
  <2>3. ~dns.overlap => t \notin dns.asked
    BY <2>1 DEF DnsInv, DnsOK, Alone
  <2>4. dns.bits \ {"DONE"} \in SUBSET {"IDLE", "DONE"} /\ "DONE" \notin dns.bits \ {"DONE"}
    BY <1>0
  <2>5. Moves(t, "setIdle", dns.bits \ {"DONE"}, dns.asked)
    BY <1>0, <2>1, <2>2, <2>4, MovesIf
  <2> QED BY <1>0, <2>1, <2>2, <2>3, <2>4, <2>5, MoveDnsOK
<1>6. CASE SetIdle(t)
  BY <1>6, SetIdleDnsInv
<1> QED BY <1>1, <1>2, <1>3, <1>4, <1>5, <1>6 DEF hostByName

(* A hostByName() called by the loop task or by a callback. *)
LEMMA EnterDnsInv ==
  ASSUME DnsInv, NEW t \in Tasks, dns.pc[t] = "out", dns' = [dns EXCEPT !.pc[t] = "waitIdle"]
  PROVE  DnsOK(dns')
<1>0. /\ dns.bits \in SUBSET {"IDLE", "DONE"} /\ dns.asked \in SUBSET Tasks
      /\ DnsOK(dns) /\ dns \in Dnss
  BY DEF DnsInv, DnsOK, Dnss
<1>1. dns' = [dns EXCEPT !.bits = dns.bits, !.pc[t] = "waitIdle", !.asked = dns.asked]
  BY <1>0 DEF Dnss
<1>2. t \notin dns.asked /\ "waitIdle" \in Pcs /\ "waitIdle" \notin Busy
  BY DEF DnsInv, DnsOK, Waited, Pcs, Busy
<1>3. Moves(t, "waitIdle", dns.bits, dns.asked)
  BY <1>0, <1>1, <1>2, MovesIf
<1> QED BY <1>0, <1>2, <1>3, MoveDnsOK

(* Making the event group sets IDLE and takes DONE away. *)
LEMMA TcpipInitDnsInv ==
  ASSUME DnsInv, tcpipInit
  PROVE  DnsOK(dns')
<1>1. dns \in Dnss
  BY DEF DnsInv, DnsOK
<1>2. PICK b \in {{"IDLE"}, dns.bits} : dns' = [dns EXCEPT !.bits = b]
  BY DEF tcpipInit
<1>3. /\ dns' \in Dnss /\ dns'.bits = b /\ dns'.pc = dns.pc /\ dns'.asked = dns.asked
      /\ dns'.late = dns.late /\ dns'.overlap = dns.overlap
  BY <1>1, <1>2 DEF Dnss
<1>4. "DONE" \in b => "DONE" \in dns.bits
  OBVIOUS
<1> QED BY <1>3, <1>4 DEF DnsInv, DnsOK, Alone

(* The IDLE bit does its work as long as no two tasks have got past it at  *)
(* the same time: an answer of lwIP is never written to the frame of a     *)
(* hostByName() that has returned.                                         *)
THEOREM LateNeedsOverlap == Spec => []LateOnlyAfterOverlap
<1>1. Init => DnsInv
  BY DEF Init, EventsInit, DnsInv, DnsOK, Dnss, Alone, Pcs, Busy
<1>2. DnsInv /\ [Next]_vars => DnsInv'
  <2> SUFFICES ASSUME DnsInv, [Next]_vars PROVE DnsOK(dns')
    BY DEF DnsInv, DnsOK, Alone
  <2>1. CASE UNCHANGED dns
    BY <2>1 DEF DnsInv
  <2>2. CASE tcpipInit
    BY <2>2, TcpipInitDnsInv
  <2>3. CASE Call
    BY <2>1, <2>3, EnterDnsInv DEF Call, Walking, Tasks
  <2>4. CASE LookUp
    BY <2>4, EnterDnsInv DEF LookUp, At, Looking, Tasks
  <2>5. ASSUME NEW t \in Tasks, hostByName(t) \/ Found(t) PROVE DnsOK(dns')
    BY <2>5, LookupDnsInv, FoundDnsInv
  <2>6. CASE FoundLate
    BY <2>6, FoundLateDnsInv
  <2>7. EventsNext => \/ UNCHANGED dns \/ tcpipInit \/ Call \/ LookUp \/ FoundLate
                      \/ \E t \in Tasks : hostByName(t) \/ Found(t)
    BY DEF EventsNext, SketchOnEvent, SketchRemoveEvent, Receive, PassOver, Return
  <2> QED BY <2>1, <2>2, <2>3, <2>4, <2>5, <2>6, <2>7 DEF Next, vars, eventVars
<1>3. DnsInv => LateOnlyAfterOverlap
  BY DEF DnsInv, DnsOK, LateOnlyAfterOverlap
<1> QED BY <1>1, <1>2, <1>3, PTL DEF Spec
-----------------------------------------------------------------------------
(* cbEventList                                                             *)

(* What a removal loop leaves is a part of the list in its order: the      *)
(* entry at j was at pos[j], never before j.                               *)
Part(new, old, pos) ==
  /\ pos \in [1..Len(new) -> 1..Len(old)]
  /\ \A j \in 1..Len(new) : new[j] = old[pos[j]] /\ j <= pos[j]
  /\ \A j, k \in 1..Len(new) : j < k => pos[j] < pos[k]

LEMMA WithoutIsPart ==
  ASSUME NEW S, NEW list \in Seq(S), NEW ks \in SUBSET (1..Len(list))
  PROVE  Without(list, ks) \in Seq(S) /\ \E pos : Part(Without(list, ks), list, pos)
<1>0. PICK n \in Nat : n = Len(list)
  OBVIOUS
<1> DEFINE kept == {k \in 1..n : k \notin ks}
           upTo(k) == {i \in kept : i <= k}
           rank == [k \in kept |-> Cardinality(upTo(k))]
<1>1. IsFiniteSet(1..n) /\ Cardinality(1..n) = n
  BY FS_Interval
<1>2. IsFiniteSet(ks) /\ IsFiniteSet(kept) /\ ks \subseteq 1..n
  BY <1>0, <1>1, FS_Subset
<1>3. PICK m \in Nat : m = Cardinality(kept) /\ m = n - Cardinality(ks)
  <2>1. kept = (1..n) \ ks /\ (1..n) \cap ks = ks
    BY <1>2
  <2>2. Cardinality((1..n) \ ks) = Cardinality(1..n) - Cardinality((1..n) \cap ks)
    BY <1>1, FS_Difference
  <2>3. Cardinality(kept) \in Nat
    BY <1>2, FS_CardinalityType
  <2> QED BY <1>1, <2>1, <2>2, <2>3
<1>4. \A k : IsFiniteSet(upTo(k)) /\ Cardinality(upTo(k)) \in Nat /\ Cardinality(upTo(k)) <= m
  <2>1. SUFFICES ASSUME NEW k
                 PROVE  /\ IsFiniteSet(upTo(k)) /\ Cardinality(upTo(k)) \in Nat
                        /\ Cardinality(upTo(k)) <= m
    OBVIOUS
  <2>2. upTo(k) \in SUBSET kept
    OBVIOUS
  <2> QED BY <1>2, <1>3, <2>2, FS_Subset, FS_CardinalityType
<1>5. \A k \in kept : Cardinality(upTo(k)) <= k
  <2>1. SUFFICES ASSUME NEW k \in kept PROVE Cardinality(upTo(k)) <= k
    OBVIOUS
  <2>2. upTo(k) \in SUBSET (1..k) /\ k \in Nat /\ k >= 1
    BY <1>0
  <2>3. IsFiniteSet(1..k) /\ Cardinality(1..k) = k
    BY <2>2, FS_Interval
  <2> QED BY <2>2, <2>3, FS_Subset
<1>6. \A k \in kept, l \in kept : k < l => Cardinality(upTo(k)) < Cardinality(upTo(l))
  <2>1. SUFFICES ASSUME NEW k \in kept, NEW l \in kept, k < l
                 PROVE  Cardinality(upTo(k)) < Cardinality(upTo(l))
    OBVIOUS
  <2>2. upTo(k) \in SUBSET upTo(l) /\ l \in upTo(l) /\ l \notin upTo(k)
    BY <1>0, <2>1
  <2>3. upTo(k) # upTo(l)
    BY <2>2
  <2>4. IsFiniteSet(upTo(l)) /\ Cardinality(upTo(k)) \in Nat /\ Cardinality(upTo(l)) \in Nat
    BY <1>4
  <2> HIDE DEF upTo
  <2>5. Cardinality(upTo(k)) <= Cardinality(upTo(l)) /\ Cardinality(upTo(k)) # Cardinality(upTo(l))
    BY <2>2, <2>3, <2>4, FS_Subset
  <2> QED BY <2>4, <2>5
<1>7. \A k \in kept : Cardinality(upTo(k)) \in 1..m
  <2>1. SUFFICES ASSUME NEW k \in kept PROVE Cardinality(upTo(k)) \in 1..m
    OBVIOUS
  <2>2. k \in upTo(k)
    BY <1>0
  <2>3. /\ IsFiniteSet(upTo(k)) /\ Cardinality(upTo(k)) \in Nat /\ Cardinality(upTo(k)) <= m
        /\ upTo(k) # {}
    BY <1>4, <2>2
  <2> HIDE DEF upTo
  <2>4. Cardinality(upTo(k)) # 0
    BY <2>3, FS_EmptySet
  <2> QED BY <2>3, <2>4
<1>8. PICK r \in [kept -> 1..m] : \A k \in kept : r[k] = Cardinality(upTo(k))
  <2>1. rank \in [kept -> 1..m] /\ \A k \in kept : rank[k] = Cardinality(upTo(k))
    BY <1>7
  <2> QED BY <2>1
<1>9. /\ \A k \in kept : k \in 1..n /\ r[k] \in 1..m /\ r[k] <= k
      /\ \A k, l \in kept : k < l => r[k] < r[l]
  BY <1>5, <1>6, <1>8
<1>10. \A j \in 1..m : \E k \in kept : r[k] = j
  <2>1. \A k, l \in kept : r[k] = r[l] => k = l
    <3>1. SUFFICES ASSUME NEW k \in kept, NEW l \in kept, r[k] = r[l], k # l PROVE FALSE
      OBVIOUS
    <3>2. k \in Int /\ l \in Int /\ r[k] \in Int
      BY <1>9
    <3>3. CASE k < l
      BY <1>9, <3>1, <3>2, <3>3
    <3>4. CASE l < k
      BY <1>9, <3>1, <3>2, <3>4
    <3> QED BY <3>1, <3>2, <3>3, <3>4
  <2> HIDE DEF kept
  <2>2. r \in Injection(kept, 1..m)
    BY <1>8, <2>1 DEF Injection, IsInjective
  <2>3. IsFiniteSet(1..m) /\ Cardinality(1..m) = m
    BY FS_Interval
  <2>4. r \in Surjection(kept, 1..m)
    BY <1>3, <2>2, <2>3, FS_Injection
  <2> QED BY <2>4 DEF Surjection
<1>11. PICK new : new = Without(list, ks)
  OBVIOUS
<1>12. new = [j \in 1..m |-> list[CHOOSE k \in kept : Cardinality(upTo(k)) = j]]
  <2>1. Len(list) - Cardinality(ks) = m
    BY <1>0, <1>3
  <2> QED BY <1>0, <1>11, <2>1 DEF Without
<1>13. PICK pos \in [1..m -> kept] : \A j \in 1..m : r[pos[j]] = j /\ new[j] = list[pos[j]]
  <2> DEFINE at(j) == CHOOSE k \in kept : Cardinality(upTo(k)) = j
  <2>1. \A j \in 1..m : at(j) \in kept /\ Cardinality(upTo(at(j))) = j
    <3>1. SUFFICES ASSUME NEW j \in 1..m
                   PROVE  at(j) \in kept /\ Cardinality(upTo(at(j))) = j
      OBVIOUS
    <3> HIDE DEF kept, upTo
    <3>2. \E k \in kept : Cardinality(upTo(k)) = j
      BY <1>8, <1>10
    <3> QED BY <3>2
  <2>2. \A j \in 1..m : new[j] = list[at(j)]
    BY <1>12
  <2> HIDE DEF at
  <2>3. [j \in 1..m |-> at(j)] \in [1..m -> kept]
    BY <2>1
  <2> QED BY <1>8, <2>1, <2>2, <2>3
<1>14. new \in Seq(S) /\ Len(new) = m
  <2>1. \A j \in 1..m : list[pos[j]] \in S
    BY <1>0, <1>9, <1>13
  <2>2. new \in [1..m -> S]
    BY <1>12, <1>13, <2>1
  <2> QED BY <2>2
<1> HIDE DEF kept
<1>15. \A j \in 1..m : j <= pos[j] /\ pos[j] \in 1..n
  BY <1>9, <1>13
<1>16. \A j, k \in 1..m : j < k => pos[j] < pos[k]
  <2>1. SUFFICES ASSUME NEW j \in 1..m, NEW k \in 1..m, j < k, ~(pos[j] < pos[k]) PROVE FALSE
    OBVIOUS
  <2>2. pos[k] \in Int /\ pos[j] \in Int /\ r[pos[j]] = j /\ r[pos[k]] = k
    BY <1>13, <1>15
  <2>3. CASE pos[k] = pos[j]
    BY <2>1, <2>2, <2>3
  <2>4. CASE pos[k] < pos[j]
    <3>1. r[pos[k]] < r[pos[j]]
      BY <1>9, <1>13, <2>4
    <3> QED BY <2>1, <2>2, <3>1
  <2> QED BY <2>1, <2>2, <2>3, <2>4
<1>17. pos \in [1..Len(new) -> 1..Len(list)]
  BY <1>0, <1>13, <1>14, <1>15
<1>18. Part(new, list, pos)
  BY <1>13, <1>14, <1>15, <1>16, <1>17 DEF Part
<1> QED BY <1>11, <1>14, <1>18
(* removeEvent(), by id or by function, takes some places out of the list. *)
LEMMA RemovalIsPart ==
  ASSUME cbs \in [list : Seq(Entries), current_id : Nat],
         \/ \E id : cbs' = RemoveEventId(cbs, id)
         \/ \E fn, ev : cbs' = RemoveEventFn(cbs, fn, ev)
  PROVE  /\ cbs' \in [list : Seq(Entries), current_id : Nat]
         /\ cbs'.current_id = cbs.current_id
         /\ \E pos : Part(cbs'.list, cbs.list, pos)
<1>1. \E matching : cbs' = [cbs EXCEPT !.list = Without(@, Erased(@, matching))]
  BY DEF RemoveEventId, RemoveEventFn
<1>2. PICK ks \in SUBSET (1..Len(cbs.list)) : cbs' = [cbs EXCEPT !.list = Without(cbs.list, ks)]
  <2>1. \A matching : Erased(cbs.list, matching) \in SUBSET (1..Len(cbs.list))
    BY DEF Erased
  <2> QED BY <1>1, <2>1
<1>3. PICK new : new = Without(cbs.list, ks)
  OBVIOUS
<1>4. new \in Seq(Entries) /\ \E pos : Part(new, cbs.list, pos)
  BY <1>3, WithoutIsPart
<1> QED BY <1>2, <1>3, <1>4

(* Ids are given out in order and a new entry goes to the end of the list, *)
(* so ids increase along it, whatever is removed.                          *)
ListInv ==
  /\ cbs \in [list : Seq(Entries), current_id : Nat]
  /\ \A j, k \in 1..Len(cbs.list) : j < k => cbs.list[j].id < cbs.list[k].id
  /\ \A k \in 1..Len(cbs.list) : cbs.list[k].id < cbs.current_id

Walks == [on : BOOLEAN, ev : Ids \cup {AnyEvent}, i : Nat, called : Seq(Nat), cut : BOOLEAN]

(* The ids called increase, and stay below every id that the task has yet  *)
(* to reach: a removal moves entries towards the front of the list, past   *)
(* the index, never back to it.                                            *)
CalledInv ==
  /\ \A j, k \in 1..Len(walk.called) : j < k => walk.called[j] < walk.called[k]
  /\ \A j \in 1..Len(walk.called) :
       /\ walk.called[j] < cbs.current_id
       /\ \A k \in 1..Len(cbs.list) : walk.i <= k => walk.called[j] < cbs.list[k].id

(* Without a removal, what lies before the index has been called. *)
BehindInv ==
  walk.on /\ ~walk.cut =>
    \A k \in 1..Len(cbs.list) :
      k < walk.i /\ Matches(cbs.list[k]) =>
        \E j \in 1..Len(walk.called) : walk.called[j] = cbs.list[k].id

WalkInv ==
  /\ ListInv /\ CalledInv /\ BehindInv
  /\ walk \in Walks /\ (walk.on => walk.i > 0) /\ (~walk.on => walk.called = <<>>)

LEMMA RemoveListInv ==
  ASSUME ListInv, NEW pos,
         cbs' \in [list : Seq(Entries), current_id : Nat], cbs'.current_id = cbs.current_id,
         Part(cbs'.list, cbs.list, pos)
  PROVE  ListInv'
<1>1. PICK n \in Nat : n = Len(cbs'.list)
  OBVIOUS
<1>2. /\ \A j \in 1..n : pos[j] \in 1..Len(cbs.list) /\ cbs'.list[j] = cbs.list[pos[j]]
      /\ \A j, k \in 1..n : j < k => pos[j] < pos[k]
  BY <1>1 DEF Part
<1>3. \A j, k \in 1..n : j < k => cbs'.list[j].id < cbs'.list[k].id
  BY <1>2 DEF ListInv
<1>4. \A k \in 1..n : cbs'.list[k].id < cbs'.current_id
  BY <1>2 DEF ListInv
<1> QED BY <1>1, <1>3, <1>4 DEF ListInv

LEMMA AppendListInv ==
  ASSUME ListInv, NEW fn \in Fns, NEW ev \in Ids \cup {AnyEvent},
         cbs' = OnEvent(cbs, NewEntry(cbs, fn, ev))
  PROVE  /\ ListInv' /\ cbs'.current_id = cbs.current_id + 1
         /\ Len(cbs'.list) = Len(cbs.list) + 1
         /\ \A k \in 1..Len(cbs.list) : cbs'.list[k] = cbs.list[k]
         /\ cbs'.list[Len(cbs.list) + 1].id = cbs.current_id
<1>1. PICK e \in Entries : e = NewEntry(cbs, fn, ev) /\ e.id = cbs.current_id
  BY DEF ListInv, Entries, NewEntry
<1>2. cbs' = [cbs EXCEPT !.list = Append(cbs.list, e), !.current_id = cbs.current_id + 1]
  BY <1>1 DEF OnEvent
<1>3. PICK new : new = Append(cbs.list, e)
  OBVIOUS
<1>4. PICK n \in Nat : n = Len(cbs.list)
  BY DEF ListInv
<1>5. /\ new \in Seq(Entries) /\ Len(new) = n + 1 /\ new[n + 1] = e
      /\ \A k \in 1..n : new[k] = cbs.list[k]
  BY <1>3, <1>4 DEF ListInv
<1>6. cbs'.list = new /\ cbs'.current_id = cbs.current_id + 1
      /\ cbs' \in [list : Seq(Entries), current_id : Nat]
  <2>1. cbs.current_id + 1 \in Nat /\ cbs \in [list : Seq(Entries), current_id : Nat]
    BY DEF ListInv
  <2> QED BY <1>2, <1>3, <1>5, <2>1
<1>7. \A k \in 1..n : new[k].id < cbs.current_id /\ new[k].id \in Nat
  <2>1. \A k \in 1..n : new[k] \in Entries
    BY <1>5
  <2> QED BY <1>4, <1>5, <2>1 DEF ListInv, Entries
<1>8. \A j, k \in 1..n + 1 : j < k => new[j].id < new[k].id
  <2>1. SUFFICES ASSUME NEW j \in 1..n + 1, NEW k \in 1..n + 1, j < k PROVE new[j].id < new[k].id
    OBVIOUS
  <2>2. j \in 1..n
    BY <2>1
  <2>3. CASE k = n + 1
    BY <1>1, <1>5, <1>7, <2>2, <2>3
  <2>4. CASE k # n + 1
    <3>1. k \in 1..n
      BY <2>4
    <3> QED BY <1>4, <1>5, <2>1, <2>2, <3>1 DEF ListInv
  <2> QED BY <2>3, <2>4
<1>9. \A k \in 1..n + 1 : new[k].id < cbs.current_id + 1
  <2>1. SUFFICES ASSUME NEW k \in 1..n + 1 PROVE new[k].id < cbs.current_id + 1
    OBVIOUS
  <2>2. cbs.current_id \in Nat
    BY DEF ListInv
  <2>3. k = n + 1 \/ k \in 1..n
    OBVIOUS
  <2> QED BY <1>1, <1>5, <1>7, <2>2, <2>3
<1>10. ListInv'
  BY <1>5, <1>6, <1>8, <1>9 DEF ListInv
<1> QED BY <1>1, <1>4, <1>5, <1>6, <1>10
-----------------------------------------------------------------------------
(* The walk                                                                *)

(* The ids of the entries are numbers. *)
LEMMA IdsNat ==
  ASSUME ListInv
  PROVE  /\ cbs.list \in Seq(Entries) /\ Len(cbs.list) \in Nat /\ cbs.current_id \in Nat
         /\ \A k \in 1..Len(cbs.list) : cbs.list[k].id \in Nat /\ cbs.list[k].fn \in Fns
<1>1. cbs.list \in Seq(Entries) /\ cbs.current_id \in Nat
  BY DEF ListInv
<1>2. \A k \in 1..Len(cbs.list) : cbs.list[k] \in Entries
  BY <1>1
<1> QED BY <1>1, <1>2 DEF Entries

(* A callback is called: its id is greater than those called before and    *)
(* smaller than those still to come.                                       *)
LEMMA CalledGrows ==
  ASSUME WalkInv, Walking, NEW called, called = Append(walk.called, cbs.list[walk.i].id)
  PROVE  /\ called \in Seq(Nat) /\ Len(called) = Len(walk.called) + 1
         /\ \A j \in 1..Len(walk.called) : called[j] = walk.called[j]
         /\ called[Len(called)] = cbs.list[walk.i].id
         /\ \A j, k \in 1..Len(called) : j < k => called[j] < called[k]
         /\ \A j \in 1..Len(called) :
              /\ called[j] < cbs.current_id
              /\ \A k \in 1..Len(cbs.list) : walk.i + 1 <= k => called[j] < cbs.list[k].id
<1>1. PICK n \in Nat : n = Len(cbs.list) /\ \A k \in 1..n : cbs.list[k].id \in Nat
  BY IdsNat DEF WalkInv
<1>2. PICK i \in Nat : i = walk.i /\ i <= n
  BY <1>1 DEF WalkInv, Walks, Walking
<1>3. i \in 1..n
  <2>1. i > 0
    BY <1>2 DEF WalkInv, Walking
  <2> QED BY <1>2, <2>1
<1>4. PICK m \in Nat : m = Len(walk.called)
  BY DEF WalkInv, Walks
<1>5. PICK id \in Nat : id = cbs.list[i].id
  BY <1>1, <1>3
<1>6. /\ called \in Seq(Nat) /\ Len(called) = m + 1 /\ called[m + 1] = id
      /\ \A j \in 1..m : called[j] = walk.called[j] /\ called[j] \in Nat
  <2>1. walk.called \in Seq(Nat)
    BY DEF WalkInv, Walks
  <2> QED BY <1>2, <1>4, <1>5, <2>1
<1>a. \A j \in 1..m : /\ called[j] < cbs.current_id
                      /\ \A k \in 1..n : i <= k => called[j] < cbs.list[k].id
  BY <1>1, <1>2, <1>4, <1>6 DEF WalkInv, CalledInv
<1>7. \A j \in 1..m : called[j] < id /\ called[j] < cbs.current_id
  <2> SUFFICES ASSUME NEW j \in 1..m
               PROVE  called[j] < id /\ called[j] < cbs.current_id
    OBVIOUS
  <2>1. i \in 1..n /\ i <= i
    BY <1>3
  <2>2. called[j] < cbs.list[i].id
    BY <1>a, <2>1
  <2> QED BY <1>5, <1>a, <2>2
<1>8. \A j, k \in 1..m : j < k => called[j] < called[k]
  BY <1>4, <1>6 DEF WalkInv, CalledInv
<1>9. \A j, k \in 1..m + 1 : j < k => called[j] < called[k]
  <2>1. SUFFICES ASSUME NEW j \in 1..m + 1, NEW k \in 1..m + 1, j < k PROVE called[j] < called[k]
    OBVIOUS
  <2>2. j \in 1..m /\ (k \in 1..m \/ k = m + 1)
    BY <2>1
  <2> QED BY <1>6, <1>7, <1>8, <2>1, <2>2
<1>10. /\ id < cbs.current_id
       /\ \A k \in 1..n : i + 1 <= k => id < cbs.list[k].id
  BY <1>1, <1>3, <1>5 DEF WalkInv, ListInv
<1>11. \A j \in 1..m, k \in 1..n : i + 1 <= k => called[j] < cbs.list[k].id
  <2>1. \A k \in 1..n : i + 1 <= k => i <= k
    OBVIOUS
  <2> QED BY <1>a, <2>1
<1>12. \A j \in 1..m + 1 : j \in 1..m \/ j = m + 1
  OBVIOUS
<1>13. \A j \in 1..m + 1 : /\ called[j] < cbs.current_id
                           /\ \A k \in 1..n : i + 1 <= k => called[j] < cbs.list[k].id
  BY <1>6, <1>7, <1>10, <1>11, <1>12
<1> QED BY <1>1, <1>2, <1>4, <1>5, <1>6, <1>9, <1>13
(* The fields of walk after a callback was called. *)
LEMMA CalledFields ==
  ASSUME WalkInv, Walking, walk' = Called \/ walk' = [Called EXCEPT !.cut = TRUE]
  PROVE  /\ walk'.called = Append(walk.called, cbs.list[walk.i].id)
         /\ walk' \in Walks /\ walk'.i = walk.i + 1 /\ walk'.i > 0
         /\ walk'.on /\ walk'.ev = walk.ev
         /\ walk' = Called => walk'.cut = walk.cut
         /\ walk' # Called => walk'.cut
<1>1. PICK c : c = Append(walk.called, cbs.list[walk.i].id) /\ c \in Seq(Nat)
  BY CalledGrows
<1>2. walk \in Walks /\ walk.i + 1 \in Nat /\ walk.i + 1 > 0 /\ walk.on
  BY DEF WalkInv, Walks, Walking
<1>3. Called = [walk EXCEPT !.i = walk.i + 1, !.called = c]
  BY <1>1, <1>2 DEF Called, Passed, Walks
<1> QED BY <1>1, <1>2, <1>3 DEF Walks

LEMMA CallWalkInv ==
  ASSUME WalkInv, Call
  PROVE  WalkInv'
<1>0. Walking /\ Matches(cbs.list[walk.i]) /\ (walk' = Called \/ walk' = [Called EXCEPT !.cut = TRUE])
  BY DEF Call
<1>1. PICK n \in Nat : n = Len(cbs.list) /\ ListInv /\ cbs.current_id \in Nat
  BY IdsNat DEF WalkInv
<1>2. PICK i \in 1..n : i = walk.i
  BY <1>0, <1>1 DEF WalkInv, Walking, Walks
<1>3. PICK called : called = walk'.called
  OBVIOUS
<1>4. PICK m \in Nat : m = Len(walk.called)
  BY DEF WalkInv, Walks
<1>5. /\ called \in Seq(Nat) /\ Len(called) = m + 1
      /\ \A j \in 1..m : called[j] = walk.called[j]
      /\ called[m + 1] = cbs.list[i].id
      /\ \A j, k \in 1..m + 1 : j < k => called[j] < called[k]
      /\ \A j \in 1..m + 1 : /\ called[j] < cbs.current_id
                             /\ \A k \in 1..n : i + 1 <= k => called[j] < cbs.list[k].id
  <2>1. called = Append(walk.called, cbs.list[walk.i].id)
    BY <1>0, <1>3, CalledFields
  <2>2. /\ called \in Seq(Nat) /\ Len(called) = Len(walk.called) + 1
        /\ \A j \in 1..Len(walk.called) : called[j] = walk.called[j]
        /\ called[Len(called)] = cbs.list[walk.i].id
        /\ \A j, k \in 1..Len(called) : j < k => called[j] < called[k]
        /\ \A j \in 1..Len(called) :
             /\ called[j] < cbs.current_id
             /\ \A k \in 1..Len(cbs.list) : walk.i + 1 <= k => called[j] < cbs.list[k].id
    BY <1>0, <2>1, CalledGrows
  <2> QED BY <1>1, <1>2, <1>4, <2>2
<1>6. /\ walk' \in Walks /\ walk'.i = i + 1 /\ walk'.i > 0 /\ walk'.on /\ walk'.ev = walk.ev
      /\ walk' = Called => walk'.cut = walk.cut
      /\ walk' # Called => walk'.cut
  BY <1>0, <1>2, CalledFields
<1>7. ASSUME walk' = Called, ~walk.cut, NEW k \in 1..n, k < i + 1, Matches(cbs.list[k])
      PROVE  \E j \in 1..m + 1 : called[j] = cbs.list[k].id
  <2>1. CASE k = i
    BY <1>5, <2>1
  <2>2. CASE k # i
    <3>1. k < walk.i
      BY <1>2, <1>7, <2>2
    <3>2. PICK j \in 1..m : walk.called[j] = cbs.list[k].id
      BY <1>0, <1>1, <1>4, <1>7, <3>1 DEF WalkInv, BehindInv, Walking
    <3> QED BY <1>5, <3>2
  <2> QED BY <2>1, <2>2
<1>8. CASE UNCHANGED cbs /\ walk' = Called
  <2>1. CalledInv'
    BY <1>1, <1>3, <1>5, <1>6, <1>8 DEF CalledInv
  <2>2. BehindInv'
    BY <1>1, <1>3, <1>5, <1>6, <1>7, <1>8 DEF BehindInv, Matches
  <2> QED BY <1>1, <1>6, <1>8, <2>1, <2>2 DEF WalkInv, ListInv
<1>9. ASSUME NEW ev \in {walk.ev, AnyEvent}, cbs' = OnEvent(cbs, NewEntry(cbs, cbs.list[i].fn, ev)),
             walk' = Called
      PROVE  WalkInv'
  <2>1. cbs.list[i].fn \in Fns /\ ev \in Ids \cup {AnyEvent}
    BY <1>1, <1>2, IdsNat DEF WalkInv, Walks
  <2>2. /\ ListInv' /\ cbs'.current_id = cbs.current_id + 1 /\ Len(cbs'.list) = n + 1
        /\ \A k \in 1..n : cbs'.list[k] = cbs.list[k]
        /\ cbs'.list[n + 1].id = cbs.current_id
    BY <1>1, <1>9, <2>1, AppendListInv
  <2>3. CalledInv'
    <3>1. \A j \in 1..m + 1 : called[j] \in Nat /\ called[j] < cbs.current_id + 1
      BY <1>1, <1>5
    <3>2. \A j \in 1..m + 1, k \in 1..n + 1 : i + 1 <= k => called[j] < cbs'.list[k].id
      <4>1. \A k \in 1..n + 1 : k \in 1..n \/ k = n + 1
        OBVIOUS
      <4> QED BY <1>5, <2>2, <4>1
    <3> QED BY <1>3, <1>5, <1>6, <2>2, <3>1, <3>2 DEF CalledInv
  <2>4. BehindInv'
    <3>1. ASSUME ~walk'.cut, NEW k \in 1..n + 1, k < i + 1, Matches(cbs.list[k])'
          PROVE  \E j \in 1..m + 1 : called[j] = cbs'.list[k].id
      <4>1. k \in 1..n
        BY <3>1
      <4>2. Matches(cbs.list[k])
        BY <1>6, <2>2, <3>1, <4>1 DEF Matches
      <4> QED BY <1>6, <1>7, <1>9, <2>2, <3>1, <4>1, <4>2
    <3> QED BY <1>3, <1>5, <1>6, <2>2, <3>1 DEF BehindInv, Matches
  <2> QED BY <1>6, <2>2, <2>3, <2>4 DEF WalkInv
<1>10. ASSUME NEW id, cbs' = RemoveEventId(cbs, id), walk' = [Called EXCEPT !.cut = TRUE]
       PROVE  WalkInv'
  <2>1. PICK pos : /\ cbs' \in [list : Seq(Entries), current_id : Nat]
                   /\ cbs'.current_id = cbs.current_id /\ Part(cbs'.list, cbs.list, pos)
    BY <1>1, <1>10, RemovalIsPart DEF ListInv
  <2>2. ListInv'
    BY <1>1, <2>1, RemoveListInv
  <2>3. PICK l \in Nat : l = Len(cbs'.list)
    BY <2>1
  <2>4. \A k \in 1..l : cbs'.list[k] = cbs.list[pos[k]] /\ k <= pos[k] /\ pos[k] \in 1..n
    BY <1>1, <2>1, <2>3 DEF Part
  <2>5. \A j \in 1..m + 1, k \in 1..l : i + 1 <= k => called[j] < cbs'.list[k].id
    <3> SUFFICES ASSUME NEW j \in 1..m + 1, NEW k \in 1..l, i + 1 <= k
                 PROVE  called[j] < cbs'.list[k].id
      OBVIOUS
    <3>1. PICK p \in 1..n : p = pos[k] /\ cbs'.list[k] = cbs.list[p] /\ k <= p
      BY <2>4
    <3>2. i + 1 <= p
      BY <3>1
    <3>3. called[j] < cbs.list[p].id
      BY <1>5, <3>2
    <3> QED BY <3>1, <3>3
  <2>6. CalledInv'
    BY <1>3, <1>5, <1>6, <2>1, <2>3, <2>5 DEF CalledInv
  <2>7. walk'.cut
    <3>1. walk \in Walks
      BY DEF WalkInv
    <3> QED BY <1>0, <1>6, <1>10, <3>1 DEF Called, Passed, Walks
  <2>8. BehindInv'
    BY <2>7 DEF BehindInv
  <2> QED BY <1>6, <2>2, <2>6, <2>8 DEF WalkInv
<1> QED BY <1>0, <1>2, <1>8, <1>9, <1>10 DEF Call

LEMMA EventsNextWalkInv ==
  ASSUME WalkInv, EventsNext
  PROVE  WalkInv'
<1>0. walk \in Walks /\ ListInv
  BY DEF WalkInv
<1>1. CASE UNCHANGED <<cbs, walk>>
  BY <1>1 DEF WalkInv, ListInv, CalledInv, BehindInv, Matches
<1>2. ASSUME ~walk.on, UNCHANGED walk, ListInv' PROVE WalkInv'
  BY <1>2 DEF WalkInv, CalledInv, BehindInv
<1>3. ASSUME NEW fn \in Fns, NEW ev \in Ids \cup {AnyEvent}, SketchOnEvent(fn, ev) PROVE WalkInv'
  BY <1>0, <1>2, <1>3, AppendListInv DEF SketchOnEvent
<1>4. CASE SketchRemoveEvent
  <2>1. \/ \E id : cbs' = RemoveEventId(cbs, id)
        \/ \E fn, ev : cbs' = RemoveEventFn(cbs, fn, ev)
    BY <1>4 DEF SketchRemoveEvent
  <2>2. cbs \in [list : Seq(Entries), current_id : Nat]
    BY <1>0 DEF ListInv
  <2>3. ListInv'
    BY <1>0, <2>1, <2>2, RemovalIsPart, RemoveListInv
  <2> QED BY <1>2, <1>4, <2>3 DEF SketchRemoveEvent
<1>5. ASSUME NEW ev \in Ids, Receive(ev) PROVE WalkInv'
  <2>1. /\ walk' = [on |-> TRUE, ev |-> ev, i |-> 1, called |-> <<>>, cut |-> FALSE]
        /\ UNCHANGED cbs
    BY <1>5 DEF Receive
  <2>2. walk' \in Walks /\ walk'.on /\ walk'.i = 1 /\ walk'.called = <<>>
    BY <2>1 DEF Walks
  <2>3. ListInv'
    BY <1>0, <2>1 DEF ListInv
  <2> QED BY <2>2, <2>3 DEF WalkInv, CalledInv, BehindInv
<1>6. CASE PassOver
  <2>1. walk' = [walk EXCEPT !.i = walk.i + 1] /\ UNCHANGED cbs /\ Walking /\ walk.on
        /\ ~Matches(cbs.list[walk.i])
    BY <1>6 DEF PassOver, Passed, Walking
  <2>2. PICK i \in Nat : i = walk.i
    BY <1>0 DEF Walks
  <2>3. /\ walk' \in Walks /\ walk'.i = i + 1 /\ walk'.called = walk.called /\ walk'.ev = walk.ev
        /\ walk'.on = walk.on /\ walk'.cut = walk.cut
    <3>1. walk' = [walk EXCEPT !.i = i + 1] /\ i + 1 \in Nat
      BY <2>1, <2>2
    <3> QED BY <1>0, <3>1 DEF Walks
  <2>4. CalledInv'
    BY <2>1, <2>2, <2>3 DEF WalkInv, CalledInv
  <2>5. BehindInv'
    <3>1. \A k \in 1..Len(cbs.list) : k < i + 1 /\ Matches(cbs.list[k]) => k < i
      BY <2>1, <2>2
    <3> QED BY <2>1, <2>2, <2>3, <3>1 DEF WalkInv, BehindInv, Matches
  <2> QED BY <1>0, <2>1, <2>2, <2>3, <2>4, <2>5 DEF WalkInv, ListInv
<1>7. CASE Call
  BY <1>7, CallWalkInv
<1>8. CASE Return
  <2>1. /\ walk' = [walk EXCEPT !.on = FALSE, !.i = 0, !.called = <<>>, !.cut = FALSE,
                                !.ev = AnyEvent]
        /\ UNCHANGED cbs
    BY <1>8 DEF Return
  <2>2. walk' \in Walks /\ ~walk'.on /\ walk'.called = <<>>
    <3>1. <<>> \in Seq(Nat) /\ 0 \in Nat /\ AnyEvent \in Ids \cup {AnyEvent}
      OBVIOUS
    <3> QED BY <1>0, <2>1, <3>1 DEF Walks
  <2>3. ListInv'
    BY <1>0, <2>1 DEF ListInv
  <2> QED BY <2>2, <2>3 DEF WalkInv, CalledInv, BehindInv
<1>9. \/ UNCHANGED <<cbs, walk>> \/ SketchRemoveEvent \/ PassOver \/ Call \/ Return
      \/ \E fn \in Fns, ev \in Ids \cup {AnyEvent} : SketchOnEvent(fn, ev)
      \/ \E ev \in Ids : Receive(ev)
  BY DEF EventsNext, tcpipInit, LookUp, FoundLate, hostByName, WaitIdle, ClearBits, Ask, WaitDone,
         ClearDone, SetIdle, Found, Answered, Looking
<1> QED BY <1>1, <1>3, <1>4, <1>5, <1>6, <1>7, <1>8, <1>9

(* Whatever callbacks register and remove while the task walks the list by *)
(* its index: one event calls no callback twice, and a walk without a      *)
(* removal leaves none out.                                                *)
THEOREM CalledOncePerEvent == Spec => []CallbacksOncePerEvent
<1>1. Init => WalkInv
  BY DEF Init, EventsInit, WalkInv, ListInv, Walks, CalledInv, BehindInv
<1>2. WalkInv /\ [Next]_vars => WalkInv'
  <2> SUFFICES ASSUME WalkInv, [Next]_vars PROVE WalkInv'
    OBVIOUS
  <2>1. CASE UNCHANGED <<cbs, walk>>
    BY <2>1 DEF WalkInv, ListInv, CalledInv, BehindInv, Matches
  <2>2. CASE EventsNext
    BY <2>2, EventsNextWalkInv
  <2> QED BY <2>1, <2>2 DEF Next, vars, eventVars
<1>3. WalkInv => CallbacksOncePerEvent
  <2> SUFFICES ASSUME WalkInv PROVE CallbacksOncePerEvent
    OBVIOUS
  <2>1. PICK m \in Nat : m = Len(walk.called) /\ DOMAIN walk.called = 1..m
    BY DEF WalkInv, Walks
  <2>2. \A j \in 1..m : walk.called[j] \in Nat
    BY <2>1 DEF WalkInv, Walks
  <2>3. \A j, k \in 1..m : j < k => walk.called[j] < walk.called[k]
    BY <2>1 DEF WalkInv, CalledInv
  <2>4. IsInjective(walk.called)
    <3>1. SUFFICES ASSUME NEW j \in 1..m, NEW k \in 1..m, walk.called[j] = walk.called[k]
                   PROVE  j = k
      BY <2>1 DEF IsInjective
    <3> QED BY <2>2, <2>3, <3>1
  <2>5. ASSUME walk.on, walk.i > Len(cbs.list), ~walk.cut,
               NEW k \in 1..Len(cbs.list), Matches(cbs.list[k])
        PROVE  \E j \in 1..Len(walk.called) : walk.called[j] = cbs.list[k].id
    <3>1. k < walk.i
      BY <2>5, IdsNat DEF WalkInv, Walks
    <3> QED BY <2>5, <3>1 DEF WalkInv, BehindInv
  <2> QED BY <2>4, <2>5 DEF CallbacksOncePerEvent
<1> QED BY <1>1, <1>2, <1>3, PTL DEF Spec
=============================================================================
