----------------------------- MODULE WiFiNetif -----------------------------
(***************************************************************************)
(* The addresses of the access point and of the station: softAP(),         *)
(* softAPConfig(), softAPdisconnect(), config() and what begin() does to   *)
(* the station's address, over set_esp_interface_ip().                     *)
(*                                                                         *)
(* An address is the low 16 bits of an IPv4 address in host byte order (0  *)
(* stands for 0.0.0.0) and a netmask 255.255.a.b is the pair <<a, b>>; the *)
(* code swaps bytes before it computes and swaps them back.  A call is one *)
(* step; each driver call on its way may fail, and `ok` is what the last   *)
(* call of the interface returned.  Netmasks are contiguous.               *)
(***************************************************************************)
EXTENDS Naturals

CONSTANTS
  Addrs,   \* addresses that the sketch gives
  Masks,   \* netmasks that the sketch gives
  Names    \* access point configurations (SSID, passphrase, channel...)

(* The bytes of a netmask that calculateSubnetCIDR() knows, with 1 to 8    *)
(* leading ones.                                                           *)
LeadingOnes == <<128, 192, 224, 240, 248, 252, 254, 255>>
MaskBytes == {LeadingOnes[n] : n \in 1..8}

ASSUME AddressAssumption == Addrs \subseteq {x \in Nat : 0 < x /\ x < 65536}
ASSUME MaskAssumption ==
  Masks \subseteq {<<a, 0>> : a \in MaskBytes \cup {0}} \cup {<<255, b>> : b \in MaskBytes}

VARIABLES
  ap,    \* the access point's interface, its DHCP server and its configuration
  sta    \* the station's interface and its DHCP client

netifVars == <<ap, sta>>

(* The netmasks of the access point: its first is 255.255.255.0. *)
Netmasks == Masks \cup {<<255, 0>>}

(* server: "own" is the range lwIP chooses when the access point starts,   *)
(* "lease" the one that softAPConfig() set, from `first` to `last`.        *)
ApNetif == [on : BOOLEAN, ip : Nat, gw : Nat, mask : Netmasks,
            server : {"stopped", "own", "lease"}, first : Nat, last : Nat,
            conf : Names \cup {"blank"}, ok : BOOLEAN]

StaNetif == [ip : Nat, dhcpc : BOOLEAN, static : BOOLEAN, dns : Nat, ok : BOOLEAN]

NetifInit ==
  /\ ap = [on |-> FALSE, ip |-> 0, gw |-> 0, mask |-> <<255, 0>>, server |-> "stopped",
           first |-> 0, last |-> 0, conf |-> "blank", ok |-> TRUE]
  /\ sta = [ip |-> 0, dhcpc |-> TRUE, static |-> FALSE, dns |-> 0, ok |-> TRUE]

-----------------------------------------------------------------------------
(* Netmasks                                                                *)

(* The leading ones of a byte of a netmask. *)
Ones(b) == IF b = 0 THEN 0 ELSE CHOOSE n \in 1..8 : LeadingOnes[n] = b

calculateSubnetCIDR(m) == 16 + Ones(m[1]) + Ones(m[2])

(* ~netmask: the host part. *)
HostMask(m) == 65535 - (256 * m[1] + m[2])

HostOf(a, m) == a % (HostMask(m) + 1)
calculateNetworkID(a, m) == a - HostOf(a, m)
calculateBroadcast(a, m) == calculateNetworkID(a, m) + HostMask(m)

-----------------------------------------------------------------------------
(* set_esp_interface_ip()                                                  *)

Leases == 10

(* Mutant: the range may run past the end of the subnet. *)
LeaseStartUnbounded(start, m) == start

(* A range that would reach the broadcast address starts over at the       *)
(* beginning of the subnet.                                                *)
LeaseStart(start, m) ==
  IF HostOf(start, m) >= HostMask(m) - Leases THEN calculateNetworkID(start, m) + 1 ELSE start

(* The checks that end in ESP_FAIL, in their order. *)
Refused(ip, gw, m, start) ==
  LET lease == LeaseStart(start, m)..LeaseStart(start, m) + Leases IN
  \/ calculateSubnetCIDR(m) \notin 24..28
  \/ calculateNetworkID(ip, m) # calculateNetworkID(start, m)
  \/ ip \in lease
  \/ calculateNetworkID(gw, m) = calculateNetworkID(ip, m) /\ gw \in lease

Failed(n) == [n EXCEPT !.ok = FALSE]

(* The access point: the server is stopped and the address set before the  *)
(* checks, so a refused range leaves the new address without a server.     *)
SetApIp(a, ip, gw, m, given) ==
  LET start == IF given = 0 THEN ip + 1 ELSE given
      stopped == [a EXCEPT !.server = "stopped", !.first = 0, !.last = 0]
      set == [stopped EXCEPT !.ip = ip, !.gw = gw, !.mask = m]
  IN {Failed(a), Failed(stopped), Failed(set)}
     \cup IF Refused(ip, gw, m, start) THEN {}
          ELSE {[set EXCEPT !.server = "lease", !.ok = TRUE, !.first = LeaseStart(start, m),
                            !.last = LeaseStart(start, m) + Leases]}

(* Mutant: the DHCP client is not started again for the address 0.0.0.0. *)
SetStaIpNoRestart(s, ip) ==
  LET stopped == [s EXCEPT !.dhcpc = FALSE] IN
  {Failed(s), Failed(stopped), [stopped EXCEPT !.ip = ip, !.ok = TRUE]}

(* The station: no address means that the DHCP client is to find one. *)
SetStaIp(s, ip) ==
  LET stopped == [s EXCEPT !.dhcpc = FALSE]
      set == [stopped EXCEPT !.ip = ip]
  IN {Failed(s), Failed(stopped)}
     \cup IF ip = 0 THEN {Failed(set), [set EXCEPT !.dhcpc = TRUE, !.ok = TRUE]}
          ELSE {[set EXCEPT !.ok = TRUE]}

(* set_esp_interface_dns(): a server that is given is set, or fails. *)
SetDns(s, dns) ==
  IF dns = 0 THEN {s} ELSE {Failed(s), [s EXCEPT !.dns = dns]}

-----------------------------------------------------------------------------
(* WiFiAP                                                                  *)

(* enableAP(): starting the interface starts its DHCP server. *)
enableAP(a, enable) ==
  IF a.on = enable THEN {[a EXCEPT !.ok = TRUE]}
  ELSE {Failed(a), [a EXCEPT !.on = enable, !.ok = TRUE,
                             !.server = IF enable THEN "own" ELSE "stopped",
                             !.first = 0, !.last = 0]}

(* softAP(): a configuration equal to the current one is not set again. *)
softAP(name) ==
  /\ \E a \in enableAP(ap, TRUE) :
       ap' \in IF ~a.ok THEN {a}
               ELSE {Failed(a)} \cup {[a EXCEPT !.conf = name]}
  /\ UNCHANGED sta

softAPConfig(ip, gw, m, start) ==
  /\ \E a \in enableAP(ap, TRUE) : ap' \in IF a.ok THEN SetApIp(a, ip, gw, m, start) ELSE {a}
  /\ UNCHANGED sta

(* softAPdisconnect(): with the access point switched off too, the result  *)
(* is that of `enableAP(false) == ESP_OK`, true when enableAP() failed.    *)
softAPdisconnect(wifioff) ==
  LET blank == [ap EXCEPT !.conf = "blank", !.ok = TRUE] IN
  /\ \/ ap' = Failed(ap)
     \/ ap.on /\ ~wifioff /\ ap' = blank
     \/ ap.on /\ wifioff /\ \E a \in enableAP(blank, FALSE) : ap' = [a EXCEPT !.ok = ~a.ok]
  /\ UNCHANGED sta

(* The addresses that the interface reports. *)
softAPNetworkID(a) == calculateNetworkID(a.gw, a.mask)
softAPBroadcastIP(a) == calculateBroadcast(a.gw, a.mask)

-----------------------------------------------------------------------------
(* WiFiSTA                                                                 *)

(* config(): without enableSTA() nothing, else _useStaticIp is whether all *)
(* of it succeeded.                                                        *)
config(ip, dns) ==
  /\ \/ sta' = Failed(sta)
     \/ \E s \in SetStaIp(sta, ip) : \E s1 \in IF s.ok THEN SetDns(s, dns) ELSE {s} :
          sta' = [s1 EXCEPT !.static = s1.ok]
  /\ UNCHANGED ap

(* begin(): a station without a static address goes back to DHCP. *)
beginAddress ==
  /\ sta' \in IF sta.static THEN {[sta EXCEPT !.ok = TRUE]} ELSE SetStaIp(sta, 0)
  /\ UNCHANGED ap

(* The DHCP client finds an address. *)
Leased(ip) ==
  /\ sta.dhcpc /\ sta.ip # ip
  /\ sta' = [sta EXCEPT !.ip = ip]
  /\ UNCHANGED ap

ApNext ==
  \/ \E name \in Names : softAP(name)
  \/ \E ip \in Addrs, gw, start \in Addrs \cup {0}, m \in Masks : softAPConfig(ip, gw, m, start)
  \/ \E wifioff \in BOOLEAN : softAPdisconnect(wifioff)

StaNext ==
  \/ \E ip, dns \in Addrs \cup {0} : config(ip, dns)
  \/ beginAddress
  \/ \E ip \in Addrs : Leased(ip)

-----------------------------------------------------------------------------
(* Properties                                                              *)

(* The range that softAPConfig() gives the DHCP server lies in the access  *)
(* point's own subnet, ends before its broadcast address and holds neither *)
(* the access point nor a gateway of that subnet; with such a gateway the  *)
(* network that softAPNetworkID() and softAPBroadcastIP() report encloses  *)
(* it.                                                                     *)
ServedFromOwnSubnet ==
  ap.server = "lease" =>
    LET net == calculateNetworkID(ap.ip, ap.mask)
        end == calculateBroadcast(ap.ip, ap.mask) IN
    /\ \A x \in ap.first..ap.last : net <= x /\ x < end /\ x # ap.ip
    /\ ap.gw \in net..end =>
         /\ ap.gw \notin ap.first..ap.last
         /\ softAPNetworkID(ap) <= ap.first /\ ap.last < softAPBroadcastIP(ap)

(* A call that succeeded leaves the station either with a fixed address    *)
(* or with the DHCP client running, never with neither.                    *)
StationAddressed == sta.ok => sta.dhcpc \/ sta.ip # 0
=============================================================================
