---------------------------- MODULE WiFiStation ----------------------------
(***************************************************************************)
(* The WiFi core: modes and driver life cycle (WiFiGeneric), the station   *)
(* (WiFiSTA) and the access point's status bits (WiFiAP).                  *)
(*                                                                         *)
(* The sketch's task calls the API; the ESP-IDF driver answers with events *)
(* that reach the arduino_events task through a FIFO queue; that task      *)
(* keeps the status and the status bits and reconnects the station by      *)
(* calling the API itself.  An API call is one step, a disconnect event is *)
(* two (status, then reconnection) so that the sketch may come in between. *)
(*                                                                         *)
(* A call is a function from a state of the radio to the set of states it  *)
(* may leave, one for every driver call that may fail on the way; `ok` is  *)
(* what it returned.                                                       *)
(***************************************************************************)
EXTENDS Naturals, Sequences

CONSTANTS
  JoinReasons,   \* why an attempt to join may fail
  LossReasons,   \* why an established link may drop
  Failures,      \* may driver calls fail?
  MaxQueue,      \* events that may be pending when the sketch or the driver acts
  MaxStations    \* stations on the access point (a bound)

(* Disconnect reasons, by how _eventCallback() tells them apart; "timeout" *)
(* stands for BEACON_TIMEOUT and HANDSHAKE_TIMEOUT, "transient" for the    *)
(* other reasons it retries, "other" for those it does not.                *)
Retried == {"noap", "timeout", "authexpire", "assocfail", "transient"}
Reasons == Retried \cup {"authfail", "other", "leave"}

ASSUME ReasonAssumption == JoinReasons \cup LossReasons \subseteq Reasons \ {"leave"}
ASSUME BoundAssumption == MaxQueue \in Nat /\ MaxStations \in Nat /\ Failures \in BOOLEAN

VARIABLES
  wifi,     \* the radio: driver state, the flags that mirror it, the event queue
  status,   \* _sta_status_group
  bits,     \* _arduino_event_group
  misread,  \* history: were there stations that the list did not show?
  task,     \* the arduino_events task: "idle" or about to "reconnect"
  first,    \* first_connect
  auto      \* _autoReconnect

vars == <<wifi, status, bits, misread, task, first, auto>>

Statuses == {"NO_SHIELD", "IDLE", "NO_SSID_AVAIL", "CONNECTED", "CONNECT_FAILED",
             "CONNECTION_LOST", "DISCONNECTED"}
Bits == {"STA_STARTED", "STA_CONNECTED", "STA_HAS_IP", "AP_STARTED", "AP_HAS_CLIENT"}
Modes == SUBSET {"STA", "AP"}
Plain == {"READY", "STA_START", "STA_STOP", "AP_START", "AP_STOP", "CONNECTED", "GOT_IP",
          "LOST_IP", "AP_STACONNECTED", "AP_STADISCONNECTED"}
Event(id) == [id |-> id, reason |-> "leave"]
Disconnected(r) == [id |-> "DISCONNECTED", reason |-> r]
Events == {Event(i) : i \in Plain} \cup {Disconnected(r) : r \in Reasons}

Radio == [inited  : BOOLEAN,            \* lowLevelInitDone
          started : BOOLEAN,            \* _esp_wifi_started
          on      : BOOLEAN,            \* is the driver started?
          mode    : Modes,              \* esp_wifi_get_mode()
          link    : {"idle", "joining", "linked", "ip"},
          lostIp  : BOOLEAN,            \* esp_netif's lost-IP timer is running
          guests  : 0..MaxStations,     \* stations on the access point
          owed    : BOOLEAN,            \* was the link lost in a way that is to be retried?
          ok      : BOOLEAN,
          queue   : Seq(Events)]

Init ==
  /\ wifi = [inited |-> FALSE, started |-> FALSE, on |-> FALSE, mode |-> {}, link |-> "idle",
             lostIp |-> FALSE, guests |-> 0, owed |-> FALSE, ok |-> TRUE, queue |-> <<>>]
  /\ status = "NO_SHIELD" /\ bits = {} /\ misread = FALSE
  /\ task = "idle" /\ first = TRUE /\ auto = TRUE

-----------------------------------------------------------------------------
(* The driver                                                              *)

(* _arduino_event_cb() and postArduinoEvent(). *)
Post(w, evs) == [w EXCEPT !.queue = @ \o evs]

When(b, id) == IF b THEN <<Event(id)>> ELSE <<>>

Succeeds(w) == [w EXCEPT !.ok = TRUE]
Fails(w) == IF Failures THEN {[w EXCEPT !.ok = FALSE]} ELSE {}

LinkDown(w) == [w EXCEPT !.link = "idle", !.lostIp = @ \/ w.link = "ip"]

(* esp_wifi_disconnect(): an event only when there was something to leave. *)
EspDisconnect(w) ==
  IF w.link = "idle" THEN w ELSE Post(LinkDown(w), <<Disconnected("leave")>>)

EspConnect(w) ==
  IF w.link = "idle" THEN [w EXCEPT !.link = "joining", !.owed = FALSE] ELSE w

(* The driver goes from mode w.mode (none when it is off) to mode m. *)
EspSwitch(w, m) ==
  LET was == IF w.on THEN w.mode ELSE {}
      left == IF "STA" \in was \ m THEN EspDisconnect(w) ELSE w
  IN Post([left EXCEPT !.mode = m, !.on = TRUE, !.guests = IF "AP" \in m THEN @ ELSE 0],
          When("STA" \in was \ m, "STA_STOP") \o When("AP" \in was \ m, "AP_STOP")
          \o When("STA" \in m \ was, "STA_START") \o When("AP" \in m \ was, "AP_START"))

EspStop(w) == [EspSwitch(w, {}) EXCEPT !.on = FALSE, !.mode = w.mode]

-----------------------------------------------------------------------------
(* WiFiGeneric: modes                                                      *)

getMode(w) == IF w.inited /\ w.started THEN w.mode ELSE {}

(* wifiLowLevelInit(): READY is posted by whoever initialises. *)
LowLevelInit(w) ==
  IF w.inited THEN {Succeeds(w)}
  ELSE Fails(w) \cup {Post([Succeeds(w) EXCEPT !.inited = TRUE], <<Event("READY")>>)}

(* Mutant: espWiFiStop() leaves _esp_wifi_started set. *)
WiFiStopStillStarted(w) == {[EspStop(Succeeds(w)) EXCEPT !.inited = FALSE]}

(* espWiFiStop(): stop, then deinitialise; each may fail. *)
WiFiStop(w) ==
  LET stopped == [EspStop(Succeeds(w)) EXCEPT !.started = FALSE] IN
  Fails(w) \cup Fails(stopped) \cup {[stopped EXCEPT !.inited = FALSE]}

(* esp_wifi_set_mode() and espWiFiStart(). *)
SetMode(w, m) ==
  LET set == IF w.on THEN EspSwitch(w, m) ELSE [w EXCEPT !.mode = m] IN
  Fails(w) \cup Fails(set)
  \cup {[EspSwitch(set, m) EXCEPT !.started = TRUE, !.ok = TRUE]}

mode(w, m) ==
  LET cm == getMode(w) IN
  IF cm = m THEN {Succeeds(w)}
  ELSE IF m = {} THEN WiFiStop(w)
  ELSE IF cm # {} THEN SetMode(w, m)
  ELSE UNION {IF w1.ok THEN SetMode(w1, m) ELSE {w1} : w1 \in LowLevelInit(w)}

enableSTA(w) == mode(w, getMode(w) \cup {"STA"})

-----------------------------------------------------------------------------
(* WiFiSTA: connecting                                                     *)

(* After the configuration calls, which may fail, esp_wifi_connect(). *)
Connecting(w) == Fails(w) \cup {Succeeds(EspConnect(w))}

(* begin(): the stored configuration; a station that says it is connected  *)
(* is not connected again.                                                 *)
begin(w, st) ==
  UNION {IF ~w1.ok THEN {w1}
         ELSE IF st = "CONNECTED" THEN Fails(w1) \cup {w1} ELSE Connecting(w1) : w1 \in enableSTA(w)}

(* begin(ssid, ..., connect): a new configuration drops the connection of  *)
(* the old one; the same one leaves a connected station alone.             *)
beginWith(w, st, same, connect) ==
  UNION {IF ~w1.ok THEN {w1}
         ELSE Fails(w1) \cup
              LET w2 == IF same THEN w1 ELSE EspDisconnect(w1) IN
              CASE same /\ st = "CONNECTED" -> {w2}
                [] connect -> Connecting(w2)
                [] OTHER   -> Fails(w2) \cup {w2}
         : w1 \in enableSTA(w)}

(* begin(wpa2_ssid, ...): arguments it refuses, or begin(ssid), whatever   *)
(* channel, bssid and connect say.                                         *)
beginEnterprise(w, st, same) ==
  UNION {IF w1.ok THEN Fails(w1) \cup beginWith(w1, st, same, TRUE) ELSE {w1} : w1 \in enableSTA(w)}

disconnect(w, wifioff) ==
  IF "STA" \notin getMode(w) THEN {[w EXCEPT !.ok = FALSE]}
  ELSE Fails(w) \cup
       LET w1 == EspDisconnect(Succeeds(w)) IN
       IF wifioff THEN mode(w1, getMode(w1) \ {"STA"}) ELSE {w1}

reconnect(w) ==
  IF "STA" \notin getMode(w) THEN {[w EXCEPT !.ok = FALSE]}
  ELSE Fails(w) \cup Connecting(EspDisconnect(w))

-----------------------------------------------------------------------------
(* The sketch                                                              *)

Room == Len(wifi.queue) < MaxQueue

SketchMode(m) ==
  /\ Room
  /\ \E w \in mode(wifi, m) :
       wifi' = IF "STA" \in m THEN w ELSE [w EXCEPT !.owed = FALSE]
  /\ UNCHANGED <<status, bits, misread, task, first, auto>>

SketchBegin ==
  /\ Room
  /\ \/ wifi' \in begin(wifi, status)
     \/ \E same, connect \in BOOLEAN : wifi' \in beginWith(wifi, status, same, connect)
     \/ \E same \in BOOLEAN : wifi' \in beginEnterprise(wifi, status, same)
     \/ wifi' \in reconnect(wifi)
  /\ UNCHANGED <<status, bits, misread, task, first, auto>>

SketchDisconnect ==
  /\ Room
  /\ \E off \in BOOLEAN : \E w \in disconnect(wifi, off) : wifi' = [w EXCEPT !.owed = FALSE]
  /\ UNCHANGED <<status, bits, misread, task, first, auto>>

SetAutoReconnect(b) ==
  /\ auto' = b
  /\ wifi' = [wifi EXCEPT !.owed = FALSE]
  /\ UNCHANGED <<status, bits, misread, task, first>>

-----------------------------------------------------------------------------
(* The network                                                             *)

Radiates(id, w) ==
  Room /\ wifi' = Post(w, <<id>>) /\ UNCHANGED <<status, bits, misread, task, first, auto>>

Joins == wifi.link = "joining" /\ Radiates(Event("CONNECTED"), [wifi EXCEPT !.link = "linked"])

GetsIp ==
  /\ wifi.link = "linked"
  /\ Radiates(Event("GOT_IP"), [wifi EXCEPT !.link = "ip", !.lostIp = FALSE])

Drops(r) ==
  /\ \/ wifi.link = "joining" /\ r \in JoinReasons
     \/ wifi.link \in {"linked", "ip"} /\ r \in LossReasons
  /\ Radiates(Disconnected(r), [LinkDown(wifi) EXCEPT !.owed = auto /\ r \in Retried])

(* The DHCP lease ends, or the lost-IP timer of an earlier connection. *)
LosesIp ==
  \/ wifi.link = "ip" /\ Radiates(Event("LOST_IP"), [wifi EXCEPT !.link = "linked"])
  \/ wifi.link # "ip" /\ wifi.lostIp /\ Radiates(Event("LOST_IP"), [wifi EXCEPT !.lostIp = FALSE])

GuestJoins ==
  /\ wifi.on /\ "AP" \in wifi.mode /\ wifi.guests < MaxStations
  /\ Radiates(Event("AP_STACONNECTED"), [wifi EXCEPT !.guests = @ + 1])

GuestLeaves ==
  /\ wifi.on /\ wifi.guests > 0
  /\ Radiates(Event("AP_STADISCONNECTED"), [wifi EXCEPT !.guests = @ - 1])

-----------------------------------------------------------------------------
(* The arduino_events task: _eventCallback()                               *)

(* The status after a disconnect; AUTH_EXPIRE leaves it as it is, and an  *)
(* association failure shows only when it is not retried.                  *)
LostStatus(reason, retry) ==
  CASE reason = "noap" -> "NO_SSID_AVAIL"
    [] reason = "authfail" /\ ~first -> "CONNECT_FAILED"
    [] reason = "timeout" -> "CONNECTION_LOST"
    [] reason = "authexpire" -> status
    [] reason = "assocfail" /\ ~retry -> "CONNECT_FAILED"
    [] OTHER -> "DISCONNECTED"

StatusAfter(e, retry) ==
  CASE e.id = "STA_START" -> "DISCONNECTED"
    [] e.id = "STA_STOP"  -> "NO_SHIELD"
    [] e.id \in {"CONNECTED", "LOST_IP"} -> "IDLE"
    [] e.id = "GOT_IP" -> "CONNECTED"
    [] e.id = "DISCONNECTED" -> LostStatus(e.reason, retry)
    [] OTHER -> status

(* Mutant: a lost link clears the association bit only. *)
ClearedBitsKeepsIp(e, listed) ==
  CASE e.id = "STA_STOP"     -> {"STA_STARTED", "STA_CONNECTED"}
    [] e.id = "DISCONNECTED" -> {"STA_CONNECTED"}
    [] e.id = "LOST_IP"      -> {"STA_HAS_IP"}
    [] e.id = "AP_STOP"      -> {"AP_STARTED", "AP_HAS_CLIENT"}
    [] e.id = "AP_STADISCONNECTED" /\ (~listed \/ wifi.guests = 0) -> {"AP_HAS_CLIENT"}
    [] OTHER -> {}

(* clearStatusBits() of an event; `listed` is whether                      *)
(* esp_wifi_ap_get_sta_list() succeeded.                                   *)
ClearedBits(e, listed) ==
  CASE e.id = "STA_STOP"     -> {"STA_STARTED", "STA_CONNECTED", "STA_HAS_IP"}
    [] e.id = "DISCONNECTED" -> {"STA_CONNECTED", "STA_HAS_IP"}
    [] e.id = "LOST_IP"      -> {"STA_HAS_IP"}
    [] e.id = "AP_STOP"      -> {"AP_STARTED", "AP_HAS_CLIENT"}
    [] e.id = "AP_STADISCONNECTED" /\ (~listed \/ wifi.guests = 0) -> {"AP_HAS_CLIENT"}
    [] OTHER -> {}

(* Stations are on the access point, and the last list that should have    *)
(* shown them could not be read.                                           *)
Misread(e, listed) ==
  CASE e.id \in {"AP_STOP", "AP_STACONNECTED"} -> FALSE
    [] e.id = "AP_STADISCONNECTED" -> wifi.guests > 0 /\ (misread \/ ~listed)
    [] OTHER -> misread

(* setStatusBits() of an event. *)
RaisedBits(e) ==
  CASE e.id = "STA_START" -> {"STA_STARTED"}
    [] e.id = "CONNECTED" -> {"STA_CONNECTED"}
    [] e.id = "GOT_IP"    -> {"STA_HAS_IP", "STA_CONNECTED"}
    [] e.id = "AP_START"  -> {"AP_STARTED"}
    [] e.id = "AP_STACONNECTED" -> {"AP_HAS_CLIENT"}
    [] OTHER -> {}

(* Mutant: the retry is not made for a network that was out of range. *)
DoReconnectNotNoAp(e) ==
  e.id = "DISCONNECTED" /\ e.reason \notin {"leave", "noap"}
  /\ (first \/ (auto /\ e.reason \in Retried))

(* _isReconnectableReason(), and one retry for every reason but leaving. *)
DoReconnect(e) ==
  e.id = "DISCONNECTED" /\ e.reason # "leave" /\ (first \/ (auto /\ e.reason \in Retried))

HandleEvent ==
  /\ task = "idle" /\ wifi.queue # <<>>
  /\ \E listed \in {TRUE, ~Failures} : LET e == Head(wifi.queue) IN
       /\ status' = StatusAfter(e, DoReconnect(e))
       /\ bits' = (bits \ ClearedBits(e, listed)) \cup RaisedBits(e)
       /\ misread' = Misread(e, listed)
       /\ task' = IF DoReconnect(e) THEN "reconnect" ELSE "idle"
       /\ first' = (first /\ ~DoReconnect(e))
  /\ wifi' = [wifi EXCEPT !.queue = Tail(@)]
  /\ UNCHANGED auto

(* WiFi.disconnect(); WiFi.begin();  A begin() that the driver fails is    *)
(* not repeated.                                                           *)
Reconnect ==
  /\ task = "reconnect"
  /\ \E w \in disconnect(wifi, FALSE) : \E w1 \in begin(w, status) :
       wifi' = [w1 EXCEPT !.owed = @ /\ w1.ok]
  /\ task' = "idle"
  /\ UNCHANGED <<status, bits, misread, first, auto>>

Next ==
  \/ \E m \in Modes : SketchMode(m)
  \/ SketchBegin \/ SketchDisconnect
  \/ \E b \in BOOLEAN : SetAutoReconnect(b)
  \/ Joins \/ GetsIp \/ LosesIp \/ GuestJoins \/ GuestLeaves
  \/ \E r \in Reasons : Drops(r)
  \/ HandleEvent \/ Reconnect

(* The arduino_events task runs whenever it has something to do. *)
Spec == Init /\ [][Next]_vars /\ WF_vars(HandleEvent) /\ WF_vars(Reconnect)

-----------------------------------------------------------------------------
(* Properties                                                              *)

(* Every flag, status and bit of WiFiGeneric and WiFiSTA has its type.     *)
TypeOK ==
  /\ wifi \in Radio
  /\ status \in Statuses /\ bits \subseteq Bits
  /\ task \in {"idle", "reconnect"}
  /\ {misread, first, auto} \subseteq BOOLEAN

(* lowLevelInitDone and _esp_wifi_started mirror the driver, whichever of  *)
(* its calls failed: getMode() never reports a mode of a stopped driver.   *)
FlagsMirrorDriver == wifi.started = wifi.on /\ (wifi.on => wifi.inited /\ wifi.mode # {})

Settled == wifi.queue = <<>> /\ task = "idle"

(* Once the events are drained the status bits describe the driver: the    *)
(* station's and the access point's start, association, address, clients.  *)
(* And isConnected() ("Is STA interface connected?") is right.  A list of  *)
(* stations that could not be read hides them until the next one joins.    *)
BitsSettle ==
  Settled =>
    /\ "STA_STARTED" \in bits <=> wifi.on /\ "STA" \in wifi.mode
    /\ "STA_CONNECTED" \in bits <=> wifi.link \in {"linked", "ip"}
    /\ "STA_HAS_IP" \in bits <=> wifi.link = "ip"
    /\ "AP_STARTED" \in bits <=> wifi.on /\ "AP" \in wifi.mode
    /\ "AP_HAS_CLIENT" \in bits \/ misread <=> wifi.guests > 0
    /\ status = "CONNECTED" <=> wifi.link = "ip"

(* A link lost for a reason that _isReconnectableReason() retries, with    *)
(* auto-reconnect on and the sketch not interfering, is joined again, or   *)
(* the attempt has failed in the driver.                                   *)
LossIsRetried == wifi.owed ~> ~wifi.owed
=============================================================================
