------------------------- MODULE WiFiStationProofs -------------------------
(***************************************************************************)
(* Proofs about WiFiStation, and about WiFiMulti with the scan it drives.  *)
(*                                                                         *)
(* What the status bits will be once the event queue is drained is decided *)
(* by the last event in it that touches them: the inductive invariant      *)
(* says, for each bit and for the status, that this event agrees with the  *)
(* driver, or that there is none and the bit agrees already.               *)
(***************************************************************************)
EXTENDS WiFiStation, WiFiMulti, SequenceTheorems, WellFoundedInduction, TLAPS

-----------------------------------------------------------------------------
(* Flags that events set and clear                                         *)

(* After the events of q the flag, now b, is true: `set` are the events    *)
(* that set it and `clear` those that clear it.                            *)
Settles(b, set, clear, q) ==
  \/ b /\ \A k \in 1..Len(q) : q[k] \notin clear
  \/ \E k \in 1..Len(q) : q[k] \in set /\ \A l \in 1..Len(q) : k < l => q[l] \notin clear

(* After the events of q the flag b is x.  Some events clear a flag only   *)
(* if x is false when they are handled (clear0).                           *)
Follows(x, b, set, clear, clear0, q) ==
  IF x THEN Settles(b, set, clear, q) ELSE Settles(~b, clear0, set, q)

(* Event e takes what the flag stands for from x to y. *)
Goes(x, y, set, clear, clear0, e) ==
  IF y THEN e \in set \/ (x /\ e \notin clear) ELSE e \in clear0 \/ (~x /\ e \notin set)

(* Handling event e takes the flag from b to c; x is what it stands for. *)
Turns(x, b, c, set, clear, clear0, e) ==
  IF x THEN (e \in set => c) /\ (e \notin clear /\ b => c)
  ELSE (e \in clear0 => ~c) /\ (e \notin set /\ ~b => ~c)

Of(ids) == {e \in Events : e.id \in ids}

(* Events that change the status to another than CONNECTED: an AUTH_EXPIRE *)
(* leaves it alone.                                                        *)
Unconnects ==
  Of({"STA_START", "STA_STOP", "CONNECTED", "LOST_IP"})
  \cup {e \in Of({"DISCONNECTED"}) : e.reason # "authexpire"}

(* Six flags: the bits b and the status st after the events of q, when the *)
(* station is on (s), the access point is on (a), for a link and a number  *)
(* of stations g on the access point.                                      *)
Tracked(s, a, link, g, b, st, q) ==
  /\ Follows(s, "STA_STARTED" \in b, Of({"STA_START"}), Of({"STA_STOP"}), Of({"STA_STOP"}), q)
  /\ Follows(link \in {"linked", "ip"}, "STA_CONNECTED" \in b, Of({"CONNECTED", "GOT_IP"}),
             Of({"STA_STOP", "DISCONNECTED"}), Of({"STA_STOP", "DISCONNECTED"}), q)
  /\ Follows(link = "ip", "STA_HAS_IP" \in b, Of({"GOT_IP"}),
             Of({"STA_STOP", "DISCONNECTED", "LOST_IP"}),
             Of({"STA_STOP", "DISCONNECTED", "LOST_IP"}), q)
  /\ Follows(a, "AP_STARTED" \in b, Of({"AP_START"}), Of({"AP_STOP"}), Of({"AP_STOP"}), q)
  /\ Follows(g > 0, "AP_HAS_CLIENT" \in b, Of({"AP_STACONNECTED"}), Of({"AP_STOP"}),
             Of({"AP_STOP", "AP_STADISCONNECTED"}), q)
  /\ "authexpire" \notin LossReasons =>
       Follows(link = "ip", st = "CONNECTED", Of({"GOT_IP"}), Unconnects, Unconnects, q)

StaOn(w) == w.on /\ "STA" \in w.mode
ApOn(w) == w.on /\ "AP" \in w.mode

(* What every call of the API and every step of the driver preserves. *)
RadioOK(w, b, st) ==
  /\ w \in Radio
  /\ w.started = w.on /\ (w.on => w.inited /\ w.mode # {})
  /\ w.link # "idle" => StaOn(w)
  /\ w.guests > 0 => ApOn(w)
  /\ Tracked(StaOn(w), ApOn(w), w.link, w.guests, b, st, w.queue)

(* The bits, had every list of stations been readable. *)
Shown == IF misread THEN bits \cup {"AP_HAS_CLIENT"} ELSE bits

IInv == TypeOK /\ RadioOK(wifi, Shown, status)
-----------------------------------------------------------------------------
(* Appending and handling an event                                         *)

LEMMA AppendIsSeq ==
  ASSUME NEW q \in Seq(Events), NEW e \in Events
  PROVE  q \o <<e>> \in Seq(Events)
OBVIOUS

LEMMA SettlesAppend ==
  ASSUME NEW q \in Seq(Events), NEW e \in Events, NEW b, NEW set, NEW clear,
         e \in set \/ (Settles(b, set, clear, q) /\ e \notin clear)
  PROVE  Settles(b, set, clear, q \o <<e>>)
<1>1. PICK n \in Nat : n = Len(q)
  OBVIOUS
<1>2. PICK r : r = q \o <<e>>
  OBVIOUS
<1>3. Len(r) = n + 1 /\ r[n + 1] = e /\ \A k \in 1..n : r[k] = q[k]
  BY <1>1, <1>2
<1>4. \A k \in 1..n + 1 : k \in 1..n \/ k = n + 1
  OBVIOUS
<1>5. CASE e \in set
  <2>1. n + 1 \in 1..n + 1 /\ \A l \in 1..n + 1 : ~(n + 1 < l)
    OBVIOUS
  <2>2. Settles(b, set, clear, r)
    BY <1>3, <1>5, <2>1 DEF Settles
  <2> QED BY <1>2, <2>2
<1>6. CASE e \notin clear /\ b /\ \A k \in 1..n : q[k] \notin clear
  <2>1. \A k \in 1..n + 1 : r[k] \notin clear
    BY <1>3, <1>4, <1>6
  <2>2. Settles(b, set, clear, r)
    BY <1>3, <1>6, <2>1 DEF Settles
  <2> QED BY <1>2, <2>2
<1>7. ASSUME e \notin clear, NEW k \in 1..n, q[k] \in set,
             \A l \in 1..n : k < l => q[l] \notin clear
      PROVE  Settles(b, set, clear, q \o <<e>>)
  <2>1. k \in 1..n + 1 /\ r[k] \in set
    BY <1>3, <1>7
  <2>2. \A l \in 1..n + 1 : k < l => r[l] \notin clear
    BY <1>3, <1>4, <1>7
  <2>3. Settles(b, set, clear, r)
    BY <1>3, <2>1, <2>2 DEF Settles
  <2> QED BY <1>2, <2>3
<1> QED BY <1>1, <1>5, <1>6, <1>7 DEF Settles

LEMMA SettlesTail ==
  ASSUME NEW q \in Seq(Events), q # <<>>, NEW b, NEW c, NEW set, NEW clear,
         Settles(b, set, clear, q), Head(q) \in set => c, Head(q) \notin clear /\ b => c
  PROVE  Settles(c, set, clear, Tail(q))
<1>1. PICK n \in Nat : n = Len(q) /\ n > 0
  OBVIOUS
<1>2. PICK r : r = Tail(q)
  OBVIOUS
<1>3. Len(r) = n - 1 /\ Head(q) = q[1] /\ \A k \in 1..n - 1 : r[k] = q[k + 1] /\ k + 1 \in 1..n
  BY <1>1, <1>2
<1>4. CASE b /\ \A k \in 1..n : q[k] \notin clear
  <2>1. 1 \in 1..n
    BY <1>1
  <2>2. c /\ \A k \in 1..n - 1 : r[k] \notin clear
    BY <1>3, <1>4, <2>1
  <2> QED BY <1>2, <1>3, <2>2 DEF Settles
<1>5. ASSUME NEW k \in 1..n, q[k] \in set, \A l \in 1..n : k < l => q[l] \notin clear
      PROVE  Settles(c, set, clear, r)
  <2>1. CASE k = 1
    <3>1. c /\ \A l \in 1..n - 1 : r[l] \notin clear
      BY <1>3, <1>5, <2>1
    <3> QED BY <1>3, <3>1 DEF Settles
  <2>2. CASE k # 1
    <3>1. k - 1 \in 1..n - 1 /\ r[k - 1] = q[k]
      BY <1>3, <2>2
    <3>2. \A l \in 1..n - 1 : k - 1 < l => r[l] \notin clear
      BY <1>3, <1>5
    <3> QED BY <1>3, <1>5, <3>1, <3>2 DEF Settles
  <2> QED BY <2>1, <2>2
<1> QED BY <1>1, <1>2, <1>4, <1>5 DEF Settles

LEMMA FollowsAppend ==
  ASSUME NEW q \in Seq(Events), NEW e \in Events, NEW x \in BOOLEAN, NEW y \in BOOLEAN,
         NEW b \in BOOLEAN, NEW set, NEW clear, NEW clear0,
         Follows(x, b, set, clear, clear0, q), Goes(x, y, set, clear, clear0, e)
  PROVE  Follows(y, b, set, clear, clear0, q \o <<e>>)
<1>1. CASE y
  <2>1. Settles(b, set, clear, q \o <<e>>)
    BY <1>1, SettlesAppend DEF Follows, Goes
  <2> QED BY <1>1, <2>1 DEF Follows
<1>2. CASE ~y
  <2>1. Settles(~b, clear0, set, q \o <<e>>)
    BY <1>2, SettlesAppend DEF Follows, Goes
  <2> QED BY <1>2, <2>1 DEF Follows
<1> QED BY <1>1, <1>2

LEMMA FollowsTail ==
  ASSUME NEW q \in Seq(Events), q # <<>>, NEW x \in BOOLEAN,
         NEW b \in BOOLEAN, NEW c \in BOOLEAN, NEW set, NEW clear, NEW clear0,
         Follows(x, b, set, clear, clear0, q), Turns(x, b, c, set, clear, clear0, Head(q))
  PROVE  Follows(x, c, set, clear, clear0, Tail(q))
<1>1. CASE x
  <2>1. Settles(c, set, clear, Tail(q))
    BY <1>1, SettlesTail DEF Follows, Turns
  <2> QED BY <1>1, <2>1 DEF Follows
<1>2. CASE ~x
  <2>1. Settles(~c, clear0, set, Tail(q))
    BY <1>2, SettlesTail DEF Follows, Turns
  <2> QED BY <1>2, <2>1 DEF Follows
<1> QED BY <1>1, <1>2

(* The parts of an event. *)
LEMMA EventParts ==
  /\ \A i \in Plain : Event(i) \in Events /\ Event(i).id = i
  /\ \A r \in Reasons : /\ Disconnected(r) \in Events /\ Disconnected(r).id = "DISCONNECTED"
                        /\ Disconnected(r).reason = r
<1>1. \A i \in Plain : Event(i) \in Events
  BY DEF Events
<1>2. \A i \in Plain : Event(i).id = i
  BY DEF Event
<1>3. \A r \in Reasons : Disconnected(r) \in Events
  BY DEF Events
<1>4. \A r \in Reasons : Disconnected(r).id = "DISCONNECTED" /\ Disconnected(r).reason = r
  BY DEF Disconnected
<1> QED BY <1>1, <1>2, <1>3, <1>4

(* An event is posted that takes the six flags to new values. *)
Takes(s, a, link, g, s2, a2, link2, g2, e) ==
  /\ Goes(s, s2, Of({"STA_START"}), Of({"STA_STOP"}), Of({"STA_STOP"}), e)
  /\ Goes(link \in {"linked", "ip"}, link2 \in {"linked", "ip"}, Of({"CONNECTED", "GOT_IP"}),
          Of({"STA_STOP", "DISCONNECTED"}), Of({"STA_STOP", "DISCONNECTED"}), e)
  /\ Goes(link = "ip", link2 = "ip", Of({"GOT_IP"}),
          Of({"STA_STOP", "DISCONNECTED", "LOST_IP"}),
          Of({"STA_STOP", "DISCONNECTED", "LOST_IP"}), e)
  /\ Goes(a, a2, Of({"AP_START"}), Of({"AP_STOP"}), Of({"AP_STOP"}), e)
  /\ Goes(g > 0, g2 > 0, Of({"AP_STACONNECTED"}), Of({"AP_STOP"}),
          Of({"AP_STOP", "AP_STADISCONNECTED"}), e)
  /\ "authexpire" \notin LossReasons =>
       Goes(link = "ip", link2 = "ip", Of({"GOT_IP"}), Unconnects, Unconnects, e)

LEMMA TrackedAppend ==
  ASSUME NEW q \in Seq(Events), NEW e \in Events, NEW b, NEW st,
         NEW s \in BOOLEAN, NEW a \in BOOLEAN, NEW link, NEW g \in Nat,
         NEW s2 \in BOOLEAN, NEW a2 \in BOOLEAN, NEW link2, NEW g2 \in Nat,
         Tracked(s, a, link, g, b, st, q), Takes(s, a, link, g, s2, a2, link2, g2, e)
  PROVE  Tracked(s2, a2, link2, g2, b, st, q \o <<e>>)
<1>0. \A x, y, c \in BOOLEAN : \A set, clear, clear0 :
        Follows(x, c, set, clear, clear0, q) /\ Goes(x, y, set, clear, clear0, e) =>
          Follows(y, c, set, clear, clear0, q \o <<e>>)
  BY FollowsAppend
<1>1. Follows(s2, "STA_STARTED" \in b,
              Of({"STA_START"}), Of({"STA_STOP"}), Of({"STA_STOP"}), q \o <<e>>)
  <2>1. Follows(s, "STA_STARTED" \in b, Of({"STA_START"}), Of({"STA_STOP"}), Of({"STA_STOP"}), q)
    BY DEF Tracked
  <2>2. Goes(s, s2, Of({"STA_START"}), Of({"STA_STOP"}), Of({"STA_STOP"}), e)
    BY DEF Takes
  <2>3. (s) \in BOOLEAN /\ (s2) \in BOOLEAN /\ ("STA_STARTED" \in b) \in BOOLEAN
    OBVIOUS
  <2> QED BY <1>0, <2>1, <2>2, <2>3
<1>2. Follows(link2 \in {"linked", "ip"}, "STA_CONNECTED" \in b,
              Of({"CONNECTED", "GOT_IP"}), Of({"STA_STOP", "DISCONNECTED"}), Of({"STA_STOP", "DISCONNECTED"}), q \o <<e>>)
  <2>1. Follows(link \in {"linked", "ip"}, "STA_CONNECTED" \in b, Of({"CONNECTED", "GOT_IP"}), Of({"STA_STOP", "DISCONNECTED"}), Of({"STA_STOP", "DISCONNECTED"}), q)
    BY DEF Tracked
  <2>2. Goes(link \in {"linked", "ip"}, link2 \in {"linked", "ip"}, Of({"CONNECTED", "GOT_IP"}), Of({"STA_STOP", "DISCONNECTED"}), Of({"STA_STOP", "DISCONNECTED"}), e)
    BY DEF Takes
  <2>3. (link \in {"linked", "ip"}) \in BOOLEAN /\ (link2 \in {"linked", "ip"}) \in BOOLEAN /\ ("STA_CONNECTED" \in b) \in BOOLEAN
    OBVIOUS
  <2> QED BY <1>0, <2>1, <2>2, <2>3
<1>3. Follows(link2 = "ip", "STA_HAS_IP" \in b,
              Of({"GOT_IP"}), Of({"STA_STOP", "DISCONNECTED", "LOST_IP"}), Of({"STA_STOP", "DISCONNECTED", "LOST_IP"}), q \o <<e>>)
  <2>1. Follows(link = "ip", "STA_HAS_IP" \in b, Of({"GOT_IP"}), Of({"STA_STOP", "DISCONNECTED", "LOST_IP"}), Of({"STA_STOP", "DISCONNECTED", "LOST_IP"}), q)
    BY DEF Tracked
  <2>2. Goes(link = "ip", link2 = "ip", Of({"GOT_IP"}), Of({"STA_STOP", "DISCONNECTED", "LOST_IP"}), Of({"STA_STOP", "DISCONNECTED", "LOST_IP"}), e)
    BY DEF Takes
  <2>3. (link = "ip") \in BOOLEAN /\ (link2 = "ip") \in BOOLEAN /\ ("STA_HAS_IP" \in b) \in BOOLEAN
    OBVIOUS
  <2> QED BY <1>0, <2>1, <2>2, <2>3
<1>4. Follows(a2, "AP_STARTED" \in b,
              Of({"AP_START"}), Of({"AP_STOP"}), Of({"AP_STOP"}), q \o <<e>>)
  <2>1. Follows(a, "AP_STARTED" \in b, Of({"AP_START"}), Of({"AP_STOP"}), Of({"AP_STOP"}), q)
    BY DEF Tracked
  <2>2. Goes(a, a2, Of({"AP_START"}), Of({"AP_STOP"}), Of({"AP_STOP"}), e)
    BY DEF Takes
  <2>3. (a) \in BOOLEAN /\ (a2) \in BOOLEAN /\ ("AP_STARTED" \in b) \in BOOLEAN
    OBVIOUS
  <2> QED BY <1>0, <2>1, <2>2, <2>3
<1>5. Follows(g2 > 0, "AP_HAS_CLIENT" \in b,
              Of({"AP_STACONNECTED"}), Of({"AP_STOP"}), Of({"AP_STOP", "AP_STADISCONNECTED"}), q \o <<e>>)
  <2>1. Follows(g > 0, "AP_HAS_CLIENT" \in b, Of({"AP_STACONNECTED"}), Of({"AP_STOP"}), Of({"AP_STOP", "AP_STADISCONNECTED"}), q)
    BY DEF Tracked
  <2>2. Goes(g > 0, g2 > 0, Of({"AP_STACONNECTED"}), Of({"AP_STOP"}), Of({"AP_STOP", "AP_STADISCONNECTED"}), e)
    BY DEF Takes
  <2>3. (g > 0) \in BOOLEAN /\ (g2 > 0) \in BOOLEAN /\ ("AP_HAS_CLIENT" \in b) \in BOOLEAN
    OBVIOUS
  <2> QED BY <1>0, <2>1, <2>2, <2>3
<1>6. "authexpire" \notin LossReasons =>
        Follows(link2 = "ip", st = "CONNECTED", Of({"GOT_IP"}), Unconnects, Unconnects, q \o <<e>>)
  BY FollowsAppend DEF Tracked, Takes
<1> QED BY <1>1, <1>2, <1>3, <1>4, <1>5, <1>6 DEF Tracked

(* What each event of the driver stands for. *)
LEMMA TakesPlain ==
  ASSUME NEW s \in BOOLEAN, NEW a \in BOOLEAN, NEW link, NEW g \in Nat
  PROVE  /\ Takes(s, a, link, g, s, a, link, g, Event("READY"))
         /\ Takes(s, a, "idle", g, TRUE, a, "idle", g, Event("STA_START"))
         /\ Takes(s, a, "idle", g, FALSE, a, "idle", g, Event("STA_STOP"))
         /\ Takes(s, a, link, g, s, TRUE, link, g, Event("AP_START"))
         /\ Takes(s, a, link, g, s, FALSE, link, 0, Event("AP_STOP"))
         /\ Takes(s, a, "joining", g, s, a, "linked", g, Event("CONNECTED"))
         /\ Takes(s, a, "linked", g, s, a, "ip", g, Event("GOT_IP"))
         /\ Takes(s, a, "ip", g, s, a, "linked", g, Event("LOST_IP"))
         /\ link # "ip" => Takes(s, a, link, g, s, a, link, g, Event("LOST_IP"))
         /\ Takes(s, a, link, g, s, a, link, g + 1, Event("AP_STACONNECTED"))
         /\ g > 0 => Takes(s, a, link, g, s, a, link, g - 1, Event("AP_STADISCONNECTED"))
<1>1. \A i \in Plain : \A ids : Event(i) \in Of(ids) <=> i \in ids
  BY EventParts DEF Of
<1>2. \A i \in Plain : Event(i) \in Unconnects <=>
                         i \in {"STA_START", "STA_STOP", "CONNECTED", "LOST_IP"}
  <2>1. \A i \in Plain : i # "DISCONNECTED"
    BY DEF Plain
  <2> QED BY <1>1, <2>1 DEF Unconnects
<1>3. Plain = {"READY", "STA_START", "STA_STOP", "AP_START", "AP_STOP", "CONNECTED", "GOT_IP",
          "LOST_IP", "AP_STACONNECTED", "AP_STADISCONNECTED"}
  BY DEF Plain
<1> QED BY <1>1, <1>2, <1>3 DEF Takes, Goes

LEMMA TakesDisconnected ==
  ASSUME NEW s \in BOOLEAN, NEW a \in BOOLEAN, NEW link, NEW g \in Nat, NEW r \in Reasons,
         r # "authexpire" \/ link # "ip" \/ "authexpire" \in LossReasons
  PROVE  Takes(s, a, link, g, s, a, "idle", g, Disconnected(r))
<1>1. \A ids : Disconnected(r) \in Of(ids) <=> "DISCONNECTED" \in ids
  BY EventParts DEF Of
<1>2. Disconnected(r) \in Unconnects <=> r # "authexpire"
  BY <1>1, EventParts DEF Unconnects
<1> QED BY <1>1, <1>2 DEF Takes, Goes

LEMMA WhenIsSeq ==
  ASSUME NEW q \in Seq(Events), NEW c \in BOOLEAN, NEW i \in Plain
  PROVE  When(c, i) \in Seq(Events) /\ q \o When(c, i) \in Seq(Events)
<1>1. Event(i) \in Events
  BY EventParts
<1>2. When(c, i) \in Seq(Events)
  BY <1>1 DEF When
<1> QED BY <1>2

(* The station and the access point are switched from s and a to p and o. *)
LEMMA StaStops ==
  ASSUME NEW q \in Seq(Events), NEW b, NEW st, NEW link, NEW g \in Nat,
         NEW s \in BOOLEAN, NEW a \in BOOLEAN, NEW p \in BOOLEAN,
         Tracked(s, a, link, g, b, st, q), s /\ ~p => link = "idle"
  PROVE  Tracked(s /\ p, a, link, g, b, st, q \o When(s /\ ~p, "STA_STOP"))
<1>1. CASE s = TRUE /\ p = FALSE
  <2>1. When(s /\ ~p, "STA_STOP") = <<Event("STA_STOP")>>
    BY <1>1 DEF When
  <2>e. PICK e : e = Event("STA_STOP")
    OBVIOUS
  <2>2. e \in Events
    BY <2>e, EventParts DEF Plain
  <2>3. Takes(s, a, link, g, p, a, link, g, e)
    BY <1>1, <2>e, TakesPlain
  <2>4. Tracked(p, a, link, g, b, st, q \o <<e>>)
    <3>1. \A s0, a0 \in BOOLEAN : \A g0 \in Nat :
            Takes(s, a, link, g, s0, a0, link, g0, e) => Tracked(s0, a0, link, g0, b, st, q \o <<e>>)
      BY <2>2, TrackedAppend
    <3> QED BY <2>3, <3>1
  <2>5. (s /\ p) = p
    BY <1>1
  <2> QED BY <2>1, <2>4, <2>5, <2>e
<1>2. CASE ~(s /\ ~p)
  <2>1. When(s /\ ~p, "STA_STOP") = <<>>
    BY <1>2 DEF When
  <2>2. (s /\ p) = s
    BY <1>2
  <2>3. q \o <<>> = q
    OBVIOUS
  <2> QED BY <2>1, <2>2, <2>3
<1> QED BY <1>1, <1>2

LEMMA ApStops ==
  ASSUME NEW q \in Seq(Events), NEW b, NEW st, NEW link, NEW g \in Nat, NEW n \in Nat,
         NEW s \in BOOLEAN, NEW a \in BOOLEAN, NEW o \in BOOLEAN,
         Tracked(s, a, link, g, b, st, q), ~a => g = 0, n = IF o THEN g ELSE 0
  PROVE  Tracked(s, a /\ o, link, n, b, st, q \o When(a /\ ~o, "AP_STOP"))
<1>1. CASE a = TRUE /\ o = FALSE
  <2>1. When(a /\ ~o, "AP_STOP") = <<Event("AP_STOP")>>
    BY <1>1 DEF When
  <2>e. PICK e : e = Event("AP_STOP")
    OBVIOUS
  <2>2. e \in Events
    BY <2>e, EventParts DEF Plain
  <2>3. Takes(s, a, link, g, s, o, link, n, e)
    BY <1>1, <2>e, TakesPlain
  <2>4. Tracked(s, o, link, n, b, st, q \o <<e>>)
    <3>1. \A s0, a0 \in BOOLEAN : \A g0 \in Nat :
            Takes(s, a, link, g, s0, a0, link, g0, e) => Tracked(s0, a0, link, g0, b, st, q \o <<e>>)
      BY <2>2, TrackedAppend
    <3> QED BY <2>3, <3>1
  <2>5. (a /\ o) = o
    BY <1>1
  <2> QED BY <2>1, <2>4, <2>5, <2>e
<1>2. CASE ~(a /\ ~o)
  <2>1. When(a /\ ~o, "AP_STOP") = <<>>
    BY <1>2 DEF When
  <2>2. (a /\ o) = a
    BY <1>2
  <2>3. n = g
    BY <1>2
  <2>4. q \o <<>> = q
    OBVIOUS
  <2> QED BY <2>1, <2>2, <2>3, <2>4
<1> QED BY <1>1, <1>2

LEMMA StaStarts ==
  ASSUME NEW q \in Seq(Events), NEW b, NEW st, NEW link, NEW g \in Nat,
         NEW s \in BOOLEAN, NEW a \in BOOLEAN, NEW p \in BOOLEAN,
         NEW sp \in BOOLEAN, sp <=> s /\ p,
         Tracked(sp, a, link, g, b, st, q), ~s => link = "idle"
  PROVE  Tracked(p, a, link, g, b, st, q \o When(p /\ ~s, "STA_START"))
<1>1. CASE s = FALSE /\ p = TRUE
  <2>1. When(p /\ ~s, "STA_START") = <<Event("STA_START")>>
    BY <1>1 DEF When
  <2>e. PICK e : e = Event("STA_START")
    OBVIOUS
  <2>2. e \in Events
    BY <2>e, EventParts DEF Plain
  <2>3. Takes(s, a, link, g, p, a, link, g, e)
    BY <1>1, <2>e, TakesPlain
  <2>4. sp = s
    BY <1>1
  <2>5. Tracked(s, a, link, g, b, st, q)
    BY <2>4
  <2>6. Tracked(p, a, link, g, b, st, q \o <<e>>)
    BY <2>2, <2>3, <2>5, TrackedAppend
  <2> QED BY <1>1, <2>1, <2>6, <2>e
<1>2. CASE ~(p /\ ~s)
  <2>1. When(p /\ ~s, "STA_START") = <<>>
    BY <1>2 DEF When
  <2>2. sp = p
    BY <1>2
  <2>3. q \o <<>> = q
    OBVIOUS
  <2> QED BY <2>1, <2>2, <2>3
<1> QED BY <1>1, <1>2

LEMMA ApStarts ==
  ASSUME NEW q \in Seq(Events), NEW b, NEW st, NEW link, NEW g \in Nat,
         NEW s \in BOOLEAN, NEW a \in BOOLEAN, NEW o \in BOOLEAN,
         NEW ao \in BOOLEAN, ao <=> a /\ o,
         Tracked(s, ao, link, g, b, st, q)
  PROVE  Tracked(s, o, link, g, b, st, q \o When(o /\ ~a, "AP_START"))
<1>1. CASE a = FALSE /\ o = TRUE
  <2>1. When(o /\ ~a, "AP_START") = <<Event("AP_START")>>
    BY <1>1 DEF When
  <2>e. PICK e : e = Event("AP_START")
    OBVIOUS
  <2>2. e \in Events
    BY <2>e, EventParts DEF Plain
  <2>3. Takes(s, a, link, g, s, o, link, g, e)
    BY <1>1, <2>e, TakesPlain
  <2>4. ao = a
    BY <1>1
  <2>5. Tracked(s, a, link, g, b, st, q)
    BY <2>4
  <2>6. Tracked(s, o, link, g, b, st, q \o <<e>>)
    BY <2>2, <2>3, <2>5, TrackedAppend
  <2> QED BY <1>1, <2>1, <2>6, <2>e
<1>2. CASE ~(o /\ ~a)
  <2>1. When(o /\ ~a, "AP_START") = <<>>
    BY <1>2 DEF When
  <2>2. ao = o
    BY <1>2
  <2>3. q \o <<>> = q
    OBVIOUS
  <2> QED BY <2>1, <2>2, <2>3
<1> QED BY <1>1, <1>2

-----------------------------------------------------------------------------
(* The driver's calls                                                      *)

(* The new state r of the radio differs from w only in what RadioOK does   *)
(* not look at.                                                            *)
Same(w, r) ==
  /\ r \in Radio
  /\ r.on = w.on /\ r.started = w.started /\ r.mode = w.mode
  /\ r.link = w.link /\ r.guests = w.guests /\ r.queue = w.queue
  /\ w.inited => r.inited

LEMMA SameOK ==
  ASSUME NEW b, NEW st, NEW w, NEW r, RadioOK(w, b, st), Same(w, r)
  PROVE  RadioOK(r, b, st)
BY DEF RadioOK, Same, StaOn, ApOn

LEMMA OkSame ==
  ASSUME NEW w \in Radio, NEW c \in BOOLEAN
  PROVE  Same(w, [w EXCEPT !.ok = c]) /\ Same(w, [w EXCEPT !.owed = c])
BY DEF Same, Radio

LEMMA FailsOK ==
  ASSUME NEW b, NEW st, NEW w, RadioOK(w, b, st), NEW r \in Fails(w)
  PROVE  RadioOK(r, b, st) /\ r.ok = FALSE
<1>1. w \in Radio
  BY DEF RadioOK
<1>2. r = [w EXCEPT !.ok = FALSE]
  BY DEF Fails
<1>3. Same(w, r)
  BY <1>1, <1>2, OkSame
<1>4. r.ok = FALSE
  BY <1>1, <1>2 DEF Radio
<1> QED BY <1>3, <1>4, SameOK

LEMMA SucceedsOK ==
  ASSUME NEW b, NEW st, NEW w, RadioOK(w, b, st)
  PROVE  RadioOK(Succeeds(w), b, st) /\ Same(w, Succeeds(w)) /\ Succeeds(w).ok = TRUE
<1>1. w \in Radio
  BY DEF RadioOK
<1>2. Same(w, Succeeds(w))
  BY <1>1, OkSame DEF Succeeds
<1>3. Succeeds(w).ok = TRUE
  BY <1>1 DEF Radio, Succeeds
<1> QED BY <1>2, <1>3, SameOK

LEMMA EspDisconnectOK ==
  ASSUME NEW b, NEW st, NEW w, RadioOK(w, b, st)
  PROVE  /\ RadioOK(EspDisconnect(w), b, st)
         /\ EspDisconnect(w).link = "idle"
         /\ \A f \in {"on", "started", "inited", "mode", "guests", "ok"} : EspDisconnect(w)[f] = w[f]
<1>1. w \in Radio
  BY DEF RadioOK
<1>2. CASE w.link = "idle"
  BY <1>2 DEF EspDisconnect
<1>3. CASE w.link # "idle"
  <2>1. PICK e : e = Disconnected("leave")
    OBVIOUS
  <2>2. e \in Events
    BY <2>1, EventParts DEF Reasons
  <2>3. PICK r : r = EspDisconnect(w)
    OBVIOUS
  <2>4. /\ r \in Radio
        /\ r.on = w.on /\ r.started = w.started /\ r.inited = w.inited /\ r.mode = w.mode
        /\ r.guests = w.guests /\ r.ok = w.ok
        /\ r.link = "idle" /\ r.queue = w.queue \o <<e>>
    <3>0. w.queue \in Seq(Events)
      BY <1>1 DEF Radio
    <3>a. w.queue \o <<e>> \in Seq(Events)
      BY <2>2, <3>0, AppendIsSeq
    <3>1. PICK q : q = w.queue \o <<e>> /\ q \in Seq(Events)
      BY <3>a
    <3>2. r = [w EXCEPT !.link = "idle", !.lostIp = w.lostIp \/ w.link = "ip", !.queue = q]
      BY <1>1, <1>3, <2>1, <2>3, <3>1 DEF EspDisconnect, LinkDown, Post, Radio
    <3> QED BY <1>1, <3>1, <3>2 DEF Radio
  <2>5. w.queue \in Seq(Events) /\ w.guests \in Nat /\ StaOn(w) \in BOOLEAN /\ ApOn(w) \in BOOLEAN
    BY <1>1 DEF Radio, StaOn, ApOn
  <2>6. Takes(StaOn(w), ApOn(w), w.link, w.guests, StaOn(w), ApOn(w), "idle", w.guests, e)
    <3>1. "leave" \in Reasons /\ "leave" # "authexpire"
      BY DEF Reasons
    <3> QED BY <2>1, <2>5, <3>1, TakesDisconnected
  <2>7. Tracked(StaOn(w), ApOn(w), "idle", w.guests, b, st, w.queue \o <<e>>)
    <3>1. Tracked(StaOn(w), ApOn(w), w.link, w.guests, b, st, w.queue)
      BY DEF RadioOK
    <3> QED BY <2>2, <2>5, <2>6, <3>1, TrackedAppend
  <2>8. StaOn(r) = StaOn(w) /\ ApOn(r) = ApOn(w)
    BY <2>4 DEF StaOn, ApOn
  <2>9. RadioOK(r, b, st)
    BY <2>4, <2>7, <2>8 DEF RadioOK
  <2> QED BY <2>3, <2>4, <2>9
<1> QED BY <1>2, <1>3

LEMMA EspConnectOK ==
  ASSUME NEW b, NEW st, NEW w, RadioOK(w, b, st), StaOn(w)
  PROVE  RadioOK(EspConnect(w), b, st)
<1>1. w \in Radio
  BY DEF RadioOK
<1>2. CASE w.link = "idle"
  <2>1. PICK r : r = EspConnect(w)
    OBVIOUS
  <2>2. /\ r \in Radio
        /\ r.on = w.on /\ r.started = w.started /\ r.inited = w.inited /\ r.mode = w.mode
        /\ r.guests = w.guests /\ r.link = "joining" /\ r.queue = w.queue
    BY <1>1, <1>2, <2>1 DEF EspConnect, Radio
  <2>3. StaOn(r) = StaOn(w) /\ ApOn(r) = ApOn(w)
    BY <2>2 DEF StaOn, ApOn
  <2>4. Tracked(StaOn(w), ApOn(w), w.link, w.guests, b, st, w.queue)
    BY DEF RadioOK
  <2>5. Tracked(StaOn(w), ApOn(w), "joining", w.guests, b, st, w.queue)
    BY <1>2, <2>4 DEF Tracked, Follows
  <2>6. RadioOK(r, b, st)
    BY <2>2, <2>3, <2>5 DEF RadioOK
  <2> QED BY <2>1, <2>6
<1>3. CASE w.link # "idle"
  BY <1>3 DEF EspConnect
<1> QED BY <1>2, <1>3

(* Concatenation, kept opaque where only its associativity matters. *)
Cat(c, d) == c \o d

LEMMA CatAssociative ==
  \A q, c, d \in Seq(Events) : Cat(q, Cat(c, d)) = Cat(Cat(q, c), d) /\ Cat(c, d) \in Seq(Events)
<1> SUFFICES ASSUME NEW q \in Seq(Events), NEW c \in Seq(Events), NEW d \in Seq(Events)
             PROVE  q \o (c \o d) = (q \o c) \o d /\ c \o d \in Seq(Events)
  BY DEF Cat
<1>1. (q \o c) \o d = q \o (c \o d)
  BY ConcatAssociative, SMTT(60)
<1>2. c \o d \in Seq(Events)
  BY ConcatProperties
<1> QED BY <1>1, <1>2

LEMMA ConcatThree ==
  \A q, c, d \in Seq(Events) : q \o (c \o d) = (q \o c) \o d /\ c \o d \in Seq(Events)
BY CatAssociative DEF Cat

LEMMA ConcatFour ==
  ASSUME NEW q \in Seq(Events), NEW c \in Seq(Events), NEW d \in Seq(Events), NEW e \in Seq(Events)
  PROVE  q \o ((c \o d) \o e) = ((q \o c) \o d) \o e
<1>1. Cat(q, Cat(Cat(c, d), e)) = Cat(Cat(Cat(q, c), d), e)
  BY CatAssociative
<1> QED BY <1>1 DEF Cat

Chain(q, c, d, e, f) == (((q \o c) \o d) \o e) \o f
Joined(q, c, d, e, f) == q \o (((c \o d) \o e) \o f)

LEMMA ConcatFive ==
  ASSUME NEW q \in Seq(Events), NEW c \in Seq(Events), NEW d \in Seq(Events), NEW e \in Seq(Events)
  PROVE  \A f \in Seq(Events) : Joined(q, c, d, e, f) = Chain(q, c, d, e, f)
<1> SUFFICES ASSUME NEW f \in Seq(Events)
             PROVE  Joined(q, c, d, e, f) = Chain(q, c, d, e, f)
  OBVIOUS
<1>1. Cat(q, Cat(Cat(Cat(c, d), e), f)) = Cat(Cat(Cat(Cat(q, c), d), e), f)
  BY CatAssociative
<1> QED BY <1>1 DEF Cat, Chain, Joined

(* The state that EspSwitch leaves: the driver on, in mode m.  The flags   *)
(* of the driver are not adapted yet.                                      *)
Switched(w, m, r, b, st) ==
  /\ r \in Radio /\ r.on = TRUE /\ r.mode = m
  /\ r.started = w.started /\ r.inited = w.inited /\ r.ok = w.ok
  /\ r.link # "idle" => "STA" \in m
  /\ r.guests > 0 => "AP" \in m
  /\ Tracked("STA" \in m, "AP" \in m, r.link, r.guests, b, st, r.queue)


(* The four events of a switch, in the order the driver posts them. *)
LEMMA SwitchTracked ==
  ASSUME NEW q \in Seq(Events), NEW b, NEW st, NEW link, NEW g \in Nat, NEW n \in Nat,
         NEW s \in BOOLEAN, NEW a \in BOOLEAN, NEW p \in BOOLEAN, NEW o \in BOOLEAN,
         Tracked(s, a, link, g, b, st, q),
         link # "idle" => s /\ p, ~a => g = 0, n = IF o THEN g ELSE 0
  PROVE  /\ Tracked(p, o, link, n, b, st,
                    q \o (((When(s /\ ~p, "STA_STOP") \o When(a /\ ~o, "AP_STOP"))
                          \o When(p /\ ~s, "STA_START")) \o When(o /\ ~a, "AP_START")))
         /\ q \o (((When(s /\ ~p, "STA_STOP") \o When(a /\ ~o, "AP_STOP"))
                          \o When(p /\ ~s, "STA_START")) \o When(o /\ ~a, "AP_START")) \in Seq(Events)
<1>a. \A s0 \in BOOLEAN : \A q0 \in Seq(Events) :
        Tracked(s0, a, link, g, b, st, q0) =>
          Tracked(s0, a /\ o, link, n, b, st, q0 \o When(a /\ ~o, "AP_STOP"))
  BY ApStops
<1>b. \A sp, a0 \in BOOLEAN : \A q0 \in Seq(Events) :
        (sp <=> s /\ p) /\ Tracked(sp, a0, link, n, b, st, q0) =>
          Tracked(p, a0, link, n, b, st, q0 \o When(p /\ ~s, "STA_START"))
  <2>1. ~s => link = "idle"
    OBVIOUS
  <2> QED BY <2>1, StaStarts
<1>c. \A ao \in BOOLEAN : \A q0 \in Seq(Events) :
        (ao <=> a /\ o) /\ Tracked(p, ao, link, n, b, st, q0) =>
          Tracked(p, o, link, n, b, st, q0 \o When(o /\ ~a, "AP_START"))
  BY ApStarts
<1>1. \A i \in {"STA_STOP", "AP_STOP", "STA_START", "AP_START"} : i \in Plain
  BY DEF Plain
<1>2. PICK x : x = When(s /\ ~p, "STA_STOP") /\ x \in Seq(Events)
  BY <1>1, WhenIsSeq
<1>3. PICK y : y = When(a /\ ~o, "AP_STOP") /\ y \in Seq(Events)
  BY <1>1, WhenIsSeq
<1>4. PICK z : z = When(p /\ ~s, "STA_START") /\ z \in Seq(Events)
  BY <1>1, WhenIsSeq
<1>5. PICK u : u = When(o /\ ~a, "AP_START") /\ u \in Seq(Events)
  BY <1>1, WhenIsSeq
<1>6. PICK q2 : q2 = q \o x /\ q2 \in Seq(Events)
  BY <1>2, ConcatThree
<1>7. PICK q3 : q3 = q2 \o y /\ q3 \in Seq(Events)
  BY <1>3, <1>6, ConcatThree
<1>8. PICK q4 : q4 = q3 \o z /\ q4 \in Seq(Events)
  BY <1>4, <1>7, ConcatThree
<1>9. PICK q5 : q5 = q4 \o u /\ q5 \in Seq(Events)
  BY <1>5, <1>8, ConcatThree
<1>10. Tracked(s /\ p, a, link, g, b, st, q2)
  <2>1. s /\ ~p => link = "idle"
    OBVIOUS
  <2> QED BY <1>2, <1>6, <2>1, StaStops
<1>11. PICK s2 \in BOOLEAN : s2 = (s /\ p)
  OBVIOUS
<1>12. Tracked(s2, a /\ o, link, n, b, st, q3)
  <2>1. Tracked(s2, a, link, g, b, st, q2)
    BY <1>10, <1>11
  <2> QED BY <1>3, <1>6, <1>7, <1>a, <2>1
<1>13. PICK a2 \in BOOLEAN : a2 = (a /\ o)
  OBVIOUS
<1>14. Tracked(p, a2, link, n, b, st, q4)
  <2>1. Tracked(s2, a2, link, n, b, st, q3) /\ (s2 <=> s /\ p)
    BY <1>11, <1>12, <1>13
  <2> QED BY <1>4, <1>7, <1>8, <1>b, <2>1
<1>15. Tracked(p, o, link, n, b, st, q5)
  <2>1. a2 <=> a /\ o
    BY <1>13
  <2> QED BY <1>5, <1>8, <1>9, <1>14, <1>c, <2>1
<1>16. q5 = q \o (((x \o y) \o z) \o u)
  <2>1. q5 = Chain(q, x, y, z, u)
    BY <1>6, <1>7, <1>8, <1>9 DEF Chain
  <2>2. q5 = Joined(q, x, y, z, u)
    BY <1>2, <1>3, <1>4, <1>5, <2>1, ConcatFive
  <2> QED BY <2>2 DEF Joined
<1> QED BY <1>2, <1>3, <1>4, <1>5, <1>9, <1>15, <1>16

LEMMA EspSwitchOK ==
  ASSUME NEW b, NEW st, NEW w, RadioOK(w, b, st), NEW m \in Modes
  PROVE  Switched(w, m, EspSwitch(w, m), b, st)
<1>1. w \in Radio
  BY DEF RadioOK
<1>2. PICK was \in Modes : was = IF w.on THEN w.mode ELSE {}
  BY <1>1 DEF Radio, Modes
<1>3. PICK v : v = IF "STA" \in was \ m THEN EspDisconnect(w) ELSE w
  OBVIOUS
<1>4. /\ RadioOK(v, b, st)
      /\ v.on = w.on /\ v.started = w.started /\ v.inited = w.inited /\ v.mode = w.mode
      /\ v.guests = w.guests /\ v.ok = w.ok
      /\ v.link # "idle" => "STA" \in was /\ "STA" \in m
  <2>1. CASE "STA" \in was \ m
    BY <1>3, <2>1, EspDisconnectOK
  <2>2. CASE "STA" \notin was \ m
    BY <1>2, <1>3, <2>2 DEF RadioOK, StaOn
  <2> QED BY <2>1, <2>2
<1>5. v \in Radio /\ v.queue \in Seq(Events) /\ v.guests \in Nat
  BY <1>4 DEF RadioOK, Radio
<1>6. /\ StaOn(v) \in BOOLEAN /\ (StaOn(v) <=> "STA" \in was)
      /\ ApOn(v) \in BOOLEAN /\ (ApOn(v) <=> "AP" \in was)
      /\ ~ApOn(v) => v.guests = 0
      /\ Tracked(StaOn(v), ApOn(v), v.link, v.guests, b, st, v.queue)
  <2>1. (StaOn(v) <=> "STA" \in was) /\ (ApOn(v) <=> "AP" \in was)
    BY <1>1, <1>2, <1>4 DEF StaOn, ApOn
  <2>2. StaOn(v) \in BOOLEAN /\ ApOn(v) \in BOOLEAN
    BY <1>5 DEF StaOn, ApOn, Radio
  <2>3. /\ ~ApOn(v) => v.guests = 0
        /\ Tracked(StaOn(v), ApOn(v), v.link, v.guests, b, st, v.queue)
    BY <1>4, <1>5 DEF RadioOK
  <2> QED BY <2>1, <2>2, <2>3
<1>7. PICK s \in BOOLEAN : s = StaOn(v)
  BY <1>6
<1>8. PICK a \in BOOLEAN : a = ApOn(v)
  BY <1>6
<1>9. PICK p \in BOOLEAN : p <=> "STA" \in m
  OBVIOUS
<1>10. PICK o \in BOOLEAN : o <=> "AP" \in m
  OBVIOUS
<1>11. PICK n \in 0..MaxStations : n = IF o THEN v.guests ELSE 0
  BY <1>5, BoundAssumption DEF Radio
<1>12. n \in Nat /\ (n > 0 => o)
  BY <1>11, BoundAssumption
<1>13. PICK evs : evs = ((When(s /\ ~p, "STA_STOP") \o When(a /\ ~o, "AP_STOP"))
                         \o When(p /\ ~s, "STA_START")) \o When(o /\ ~a, "AP_START")
  OBVIOUS
<1>14. Tracked(p, o, v.link, n, b, st, v.queue \o evs) /\ v.queue \o evs \in Seq(Events)
  <2>1. /\ Tracked(s, a, v.link, v.guests, b, st, v.queue)
        /\ v.link # "idle" => s /\ p
        /\ ~a => v.guests = 0
    BY <1>4, <1>6, <1>7, <1>8, <1>9
  <2> QED BY <1>5, <1>11, <1>12, <1>13, <2>1, SwitchTracked
<1>15. PICK r : r = EspSwitch(w, m)
  OBVIOUS
<1>16. r = Post([v EXCEPT !.mode = m, !.on = TRUE, !.guests = IF "AP" \in m THEN @ ELSE 0], evs)
  <2>1. /\ When("STA" \in was \ m, "STA_STOP") = When(s /\ ~p, "STA_STOP")
        /\ When("AP" \in was \ m, "AP_STOP") = When(a /\ ~o, "AP_STOP")
        /\ When("STA" \in m \ was, "STA_START") = When(p /\ ~s, "STA_START")
        /\ When("AP" \in m \ was, "AP_START") = When(o /\ ~a, "AP_START")
    BY <1>6, <1>7, <1>8, <1>9, <1>10 DEF When
  <2>2. r = Post([v EXCEPT !.mode = m, !.on = TRUE, !.guests = IF "AP" \in m THEN @ ELSE 0],
                 ((When("STA" \in was \ m, "STA_STOP") \o When("AP" \in was \ m, "AP_STOP"))
                  \o When("STA" \in m \ was, "STA_START")) \o When("AP" \in m \ was, "AP_START"))
    BY <1>2, <1>3, <1>15, Zenon DEF EspSwitch
  <2> QED BY <1>13, <2>1, <2>2
<1>17. r = [v EXCEPT !.mode = m, !.on = TRUE, !.guests = n, !.queue = v.queue \o evs]
  BY <1>5, <1>10, <1>11, <1>16 DEF Post, Radio
<1>18. PICK q \in Seq(Events) : q = v.queue \o evs
  BY <1>14
<1>19. /\ r \in Radio /\ r.on = TRUE /\ r.mode = m
       /\ r.started = v.started /\ r.inited = v.inited /\ r.ok = v.ok
       /\ r.link = v.link /\ r.guests = n /\ r.queue = q
  BY <1>5, <1>17, <1>18 DEF Radio
<1>20. p = ("STA" \in m) /\ o = ("AP" \in m)
  BY <1>9, <1>10
<1>21. Tracked("STA" \in m, "AP" \in m, r.link, r.guests, b, st, r.queue)
  BY <1>14, <1>18, <1>19, <1>20
<1> QED BY <1>4, <1>9, <1>10, <1>12, <1>15, <1>19, <1>21 DEF Switched

-----------------------------------------------------------------------------
(* The calls of WiFiGeneric and WiFiSTA                                    *)

LEMMA LowLevelInitOK ==
  ASSUME NEW b, NEW st, NEW w, RadioOK(w, b, st), NEW r \in LowLevelInit(w)
  PROVE  RadioOK(r, b, st) /\ (r.ok => r.inited)
<1>1. w \in Radio
  BY DEF RadioOK
<1>2. CASE w.inited
  <2>1. r = Succeeds(w)
    BY <1>2 DEF LowLevelInit
  <2> QED BY <1>2, <2>1, SucceedsOK DEF Same
<1>3. CASE r \in Fails(w)
  BY <1>3, FailsOK
<1>4. CASE ~w.inited /\ r \notin Fails(w)
  <2>1. PICK e : e = Event("READY")
    OBVIOUS
  <2>2. e \in Events
    BY <2>1, EventParts DEF Plain
  <2>3. w.queue \in Seq(Events) /\ w.guests \in Nat /\ StaOn(w) \in BOOLEAN /\ ApOn(w) \in BOOLEAN
    BY <1>1 DEF Radio, StaOn, ApOn
  <2>4. PICK q : q = w.queue \o <<e>> /\ q \in Seq(Events)
    BY <2>2, <2>3, AppendIsSeq
  <2>5. r = [w EXCEPT !.ok = TRUE, !.inited = TRUE, !.queue = q]
    BY <1>1, <1>4, <2>1, <2>4 DEF LowLevelInit, Post, Succeeds, Radio
  <2>6. /\ r \in Radio /\ r.inited
        /\ r.on = w.on /\ r.started = w.started /\ r.mode = w.mode
        /\ r.guests = w.guests /\ r.link = w.link /\ r.queue = q
    BY <1>1, <2>4, <2>5 DEF Radio
  <2>7. Tracked(StaOn(w), ApOn(w), w.link, w.guests, b, st, q)
    <3>1. Tracked(StaOn(w), ApOn(w), w.link, w.guests, b, st, w.queue)
      BY DEF RadioOK
    <3>2. Takes(StaOn(w), ApOn(w), w.link, w.guests, StaOn(w), ApOn(w), w.link, w.guests, e)
      BY <2>1, <2>3, TakesPlain
    <3>3. Tracked(StaOn(w), ApOn(w), w.link, w.guests, b, st, w.queue \o <<e>>)
      BY <2>2, <2>3, <3>1, <3>2, TrackedAppend
    <3> QED BY <2>4, <3>3
  <2>8. StaOn(r) = StaOn(w) /\ ApOn(r) = ApOn(w)
    BY <2>6 DEF StaOn, ApOn
  <2> QED BY <2>6, <2>7, <2>8 DEF RadioOK
<1> QED BY <1>2, <1>3, <1>4

LEMMA WiFiStopOK ==
  ASSUME NEW b, NEW st, NEW w, RadioOK(w, b, st), NEW r \in WiFiStop(w)
  PROVE  RadioOK(r, b, st)
<1>1. PICK v : v = Succeeds(w)
  OBVIOUS
<1>2. RadioOK(v, b, st) /\ v \in Radio
  BY <1>1, SucceedsOK DEF RadioOK
<1>3. PICK x : x = EspSwitch(v, {})
  OBVIOUS
<1>4. Switched(v, {}, x, b, st)
  BY <1>2, <1>3, EspSwitchOK DEF Modes
<1>5. PICK y : y = [EspStop(v) EXCEPT !.started = FALSE]
  OBVIOUS
<1>6. x \in Radio
  BY <1>4 DEF Switched
<1>7. y = [x EXCEPT !.on = FALSE, !.mode = v.mode, !.started = FALSE]
  BY <1>3, <1>5, <1>6 DEF EspStop, Radio
<1>8. /\ y \in Radio /\ ~y.on /\ y.on = FALSE /\ ~y.started /\ y.started = FALSE
      /\ y.link = x.link /\ y.guests = x.guests /\ y.queue = x.queue
  BY <1>2, <1>6, <1>7 DEF Radio
<1>9. /\ x.link = "idle" /\ x.guests = 0
      /\ Tracked("STA" \in {}, "AP" \in {}, x.link, x.guests, b, st, x.queue)
  BY <1>4, <1>6 DEF Switched, Radio
<1>10. \A z \in Radio : /\ z.on = FALSE /\ z.started = FALSE /\ z.link = y.link
                         /\ z.guests = y.guests /\ z.queue = y.queue => RadioOK(z, b, st)
  <2> SUFFICES ASSUME NEW z \in Radio, z.on = FALSE, z.started = FALSE, z.link = y.link,
                      z.guests = y.guests, z.queue = y.queue
               PROVE  RadioOK(z, b, st)
    OBVIOUS
  <2>1. StaOn(z) = FALSE /\ ApOn(z) = FALSE
    BY DEF StaOn, ApOn
  <2>2. ("STA" \in {}) = FALSE /\ ("AP" \in {}) = FALSE
    OBVIOUS
  <2>3. Tracked(FALSE, FALSE, z.link, z.guests, b, st, z.queue)
    BY <1>8, <1>9, <2>2
  <2>4. z.link = "idle" /\ ~(z.guests > 0)
    BY <1>8, <1>9
  <2> QED BY <2>1, <2>3, <2>4 DEF RadioOK
<1>11. RadioOK(y, b, st)
  BY <1>8, <1>10
<1>12. RadioOK([y EXCEPT !.inited = FALSE], b, st)
  <2>1. PICK z : z = [y EXCEPT !.inited = FALSE]
    OBVIOUS
  <2>2. /\ z \in Radio /\ z.on = FALSE /\ z.started = FALSE /\ z.link = y.link
        /\ z.guests = y.guests /\ z.queue = y.queue
    BY <1>8, <2>1 DEF Radio
  <2> QED BY <1>10, <2>1, <2>2
<1>13. r \in Fails(w) \/ r \in Fails(y) \/ r = [y EXCEPT !.inited = FALSE]
  BY <1>1, <1>5 DEF WiFiStop
<1> QED BY <1>11, <1>12, <1>13, FailsOK

(* What a call that sets mode m leaves. *)
InMode(r, m, b, st) == RadioOK(r, b, st) /\ (r.ok => r.on /\ r.mode = m)

LEMMA SetModeOK ==
  ASSUME NEW b, NEW st, NEW w, RadioOK(w, b, st), w.inited, NEW m \in Modes, m # {},
         NEW r \in SetMode(w, m)
  PROVE  InMode(r, m, b, st)
<1>1. w \in Radio
  BY DEF RadioOK
<1>2. PICK v : v = IF w.on THEN EspSwitch(w, m) ELSE [w EXCEPT !.mode = m]
  OBVIOUS
<1>3. RadioOK(v, b, st) /\ v.inited
  <2>1. CASE w.on
    <3>1. Switched(w, m, v, b, st)
      BY <1>2, <2>1, EspSwitchOK
    <3>2. v.started = v.on /\ v.inited
      BY <1>1, <2>1, <3>1 DEF Switched, RadioOK, Radio
    <3>3. StaOn(v) = ("STA" \in m) /\ ApOn(v) = ("AP" \in m)
      BY <3>1 DEF Switched, StaOn, ApOn
    <3> QED BY <3>1, <3>2, <3>3 DEF Switched, RadioOK
  <2>2. CASE ~w.on
    <3>1. v = [w EXCEPT !.mode = m]
      BY <1>2, <2>2
    <3>2. /\ v \in Radio /\ v.on = w.on /\ v.started = w.started /\ v.inited = w.inited
          /\ v.link = w.link /\ v.guests = w.guests /\ v.queue = w.queue
      BY <1>1, <3>1 DEF Radio
    <3>3. StaOn(v) = StaOn(w) /\ ApOn(v) = ApOn(w)
      BY <2>2, <3>2 DEF StaOn, ApOn
    <3> QED BY <2>2, <3>2, <3>3 DEF RadioOK
  <2> QED BY <2>1, <2>2
<1>4. PICK x : x = EspSwitch(v, m)
  OBVIOUS
<1>5. Switched(v, m, x, b, st)
  BY <1>3, <1>4, EspSwitchOK
<1>6. PICK y : y = [x EXCEPT !.started = TRUE, !.ok = TRUE]
  OBVIOUS
<1>7. x \in Radio
  BY <1>5 DEF Switched
<1>8. /\ y \in Radio /\ y.started = TRUE /\ y.on = x.on /\ y.mode = x.mode /\ y.inited = x.inited
      /\ y.link = x.link /\ y.guests = x.guests /\ y.queue = x.queue
  BY <1>6, <1>7 DEF Radio
<1>9. y.on = TRUE /\ y.mode = m /\ y.inited
  BY <1>3, <1>5, <1>8 DEF Switched
<1>10. StaOn(y) = ("STA" \in m) /\ ApOn(y) = ("AP" \in m)
  BY <1>9 DEF StaOn, ApOn
<1>11. RadioOK(y, b, st)
  BY <1>5, <1>8, <1>9, <1>10 DEF Switched, RadioOK
<1>12. r \in Fails(w) \/ r \in Fails(v) \/ r = y
  BY <1>2, <1>4, <1>6 DEF SetMode
<1> QED BY <1>3, <1>9, <1>11, <1>12, FailsOK DEF InMode

LEMMA GetMode ==
  ASSUME NEW b, NEW st, NEW w, RadioOK(w, b, st)
  PROVE  /\ getMode(w) \in Modes
         /\ getMode(w) # {} => w.on /\ w.inited /\ w.mode = getMode(w)
         /\ "STA" \in getMode(w) => StaOn(w)
BY DEF getMode, RadioOK, Radio, Modes, StaOn

LEMMA ModeOK ==
  ASSUME NEW b, NEW st, NEW w, RadioOK(w, b, st), NEW m \in Modes, NEW r \in mode(w, m)
  PROVE  RadioOK(r, b, st) /\ (m # {} => InMode(r, m, b, st))
<1>1. CASE getMode(w) = m
  <2>1. r = Succeeds(w)
    BY <1>1 DEF mode
  <2>2. RadioOK(r, b, st) /\ r.on = w.on /\ r.mode = w.mode
    BY <2>1, SucceedsOK DEF Same
  <2>3. m # {} => w.on /\ w.mode = m
    BY <1>1, GetMode
  <2> QED BY <2>2, <2>3 DEF InMode
<1>2. CASE getMode(w) # m /\ m = {}
  <2>1. r \in WiFiStop(w)
    BY <1>2 DEF mode
  <2> QED BY <1>2, <2>1, WiFiStopOK
<1>3. CASE getMode(w) # m /\ m # {} /\ getMode(w) # {}
  <2>1. r \in SetMode(w, m)
    BY <1>3 DEF mode
  <2>2. w.inited
    BY <1>3, GetMode
  <2> QED BY <1>3, <2>1, <2>2, SetModeOK DEF InMode
<1>4. CASE getMode(w) # m /\ m # {} /\ getMode(w) = {}
  <2>1. PICK w1 \in LowLevelInit(w) : r \in IF w1.ok THEN SetMode(w1, m) ELSE {w1}
    BY <1>4 DEF mode
  <2>2. RadioOK(w1, b, st) /\ (w1.ok => w1.inited)
    BY LowLevelInitOK
  <2>3. CASE w1.ok
    BY <1>4, <2>1, <2>2, <2>3, SetModeOK DEF InMode
  <2>4. CASE ~w1.ok
    BY <2>1, <2>2, <2>4 DEF InMode
  <2> QED BY <2>3, <2>4
<1> QED BY <1>1, <1>2, <1>3, <1>4

LEMMA EnableStaOK ==
  ASSUME NEW b, NEW st, NEW w, RadioOK(w, b, st), NEW r \in enableSTA(w)
  PROVE  RadioOK(r, b, st) /\ (r.ok => StaOn(r))
<1>1. PICK m : m = getMode(w) \cup {"STA"}
  OBVIOUS
<1>2. m \in Modes /\ m # {} /\ "STA" \in m
  BY <1>1, GetMode DEF Modes
<1>3. r \in mode(w, m)
  BY <1>1 DEF enableSTA
<1> QED BY <1>2, <1>3, ModeOK DEF InMode, StaOn

LEMMA ConnectingOK ==
  ASSUME NEW b, NEW st, NEW w, RadioOK(w, b, st), StaOn(w), NEW r \in Connecting(w)
  PROVE  RadioOK(r, b, st)
<1>1. r \in Fails(w) \/ r = Succeeds(EspConnect(w))
  BY DEF Connecting
<1>2. RadioOK(EspConnect(w), b, st)
  BY EspConnectOK
<1> QED BY <1>1, <1>2, FailsOK, SucceedsOK

LEMMA LeftOK ==
  ASSUME NEW b, NEW st, NEW w, RadioOK(w, b, st)
  PROVE  RadioOK(EspDisconnect(w), b, st) /\ StaOn(EspDisconnect(w)) = StaOn(w)
BY EspDisconnectOK DEF StaOn

LEMMA BeginOK ==
  ASSUME NEW b, NEW st, NEW w, RadioOK(w, b, st), NEW s, NEW r \in begin(w, s)
  PROVE  RadioOK(r, b, st)
<1>1. PICK w1 \in enableSTA(w) :
        r \in IF ~w1.ok THEN {w1}
              ELSE IF s = "CONNECTED" THEN Fails(w1) \cup {w1} ELSE Connecting(w1)
  BY DEF begin
<1>2. RadioOK(w1, b, st) /\ (w1.ok => StaOn(w1))
  BY EnableStaOK
<1>3. r = w1 \/ r \in Fails(w1) \/ (w1.ok /\ r \in Connecting(w1))
  BY <1>1
<1> QED BY <1>2, <1>3, FailsOK, ConnectingOK

LEMMA BeginWithOK ==
  ASSUME NEW b, NEW st, NEW w, RadioOK(w, b, st), NEW s, NEW same \in BOOLEAN,
         NEW connect \in BOOLEAN, NEW r \in beginWith(w, s, same, connect)
  PROVE  RadioOK(r, b, st)
<1>1. PICK w1 \in enableSTA(w) :
        \/ r = w1 /\ ~w1.ok
        \/ r \in Fails(w1)
        \/ w1.ok /\ r \in LET w2 == IF same THEN w1 ELSE EspDisconnect(w1) IN
                          CASE same /\ s = "CONNECTED" -> {w2}
                            [] connect -> Connecting(w2)
                            [] OTHER   -> Fails(w2) \cup {w2}
  BY DEF beginWith
<1>2. RadioOK(w1, b, st) /\ (w1.ok => StaOn(w1))
  BY EnableStaOK
<1>3. PICK w2 : w2 = IF same THEN w1 ELSE EspDisconnect(w1)
  OBVIOUS
<1>4. RadioOK(w2, b, st) /\ (w1.ok => StaOn(w2))
  BY <1>2, <1>3, LeftOK
<1>5. r = w1 \/ r = w2 \/ r \in Fails(w1) \/ r \in Fails(w2) \/ (w1.ok /\ r \in Connecting(w2))
  BY <1>1, <1>3
<1> QED BY <1>2, <1>4, <1>5, FailsOK, ConnectingOK

LEMMA BeginEnterpriseOK ==
  ASSUME NEW b, NEW st, NEW w, RadioOK(w, b, st), NEW s, NEW same \in BOOLEAN,
         NEW r \in beginEnterprise(w, s, same)
  PROVE  RadioOK(r, b, st)
<1>1. PICK w1 \in enableSTA(w) :
        r \in IF w1.ok THEN Fails(w1) \cup beginWith(w1, s, same, TRUE) ELSE {w1}
  BY DEF beginEnterprise
<1>2. RadioOK(w1, b, st)
  BY EnableStaOK
<1>3. r = w1 \/ r \in Fails(w1) \/ r \in beginWith(w1, s, same, TRUE)
  BY <1>1
<1> QED BY <1>2, <1>3, FailsOK, BeginWithOK

LEMMA DisconnectOK ==
  ASSUME NEW b, NEW st, NEW w, RadioOK(w, b, st), NEW off \in BOOLEAN, NEW r \in disconnect(w, off)
  PROVE  RadioOK(r, b, st)
<1>1. w \in Radio
  BY DEF RadioOK
<1>2. PICK w1 : w1 = EspDisconnect(Succeeds(w))
  OBVIOUS
<1>3. RadioOK(w1, b, st)
  BY <1>2, SucceedsOK, LeftOK
<1>4. PICK m : m = getMode(w1) \ {"STA"}
  OBVIOUS
<1>5. m \in Modes
  BY <1>3, <1>4, GetMode DEF Modes
<1>6. r = [w EXCEPT !.ok = FALSE] \/ r \in Fails(w) \/ r \in mode(w1, m) \/ r = w1
  BY <1>2, <1>4 DEF disconnect
<1>7. RadioOK([w EXCEPT !.ok = FALSE], b, st)
  BY <1>1, OkSame, SameOK
<1> QED BY <1>3, <1>5, <1>6, <1>7, FailsOK, ModeOK

LEMMA ReconnectOK ==
  ASSUME NEW b, NEW st, NEW w, RadioOK(w, b, st), NEW r \in reconnect(w)
  PROVE  RadioOK(r, b, st)
<1>1. w \in Radio
  BY DEF RadioOK
<1>2. CASE "STA" \notin getMode(w)
  BY <1>1, <1>2, OkSame, SameOK DEF reconnect
<1>3. CASE "STA" \in getMode(w)
  <2>1. r \in Fails(w) \/ r \in Connecting(EspDisconnect(w))
    BY <1>3 DEF reconnect
  <2>2. RadioOK(EspDisconnect(w), b, st) /\ StaOn(EspDisconnect(w))
    BY <1>3, GetMode, LeftOK
  <2> QED BY <2>1, <2>2, FailsOK, ConnectingOK
<1> QED BY <1>2, <1>3

-----------------------------------------------------------------------------
(* The arduino_events task                                                 *)

(* Handling event e takes the bits from b to b2 and the status from st to  *)
(* st2 as the six flags demand.                                            *)
TurnsAll(s, a, link, g, b, st, b2, st2, e) ==
  /\ Turns(s, "STA_STARTED" \in b, "STA_STARTED" \in b2, Of({"STA_START"}), Of({"STA_STOP"}), Of({"STA_STOP"}), e)
  /\ Turns(link \in {"linked", "ip"}, "STA_CONNECTED" \in b, "STA_CONNECTED" \in b2, Of({"CONNECTED", "GOT_IP"}), Of({"STA_STOP", "DISCONNECTED"}),
        Of({"STA_STOP", "DISCONNECTED"}), e)
  /\ Turns(link = "ip", "STA_HAS_IP" \in b, "STA_HAS_IP" \in b2, Of({"GOT_IP"}), Of({"STA_STOP", "DISCONNECTED", "LOST_IP"}),
        Of({"STA_STOP", "DISCONNECTED", "LOST_IP"}), e)
  /\ Turns(a, "AP_STARTED" \in b, "AP_STARTED" \in b2, Of({"AP_START"}), Of({"AP_STOP"}), Of({"AP_STOP"}), e)
  /\ Turns(g > 0, "AP_HAS_CLIENT" \in b, "AP_HAS_CLIENT" \in b2, Of({"AP_STACONNECTED"}), Of({"AP_STOP"}),
        Of({"AP_STOP", "AP_STADISCONNECTED"}), e)
  /\ "authexpire" \notin LossReasons =>
       Turns(link = "ip", st = "CONNECTED", st2 = "CONNECTED", Of({"GOT_IP"}), Unconnects, Unconnects, e)

LEMMA TrackedTail ==
  ASSUME NEW q \in Seq(Events), q # <<>>, NEW b, NEW st, NEW b2, NEW st2,
         NEW s \in BOOLEAN, NEW a \in BOOLEAN, NEW link, NEW g \in Nat,
         Tracked(s, a, link, g, b, st, q), TurnsAll(s, a, link, g, b, st, b2, st2, Head(q))
  PROVE  Tracked(s, a, link, g, b2, st2, Tail(q))
<1>0. \A x, y, c \in BOOLEAN : \A set, clear, clear0 :
        Follows(x, y, set, clear, clear0, q) /\ Turns(x, y, c, set, clear, clear0, Head(q)) =>
          Follows(x, c, set, clear, clear0, Tail(q))
  BY FollowsTail
<1>1. Follows(s, "STA_STARTED" \in b2, Of({"STA_START"}), Of({"STA_STOP"}), Of({"STA_STOP"}), Tail(q))
  <2>1. Follows(s, "STA_STARTED" \in b, Of({"STA_START"}), Of({"STA_STOP"}), Of({"STA_STOP"}), q)
    BY DEF Tracked
  <2>2. Turns(s, "STA_STARTED" \in b, "STA_STARTED" \in b2, Of({"STA_START"}), Of({"STA_STOP"}), Of({"STA_STOP"}), Head(q))
    BY DEF TurnsAll
  <2>3. (s) \in BOOLEAN /\ ("STA_STARTED" \in b) \in BOOLEAN /\ ("STA_STARTED" \in b2) \in BOOLEAN
    OBVIOUS
  <2> QED BY <1>0, <2>1, <2>2, <2>3
<1>2. Follows(link \in {"linked", "ip"}, "STA_CONNECTED" \in b2, Of({"CONNECTED", "GOT_IP"}), Of({"STA_STOP", "DISCONNECTED"}),
        Of({"STA_STOP", "DISCONNECTED"}), Tail(q))
  <2>1. Follows(link \in {"linked", "ip"}, "STA_CONNECTED" \in b, Of({"CONNECTED", "GOT_IP"}), Of({"STA_STOP", "DISCONNECTED"}),
        Of({"STA_STOP", "DISCONNECTED"}), q)
    BY DEF Tracked
  <2>2. Turns(link \in {"linked", "ip"}, "STA_CONNECTED" \in b, "STA_CONNECTED" \in b2, Of({"CONNECTED", "GOT_IP"}), Of({"STA_STOP", "DISCONNECTED"}),
        Of({"STA_STOP", "DISCONNECTED"}), Head(q))
    BY DEF TurnsAll
  <2>3. (link \in {"linked", "ip"}) \in BOOLEAN /\ ("STA_CONNECTED" \in b) \in BOOLEAN /\ ("STA_CONNECTED" \in b2) \in BOOLEAN
    OBVIOUS
  <2> QED BY <1>0, <2>1, <2>2, <2>3
<1>3. Follows(link = "ip", "STA_HAS_IP" \in b2, Of({"GOT_IP"}), Of({"STA_STOP", "DISCONNECTED", "LOST_IP"}),
        Of({"STA_STOP", "DISCONNECTED", "LOST_IP"}), Tail(q))
  <2>1. Follows(link = "ip", "STA_HAS_IP" \in b, Of({"GOT_IP"}), Of({"STA_STOP", "DISCONNECTED", "LOST_IP"}),
        Of({"STA_STOP", "DISCONNECTED", "LOST_IP"}), q)
    BY DEF Tracked
  <2>2. Turns(link = "ip", "STA_HAS_IP" \in b, "STA_HAS_IP" \in b2, Of({"GOT_IP"}), Of({"STA_STOP", "DISCONNECTED", "LOST_IP"}),
        Of({"STA_STOP", "DISCONNECTED", "LOST_IP"}), Head(q))
    BY DEF TurnsAll
  <2>3. (link = "ip") \in BOOLEAN /\ ("STA_HAS_IP" \in b) \in BOOLEAN /\ ("STA_HAS_IP" \in b2) \in BOOLEAN
    OBVIOUS
  <2> QED BY <1>0, <2>1, <2>2, <2>3
<1>4. Follows(a, "AP_STARTED" \in b2, Of({"AP_START"}), Of({"AP_STOP"}), Of({"AP_STOP"}), Tail(q))
  <2>1. Follows(a, "AP_STARTED" \in b, Of({"AP_START"}), Of({"AP_STOP"}), Of({"AP_STOP"}), q)
    BY DEF Tracked
  <2>2. Turns(a, "AP_STARTED" \in b, "AP_STARTED" \in b2, Of({"AP_START"}), Of({"AP_STOP"}), Of({"AP_STOP"}), Head(q))
    BY DEF TurnsAll
  <2>3. (a) \in BOOLEAN /\ ("AP_STARTED" \in b) \in BOOLEAN /\ ("AP_STARTED" \in b2) \in BOOLEAN
    OBVIOUS
  <2> QED BY <1>0, <2>1, <2>2, <2>3
<1>5. Follows(g > 0, "AP_HAS_CLIENT" \in b2, Of({"AP_STACONNECTED"}), Of({"AP_STOP"}),
        Of({"AP_STOP", "AP_STADISCONNECTED"}), Tail(q))
  <2>1. Follows(g > 0, "AP_HAS_CLIENT" \in b, Of({"AP_STACONNECTED"}), Of({"AP_STOP"}),
        Of({"AP_STOP", "AP_STADISCONNECTED"}), q)
    BY DEF Tracked
  <2>2. Turns(g > 0, "AP_HAS_CLIENT" \in b, "AP_HAS_CLIENT" \in b2, Of({"AP_STACONNECTED"}), Of({"AP_STOP"}),
        Of({"AP_STOP", "AP_STADISCONNECTED"}), Head(q))
    BY DEF TurnsAll
  <2>3. (g > 0) \in BOOLEAN /\ ("AP_HAS_CLIENT" \in b) \in BOOLEAN /\ ("AP_HAS_CLIENT" \in b2) \in BOOLEAN
    OBVIOUS
  <2> QED BY <1>0, <2>1, <2>2, <2>3
<1>6. "authexpire" \notin LossReasons =>
        Follows(link = "ip", st2 = "CONNECTED", Of({"GOT_IP"}), Unconnects, Unconnects, Tail(q))
  BY FollowsTail DEF Tracked, TurnsAll
<1> QED BY <1>1, <1>2, <1>3, <1>4, <1>5, <1>6 DEF Tracked

LEMMA HandleTurns ==
  ASSUME NEW e \in Events, NEW s \in BOOLEAN, NEW a \in BOOLEAN, NEW link, NEW g \in Nat,
         g = wifi.guests, NEW retry \in BOOLEAN, NEW listed \in BOOLEAN, misread \in BOOLEAN,
         bits' = (bits \ ClearedBits(e, listed)) \cup RaisedBits(e), misread' = Misread(e, listed)
  PROVE  TurnsAll(s, a, link, g, Shown, status, Shown', StatusAfter(e, retry), e)
<1>1. \A ids : e \in Of(ids) <=> e.id \in ids
  BY DEF Of
<1>2. /\ "STA_STARTED" \in ClearedBits(e, listed) <=> e.id = "STA_STOP"
      /\ "STA_CONNECTED" \in ClearedBits(e, listed) <=> e.id \in {"STA_STOP", "DISCONNECTED"}
      /\ "STA_HAS_IP" \in ClearedBits(e, listed) <=> e.id \in {"STA_STOP", "DISCONNECTED", "LOST_IP"}
      /\ "AP_STARTED" \in ClearedBits(e, listed) <=> e.id = "AP_STOP"
      /\ "AP_HAS_CLIENT" \in ClearedBits(e, listed) <=>
           e.id = "AP_STOP" \/ (e.id = "AP_STADISCONNECTED" /\ (~listed \/ g = 0))
  BY DEF ClearedBits
<1>3. /\ "STA_STARTED" \in RaisedBits(e) <=> e.id = "STA_START"
      /\ "STA_CONNECTED" \in RaisedBits(e) <=> e.id \in {"CONNECTED", "GOT_IP"}
      /\ "STA_HAS_IP" \in RaisedBits(e) <=> e.id = "GOT_IP"
      /\ "AP_STARTED" \in RaisedBits(e) <=> e.id = "AP_START"
      /\ "AP_HAS_CLIENT" \in RaisedBits(e) <=> e.id = "AP_STACONNECTED"
  BY DEF RaisedBits
<1>4. \A x : x # "AP_HAS_CLIENT" => (x \in Shown' <=> x \in bits') /\ (x \in Shown <=> x \in bits)
  BY DEF Shown
<1>5. Turns(s, "STA_STARTED" \in Shown, "STA_STARTED" \in Shown', Of({"STA_START"}), Of({"STA_STOP"}), Of({"STA_STOP"}), e)
  <2>1. "STA_STARTED" \in Shown' <=> ("STA_STARTED" \in Shown /\ "STA_STARTED" \notin ClearedBits(e, listed)) \/ "STA_STARTED" \in RaisedBits(e)
    BY <1>4
  <2> QED BY <1>1, <1>2, <1>3, <2>1 DEF Turns
<1>6. Turns(link \in {"linked", "ip"}, "STA_CONNECTED" \in Shown, "STA_CONNECTED" \in Shown', Of({"CONNECTED", "GOT_IP"}), Of({"STA_STOP", "DISCONNECTED"}),
        Of({"STA_STOP", "DISCONNECTED"}), e)
  <2>1. "STA_CONNECTED" \in Shown' <=> ("STA_CONNECTED" \in Shown /\ "STA_CONNECTED" \notin ClearedBits(e, listed)) \/ "STA_CONNECTED" \in RaisedBits(e)
    BY <1>4
  <2> QED BY <1>1, <1>2, <1>3, <2>1 DEF Turns
<1>7. Turns(link = "ip", "STA_HAS_IP" \in Shown, "STA_HAS_IP" \in Shown', Of({"GOT_IP"}), Of({"STA_STOP", "DISCONNECTED", "LOST_IP"}),
        Of({"STA_STOP", "DISCONNECTED", "LOST_IP"}), e)
  <2>1. "STA_HAS_IP" \in Shown' <=> ("STA_HAS_IP" \in Shown /\ "STA_HAS_IP" \notin ClearedBits(e, listed)) \/ "STA_HAS_IP" \in RaisedBits(e)
    BY <1>4
  <2> QED BY <1>1, <1>2, <1>3, <2>1 DEF Turns
<1>8. Turns(a, "AP_STARTED" \in Shown, "AP_STARTED" \in Shown', Of({"AP_START"}), Of({"AP_STOP"}), Of({"AP_STOP"}), e)
  <2>1. "AP_STARTED" \in Shown' <=> ("AP_STARTED" \in Shown /\ "AP_STARTED" \notin ClearedBits(e, listed)) \/ "AP_STARTED" \in RaisedBits(e)
    BY <1>4
  <2> QED BY <1>1, <1>2, <1>3, <2>1 DEF Turns
<1>9. Turns(g > 0, "AP_HAS_CLIENT" \in Shown, "AP_HAS_CLIENT" \in Shown', Of({"AP_STACONNECTED"}),
            Of({"AP_STOP"}), Of({"AP_STOP", "AP_STADISCONNECTED"}), e)
  <2>1. "AP_HAS_CLIENT" \in Shown <=> "AP_HAS_CLIENT" \in bits \/ misread
    BY DEF Shown
  <2>2. "AP_HAS_CLIENT" \in Shown' <=> "AP_HAS_CLIENT" \in bits' \/ misread'
    BY DEF Shown
  <2>3. "AP_HAS_CLIENT" \in bits' <=> \/ "AP_HAS_CLIENT" \in bits /\ "AP_HAS_CLIENT" \notin ClearedBits(e, listed)
                                 \/ "AP_HAS_CLIENT" \in RaisedBits(e)
    OBVIOUS
  <2>4. CASE e.id \in {"AP_STOP", "AP_STACONNECTED"}
    <3>1. misread' = FALSE
      BY <2>4 DEF Misread
    <3> QED BY <1>1, <1>2, <1>3, <2>1, <2>2, <2>3, <2>4, <3>1 DEF Turns
  <2>5. CASE e.id = "AP_STADISCONNECTED"
    <3>1. misread' <=> g > 0 /\ (misread \/ ~listed)
      BY <2>5 DEF Misread
    <3>2. e.id # "AP_STOP" /\ e.id # "AP_STACONNECTED"
      BY <2>5
    <3>3. g = 0 \/ g > 0
      OBVIOUS
    <3> QED BY <1>1, <1>2, <1>3, <2>1, <2>2, <2>3, <2>5, <3>1, <3>2, <3>3 DEF Turns
  <2>6. CASE e.id \notin {"AP_STOP", "AP_STACONNECTED", "AP_STADISCONNECTED"}
    <3>1. misread' = misread
      BY <2>6 DEF Misread
    <3> QED BY <1>1, <1>2, <1>3, <2>1, <2>2, <2>3, <2>6, <3>1 DEF Turns
  <2> QED BY <2>4, <2>5, <2>6
<1>10. Turns(link = "ip", status = "CONNECTED", StatusAfter(e, retry) = "CONNECTED",
             Of({"GOT_IP"}), Unconnects, Unconnects, e)
  <2>1. e \in Unconnects <=> \/ e.id \in {"STA_START", "STA_STOP", "CONNECTED", "LOST_IP"}
                             \/ e.id = "DISCONNECTED" /\ e.reason # "authexpire"
    BY <1>1 DEF Unconnects
  <2>2. LostStatus(e.reason, retry) = "CONNECTED" =>
          e.reason = "authexpire" /\ status = "CONNECTED"
    BY DEF LostStatus
  <2>3. e.reason = "authexpire" => LostStatus(e.reason, retry) = status
    BY DEF LostStatus
  <2>4. e \in Unconnects => StatusAfter(e, retry) # "CONNECTED"
    BY <2>1, <2>2 DEF StatusAfter
  <2>5. e.id = "GOT_IP" => StatusAfter(e, retry) = "CONNECTED"
    BY DEF StatusAfter
  <2>6. e \notin Unconnects /\ e.id # "GOT_IP" => StatusAfter(e, retry) = status
    BY <2>1, <2>3 DEF StatusAfter
  <2> QED BY <1>1, <2>1, <2>4, <2>5, <2>6 DEF Turns
<1> QED BY <1>5, <1>6, <1>7, <1>8, <1>9, <1>10 DEF TurnsAll

LEMMA HandleEventOK ==
  ASSUME IInv, HandleEvent
  PROVE  IInv'
<1> USE DEF IInv
<1>1. PICK e : e = Head(wifi.queue)
  OBVIOUS
<1>2. PICK retry : retry = DoReconnect(e)
  OBVIOUS
<1>3. wifi \in Radio /\ wifi.queue \in Seq(Events) /\ wifi.queue # <<>> /\ wifi.guests \in Nat
  BY DEF RadioOK, Radio, HandleEvent
<1>4. e \in Events
  BY <1>1, <1>3
<1>5. retry \in BOOLEAN
  BY <1>2 DEF DoReconnect, TypeOK
<1>6. StaOn(wifi) \in BOOLEAN /\ ApOn(wifi) \in BOOLEAN
  BY <1>3 DEF StaOn, ApOn, Radio
<1>7. PICK listed \in BOOLEAN :
        /\ status' = StatusAfter(e, retry)
        /\ bits' = (bits \ ClearedBits(e, listed)) \cup RaisedBits(e)
        /\ misread' = Misread(e, listed)
  BY <1>1, <1>2, BoundAssumption DEF HandleEvent
<1>8. TurnsAll(StaOn(wifi), ApOn(wifi), wifi.link, wifi.guests, Shown, status, Shown', status', e)
  <2>1. misread \in BOOLEAN
    BY DEF TypeOK
  <2> QED BY <1>3, <1>4, <1>5, <1>6, <1>7, <2>1, HandleTurns
<1>9. Tracked(StaOn(wifi), ApOn(wifi), wifi.link, wifi.guests, Shown', status', Tail(wifi.queue))
  <2>1. Tracked(StaOn(wifi), ApOn(wifi), wifi.link, wifi.guests, Shown, status, wifi.queue)
    BY DEF RadioOK
  <2> QED BY <1>1, <1>3, <1>6, <1>8, <2>1, TrackedTail
<1>10. PICK q : q = Tail(wifi.queue) /\ q \in Seq(Events)
  <2>1. Tail(wifi.queue) \in Seq(Events)
    BY <1>3
  <2> QED BY <2>1
<1>11. wifi' = [wifi EXCEPT !.queue = q]
  BY <1>3, <1>10 DEF HandleEvent
<1>12. /\ wifi' \in Radio
       /\ wifi'.on = wifi.on /\ wifi'.started = wifi.started /\ wifi'.inited = wifi.inited
       /\ wifi'.mode = wifi.mode /\ wifi'.link = wifi.link /\ wifi'.guests = wifi.guests
       /\ wifi'.queue = q
  BY <1>3, <1>10, <1>11 DEF Radio
<1>13. StaOn(wifi') = StaOn(wifi) /\ ApOn(wifi') = ApOn(wifi)
  BY <1>12 DEF StaOn, ApOn
<1>14. RadioOK(wifi', Shown', status')
  BY <1>9, <1>10, <1>12, <1>13 DEF RadioOK
<1>15. status' \in Statuses /\ bits' \subseteq Bits
  <2>1. LostStatus(e.reason, retry) \in Statuses
    BY DEF LostStatus, TypeOK, Statuses
  <2>2. StatusAfter(e, retry) \in Statuses
    BY <2>1 DEF StatusAfter, TypeOK, Statuses
  <2>3. RaisedBits(e) \subseteq Bits
    BY DEF RaisedBits, Bits
  <2> QED BY <1>7, <2>2, <2>3 DEF TypeOK
<1>16. misread' \in BOOLEAN
  <2>1. misread \in BOOLEAN /\ (wifi.guests > 0) \in BOOLEAN
    BY <1>3 DEF TypeOK
  <2> QED BY <1>7, <2>1 DEF Misread
<1>17. task' \in {"idle", "reconnect"} /\ first' \in BOOLEAN /\ auto' = auto
  BY DEF HandleEvent, TypeOK
<1> QED BY <1>12, <1>14, <1>15, <1>16, <1>17 DEF TypeOK

-----------------------------------------------------------------------------
(* The network                                                             *)

(* The radio goes to v and event e is posted. *)
LEMMA RadiatesOK ==
  ASSUME IInv, NEW e \in Events, NEW v \in Radio, Radiates(e, v),
         v.on = wifi.on, v.started = wifi.started, v.inited = wifi.inited, v.mode = wifi.mode,
         v.queue = wifi.queue,
         v.link # "idle" => wifi.link # "idle", v.guests > 0 => ApOn(wifi),
         Takes(StaOn(wifi), ApOn(wifi), wifi.link, wifi.guests,
               StaOn(wifi), ApOn(wifi), v.link, v.guests, e)
  PROVE  IInv'
<1> USE DEF IInv
<1>1. wifi \in Radio /\ wifi.queue \in Seq(Events) /\ wifi.guests \in Nat /\ v.guests \in Nat
  BY DEF RadioOK, Radio
<1>2. StaOn(wifi) \in BOOLEAN /\ ApOn(wifi) \in BOOLEAN
  BY <1>1 DEF StaOn, ApOn, Radio
<1>3. PICK q : q = wifi.queue \o <<e>> /\ q \in Seq(Events)
  BY <1>1, AppendIsSeq
<1>4. Tracked(StaOn(wifi), ApOn(wifi), v.link, v.guests, Shown, status, q)
  <2>1. Tracked(StaOn(wifi), ApOn(wifi), wifi.link, wifi.guests, Shown, status, wifi.queue)
    BY DEF RadioOK
  <2>2. Tracked(StaOn(wifi), ApOn(wifi), v.link, v.guests, Shown, status, wifi.queue \o <<e>>)
    BY <1>1, <1>2, <2>1, TrackedAppend
  <2> QED BY <1>3, <2>2
<1>5. wifi' = [v EXCEPT !.queue = q]
  BY <1>3 DEF Radiates, Post, Radio
<1>6. /\ wifi' \in Radio
      /\ wifi'.on = wifi.on /\ wifi'.started = wifi.started /\ wifi'.inited = wifi.inited
      /\ wifi'.mode = wifi.mode /\ wifi'.link = v.link /\ wifi'.guests = v.guests
      /\ wifi'.queue = q
  BY <1>3, <1>5 DEF Radio
<1>7. StaOn(wifi') = StaOn(wifi) /\ ApOn(wifi') = ApOn(wifi)
  BY <1>6 DEF StaOn, ApOn
<1>8. RadioOK(wifi', Shown, status)
  BY <1>4, <1>6, <1>7 DEF RadioOK
<1>9. Shown' = Shown
  BY DEF Radiates, Shown
<1> QED BY <1>6, <1>8, <1>9 DEF Radiates, TypeOK

LEMMA NetworkOK ==
  ASSUME IInv,
         Joins \/ GetsIp \/ LosesIp \/ GuestJoins \/ GuestLeaves \/ \E r \in Reasons : Drops(r)
  PROVE  IInv'
<1>1. /\ wifi \in Radio /\ wifi.guests \in Nat
      /\ StaOn(wifi) \in BOOLEAN /\ ApOn(wifi) \in BOOLEAN
      /\ wifi.guests > 0 => ApOn(wifi)
  BY DEF IInv, RadioOK, Radio, StaOn, ApOn
<1>2. /\ Event("CONNECTED") \in Events /\ Event("GOT_IP") \in Events /\ Event("LOST_IP") \in Events
      /\ Event("AP_STACONNECTED") \in Events /\ Event("AP_STADISCONNECTED") \in Events
  BY EventParts DEF Plain
<1>3. CASE Joins
  <2>1. PICK v : v = [wifi EXCEPT !.link = "linked"]
    OBVIOUS
  <2>2. /\ v \in Radio /\ v.link = "linked" /\ v.guests = wifi.guests
        /\ v.on = wifi.on /\ v.started = wifi.started /\ v.inited = wifi.inited
        /\ v.mode = wifi.mode /\ v.queue = wifi.queue
    BY <1>1, <2>1 DEF Radio
  <2>3. wifi.link = "joining" /\ Radiates(Event("CONNECTED"), v)
    BY <1>3, <2>1 DEF Joins
  <2>4. Takes(StaOn(wifi), ApOn(wifi), wifi.link, wifi.guests,
              StaOn(wifi), ApOn(wifi), v.link, v.guests, Event("CONNECTED"))
    BY <1>1, <2>2, <2>3, TakesPlain
  <2> QED BY <1>1, <1>2, <2>2, <2>3, <2>4, RadiatesOK
<1>4. CASE GetsIp
  <2>1. PICK v : v = [wifi EXCEPT !.link = "ip", !.lostIp = FALSE]
    OBVIOUS
  <2>2. /\ v \in Radio /\ v.link = "ip" /\ v.guests = wifi.guests
        /\ v.on = wifi.on /\ v.started = wifi.started /\ v.inited = wifi.inited
        /\ v.mode = wifi.mode /\ v.queue = wifi.queue
    BY <1>1, <2>1 DEF Radio
  <2>3. wifi.link = "linked" /\ Radiates(Event("GOT_IP"), v)
    BY <1>4, <2>1 DEF GetsIp
  <2>4. Takes(StaOn(wifi), ApOn(wifi), wifi.link, wifi.guests,
              StaOn(wifi), ApOn(wifi), v.link, v.guests, Event("GOT_IP"))
    BY <1>1, <2>2, <2>3, TakesPlain
  <2> QED BY <1>1, <1>2, <2>2, <2>3, <2>4, RadiatesOK
<1>5. CASE wifi.link = "ip" /\ Radiates(Event("LOST_IP"), [wifi EXCEPT !.link = "linked"])
  <2>1. PICK v : v = [wifi EXCEPT !.link = "linked"]
    OBVIOUS
  <2>2. /\ v \in Radio /\ v.link = "linked" /\ v.guests = wifi.guests
        /\ v.on = wifi.on /\ v.started = wifi.started /\ v.inited = wifi.inited
        /\ v.mode = wifi.mode /\ v.queue = wifi.queue
    BY <1>1, <2>1 DEF Radio
  <2>3. Takes(StaOn(wifi), ApOn(wifi), wifi.link, wifi.guests,
              StaOn(wifi), ApOn(wifi), v.link, v.guests, Event("LOST_IP"))
    BY <1>1, <1>5, <2>2, TakesPlain
  <2>4. Radiates(Event("LOST_IP"), v)
    BY <1>5, <2>1
  <2> QED BY <1>1, <1>2, <1>5, <2>2, <2>3, <2>4, RadiatesOK
<1>6. CASE wifi.link # "ip" /\ Radiates(Event("LOST_IP"), [wifi EXCEPT !.lostIp = FALSE])
  <2>1. PICK v : v = [wifi EXCEPT !.lostIp = FALSE]
    OBVIOUS
  <2>2. /\ v \in Radio /\ v.link = wifi.link /\ v.guests = wifi.guests
        /\ v.on = wifi.on /\ v.started = wifi.started /\ v.inited = wifi.inited
        /\ v.mode = wifi.mode /\ v.queue = wifi.queue
    BY <1>1, <2>1 DEF Radio
  <2>3. Takes(StaOn(wifi), ApOn(wifi), wifi.link, wifi.guests,
              StaOn(wifi), ApOn(wifi), v.link, v.guests, Event("LOST_IP"))
    BY <1>1, <1>6, <2>2, TakesPlain
  <2>4. Radiates(Event("LOST_IP"), v)
    BY <1>6, <2>1
  <2> QED BY <1>1, <1>2, <2>2, <2>3, <2>4, RadiatesOK
<1>7. CASE GuestJoins
  <2>1. PICK v : v = [wifi EXCEPT !.guests = wifi.guests + 1]
    OBVIOUS
  <2>2. ApOn(wifi) /\ wifi.guests < MaxStations /\ Radiates(Event("AP_STACONNECTED"), v)
    BY <1>1, <1>7, <2>1 DEF GuestJoins, ApOn, Radio
  <2>3. /\ v \in Radio /\ v.link = wifi.link /\ v.guests = wifi.guests + 1
        /\ v.on = wifi.on /\ v.started = wifi.started /\ v.inited = wifi.inited
        /\ v.mode = wifi.mode /\ v.queue = wifi.queue
    BY <1>1, <2>1, <2>2, BoundAssumption DEF Radio
  <2>4. Takes(StaOn(wifi), ApOn(wifi), wifi.link, wifi.guests,
              StaOn(wifi), ApOn(wifi), v.link, v.guests, Event("AP_STACONNECTED"))
    BY <1>1, <2>3, TakesPlain
  <2> QED BY <1>2, <2>2, <2>3, <2>4, RadiatesOK
<1>8. CASE GuestLeaves
  <2>1. PICK v : v = [wifi EXCEPT !.guests = wifi.guests - 1]
    OBVIOUS
  <2>2. wifi.guests > 0 /\ Radiates(Event("AP_STADISCONNECTED"), v)
    BY <1>1, <1>8, <2>1 DEF GuestLeaves, Radio
  <2>3. /\ v \in Radio /\ v.link = wifi.link /\ v.guests = wifi.guests - 1
        /\ v.on = wifi.on /\ v.started = wifi.started /\ v.inited = wifi.inited
        /\ v.mode = wifi.mode /\ v.queue = wifi.queue
    BY <1>1, <2>1, <2>2, BoundAssumption DEF Radio
  <2>4. Takes(StaOn(wifi), ApOn(wifi), wifi.link, wifi.guests,
              StaOn(wifi), ApOn(wifi), v.link, v.guests, Event("AP_STADISCONNECTED"))
    BY <1>1, <2>2, <2>3, TakesPlain
  <2> QED BY <1>1, <1>2, <2>2, <2>3, <2>4, RadiatesOK
<1>9. ASSUME NEW r \in Reasons, Drops(r)
      PROVE  IInv'
  <2>1. PICK v : v = [LinkDown(wifi) EXCEPT !.owed = auto /\ r \in Retried]
    OBVIOUS
  <2>2. /\ r # "authexpire" \/ wifi.link # "ip" \/ "authexpire" \in LossReasons
        /\ Radiates(Disconnected(r), v)
    BY <1>9, <2>1 DEF Drops
  <2>3. v = [wifi EXCEPT !.link = "idle", !.lostIp = wifi.lostIp \/ wifi.link = "ip",
                         !.owed = auto /\ r \in Retried]
    BY <1>1, <2>1 DEF LinkDown, Radio
  <2>4. /\ v \in Radio /\ v.link = "idle" /\ v.guests = wifi.guests
        /\ v.on = wifi.on /\ v.started = wifi.started /\ v.inited = wifi.inited
        /\ v.mode = wifi.mode /\ v.queue = wifi.queue
    BY <1>1, <2>3 DEF Radio
  <2>5. Disconnected(r) \in Events
    BY EventParts
  <2>6. Takes(StaOn(wifi), ApOn(wifi), wifi.link, wifi.guests,
              StaOn(wifi), ApOn(wifi), v.link, v.guests, Disconnected(r))
    BY <1>1, <2>2, <2>4, TakesDisconnected
  <2> QED BY <1>1, <2>2, <2>4, <2>5, <2>6, RadiatesOK
<1> QED BY <1>3, <1>4, <1>5, <1>6, <1>7, <1>8, <1>9 DEF LosesIp

-----------------------------------------------------------------------------
(* The sketch                                                              *)

LEMMA SketchOK ==
  ASSUME IInv,
         \/ \E m \in Modes : SketchMode(m)
         \/ SketchBegin \/ SketchDisconnect
         \/ \E b \in BOOLEAN : SetAutoReconnect(b)
         \/ Reconnect
  PROVE  IInv'
<1>1. wifi \in Radio /\ RadioOK(wifi, Shown, status)
  BY DEF IInv, RadioOK
<1>2. \A w : \A c \in BOOLEAN : RadioOK(w, Shown, status) =>
        RadioOK([w EXCEPT !.owed = c], Shown, status)
  <2> SUFFICES ASSUME NEW w, NEW c \in BOOLEAN, RadioOK(w, Shown, status)
               PROVE  RadioOK([w EXCEPT !.owed = c], Shown, status)
    OBVIOUS
  <2>1. w \in Radio
    BY DEF RadioOK
  <2> QED BY <2>1, OkSame, SameOK
<1>3. ASSUME NEW m \in Modes, SketchMode(m)
      PROVE  RadioOK(wifi', Shown, status) /\ UNCHANGED <<status, bits, misread, task, first, auto>>
  <2>1. PICK w \in mode(wifi, m) : wifi' = IF "STA" \in m THEN w ELSE [w EXCEPT !.owed = FALSE]
    BY <1>3 DEF SketchMode
  <2>2. RadioOK(w, Shown, status)
    BY <1>1, ModeOK
  <2>3. RadioOK([w EXCEPT !.owed = FALSE], Shown, status)
    BY <1>2, <2>2
  <2> QED BY <1>3, <2>1, <2>2, <2>3 DEF SketchMode
<1>4. ASSUME SketchBegin
      PROVE  RadioOK(wifi', Shown, status) /\ UNCHANGED <<status, bits, misread, task, first, auto>>
  <2>1. \/ wifi' \in begin(wifi, status)
        \/ \E same, connect \in BOOLEAN : wifi' \in beginWith(wifi, status, same, connect)
        \/ \E same \in BOOLEAN : wifi' \in beginEnterprise(wifi, status, same)
        \/ wifi' \in reconnect(wifi)
    BY <1>4 DEF SketchBegin
  <2>2. RadioOK(wifi', Shown, status)
    BY <1>1, <2>1, BeginOK, BeginWithOK, BeginEnterpriseOK, ReconnectOK
  <2> QED BY <1>4, <2>2 DEF SketchBegin
<1>5. ASSUME SketchDisconnect
      PROVE  RadioOK(wifi', Shown, status) /\ UNCHANGED <<status, bits, misread, task, first, auto>>
  <2>1. PICK off \in BOOLEAN : \E w \in disconnect(wifi, off) : wifi' = [w EXCEPT !.owed = FALSE]
    BY <1>5 DEF SketchDisconnect
  <2>2. PICK w \in disconnect(wifi, off) : wifi' = [w EXCEPT !.owed = FALSE]
    BY <2>1
  <2>3. RadioOK(w, Shown, status)
    BY <1>1, DisconnectOK
  <2>4. RadioOK([w EXCEPT !.owed = FALSE], Shown, status)
    BY <1>2, <2>3
  <2> QED BY <1>5, <2>2, <2>4 DEF SketchDisconnect
<1>6. ASSUME NEW b \in BOOLEAN, SetAutoReconnect(b)
      PROVE  /\ RadioOK(wifi', Shown, status) /\ UNCHANGED <<status, bits, misread, task, first>>
             /\ auto' \in BOOLEAN
  BY <1>1, <1>2, <1>6 DEF SetAutoReconnect
<1>7. ASSUME Reconnect
      PROVE  /\ RadioOK(wifi', Shown, status) /\ UNCHANGED <<status, bits, misread, first, auto>>
             /\ task' = "idle"
  <2>1. PICK w \in disconnect(wifi, FALSE) : \E w1 \in begin(w, status) :
          wifi' = [w1 EXCEPT !.owed = @ /\ w1.ok]
    BY <1>7 DEF Reconnect
  <2>2. PICK w1 \in begin(w, status) : wifi' = [w1 EXCEPT !.owed = @ /\ w1.ok]
    BY <2>1
  <2>3. RadioOK(w1, Shown, status)
    BY <1>1, BeginOK, DisconnectOK
  <2>4. PICK c \in BOOLEAN : wifi' = [w1 EXCEPT !.owed = c]
    BY <2>2
  <2>5. RadioOK(wifi', Shown, status)
    BY <1>2, <2>3, <2>4
  <2> QED BY <1>7, <2>5 DEF Reconnect
<1>8. RadioOK(wifi', Shown, status) /\ UNCHANGED <<status, bits, misread, first>>
  BY <1>3, <1>4, <1>5, <1>6, <1>7
<1>9. task' \in {"idle", "reconnect"} /\ auto' \in BOOLEAN
  BY <1>3, <1>4, <1>5, <1>6, <1>7 DEF IInv, TypeOK
<1>10. wifi' \in Radio
  BY <1>8 DEF RadioOK
<1>11. Shown' = Shown
  BY <1>8 DEF Shown
<1> QED BY <1>8, <1>9, <1>10, <1>11 DEF IInv, TypeOK

-----------------------------------------------------------------------------
(* The theorems                                                            *)

LEMMA InitOK ==
  ASSUME Init
  PROVE  IInv
<1>1. /\ wifi \in Radio
      /\ wifi.on = FALSE /\ wifi.started = FALSE /\ wifi.link = "idle" /\ wifi.guests = 0
      /\ wifi.queue = <<>>
  BY BoundAssumption DEF Init, Radio, Modes
<1>2. StaOn(wifi) = FALSE /\ ApOn(wifi) = FALSE
  BY <1>1 DEF StaOn, ApOn
<1>3. \A set, clear : Settles(TRUE, set, clear, <<>>)
  BY DEF Settles
<1>4. Tracked(FALSE, FALSE, "idle", 0, Shown, status, <<>>)
  <2>1. Shown = {}
    BY DEF Init, Shown
  <2> QED BY <1>3, <2>1 DEF Tracked, Follows, Init, Settles
<1>5. TypeOK
  BY <1>1 DEF Init, TypeOK, Statuses, Bits
<1>6. Tracked(StaOn(wifi), ApOn(wifi), wifi.link, wifi.guests, Shown, status, wifi.queue)
  BY <1>1, <1>2, <1>4
<1>7. wifi.started = wifi.on /\ ~wifi.on /\ wifi.link = "idle" /\ ~(wifi.guests > 0)
  BY DEF Init
<1>8. RadioOK(wifi, Shown, status)
  BY <1>1, <1>6, <1>7 DEF RadioOK
<1> QED BY <1>5, <1>8 DEF IInv

LEMMA Inductive == Spec => []IInv
<1>1. Init => IInv
  BY InitOK
<1>2. IInv /\ [Next]_vars => IInv'
  <2>1. IInv /\ Next => IInv'
    BY HandleEventOK, NetworkOK, SketchOK DEF Next
  <2>2. IInv /\ UNCHANGED vars => IInv'
    <3>1. UNCHANGED vars => Shown' = Shown
      BY DEF vars, Shown
    <3> QED BY <3>1 DEF vars, IInv, TypeOK, RadioOK, Tracked
  <2> QED BY <2>1, <2>2
<1> QED BY <1>1, <1>2, PTL DEF Spec

(* lowLevelInitDone and _esp_wifi_started mirror the driver after every    *)
(* call of the API, whichever of its driver calls failed on the way, for   *)
(* any reasons, any number of pending events and any number of guests.     *)
THEOREM FlagsAlwaysMirror == Spec => []FlagsMirrorDriver
<1>1. IInv => FlagsMirrorDriver
  BY DEF IInv, RadioOK, FlagsMirrorDriver
<1> QED BY <1>1, Inductive, PTL

(* The bits and the status are right whenever the events are drained, if   *)
(* no established link is lost with AUTH_EXPIRE (which _eventCallback()    *)
(* does not show in the status).                                           *)
THEOREM BitsAlwaysSettle ==
  ASSUME "authexpire" \notin LossReasons
  PROVE  Spec => []BitsSettle
<1>1. IInv => BitsSettle
  <2> SUFFICES ASSUME IInv, wifi.queue = <<>>
               PROVE  /\ "STA_STARTED" \in bits <=> StaOn(wifi)
                      /\ "STA_CONNECTED" \in bits <=> wifi.link \in {"linked", "ip"}
                      /\ "STA_HAS_IP" \in bits <=> wifi.link = "ip"
                      /\ "AP_STARTED" \in bits <=> ApOn(wifi)
                      /\ "AP_HAS_CLIENT" \in bits \/ misread <=> wifi.guests > 0
                      /\ status = "CONNECTED" <=> wifi.link = "ip"
    BY DEF BitsSettle, Settled, StaOn, ApOn
  <2>1. Tracked(StaOn(wifi), ApOn(wifi), wifi.link, wifi.guests, Shown, status, <<>>)
    BY DEF IInv, RadioOK
  <2>2. \A x, b \in BOOLEAN : \A set, clear, clear0 :
          Follows(x, b, set, clear, clear0, <<>>) => (b <=> x)
    BY DEF Follows, Settles
  <2>3. wifi \in Radio /\ StaOn(wifi) \in BOOLEAN /\ ApOn(wifi) \in BOOLEAN
    BY DEF IInv, RadioOK, StaOn, ApOn, Radio
  <2>4. "STA_STARTED" \in Shown <=> StaOn(wifi)
    <3>1. Follows(StaOn(wifi), "STA_STARTED" \in Shown, Of({"STA_START"}), Of({"STA_STOP"}), Of({"STA_STOP"}), <<>>)
      BY <2>1 DEF Tracked
    <3>2. (StaOn(wifi)) \in BOOLEAN /\ ("STA_STARTED" \in Shown) \in BOOLEAN
      BY <2>3
    <3> QED BY <2>2, <3>1, <3>2
  <2>5. "STA_CONNECTED" \in Shown <=> wifi.link \in {"linked", "ip"}
    <3>1. Follows(wifi.link \in {"linked", "ip"}, "STA_CONNECTED" \in Shown, Of({"CONNECTED", "GOT_IP"}),
                  Of({"STA_STOP", "DISCONNECTED"}), Of({"STA_STOP", "DISCONNECTED"}), <<>>)
      BY <2>1 DEF Tracked
    <3>2. (wifi.link \in {"linked", "ip"}) \in BOOLEAN /\ ("STA_CONNECTED" \in Shown) \in BOOLEAN
      BY <2>3
    <3> QED BY <2>2, <3>1, <3>2
  <2>6. "STA_HAS_IP" \in Shown <=> wifi.link = "ip"
    <3>1. Follows(wifi.link = "ip", "STA_HAS_IP" \in Shown, Of({"GOT_IP"}),
                  Of({"STA_STOP", "DISCONNECTED", "LOST_IP"}),
                  Of({"STA_STOP", "DISCONNECTED", "LOST_IP"}), <<>>)
      BY <2>1 DEF Tracked
    <3>2. (wifi.link = "ip") \in BOOLEAN /\ ("STA_HAS_IP" \in Shown) \in BOOLEAN
      BY <2>3
    <3> QED BY <2>2, <3>1, <3>2
  <2>7. "AP_STARTED" \in Shown <=> ApOn(wifi)
    <3>1. Follows(ApOn(wifi), "AP_STARTED" \in Shown, Of({"AP_START"}), Of({"AP_STOP"}), Of({"AP_STOP"}), <<>>)
      BY <2>1 DEF Tracked
    <3>2. (ApOn(wifi)) \in BOOLEAN /\ ("AP_STARTED" \in Shown) \in BOOLEAN
      BY <2>3
    <3> QED BY <2>2, <3>1, <3>2
  <2>8. "AP_HAS_CLIENT" \in Shown <=> wifi.guests > 0
    <3>1. Follows(wifi.guests > 0, "AP_HAS_CLIENT" \in Shown, Of({"AP_STACONNECTED"}),
                  Of({"AP_STOP"}), Of({"AP_STOP", "AP_STADISCONNECTED"}), <<>>)
      BY <2>1 DEF Tracked
    <3>2. (wifi.guests > 0) \in BOOLEAN /\ ("AP_HAS_CLIENT" \in Shown) \in BOOLEAN
      BY <2>3
    <3> QED BY <2>2, <3>1, <3>2
  <2>9. status = "CONNECTED" <=> wifi.link = "ip"
    BY <2>1, <2>2 DEF Tracked
  <2>10. /\ \A x : x # "AP_HAS_CLIENT" => (x \in Shown <=> x \in bits)
         /\ "AP_HAS_CLIENT" \in Shown <=> "AP_HAS_CLIENT" \in bits \/ misread
    BY DEF Shown, IInv, TypeOK
  <2> QED BY <2>4, <2>5, <2>6, <2>7, <2>8, <2>9, <2>10
<1> QED BY <1>1, Inductive, PTL

-----------------------------------------------------------------------------
(* The scan's flags                                                        *)

(* FlagsSettle with who will clear each flag: the event task, now or when  *)
(* the driver's scan has ended.  scanNetworks() sets them only while the   *)
(* driver is scanning.                                                     *)
ScanOK ==
  /\ pending \in Nat
  /\ doneAt \in {"idle", "cap", "fetch", "reset", "done", "bit"}
  /\ at \in {"stamp", "clear", "set"} => radio
  /\ started => radio \/ pending > 0 \/ doneAt \in {"cap", "fetch", "reset"}
  /\ scanning => radio \/ pending > 0 \/ doneAt # "idle"

(* The steps of the sketch's task, in run() or outside. *)
LEMMA SketchKeepsScan ==
  ASSUME ScanOK, (\E a \in BOOLEAN : ScanNetworks(a)) \/ ScanDelete \/ ScanStart \/ Stamp
                 \/ SetBits \/ Wait \/ ScanComplete \/ Report
  PROVE  ScanOK'
<1>1. CASE (\E a \in BOOLEAN : ScanNetworks(a)) \/ Wait \/ Report
  BY <1>1 DEF ScanOK, ScanNetworks, Wait, Report, env
<1>2. CASE ScanStart \/ Stamp
  BY <1>2 DEF ScanOK, ScanStart, Stamp, env
<1>3. CASE ScanDelete
  <2>1. at' \notin {"stamp", "clear", "set"}
    BY <1>3 DEF ScanDelete
  <2>2. UNCHANGED <<radio, pending, started, scanning, doneAt>>
    BY <1>3 DEF ScanDelete, env
  <2> QED BY <2>1, <2>2 DEF ScanOK
<1>4. CASE SetBits
  BY <1>4 DEF ScanOK, SetBits, env
<1>5. CASE ScanComplete
  BY <1>5 DEF ScanOK, ScanComplete, env
<1> QED BY <1>1, <1>2, <1>3, <1>4, <1>5

LEMMA OthersKeepScan ==
  ASSUME ScanOK, SlowScan, EventTask \/ RadioDone \/ Expire
  PROVE  ScanOK'
<1>1. CASE GetApNum \/ Cap \/ GetApRecords
  BY <1>1 DEF ScanOK, GetApNum, Cap, GetApRecords, env, sketch
<1>2. CASE ScanDone
  BY <1>2 DEF ScanOK, ScanDone, env, sketch
<1>3. CASE RadioDone \/ Expire
  BY <1>3 DEF ScanOK, RadioDone, Expire, env, sketch
<1> QED BY <1>1, <1>2, <1>3 DEF EventTask

LEMMA ScanStep ==
  ASSUME ScanOK, SlowScan, [MultiNext]_allVars
  PROVE  ScanOK'
<1>1. ASSUME UNCHANGED scanVars
      PROVE  ScanOK'
  BY <1>1 DEF ScanOK, scanVars
<1>2. CASE UNCHANGED allVars \/ (\E e \in Entries : AddAP(e)) \/ Run \/ ReadResult \/ Begin
           \/ WaitConnection
  BY <1>1, <1>2 DEF AddAP, Run, ReadResult, ReadSsid, ReadRest, Compare, Begin, WaitConnection,
                    allVars
<1>3. CASE RunScan \/ Scanning \/ RunDelete \/ RunFailed
  <2>1. UNCHANGED scanVars \/ (\E a \in BOOLEAN : ScanNetworks(a)) \/ ScanDelete \/ ScanStart
        \/ Stamp \/ SetBits \/ Wait \/ Report
    BY <1>3 DEF RunScan, Scanning, RunDelete, RunFailed
  <2> QED BY <1>1, <2>1, SketchKeepsScan
<1>4. CASE multi = "idle" /\ Sketch /\ UNCHANGED multiVars
  BY <1>4, SketchKeepsScan DEF Sketch
<1>5. CASE (EventTask \/ RadioDone \/ Expire) /\ UNCHANGED multiVars
  BY <1>5, OthersKeepScan
<1> QED BY <1>2, <1>3, <1>4, <1>5 DEF MultiNext, RunStep

(* No store of one task to _scanStarted or WIFI_SCANNING_BIT survives when *)
(* it should not, for any number of results, networks and pending events,  *)
(* if a scan outlasts the statements behind esp_wifi_scan_start().         *)
THEOREM FlagsAlwaysSettle ==
  ASSUME SlowScan
  PROVE  MultiSpec => []FlagsSettle
<1>1. MultiInit => ScanOK
  BY DEF MultiInit, ScanInit, ScanOK
<1>2. ScanOK /\ [MultiNext]_allVars => ScanOK'
  BY ScanStep
<1>3. ScanOK => FlagsSettle
  BY DEF ScanOK, FlagsSettle
<1> QED BY <1>1, <1>2, <1>3, PTL DEF MultiSpec

-----------------------------------------------------------------------------
(* The choice of a network                                                 *)

LEMMA Least ==
  ASSUME NEW T, T \subseteq Nat, T # {}
  PROVE  \E x \in T : \A y \in T : x <= y
<1>1. PICK x \in T : \A y \in T : ~(<<y, x>> \in OpToRel(<, Nat))
  BY WFMin, NatLessThanWellFounded
<1>2. \A y \in Nat : y < x => <<y, x>> \in OpToRel(<, Nat)
  BY DEF OpToRel
<1>3. \A y \in T : y \in Nat /\ ~(y < x)
  BY <1>1, <1>2
<1> QED BY <1>3

LEMMA MaxIs ==
  ASSUME NEW n \in Nat, NEW S, S \subseteq 1..n, S # {}
  PROVE  Max(S) \in S /\ \A i \in S : i <= Max(S)
<1> DEFINE T == {n - i : i \in S}
<1>1. T \subseteq Nat /\ T # {}
  <2>1. \A i \in S : n - i \in Nat
    OBVIOUS
  <2> QED BY <2>1
<1>2. PICK x \in T : \A y \in T : x <= y
  BY <1>1, Least
<1>3. PICK m \in S : x = n - m
  BY <1>2
<1>4. \A i \in S : m >= i
  <2> TAKE i \in S
  <2>1. n - m <= n - i
    BY <1>2, <1>3
  <2> QED BY <2>1
<1> HIDE DEF T
<1>5. \E a \in S : \A i \in S : a >= i
  BY <1>4
<1>6. Max(S) \in S /\ \A i \in S : Max(S) >= i
  BY <1>5, Zenon DEF Max
<1> QED BY <1>6

LEMMA UsableIs ==
  ASSUME NEW n, list \in Seq(Entries)
  PROVE  Usable(n) <=> Entitled(n)
<1> DEFINE S == {i \in DOMAIN list : list[i].ssid = n.ssid}
<1>1. S \subseteq 1..Len(list) /\ Len(list) \in Nat
  OBVIOUS
<1>2. CASE S = {}
  BY <1>2 DEF Usable, Entitled
<1>3. CASE S # {}
  <2>1. Max(S) \in S /\ \A i \in S : i <= Max(S)
    BY <1>1, <1>3, MaxIs
  <2>2. PICK m : m = Max(S)
    OBVIOUS
  <2>3. Usable(n) <=> (~n.secure \/ list[m].pass)
    BY <1>3, <2>2 DEF Usable
  <2>4. ASSUME NEW i \in S, \A j \in S : j <= i
        PROVE  i = m
    <3>1. m \in S /\ i <= m /\ m <= i /\ i \in Int /\ m \in Int
      BY <1>1, <2>1, <2>2, <2>4
    <3> QED BY <3>1
  <2>5. m \in S /\ \A j \in S : j <= m
    BY <2>1, <2>2
  <2>6. Entitled(n) => ~n.secure \/ list[m].pass
    BY <2>4 DEF Entitled
  <2>7. (~n.secure \/ list[m].pass) => Entitled(n)
    BY <2>5 DEF Entitled
  <2> QED BY <2>3, <2>6, <2>7
<1> QED BY <1>2, <1>3

(* The records in the array, the fields read of one of them, the results   *)
(* read so far and the choice among them.                                  *)
ChoiceOK ==
  /\ list \in Seq(Entries)
  /\ \A x \in DOMAIN results : results[x] \in Networks
  /\ info = [ssid |-> info.ssid, secure |-> info.secure, rssi |-> info.rssi, chan |-> info.chan]
  /\ field \in {"chan", "bssid"} => info.rssi \in Int
  /\ multi \notin {"read", "delete", "begin", "wait"} => best = {} /\ heard = {}
  /\ best = {} => \A r \in heard : ~Usable(r)
  /\ \A r \in heard : r.rssi \in Int
  /\ \A b, c \in best : b = c
  /\ \A b \in best : /\ As(b.info) \in heard /\ Usable(As(b.info))
                     /\ \A r \in heard : Usable(r) => r.rssi <= b.info.rssi

(* A field that is read is one of a network. *)
LEMMA FoundIs ==
  ASSUME ChoiceOK, NEW f, NEW v \in Found(f)
  PROVE  \E r \in Networks : v = r[f]
BY DEF ChoiceOK, Found

LEMMA InfoExcept ==
  ASSUME NEW r, r = [ssid |-> r.ssid, secure |-> r.secure, rssi |-> r.rssi, chan |-> r.chan],
         NEW s, NEW v,
         \/ s = [r EXCEPT !.ssid = v] \/ s = [r EXCEPT !.secure = v]
         \/ s = [r EXCEPT !.rssi = v] \/ s = [r EXCEPT !.chan = v]
  PROVE  /\ s = [ssid |-> s.ssid, secure |-> s.secure, rssi |-> s.rssi, chan |-> s.chan]
         /\ s = [r EXCEPT !.rssi = v] => s.rssi = v
         /\ s = [r EXCEPT !.chan = v] => s.rssi = r.rssi
OBVIOUS

LEMMA ReadKeepsChoice ==
  ASSUME ChoiceOK, ReadSsid \/ ReadRest
  PROVE  ChoiceOK'
<1>1. UNCHANGED <<list, results, multi, best, heard>> /\ multi = "read"
  BY DEF ReadSsid, ReadRest, scanVars
<1>2. \A r : Usable(r)' = Usable(r)
  BY <1>1 DEF Usable
<1>3. CASE UNCHANGED <<field, info>>
  BY <1>1, <1>2, <1>3 DEF ChoiceOK, As
<1>4. ASSUME NEW v, info' = [info EXCEPT !.ssid = v] \/ info' = [info EXCEPT !.secure = v],
             field' \in {"secure", "rssi"}
      PROVE  ChoiceOK'
  <2>1. info' = [ssid |-> info'.ssid, secure |-> info'.secure, rssi |-> info'.rssi,
                 chan |-> info'.chan]
    BY <1>4, InfoExcept DEF ChoiceOK
  <2> QED BY <1>1, <1>2, <1>4, <2>1 DEF ChoiceOK, As
<1>5. ASSUME NEW v \in Found("rssi"), info' = [info EXCEPT !.rssi = v]
      PROVE  ChoiceOK'
  <2>1. PICK r \in Networks : v = r["rssi"]
    BY <1>5, FoundIs
  <2>2. info' = [ssid |-> info'.ssid, secure |-> info'.secure, rssi |-> info'.rssi,
                 chan |-> info'.chan] /\ info'.rssi = v
    BY <1>5, InfoExcept DEF ChoiceOK
  <2>3. v \in Int
    BY <2>1, ListAssumption
  <2> QED BY <1>1, <1>2, <2>2, <2>3 DEF ChoiceOK, As
<1>6. ASSUME NEW v, field = "chan", info' = [info EXCEPT !.chan = v]
      PROVE  ChoiceOK'
  <2>1. info' = [ssid |-> info'.ssid, secure |-> info'.secure, rssi |-> info'.rssi,
                 chan |-> info'.chan] /\ info'.rssi = info.rssi
    BY <1>6, InfoExcept DEF ChoiceOK
  <2> QED BY <1>1, <1>2, <1>6, <2>1 DEF ChoiceOK, As
<1> QED BY <1>3, <1>4, <1>5, <1>6 DEF ReadSsid, ReadRest

LEMMA CompareKeepsChoice ==
  ASSUME ChoiceOK, Compare
  PROVE  ChoiceOK'
<1>1. UNCHANGED <<list, results, multi>> /\ multi = "read" /\ info.rssi \in Int
  BY DEF Compare, scanVars, ChoiceOK
<1>2. \A r : Usable(r)' = Usable(r)
  BY <1>1 DEF Usable
<1>3. Usable(As(info)) <=> Usable(info)
  BY DEF Usable, As
<1>4. As(info).rssi = info.rssi
  BY DEF As
<1>5. heard' = heard \union {As(info)} /\ info' = NoInfo /\ field' = "ssid"
  BY DEF Compare
<1>6. info' = [ssid |-> info'.ssid, secure |-> info'.secure, rssi |-> info'.rssi,
               chan |-> info'.chan]
  BY <1>5 DEF NoInfo
<1>7. \A r \in heard' : r.rssi \in Int
  BY <1>1, <1>4, <1>5 DEF ChoiceOK
<1>8. CASE Better(info)
  <2>1. PICK v : best' = {[info |-> info, bssid |-> v]}
    BY <1>8 DEF Compare
  <2>2. \A b \in best' : b.info = info
    BY <2>1
  <2>3. Usable(info) /\ \A b \in best : info.rssi > b.info.rssi
    BY <1>8 DEF Better
  <2>4. \A r \in heard : Usable(r) => r.rssi <= info.rssi
    <3>1. CASE best = {}
      BY <3>1 DEF ChoiceOK
    <3>2. ASSUME NEW b \in best
          PROVE  \A r \in heard : Usable(r) => r.rssi <= info.rssi
      <4>1. As(b.info) \in heard /\ As(b.info).rssi = b.info.rssi
        BY <3>2 DEF ChoiceOK, As
      <4>2. b.info.rssi \in Int
        BY <4>1 DEF ChoiceOK
      <4> QED BY <1>1, <2>3, <3>2, <4>2 DEF ChoiceOK
    <3> QED BY <3>1, <3>2
  <2>5. /\ best' # {} /\ \A b, c \in best' : b = c
        /\ \A b \in best' : /\ As(b.info) \in heard' /\ Usable(As(b.info))
                            /\ \A r \in heard' : Usable(r) => r.rssi <= b.info.rssi
    BY <1>1, <1>3, <1>4, <1>5, <2>1, <2>2, <2>3, <2>4
  <2> QED BY <1>1, <1>2, <1>5, <1>6, <1>7, <2>5 DEF ChoiceOK, As
<1>9. CASE ~Better(info)
  <2>1. best' = best
    BY <1>9 DEF Compare
  <2>2. \A b \in best : Usable(info) => info.rssi <= b.info.rssi
    <3> SUFFICES ASSUME NEW b \in best, Usable(info)
                 PROVE  info.rssi <= b.info.rssi
      OBVIOUS
    <3>1. As(b.info) \in heard /\ As(b.info).rssi = b.info.rssi
      BY DEF ChoiceOK, As
    <3>2. b.info.rssi \in Int
      BY <3>1 DEF ChoiceOK
    <3>3. PICK c \in best : ~(info.rssi > c.info.rssi)
      BY <1>9 DEF Better
    <3>4. c = b
      BY DEF ChoiceOK
    <3> QED BY <1>1, <3>2, <3>3, <3>4
  <2>3. best = {} => ~Usable(info)
    BY <1>9 DEF Better
  <2>4. /\ best = {} => \A r \in heard' : ~Usable(r)
        /\ \A b \in best : /\ As(b.info) \in heard' /\ Usable(As(b.info))
                           /\ \A r \in heard' : Usable(r) => r.rssi <= b.info.rssi
    BY <1>3, <1>4, <1>5, <2>2, <2>3 DEF ChoiceOK
  <2> QED BY <1>1, <1>2, <1>5, <1>6, <1>7, <2>1, <2>4 DEF ChoiceOK, As
<1> QED BY <1>8, <1>9

LEMMA ChoiceStep ==
  ASSUME ChoiceOK, [MultiNext]_allVars
  PROVE  ChoiceOK'
<1>1. ASSUME list' = list
      PROVE  \A r : Usable(r)' = Usable(r)
  BY <1>1 DEF Usable
<1>2. \A x \in DOMAIN results' : results'[x] \in Networks
  <2>1. CASE GetApRecords
    BY <2>1 DEF GetApRecords, ChoiceOK
  <2>2. CASE results' = results
    BY <2>2 DEF ChoiceOK
  <2>3. GetApRecords \/ results' = results
    <3>1. ASSUME ScanDelete \/ ScanStart \/ Stamp \/ SetBits \/ Wait \/ ScanComplete \/ Report
                 \/ (\E a \in BOOLEAN : ScanNetworks(a)) \/ UNCHANGED scanVars
          PROVE  results' = results
      BY <3>1 DEF ScanDelete, ScanStart, Stamp, SetBits, Wait, ScanComplete, Report, ScanNetworks,
                  scanVars, env
    <3>2. ASSUME GetApNum \/ Cap \/ ScanDone \/ RadioDone \/ Expire
          PROVE  results' = results
      BY <3>2 DEF GetApNum, Cap, ScanDone, RadioDone, Expire, env
    <3>3. CASE UNCHANGED allVars \/ (\E e \in Entries : AddAP(e)) \/ Run \/ ReadResult \/ Begin
               \/ WaitConnection
      BY <3>1, <3>3 DEF AddAP, Run, ReadResult, ReadSsid, ReadRest, Compare, Begin,
                        WaitConnection, allVars
    <3>4. CASE RunScan \/ Scanning \/ RunDelete \/ RunFailed
      BY <3>1, <3>4 DEF RunScan, Scanning, RunDelete, RunFailed
    <3>5. CASE Sketch
      BY <3>1, <3>5 DEF Sketch
    <3>6. CASE EventTask \/ RadioDone \/ Expire
      BY <3>2, <3>6 DEF EventTask
    <3> QED BY <3>3, <3>4, <3>5, <3>6 DEF MultiNext, RunStep
  <2> QED BY <2>1, <2>2, <2>3
<1>3. ASSUME UNCHANGED <<list, field, info, best, heard>>,
             multi' \in {"read", "delete", "begin", "wait"} \/ multi' = multi
             \/ multi \notin {"read", "delete", "begin", "wait"}
      PROVE  ChoiceOK'
  BY <1>1, <1>2, <1>3 DEF ChoiceOK, As
<1>4. CASE \/ UNCHANGED allVars
           \/ multi = "idle" /\ Sketch /\ UNCHANGED multiVars
           \/ (EventTask \/ RadioDone \/ Expire) /\ UNCHANGED multiVars
  BY <1>3, <1>4 DEF allVars, multiVars, choice, reading
<1>5. CASE \E e \in Entries : AddAP(e)
  <2>1. /\ UNCHANGED <<multi, field, info, best, heard>> /\ list' \in Seq(Entries)
        /\ multi = "idle"
    BY <1>5 DEF AddAP, ChoiceOK, choice, reading
  <2>2. best = {} /\ heard = {}
    BY <2>1 DEF ChoiceOK
  <2> QED BY <1>2, <2>1, <2>2 DEF ChoiceOK
<1>6. CASE Run \/ RunScan \/ Begin \/ RunFailed \/ Scanning
  BY <1>3, <1>6 DEF Run, RunScan, Begin, RunFailed, Scanning, choice, reading
<1>7. ASSUME NoChoice, list' = list
      PROVE  ChoiceOK'
  BY <1>2, <1>7 DEF NoChoice, NoInfo, ChoiceOK
<1>8. CASE RunDelete \/ WaitConnection
  BY <1>3, <1>7, <1>8 DEF RunDelete, WaitConnection, choice, reading
<1>9. CASE ReadResult
  BY <1>9, ReadKeepsChoice, CompareKeepsChoice DEF ReadResult
<1> QED BY <1>4, <1>5, <1>6, <1>8, <1>9 DEF MultiNext, RunStep

(* run() chooses the strongest usable network of those it read, for any    *)
(* list and any networks, though the results may change while it reads.    *)
THEOREM BestAlwaysChosen == MultiSpec => []BestChosen
<1>1. MultiInit => ChoiceOK
  BY DEF MultiInit, ScanInit, ChoiceOK, NoResults, NoInfo
<1>2. ChoiceOK => BestChosen
  <2> SUFFICES ASSUME ChoiceOK
               PROVE  LET usable == {r \in heard : Entitled(r)}
                      IN  /\ best = {} => usable = {}
                          /\ \A b \in best : /\ As(b.info) \in usable
                                             /\ \A r \in usable : r.rssi <= b.info.rssi
    BY DEF BestChosen
  <2>1. \A r : Usable(r) <=> Entitled(r)
    BY UsableIs DEF ChoiceOK
  <2> QED BY <2>1 DEF ChoiceOK
<1> QED BY <1>1, <1>2, ChoiceStep, PTL DEF MultiSpec

-----------------------------------------------------------------------------
(* The choice out of a scan of its own                                     *)

(* The scan is over and told; its records are in the array. *)
Filled == \A x \in 0..count - 1 : x \in DOMAIN results
Over == ~radio /\ pending = 0 /\ doneAt \in {"idle", "bit"} /\ Filled

(* run()'s scan is the only one there is, and once the done bit is set     *)
(* again the event task has nothing more to write.                         *)
ScanAlone ==
  /\ at \in {"delete", "zero", "start", "stamp", "clear", "set", "wait", "report"}
  /\ at \in {"delete", "zero", "start"} => ~radio /\ pending = 0 /\ doneAt = "idle"
  /\ at \in {"zero", "start"} => ~done
  /\ radio => pending = 0 /\ doneAt = "idle"
  /\ pending > 0 => pending = 1 /\ doneAt = "idle"
  /\ doneAt \in {"reset", "done", "bit"} => Filled
  /\ (done /\ at # "delete") \/ at = "report" => Over

(* The records before `item` have been compared, of the next one the       *)
(* fields before `field` have been read.                                   *)
Behind ==
  /\ ~radio /\ pending = 0 /\ doneAt \in {"idle", "bit"}
  /\ \A x \in 0..scanResult - 1 : x \in DOMAIN results
  /\ scanResult \in Nat /\ item \in 0..scanResult
  /\ multi = "read" => count = scanResult
  /\ multi # "read" => item = scanResult
  /\ field # "ssid" => item < scanResult /\ info.ssid = results[item].ssid
  /\ field \notin {"ssid", "secure"} => info.secure = results[item].secure
  /\ field \notin {"ssid", "secure", "rssi"} => info.rssi = results[item].rssi
  /\ field = "bssid" => info.chan = results[item].chan
  /\ best = {} => \A x \in 0..item - 1 : ~Usable(results[x])
  /\ \A b \in best : \E x \in 0..item - 1 :
       /\ Matches(b, results[x]) /\ Usable(results[x])
       /\ \A y \in 0..item - 1 : Usable(results[y]) => results[y].rssi <= results[x].rssi

AloneOK ==
  /\ found \in Nat /\ count \in Nat /\ pending \in Nat
  /\ field \in {"ssid", "secure", "rssi", "chan", "bssid"}
  /\ multi \notin {"read", "delete", "begin", "wait"} => item = 0 /\ field = "ssid"
  /\ alone /\ multi = "scanning" => ScanAlone
  /\ alone /\ multi \in {"read", "delete", "begin"} => Behind

CountsOK == found \in Nat /\ count \in Nat /\ pending \in Nat

LEMMA CountsStay ==
  ASSUME CountsOK, [MultiNext]_allVars
  PROVE  CountsOK'
<1>0. MaxResults \in Nat /\ MaxFound \in Nat
  BY ScanAssumption
<1>1. ASSUME ScanDelete \/ ScanStart \/ Stamp \/ SetBits \/ Wait \/ ScanComplete \/ Report
             \/ (\E a \in BOOLEAN : ScanNetworks(a)) \/ UNCHANGED scanVars
      PROVE  CountsOK'
  <2>1. CASE ScanDelete
    <3>1. UNCHANGED <<found, pending>>
      BY <2>1 DEF ScanDelete, env
    <3>2. count' = count \/ count' = 0
      BY <2>1 DEF ScanDelete
    <3> QED BY <3>1, <3>2 DEF CountsOK
  <2>2. CASE ScanStart
    BY <2>2 DEF ScanStart, CountsOK
  <2>3. CASE Stamp \/ SetBits \/ Wait \/ ScanComplete \/ Report
             \/ (\E a \in BOOLEAN : ScanNetworks(a)) \/ UNCHANGED scanVars
    <3>1. UNCHANGED <<found, count, pending>>
      BY <2>3 DEF Stamp, SetBits, Wait, ScanComplete, Report, ScanNetworks, scanVars, env
    <3> QED BY <3>1 DEF CountsOK
  <2> QED BY <1>1, <2>1, <2>2, <2>3
<1>2. CASE UNCHANGED allVars \/ (\E e \in Entries : AddAP(e)) \/ Run \/ ReadResult \/ Begin
           \/ WaitConnection
  BY <1>1, <1>2 DEF AddAP, Run, ReadResult, ReadSsid, ReadRest, Compare, Begin,
                    WaitConnection, allVars
<1>3. CASE RunScan \/ Scanning \/ RunDelete \/ RunFailed
  BY <1>1, <1>3 DEF RunScan, Scanning, RunDelete, RunFailed
<1>4. CASE Sketch
  BY <1>1, <1>4 DEF Sketch
<1>5. CASE GetApNum \/ Cap \/ GetApRecords
  BY <1>0, <1>5 DEF GetApNum, Cap, GetApRecords, CountsOK, env
<1>6. CASE ScanDone \/ RadioDone \/ Expire
  BY <1>0, <1>6 DEF ScanDone, RadioDone, Expire, CountsOK, env
<1> QED BY <1>2, <1>3, <1>4, <1>5, <1>6 DEF MultiNext, RunStep, EventTask

(* The event task, the driver and the clock while run()'s scan goes on. *)
LEMMA OthersKeepAlone ==
  ASSUME CountsOK, ScanAlone, EventTask \/ RadioDone \/ Expire
  PROVE  ScanAlone'
<1>0. MaxResults \in Nat /\ MaxFound \in Nat
  BY ScanAssumption
<1>1. CASE GetApNum
  BY <1>1 DEF GetApNum, ScanAlone, Over, Filled, CountsOK, sketch
<1>2. CASE Cap
  BY <1>0, <1>2 DEF Cap, ScanAlone, Over, Filled, CountsOK, sketch, env
<1>3. CASE GetApRecords
  <2>1. Filled'
    <3>1. PICK n \in Nat : \/ count' = n /\ results' \in [0..n - 1 -> Networks]
                           \/ count' = 0
      BY <1>3 DEF GetApRecords, CountsOK
    <3> QED BY <3>1 DEF Filled
  <2> QED BY <1>3, <2>1 DEF GetApRecords, ScanAlone, Over, sketch
<1>4. CASE ScanDone
  <2>1. Filled' <=> Filled
    BY <1>4 DEF ScanDone, Filled, env
  <2> QED BY <1>4, <2>1 DEF ScanDone, ScanAlone, Over, sketch, env, CountsOK
<1>5. CASE RadioDone
  <2>1. Filled' <=> Filled
    BY <1>5 DEF RadioDone, Filled
  <2> QED BY <1>0, <1>5, <2>1 DEF RadioDone, ScanAlone, Over, sketch, CountsOK
<1>6. CASE Expire
  BY <1>6 DEF Expire, ScanAlone, Over, Filled, sketch, env
<1> QED BY <1>1, <1>2, <1>3, <1>4, <1>5, <1>6 DEF EventTask

(* ... and while run() reads. *)
LEMMA OthersKeepBehind ==
  ASSUME Behind, EventTask \/ RadioDone \/ Expire, UNCHANGED multiVars
  PROVE  Behind'
<1>1. UNCHANGED <<results, count, radio, pending>> /\ doneAt' \in {"idle", "bit"}
  BY DEF Behind, EventTask, GetApNum, Cap, GetApRecords, ScanDone, RadioDone, Expire, env
<1>2. \A r : Usable(r)' = Usable(r)
  BY DEF Usable, multiVars
<1> QED BY <1>1, <1>2 DEF Behind, multiVars, choice, reading, Matches

(* run()'s own steps until it has a result. *)
LEMMA ScanningKeepsAlone ==
  ASSUME CountsOK, ScanAlone, Scanning
  PROVE  /\ multi' = "scanning" => ScanAlone'
         /\ multi' = "read" => /\ Over /\ scanResult' = count
                               /\ UNCHANGED <<radio, pending, results, count, doneAt>>
<1>1. CASE ScanDelete
  <2>1. at \in {"delete", "zero"} /\ ~radio /\ pending = 0 /\ doneAt = "idle"
    BY <1>1 DEF ScanDelete, ScanAlone
  <2>2. UNCHANGED <<radio, pending, doneAt>>
    BY <1>1 DEF ScanDelete, env
  <2>3. \/ at' = "zero" /\ ~done'
        \/ at' = "start" /\ at = "zero" /\ (done' <=> done)
    BY <1>1, <2>1 DEF ScanDelete
  <2>4. multi' = "scanning"
    <3>1. at' # "idle" /\ at # "report"
      BY <2>1, <2>3
    <3> QED BY <3>1 DEF Scanning
  <2> QED BY <2>1, <2>2, <2>3, <2>4 DEF ScanAlone
<1>2. CASE ScanStart
  BY <1>2 DEF Scanning, ScanStart, ScanAlone, Over, Filled
<1>3. CASE Stamp
  BY <1>3 DEF Scanning, Stamp, ScanAlone, Over, Filled, env
<1>4. CASE SetBits
  <2>1. Filled' <=> Filled
    BY <1>4 DEF SetBits, Filled, env
  <2> QED BY <1>4, <2>1 DEF Scanning, SetBits, ScanAlone, Over, env
<1>5. CASE Wait
  <2>1. Filled' <=> Filled
    BY <1>5 DEF Wait, Filled, env
  <2> QED BY <1>5, <2>1 DEF Scanning, Wait, ScanAlone, Over, env
<1>6. CASE Report
  <2>1. at = "report" /\ Over
    BY <1>6 DEF Report, ScanAlone
  <2> QED BY <1>6, <2>1 DEF Scanning, Report, env
<1> QED BY <1>1, <1>2, <1>3, <1>4, <1>5, <1>6 DEF Scanning

LEMMA ReadKeepsBehind ==
  ASSUME AloneOK, ChoiceOK, Behind, ReadSsid \/ ReadRest
  PROVE  Behind'
<1>1. /\ UNCHANGED <<results, count, radio, pending, doneAt, list, multi, scanResult, best>>
      /\ multi = "read"
  BY DEF ReadSsid, ReadRest, scanVars
<1>2. \A r : Usable(r)' = Usable(r)
  BY <1>1 DEF Usable
<1>3. count = scanResult /\ count \in Nat
  BY <1>1 DEF Behind, AloneOK
<1>4. item' = item /\ item < scanResult /\ doneAt # "fetch" /\ item \in DOMAIN results
  <2>1. item \in Nat /\ scanResult \in Nat
    BY DEF Behind
  <2>2. CASE ReadSsid
    BY <1>3, <2>1, <2>2 DEF ReadSsid, Behind
  <2>3. CASE ReadRest
    BY <2>1, <2>3 DEF ReadRest, Behind
  <2> QED BY <2>2, <2>3
<1>5. \A f : \A v \in Found(f) : v = results[item][f]
  BY <1>4 DEF Found
<1>6. info = [ssid |-> info.ssid, secure |-> info.secure, rssi |-> info.rssi, chan |-> info.chan]
  BY DEF ChoiceOK
<1>7. /\ field' # "ssid" => info'.ssid = results[item].ssid
      /\ field' \notin {"ssid", "secure"} => info'.secure = results[item].secure
      /\ field' \notin {"ssid", "secure", "rssi"} => info'.rssi = results[item].rssi
      /\ field' = "bssid" => info'.chan = results[item].chan
  <2>1. CASE ReadSsid
    <3>1. field' = "secure" /\ \E v \in Found("ssid") : info' = [info EXCEPT !.ssid = v]
      BY <1>1, <1>3, <1>4, <2>1 DEF ReadSsid, Behind
    <3> QED BY <1>5, <1>6, <3>1
  <2>2. CASE ReadRest
    <3>1. CASE field = "secure"
      <4>1. /\ field' = "rssi" /\ info' = [info EXCEPT !.secure = results[item].secure]
            /\ info.ssid = results[item].ssid
        BY <1>5, <2>2, <3>1 DEF ReadRest, Behind
      <4> QED BY <1>6, <4>1
    <3>2. CASE field = "rssi"
      <4>1. /\ field' = "chan" /\ info' = [info EXCEPT !.rssi = results[item].rssi]
            /\ info.ssid = results[item].ssid /\ info.secure = results[item].secure
        BY <1>5, <2>2, <3>2 DEF ReadRest, Behind
      <4> QED BY <1>6, <4>1
    <3>3. CASE field = "chan"
      <4>1. /\ field' = "bssid" /\ info' = [info EXCEPT !.chan = results[item].chan]
            /\ info.ssid = results[item].ssid /\ info.secure = results[item].secure
            /\ info.rssi = results[item].rssi
        BY <1>5, <2>2, <3>3 DEF ReadRest, Behind
      <4> QED BY <1>6, <4>1
    <3> QED BY <2>2, <3>1, <3>2, <3>3 DEF ReadRest
  <2> QED BY <2>1, <2>2
<1> QED BY <1>1, <1>2, <1>4, <1>7 DEF Behind, Matches

LEMMA CompareKeepsBehind ==
  ASSUME AloneOK, ChoiceOK, Behind, Compare
  PROVE  Behind'
<1>1. /\ UNCHANGED <<results, count, radio, pending, doneAt, list, multi, scanResult>>
      /\ multi = "read" /\ field = "bssid" /\ item' = item + 1 /\ field' = "ssid"
  BY DEF Compare, scanVars
<1>2. \A r : Usable(r)' = Usable(r)
  BY <1>1 DEF Usable
<1>3. /\ item \in Nat /\ scanResult \in Nat /\ item < scanResult /\ item \in DOMAIN results
      /\ doneAt # "fetch"
  BY <1>1 DEF Behind
<1>4. PICK r : r = results[item]
  OBVIOUS
<1>5. info = [ssid |-> r.ssid, secure |-> r.secure, rssi |-> r.rssi, chan |-> r.chan]
  BY <1>1, <1>4 DEF Behind, ChoiceOK
<1>6. Usable(info) <=> Usable(r)
  BY <1>5 DEF Usable
<1>7. \A x \in 0..item : x \in DOMAIN results /\ results[x].rssi \in Int
  <2>1. \A x \in 0..item : x \in 0..scanResult - 1
    BY <1>3
  <2> QED BY <2>1, ListAssumption DEF Behind, ChoiceOK
<1>8. \A x \in 0..item : x \in 0..item - 1 \/ x = item
  BY <1>3
<1>9. 0..item' - 1 = 0..item
  BY <1>1, <1>3
<1>10. ASSUME /\ best' = {} => \A x \in 0..item : ~Usable(results[x])
              /\ \A b \in best' : \E x \in 0..item :
                   /\ Matches(b, results[x]) /\ Usable(results[x])
                   /\ \A y \in 0..item : Usable(results[y]) => results[y].rssi <= results[x].rssi
       PROVE  Behind'
  <2>1. item' \in 0..scanResult
    BY <1>1, <1>3
  <2> QED BY <1>1, <1>2, <1>9, <1>10, <2>1 DEF Behind, Matches
<1>11. CASE Better(info)
  <2>1. best' = {[info |-> info, bssid |-> r.bssid]}
    BY <1>3, <1>4, <1>11 DEF Compare, Found
  <2>2. \A b \in best' : Matches(b, results[item])
    BY <1>4, <1>5, <2>1 DEF Matches
  <2>3. Usable(r) /\ \A b \in best : r.rssi > b.info.rssi
    BY <1>5, <1>6, <1>11 DEF Better
  <2>4. \A y \in 0..item - 1 : Usable(results[y]) => results[y].rssi <= r.rssi
    <3>1. CASE best = {}
      BY <3>1 DEF Behind
    <3>2. ASSUME NEW b \in best
          PROVE  \A y \in 0..item - 1 : Usable(results[y]) => results[y].rssi <= r.rssi
      <4>1. PICK x \in 0..item - 1 :
              /\ Matches(b, results[x])
              /\ \A y \in 0..item - 1 : Usable(results[y]) => results[y].rssi <= results[x].rssi
        BY <3>2 DEF Behind
      <4>2. b.info.rssi = results[x].rssi
        BY <4>1 DEF Matches
      <4>3. r.rssi > results[x].rssi
        BY <2>3, <3>2, <4>2
      <4>4. r.rssi \in Int /\ \A y \in 0..item - 1 : results[y].rssi \in Int
        BY <1>3, <1>4, <1>7
      <4> QED BY <4>1, <4>3, <4>4
    <3> QED BY <3>1, <3>2
  <2>5. r.rssi <= r.rssi
    BY <1>3, <1>4, <1>7
  <2>6. \A y \in 0..item : Usable(results[y]) => results[y].rssi <= results[item].rssi
    BY <1>4, <1>8, <2>4, <2>5
  <2>7. item \in 0..item
    BY <1>3
  <2> QED BY <1>4, <1>10, <2>1, <2>2, <2>3, <2>6, <2>7
<1>12. CASE ~Better(info)
  <2>1. best' = best
    BY <1>12 DEF Compare
  <2>2. best = {} => \A x \in 0..item : ~Usable(results[x])
    BY <1>4, <1>6, <1>8, <1>12 DEF Better, Behind
  <2>3. ASSUME NEW b \in best
        PROVE  \E x \in 0..item :
                 /\ Matches(b, results[x]) /\ Usable(results[x])
                 /\ \A y \in 0..item : Usable(results[y]) => results[y].rssi <= results[x].rssi
    <3>1. PICK x \in 0..item - 1 :
            /\ Matches(b, results[x]) /\ Usable(results[x])
            /\ \A y \in 0..item - 1 : Usable(results[y]) => results[y].rssi <= results[x].rssi
      BY <2>3 DEF Behind
    <3>2. b.info.rssi = results[x].rssi
      BY <3>1 DEF Matches
    <3>3. Usable(r) => r.rssi <= results[x].rssi
      <4> SUFFICES ASSUME Usable(r)
                   PROVE  r.rssi <= results[x].rssi
        OBVIOUS
      <4>1. PICK c \in best : ~(info.rssi > c.info.rssi)
        BY <1>6, <1>12 DEF Better
      <4>2. c = b
        BY <2>3, <4>1 DEF ChoiceOK
      <4>3. ~(r.rssi > results[x].rssi)
        BY <1>5, <3>2, <4>1, <4>2
      <4>4. r.rssi \in Int /\ results[x].rssi \in Int
        BY <1>3, <1>4, <1>7
      <4> QED BY <4>3, <4>4
    <3>4. x \in 0..item
      BY <1>3
    <3> QED BY <1>4, <1>8, <3>1, <3>3, <3>4
  <2> QED BY <1>10, <2>1, <2>2, <2>3
<1> QED BY <1>11, <1>12

LEMMA AloneStep ==
  ASSUME AloneOK, ChoiceOK, [MultiNext]_allVars
  PROVE  AloneOK'
<1>1. CountsOK /\ CountsOK'
  BY CountsStay DEF AloneOK, CountsOK
<1>2. CASE UNCHANGED allVars
  <2>1. \A r : Usable(r)' = Usable(r)
    BY <1>2 DEF Usable, allVars, multiVars
  <2> QED BY <1>2, <2>1 DEF allVars, multiVars, scanVars, choice, reading, AloneOK, ScanAlone, Over,
                            Filled, Behind, Matches
<1>3. CASE (EventTask \/ RadioDone \/ Expire) /\ UNCHANGED multiVars
  <2>1. UNCHANGED <<alone, multi, item, field>>
    BY <1>3 DEF multiVars, choice, reading
  <2> QED BY <1>1, <1>3, <2>1, OthersKeepAlone, OthersKeepBehind DEF AloneOK, CountsOK
<1>4. ASSUME multi' \notin {"scanning", "read", "delete", "begin"},
             UNCHANGED <<item, field>>, multi \notin {"read", "delete", "begin", "wait"} \/ multi' = "wait"
      PROVE  AloneOK'
  BY <1>1, <1>4 DEF AloneOK, CountsOK
<1>5. CASE \/ multi = "idle" /\ Sketch /\ UNCHANGED multiVars
           \/ (\E e \in Entries : AddAP(e)) \/ Run \/ RunFailed
  <2>1. /\ multi' \notin {"scanning", "read", "delete", "begin"} /\ UNCHANGED <<item, field>>
        /\ multi \in {"idle", "failed", "rescan"}
    BY <1>5 DEF AddAP, Run, RunFailed, multiVars, choice, reading
  <2> QED BY <1>4, <2>1
<1>6. CASE RunScan
  <2>1. multi = "scan" /\ UNCHANGED <<item, field>> /\ multi' \in {"idle", "scanning"}
    BY <1>6 DEF RunScan, choice, reading
  <2>2. CASE multi' = "scanning" /\ alone'
    <3>1. /\ ScanNetworks(FALSE) /\ ~radio /\ pending = 0 /\ doneAt = "idle"
      BY <1>6, <2>2 DEF RunScan
    <3>2. ScanAlone'
      BY <3>1 DEF ScanNetworks, ScanAlone, Over, env
    <3> QED BY <1>1, <2>1, <2>2, <3>2 DEF AloneOK, CountsOK
  <2>3. CASE ~(multi' = "scanning" /\ alone')
    BY <1>1, <2>1, <2>3 DEF AloneOK, CountsOK
  <2> QED BY <2>2, <2>3
<1>7. CASE Scanning
  <2>1. /\ multi = "scanning" /\ multi' \in {"scanning", "read", "failed"}
        /\ UNCHANGED <<alone, item, field, best, list>>
    BY <1>7 DEF Scanning
  <2>2. item = 0 /\ field = "ssid" /\ best = {}
    BY <2>1 DEF AloneOK, ChoiceOK
  <2>3. CASE alone /\ multi' = "read"
    <3>1. /\ Over /\ scanResult' = count
          /\ UNCHANGED <<radio, pending, results, count, doneAt>>
      BY <1>1, <1>7, <2>1, <2>3, ScanningKeepsAlone DEF AloneOK
    <3>2. Behind'
      BY <1>1, <2>1, <2>2, <2>3, <3>1 DEF Behind, Over, Filled, CountsOK
    <3> QED BY <1>1, <2>1, <2>2, <2>3, <3>2 DEF AloneOK, CountsOK
  <2>4. CASE alone /\ multi' = "scanning"
    <3>1. ScanAlone'
      BY <1>1, <1>7, <2>1, <2>4, ScanningKeepsAlone DEF AloneOK
    <3> QED BY <1>1, <2>1, <2>2, <2>4, <3>1 DEF AloneOK, CountsOK
  <2>5. CASE ~alone \/ multi' = "failed"
    BY <1>1, <2>1, <2>2, <2>5 DEF AloneOK, CountsOK
  <2> QED BY <2>1, <2>3, <2>4, <2>5
<1>8. CASE ReadResult
  <2>1. UNCHANGED <<alone, multi>> /\ multi = "read"
    BY <1>8 DEF ReadResult, ReadSsid, ReadRest, Compare
  <2>2. field' \in {"ssid", "secure", "rssi", "chan", "bssid"}
    BY <1>8 DEF ReadResult, ReadSsid, ReadRest, Compare, AloneOK
  <2>3. alone => Behind'
    BY <1>8, <2>1, ReadKeepsBehind, CompareKeepsBehind DEF ReadResult, AloneOK
  <2> QED BY <1>1, <2>1, <2>2, <2>3 DEF AloneOK, CountsOK
<1>9. ASSUME NoChoice, multi' = "idle"
      PROVE  AloneOK'
  BY <1>1, <1>9 DEF NoChoice, AloneOK, CountsOK
<1>10. ASSUME UNCHANGED <<radio, pending, doneAt, results, list, alone, choice>>,
              \/ multi = "read" /\ item = scanResult /\ multi' = "delete"
              \/ multi = "delete" /\ multi' = "begin"
       PROVE  AloneOK'
  <2>1. \A r : Usable(r)' = Usable(r)
    BY <1>10 DEF Usable
  <2>2. UNCHANGED <<item, scanResult, field, info, best, heard>>
    BY <1>10 DEF choice, reading
  <2>3. Behind => Behind'
    BY <1>10, <2>1, <2>2 DEF Behind, Matches
  <2> QED BY <1>1, <1>10, <2>2, <2>3 DEF AloneOK, CountsOK
<1>11. CASE RunDelete
  <2>1. ScanDelete /\ UNCHANGED <<radio, pending, doneAt, results, list, alone>>
    BY <1>11 DEF RunDelete, ScanDelete, env
  <2> QED BY <1>9, <1>10, <1>11, <2>1 DEF RunDelete
<1>12. CASE Begin
  BY <1>4, <1>12 DEF Begin, choice, reading
<1>13. CASE WaitConnection
  BY <1>9, <1>13 DEF WaitConnection
<1> QED BY <1>2, <1>3, <1>5, <1>6, <1>7, <1>8, <1>11, <1>12, <1>13 DEF MultiNext, RunStep

(* What run() takes to begin() is the strongest usable record of its own   *)
(* scan, for any networks, any list and any interleaving of the two tasks, *)
(* whether or not a scan outlasts the call that starts it, if no earlier   *)
(* scan was owed its SCAN_DONE.                                            *)
THEOREM AlwaysChosenFromScan == MultiSpec => []ChosenFromScan
<1>1. MultiInit => ChoiceOK /\ AloneOK
  BY DEF MultiInit, ScanInit, ChoiceOK, NoResults, NoInfo, AloneOK
<1>2. ChoiceOK /\ AloneOK => ChosenFromScan
  <2> SUFFICES ASSUME ChoiceOK, AloneOK, multi \in {"delete", "begin"}, alone
               PROVE  LET usable == {x \in 0..scanResult - 1 : Entitled(results[x])}
                      IN  /\ 0..scanResult - 1 \subseteq DOMAIN results
                          /\ best = {} => usable = {}
                          /\ \A b \in best : \E x \in usable :
                               /\ Matches(b, results[x])
                               /\ \A y \in usable : results[y].rssi <= results[x].rssi
    BY DEF ChosenFromScan
  <2>1. \A r : Usable(r) <=> Entitled(r)
    BY UsableIs DEF ChoiceOK
  <2>2. Behind /\ item = scanResult
    BY DEF AloneOK, Behind
  <2>3. /\ 0..scanResult - 1 \subseteq DOMAIN results
        /\ best = {} => \A x \in 0..scanResult - 1 : ~Entitled(results[x])
        /\ \A b \in best : \E x \in 0..scanResult - 1 :
             /\ Matches(b, results[x]) /\ Entitled(results[x])
             /\ \A y \in 0..scanResult - 1 : Entitled(results[y]) => results[y].rssi <= results[x].rssi
    BY <2>1, <2>2 DEF Behind
  <2> QED BY <2>3
<1>3. ChoiceOK /\ AloneOK /\ [MultiNext]_allVars => (ChoiceOK /\ AloneOK)'
  BY ChoiceStep, AloneStep
<1> QED BY <1>1, <1>2, <1>3, PTL DEF MultiSpec

=============================================================================
