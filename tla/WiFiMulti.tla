----------------------------- MODULE WiFiMulti -----------------------------
(***************************************************************************)
(* WiFiMulti: run() keeps the link on the strongest known network.  It     *)
(* composes WiFiScan, whose calls and event task take their own steps      *)
(* inside run(), with a station that may or may not be where run() wants   *)
(* it and may or may not connect (WiFiStation has its workings).           *)
(*                                                                         *)
(* A result is read from the static array field by field, and its BSSID    *)
(* once more through a pointer, while the event task may be replacing the  *)
(* array: each of these reads is a step.                                   *)
(***************************************************************************)
EXTENDS WiFiScan, Integers, Sequences, FiniteSets, FiniteSetsExt

CONSTANTS
  Entries,      \* what the sketch adds: [ssid, pass]
  MaxEntries,   \* entries in the list (a bound)
  None

ASSUME ListAssumption ==
  MaxEntries \in Nat /\ \A n \in Networks : n.rssi \in Int

VARIABLES
  list,     \* APlist
  multi,    \* where run() is
  alone,    \* history: was no scan owed a SCAN_DONE when run() asked for its own?
  item,     \* the loop's index
  scanResult,
  field,    \* the field getNetworkInfo() reads next
  info,     \* the fields it has read: ssid_scan, sec_scan, rssi_scan, chan_scan
  best,     \* bestNetwork, if there is one: as read, and bestBSSID
  heard     \* history: the results it has read

reading == <<item, scanResult, field, info>>
choice == <<reading, best, heard>>
multiVars == <<list, multi, alone, choice>>
allVars == <<scanVars, multiVars>>

NoInfo == [ssid |-> None, secure |-> None, rssi |-> None, chan |-> None]

MultiInit ==
  /\ ScanInit
  /\ list = <<>>
  /\ multi = "idle" /\ alone = FALSE
  /\ item = 0 /\ scanResult = 0 /\ field = "ssid" /\ info = NoInfo
  /\ best = {} /\ heard = {}

NoChoice ==
  /\ item' = 0 /\ scanResult' = 0 /\ field' = "ssid" /\ info' = NoInfo
  /\ best' = {} /\ heard' = {}

-----------------------------------------------------------------------------
(* addAP(), of an entry it accepts; a refusal changes nothing. *)
AddAP(e) ==
  /\ multi = "idle" /\ Len(list) < MaxEntries
  /\ list' = Append(list, e)
  /\ UNCHANGED <<scanVars, multi, alone, choice>>

(* run() begins.  On a listed network it returns at once, a step without   *)
(* effect; one of another is disconnected first.                           *)
Run ==
  /\ multi = "idle" /\ at = "idle"
  /\ multi' = "scan"
  /\ UNCHANGED <<scanVars, list, alone, choice>>

(* WiFi.scanNetworks(), which answers at once while a scan is running. *)
RunScan ==
  /\ multi = "scan" /\ at = "idle"
  /\ IF scanning THEN multi' = "idle" /\ UNCHANGED scanVars
     ELSE ScanNetworks(FALSE) /\ multi' = "scanning"
  /\ alone' = (~radio /\ pending = 0 /\ doneAt = "idle")
  /\ UNCHANGED <<list, choice>>

(* The call goes on; its result is a number of networks or a failure. *)
Scanning ==
  /\ multi = "scanning"
  /\ ScanDelete \/ ScanStart \/ Stamp \/ SetBits \/ Wait \/ Report
  /\ multi' = CASE at' # "idle"  -> "scanning"
                [] at = "report" -> "read"
                [] OTHER         -> "failed"
  /\ scanResult' = IF at = "report" THEN count ELSE scanResult
  /\ UNCHANGED <<list, alone, item, field, info, best, heard>>

-----------------------------------------------------------------------------
(* The choice                                                              *)

(* Mutant: any entry of the name lends its passphrase. *)
UsableByAny(r) ==
  \E x \in DOMAIN list : list[x].ssid = r.ssid /\ (~r.secure \/ list[x].pass)

(* A network is known by the entry of its name added last, and used if it  *)
(* is open or that entry has a passphrase.                                 *)
Usable(r) ==
  LET named == {x \in DOMAIN list : list[x].ssid = r.ssid}
  IN  named # {} /\ (~r.secure \/ list[Max(named)].pass)

Better(r) == Usable(r) /\ \A b \in best : r.rssi > b.info.rssi

(* What a read of field f of record `item` may find: the record, or, past  *)
(* the results and while the event task copies new ones over them,         *)
(* anything.                                                               *)
Found(f) ==
  IF item \in DOMAIN results /\ doneAt # "fetch" THEN {results[item][f]}
  ELSE {r[f] : r \in Networks}

(* The index is compared with _scanCount once, before the first field;     *)
(* past it getNetworkInfo() leaves an empty SSID, which no entry has.      *)
ReadSsid ==
  /\ multi = "read" /\ item < scanResult /\ field = "ssid"
  /\ \/ /\ item < count
        /\ \E v \in Found("ssid") : info' = [info EXCEPT !.ssid = v]
        /\ field' = "secure" /\ UNCHANGED item
     \/ item >= count /\ item' = item + 1 /\ UNCHANGED <<field, info>>
  /\ UNCHANGED <<scanVars, list, multi, alone, scanResult, best, heard>>

ReadRest ==
  /\ multi = "read"
  /\ \/ /\ field = "secure" /\ field' = "rssi"
        /\ \E v \in Found("secure") : info' = [info EXCEPT !.secure = v]
     \/ /\ field = "rssi" /\ field' = "chan"
        /\ \E v \in Found("rssi") : info' = [info EXCEPT !.rssi = v]
     \/ /\ field = "chan" /\ field' = "bssid"
        /\ \E v \in Found("chan") : info' = [info EXCEPT !.chan = v]
  /\ UNCHANGED <<scanVars, list, multi, alone, item, scanResult, best, heard>>

As(r) == [ssid |-> r.ssid, secure |-> r.secure, rssi |-> r.rssi]

(* The result is compared with the best so far, and if it replaces that    *)
(* its BSSID is copied from the array.                                     *)
Compare ==
  /\ multi = "read" /\ field = "bssid"
  /\ IF Better(info) THEN \E v \in Found("bssid") : best' = {[info |-> info, bssid |-> v]}
     ELSE UNCHANGED best
  /\ heard' = heard \union {As(info)}
  /\ item' = item + 1 /\ field' = "ssid" /\ info' = NoInfo
  /\ UNCHANGED <<scanVars, list, multi, alone, scanResult>>

ReadResult == ReadSsid \/ ReadRest \/ Compare

(* WiFi.scanDelete() *)
RunDelete ==
  \/ /\ multi = "read" /\ item = scanResult /\ at = "idle"
     /\ ScanDelete /\ multi' = "delete"
     /\ UNCHANGED <<list, alone, choice>>
  \/ /\ multi = "delete" /\ at # "idle"
     /\ ScanDelete
     /\ IF best = {} THEN multi' = "idle" /\ NoChoice
        ELSE multi' = "begin" /\ UNCHANGED choice
     /\ UNCHANGED <<list, alone>>

(* WiFi.begin() with the chosen network. *)
Begin ==
  /\ multi = "begin" /\ multi' = "wait"
  /\ UNCHANGED <<scanVars, list, alone, choice>>

(* The loop ends on a connection, a failure, be it one of an earlier       *)
(* attempt, or the timeout, which leaves the attempt going.                *)
WaitConnection ==
  /\ multi = "wait"
  /\ multi' = "idle" /\ NoChoice
  /\ UNCHANGED <<scanVars, list, alone>>

(* After a failed scan: WiFi.disconnect(), and a scan is left running. *)
RunFailed ==
  \/ /\ multi = "failed" /\ at = "idle"
     /\ IF scanning THEN multi' = "idle" /\ UNCHANGED scanVars
        ELSE ScanNetworks(TRUE) /\ multi' = "rescan"
     /\ UNCHANGED <<list, alone, choice>>
  \/ /\ multi = "rescan"
     /\ ScanDelete \/ ScanStart \/ Stamp \/ SetBits
     /\ multi' = IF at' = "idle" THEN "idle" ELSE "rescan"
     /\ UNCHANGED <<list, alone, choice>>

-----------------------------------------------------------------------------
RunStep ==
  \/ RunScan \/ Scanning \/ ReadResult \/ RunDelete \/ Begin \/ WaitConnection \/ RunFailed

MultiNext ==
  \/ \E e \in Entries : AddAP(e)
  \/ Run \/ RunStep
  \/ /\ multi = "idle" /\ Sketch /\ UNCHANGED multiVars
  \/ (EventTask \/ RadioDone \/ Expire) /\ UNCHANGED multiVars

MultiSpec == MultiInit /\ [][MultiNext]_allVars

-----------------------------------------------------------------------------
(* Properties                                                              *)

(* The entry of r's name added last lets run() use it. *)
Entitled(r) ==
  \E x \in DOMAIN list : /\ list[x].ssid = r.ssid /\ (r.secure => list[x].pass)
                         /\ \A y \in DOMAIN list : list[y].ssid = r.ssid => y <= x

(* When the results are read, the chosen network is the strongest of the   *)
(* usable ones among them, and one is chosen if there is any.              *)
BestChosen ==
  multi \in {"delete", "begin"} =>
    LET usable == {r \in heard : Entitled(r)}
    IN  /\ best = {} => usable = {}
        /\ \A b \in best : As(b.info) \in usable /\ \A r \in usable : r.rssi <= b.info.rssi

Matches(b, r) ==
  /\ b.info = [ssid |-> r.ssid, secure |-> r.secure, rssi |-> r.rssi, chan |-> r.chan]
  /\ b.bssid = r.bssid

(* If no earlier scan was owed its SCAN_DONE when run() asked for its own, *)
(* the choice is the strongest usable record of that scan, all of it: the  *)
(* event task has stored every record before it tells run() of them, and   *)
(* the name, channel and BSSID that begin() gets belong together.          *)
ChosenFromScan ==
  multi \in {"delete", "begin"} /\ alone =>
    LET usable == {x \in 0..scanResult - 1 : Entitled(results[x])}
    IN  /\ 0..scanResult - 1 \subseteq DOMAIN results
        /\ best = {} => usable = {}
        /\ \A b \in best : \E x \in usable :
             /\ Matches(b, results[x])
             /\ \A y \in usable : results[y].rssi <= results[x].rssi
=============================================================================
