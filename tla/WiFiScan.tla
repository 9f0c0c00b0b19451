------------------------------ MODULE WiFiScan ------------------------------
(***************************************************************************)
(* WiFiScan: the sketch's task in scanNetworks(), scanComplete() and       *)
(* scanDelete() against the arduino_events task in _scanDone().            *)
(*                                                                         *)
(* Both tasks read and write _scanCount, _scanStarted and the two status   *)
(* bits without a lock, so every access is a step of its own; `at` and     *)
(* `doneAt` say which access comes next.                                   *)
(***************************************************************************)
EXTENDS Naturals

CONSTANTS
  Networks,     \* in range: [ssid, secure, rssi, chan, bssid]
  MaxResults,   \* WIFISCAN_MAX_RESULTS
  MaxFound,     \* networks in range (a bound)
  MaxPending,   \* SCAN_DONE events not yet handled (a bound)
  SlowScan      \* does a scan outlast the rest of the call that started it?

ASSUME ScanAssumption ==
  MaxResults \in Nat /\ MaxFound \in Nat /\ MaxPending \in Nat /\ SlowScan \in BOOLEAN

VARIABLES
  radio,      \* is the driver scanning?
  found,      \* the driver's records of the last scan
  pending,    \* SCAN_DONE events in the queue
  results,    \* _scanResult, as far as the last scan filled it
  count,      \* _scanCount
  started,    \* _scanStarted # 0
  late,       \* millis() - _scanStarted > _scanTimeout
  done,       \* WIFI_SCAN_DONE_BIT
  scanning,   \* WIFI_SCANNING_BIT
  at,         \* the sketch's task
  async,      \* _scanAsync
  doneAt      \* the arduino_events task, in _scanDone()

scanVars == <<radio, found, pending, results, count, started, late, done, scanning, at, async, doneAt>>
env == <<radio, found, pending, results>>
sketch == <<at, async>>

NoResults == [x \in {} |-> 0]

ScanInit ==
  /\ radio = FALSE /\ found = 0 /\ pending = 0 /\ results = NoResults
  /\ count = 0 /\ started = FALSE /\ late = FALSE /\ done = FALSE /\ scanning = FALSE
  /\ at = "idle" /\ async = FALSE /\ doneAt = "idle"

-----------------------------------------------------------------------------
(* scanNetworks()                                                          *)

(* With WIFI_SCANNING_BIT set the call returns WIFI_SCAN_RUNNING. *)
ScanNetworks(a) ==
  /\ at = "idle" /\ ~scanning
  /\ async' = a /\ at' = "delete"
  /\ UNCHANGED <<env, count, started, late, done, scanning, doneAt>>

(* scanDelete(), from scanNetworks() or from the sketch. *)
ScanDelete ==
  \/ /\ at \in {"idle", "delete"}
     /\ done' = FALSE
     /\ at' = IF at = "idle" THEN "zero only" ELSE "zero"
     /\ UNCHANGED <<env, count, started, late, scanning, async, doneAt>>
  \/ /\ at \in {"zero only", "zero"}
     /\ count' = 0
     /\ at' = IF at = "zero" THEN "start" ELSE "idle"
     /\ UNCHANGED <<env, started, late, done, scanning, async, doneAt>>

(* esp_wifi_scan_start(): it fails while the driver scans, or for reasons  *)
(* of its own.                                                             *)
ScanStart ==
  /\ at = "start"
  /\ \/ ~radio /\ radio' = TRUE /\ found' = 0 /\ at' = "stamp"
     \/ at' = "idle" /\ UNCHANGED <<radio, found>>
  /\ UNCHANGED <<pending, results, count, started, late, done, scanning, async, doneAt>>

Stamp ==
  /\ at = "stamp"
  /\ started' = TRUE /\ late' = FALSE /\ at' = "clear"
  /\ UNCHANGED <<env, count, done, scanning, async, doneAt>>

SetBits ==
  \/ /\ at = "clear" /\ done' = FALSE /\ at' = "set"
     /\ UNCHANGED <<env, count, started, late, scanning, async, doneAt>>
  \/ /\ at = "set" /\ scanning' = TRUE /\ at' = IF async THEN "idle" ELSE "wait"
     /\ UNCHANGED <<env, count, started, late, done, async, doneAt>>

(* waitStatusBits(): the bit comes, or ten seconds pass. *)
Wait ==
  /\ at = "wait"
  /\ \/ done /\ at' = "report"
     \/ at' = "idle"
  /\ UNCHANGED <<env, count, started, late, done, scanning, async, doneAt>>

(* scanComplete() up to where it knows what to return.  _scanStarted is    *)
(* read twice: reset in between, it makes any scan overdue.                *)
ScanComplete ==
  \/ /\ at = "idle" /\ at' = IF started THEN "age" ELSE "poll"
     /\ UNCHANGED <<env, count, started, late, done, scanning, async, doneAt>>
  \/ /\ at = "age"
     /\ IF late \/ ~started THEN scanning' = FALSE /\ at' = "idle"
        ELSE at' = "poll" /\ UNCHANGED scanning
     /\ UNCHANGED <<env, count, started, late, done, async, doneAt>>
  \/ /\ at = "poll" /\ at' = IF done THEN "report" ELSE "idle"
     /\ UNCHANGED <<env, count, started, late, done, scanning, async, doneAt>>

(* _scanCount is returned. *)
Report ==
  /\ at = "report" /\ at' = "idle"
  /\ UNCHANGED <<env, count, started, late, done, scanning, async, doneAt>>

-----------------------------------------------------------------------------
(* _scanDone()                                                             *)

(* Mutant: the bit is set first. *)
GetApNumAnnounced ==
  /\ doneAt = "idle" /\ pending > 0
  /\ pending' = pending - 1
  /\ count' = found /\ doneAt' = "cap" /\ done' = TRUE
  /\ UNCHANGED <<radio, found, results, started, late, scanning, sketch>>

GetApNum ==
  /\ doneAt = "idle" /\ pending > 0
  /\ pending' = pending - 1
  /\ count' = found /\ doneAt' = "cap"
  /\ UNCHANGED <<radio, found, results, started, late, done, scanning, sketch>>

Cap ==
  /\ doneAt = "cap"
  /\ count' = IF count > MaxResults THEN MaxResults ELSE count
  /\ doneAt' = IF count = 0 THEN "reset" ELSE "fetch"
  /\ UNCHANGED <<env, started, late, done, scanning, sketch>>

(* esp_wifi_scan_get_ap_records(): at most as many as there are, copied to *)
(* _scanResult; the driver forgets them.                                   *)
GetApRecords ==
  LET n == IF count > found THEN found ELSE count IN
  /\ doneAt = "fetch"
  /\ \/ count' = n /\ results' \in [0..n - 1 -> Networks]
     \/ count' = 0 /\ UNCHANGED results
  /\ found' = 0 /\ doneAt' = "reset"
  /\ UNCHANGED <<radio, pending, started, late, done, scanning, sketch>>

(* Mutant: WIFI_SCANNING_BIT is left set. *)
ScanDoneStillScanning ==
  \/ /\ doneAt = "reset" /\ started' = FALSE /\ doneAt' = "done"
     /\ UNCHANGED <<env, count, late, done, scanning, sketch>>
  \/ /\ doneAt = "done" /\ done' = TRUE /\ doneAt' = "idle"
     /\ UNCHANGED <<env, count, started, late, scanning, sketch>>

ScanDone ==
  \/ /\ doneAt = "reset" /\ started' = FALSE /\ doneAt' = "done"
     /\ UNCHANGED <<env, count, late, done, scanning, sketch>>
  \/ /\ doneAt = "done" /\ done' = TRUE /\ doneAt' = "bit"
     /\ UNCHANGED <<env, count, started, late, scanning, sketch>>
  \/ /\ doneAt = "bit" /\ scanning' = FALSE /\ doneAt' = "idle"
     /\ UNCHANGED <<env, count, started, late, done, sketch>>

-----------------------------------------------------------------------------
(* The driver and the clock                                                *)

RadioDone ==
  /\ radio /\ pending < MaxPending /\ (SlowScan => at \notin {"stamp", "clear", "set"})
  /\ radio' = FALSE /\ found' \in 0..MaxFound /\ pending' = pending + 1
  /\ UNCHANGED <<results, count, started, late, done, scanning, sketch, doneAt>>

Expire ==
  /\ started /\ ~late
  /\ late' = TRUE
  /\ UNCHANGED <<env, count, started, done, scanning, sketch, doneAt>>

Sketch ==
  \/ \E a \in BOOLEAN : ScanNetworks(a)
  \/ ScanDelete \/ ScanStart \/ Stamp \/ SetBits \/ Wait \/ ScanComplete \/ Report
EventTask == GetApNum \/ Cap \/ GetApRecords \/ ScanDone

-----------------------------------------------------------------------------
(* Properties                                                              *)

(* Every variable of WiFiScan has its type. *)
ScanTypeOK ==
  /\ {radio, started, late, done, scanning, async} \subseteq BOOLEAN
  /\ found \in 0..MaxFound /\ count \in 0..MaxFound
  /\ pending \in 0..MaxPending
  /\ at \in {"idle", "delete", "zero", "zero only", "start", "stamp", "clear", "set", "wait",
             "age", "poll", "report"}
  /\ doneAt \in {"idle", "cap", "fetch", "reset", "done", "bit"}

(* With no scan running or unreported, nothing says one is: neither task's *)
(* late store to _scanStarted or WIFI_SCANNING_BIT survives the other's,   *)
(* though a scan may time out in scanComplete() and be started anew before *)
(* its SCAN_DONE is handled.                                               *)
FlagsSettle ==
  ~radio /\ pending = 0 /\ doneAt = "idle" => ~scanning /\ ~started
=============================================================================
