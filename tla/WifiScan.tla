------------------------------ MODULE WifiScan ------------------------------
(***************************************************************************)
(* The scan for access points and the page that lists them                 *)
(* (src/user/cgi.c).  cgiWiFiScan is called once per request and then once *)
(* per line of the list, whenever the line before has been sent; between   *)
(* two of these calls the list of another browser may end, which starts a  *)
(* new scan, and wifiScanDoneCb may replace the table.  What the scan does *)
(* to the operating mode is in module WifiMode.                            *)
(*                                                                         *)
(* An answer is a sequence of pieces: "head" (the HTTP header), "busy"     *)
(* (scan in progress), "list" (the begin of the list), "line" and "last"   *)
(* (a line with and without a comma) and "end".                            *)
(***************************************************************************)
EXTENDS Integers, Sequences

CONSTANTS Browsers,    \* requests for wifiscan.cgi that may be open at once
          MaxAps       \* bound: the access points a scan finds

ASSUME ScanAssumption == MaxAps \in Nat

Unset == "unset"   \* an entry of the table no ApData was allocated for
Stored == "stored"
NULL == <<"NULL">>

VARIABLES
  scanInProgress, \* cgiWifiAps.scanInProgress
  apData,         \* cgiWifiAps.apData, a sequence of entries, or NULL
  noAps,          \* cgiWifiAps.noAps
  scanning,       \* the SDK owes a call of wifiScanDoneCb
  pos,            \* connData->cgiData of each browser, 0 at the first call
  body,           \* what was sent to each browser for its request
  opened,         \* the browsers whose request has not been answered
  failed,         \* history: malloc has failed in wifiScanDoneCb
  overtaken       \* history: the browsers during whose list a scan began

vars == <<scanInProgress, apData, noAps, scanning, pos, body, opened, failed,
          overtaken>>

Init ==
  /\ scanInProgress = FALSE /\ apData = NULL /\ noAps = 0
  /\ scanning = FALSE
  /\ pos = [b \in Browsers |-> 0]
  /\ body = [b \in Browsers |-> <<>>]
  /\ opened = {} /\ failed = FALSE /\ overtaken = {}
-----------------------------------------------------------------------------
(* Nothing happens while a scan is in progress.                            *)
wifiStartScan ==
  IF scanInProgress
  THEN UNCHANGED <<scanInProgress, scanning, overtaken>>
  ELSE scanInProgress' = TRUE /\ scanning' = TRUE
       /\ overtaken' = overtaken \cup opened'

(* The table for a scan that has found n access points, up to the first    *)
(* allocation that fails.                                                  *)
Filled(n) == [i \in 1..n |-> Stored]
Partial(n, k) == [i \in 1..n |-> IF i < k THEN Stored ELSE Unset]

MutantScanFails == UNCHANGED <<scanInProgress, apData, noAps>>
ScanFails     == scanInProgress' = FALSE /\ UNCHANGED <<apData, noAps>>
MutantLoopShort(n) == scanInProgress' = FALSE /\ apData' = Partial(n, n) /\ noAps' = n
ScanFinds(n)  == scanInProgress' = FALSE /\ apData' = Filled(n) /\ noAps' = n
NoTable       == apData' = NULL /\ UNCHANGED <<scanInProgress, noAps>>
NoEntry(n, k) == scanInProgress' = FALSE /\ apData' = Partial(n, k) /\ noAps' = n

wifiScanDoneCb ==
  /\ scanning /\ scanning' = FALSE
  /\ \/ ScanFails /\ UNCHANGED failed
     \/ (\E n \in 0..MaxAps : ScanFinds(n)) /\ UNCHANGED failed
     \/ NoTable /\ failed' = TRUE
     \/ (\E n \in 1..MaxAps : \E k \in 1..n : NoEntry(n, k)) /\ failed' = TRUE
  /\ UNCHANGED <<pos, body, opened, overtaken>>
-----------------------------------------------------------------------------
(* The end of an answer, and the next call of the handler for it.          *)
Done(b)    == pos' = [pos EXCEPT ![b] = 0] /\ opened' = opened \ {b}
More(b, p) == pos' = [pos EXCEPT ![b] = p] /\ opened' = opened \cup {b}
Send(b, pieces) == body' = [body EXCEPT ![b] = @ \o pieces]
Begin(b, pieces) == body' = [body EXCEPT ![b] = pieces]

(* The first call for a request.                                           *)
Ask(b) ==
  /\ b \notin opened
  /\ IF scanInProgress
     THEN Begin(b, <<"head", "busy">>) /\ UNCHANGED <<noAps, pos, opened>>
     ELSE /\ Begin(b, <<"head", "list">>) /\ More(b, 1)
          /\ noAps' = IF apData = NULL THEN 0 ELSE noAps
  /\ overtaken' = overtaken \ {b}
  /\ UNCHANGED <<scanInProgress, apData, scanning, failed>>

(* A scan has started since the last line: the handler begins once more.   *)
Interrupted(b) ==
  /\ b \in opened /\ scanInProgress
  /\ Send(b, <<"head", "busy">>) /\ Done(b)
  /\ UNCHANGED <<scanInProgress, apData, noAps, scanning, failed, overtaken>>

(* The line of the access point p - 1, if there is one.                    *)
Line(p) == IF p - 1 >= noAps THEN <<>>
           ELSE IF p - 1 = noAps - 1 THEN <<"last">> ELSE <<"line">>

MutantNoEnd(b) ==
  /\ b \in opened /\ ~scanInProgress
  /\ IF pos[b] >= noAps
     THEN Send(b, Line(pos[b])) /\ Done(b) /\ wifiStartScan
     ELSE /\ Send(b, Line(pos[b])) /\ More(b, pos[b] + 1)
          /\ UNCHANGED <<scanInProgress, scanning, overtaken>>
  /\ UNCHANGED <<apData, noAps, failed>>
NextLine(b) ==
  /\ b \in opened /\ ~scanInProgress
  /\ IF pos[b] >= noAps
     THEN Send(b, Line(pos[b]) \o <<"end">>) /\ Done(b) /\ wifiStartScan
     ELSE /\ Send(b, Line(pos[b])) /\ More(b, pos[b] + 1)
          /\ UNCHANGED <<scanInProgress, scanning, overtaken>>
  /\ UNCHANGED <<apData, noAps, failed>>

(* The connection is gone: the server calls the handler a last time, which *)
(* does not look at connData->conn and may start a scan.                   *)
Disconnected(b) ==
  /\ b \in opened
  /\ Done(b) /\ Begin(b, <<>>)
  /\ IF ~scanInProgress /\ pos[b] >= noAps
     THEN wifiStartScan
     ELSE UNCHANGED <<scanInProgress, scanning, overtaken>>
  /\ UNCHANGED <<apData, noAps, failed>>

cgiWiFiScan(b) == Interrupted(b) \/ NextLine(b)

Next ==
  \/ wifiScanDoneCb
  \/ \E b \in Browsers : Ask(b) \/ cgiWiFiScan(b) \/ Disconnected(b)

(* A line that was sent calls the handler again, and a scan ends.          *)
Fairness == WF_vars(wifiScanDoneCb) /\ \A b \in Browsers : WF_vars(cgiWiFiScan(b))

Spec == Init /\ [][Next]_vars /\ Fairness
-----------------------------------------------------------------------------
TypeOK ==
  /\ scanInProgress \in BOOLEAN /\ scanning \in BOOLEAN
  /\ noAps \in 0..MaxAps
  /\ apData = NULL \/ (apData \in Seq({Stored, Unset}) /\ Len(apData) = noAps)
  /\ pos \in [Browsers -> 0..MaxAps + 1]
  /\ opened \subseteq Browsers /\ overtaken \subseteq Browsers
  /\ failed \in BOOLEAN
  /\ \A b \in Browsers : b \in opened <=> pos[b] # 0

(* The SDK is asked for one scan at a time, and the flag stands as long as *)
(* its answer is owed: the table is replaced under the flag only           *)
(* (wifiStartScan, and the comment at cgi.c:30).                           *)
OneScan == scanning => scanInProgress

(* The table is not replaced between the test of the flag and the use of   *)
(* an entry: each line that is sent is of an entry the last scan stored.   *)
(* An allocation that fails leaves a half filled table and no sign of it.  *)
Listing(b) == b \in opened /\ ~scanInProgress /\ pos[b] <= noAps
ListedApsExist ==
  ~failed => \A b \in Browsers : Listing(b) =>
    apData # NULL /\ pos[b] \in DOMAIN apData /\ apData[pos[b]] = Stored

(* The flag covers the scan, and with it the table that is listed.         *)
TableIsSafe == OneScan /\ ListedApsExist

(* Every request is answered to the end, however often the table changes   *)
(* in between (cgiWiFiScan keeps its position in cgiData).                 *)
RequestIsAnswered == \A b \in Browsers : b \in opened ~> b \notin opened

(* A scan that was started leaves the flag clear again, so that the next   *)
(* list can start another - unless the table could not be allocated, which *)
(* leaves the flag set for ever.                                           *)
ScanComesBack == scanInProgress ~> (~scanInProgress \/ failed)

(* Lists and scans end, and neither keeps the other from it.               *)
ListsAndScansEnd == RequestIsAnswered /\ ScanComesBack

(* "The result is embedded in a bit of JSON" (cgi.c:415): a finished       *)
(* answer has one header, and commas exactly between the lines.  A list    *)
(* that the scan of another browser overtakes gets a second header within  *)
(* its body, or ends behind a comma if the new table is shorter.           *)
(* Lines: the first k lines of a list of n.                                *)
Lines(n, k) == [i \in 1..k |-> IF i = n THEN "last" ELSE "line"]
WellFormed(s) ==
  \/ s = <<>> \/ s = <<"head", "busy">>
  \/ \E n \in 0..Len(s) : s = <<"head", "list">> \o Lines(n, n) \o <<"end">>
AnswerIsJson ==
  \A b \in Browsers : b \notin opened \cup overtaken => WellFormed(body[b])
=============================================================================
