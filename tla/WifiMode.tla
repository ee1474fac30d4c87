------------------------------ MODULE WifiMode ------------------------------
(***************************************************************************)
(* The operating mode of the WiFi interface: station (client of a network) *)
(* or access point (the radio's own network, for its set-up), or both.  It *)
(* is set by four parties that do not know of each other: set_ap at the    *)
(* start, a counter of failed connections (src/user/user_main.c), the scan *)
(* page and the connection page with their three timers (src/user/cgi.c).  *)
(*                                                                         *)
(* The SDK is external: it tries to join the configured network while a    *)
(* station is enabled, and reports with events.  Timers have no clock      *)
(* here: an armed timer fires at any later moment, so that every order of  *)
(* timers, pages and events is covered.                                    *)
(*                                                                         *)
(* The name of a network comes from a form and is not looked at: it may be *)
(* mistyped or blank, and a form without the field leaves in its place     *)
(* what the stack holds.                                                   *)
(***************************************************************************)
EXTENDS Integers

CONSTANTS Networks,  \* the networks in reach
          Absent,    \* an ssid that no network in reach has
          NoNetwork, \* an empty ssid
          LIMIT      \* 15: disconnects without a connect before AP mode

ASSUME ModeAssumption ==
  /\ NoNetwork \notin Networks \cup Absent
  /\ Networks \cap Absent = {}
  /\ LIMIT \in Nat \ {0}

Ssid == Networks \cup Absent \cup {NoNetwork}

VARIABLES
  opmode,  \* wifi_get_opmode()
  config,  \* the network in the station_config of the SDK
  link,    \* the station: "down", "up" (associated) or "ip"
  stconf,  \* the network the next connection try is for (cgi.c:471)
  connTryStatus,
  u8DisconnectCounter,
  armed    \* the timers that are armed

modeVars == <<opmode, config, link, stconf, connTryStatus, u8DisconnectCounter, armed>>

(* set_ap; the SDK keeps the station_config over restarts.                 *)
ModeInit ==
  /\ config \in Ssid
  /\ opmode = IF config = NoNetwork THEN "SOFTAP_MODE" ELSE "STATION_MODE"
  /\ link = "down"
  /\ stconf = NoNetwork
  /\ connTryStatus = "IDLE"
  /\ u8DisconnectCounter = 0
  /\ armed = {}
-----------------------------------------------------------------------------
(* wifi_set_opmode: without a station there is no connection.              *)
SetOpmode(mode) ==
  /\ opmode' = mode
  /\ link' = IF mode = "SOFTAP_MODE" THEN "down" ELSE link

Station   == opmode # "SOFTAP_MODE"
(* A browser reaches the radio over its own network or over the joined one. *)
Reachable == opmode # "STATION_MODE" \/ link = "ip"

(* wifi_handle_event_cb, one action per event.                             *)
StamodeConnected ==
  /\ Station /\ config \in Networks /\ link = "down"
  /\ link' = "up"
  /\ u8DisconnectCounter' = 0
  /\ UNCHANGED <<opmode, config, stconf, connTryStatus, armed>>

StamodeGotIp ==
  /\ link = "up"
  /\ link' = "ip"
  /\ UNCHANGED <<opmode, config, stconf, connTryStatus, u8DisconnectCounter,
                 armed>>

(* The SDK tells of each failed attempt to join the network it was given,  *)
(* and may tell, with none given, that the station has left the last one.  *)
MutantDisconnected ==
  /\ Station
  /\ u8DisconnectCounter' = (u8DisconnectCounter + 1) % LIMIT
  /\ link' = "down"
  /\ UNCHANGED <<opmode, config, stconf, connTryStatus, armed>>
StamodeDisconnected ==
  /\ Station
  /\ IF u8DisconnectCounter + 1 >= LIMIT
     THEN SetOpmode("SOFTAP_MODE") /\ u8DisconnectCounter' = 0
     ELSE /\ u8DisconnectCounter' = u8DisconnectCounter + 1
          /\ link' = "down" /\ UNCHANGED opmode
  /\ UNCHANGED <<config, stconf, connTryStatus, armed>>
-----------------------------------------------------------------------------
(* The scan that the end of a list starts, unless one is in progress       *)
(* (module WifiScan): the scan needs a station.                            *)
wifiStartScanMode ==
  /\ Reachable
  /\ SetOpmode("STATIONAP_MODE")
  /\ armed' = armed \cup {"ScanTimeoutTimer"}
  /\ UNCHANGED <<config, stconf, connTryStatus, u8DisconnectCounter>>

MutantScanTimeout ==
  /\ "ScanTimeoutTimer" \in armed
  /\ armed' = armed \ {"ScanTimeoutTimer"}
  /\ SetOpmode("STATION_MODE")
  /\ UNCHANGED <<config, stconf, connTryStatus, u8DisconnectCounter>>
ScanTimoutTimerCb ==
  /\ "ScanTimeoutTimer" \in armed
  /\ armed' = armed \ {"ScanTimeoutTimer"}
  /\ SetOpmode(IF config = NoNetwork THEN "SOFTAP_MODE" ELSE "STATION_MODE")
  /\ UNCHANGED <<config, stconf, connTryStatus, u8DisconnectCounter>>
-----------------------------------------------------------------------------
(* The form's essid, or essid_hidden if the choice is "$": any name.       *)
cgiWiFiConnect(n) ==
  /\ Reachable
  /\ stconf' = n
  /\ armed' = armed \cup {"reassTimer"}
  /\ UNCHANGED <<opmode, config, link, connTryStatus, u8DisconnectCounter>>

(* The SDK takes a station_config only while a station is enabled.         *)
reassTimerCb ==
  /\ "reassTimer" \in armed
  /\ link' = "down"
  /\ config' = IF Station THEN stconf ELSE config
  /\ connTryStatus' = "WORKING"
  /\ armed' = (armed \ {"reassTimer"})
              \cup (IF opmode # "STATION_MODE" THEN {"resetTimer"} ELSE {})
  /\ UNCHANGED <<opmode, stconf, u8DisconnectCounter>>

resetTimerCb ==
  /\ "resetTimer" \in armed
  /\ \/ /\ link = "ip"
        /\ SetOpmode("STATION_MODE")
        /\ armed' = armed \ {"resetTimer", "ScanTimeoutTimer"}
        /\ UNCHANGED connTryStatus
     \/ /\ link # "ip"
        /\ connTryStatus' = "FAIL"
        /\ armed' = armed \ {"resetTimer"}
        /\ UNCHANGED <<opmode, link>>
  /\ UNCHANGED <<config, stconf, u8DisconnectCounter>>

(* connTryStatus has no value for a success: it stays at WORKING.          *)
cgiWiFiConnStatus ==
  /\ Reachable
  /\ armed' = armed \cup (IF connTryStatus = "WORKING" /\ link = "ip"
                          THEN {"resetTimer"} ELSE {})
  /\ UNCHANGED <<opmode, config, link, stconf, connTryStatus, u8DisconnectCounter>>
-----------------------------------------------------------------------------
Event == StamodeConnected \/ StamodeGotIp \/ StamodeDisconnected
Timer == ScanTimoutTimerCb \/ reassTimerCb \/ resetTimerCb
Page  == wifiStartScanMode \/ cgiWiFiConnStatus \/ \E n \in Ssid : cgiWiFiConnect(n)

ModeNext == Event \/ Timer \/ Page

(* The SDK goes on trying to join: a station without an IP sees another    *)
(* event if it has a network to join, and one that is associated again and *)
(* again gets an IP at last.  With an empty ssid the SDK owes no event.    *)
(* An armed timer fires.  Nobody has to open a page.                       *)
ModeFairness ==
  /\ WF_modeVars(/\ config # NoNetwork /\ link # "ip"
                 /\ StamodeConnected \/ StamodeDisconnected)
  /\ SF_modeVars(StamodeGotIp)
  /\ WF_modeVars(ScanTimoutTimerCb) /\ WF_modeVars(reassTimerCb) /\ WF_modeVars(resetTimerCb)

ModeSpec == ModeInit /\ [][ModeNext]_modeVars /\ ModeFairness
-----------------------------------------------------------------------------
ModeTypeOK ==
  /\ opmode \in {"STATION_MODE", "SOFTAP_MODE", "STATIONAP_MODE"}
  /\ config \in Ssid /\ stconf \in Ssid
  /\ link \in {"down", "up", "ip"}
  /\ connTryStatus \in {"IDLE", "WORKING", "FAIL"}
  /\ u8DisconnectCounter \in 0..LIMIT - 1
  /\ armed \subseteq {"ScanTimeoutTimer", "reassTimer", "resetTimer"}

(* Both interfaces are on for the time of a scan only: in that mode the    *)
(* timer that ends it is always armed, whatever the other timers and the   *)
(* disconnect counter do (wifiStartScan, ScanTimoutTimerCb, resetTimerCb). *)
ScanModeEnds == opmode = "STATIONAP_MODE" => "ScanTimeoutTimer" \in armed

(* No timer makes the radio a client only without a network to join, and a *)
(* client only loses its network in one way: a connection try with a blank *)
(* name, which reassTimerCb stores (cgi.c:504) because neither it nor      *)
(* cgiWiFiConnect (cgi.c:531-540) looks at the name.  The first holds for  *)
(* resetTimerCb, which does not look at the configuration, only because a  *)
(* new try takes the link down before the timer can fire.                  *)
ClientHasNetwork ==
  [][opmode' = "STATION_MODE" /\ config' = NoNetwork =>
       /\ opmode = "STATION_MODE"
       /\ config = NoNetwork \/ (stconf = NoNetwork /\ reassTimerCb)]_modeVars

(* Each mode has its reason: a scan its end, a client its network.         *)
ModeIsJustified == []ScanModeEnds /\ ClientHasNetwork

(* A client only, and no network: no event is due, and no browser can ask  *)
(* for another network.  At the next start set_ap opens the access point.  *)
Stranded == opmode = "STATION_MODE" /\ config = NoNetwork

(* A radio that no browser can reach becomes reachable again: it joins its *)
(* network, or the counter of failed connections opens its own             *)
(* (wifi_handle_event_cb), also for a name that no network has.  The       *)
(* exception is the radio that has taken over a blank name as a client.    *)
ComesBack == ~Reachable ~> (Reachable \/ Stranded)

(* A connection try that was given a time limit (resetTimer) ends in a     *)
(* failure or in client mode (reassTimerCb, resetTimerCb).  A try that is  *)
(* started in client mode has no limit (cgi.c:508).                        *)
TryEnds == (connTryStatus = "WORKING" /\ "resetTimer" \in armed)
             ~> (connTryStatus = "FAIL" \/ opmode = "STATION_MODE")
(* The radio settles: a browser reaches it, and a try has an outcome.      *)
ModeSettles == ComesBack /\ TryEnds
=============================================================================
