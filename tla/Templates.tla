----------------------------- MODULE Templates -----------------------------
(***************************************************************************)
(* What the radio writes for the macros of its two template pages          *)
(* (IndexTemplate and tplWlan of user/cgi.c).  A macro is a number here:   *)
(* its place in the list of names.  A fixed text is one byte.              *)
(***************************************************************************)
EXTENDS Integers, Sequences

Checked == <<200>>         \* "checked='checked'"
FIRMW_VERSION == <<201>>
Debug == <<202>>           \* " Debug", of a build with DEBUG_VERSION

IndexMacros ==
  <<"Version", "autoplay", "volume", "treble_amp", "treble_lim", "bass_amp", "bass_lim",
    "SpartialProcessingLevel_Off", "SpartialProcessingLevel_Minimal",
    "SpartialProcessingLevel_Normal", "SpartialProcessingLevel_Extreme",
    "StreamSelected_0", "StreamName_0", "StreamName_1", "StreamName_2", "Debug">>

WlanMacros == <<"Wifi_Mode", "Wifi_SSID", "Wifi_STATUS", "Wifi_IP", "Wifi_MAC">>

Named(macros, token) ==
  IF Len(token) = 1 /\ token[1] \in DOMAIN macros THEN macros[token[1]] ELSE "none"

(* "%d" of a number that is not negative.                                  *)
RECURSIVE Decimal(_)
Decimal(n) == IF n < 10 THEN <<48 + n>> ELSE Decimal(n \div 10) \o <<48 + (n % 10)>>

When(condition, text) == IF condition THEN text ELSE <<>>

(* control: the settings of Control_... and stream_name.                   *)
IndexTemplate(token, control) ==
  LET name == Named(IndexMacros, token) IN
  CASE name = "Version" -> FIRMW_VERSION
    [] name = "Debug" -> Debug
    [] name = "autoplay" -> When(control.autoplay = 1, Checked)
    [] name = "volume" -> Decimal(control.volume)
    [] name = "treble_amp" -> Decimal(control.TrebleAmp)
    [] name = "treble_lim" -> Decimal(control.TrebleLim)
    [] name = "bass_amp" -> Decimal(control.BassAmp)
    [] name = "bass_lim" -> Decimal(control.BassLim)
    [] name = "SpartialProcessingLevel_Off" -> When(control.level = 0, Checked)
    [] name = "SpartialProcessingLevel_Minimal" -> When(control.level = 1, Checked)
    [] name = "SpartialProcessingLevel_Normal" -> When(control.level = 2, Checked)
    [] name = "SpartialProcessingLevel_Extreme" -> When(control.level = 3, Checked)
    [] name = "StreamSelected_0" -> Checked
    [] name = "StreamName_0" -> control.stream_name[1]
    [] name = "StreamName_1" -> control.stream_name[2]
    [] name = "StreamName_2" -> control.stream_name[3]
    [] OTHER -> <<>>

Unknown == <<210>>         \* "Unknown"
GotIp == 5                 \* STATION_GOT_IP
Octets(ip) == Decimal(ip[1]) \o <<46>> \o Decimal(ip[2]) \o <<46>> \o Decimal(ip[3])
              \o <<46>> \o Decimal(ip[4])

(* wifi: the mode and the state of the station as the SDK reports them.    *)
tplWlan(token, wifi) ==
  LET name == Named(WlanMacros, token) IN
  CASE name = "Wifi_Mode" -> IF wifi.opmode \in 1..3 THEN <<210 + wifi.opmode>> ELSE Unknown
    [] name = "Wifi_SSID" -> wifi.ssid
    [] name = "Wifi_STATUS" -> IF wifi.status \in 0..5 THEN <<220 + wifi.status>> ELSE Unknown
    [] name = "Wifi_IP" -> IF wifi.status = GotIp THEN Octets(wifi.ip) ELSE <<230>>
    [] name = "Wifi_MAC" -> wifi.mac
    [] OTHER -> Unknown
=============================================================================
