------------------------------ MODULE MCPages ------------------------------
(***************************************************************************)
(* Pages for TLC: small blocks, and template files made from parts that    *)
(* let macros, escapes and the end of the file fall on either side of the  *)
(* end of a block.                                                         *)
(***************************************************************************)
EXTENDS Pages

Macros == {<<37, 3, 37>>, <<37, 13, 37>>, <<37, 37>>, <<37, 5, 5, 5, 5, 37>>, <<37, 2>>}
Texts == {<<>>, <<97>>, <<97, 98, 97, 98, 97, 98>>}
IndexFiles == {t \o m \o u \o n : t \in Texts, m \in Macros, u \in Texts, n \in {<<>>, <<37, 3, 37>>}}

MCHostName == <<119, 46>>
Plain(n) == [i \in 1..n |-> IF ((i * i) \div 3) % 3 = 0 THEN 200 ELSE 17]
File(name, data) == [name |-> name, data |-> data]
Index(data) == File(<<105>>, data)
Ssid(n) == [i \in 1..n |-> 110]
WifiFile == File(<<119, SLASH, 105>>, <<97, 37, 2, 37, 37, 4, 37, 37, 1, 37, 37, 3, 37, 9>>)
MCArchives ==
  {<<File(<<120, 46, 4>>, Plain(5)), Index(d)>> : d \in IndexFiles}
  \cup {<<File(<<120, 46, 4>>, Plain(n)), WifiFile>> : n \in {0, 7, 8, 16, 21, 40}}
MCModes == {<<0, 1>>, <<1, 1>>, <<1, 8>>}

Control(name) ==
  [autoplay |-> 1, volume |-> 42, TrebleAmp |-> 7, TrebleLim |-> 1, BassAmp |-> 0, BassLim |-> 3,
   level |-> 2, stream_name |-> <<name, <<>>, <<>>>>]
Station(mode, status, ssid) ==
  [opmode |-> mode, ssid |-> ssid, status |-> status, ip |-> <<10, 0, 0, 7>>, mac |-> <<109>>]
MCSettings ==
  {[control |-> Control(Ssid(3)), wifi |-> Station(1, GotIp, Ssid(2))],
   [control |-> Control(Ssid(14)), wifi |-> Station(3, 1, Ssid(20))]}

Ask(url, chunked, host, fromAp, auth) ==
  [url |-> url, http11 |-> chunked, keep |-> TRUE, host |-> host, fromAp |-> fromAp, auth |-> auth]
MCRequests ==
  {Ask(url, chunked, MCHostName, FALSE, TRUE) :
     url \in {IndexHtml, WifiHtml, <<SLASH, 120, 46, 4>>}, chunked \in BOOLEAN}
  \cup {Ask(url, TRUE, MCHostName, FALSE, FALSE) :
     url \in {<<SLASH>>, Wifi, Wifi \o <<SLASH>>, WifiHtml, ConnectCgi, <<SLASH, 121>>}}
  \cup {Ask(<<SLASH>> \o url, TRUE, MCHostName, FALSE, FALSE) :
     url \in {<<SLASH>>, IndexHtml, WifiHtml, ConnectCgi}}
  \cup {Ask(ConnectCgi, TRUE, MCHostName, FALSE, TRUE)}
  \cup {Ask(url, TRUE, host, TRUE, FALSE) : url \in {IndexHtml, WifiHtml},
     host \in {MCHostName, <<120, 46>>, <<49, 57, 50, 46, 49, 54, 56, 46, 52, 46, 49>>}}
=============================================================================
