----------------------------- MODULE WifiProofs -----------------------------
(***************************************************************************)
(* The set-up pages of the WiFi interface (user/cgi.c).                    *)
(*                                                                         *)
(* WifiScan, for every number of browsers and every size of the table:     *)
(* types, one scan at a time, no line of an entry that does not exist, and *)
(* the answers.  The argument: the flag covers the scan the SDK owes,      *)
(* because the scan is started with the flag and every way the callback    *)
(* ends but one clears both; and as long as no allocation has failed the   *)
(* table is either missing, and empty, or full (TableIsFull).  A line is   *)
(* sent for a position between 1 and the size of the table only.           *)
(*                                                                         *)
(* WifiMode is the second part, with an argument of its own.               *)
(***************************************************************************)
EXTENDS WifiScan, WifiMode, SequenceTheorems, TLAPS

TableIsFull ==
  ~failed => \/ apData = NULL /\ noAps = 0
             \/ apData = Filled(noAps)

Inv == TypeOK /\ OneScan /\ TableIsFull
-----------------------------------------------------------------------------
LEMMA FilledType ==
  ASSUME NEW n \in Nat
  PROVE  Filled(n) \in Seq({Stored, Unset}) /\ Len(Filled(n)) = n
BY DEF Filled

LEMMA PartialType ==
  ASSUME NEW n \in Nat, NEW k \in Nat
  PROVE  Partial(n, k) \in Seq({Stored, Unset}) /\ Len(Partial(n, k)) = n
BY DEF Partial

LEMMA InitInv == Init => Inv
<1> SUFFICES ASSUME Init PROVE Inv
  OBVIOUS
<1>1. pos \in [Browsers -> 0..MaxAps + 1] /\ \A b \in Browsers : pos[b] = 0
  BY ScanAssumption DEF Init
<1>2. noAps \in 0..MaxAps BY ScanAssumption DEF Init
<1>3. scanInProgress \in BOOLEAN /\ scanning \in BOOLEAN /\ failed \in BOOLEAN
  BY DEF Init
<1>4. TypeOK BY <1>1, <1>2, <1>3 DEF Init, TypeOK
<1> QED BY <1>4 DEF Init, Inv, OneScan, TableIsFull

(* The callback replaces the table and clears the flag.                    *)
LEMMA DoneInv ==
  ASSUME Inv, wifiScanDoneCb PROVE Inv'
<1> USE ScanAssumption
<1>1. CASE ScanFails /\ UNCHANGED failed
  BY <1>1 DEF wifiScanDoneCb, ScanFails, Inv, TypeOK, OneScan, TableIsFull, Filled
<1>2. ASSUME NEW n \in 0..MaxAps, ScanFinds(n), UNCHANGED failed PROVE Inv'
  <2>1. Filled(n) \in Seq({Stored, Unset}) /\ Len(Filled(n)) = n BY FilledType
  <2> QED BY <1>2, <2>1
          DEF wifiScanDoneCb, ScanFinds, Inv, TypeOK, OneScan, TableIsFull, Filled
<1>3. CASE NoTable /\ failed' = TRUE
  BY <1>3 DEF wifiScanDoneCb, NoTable, Inv, TypeOK, OneScan, TableIsFull
<1>4. ASSUME NEW n \in 1..MaxAps, NEW k \in 1..n, NoEntry(n, k), failed' = TRUE PROVE Inv'
  <2>1. Partial(n, k) \in Seq({Stored, Unset}) /\ Len(Partial(n, k)) = n BY PartialType
  <2>2. scanning' = FALSE /\ UNCHANGED <<pos, body, opened, overtaken>>
    BY DEF wifiScanDoneCb
  <2>3. /\ scanInProgress' \in BOOLEAN /\ scanning' \in BOOLEAN /\ failed' \in BOOLEAN
        /\ apData' \in Seq({Stored, Unset}) /\ Len(apData') = noAps'
    BY <1>4, <2>1, <2>2 DEF NoEntry
  <2>4. noAps' \in 0..MaxAps BY <1>4 DEF NoEntry
  <2>5. TypeOK' BY <2>2, <2>3, <2>4 DEF Inv, TypeOK
  <2> QED BY <1>4, <2>2, <2>5 DEF Inv, OneScan, TableIsFull
<1> QED BY <1>1, <1>2, <1>3, <1>4 DEF wifiScanDoneCb

(* The calls for one browser move its position and may start a scan.       *)
LEMMA StartScanKeeps ==
  ASSUME Inv, wifiStartScan, opened' \subseteq Browsers
  PROVE  /\ scanInProgress' \in BOOLEAN /\ scanning' \in BOOLEAN /\ OneScan'
         /\ overtaken' \subseteq Browsers
BY DEF wifiStartScan, Inv, TypeOK, OneScan

LEMMA DoneKeeps ==
  ASSUME Inv, NEW b \in Browsers, Done(b)
  PROVE  /\ pos' \in [Browsers -> 0..MaxAps + 1] /\ opened' \subseteq Browsers
         /\ \A d \in Browsers : d \in opened' <=> pos'[d] # 0
BY ScanAssumption DEF Done, Inv, TypeOK

LEMMA MoreKeeps ==
  ASSUME Inv, NEW b \in Browsers, NEW p \in 1..MaxAps + 1, More(b, p)
  PROVE  /\ pos' \in [Browsers -> 0..MaxAps + 1] /\ opened' \subseteq Browsers
         /\ \A d \in Browsers : d \in opened' <=> pos'[d] # 0
BY ScanAssumption DEF More, Inv, TypeOK

LEMMA AskInv ==
  ASSUME Inv, NEW b \in Browsers, Ask(b) PROVE Inv'
<1> USE ScanAssumption
<1>1. CASE scanInProgress
  BY <1>1 DEF Ask, Inv, TypeOK, OneScan, TableIsFull
<1>2. CASE ~scanInProgress
  <2>1. More(b, 1) /\ UNCHANGED <<scanInProgress, apData, scanning, failed>>
        /\ overtaken' = overtaken \ {b} /\ noAps' = IF apData = NULL THEN 0 ELSE noAps
    BY <1>2 DEF Ask
  <2>2. /\ pos' \in [Browsers -> 0..MaxAps + 1] /\ opened' \subseteq Browsers
        /\ \A d \in Browsers : d \in opened' <=> pos'[d] # 0
    BY <2>1, MoreKeeps
  <2>3. TypeOK' BY <2>1, <2>2 DEF Inv, TypeOK
  <2>4. TableIsFull' BY <2>1 DEF Inv, TypeOK, TableIsFull, Filled
  <2> QED BY <2>1, <2>3, <2>4 DEF Inv, OneScan
<1> QED BY <1>1, <1>2

LEMMA HandlerInv ==
  ASSUME Inv, NEW b \in Browsers, cgiWiFiScan(b) \/ Disconnected(b) PROVE Inv'
<1> USE ScanAssumption
<1>1. UNCHANGED <<apData, failed, noAps>>
  BY DEF cgiWiFiScan, Interrupted, NextLine, Disconnected
<1>2. /\ pos' \in [Browsers -> 0..MaxAps + 1] /\ opened' \subseteq Browsers
      /\ \A d \in Browsers : d \in opened' <=> pos'[d] # 0
  <2>1. CASE Done(b) BY <2>1, DoneKeeps
  <2>2. CASE b \in opened /\ pos[b] < noAps /\ More(b, pos[b] + 1)
    <3>1. pos[b] + 1 \in 1..MaxAps + 1 BY <2>2 DEF Inv, TypeOK
    <3> QED BY <2>2, <3>1, MoreKeeps
  <2> QED BY <2>1, <2>2 DEF cgiWiFiScan, Interrupted, NextLine, Disconnected, Inv, TypeOK
<1>3. wifiStartScan \/ UNCHANGED <<scanInProgress, scanning, overtaken>>
  BY DEF cgiWiFiScan, Interrupted, NextLine, Disconnected
<1>4. /\ scanInProgress' \in BOOLEAN /\ scanning' \in BOOLEAN /\ OneScan'
      /\ overtaken' \subseteq Browsers
  BY <1>2, <1>3, StartScanKeeps DEF Inv, TypeOK, OneScan
<1>5. TypeOK' BY <1>1, <1>2, <1>4 DEF Inv, TypeOK
<1>6. TableIsFull' BY <1>1 DEF Inv, TableIsFull, Filled
<1> QED BY <1>4, <1>5, <1>6 DEF Inv

LEMMA NextInv == Inv /\ [Next]_vars => Inv'
<1> SUFFICES ASSUME Inv, [Next]_vars PROVE Inv'
  OBVIOUS
<1>1. CASE wifiScanDoneCb BY <1>1, DoneInv
<1>2. ASSUME NEW b \in Browsers, Ask(b) \/ cgiWiFiScan(b) \/ Disconnected(b) PROVE Inv'
  BY <1>2, AskInv, HandlerInv
<1>3. CASE UNCHANGED vars
  BY <1>3 DEF vars, Inv, TypeOK, OneScan, TableIsFull, Filled
<1> QED BY <1>1, <1>2, <1>3 DEF Next

(* Every reachable state satisfies the inductive invariant.                *)
THEOREM Invariance == Spec => []Inv
BY InitInv, NextInv, PTL DEF Spec

(* The table has as many entries as noAps says, and a browser has a        *)
(* position exactly while its request is open (cgiWiFiScan).               *)
THEOREM TypeCorrect == Spec => []TypeOK
<1>1. Inv => TypeOK BY DEF Inv
<1> QED BY <1>1, Invariance, PTL

(* The SDK is asked for one scan at a time, however many lists end at once *)
(* (wifiStartScan).                                                        *)
THEOREM OneScanAtATime == Spec => []OneScan
<1>1. Inv => OneScan BY DEF Inv
<1> QED BY <1>1, Invariance, PTL

(* No line is sent of an entry the scan has not stored, whatever replaces  *)
(* the table between two lines, as long as no allocation has failed        *)
(* (cgiWiFiScan, wifiScanDoneCb).                                          *)
THEOREM ListsExistingAps == Spec => []ListedApsExist
<1>1. Inv => ListedApsExist
  <2> SUFFICES ASSUME Inv, ~failed, NEW b \in Browsers, Listing(b)
               PROVE apData # NULL /\ pos[b] \in DOMAIN apData /\ apData[pos[b]] = Stored
    BY DEF ListedApsExist
  <2>1. pos[b] \in 1..noAps BY DEF Listing, Inv, TypeOK
  <2>2. apData = Filled(noAps) BY <2>1, ScanAssumption DEF Inv, TypeOK, TableIsFull
  <2>3. pos[b] \in DOMAIN apData /\ apData[pos[b]] = Stored BY <2>1, <2>2 DEF Filled
  <2>4. apData # NULL
    <3>1. 1 \in 1..noAps BY <2>1, ScanAssumption DEF Inv, TypeOK
    <3>2. apData[1] = Stored BY <2>2, <3>1 DEF Filled
    <3> QED BY <3>2 DEF NULL, Stored
  <2> QED BY <2>3, <2>4
<1> QED BY <1>1, Invariance, PTL
(* The flag covers the scan, and a list sends entries that exist only      *)
(* (wifiStartScan, wifiScanDoneCb, cgiWiFiScan).                           *)
THEOREM TableStaysSafe == Spec => []TableIsSafe
<1>1. OneScan /\ ListedApsExist => TableIsSafe BY DEF TableIsSafe
<1> QED BY <1>1, OneScanAtATime, ListsExistingAps, PTL
-----------------------------------------------------------------------------
(* The answers.  While a scan is in progress every open list counts as     *)
(* overtaken, so that the table a list has begun with is still there as    *)
(* long as the list is not overtaken (OvertakenByScan); Ask may set noAps  *)
(* for a table that is missing, but that is 0 already, unless the callback *)
(* found no memory for a table and left the flag set for ever              *)
(* (NoTableNoAps).                                                         *)
OvertakenByScan == scanInProgress => opened \subseteq overtaken
NoTableNoAps    == apData = NULL => noAps = 0 \/ (scanInProgress /\ ~scanning)

(* What a browser has of a list, and that the next line is one of it.      *)
Begun(b) ==
  /\ body[b] = <<"head", "list">> \o Lines(noAps, pos[b] - 1)
  /\ pos[b] <= noAps \/ pos[b] = 1
ListsAreBegun == \A b \in opened \ overtaken : Begun(b)

Piece == {"head", "busy", "list", "last", "line", "end"}

JsonInv ==
  /\ body \in [Browsers -> Seq(Piece)]
  /\ OvertakenByScan /\ NoTableNoAps /\ ListsAreBegun /\ AnswerIsJson

LEMMA InitJson == Init => JsonInv
BY DEF Init, JsonInv, OvertakenByScan, NoTableNoAps, ListsAreBegun, AnswerIsJson, WellFormed

(* A table with an entry is not the missing one.                           *)
LEMMA TableIsThere ==
  ASSUME NEW n \in Nat, NEW t \in [1..n -> {Stored, Unset}]
  PROVE  t # NULL
<1>1. CASE n = 1
  <2>1. t[1] \in {Stored, Unset} BY <1>1
  <2> QED BY <2>1 DEF NULL, Stored, Unset
<1>2. CASE n # 1
  <2>1. DOMAIN t = 1..n /\ DOMAIN NULL = 1..1 BY DEF NULL
  <2>2. 1..n # 1..1
    <3>1. n = 0 \/ n \in 1..n BY SMT
    <3>2. n \notin 1..1 BY <1>2
    <3>3. 1 \in 1..1 /\ 1 \notin 1..0 OBVIOUS
    <3> QED BY <3>1, <3>2, <3>3
  <2> QED BY <2>1, <2>2
<1> QED BY <1>1, <1>2

(* The table is replaced while the flag is set: no list is disturbed that  *)
(* is not overtaken.                                                       *)
LEMMA DoneJson ==
  ASSUME Inv, JsonInv, wifiScanDoneCb PROVE JsonInv'
<1>1. /\ scanInProgress /\ scanning /\ ~scanning'
      /\ UNCHANGED <<pos, body, opened, overtaken>>
  BY DEF wifiScanDoneCb, Inv, OneScan
<1>2. opened \ overtaken = {} BY <1>1 DEF JsonInv, OvertakenByScan
<1>3. OvertakenByScan' /\ ListsAreBegun' /\ AnswerIsJson'
  BY <1>1, <1>2 DEF JsonInv, OvertakenByScan, ListsAreBegun, AnswerIsJson
<1>4. NoTableNoAps'
  <2>1. CASE ScanFails
    <3>1. apData = NULL => noAps = 0 BY <1>1 DEF JsonInv, NoTableNoAps
    <3> QED BY <2>1, <3>1 DEF ScanFails, NoTableNoAps
  <2>2. ASSUME NEW n \in 0..MaxAps, ScanFinds(n) PROVE NoTableNoAps'
    <3>1. apData' = Filled(n) /\ Filled(n) \in [1..n -> {Stored, Unset}] /\ n \in Nat
      BY <2>2, ScanAssumption DEF ScanFinds, Filled
    <3> QED BY <3>1, TableIsThere DEF NoTableNoAps
  <2>3. CASE NoTable BY <1>1, <2>3 DEF NoTable, NoTableNoAps
  <2>4. ASSUME NEW n \in 1..MaxAps, NEW k \in 1..n, NoEntry(n, k) PROVE NoTableNoAps'
    <3>1. apData' = Partial(n, k) /\ Partial(n, k) \in [1..n -> {Stored, Unset}] /\ n \in Nat
      BY <2>4, ScanAssumption DEF NoEntry, Partial
    <3> QED BY <3>1, TableIsThere DEF NoTableNoAps
  <2> QED BY <2>1, <2>2, <2>3, <2>4 DEF wifiScanDoneCb
<1> QED BY <1>1, <1>3, <1>4 DEF JsonInv

(* The lines of a list are a sequence.                                     *)
LEMMA LinesType ==
  ASSUME NEW n \in Nat, NEW k \in Nat
  PROVE  /\ Lines(n, k) \in Seq(Piece) /\ Len(Lines(n, k)) = k
         /\ \A i \in 1..k : Lines(n, k)[i] = IF i = n THEN "last" ELSE "line"
<1>1. \A i \in 1..k : (IF i = n THEN "last" ELSE "line") \in Piece BY DEF Piece
<1>2. Lines(n, k) \in [1..k -> Piece] BY <1>1, Zenon DEF Lines
<1>3. Lines(n, k) \in Seq(Piece) /\ Len(Lines(n, k)) = k BY <1>2
<1>4. \A i \in 1..k : Lines(n, k)[i] = IF i = n THEN "last" ELSE "line"
  BY Zenon DEF Lines
<1> QED BY <1>3, <1>4

(* One more line.                                                          *)
LEMMA LineExtends ==
  ASSUME NEW n \in Nat, NEW p \in Nat, 1 <= p, p <= n
  PROVE  Lines(n, p - 1) \o <<IF p - 1 = n - 1 THEN "last" ELSE "line">> = Lines(n, p)
<1> DEFINE line == IF p - 1 = n - 1 THEN "last" ELSE "line"
           s == Lines(n, p - 1)
<1>1. s \in Seq(Piece) /\ Len(s) = p - 1
      /\ \A i \in 1..p - 1 : s[i] = IF i = n THEN "last" ELSE "line"
  BY LinesType
<1>2. Lines(n, p) \in Seq(Piece) /\ Len(Lines(n, p)) = p
      /\ \A i \in 1..p : Lines(n, p)[i] = IF i = n THEN "last" ELSE "line"
  BY LinesType
<1>3. line \in Piece /\ line = IF p = n THEN "last" ELSE "line" BY DEF Piece
<1> HIDE DEF s, line
<1>4. <<line>> \in Seq(Piece) /\ Len(<<line>>) = 1 /\ <<line>>[1] = line
  BY <1>3
<1>5. s \o <<line>> \in Seq(Piece) /\ Len(s \o <<line>>) = p
      /\ \A i \in 1..p : (s \o <<line>>)[i] = IF i <= p - 1 THEN s[i] ELSE line
  BY <1>1, <1>4
<1>6. ASSUME NEW i \in 1..p PROVE (s \o <<line>>)[i] = Lines(n, p)[i]
  <2>1. CASE i <= p - 1
    BY <1>1, <1>2, <1>5, <2>1
  <2>2. CASE ~(i <= p - 1)
    <3>1. i = p BY <2>2
    <3> QED BY <1>2, <1>3, <1>5, <3>1
  <2> QED BY <2>1, <2>2
<1>7. s \o <<line>> = Lines(n, p)
  BY <1>2, <1>5, <1>6, SeqEqual
<1> QED BY <1>7 DEF s, line

(* The list is complete with its last line.                                *)
LEMMA ListEnds ==
  ASSUME NEW n \in Nat, NEW p \in Nat, 1 <= p, p <= n \/ p = 1, n <= p,
         NEW line, line = IF p - 1 >= n THEN <<>>
                          ELSE IF p - 1 = n - 1 THEN <<"last">> ELSE <<"line">>
  PROVE  WellFormed((<<"head", "list">> \o Lines(n, p - 1)) \o (line \o <<"end">>))
<1> DEFINE begin == <<"head", "list">>
           end == <<"end">>
<1>1. begin \in Seq(Piece) /\ end \in Seq(Piece) /\ Len(begin) = 2 BY DEF Piece
<1>2. line \in Seq(Piece) /\ Lines(n, p - 1) \in Seq(Piece)
  <2>1. p - 1 \in Nat OBVIOUS
  <2>2. <<>> \in Seq(Piece) /\ <<"last">> \in Seq(Piece) /\ <<"line">> \in Seq(Piece)
    BY DEF Piece
  <2> QED BY <2>1, <2>2, LinesType
<1>3. Lines(n, n) \in Seq(Piece) /\ Len(Lines(n, n)) = n BY LinesType
<1>4. Lines(n, p - 1) \o line = Lines(n, n)
  <2>1. CASE p <= n
    <3>1. p = n /\ line = <<IF p - 1 = n - 1 THEN "last" ELSE "line">> BY <2>1
    <3> QED BY <3>1, LineExtends
  <2>2. CASE ~(p <= n)
    <3>1. n = 0 /\ p - 1 = 0 /\ line = <<>> BY <2>2
    <3>2. Lines(n, p - 1) \o line = Lines(n, p - 1) BY <1>2, <3>1
    <3> QED BY <3>1, <3>2
  <2> QED BY <2>1, <2>2
<1> HIDE DEF begin, end
<1>5. (begin \o Lines(n, p - 1)) \o (line \o end) = (begin \o Lines(n, n)) \o end
  <2> DEFINE begun == begin \o Lines(n, p - 1)
  <2>1. begun \in Seq(Piece) /\ begun \o line = begin \o (Lines(n, p - 1) \o line)
    <3> DEFINE Joined(r, t, v) == r \o t \in Seq(Piece) /\ (r \o t) \o v = r \o (t \o v)
    <3>1. \A r, t, v \in Seq(Piece) : Joined(r, t, v)
      <4>1. \A r, t \in Seq(Piece) : r \o t \in Seq(Piece) BY ConcatProperties
      <4>2. \A r, t, v \in Seq(Piece) : (r \o t) \o v = r \o (t \o v) BY ConcatAssociative
      <4> QED BY <4>1, <4>2, Zenon
    <3> HIDE DEF Joined
    <3>2. Joined(begin, Lines(n, p - 1), line) BY <1>1, <1>2, <3>1, Zenon
    <3> QED BY <3>2, Zenon DEF Joined
  <2> HIDE DEF begun
  <2>2. begun \o (line \o end) = (begun \o line) \o end
    <3>1. begun \in Seq(Piece) /\ line \in Seq(Piece) /\ end \in Seq(Piece)
      BY <1>1, <1>2, <2>1
    <3> DEFINE Regrouped(s, t, v) == s \o (t \o v) = (s \o t) \o v
    <3>2. \A s, t, v \in Seq(Piece) : Regrouped(s, t, v) BY ConcatAssociative
    <3> HIDE DEF end, Regrouped
    <3>3. Regrouped(begun, line, end) BY <3>1, <3>2, Zenon
    <3> QED BY <3>3, Zenon DEF Regrouped
  <2> QED BY <1>4, <2>1, <2>2 DEF begun
<1>6. n \in 0..Len((begin \o Lines(n, n)) \o end)
  <2> DEFINE list == begin \o Lines(n, n)
  <2>1. list \in Seq(Piece) /\ Len(list) = Len(begin) + Len(Lines(n, n))
    BY <1>1, <1>3, ConcatProperties
  <2> HIDE DEF list
  <2>2. Len(list \o end) = Len(list) + Len(end) /\ Len(end) \in Nat
    BY <1>1, <2>1, ConcatProperties, LenProperties
  <2> QED BY <1>1, <1>3, <2>1, <2>2 DEF list
<1> QED BY <1>5, <1>6 DEF WellFormed, begin, end

(* A call for one browser leaves the other lists alone.                    *)
LEMMA OthersAreBegun ==
  ASSUME Inv, JsonInv, NEW b \in Browsers,
         \A d \in Browsers \ {b} : pos'[d] = pos[d] /\ body'[d] = body[d]
                                  /\ (d \in opened' <=> d \in opened)
                                  /\ (d \in overtaken => d \in overtaken')
                                  /\ (d \in overtaken' => d \in overtaken \cup opened'),
         noAps' = noAps \/ opened \subseteq overtaken,
         b \in opened' \ overtaken' => Begun(b)',
         b \notin opened' \cup overtaken' => WellFormed(body'[b]),
         opened' \subseteq Browsers
  PROVE  ListsAreBegun' /\ AnswerIsJson'
<1>1. ASSUME NEW d \in opened' \ overtaken' PROVE Begun(d)'
  <2>1. CASE d # b
    <3>1. d \in Browsers /\ d \in opened \ overtaken BY <1>1, <2>1
    <3>2. Begun(d) BY <3>1 DEF JsonInv, ListsAreBegun
    <3> QED BY <2>1, <3>1, <3>2 DEF Begun
  <2> QED BY <1>1, <2>1
<1>2. ASSUME NEW d \in Browsers, d \notin opened' \cup overtaken' PROVE WellFormed(body'[d])
  <2>1. CASE d # b
    <3>1. d \notin opened \cup overtaken /\ body'[d] = body[d] BY <1>2, <2>1
    <3> QED BY <3>1 DEF JsonInv, AnswerIsJson
  <2> QED BY <1>2, <2>1
<1> QED BY <1>1, <1>2 DEF ListsAreBegun, AnswerIsJson

LEMMA AskJson ==
  ASSUME Inv, JsonInv, NEW b \in Browsers, Ask(b) PROVE JsonInv'
<1>1. /\ b \notin opened /\ overtaken' = overtaken \ {b}
      /\ UNCHANGED <<scanInProgress, apData, scanning, failed>>
      /\ pos \in [Browsers -> 0..MaxAps + 1] /\ body \in [Browsers -> Seq(Piece)]
      /\ opened \subseteq Browsers /\ noAps \in 0..MaxAps /\ MaxAps \in Nat
  BY ScanAssumption DEF Ask, Inv, TypeOK, JsonInv
<1>2. CASE scanInProgress
  <2>1. body' = [body EXCEPT ![b] = <<"head", "busy">>] /\ UNCHANGED <<noAps, pos, opened>>
    BY <1>2 DEF Ask, Begin
  <2>2. body' \in [Browsers -> Seq(Piece)]
    <3>1. <<"head", "busy">> \in Seq(Piece) BY DEF Piece
    <3> QED BY <1>1, <2>1, <3>1
  <2>3. WellFormed(body'[b]) BY <1>1, <2>1 DEF WellFormed
  <2>4. ListsAreBegun' /\ AnswerIsJson' BY <1>1, <2>1, <2>3, OthersAreBegun
  <2> QED BY <1>1, <2>1, <2>2, <2>4 DEF JsonInv, OvertakenByScan, NoTableNoAps
<1>3. CASE ~scanInProgress
  <2>1. /\ body' = [body EXCEPT ![b] = <<"head", "list">>]
        /\ pos' = [pos EXCEPT ![b] = 1] /\ opened' = opened \cup {b}
        /\ noAps' = IF apData = NULL THEN 0 ELSE noAps
    BY <1>3 DEF Ask, Begin, More
  <2>2. body' \in [Browsers -> Seq(Piece)] /\ body'[b] = <<"head", "list">>
    <3>1. <<"head", "list">> \in Seq(Piece) BY DEF Piece
    <3> QED BY <1>1, <2>1, <3>1
  <2>3. noAps' = noAps BY <1>3, <2>1 DEF JsonInv, NoTableNoAps
  <2>4. Begun(b)'
    <3>1. pos'[b] = 1 BY <1>1, <2>1
    <3>2. Lines(noAps', 1 - 1) \in Seq(Piece) /\ Len(Lines(noAps', 1 - 1)) = 0
      <4>1. noAps' \in Nat /\ 1 - 1 \in Nat /\ 1 - 1 = 0 BY <1>1, <2>3
      <4> QED BY <4>1, LinesType
    <3>3. Lines(noAps', 1 - 1) = <<>> BY <3>2, EmptySeq
    <3>4. <<"head", "list">> = <<"head", "list">> \o <<>> BY <2>2, <1>1
    <3> QED BY <2>2, <3>1, <3>3, <3>4 DEF Begun
  <2>5. ListsAreBegun' /\ AnswerIsJson' BY <1>1, <2>1, <2>3, <2>4, OthersAreBegun
  <2> QED BY <1>1, <1>3, <2>2, <2>3, <2>5 DEF JsonInv, OvertakenByScan, NoTableNoAps
<1> QED BY <1>2, <1>3

(* A list that ends starts a scan, which overtakes the lists still open.   *)
LEMMA StartScanJson ==
  ASSUME Inv, JsonInv, UNCHANGED <<apData, noAps>>, NEW b \in Browsers,
         \/ wifiStartScan /\ opened' = opened \ {b}
         \/ /\ UNCHANGED <<scanInProgress, scanning, overtaken>>
            /\ opened' = opened \ {b} \/ ~scanInProgress
  PROVE  /\ OvertakenByScan' /\ NoTableNoAps' /\ overtaken \subseteq overtaken'
         /\ overtaken' \subseteq overtaken \cup opened'
<1>1. CASE scanInProgress
  <2>1. UNCHANGED <<scanInProgress, scanning, overtaken>> /\ opened' = opened \ {b}
    BY <1>1 DEF wifiStartScan
  <2> QED BY <1>1, <2>1 DEF JsonInv, OvertakenByScan, NoTableNoAps
<1>2. CASE ~scanInProgress
  <2>1. apData' = NULL => noAps' = 0 BY <1>2 DEF JsonInv, NoTableNoAps
  <2> QED BY <1>2, <2>1 DEF wifiStartScan, OvertakenByScan, NoTableNoAps
<1> QED BY <1>1, <1>2

LEMMA HandlerJson ==
  ASSUME Inv, JsonInv, NEW b \in Browsers, cgiWiFiScan(b) \/ Disconnected(b) PROVE JsonInv'
<1>1. /\ b \in opened /\ UNCHANGED <<apData, noAps, failed>>
      /\ pos \in [Browsers -> 0..MaxAps + 1] /\ body \in [Browsers -> Seq(Piece)]
      /\ opened \subseteq Browsers /\ noAps \in 0..MaxAps /\ MaxAps \in Nat
      /\ pos[b] \in Nat /\ pos[b] # 0
  BY ScanAssumption DEF cgiWiFiScan, Interrupted, NextLine, Disconnected, Inv, TypeOK, JsonInv
<1> DEFINE p == pos[b]
<1>2. /\ noAps \in Nat /\ p \in Nat /\ 1 <= p
      /\ b \notin overtaken => p <= noAps \/ p = 1
  BY <1>1 DEF JsonInv, ListsAreBegun, Begun
<1>3. Line(p) \in Seq(Piece) /\ <<"end">> \in Seq(Piece)
      /\ Line(p) \o <<"end">> \in Seq(Piece)
  <2>1. /\ <<>> \in Seq(Piece) /\ <<"last">> \in Seq(Piece)
        /\ <<"line">> \in Seq(Piece) /\ <<"end">> \in Seq(Piece)
    BY DEF Piece
  <2>2. Line(p) \in Seq(Piece) BY <2>1 DEF Line
  <2> QED BY <2>1, <2>2, ConcatProperties
<1>4. CASE Interrupted(b)
  <2>1. /\ scanInProgress /\ body' = [body EXCEPT ![b] = @ \o <<"head", "busy">>]
        /\ pos' = [pos EXCEPT ![b] = 0] /\ opened' = opened \ {b}
        /\ UNCHANGED <<scanInProgress, scanning, overtaken>>
    BY <1>4 DEF Interrupted, Send, Done
  <2>2. body' \in [Browsers -> Seq(Piece)]
    <3>1. <<"head", "busy">> \in Seq(Piece) BY DEF Piece
    <3>2. body[b] \o <<"head", "busy">> \in Seq(Piece) BY <1>1, <3>1, ConcatProperties
    <3> QED BY <1>1, <2>1, <3>2
  <2>3. b \in overtaken BY <1>1, <2>1 DEF JsonInv, OvertakenByScan
  <2>4. OvertakenByScan' /\ NoTableNoAps' BY <1>1, <2>1, StartScanJson
  <2>5. ListsAreBegun' /\ AnswerIsJson' BY <1>1, <2>1, <2>3, OthersAreBegun
  <2> QED BY <2>2, <2>4, <2>5 DEF JsonInv
<1>5. CASE NextLine(b) /\ p >= noAps
  <2>1. /\ body' = [body EXCEPT ![b] = @ \o (Line(p) \o <<"end">>)]
        /\ pos' = [pos EXCEPT ![b] = 0] /\ opened' = opened \ {b} /\ wifiStartScan
    BY <1>5 DEF NextLine, Send, Done
  <2>2. body' \in [Browsers -> Seq(Piece)] /\ body'[b] = body[b] \o (Line(p) \o <<"end">>)
    <3>1. body[b] \o (Line(p) \o <<"end">>) \in Seq(Piece) BY <1>1, <1>3, ConcatProperties
    <3> QED BY <1>1, <2>1, <3>1
  <2>3. /\ OvertakenByScan' /\ NoTableNoAps' /\ overtaken \subseteq overtaken'
        /\ overtaken' \subseteq overtaken \cup opened'
    BY <1>1, <2>1, StartScanJson
  <2>4. ASSUME b \notin overtaken PROVE WellFormed(body'[b])
    <3>1. body[b] = <<"head", "list">> \o Lines(noAps, p - 1)
      BY <1>1, <2>4 DEF JsonInv, ListsAreBegun, Begun
    <3>2. WellFormed((<<"head", "list">> \o Lines(noAps, p - 1)) \o (Line(p) \o <<"end">>))
      <4>1. p <= noAps \/ p = 1 BY <1>2, <2>4
      <4>2. noAps <= p BY <1>2, <1>5
      <4> HIDE DEF p
      <4> QED BY <1>2, <4>1, <4>2, ListEnds DEF Line
    <3> QED BY <2>2, <3>1, <3>2
  <2>5. ListsAreBegun' /\ AnswerIsJson' BY <1>1, <2>1, <2>3, <2>4, OthersAreBegun
  <2> QED BY <2>2, <2>3, <2>5 DEF JsonInv
<1>6. CASE NextLine(b) /\ ~(p >= noAps)
  <2>1. /\ body' = [body EXCEPT ![b] = @ \o Line(p)] /\ pos' = [pos EXCEPT ![b] = p + 1]
        /\ opened' = opened \cup {b} /\ ~scanInProgress
        /\ UNCHANGED <<scanInProgress, scanning, overtaken>>
    BY <1>6 DEF NextLine, Send, More
  <2>2. /\ body' \in [Browsers -> Seq(Piece)] /\ body'[b] = body[b] \o Line(p)
        /\ pos'[b] = p + 1 /\ p + 1 <= noAps
    <3>1. body[b] \o Line(p) \in Seq(Piece) BY <1>1, <1>3, ConcatProperties
    <3> QED BY <1>1, <1>2, <1>6, <2>1, <3>1
  <2>3. OvertakenByScan' /\ NoTableNoAps' BY <1>1, <2>1, StartScanJson
  <2>4. ASSUME b \notin overtaken PROVE Begun(b)'
    <3>1. body[b] = <<"head", "list">> \o Lines(noAps, p - 1)
      BY <1>1, <2>4 DEF JsonInv, ListsAreBegun, Begun
    <3>2. Line(p) = <<IF p - 1 = noAps - 1 THEN "last" ELSE "line">>
      BY <1>2, <1>6 DEF Line
    <3>3. Lines(noAps, p - 1) \o Line(p) = Lines(noAps, p)
      <4>1. p <= noAps BY <1>2, <1>6
      <4> HIDE DEF p
      <4> QED BY <1>2, <3>2, <4>1, LineExtends
    <3>4. (<<"head", "list">> \o Lines(noAps, p - 1)) \o Line(p)
            = <<"head", "list">> \o Lines(noAps, p)
      <4>1. <<"head", "list">> \in Seq(Piece) BY DEF Piece
      <4>2. Lines(noAps, p - 1) \in Seq(Piece)
        <5>1. p - 1 \in Nat BY <1>2
        <5> QED BY <1>2, <5>1, LinesType
      <4>3. \A s, t, v \in Seq(Piece) : (s \o t) \o v = s \o (t \o v)
        BY ConcatAssociative
      <4> QED BY <1>3, <3>3, <4>1, <4>2, <4>3
    <3>5. pos'[b] - 1 = p /\ noAps' = noAps BY <1>1, <1>2, <2>2
    <3> QED BY <2>2, <3>1, <3>4, <3>5 DEF Begun
  <2>5. ListsAreBegun' /\ AnswerIsJson' BY <1>1, <2>1, <2>4, OthersAreBegun
  <2> QED BY <2>2, <2>3, <2>5 DEF JsonInv
<1>7. CASE Disconnected(b)
  <2>1. /\ body' = [body EXCEPT ![b] = <<>>]
        /\ pos' = [pos EXCEPT ![b] = 0] /\ opened' = opened \ {b}
        /\ wifiStartScan \/ UNCHANGED <<scanInProgress, scanning, overtaken>>
    BY <1>7 DEF Disconnected, Begin, Done
  <2>2. body' \in [Browsers -> Seq(Piece)] /\ WellFormed(body'[b])
    BY <1>1, <2>1 DEF WellFormed
  <2>3. /\ OvertakenByScan' /\ NoTableNoAps' /\ overtaken \subseteq overtaken'
        /\ overtaken' \subseteq overtaken \cup opened'
    BY <1>1, <2>1, StartScanJson
  <2>4. ListsAreBegun' /\ AnswerIsJson' BY <1>1, <2>1, <2>2, <2>3, OthersAreBegun
  <2> QED BY <2>2, <2>3, <2>4 DEF JsonInv
<1> QED BY <1>4, <1>5, <1>6, <1>7 DEF cgiWiFiScan

LEMMA NextJson == Inv /\ JsonInv /\ [Next]_vars => JsonInv'
<1> SUFFICES ASSUME Inv, JsonInv, [Next]_vars PROVE JsonInv'
  OBVIOUS
<1>1. CASE wifiScanDoneCb BY <1>1, DoneJson
<1>2. ASSUME NEW b \in Browsers, Ask(b) \/ cgiWiFiScan(b) \/ Disconnected(b) PROVE JsonInv'
  BY <1>2, AskJson, HandlerJson
<1>3. CASE UNCHANGED vars
  BY <1>3 DEF vars, JsonInv, OvertakenByScan, NoTableNoAps, ListsAreBegun, Begun, AnswerIsJson
<1> QED BY <1>1, <1>2, <1>3 DEF Next

(* A finished answer has one header and commas exactly between its lines,  *)
(* unless the scan of another browser overtook it: the table a list has    *)
(* begun with stays until its last line (cgiWiFiScan, wifiScanDoneCb).     *)
THEOREM AnswersAreJson == Spec => []AnswerIsJson
<1>1. JsonInv => AnswerIsJson BY DEF JsonInv
<1> QED BY <1>1, Invariance, InitJson, NextJson, PTL DEF Spec

-----------------------------------------------------------------------------
(* WifiMode, for every set of networks, every other name and every limit   *)
(* of the disconnect counter: types, and what justifies the mode.          *)
(*                                                                         *)
(* The argument: client mode is entered by set_ap and the scan timer after *)
(* a look at the configuration, and by resetTimerCb with an IP.  It is a   *)
(* network in reach that gives an IP, and whoever replaces the             *)
(* configuration takes the link down (LinkIsToNetwork), so that the IP     *)
(* stands for a configured network however long ago the timer was armed.   *)

LinkIsToNetwork == link # "down" => config \in Networks

ModeInv == ModeTypeOK /\ ScanModeEnds /\ LinkIsToNetwork
-----------------------------------------------------------------------------
LEMMA InitMode == ModeInit => ModeInv
BY ModeAssumption DEF ModeInit, ModeInv, ModeTypeOK, Ssid, ScanModeEnds, LinkIsToNetwork

(* The counter stays below the limit: it returns to 0 when it gets there.  *)
LEMMA CounterKeeps ==
  ASSUME u8DisconnectCounter \in 0..LIMIT - 1
  PROVE  /\ 0 \in 0..LIMIT - 1
         /\ ~(u8DisconnectCounter + 1 >= LIMIT)
              => u8DisconnectCounter + 1 \in 0..LIMIT - 1
BY ModeAssumption

LEMMA NextMode == ModeInv /\ [ModeNext]_modeVars => ModeInv'
<1> SUFFICES ASSUME ModeInv, [ModeNext]_modeVars PROVE ModeInv'
  OBVIOUS
<1> USE ModeAssumption
    DEF ModeInv, ModeTypeOK, Ssid, ScanModeEnds, LinkIsToNetwork, SetOpmode, Station
<1>0. CASE UNCHANGED modeVars BY <1>0 DEF modeVars
<1>1. CASE StamodeConnected BY <1>1, CounterKeeps DEF StamodeConnected
<1>2. CASE StamodeGotIp BY <1>2 DEF StamodeGotIp
<1>3. CASE StamodeDisconnected BY <1>3, CounterKeeps DEF StamodeDisconnected
<1>4. CASE wifiStartScanMode BY <1>4 DEF wifiStartScanMode
<1>5. CASE ScanTimoutTimerCb BY <1>5 DEF ScanTimoutTimerCb
<1>6. CASE reassTimerCb BY <1>6 DEF reassTimerCb
<1>7. CASE resetTimerCb BY <1>7 DEF resetTimerCb
<1>8. CASE cgiWiFiConnStatus BY <1>8 DEF cgiWiFiConnStatus
<1>9. ASSUME NEW n \in Ssid, cgiWiFiConnect(n) PROVE ModeInv'
  BY <1>9 DEF cgiWiFiConnect
<1> QED BY <1>0, <1>1, <1>2, <1>3, <1>4, <1>5, <1>6, <1>7, <1>8, <1>9
        DEF ModeNext, Event, Timer, Page

(* Every reachable state satisfies the inductive invariant.                *)
THEOREM ModeInvariance == ModeSpec => []ModeInv
BY InitMode, NextMode, PTL DEF ModeSpec

(* The disconnect counter never reaches its limit, whatever sets the mode  *)
(* in between (wifi_event_handler_cb and the timers of cgi.c).             *)
THEOREM ModeTypeCorrect == ModeSpec => []ModeTypeOK
<1>1. ModeInv => ModeTypeOK BY DEF ModeInv
<1> QED BY <1>1, ModeInvariance, PTL

(* Both interfaces are on only while the timer that ends the scan is armed *)
(* (wifiStartScanMode, ScanTimoutTimerCb, resetTimerCb).                       *)
THEOREM ScanModeIsTimed == ModeSpec => []ScanModeEnds
<1>1. ModeInv => ScanModeEnds BY DEF ModeInv
<1> QED BY <1>1, ModeInvariance, PTL

(* The step behind ClientHasNetwork, action by action: events and pages    *)
(* leave the configuration alone, the timers that set client mode have a   *)
(* network, and reassTimerCb stores the name of the try as it is.          *)
LEMMA ClientStep ==
  ASSUME ModeInv, ModeNext, opmode' = "STATION_MODE", config' = NoNetwork
  PROVE  /\ opmode = "STATION_MODE"
         /\ config = NoNetwork \/ (stconf = NoNetwork /\ reassTimerCb)
<1>1. CASE Event
  BY <1>1 DEF Event, StamodeConnected, StamodeGotIp, StamodeDisconnected, SetOpmode
<1>2. CASE Page
  BY <1>2 DEF Page, wifiStartScanMode, cgiWiFiConnStatus, cgiWiFiConnect, SetOpmode
<1>3. CASE ScanTimoutTimerCb
  BY <1>3 DEF ScanTimoutTimerCb, SetOpmode
<1>4. CASE reassTimerCb
  BY <1>4 DEF reassTimerCb, Station
<1>5. CASE resetTimerCb
  <2>1. link # "ip"
    BY <1>5, ModeAssumption DEF resetTimerCb, ModeInv, LinkIsToNetwork
  <2> QED BY <1>5, <2>1 DEF resetTimerCb
<1> QED BY <1>1, <1>2, <1>3, <1>4, <1>5 DEF ModeNext, Timer

(* Whichever of the timers, pages and events sets the mode, the radio does *)
(* not become a client only without a network to join, and as a client     *)
(* only it loses its network to a try with a blank name and to nothing     *)
(* else (set_ap, ScanTimoutTimerCb, resetTimerCb, reassTimerCb).           *)
THEOREM ClientJoins == ModeSpec => ClientHasNetwork
<1> DEFINE Kept == opmode' = "STATION_MODE" /\ config' = NoNetwork =>
                     /\ opmode = "STATION_MODE"
                     /\ config = NoNetwork \/ (stconf = NoNetwork /\ reassTimerCb)
<1>1. ModeInv /\ [ModeNext]_modeVars => [Kept]_modeVars BY ClientStep
<1> QED BY <1>1, ModeInvariance, PTL DEF ModeSpec, ClientHasNetwork

(* The radio is both client and access point only for a timed scan, and    *)
(* becomes a client only with a network to join (cgi.c, user_main.c).      *)
THEOREM ModeStaysJustified == ModeSpec => ModeIsJustified
BY ScanModeIsTimed, ClientJoins, PTL DEF ModeIsJustified
=============================================================================
