-------------------------- MODULE WebSocketProofs --------------------------
(***************************************************************************)
(* Proofs about WebSocket: the types, and the list of sockets.  The calls  *)
(* of a socket change its own record only, and of the parser only what     *)
(* Untouched does not name, so that the list follows from cgiWebsocket,    *)
(* which puts a socket in, and websockFree, which takes it out.            *)
(***************************************************************************)
EXTENDS WebSocketInvariant, SequenceTheorems, WellFoundedInduction, TLAPS

(* What holds of 0, and of n + 1 whenever it holds of n, holds of every    *)
(* natural number.                                                         *)
LEMMA NatSetInduction ==
  ASSUME NEW S, 0 \in S, \A n \in Nat : n \in S => n + 1 \in S
  PROVE  Nat \subseteq S
<1> DEFINE R == OpToRel(<, Nat)
           T == Nat \ S
<1>1. ASSUME NEW x \in Nat, NEW y \in Nat, y < x PROVE <<y, x>> \in R
  BY <1>1 DEF OpToRel
<1>2. IsWellFoundedOn(R, Nat) BY NatLessThanWellFounded
<1> HIDE DEF R
<1>3. ASSUME T # {} PROVE FALSE
  <2>1. PICK x \in T : \A y \in T : ~(<<y, x>> \in R)
    BY <1>2, <1>3, WFMin
  <2>2. x \in Nat /\ x # 0 BY <2>1
  <2>3. x - 1 \in Nat /\ x - 1 < x /\ (x - 1) + 1 = x BY <2>2
  <2>4. x - 1 \notin T BY <1>1, <2>1, <2>2, <2>3
  <2>5. x \in S BY <2>3, <2>4
  <2> QED BY <2>1, <2>5
<1> QED BY <1>3
-----------------------------------------------------------------------------
(* Types.  What a call of a socket leaves as it was.                       *)
Untouched(s, t) ==
  /\ t.phase = s.phase /\ t.ws = s.ws /\ t.recvHdl = s.recvHdl /\ t.done = s.done
  /\ t.said = s.said /\ t.up = s.up /\ t.torn = s.torn
SameParser(s, t) ==
  /\ t.wsStatus = s.wsStatus /\ t.flags = s.flags /\ t.len8 = s.len8 /\ t.len = s.len
  /\ t.mask = s.mask /\ t.maskCtr = s.maskCtr /\ t.frameCont = s.frameCont
  /\ t.closedHere = s.closedHere
Sends(s, t) == t \in SocketType /\ Untouched(s, t) /\ SameParser(s, t)

LEMMA Thresholds ==
  LEN7 \in 3..126 /\ LEN16 \in LEN7..65535 /\ Echo \subseteq Clients /\ NULL \notin Clients
BY WebSocketAssumption, SMT

LEMMA SendsTwice == \A s, t, u : Sends(s, t) /\ Sends(t, u) => Sends(s, u)
BY DEF Sends, Untouched, SameParser

LEMMA DivBytes ==
  ASSUME NEW n \in Nat
  PROVE  /\ n % 256 \in Byte /\ (n \div 256) % 256 \in Byte
         /\ (n \div 65536) % 256 \in Byte /\ (n \div 16777216) % 256 \in Byte
<1>1. ASSUME NEW m \in Nat PROVE m % 256 \in Byte BY DEF Byte
<1>2. n \div 256 \in Nat /\ n \div 65536 \in Nat /\ n \div 16777216 \in Nat OBVIOUS
<1> QED BY <1>1, <1>2

LEMMA ByteIsNat ==
  ASSUME NEW b \in ByteSeq
  PROVE  Len(b) \in Nat /\ \A i \in 1..Len(b) : b[i] \in Byte /\ b[i] \in Nat
<1>1. Len(b) \in Nat /\ \A i \in 1..Len(b) : b[i] \in Byte BY DEF ByteSeq
<1>2. Byte \subseteq Nat BY DEF Byte
<1> QED BY <1>1, <1>2

LEMMA FunctionIsBytes == \A n \in Nat : [1..n -> Byte] \subseteq ByteSeq
BY DEF ByteSeq

LEMMA ByteConcat ==
  ASSUME NEW a \in ByteSeq, NEW b \in ByteSeq
  PROVE  /\ a \o b \in ByteSeq /\ Len(a \o b) = Len(a) + Len(b)
         /\ \A i \in 1..Len(a) : (a \o b)[i] = a[i]
         /\ \A i \in 1..Len(b) : (a \o b)[Len(a) + i] = b[i]
BY DEF ByteSeq

LEMMA LengthBytes ==
  ASSUME NEW n \in Nat
  PROVE  /\ Two(n) \in ByteSeq /\ Four(n) \in ByteSeq
         /\ Len(Two(n)) = 2 /\ Len(Four(n)) = 4
<1>1. Two(n) \in ByteSeq /\ Len(Two(n)) = 2 BY DivBytes DEF Two, ByteSeq, Byte
<1>2. PICK a \in Byte : a = (n \div 16777216) % 256 BY DivBytes, SMT
<1>3. PICK b \in Byte : b = (n \div 65536) % 256 BY DivBytes, SMT
<1>4. Four(n) = <<a, b>> \o Two(n) BY <1>2, <1>3, SMT DEF Four
<1>5. PICK t \in ByteSeq : t = Two(n) /\ Len(t) = 2 BY <1>1
<1>6. PICK u : u = <<a, b>> OBVIOUS
<1>7. u \in ByteSeq /\ Len(u) = 2 BY <1>6 DEF ByteSeq
<1>8. u \o t \in ByteSeq /\ Len(u \o t) = Len(u) + Len(t) BY <1>7, ByteConcat, Zenon
<1>9. Four(n) = u \o t BY <1>4, <1>5, <1>6, Zenon
<1>10. Four(n) \in ByteSeq /\ Len(Four(n)) = Len(u) + Len(t) BY <1>8, <1>9, Zenon
<1> QED BY <1>1, <1>5, <1>7, <1>10

LEMMA Piece ==
  ASSUME NEW S, NEW b \in Seq(S), NEW i \in Nat \ {0}, NEW j \in 0..Len(b)
  PROVE  SubSeq(b, i, j) \in Seq(S)
OBVIOUS

LEMMA OwnType ==
  ASSUME NEW S, NEW p \in Seq(S)
  PROVE  Own(p) \in Seq(S)
<1>1. p # <<>> => Tail(p) \in Seq(S) OBVIOUS
<1> QED BY <1>1 DEF Own

LEMMA TakeFrameType ==
  ASSUME NEW s \in SocketType, IsWhole(s.rest)
  PROVE  Sends(s, TakeFrame(s))
<1> DEFINE b == s.rest
           h == HeadSize(b)
           n == PayloadSize(b)
           p == SubSeq(b, h + 1, h + n)
           r == SubSeq(b, h + n + 1, Len(b))
           x == IF b[1] % 16 \in DataOps THEN s.text \o Own(p) ELSE s.text
           y == IF b[1] % 16 = OPCODE_PONG THEN Append(s.pongs, p) ELSE s.pongs
<1>1. b \in ByteSeq /\ s.text \in ByteSeq /\ s.pongs \in ByteSeqs BY Zenon DEF SocketType
<1>2. h \in {2, 4, 10} BY DEF HeadSize
<1>3. n \in Nat /\ h + n <= Len(b)
  <2>1. Len(b) >= 2 /\ Len(b) >= h /\ Len(b) >= h + n BY DEF IsWhole
  <2>0. \A i \in 1..Len(b) : b[i] \in Nat BY <1>1, ByteIsNat, Zenon
  <2>11. Len(b) \in Nat BY <1>1 DEF ByteSeq
  <2>2. CASE h = 2
    <3>1. n = b[2] BY <2>2 DEF PayloadSize
    <3> HIDE DEF b, h, n
    <3>2. b[2] \in Nat BY <2>0, <2>1, <2>2, <2>11
    <3> QED BY <2>1, <3>1, <3>2
  <2>3. CASE h = 4
    <3>1. n = b[3] * 256 + b[4] BY <2>3 DEF PayloadSize
    <3> HIDE DEF b, h, n
    <3>2. b[3] \in Nat /\ b[4] \in Nat BY <2>0, <2>1, <2>3, <2>11
    <3> QED BY <2>1, <3>1, <3>2
  <2>4. CASE h = 10
    <3>1. n = b[7] * 16777216 + b[8] * 65536 + b[9] * 256 + b[10] BY <2>4 DEF PayloadSize
    <3> HIDE DEF b, h, n
    <3>2. b[7] \in Nat /\ b[8] \in Nat /\ b[9] \in Nat /\ b[10] \in Nat
      BY <2>0, <2>1, <2>4, <2>11
    <3>3. \A w, x1, y1, z \in Nat : w * 16777216 + x1 * 65536 + y1 * 256 + z \in Nat OBVIOUS
    <3>4. n \in Nat BY <3>1, <3>2, <3>3
    <3> QED BY <2>1, <3>4
  <2> QED BY <1>2, <2>2, <2>3, <2>4
<1> HIDE DEF b, h, n
<1>4. p \in ByteSeq /\ r \in ByteSeq
  <2>1. /\ h + 1 \in Nat \ {0} /\ h + n \in 0..Len(b) /\ h + n + 1 \in Nat \ {0}
        /\ Len(b) \in 0..Len(b)
    BY <1>1, <1>2, <1>3 DEF ByteSeq
  <2> QED BY <1>1, <2>1, Piece DEF ByteSeq
<1>5. Own(p) \in ByteSeq
  <2> HIDE DEF p
  <2> QED BY <1>4, OwnType DEF ByteSeq
<1>6. x \in ByteSeq /\ y \in ByteSeqs
  <2>1. s.text \o Own(p) \in ByteSeq BY <1>1, <1>5 DEF ByteSeq
  <2>2. Append(s.pongs, p) \in ByteSeqs
    <3> HIDE DEF p
    <3> QED BY <1>1, <1>4 DEF ByteSeqs
  <2> QED BY <1>1, <2>1, <2>2
<1>7. TakeFrame(s) = [s EXCEPT !.rest = r, !.text = x, !.pongs = y]
  BY DEF TakeFrame, h, n, b
<1> HIDE DEF p, r, x, y
<1>8. TakeFrame(s) \in SocketType
  <2>1. [s EXCEPT !.rest = r, !.text = x, !.pongs = y] \in SocketType
    BY <1>4, <1>6, Zenon DEF SocketType
  <2> QED BY <1>7, <2>1
<1> QED BY <1>7, <1>8 DEF Sends, Untouched, SameParser, SocketType

LEMMA SendType ==
  ASSUME NEW s \in SocketType, NEW bytes \in ByteSeq
  PROVE  Sends(s, httpdSend(s, bytes))
<1> DEFINE t == [s EXCEPT !.busy = TRUE, !.rest = s.rest \o bytes]
           u == [s EXCEPT !.busy = TRUE]
<1>1. s.rest \o bytes \in ByteSeq
  <2>1. s.rest \in ByteSeq BY Zenon DEF SocketType
  <2> QED BY <2>1, ByteConcat, Zenon
<1>2. t \in SocketType /\ u \in SocketType BY <1>1, Zenon DEF SocketType
<1>3. Untouched(s, t) /\ SameParser(s, t) /\ Untouched(s, u) /\ SameParser(s, u)
  BY DEF Untouched, SameParser, SocketType
<1>4. httpdSend(s, bytes) = IF s.torn THEN u ELSE BrowserReads(t) BY DEF httpdSend
<1>5. Sends(s, t) /\ Sends(s, u) BY <1>2, <1>3, Zenon DEF Sends
<1> HIDE DEF t, u
<1>6. Sends(s, BrowserReads(t))
  <2>1. CASE IsWhole(t.rest)
    <3>1. Sends(t, TakeFrame(t)) BY <1>2, <2>1, TakeFrameType, Zenon
    <3>2. BrowserReads(t) = TakeFrame(t) BY <2>1, Zenon DEF BrowserReads
    <3> QED BY <1>5, <3>1, <3>2, SendsTwice, Zenon
  <2>2. CASE ~IsWhole(t.rest) BY <1>5, <2>2, Zenon DEF BrowserReads
  <2> QED BY <2>1, <2>2
<1> QED BY <1>4, <1>5, <1>6, Zenon

(* The head of a frame of len bytes that the server sends.                 *)
HeadOf(flags, len) ==
  <<flags>> \o (IF len > LEN16 THEN <<LEN7 + 1, 0, 0, 0, 0>> \o Four(len)
                ELSE IF len >= LEN7 THEN <<LEN7>> \o Two(len) ELSE <<len>>)

LEMMA HeadOfType ==
  ASSUME NEW flags \in Byte, NEW len \in Nat
  PROVE  HeadOf(flags, len) \in ByteSeq
<1>1. LEN7 \in Byte /\ LEN7 + 1 \in Byte /\ 0 \in Byte /\ LEN7 \in Nat /\ LEN16 \in Nat
  BY Thresholds, SMT DEF Byte
<1>2. <<flags>> \in ByteSeq /\ <<LEN7>> \in ByteSeq /\ <<LEN7 + 1, 0, 0, 0, 0>> \in ByteSeq
  BY <1>1 DEF ByteSeq
<1>3. Two(len) \in ByteSeq /\ Four(len) \in ByteSeq BY LengthBytes
<1>4. len < LEN7 => <<len>> \in ByteSeq
  <2>1. len < LEN7 => len \in Byte BY Thresholds, SMT DEF Byte
  <2> QED BY <2>1 DEF ByteSeq
<1>5. len >= LEN7 \/ len < LEN7 BY <1>1
<1> QED BY <1>2, <1>3, <1>4, <1>5, ByteConcat, Zenon DEF HeadOf

LEMMA SendHeadType ==
  ASSUME NEW s \in SocketType, NEW flags \in Byte, NEW len \in Nat
  PROVE  Sends(s, sendFrameHead(s, flags, len))
<1>1. sendFrameHead(s, flags, len) = httpdSend(s, HeadOf(flags, len))
  BY Zenon DEF sendFrameHead, HeadOf
<1> QED BY <1>1, SendType, HeadOfType, Zenon

LEMMA FlagsType ==
  ASSUME NEW op \in 0..15, NEW fin \in BOOLEAN
  PROVE  Flags(op, fin) \in Byte
BY DEF Flags, FLAG_FIN, Byte

LEMMA WebsocketSendType ==
  ASSUME NEW s \in SocketType, NEW data \in ByteSeq, NEW flags
  PROVE  Sends(s, cgiWebsocketSend(s, data, flags))
<1> DEFINE t == sendFrameHead(s, Flags(SendOp(flags), "CONT" \notin flags), Len(data))
<1>1. Flags(SendOp(flags), "CONT" \notin flags) \in Byte
  <2>1. SendOp(flags) \in 0..15 BY DEF SendOp, OPCODE_TEXT, OPCODE_BINARY
  <2>2. ("CONT" \notin flags) \in BOOLEAN OBVIOUS
  <2> QED BY <2>1, <2>2, FlagsType, Zenon
<1>2. Sends(s, t)
  <2>1. Len(data) \in Nat BY ByteIsNat
  <2> QED BY <1>1, <2>1, SendHeadType, Zenon
<1>3. cgiWebsocketSend(s, data, flags) = IF data = <<>> THEN t ELSE httpdSend(t, data)
  BY Zenon DEF cgiWebsocketSend
<1> HIDE DEF t
<1>4. Sends(t, httpdSend(t, data))
  <2>1. t \in SocketType BY <1>2, Zenon DEF Sends
  <2> QED BY <2>1, SendType, Zenon
<1> QED BY <1>2, <1>3, <1>4, SendsTwice, Zenon

LEMMA WebsocketCloseType ==
  ASSUME NEW s \in SocketType, NEW reason \in ByteSeq
  PROVE  LET t == cgiWebsocketClose(s, reason) IN t \in SocketType /\ Untouched(s, t)
<1> DEFINE h == sendFrameHead(s, Flags(OPCODE_CLOSE, TRUE), 2)
           u == httpdSend(h, reason)
           t == [u EXCEPT !.closedHere = TRUE]
<1>1. Flags(OPCODE_CLOSE, TRUE) \in Byte /\ 2 \in Nat
  BY DEF Flags, FLAG_FIN, OPCODE_CLOSE, Byte
<1>2. Sends(s, h) BY <1>1, SendHeadType
<1>3. h \in SocketType BY <1>2, Zenon DEF Sends
<1>4. Sends(h, u)
  <2> HIDE DEF h
  <2> QED BY <1>3, SendType, Zenon
<1> HIDE DEF h, u
<1>5. Sends(s, u) BY <1>2, <1>4, SendsTwice, Zenon
<1>6. u \in SocketType /\ Untouched(s, u) BY <1>5, Zenon DEF Sends
<1>7. t \in SocketType BY <1>6, Zenon DEF SocketType
<1>8. Untouched(s, t) BY <1>6 DEF Untouched, SocketType
<1>9. cgiWebsocketClose(s, reason) = t BY Zenon DEF cgiWebsocketClose, u, h
<1> HIDE DEF t
<1> QED BY <1>7, <1>8, <1>9, Zenon

LEMMA RecvCbType ==
  ASSUME NEW c, NEW s \in SocketType, NEW data \in ByteSeq, NEW flags
  PROVE  Sends(s, recvCb(c, s, data, flags))
<1>1. YouSent \o data \in ByteSeq
  <2>1. YouSent \in ByteSeq BY DEF YouSent, ByteSeq, Byte
  <2> QED BY <2>1, ByteConcat, Zenon
<1> QED BY <1>1, WebsocketSendType, Zenon DEF recvCb

(* The header of a frame, byte by byte, is the parser's own matter.        *)
SameAnswers(s, t) ==
  /\ Untouched(s, t) /\ t.busy = s.busy /\ t.closedHere = s.closedHere
  /\ t.rest = s.rest /\ t.text = s.text /\ t.pongs = s.pongs

LEMMA LengthDoneType ==
  ASSUME NEW s \in SocketType
  PROVE  LengthDone(s) \in SocketType /\ SameAnswers(s, LengthDone(s))
<1> DEFINE x == IF s.len8 >= IS_MASKED THEN ST_MASK1 ELSE ST_PAYLOAD
<1>1. x \in ST_FLAGS..ST_PAYLOAD BY DEF ST_FLAGS, ST_PAYLOAD, ST_MASK1
<1>2. LengthDone(s) = [s EXCEPT !.wsStatus = x] BY Zenon DEF LengthDone
<1> HIDE DEF x
<1>3. [s EXCEPT !.wsStatus = x] \in SocketType BY <1>1, Zenon DEF SocketType
<1>4. SameAnswers(s, [s EXCEPT !.wsStatus = x]) BY DEF SameAnswers, Untouched, SocketType
<1> QED BY <1>2, <1>3, <1>4, Zenon

LEMMA FinishType ==
  ASSUME NEW s \in SocketType, NEW sl \in 0..s.len
  PROVE  Finish(s, sl) \in SocketType /\ SameAnswers(s, Finish(s, sl))
<1> DEFINE x == IF s.len = sl THEN ST_FLAGS ELSE s.wsStatus
           y == IF s.len = sl THEN s.frameCont ELSE TRUE
           a == s.maskCtr + sl
           b == s.len - sl
           t == [s EXCEPT !.maskCtr = a, !.len = b, !.wsStatus = x, !.frameCont = y]
<1>1. s.wsStatus \in ST_FLAGS..ST_PAYLOAD /\ s.len \in Nat /\ s.maskCtr \in Nat
      /\ s.frameCont \in BOOLEAN
  BY Zenon DEF SocketType
<1>2. x \in ST_FLAGS..ST_PAYLOAD /\ y \in BOOLEAN /\ a \in Nat /\ b \in Nat
  <2>1. ST_FLAGS \in ST_FLAGS..ST_PAYLOAD BY DEF ST_FLAGS, ST_PAYLOAD
  <2>2. x \in ST_FLAGS..ST_PAYLOAD /\ y \in BOOLEAN BY <1>1, <2>1, Zenon
  <2>3. \A l, m \in Nat : \A k \in 0..l : m + k \in Nat /\ l - k \in Nat OBVIOUS
  <2>4. a \in Nat /\ b \in Nat BY <1>1, <2>3, Zenon
  <2> QED BY <2>2, <2>4
<1>3. Finish(s, sl) = t BY DEF Finish
<1> HIDE DEF x, y, a, b
<1>4. t \in SocketType BY <1>2, Zenon DEF SocketType
<1>5. SameAnswers(s, t) BY DEF SameAnswers, Untouched, SocketType
<1> QED BY <1>3, <1>4, <1>5, Zenon

LEMMA HeaderByteType ==
  ASSUME NEW s \in SocketType, NEW b \in Byte, s.wsStatus # ST_PAYLOAD
  PROVE  HeaderByte(s, b) \in SocketType /\ SameAnswers(s, HeaderByte(s, b))
<1> USE DEF ST_FLAGS, ST_LEN0, ST_LEN1, ST_LEN8, ST_MASK1, ST_MASK4, ST_PAYLOAD
<1>0. s.wsStatus \in 0..14 /\ s.len \in Nat /\ s.mask \in Masks BY Zenon DEF SocketType
<1>1. b \in 0..255 /\ b % 128 \in Nat BY DEF Byte
<1>2. CASE s.wsStatus = ST_FLAGS
  <2> DEFINE t == [s EXCEPT !.maskCtr = 0, !.frameCont = FALSE, !.flags = b,
                            !.wsStatus = ST_LEN0]
  <2>1. HeaderByte(s, b) = t BY <1>2 DEF HeaderByte
  <2>2. 0 \in Nat /\ ST_LEN0 \in ST_FLAGS..ST_PAYLOAD /\ FALSE \in BOOLEAN OBVIOUS
  <2>3. t \in SocketType BY <2>2, Zenon DEF SocketType
  <2>4. SameAnswers(s, t) BY DEF SameAnswers, Untouched, SocketType
  <2> QED BY <2>1, <2>3, <2>4, Zenon
<1>3. CASE s.wsStatus = ST_LEN0
  <2> DEFINE t == [s EXCEPT !.len8 = b, !.len = 0, !.wsStatus = ST_LEN1]
             u == [s EXCEPT !.len8 = b, !.len = b % 128]
  <2>1. HeaderByte(s, b) = IF b % 128 >= LEN7 THEN t ELSE LengthDone(u)
    BY <1>3 DEF HeaderByte
  <2>2. 0 \in Nat /\ ST_LEN1 \in ST_FLAGS..ST_PAYLOAD OBVIOUS
  <2>3. t \in SocketType /\ u \in SocketType BY <1>1, <2>2, Zenon DEF SocketType
  <2>4. SameAnswers(s, t) /\ SameAnswers(s, u) BY DEF SameAnswers, Untouched, SocketType
  <2> HIDE DEF t, u
  <2>5. LengthDone(u) \in SocketType /\ SameAnswers(u, LengthDone(u)) BY <2>3, LengthDoneType, Zenon
  <2>6. SameAnswers(s, LengthDone(u)) BY <2>4, <2>5 DEF SameAnswers, Untouched
  <2> QED BY <2>1, <2>3, <2>4, <2>5, <2>6, Zenon
<1>4. CASE s.wsStatus \in ST_LEN1..ST_LEN8
  <2> DEFINE l == s.len * 256 + b
             t == [s EXCEPT !.len = l]
             w == t.wsStatus + 1
             u == [t EXCEPT !.wsStatus = w]
  <2>1. HeaderByte(s, b) =
          IF s.wsStatus = ST_LEN8 \/ (s.wsStatus = ST_LEN2 /\ s.len8 % 128 = LEN7)
          THEN LengthDone(t) ELSE u
    BY <1>4 DEF HeaderByte
  <2>2. l \in Nat
    <3>1. \A m \in Nat : m * 256 + b \in Nat BY <1>1
    <3> QED BY <1>0, <3>1
  <2>3. t \in SocketType
    <3> HIDE DEF l
    <3> QED BY <2>2, Zenon DEF SocketType
  <2>4. SameAnswers(s, t) /\ t.wsStatus = s.wsStatus BY DEF SameAnswers, Untouched, SocketType
  <2> HIDE DEF l, t
  <2>5. LengthDone(t) \in SocketType /\ SameAnswers(t, LengthDone(t)) BY <2>3, LengthDoneType, Zenon
  <2>6. SameAnswers(s, LengthDone(t)) BY <2>4, <2>5 DEF SameAnswers, Untouched
  <2>7. w \in ST_FLAGS..ST_PAYLOAD BY <1>4, <2>4
  <2> HIDE DEF w
  <2>8. u \in SocketType BY <2>3, <2>7, Zenon DEF SocketType
  <2>9. SameAnswers(s, u) BY <2>3, <2>4 DEF SameAnswers, Untouched, SocketType
  <2> HIDE DEF u
  <2> QED BY <2>1, <2>5, <2>6, <2>8, <2>9, Zenon
<1>5. CASE s.wsStatus \in ST_MASK1..ST_MASK4
  <2> DEFINE k == s.wsStatus - ST_MASK1 + 1
             m == [s.mask EXCEPT ![k] = b]
             w == s.wsStatus + 1
             t == [s EXCEPT !.mask = m, !.wsStatus = w]
  <2>1. HeaderByte(s, b) = t BY <1>5 DEF HeaderByte
  <2>2. m \in Masks /\ w \in ST_FLAGS..ST_PAYLOAD BY <1>0, <1>5 DEF Masks
  <2> HIDE DEF m, w
  <2>3. t \in SocketType BY <2>2, Zenon DEF SocketType
  <2>4. SameAnswers(s, t) BY DEF SameAnswers, Untouched, SocketType
  <2> HIDE DEF t
  <2> QED BY <2>1, <2>3, <2>4, Zenon
<1>6. s.wsStatus \in {ST_FLAGS, ST_LEN0} \cup ST_LEN1..ST_LEN8 \cup ST_MASK1..ST_MASK4 BY <1>0
<1> QED BY <1>2, <1>3, <1>4, <1>5, <1>6

(* What Payload leaves of the socket s.                                    *)
Taken(s, r) ==
  /\ r.over \in BOOLEAN /\ r.s \in SocketType /\ Untouched(s, r.s)
  /\ ~r.over => SameParser(s, r.s)

LEMMA PayloadType ==
  ASSUME NEW c, NEW s \in SocketType, NEW data \in ByteSeq
  PROVE  Taken(s, Payload(c, s, data))
<1> DEFINE op == s.flags % 16
           error == cgiWebsocketClose(s, <<3, 234>>)
           reason == [k \in 1..2 |-> IF k <= Len(data) THEN data[k] ELSE Garbage]
           close == cgiWebsocketClose(s, reason)
           head == sendFrameHead(s, Flags(OPCODE_PONG, TRUE), s.len)
           t == IF s.frameCont THEN s ELSE head
           pong == IF data = <<>> THEN t ELSE httpdSend(t, data)
           R == Payload(c, s, data)
<1> USE DEF OPCODE_PING, OPCODE_TEXT, OPCODE_BINARY, OPCODE_CONTINUE, OPCODE_CLOSE, DataOps
<1>0. s.len \in Nat /\ s.frameCont \in BOOLEAN BY Zenon DEF SocketType
<1>1. error \in SocketType /\ Untouched(s, error)
  <2>1. <<3, 234>> \in ByteSeq BY DEF ByteSeq, Byte
  <2> QED BY <2>1, WebsocketCloseType, Zenon
<1>2. close \in SocketType /\ Untouched(s, close)
  <2>1. \A k \in 1..2 : reason[k] \in Byte
    <3>1. Garbage \in Byte BY DEF Garbage, Byte
    <3>2. \A k \in 1..2 : k <= Len(data) => data[k] \in Byte
      <4>1. Len(data) \in Nat /\ \A k \in 1..Len(data) : data[k] \in Byte BY ByteIsNat, Zenon
      <4> QED BY <4>1
    <3> QED BY <3>1, <3>2
  <2>2. reason \in [1..2 -> Byte]
    <3>1. reason = [k \in 1..2 |-> reason[k]] OBVIOUS
    <3> HIDE DEF reason
    <3> QED BY <2>1, <3>1
  <2> HIDE DEF reason
  <2>3. 2 \in Nat OBVIOUS
  <2>4. reason \in ByteSeq BY <2>2, <2>3, FunctionIsBytes
  <2> QED BY <2>4, WebsocketCloseType, Zenon
<1>3. Sends(s, s) BY DEF Sends, Untouched, SameParser
<1>4. Sends(s, t)
  <2>1. Flags(OPCODE_PONG, TRUE) \in Byte BY DEF Flags, FLAG_FIN, OPCODE_PONG, Byte
  <2>2. Sends(s, head) BY <1>0, <2>1, SendHeadType, Zenon
  <2> QED BY <1>3, <2>2, Zenon
<1>5. Sends(s, pong)
  <2> HIDE DEF t
  <2>1. t \in SocketType BY <1>4, Zenon DEF Sends
  <2>2. Sends(t, httpdSend(t, data)) BY <2>1, SendType, Zenon
  <2> QED BY <1>4, <2>2, SendsTwice, Zenon
<1>6. Sends(s, recvCb(c, s, data, RecvFlags(s))) BY RecvCbType, Zenon
<1>7. CASE op = OPCODE_PING /\ s.len >= LEN7
  <2>1. R = [over |-> TRUE, s |-> IF s.frameCont THEN s ELSE error]
    <3>1. ~(s.len < LEN7) BY <1>0, <1>7, Thresholds
    <3> HIDE DEF error
    <3> QED BY <1>7, <3>1 DEF Payload, error
  <2> HIDE DEF R, error
  <2> QED BY <1>1, <1>3, <2>1 DEF Taken, Sends, R
<1>8. CASE op = OPCODE_PING /\ ~(s.len >= LEN7)
  <2>1. s.len < LEN7 BY <1>0, <1>8, Thresholds
  <2>2. R = [over |-> FALSE, s |-> pong] BY <1>8, <2>1 DEF Payload
  <2> HIDE DEF R, pong
  <2> QED BY <1>5, <2>2 DEF Taken, Sends, R
<1>9. CASE op \in DataOps
  <2> DEFINE cb == recvCb(c, s, data, RecvFlags(s))
  <2>1. R = IF s.len8 < IS_MASKED THEN [over |-> TRUE, s |-> error]
            ELSE [over |-> FALSE, s |-> cb]
    BY <1>9 DEF Payload
  <2> HIDE DEF R, error, cb
  <2> QED BY <1>1, <1>6, <2>1 DEF Taken, Sends, R, cb
<1>10. CASE op = OPCODE_CLOSE
  <2>1. R = [over |-> TRUE, s |-> IF s.closedHere THEN s ELSE close]
    BY <1>10 DEF Payload
  <2> HIDE DEF R, close
  <2> QED BY <1>2, <1>3, <2>1 DEF Taken, Sends, R
<1>11. CASE op \notin DataOps \cup {OPCODE_PING, OPCODE_CLOSE}
  <2>1. R = [over |-> FALSE, s |-> s] BY <1>11 DEF Payload
  <2> HIDE DEF R
  <2> QED BY <1>3, <2>1 DEF Taken, Sends, R
<1> QED BY <1>7, <1>8, <1>9, <1>10, <1>11
-----------------------------------------------------------------------------
(* The loop.                                                               *)
ParserType == [over : BOOLEAN, s : SocketType, data : ByteSeq]

(* A turn of it: the socket keeps its place in the list.                   *)
Turned(p, q) == q \in ParserType /\ Untouched(p.s, q.s)

LEMMA PayloadBytesType ==
  ASSUME NEW c, NEW s \in SocketType, NEW data \in ByteSeq
  PROVE  LET q == PayloadBytes(c, s, data) IN
         /\ q \in ParserType /\ Untouched(s, q.s)
         /\ q.over => q.data = <<>>
         /\ q.data # <<>> => s.len \in Nat /\ Len(q.data) = Len(data) - s.len
<1> DEFINE sl == IF Len(data) < s.len THEN Len(data) ELSE s.len
           clear == [j \in 1..sl |-> Xor(data[j], s.mask[((s.maskCtr + j - 1) % 4) + 1])]
           p == Payload(c, s, clear)
           q == PayloadBytes(c, s, data)
           rest == SubSeq(data, sl + 1, Len(data))
<1>1. s.len \in Nat /\ s.maskCtr \in Nat /\ s.mask \in Masks BY Zenon DEF SocketType
<1>2. Len(data) \in Nat /\ \A i \in 1..Len(data) : data[i] \in Nat BY ByteIsNat, Zenon
<1>3. sl \in 0..s.len /\ sl \in 0..Len(data) BY <1>1, <1>2
<1>4. clear \in ByteSeq
  <2>1. ASSUME NEW j \in 1..sl PROVE clear[j] \in Byte
    <3>1. data[j] \in Nat
      <4> HIDE DEF sl
      <4>1. j \in 1..Len(data) BY <1>2, <1>3
      <4> QED BY <1>2, <4>1
    <3>2. ((s.maskCtr + j - 1) % 4) + 1 \in 1..4
      <4>1. \A m \in Nat : \A k \in 1..sl : ((m + k - 1) % 4) + 1 \in 1..4
        <5> HIDE DEF sl
        <5> QED BY <1>3
      <4> QED BY <1>1, <4>1, Zenon
    <3>3. s.mask[((s.maskCtr + j - 1) % 4) + 1] \in Byte BY <1>1, <3>2, Zenon DEF Masks
    <3>4. \A a \in Nat : \A b \in Byte : Xor(a, b) \in Byte BY DEF Xor, Byte
    <3>5. Xor(data[j], s.mask[((s.maskCtr + j - 1) % 4) + 1]) \in Byte
      BY <3>1, <3>3, <3>4, Zenon
    <3> QED BY <3>5, Zenon
  <2>2. clear = [j \in 1..sl |-> clear[j]] BY Zenon
  <2> HIDE DEF clear
  <2>3. clear \in [1..sl -> Byte] BY <2>1, <2>2, Zenon
  <2>4. sl \in Nat BY <1>3
  <2> HIDE DEF sl
  <2> QED BY <2>3, <2>4, FunctionIsBytes
<1>5. Taken(s, p)
  <2> HIDE DEF clear
  <2> QED BY <1>4, PayloadType, Zenon
<1>6. q = IF p.over THEN [over |-> TRUE, s |-> p.s, data |-> <<>>]
          ELSE [over |-> FALSE, s |-> Finish(p.s, sl), data |-> rest]
  BY Zenon DEF PayloadBytes
<1> HIDE DEF clear, p, q, sl
<1>7. rest \in ByteSeq /\ (rest # <<>> => sl = s.len /\ Len(rest) = Len(data) - sl)
  <2>1. sl + 1 \in Nat \ {0} /\ Len(data) \in 0..Len(data) BY <1>2, <1>3
  <2>2. rest \in ByteSeq BY <2>1, Piece DEF ByteSeq
  <2>3. sl = Len(data) => rest = <<>> BY <1>2
  <2>4. sl = Len(data) \/ sl = s.len BY DEF sl
  <2>5. Len(rest) = Len(data) - sl
    <3>1. Len(rest) = IF sl + 1 <= Len(data) THEN Len(data) - (sl + 1) + 1 ELSE 0
      BY <1>2, <1>3 DEF ByteSeq
    <3> QED BY <1>2, <1>3, <3>1
  <2> QED BY <2>2, <2>3, <2>4, <2>5
<1>8. CASE p.over
  <2>1. q = [over |-> TRUE, s |-> p.s, data |-> <<>>] BY <1>6, <1>8, Zenon
  <2>2. <<>> \in ByteSeq BY DEF ByteSeq
  <2>3. q.s = p.s /\ q.data = <<>> /\ q.over = TRUE BY <2>1
  <2>4. q \in ParserType BY <1>5, <2>1, <2>2 DEF ParserType, Taken
  <2> QED BY <1>5, <2>3, <2>4 DEF Taken, q
<1>9. CASE ~p.over
  <2> DEFINE f == Finish(p.s, sl)
  <2>1. q = [over |-> FALSE, s |-> f, data |-> rest] BY <1>6, <1>9, Zenon
  <2>2. p.s \in SocketType /\ Untouched(s, p.s) /\ p.s.len = s.len
    BY <1>5, <1>9 DEF Taken, SameParser
  <2>3. f \in SocketType /\ SameAnswers(p.s, f)
    <3>1. sl \in 0..p.s.len BY <1>3, <2>2
    <3> QED BY <2>2, <3>1, FinishType, Zenon
  <2> HIDE DEF f, rest
  <2>4. Untouched(s, f) BY <2>2, <2>3 DEF SameAnswers, Untouched
  <2>5. q.s = f /\ q.data = rest /\ q.over = FALSE BY <2>1
  <2>6. q \in ParserType BY <1>7, <2>1, <2>3 DEF ParserType
  <2> QED BY <1>1, <1>7, <2>4, <2>5, <2>6 DEF q
<1> QED BY <1>8, <1>9

LEMMA TurnType ==
  ASSUME NEW c, NEW p \in ParserType
  PROVE  Turned(p, Turn(c, p))
<1> DEFINE s == p.s
           h == Head(p.data)
           d == Tail(p.data)
           t == HeaderByte(s, h)
<1>1. s \in SocketType /\ p.data \in ByteSeq /\ p.over \in BOOLEAN BY DEF ParserType
<1>2. CASE p.over \/ p.data = <<>>
  <2>1. Turn(c, p) = p BY <1>2 DEF Turn
  <2> QED BY <1>2, <2>1 DEF Turned, Untouched
<1>3. CASE ~p.over /\ p.data # <<>> /\ s.wsStatus = ST_PAYLOAD
  <2> DEFINE q == PayloadBytes(c, s, p.data)
  <2>1. Turn(c, p) = q BY <1>3, Zenon DEF Turn
  <2>2. /\ q \in ParserType /\ Untouched(s, q.s)
        /\ q.over => q.data = <<>>
        /\ q.data # <<>> => s.len \in Nat /\ Len(q.data) = Len(p.data) - s.len
    BY <1>1, PayloadBytesType, Zenon
  <2> QED BY <2>1, <2>2 DEF Turned
<1>4. CASE ~p.over /\ p.data # <<>> /\ s.wsStatus # ST_PAYLOAD
  <2>1. h \in Byte /\ d \in ByteSeq
    <3> PICK data \in Seq(Byte) : data = p.data BY <1>1 DEF ByteSeq
    <3> QED BY <1>4 DEF ByteSeq
  <2> HIDE DEF h, d
  <2>2. t \in SocketType /\ SameAnswers(s, t) BY <1>1, <1>4, <2>1, HeaderByteType, Zenon
  <2>3. Untouched(s, t) BY <2>2, Zenon DEF SameAnswers
  <2>4. Turn(c, p) = IF t.wsStatus = ST_PAYLOAD THEN PayloadBytes(c, t, d)
                     ELSE [over |-> FALSE, s |-> t, data |-> d]
    BY <1>4, Zenon DEF Turn, h, d
  <2> HIDE DEF t
  <2>5. CASE t.wsStatus = ST_PAYLOAD
    <3> DEFINE q == PayloadBytes(c, t, d)
    <3>1. /\ q \in ParserType /\ Untouched(t, q.s)
          /\ q.over => q.data = <<>>
          /\ q.data # <<>> => t.len \in Nat /\ Len(q.data) = Len(d) - t.len
      BY <2>1, <2>2, PayloadBytesType, Zenon
    <3>2. Turn(c, p) = q BY <2>4, <2>5, Zenon
    <3> HIDE DEF q
    <3>3. Untouched(s, q.s) BY <2>3, <3>1 DEF Untouched
    <3> QED BY <3>1, <3>2, <3>3 DEF Turned
  <2>6. CASE t.wsStatus # ST_PAYLOAD
    <3> DEFINE q == [over |-> FALSE, s |-> t, data |-> d]
    <3>1. Turn(c, p) = q BY <2>4, <2>6, Zenon
    <3>2. q \in ParserType /\ q.s = t /\ q.data = d BY <2>1, <2>2 DEF ParserType
    <3> HIDE DEF q
    <3> QED BY <2>3, <3>1, <3>2 DEF Turned
  <2> QED BY <2>5, <2>6
<1> QED BY <1>2, <1>3, <1>4

(* The function of the turns that Parse takes exists.                      *)
IsRun(c, p, m, f) == f = [n \in 0..m |-> IF n = 0 THEN p ELSE Turn(c, f[n - 1])]

LEMMA RunExists ==
  ASSUME NEW c, NEW p
  PROVE  \A m \in Nat : \E f : IsRun(c, p, m, f)
<1> DEFINE S == {m \in Nat : \E f : IsRun(c, p, m, f)}
<1>1. 0 \in S
  <2>1. IsRun(c, p, 0, [n \in 0..0 |-> p]) BY DEF IsRun
  <2> QED BY <2>1
<1>2. ASSUME NEW m \in Nat, m \in S PROVE m + 1 \in S
  <2>1. PICK f : IsRun(c, p, m, f) BY <1>2
  <2>2. f = [n \in 0..m |-> IF n = 0 THEN p ELSE Turn(c, f[n - 1])] BY <2>1 DEF IsRun
  <2> DEFINE last == Turn(c, f[m])
             g == [n \in 0..m + 1 |-> IF n = m + 1 THEN last ELSE f[n]]
  <2>3. ASSUME NEW n \in 0..m + 1
        PROVE  g[n] = IF n = 0 THEN p ELSE Turn(c, g[n - 1])
    <3>1. CASE n = m + 1
      <4>1. n - 1 = m /\ m # m + 1 /\ m \in 0..m + 1 /\ n # 0 BY <3>1
      <4>2. g[n - 1] = f[m] BY <4>1
      <4> QED BY <3>1, <4>1, <4>2
    <3>2. CASE n # m + 1
      <4>1. n \in 0..m /\ g[n] = f[n] BY <3>2
      <4>2. f[n] = IF n = 0 THEN p ELSE Turn(c, f[n - 1]) BY <2>2, <4>1
      <4>3. n # 0 => n - 1 \in 0..m + 1 /\ n - 1 # m + 1 BY <4>1
      <4>4. n # 0 => g[n - 1] = f[n - 1] BY <4>3
      <4> QED BY <4>1, <4>2, <4>4
    <3> QED BY <3>1, <3>2
  <2>4. g = [n \in 0..m + 1 |-> g[n]] OBVIOUS
  <2> HIDE DEF g
  <2>5. IsRun(c, p, m + 1, g) BY <2>3, <2>4 DEF IsRun
  <2> QED BY <2>5
<1> HIDE DEF S
<1>3. Nat \subseteq S BY <1>1, <1>2, NatSetInduction
<1> QED BY <1>3 DEF S

(* What the turns keep holds of what Parse returns: P[n] of the n-th.      *)
LEMMA ParseRule ==
  ASSUME NEW c, NEW s, NEW data, Len(data) \in Nat, NEW P,
         [over |-> FALSE, s |-> s, data |-> data] \in P[0],
         \A n \in Nat : \A p \in P[n] : Turn(c, p) \in P[n + 1]
  PROVE  Parse(c, s, data) \in P[Len(data)]
<1> DEFINE p0 == [over |-> FALSE, s |-> s, data |-> data]
           m == Len(data)
           f == CHOOSE h : IsRun(c, p0, m, h)
<1>1. Parse(c, s, data) = f[m] BY DEF Parse, IsRun
<1>2. IsRun(c, p0, m, f)
  <2>1. \E h : IsRun(c, p0, m, h) BY RunExists
  <2> QED BY <2>1, Zenon
<1> HIDE DEF f, p0
<1>3. f = [n \in 0..m |-> IF n = 0 THEN p0 ELSE Turn(c, f[n - 1])] BY <1>2 DEF IsRun
<1> DEFINE S == {n \in Nat : n <= m => f[n] \in P[n]}
<1>4. 0 \in S
  <2>1. f[0] = p0 BY <1>3
  <2>2. p0 \in P[0] BY DEF p0
  <2> QED BY <2>1, <2>2
<1>5. ASSUME NEW n \in Nat, n \in S PROVE n + 1 \in S
  <2>1. SUFFICES ASSUME n + 1 <= m PROVE f[n + 1] \in P[n + 1]
    OBVIOUS
  <2>2. n + 1 \in 0..m /\ n + 1 # 0 /\ (n + 1) - 1 = n /\ n <= m BY <2>1
  <2>3. f[n + 1] = Turn(c, f[n]) BY <1>3, <2>2
  <2>4. f[n] \in P[n] BY <1>5, <2>2
  <2> QED BY <2>3, <2>4
<1>6. m \in S
  <2> HIDE DEF S
  <2> QED BY <1>4, <1>5, NatSetInduction
<1> QED BY <1>1, <1>6

LEMMA ParseType ==
  ASSUME NEW c, NEW s \in SocketType, NEW data \in ByteSeq
  PROVE  LET p == Parse(c, s, data) IN p \in ParserType /\ Untouched(s, p.s)
<1> DEFINE Q == {p \in ParserType : Untouched(s, p.s)}
           P == [n \in Nat |-> Q]
           p0 == [over |-> FALSE, s |-> s, data |-> data]
<1>1. Len(data) \in Nat BY ByteIsNat
<1>2. p0 \in Q
  <2>1. p0 \in ParserType BY DEF ParserType
  <2>2. Untouched(s, p0.s) BY DEF Untouched
  <2> QED BY <2>1, <2>2
<1>3. ASSUME NEW p \in Q PROVE Turn(c, p) \in Q
  <2>1. p \in ParserType /\ Untouched(s, p.s) BY <1>3
  <2>2. Turn(c, p) \in ParserType /\ Untouched(p.s, Turn(c, p).s)
    BY <2>1, TurnType, Zenon DEF Turned
  <2>3. Untouched(s, Turn(c, p).s) BY <2>1, <2>2 DEF Untouched
  <2> QED BY <2>2, <2>3
<1>4. \A n \in Nat : P[n] = Q OBVIOUS
<1> HIDE DEF P, Q
<1>5. p0 \in P[0] BY <1>2, <1>4
<1>6. \A n \in Nat : \A p \in P[n] : Turn(c, p) \in P[n + 1]
  <2>1. ASSUME NEW n \in Nat, NEW p \in P[n] PROVE Turn(c, p) \in P[n + 1]
    <3>1. P[n] = Q /\ P[n + 1] = Q BY <1>4
    <3> QED BY <1>3, <3>1
  <2> QED BY <2>1
<1>7. Parse(c, s, data) \in P[Len(data)] BY <1>1, <1>5, <1>6, ParseRule, Zenon
<1>8. Parse(c, s, data) \in Q BY <1>1, <1>4, <1>7
<1> QED BY <1>8 DEF Q
-----------------------------------------------------------------------------
(* The frames of a browser.                                                *)
LEMMA HeaderType ==
  ASSUME NEW f \in GoodFrames
  PROVE  Header(f) \in ByteSeq
<1> DEFINE n == Len(f.payload)
           two == <<Flags(f.op, f.fin), (IF f.masked THEN IS_MASKED ELSE 0) + LengthCode(n)>>
           mask == IF f.masked THEN Mask ELSE <<>>
<1>1. f.op \in 0..15 /\ f.fin \in BOOLEAN /\ f.payload \in Seq({0, 1}) BY DEF GoodFrames
<1>2. n \in Nat BY <1>1
<1>3. LengthField(n) \in ByteSeq
  <2>1. Two(n) \in ByteSeq /\ Four(n) \in ByteSeq BY <1>2, LengthBytes
  <2>2. <<>> \in ByteSeq /\ <<0, 0, 0, 0>> \in ByteSeq BY DEF ByteSeq, Byte
  <2>3. <<0, 0, 0, 0>> \o Four(n) \in ByteSeq BY <2>1, <2>2, ByteConcat, Zenon
  <2> QED BY <2>1, <2>2, <2>3, Zenon DEF LengthField
<1>4. two \in ByteSeq
  <2>1. Flags(f.op, f.fin) \in Byte BY <1>1, FlagsType
  <2>2. \A k \in Nat : LengthCode(k) \in 0..127 BY Thresholds, SMT DEF LengthCode
  <2>3. \A k \in 0..127 : k \in Byte /\ IS_MASKED + k \in Byte /\ 0 + k \in Byte
    BY DEF IS_MASKED, Byte
  <2>4. (IF f.masked THEN IS_MASKED ELSE 0) + LengthCode(n) \in Byte
    <3>1. PICK k \in 0..127 : k = LengthCode(n) BY <1>2, <2>2
    <3>2. CASE f.masked BY <2>3, <3>1, <3>2
    <3>3. CASE ~f.masked BY <2>3, <3>1, <3>3
    <3> QED BY <3>2, <3>3
  <2> QED BY <2>1, <2>4 DEF ByteSeq
<1>5. mask \in ByteSeq
  <2>1. Mask \in ByteSeq BY DEF Mask, ByteSeq, Byte
  <2>2. <<>> \in ByteSeq BY DEF ByteSeq
  <2> QED BY <2>1, <2>2
<1>6. Header(f) = (two \o LengthField(n)) \o mask BY Zenon DEF Header
<1> HIDE DEF two, mask
<1>7. two \o LengthField(n) \in ByteSeq BY <1>3, <1>4, ByteConcat, Zenon
<1> QED BY <1>5, <1>6, <1>7, ByteConcat, Zenon

LEMMA MaskedType ==
  ASSUME NEW f \in GoodFrames
  PROVE  /\ Masked(f) \in ByteSeq /\ Len(Masked(f)) = Len(f.payload)
         /\ \A i \in 1..Len(f.payload) :
              Masked(f)[i] = IF f.masked THEN Xor(f.payload[i], Mask[((i - 1) % 4) + 1])
                             ELSE f.payload[i]
<1> DEFINE m == Masked(f)
           n == Len(f.payload)
<1>1. f.payload \in Seq({0, 1}) BY DEF GoodFrames
<1>2. n \in Nat /\ \A i \in 1..n : f.payload[i] \in {0, 1} BY <1>1
<1>3. \A i \in 1..n :
        m[i] = IF f.masked THEN Xor(f.payload[i], Mask[((i - 1) % 4) + 1])
               ELSE f.payload[i]
  BY DEF Masked
<1>4. ASSUME NEW i \in 1..n PROVE m[i] \in Byte
  <2>1. f.payload[i] \in {0, 1} BY <1>2
  <2>2. ((i - 1) % 4) + 1 \in 1..4
    <3> HIDE DEF n
    <3> QED BY <1>2
  <2>3. Mask[((i - 1) % 4) + 1] \in {0, 1} BY <2>2 DEF Mask
  <2>4. \A a, b \in {0, 1} : Xor(a, b) \in Byte BY DEF Xor, Byte
  <2>5. Xor(f.payload[i], Mask[((i - 1) % 4) + 1]) \in Byte BY <2>1, <2>3, <2>4, Zenon
  <2>6. f.payload[i] \in Byte BY <2>1 DEF Byte
  <2> QED BY <1>3, <2>5, <2>6, Zenon
<1>5. m = [i \in 1..n |-> m[i]] BY DEF Masked
<1>6. m \in ByteSeq
  <2> HIDE DEF m, n
  <2>1. m \in [1..n -> Byte] BY <1>4, <1>5
  <2> QED BY <1>2, <2>1, FunctionIsBytes
<1>7. Len(m) = n
  <2>1. DOMAIN m = 1..n BY DEF Masked
  <2> HIDE DEF m, n
  <2> QED BY <1>2, <1>6, <2>1 DEF ByteSeq
<1> QED BY <1>3, <1>6, <1>7

LEMMA EncodeType ==
  ASSUME NEW f \in GoodFrames
  PROVE  Encode(f) \in ByteSeq
BY HeaderType, MaskedType, ByteConcat, Zenon DEF Encode

LEMMA FramesAreGood == Frames \subseteq GoodFrames
BY WebSocketAssumption
-----------------------------------------------------------------------------
(* What each action makes of the socket of its client.                     *)
Sent(s) == [s EXCEPT !.busy = FALSE, !.phase = IF s.done THEN "closing" ELSE s.phase]
Accept(s) == [s EXCEPT !.ws = "live", !.recvHdl = TRUE, !.busy = TRUE]
Decline(s) == [s EXCEPT !.busy = TRUE]
Delivered(s, k) == [s EXCEPT !.up = SubSeq(s.up, k + 1, Len(s.up))]
Done(s) == [s EXCEPT !.ws = "NULL", !.done = TRUE]
Said(s, f) == [s EXCEPT !.said = Append(s.said, f), !.up = s.up \o Encode(f)]
Tear(s) == [s EXCEPT !.torn = s.torn \/ InPong(s)]
Hears(s) == cgiWebsocketSend(Tear(s), Debug, {})
AfterPacket(c, s, k) ==
  LET p == Parse(c, Delivered(s, k), SubSeq(s.up, 1, k)) IN IF p.over THEN Done(p.s) ELSE p.s

LEMMA ClearType == Clear \in SocketType /\ Fresh \in SocketType
<1>1. <<>> \in GoodSeq /\ <<>> \in ByteSeq /\ <<>> \in ByteSeqs
  BY DEF GoodSeq, ByteSeq, ByteSeqs
<1>2. <<0, 0, 0, 0>> \in Masks
  <2>1. DOMAIN <<0, 0, 0, 0>> = 1..4 OBVIOUS
  <2>2. \A i \in 1..4 : <<0, 0, 0, 0>>[i] \in Byte BY DEF Byte
  <2> QED BY <2>1, <2>2 DEF Masks
<1>3. ST_FLAGS \in ST_FLAGS..ST_PAYLOAD /\ 0 \in Byte /\ 0 \in Nat
  BY DEF ST_FLAGS, ST_PAYLOAD, Byte
<1>4. Clear \in SocketType BY <1>1, <1>2, <1>3, Zenon DEF Clear, SocketType
<1>5. [Clear EXCEPT !.phase = "open"] \in SocketType BY <1>4, Zenon DEF SocketType
<1> QED BY <1>4, <1>5, Zenon DEF Fresh

LEMMA StepTypes ==
  ASSUME NEW s \in SocketType
  PROVE  /\ Sent(s) \in SocketType /\ Accept(s) \in SocketType /\ Decline(s) \in SocketType
         /\ Done(s) \in SocketType /\ Tear(s) \in SocketType
<1>1. s.phase \in {"closed", "open", "closing"} BY Zenon DEF SocketType
<1>2. (IF s.done THEN "closing" ELSE s.phase) \in {"closed", "open", "closing"}
  BY <1>1
<1>3. (s.torn \/ InPong(s)) \in BOOLEAN OBVIOUS
<1>4. Sent(s) \in SocketType BY <1>2, Zenon DEF SocketType, Sent
<1>5. Accept(s) \in SocketType BY Zenon DEF SocketType, Accept
<1>6. Decline(s) \in SocketType BY Zenon DEF SocketType, Decline
<1>7. Done(s) \in SocketType BY Zenon DEF SocketType, Done
<1>8. Tear(s) \in SocketType BY <1>3, Zenon DEF SocketType, Tear
<1> QED BY <1>4, <1>5, <1>6, <1>7, <1>8

LEMMA DeliveredType ==
  ASSUME NEW s \in SocketType, NEW k \in 1..Len(s.up)
  PROVE  /\ Delivered(s, k) \in SocketType /\ SubSeq(s.up, 1, k) \in ByteSeq
         /\ Delivered(s, k).up = SubSeq(s.up, k + 1, Len(s.up))
<1>1. s.up \in Seq(Byte) BY Zenon DEF SocketType, ByteSeq
<1>2. 1 \in Nat \ {0} /\ k \in 0..Len(s.up) /\ k + 1 \in Nat \ {0} /\ Len(s.up) \in 0..Len(s.up)
  BY <1>1
<1>3. SubSeq(s.up, 1, k) \in ByteSeq /\ SubSeq(s.up, k + 1, Len(s.up)) \in ByteSeq
  BY <1>1, <1>2, Piece DEF ByteSeq
<1>4. Delivered(s, k) \in SocketType BY <1>3, Zenon DEF SocketType, Delivered
<1>5. Delivered(s, k).up = SubSeq(s.up, k + 1, Len(s.up)) BY DEF SocketType, Delivered
<1> QED BY <1>3, <1>4, <1>5

LEMMA AfterPacketType ==
  ASSUME NEW c, NEW s \in SocketType, NEW k \in 1..Len(s.up)
  PROVE  AfterPacket(c, s, k) \in SocketType
<1> DEFINE p == Parse(c, Delivered(s, k), SubSeq(s.up, 1, k))
<1>1. p \in ParserType BY DeliveredType, ParseType, Zenon
<1>2. p.s \in SocketType BY <1>1 DEF ParserType
<1>3. Done(p.s) \in SocketType BY <1>2, StepTypes
<1> QED BY <1>2, <1>3, Zenon DEF AfterPacket

LEMMA SaidType ==
  ASSUME NEW s \in SocketType, NEW f \in Frames
  PROVE  Said(s, f) \in SocketType
<1>1. s.said \in GoodSeq /\ s.up \in ByteSeq BY Zenon DEF SocketType
<1>2. f \in GoodFrames BY FramesAreGood
<1>3. Append(s.said, f) \in GoodSeq BY <1>1, <1>2 DEF GoodSeq
<1>4. s.up \o Encode(f) \in ByteSeq BY <1>1, <1>2, EncodeType, ByteConcat, Zenon
<1> QED BY <1>3, <1>4, Zenon DEF SocketType, Said

LEMMA HearsType ==
  ASSUME NEW s \in SocketType
  PROVE  Tear(s) \in SocketType /\ Sends(Tear(s), Hears(s))
<1>1. Debug \in ByteSeq BY DEF Debug, ByteSeq, Byte
<1>2. Tear(s) \in SocketType BY StepTypes
<1> QED BY <1>1, <1>2, WebsocketSendType, Zenon DEF Hears

(* Each action in these terms.                                             *)
LEMMA SockAfter ==
  ASSUME TypeOK
  PROVE  /\ \A c \in Clients : httpdConnectCb(c) => sock' = [sock EXCEPT ![c] = Fresh]
         /\ \A c \in Clients : cgiWebsocket(c) =>
              \/ sock' = [sock EXCEPT ![c] = Accept(sock[c])]
              \/ sock' = [sock EXCEPT ![c] = Decline(sock[c])]
         /\ \A c \in Clients : httpdSentCb(c) => sock' = [sock EXCEPT ![c] = Sent(sock[c])]
         /\ \A c \in Clients : httpdDisconCb(c) => sock' = [sock EXCEPT ![c] = Clear]
         /\ \A c \in Clients : \A f : Say(c, f) =>
              sock' = [sock EXCEPT ![c] = Said(sock[c], f)]
         /\ \A c \in Clients : \A k : cgiWebSocketRecv(c, k) =>
              sock' = [sock EXCEPT ![c] = AfterPacket(c, sock[c], k)]
         /\ cgiWebsockBroadcast =>
              sock' = [c \in Clients |-> IF c \in Listed \ Echo THEN Hears(sock[c]) ELSE sock[c]]
<1>0. sock \in [Clients -> SocketType] BY DEF TypeOK
<1>1. ASSUME NEW c \in Clients, httpdConnectCb(c) PROVE sock' = [sock EXCEPT ![c] = Fresh]
  BY <1>1, Zenon DEF httpdConnectCb
<1>2. ASSUME NEW c \in Clients, cgiWebsocket(c)
      PROVE  \/ sock' = [sock EXCEPT ![c] = Accept(sock[c])]
             \/ sock' = [sock EXCEPT ![c] = Decline(sock[c])]
  BY <1>0, <1>2 DEF cgiWebsocket, Accept, Decline
<1>3. ASSUME NEW c \in Clients, httpdSentCb(c)
      PROVE  sock' = [sock EXCEPT ![c] = Sent(sock[c])]
  BY <1>0, <1>3 DEF httpdSentCb, Sent
<1>4. ASSUME NEW c \in Clients, httpdDisconCb(c) PROVE sock' = [sock EXCEPT ![c] = Clear]
  BY <1>4, Zenon DEF httpdDisconCb
<1>5. ASSUME NEW c \in Clients, NEW f, Say(c, f)
      PROVE  sock' = [sock EXCEPT ![c] = Said(sock[c], f)]
  BY <1>0, <1>5 DEF Say, Said
<1>6. ASSUME NEW c \in Clients, NEW k, cgiWebSocketRecv(c, k)
      PROVE  sock' = [sock EXCEPT ![c] = AfterPacket(c, sock[c], k)]
  BY <1>6, Zenon DEF cgiWebSocketRecv, AfterPacket, Delivered, Done, Packet, Rest
<1>7. ASSUME cgiWebsockBroadcast
      PROVE  sock' = [c \in Clients |-> IF c \in Listed \ Echo THEN Hears(sock[c]) ELSE sock[c]]
  BY <1>7, Zenon DEF cgiWebsockBroadcast, Hears, Tear
<1> QED BY <1>1, <1>2, <1>3, <1>4, <1>5, <1>6, <1>7, Zenon
-----------------------------------------------------------------------------
(* Type correctness.                                                       *)
ListType == llStart \in Clients \cup {NULL} /\ next \in [Clients -> Clients \cup {NULL}]

LEMMA InsertTypes ==
  ASSUME TypeOK, NEW c \in Clients, Insert(c)
  PROVE  ListType'
<1>1. llStart \in Clients \cup {NULL} /\ next \in [Clients -> Clients \cup {NULL}]
  BY Zenon DEF TypeOK
<1>2. llStart' \in {llStart, c} BY Zenon DEF Insert
<1>3. next' \in {[next EXCEPT ![c] = NULL], [next EXCEPT ![c] = NULL, ![EndOfList] = c]}
  BY Zenon DEF Insert
<1>4. next' \in [Clients -> Clients \cup {NULL}] BY <1>1, <1>3
<1> QED BY <1>1, <1>2, <1>4 DEF ListType

LEMMA FreeTypes ==
  ASSUME TypeOK, NEW c \in Clients, websockFree(c)
  PROVE  ListType'
<1>1. llStart \in Clients \cup {NULL} /\ next \in [Clients -> Clients \cup {NULL}]
  BY Zenon DEF TypeOK
<1>2. llStart' \in {llStart, next[c]} BY Zenon DEF websockFree
<1>3. next' \in {next, [w \in Clients |-> IF next[w] = c /\ w \in Listed
                                          THEN next[c] ELSE next[w]]}
  BY Zenon DEF websockFree
<1>4. next' \in [Clients -> Clients \cup {NULL}] BY <1>1, <1>3
<1> QED BY <1>1, <1>2, <1>4 DEF ListType

LEMMA TypeStep ==
  ASSUME TypeOK, [Next]_vars
  PROVE  TypeOK'
<1>1. /\ ListType /\ sock \in [Clients -> SocketType] /\ debug \in Nat
      /\ \A c \in Clients : sock[c] \in SocketType
  BY DEF TypeOK, ListType
<1>2. ASSUME ListType', sock' \in [Clients -> SocketType], debug' \in Nat
      PROVE  TypeOK'
  BY <1>2 DEF TypeOK, ListType
<1>3. \A c \in Clients : \A s \in SocketType : [sock EXCEPT ![c] = s] \in [Clients -> SocketType]
  BY <1>1
<1>4. ASSUME UNCHANGED <<llStart, next>> PROVE ListType' BY <1>1, <1>4, Zenon DEF ListType
<1>5. CASE cgiWebsockBroadcast
  <2>1. \A c \in Clients : Hears(sock[c]) \in SocketType BY <1>1, HearsType, Zenon DEF Sends
  <2>2. sock' = [c \in Clients |-> IF c \in Listed \ Echo THEN Hears(sock[c]) ELSE sock[c]]
    BY <1>5, SockAfter, Zenon
  <2>3. sock' \in [Clients -> SocketType] BY <1>1, <2>1, <2>2
  <2>4. debug' = debug + 1 /\ UNCHANGED <<llStart, next>> BY <1>5 DEF cgiWebsockBroadcast
  <2>5. debug' \in Nat BY <1>1, <2>4
  <2> QED BY <1>2, <1>4, <2>3, <2>4, <2>5
<1>6. ASSUME NEW c \in Clients, httpdConnectCb(c) PROVE TypeOK'
  <2>1. sock' \in [Clients -> SocketType] BY <1>3, <1>6, SockAfter, ClearType, Zenon
  <2>2. UNCHANGED <<llStart, next, debug>> BY <1>6 DEF httpdConnectCb
  <2> QED BY <1>1, <1>2, <1>4, <2>1, <2>2
<1>7. ASSUME NEW c \in Clients, cgiWebsocket(c) PROVE TypeOK'
  <2>1. sock' \in [Clients -> SocketType]
    <3>1. Accept(sock[c]) \in SocketType /\ Decline(sock[c]) \in SocketType
      BY <1>1, StepTypes, Zenon
    <3>2. \/ sock' = [sock EXCEPT ![c] = Accept(sock[c])]
          \/ sock' = [sock EXCEPT ![c] = Decline(sock[c])]
      BY <1>7, SockAfter, Zenon
    <3> QED BY <1>3, <3>1, <3>2, Zenon
  <2>2. debug' = debug /\ (Insert(c) \/ UNCHANGED <<llStart, next>>) BY <1>7 DEF cgiWebsocket
  <2> QED BY <1>1, <1>2, <1>4, <2>1, <2>2, InsertTypes
<1>8. ASSUME NEW c \in Clients, httpdSentCb(c) PROVE TypeOK'
  <2>1. sock' \in [Clients -> SocketType]
    <3>1. Sent(sock[c]) \in SocketType BY <1>1, StepTypes, Zenon
    <3>2. sock' = [sock EXCEPT ![c] = Sent(sock[c])] BY <1>8, SockAfter, Zenon
    <3> QED BY <1>3, <3>1, <3>2, Zenon
  <2>2. UNCHANGED <<llStart, next, debug>> BY <1>8 DEF httpdSentCb
  <2> QED BY <1>1, <1>2, <1>4, <2>1, <2>2
<1>9. ASSUME NEW c \in Clients, httpdDisconCb(c) PROVE TypeOK'
  <2>1. sock' \in [Clients -> SocketType] BY <1>3, <1>9, SockAfter, ClearType, Zenon
  <2>2. debug' = debug /\ (websockFree(c) \/ UNCHANGED <<llStart, next>>)
    BY <1>9 DEF httpdDisconCb
  <2> QED BY <1>1, <1>2, <1>4, <2>1, <2>2, FreeTypes
<1>10. ASSUME NEW c \in Clients, NEW k \in 1..Len(sock[c].up), cgiWebSocketRecv(c, k)
       PROVE  TypeOK'
  <2>1. AfterPacket(c, sock[c], k) \in SocketType BY <1>1, <1>10, AfterPacketType, Zenon
  <2>2. sock' \in [Clients -> SocketType]
    <3>1. sock' = [sock EXCEPT ![c] = AfterPacket(c, sock[c], k)] BY <1>10, SockAfter, Zenon
    <3> QED BY <1>3, <2>1, <3>1, Zenon
  <2>3. debug' = debug /\ (websockFree(c) \/ UNCHANGED <<llStart, next>>)
    BY <1>10 DEF cgiWebSocketRecv
  <2> QED BY <1>1, <1>2, <1>4, <2>2, <2>3, FreeTypes
<1>11. ASSUME NEW c \in Clients, Reset(c) PROVE TypeOK'
  <2>1. llStart' = NULL /\ next' = [w \in Clients |-> NULL]
        /\ sock' = [w \in Clients |-> Clear] /\ debug' = debug
    BY <1>11 DEF Reset
  <2>2. ListType' BY <2>1 DEF ListType
  <2>3. sock' \in [Clients -> SocketType] BY <2>1, ClearType
  <2> QED BY <1>1, <1>2, <2>1, <2>2, <2>3
<1>12. ASSUME NEW c \in Clients, NEW f \in Frames, Say(c, f) PROVE TypeOK'
  <2>1. Said(sock[c], f) \in SocketType BY <1>1, <1>12, SaidType, Zenon
  <2>2. sock' \in [Clients -> SocketType]
    <3>1. sock' = [sock EXCEPT ![c] = Said(sock[c], f)] BY <1>12, SockAfter, Zenon
    <3> QED BY <1>3, <2>1, <3>1, Zenon
  <2>3. UNCHANGED <<llStart, next, debug>> BY <1>12 DEF Say
  <2> QED BY <1>1, <1>2, <1>4, <2>2, <2>3
<1>13. CASE UNCHANGED vars BY <1>13, Zenon DEF vars, TypeOK
<1> QED
  BY <1>5, <1>6, <1>7, <1>8, <1>9, <1>10, <1>11, <1>12, <1>13 DEF Next

LEMMA TypeInit == Init => TypeOK
BY ClearType DEF Init, TypeOK

(* Every header, packet and answer of every socket is of its type: a byte  *)
(* never leaves its range, the length of a frame never goes below zero     *)
(* (ws->priv->fr.len in cgiWebSocketRecv), and the list links sockets.     *)
THEOREM TypeCorrect == Spec => []TypeOK
<1>1. Init => TypeOK BY TypeInit
<1>2. TypeOK /\ [Next]_vars => TypeOK' BY TypeStep
<1> QED BY <1>1, <1>2, PTL DEF Spec
-----------------------------------------------------------------------------
(* The list of sockets.                                                    *)
LEMMA ListedIsLive ==
  ASSUME TypeOK, ListInv
  PROVE  Listed = Live
<1>1. Live \in SUBSET Clients BY DEF Live
<1>2. HasNext(Live) BY Zenon DEF ListInv, HasNext
<1>3. Listed \subseteq Live BY <1>1, <1>2, Zenon DEF Listed
<1>4. \A S \in SUBSET Clients : HasNext(S) => Live \subseteq S BY Zenon DEF ListInv
<1>5. Live \subseteq Listed BY <1>1, <1>4 DEF Listed
<1> QED BY <1>3, <1>5

(* HasNext of a state in which the list has changed.                       *)
Closed(S, first, nx) ==
  /\ first # NULL => first \in S
  /\ \A w \in S : nx[w] # NULL => nx[w] \in S

LEMMA InsertKeeps ==
  ASSUME TypeOK, ListInv, NEW c \in Clients, c \notin Live, Insert(c),
         Live' = Live \cup {c}
  PROVE  ListInv'
<1>1. /\ llStart = NULL => Live = {}
      /\ llStart # NULL => llStart \in Live /\ \E w \in Live : next[w] = NULL
      /\ \A v \in Live : next[v] \in Live \cup {NULL} /\ next[v] # llStart
      /\ \A v, w \in Live : next[v] = next[w] => v = w
      /\ \A S \in SUBSET Clients : Closed(S, llStart, next) => Live \subseteq S
  BY Zenon DEF ListInv, HasNext, Closed
<1>2. /\ next \in [Clients -> Clients \cup {NULL}] /\ Live \subseteq Clients
      /\ c # NULL /\ NULL \notin Live
  BY Thresholds DEF TypeOK, Live
<1>3. ASSUME llStart' = NULL => Live' = {},
             llStart' # NULL => llStart' \in Live' /\ \E w \in Live' : next'[w] = NULL,
             \A v \in Live' : next'[v] \in Live' \cup {NULL} /\ next'[v] # llStart',
             \A v, w \in Live' : next'[v] = next'[w] => v = w,
             \A S \in SUBSET Clients : Closed(S, llStart', next') => Live' \subseteq S
      PROVE  ListInv'
  BY <1>3, Zenon DEF ListInv, HasNext, Closed
<1>4. CASE llStart = NULL
  <2>1. llStart' = c /\ next' = [next EXCEPT ![c] = NULL] /\ Live' = {c}
    BY <1>1, <1>4 DEF Insert
  <2>2. next'[c] = NULL BY <1>2, <2>1
  <2> QED BY <1>2, <1>3, <2>1, <2>2 DEF Closed
<1>5. CASE llStart # NULL
  <2> DEFINE e == EndOfList
  <2>1. e \in Live /\ next[e] = NULL
    <3>1. \E w \in Listed : next[w] = NULL BY <1>1, <1>5, ListedIsLive
    <3>2. e \in Listed /\ next[e] = NULL BY <3>1, Zenon DEF EndOfList
    <3> QED BY <3>2, ListedIsLive
  <2> HIDE DEF e
  <2>2. next' = [next EXCEPT ![c] = NULL, ![e] = c] /\ llStart' = llStart
    BY <1>5, Zenon DEF Insert, e
  <2>3. e # c /\ next'[c] = NULL /\ next'[e] = c /\ \A v \in Live \ {e} : next'[v] = next[v]
    BY <1>2, <2>1, <2>2
  <2>4. \A v \in Live \ {e} : next[v] \in Live BY <1>1, <2>1
  <2>5. llStart' \in Live' /\ \E w \in Live' : next'[w] = NULL BY <1>1, <1>5, <2>2, <2>3
  <2>6. \A v \in Live' : next'[v] \in Live' \cup {NULL} /\ next'[v] # llStart'
    <3>1. \A v \in Live \ {e} : next'[v] \in Live' \cup {NULL} /\ next'[v] # llStart'
      <4> SUFFICES ASSUME NEW v \in Live \ {e}
                   PROVE  next'[v] \in Live' \cup {NULL} /\ next'[v] # llStart'
        OBVIOUS
      <4>1. next'[v] = next[v] /\ next[v] \in Live BY <2>3, <2>4
      <4>2. next[v] # llStart BY <1>1
      <4> QED BY <2>2, <4>1, <4>2
    <3>2. next'[e] \in Live' /\ next'[e] # llStart' BY <1>1, <1>5, <2>2, <2>3
    <3>3. next'[c] = NULL /\ llStart' # NULL BY <1>5, <2>2, <2>3
    <3> QED BY <3>1, <3>2, <3>3
  <2>7. \A v, w \in Live' : next'[v] = next'[w] => v = w
    <3>1. \A v \in Live \ {e} : next'[v] # NULL /\ next'[v] # c
      BY <1>1, <2>3, <2>4, <1>2
    <3>2. \A v, w \in Live \ {e} : next'[v] = next'[w] => v = w BY <1>1, <2>3
    <3> QED BY <1>2, <2>3, <3>1, <3>2
  <2>8. ASSUME NEW S \in SUBSET Clients, Closed(S, llStart', next') PROVE Live' \subseteq S
    <3>1. Closed(S \cap Live, llStart, next)
      BY <1>1, <1>5, <2>1, <2>2, <2>3, <2>4, <2>8 DEF Closed
    <3>2. Live \subseteq S \cap Live BY <1>1, <3>1
    <3>3. next'[e] # NULL => next'[e] \in S BY <2>1, <2>8, <3>2 DEF Closed
    <3> QED BY <1>2, <2>3, <3>2, <3>3
  <2> QED BY <1>3, <1>5, <2>2, <2>5, <2>6, <2>7, <2>8
<1> QED BY <1>4, <1>5

LEMMA FreeKeeps ==
  ASSUME TypeOK, ListInv, NEW c \in Live, websockFree(c), Live' = Live \ {c}
  PROVE  ListInv'
<1>1. /\ llStart = NULL => Live = {}
      /\ llStart # NULL => llStart \in Live /\ \E w \in Live : next[w] = NULL
      /\ \A v \in Live : next[v] \in Live \cup {NULL} /\ next[v] # llStart
      /\ \A v, w \in Live : next[v] = next[w] => v = w
      /\ \A S \in SUBSET Clients : Closed(S, llStart, next) => Live \subseteq S
  BY Zenon DEF ListInv, HasNext, Closed
<1>2. /\ next \in [Clients -> Clients \cup {NULL}] /\ Live \subseteq Clients /\ c # NULL
      /\ c \in Clients
  BY Thresholds DEF TypeOK, Live
<1>3. ASSUME llStart' = NULL => Live' = {},
             llStart' # NULL => llStart' \in Live' /\ \E w \in Live' : next'[w] = NULL,
             \A v \in Live' : next'[v] \in Live' \cup {NULL} /\ next'[v] # llStart',
             \A v, w \in Live' : next'[v] = next'[w] => v = w,
             \A S \in SUBSET Clients : Closed(S, llStart', next') => Live' \subseteq S
      PROVE  ListInv'
  BY <1>3, Zenon DEF ListInv, HasNext, Closed
<1>4. CASE llStart = c
  <2>1. llStart' = next[c] /\ next' = next BY <1>4, Zenon DEF websockFree
  <2>2. llStart' = NULL => Live' = {}
    <3>1. SUFFICES ASSUME next[c] = NULL PROVE Live \subseteq {c}
      BY <2>1
    <3>2. Closed({c}, llStart, next) BY <1>4, <3>1 DEF Closed
    <3> QED BY <1>1, <1>2, <3>2
  <2>3. llStart' # NULL => llStart' \in Live' /\ \E w \in Live' : next'[w] = NULL
    BY <1>1, <1>2, <1>4, <2>1
  <2>4. \A v \in Live' : next'[v] \in Live' \cup {NULL} /\ next'[v] # llStart'
    BY <1>1, <1>4, <2>1
  <2>5. \A v, w \in Live' : next'[v] = next'[w] => v = w BY <1>1, <2>1
  <2>6. ASSUME NEW S \in SUBSET Clients, Closed(S, llStart', next') PROVE Live' \subseteq S
    <3>1. Closed(S \cup {c}, llStart, next) BY <1>4, <2>1, <2>6 DEF Closed
    <3>2. Live \subseteq S \cup {c} BY <1>1, <1>2, <3>1
    <3> QED BY <3>2
  <2> QED BY <1>3, <2>2, <2>3, <2>4, <2>5, <2>6
<1>5. CASE llStart # c
  <2>1. /\ next' = [w \in Clients |-> IF next[w] = c /\ w \in Listed THEN next[c] ELSE next[w]]
        /\ llStart' = llStart
    BY <1>5, Zenon DEF websockFree
  <2>2. \A v \in Live : next'[v] = IF next[v] = c THEN next[c] ELSE next[v]
    BY <1>2, <2>1, ListedIsLive
  <2>3. llStart # NULL /\ llStart \in Live \ {c} BY <1>1, <1>5
  <2>4. \E p \in Live \ {c} : next[p] = c
    <3>1. SUFFICES ASSUME \A p \in Live \ {c} : next[p] # c PROVE FALSE
      OBVIOUS
    <3>2. Closed(Live \ {c}, llStart, next) BY <1>1, <2>3, <3>1 DEF Closed
    <3>3. Live \subseteq Live \ {c} BY <1>1, <1>2, <3>2
    <3> QED BY <3>3
  <2>5. PICK p \in Live \ {c} : next[p] = c BY <2>4
  <2>6. next[c] # c /\ \A v \in Live : next[v] = c => v = p BY <1>1, <2>5
  <2>7. llStart' \in Live' /\ \E w \in Live' : next'[w] = NULL
    <3>1. PICK e \in Live : next[e] = NULL BY <1>1, <2>3
    <3>2. e = c => next'[p] = NULL BY <2>2, <2>5, <3>1
    <3>3. e # c => next'[e] = NULL BY <1>2, <2>2, <3>1
    <3> QED BY <2>1, <2>3, <2>5, <3>1, <3>2, <3>3
  <2>8. \A v \in Live' : next'[v] \in Live' \cup {NULL} /\ next'[v] # llStart'
    BY <1>1, <2>1, <2>2, <2>6
  <2>9. \A v, w \in Live' : next'[v] = next'[w] => v = w
    BY <1>1, <2>2, <2>6
  <2>10. ASSUME NEW S \in SUBSET Clients, Closed(S, llStart', next') PROVE Live' \subseteq S
    <3>1. /\ llStart \in S
          /\ \A w \in S : next'[w] # NULL => next'[w] \in S
      BY <2>1, <2>3, <2>10 DEF Closed
    <3>2. CASE p \in S
      <4>1. next[c] # NULL => next[c] \in (S \cap Live) \cup {c} BY <1>1, <2>2, <2>5, <3>1, <3>2
      <4>2. \A w \in S \cap Live : next[w] # NULL => next[w] \in (S \cap Live) \cup {c}
        BY <1>1, <2>2, <3>1
      <4>3. Closed((S \cap Live) \cup {c}, llStart, next) BY <2>3, <3>1, <4>1, <4>2 DEF Closed
      <4>4. Live \subseteq (S \cap Live) \cup {c} BY <1>1, <1>2, <4>3
      <4> QED BY <4>4
    <3>3. CASE p \notin S
      <4>1. \A w \in (S \cap Live) \ {c} : next[w] # NULL => next[w] \in (S \cap Live) \ {c}
        BY <1>1, <2>2, <2>6, <3>1, <3>3
      <4>2. Closed((S \cap Live) \ {c}, llStart, next) BY <2>3, <3>1, <4>1 DEF Closed
      <4>3. Live \subseteq (S \cap Live) \ {c} BY <1>1, <1>2, <4>2
      <4> QED BY <4>3
    <3> QED BY <3>2, <3>3
  <2> QED BY <1>3, <2>1, <2>3, <2>7, <2>8, <2>9, <2>10
<1> QED BY <1>4, <1>5

LEMMA StandingStep ==
  ASSUME NEW s \in SocketType, Standing(s)
  PROVE  /\ Standing(Sent(s)) /\ Sent(s).ws = s.ws
         /\ s.phase = "open" /\ ~s.recvHdl => Standing(Accept(s)) /\ Accept(s).ws = "live"
         /\ Standing(Decline(s)) /\ Decline(s).ws = s.ws
         /\ s.ws = "live" => Standing(Done(s)) /\ Done(s).ws = "NULL"
BY DEF Standing, SocketType, Sent, Accept, Decline, Done

LEMMA StandingClear == Standing(Clear) /\ Standing(Fresh) /\ Clear.ws = "NULL" /\ Fresh.ws = "NULL"
BY DEF Standing, Clear, Fresh

LEMMA StandingUntouched ==
  ASSUME NEW s, NEW t, Standing(s), Untouched(s, t)
  PROVE  Standing(t) /\ t.ws = s.ws
BY DEF Standing, Untouched

LEMMA StandingSaid ==
  ASSUME NEW s \in SocketType, Standing(s), NEW f
  PROVE  Standing(Said(s, f)) /\ Said(s, f).ws = s.ws
BY DEF Standing, SocketType, Said

LEMMA StandingHears ==
  ASSUME NEW s \in SocketType, Standing(s)
  PROVE  Standing(Hears(s)) /\ Hears(s).ws = s.ws
<1>1. Standing(Tear(s)) /\ Tear(s).ws = s.ws BY DEF Standing, SocketType, Tear
<1>2. Untouched(Tear(s), Hears(s)) BY HearsType, Zenon DEF Sends
<1> QED BY <1>1, <1>2, StandingUntouched

LEMMA StandingPacket ==
  ASSUME NEW c, NEW s \in SocketType, Standing(s), s.ws = "live", NEW k \in 1..Len(s.up)
  PROVE  LET p == Parse(c, Delivered(s, k), SubSeq(s.up, 1, k)) IN
         /\ Standing(AfterPacket(c, s, k))
         /\ AfterPacket(c, s, k).ws = IF p.over THEN "NULL" ELSE "live"
<1> DEFINE p == Parse(c, Delivered(s, k), SubSeq(s.up, 1, k))
<1>1. Standing(Delivered(s, k)) /\ Delivered(s, k).ws = "live"
  BY DEF Standing, SocketType, Delivered
<1>2. p \in ParserType /\ Untouched(Delivered(s, k), p.s) BY DeliveredType, ParseType, Zenon
<1>3. AfterPacket(c, s, k) = IF p.over THEN Done(p.s) ELSE p.s BY Zenon DEF AfterPacket
<1> HIDE DEF p
<1>4. p.s \in SocketType BY <1>2 DEF ParserType
<1>5. Standing(p.s) /\ p.s.ws = "live" BY <1>1, <1>2, StandingUntouched
<1>6. Standing(Done(p.s)) /\ Done(p.s).ws = "NULL" BY <1>4, <1>5, StandingStep
<1> QED BY <1>3, <1>5, <1>6 DEF p

ListSafe == ListInv /\ \A c \in Clients : Standing(sock[c])

LEMMA ListStep ==
  ASSUME TypeOK, ListSafe, [Next]_vars
  PROVE  ListSafe'
<1>1. /\ sock \in [Clients -> SocketType] /\ ListInv
      /\ \A c \in Clients : sock[c] \in SocketType /\ Standing(sock[c])
  BY DEF TypeOK, ListSafe
<1>2. ASSUME UNCHANGED <<llStart, next>>, Live' = Live PROVE ListInv'
  BY <1>1, <1>2 DEF ListInv, HasNext
<1>3. ASSUME NEW c \in Clients, NEW t, sock' = [sock EXCEPT ![c] = t]
      PROVE  /\ Standing(t) => \A d \in Clients : Standing(sock'[d])
             /\ Live' = IF t.ws = "live" THEN Live \cup {c} ELSE Live \ {c}
             /\ (c \in Live <=> sock[c].ws = "live")
             /\ t.ws = sock[c].ws => Live' = Live
  <2>1. \A d \in Clients : sock'[d] = IF d = c THEN t ELSE sock[d] BY <1>1, <1>3
  <2>2. \A d \in Clients : d \in Live' <=> IF d = c THEN t.ws = "live" ELSE d \in Live
    BY <2>1 DEF Live
  <2>3. Live \subseteq Clients /\ Live' \subseteq Clients BY DEF Live
  <2>4. c \in Live <=> sock[c].ws = "live" BY DEF Live
  <2>5. Live' = IF t.ws = "live" THEN Live \cup {c} ELSE Live \ {c}
    <3> HIDE DEF Live
    <3> QED BY <2>2, <2>3
  <2> QED BY <1>1, <2>1, <2>4, <2>5
<1>4. CASE cgiWebsockBroadcast
  <2>1. sock' = [c \in Clients |-> IF c \in Listed \ Echo THEN Hears(sock[c]) ELSE sock[c]]
    BY <1>4, SockAfter, Zenon
  <2>2. \A c \in Clients : Standing(Hears(sock[c])) /\ Hears(sock[c]).ws = sock[c].ws
    BY <1>1, StandingHears, Zenon
  <2>3. \A c \in Clients : Standing(sock'[c]) /\ sock'[c].ws = sock[c].ws BY <1>1, <2>1, <2>2
  <2>4. Live' = Live BY <2>3 DEF Live
  <2>5. UNCHANGED <<llStart, next>> BY <1>4 DEF cgiWebsockBroadcast
  <2> QED BY <1>2, <2>3, <2>4, <2>5 DEF ListSafe
<1>5. ASSUME NEW c \in Clients, httpdConnectCb(c) PROVE ListSafe'
  <2>1. sock' = [sock EXCEPT ![c] = Fresh] BY <1>5, SockAfter, Zenon
  <2>2. sock[c].ws = "NULL"
    <3>1. sock[c].phase = "closed" BY <1>5, Zenon DEF httpdConnectCb
    <3>2. sock[c].ws \in {"NULL", "live"} BY <1>1, Zenon DEF SocketType
    <3> QED BY <1>1, <3>1, <3>2 DEF Standing
  <2>3. UNCHANGED <<llStart, next>> BY <1>5 DEF httpdConnectCb
  <2> QED BY <1>2, <1>3, <2>1, <2>2, <2>3, StandingClear DEF ListSafe
<1>6. ASSUME NEW c \in Clients, cgiWebsocket(c) PROVE ListSafe'
  <2>0. sock[c].phase = "open" /\ sock[c].ws = "NULL" /\ ~sock[c].recvHdl
    BY <1>6, Zenon DEF cgiWebsocket
  <2>1. CASE sock' = [sock EXCEPT ![c] = Accept(sock[c])] /\ Insert(c)
    <3>1. Standing(Accept(sock[c])) /\ Accept(sock[c]).ws = "live"
      BY <1>1, <2>0, StandingStep, Zenon
    <3>2. c \notin Live /\ Live' = Live \cup {c} /\ \A d \in Clients : Standing(sock'[d])
      BY <1>3, <2>0, <2>1, <3>1
    <3> QED BY <1>1, <2>1, <3>2, InsertKeeps DEF ListSafe
  <2>2. CASE sock' = [sock EXCEPT ![c] = Decline(sock[c])] /\ UNCHANGED <<llStart, next>>
    <3>1. Standing(Decline(sock[c])) /\ Decline(sock[c]).ws = sock[c].ws
      BY <1>1, StandingStep, Zenon
    <3> QED BY <1>2, <1>3, <2>2, <3>1 DEF ListSafe
  <2>3. \/ sock' = [sock EXCEPT ![c] = Accept(sock[c])] /\ Insert(c)
        \/ sock' = [sock EXCEPT ![c] = Decline(sock[c])] /\ UNCHANGED <<llStart, next>>
    BY <1>1, <1>6 DEF cgiWebsocket, Accept, Decline
  <2> QED BY <2>1, <2>2, <2>3
<1>7. ASSUME NEW c \in Clients, httpdSentCb(c) PROVE ListSafe'
  <2>1. sock' = [sock EXCEPT ![c] = Sent(sock[c])] BY <1>7, SockAfter, Zenon
  <2>2. Standing(Sent(sock[c])) /\ Sent(sock[c]).ws = sock[c].ws
    BY <1>1, StandingStep, Zenon
  <2>3. UNCHANGED <<llStart, next>> BY <1>7 DEF httpdSentCb
  <2> QED BY <1>2, <1>3, <2>1, <2>2, <2>3 DEF ListSafe
<1>8. ASSUME NEW c \in Clients, httpdDisconCb(c) PROVE ListSafe'
  <2>1. sock' = [sock EXCEPT ![c] = Clear] BY <1>8, SockAfter, Zenon
  <2>2. Live' = Live \ {c} /\ \A d \in Clients : Standing(sock'[d])
    BY <1>3, <2>1, StandingClear
  <2>3. CASE sock[c].ws = "live"
    <3>1. c \in Live /\ websockFree(c) BY <1>8, <2>3 DEF Live, httpdDisconCb
    <3> QED BY <1>1, <2>2, <3>1, FreeKeeps DEF ListSafe
  <2>4. CASE sock[c].ws # "live"
    <3>1. c \notin Live /\ UNCHANGED <<llStart, next>> BY <1>8, <2>4 DEF Live, httpdDisconCb
    <3>2. Live' = Live BY <2>2, <3>1
    <3> QED BY <1>2, <2>2, <3>1, <3>2 DEF ListSafe
  <2> QED BY <2>3, <2>4
<1>9. ASSUME NEW c \in Clients, NEW k \in 1..Len(sock[c].up), cgiWebSocketRecv(c, k)
      PROVE  ListSafe'
  <2> DEFINE p == Parse(c, Delivered(sock[c], k), SubSeq(sock[c].up, 1, k))
             t == AfterPacket(c, sock[c], k)
  <2>1. sock' = [sock EXCEPT ![c] = t] BY <1>9, SockAfter, Zenon
  <2>2. sock[c].ws = "live" BY <1>9, Zenon DEF cgiWebSocketRecv
  <2>3. Standing(t) /\ t.ws = IF p.over THEN "NULL" ELSE "live"
    BY <1>1, <1>9, <2>2, StandingPacket, Zenon
  <2>4. IF p.over THEN websockFree(c) ELSE UNCHANGED <<llStart, next>>
    BY <1>9, Zenon DEF cgiWebSocketRecv, Delivered, Packet, Rest
  <2> HIDE DEF p, t
  <2>5. c \in Live BY <2>2 DEF Live
  <2>6. Live' = IF t.ws = "live" THEN Live \cup {c} ELSE Live \ {c}
    BY <1>3, <2>1, Zenon
  <2>7. \A d \in Clients : Standing(sock'[d]) BY <1>3, <2>1, <2>3, Zenon
  <2>8. CASE p.over
    <3>1. Live' = Live \ {c} /\ websockFree(c) BY <2>3, <2>4, <2>6, <2>8
    <3> QED BY <1>1, <2>5, <2>7, <3>1, FreeKeeps DEF ListSafe
  <2>9. CASE ~p.over
    <3>1. Live' = Live BY <2>3, <2>5, <2>6, <2>9
    <3> QED BY <1>2, <2>4, <2>7, <2>9, <3>1 DEF ListSafe
  <2> QED BY <2>8, <2>9
<1>10. ASSUME NEW c \in Clients, Reset(c) PROVE ListSafe'
  <2>1. llStart' = NULL /\ sock' = [w \in Clients |-> Clear] BY <1>10 DEF Reset
  <2>2. Live' = {} /\ \A d \in Clients : Standing(sock'[d]) BY <2>1, StandingClear DEF Live
  <2>3. ListInv' BY <2>1, <2>2 DEF ListInv
  <2> QED BY <2>2, <2>3 DEF ListSafe
<1>11. ASSUME NEW c \in Clients, NEW f \in Frames, Say(c, f) PROVE ListSafe'
  <2>1. sock' = [sock EXCEPT ![c] = Said(sock[c], f)] BY <1>11, SockAfter, Zenon
  <2>2. Standing(Said(sock[c], f)) /\ Said(sock[c], f).ws = sock[c].ws
    BY <1>1, StandingSaid, Zenon
  <2>3. UNCHANGED <<llStart, next>> BY <1>11 DEF Say
  <2> QED BY <1>2, <1>3, <2>1, <2>2, <2>3 DEF ListSafe
<1>12. CASE UNCHANGED vars
  <2>1. Live' = Live /\ UNCHANGED <<llStart, next>> /\ sock' = sock BY <1>12 DEF vars, Live
  <2> QED BY <1>1, <1>2, <2>1 DEF ListSafe
<1> QED
  BY <1>4, <1>5, <1>6, <1>7, <1>8, <1>9, <1>10, <1>11, <1>12 DEF Next

LEMMA ListInit == Init => ListSafe
<1>1. Init => Live = {} /\ llStart = NULL BY StandingClear DEF Init, Live
<1>2. Init => \A c \in Clients : Standing(sock[c]) BY StandingClear DEF Init
<1>3. Live = {} /\ llStart = NULL => ListInv BY DEF ListInv
<1> QED BY <1>1, <1>2, <1>3, Zenon DEF ListSafe

LEMMA ListIsExactFollows ==
  ASSUME TypeOK, ListSafe
  PROVE  ListIsExact
<1>1. ListInv BY DEF ListSafe
<1>2. Listed = {c \in Clients : sock[c].ws = "live"} BY <1>1, ListedIsLive DEF Live
<1>3. /\ llStart # NULL => \E w \in Live : next[w] = NULL
      /\ \A v \in Live : next[v] # llStart
      /\ \A v, w \in Live : next[v] = next[w] => v = w
  BY <1>1, Zenon DEF ListInv
<1>4. Listed = Live BY <1>1, ListedIsLive
<1> QED BY <1>2, <1>3, <1>4 DEF ListIsExact

(* The list that websockets are put into by cgiWebsocket and taken out of  *)
(* by websockFree, when the peer, a frame or an error ends them, holds the *)
(* sockets that are alive and no other, each once, and has an end: a walk  *)
(* of cgiWebsockBroadcast reaches each of them and stops.                  *)
THEOREM ListIsAlwaysExact == Spec => []ListIsExact
<1>1. Init => TypeOK /\ ListSafe BY TypeInit, ListInit
<1>2. TypeOK /\ ListSafe /\ [Next]_vars => TypeOK' /\ ListSafe' BY TypeStep, ListStep
<1>3. TypeOK /\ ListSafe => ListIsExact BY ListIsExactFollows
<1> QED BY <1>1, <1>2, <1>3, PTL DEF Spec
=============================================================================
