------------------------- MODULE WebSocketInvariant -------------------------
(***************************************************************************)
(* What is always true of the sockets of WebSocket, as an inductive        *)
(* invariant: the list links the sockets that are alive, and the parser of *)
(* a socket that is alive stands at a byte of a frame of its browser, with *)
(* all that follows from the bytes before it and nothing else.             *)
(***************************************************************************)
EXTENDS WebSocket

Byte == 0..255
ByteSeq == Seq(Byte)
ByteSeqs == Seq(ByteSeq)
Masks == [1..4 -> Byte]
GoodSeq == Seq(GoodFrames)

SocketType ==
  [phase : {"closed", "open", "closing"}, ws : {"NULL", "live"}, recvHdl : BOOLEAN,
   done : BOOLEAN, busy : BOOLEAN, wsStatus : ST_FLAGS..ST_PAYLOAD, flags : Byte,
   len8 : Byte, len : Nat, mask : Masks, maskCtr : Nat, frameCont : BOOLEAN,
   closedHere : BOOLEAN, said : GoodSeq, up : ByteSeq, rest : ByteSeq, text : ByteSeq,
   pongs : ByteSeqs, torn : BOOLEAN]

TypeOK ==
  /\ llStart \in Clients \cup {NULL} /\ next \in [Clients -> Clients \cup {NULL}]
  /\ sock \in [Clients -> SocketType] /\ debug \in Nat
-----------------------------------------------------------------------------
(* The list.                                                               *)
Live == {c \in Clients : sock[c].ws = "live"}
ListInv ==
  /\ llStart = NULL => Live = {}
  /\ llStart # NULL => llStart \in Live /\ \E w \in Live : next[w] = NULL
  /\ \A v \in Live : next[v] \in Live \cup {NULL} /\ next[v] # llStart
  /\ \A v, w \in Live : next[v] = next[w] => v = w
  /\ \A S \in SUBSET Clients : HasNext(S) => Live \subseteq S

(* A socket is alive on an open connection only.                           *)
Standing(s) ==
  /\ ~s.recvHdl => s.ws = "NULL" /\ ~s.done
  /\ s.ws = "live" => s.phase = "open" /\ ~s.done
-----------------------------------------------------------------------------
(* The parser of a socket, o bytes into the frame f.                       *)
Head2(f) == 2 + Len(LengthField(Len(f.payload)))
Size(f) == Len(Header(f)) + Len(f.payload)

(* The number in the first k bytes of the length field.                    *)
LengthSoFar(n, k) ==
  IF n <= LEN16 THEN IF k = 0 THEN 0 ELSE n \div 256
  ELSE IF k < 5 THEN 0
  ELSE IF k = 5 THEN n \div 16777216 ELSE IF k = 6 THEN n \div 65536 ELSE n \div 256

StatusAt(f, o) ==
  IF o = 0 THEN ST_FLAGS ELSE IF o = 1 THEN ST_LEN0
  ELSE IF o < Head2(f) THEN ST_LEN1 + (o - 2)
  ELSE IF o < Len(Header(f)) THEN ST_MASK1 + (o - Head2(f)) ELSE ST_PAYLOAD

HeaderAt(s, f, o) ==
  /\ s.wsStatus = StatusAt(f, o)
  /\ o >= 1 => s.flags = Flags(f.op, f.fin)
  /\ o >= 2 => s.len8 = Header(f)[2]
  /\ o \in 2..Head2(f) - 1 => s.len = LengthSoFar(Len(f.payload), o - 2)
  /\ o \in Head2(f)..Len(Header(f)) => s.len = Len(f.payload)
  /\ \A j \in 1..4 : o >= Head2(f) + j => s.mask[j] = Mask[j]
  /\ o \in 1..Len(Header(f)) => s.maskCtr = 0
  /\ o \in 1..Len(Header(f)) - 1 => ~s.frameCont

Accepted(f) == ~Refused(f) /\ f.op # OPCODE_CLOSE

PayloadAt(s, f, o) ==
  o >= Len(Header(f)) =>
    /\ s.frameCont /\ Accepted(f)
    /\ s.maskCtr = o - Len(Header(f))
    /\ s.len = Len(f.payload) - (o - Len(Header(f)))

(* The stream of bytes the socket has not parsed begins behind the o-th    *)
(* byte of the i-th frame.                                                 *)
Begin(frames, i) == Len(Bytes(SubSeq(frames, 1, i - 1)))
Located(s, stream, i, o) ==
  /\ i \in 1..Len(s.said) + 1
  /\ o \in Nat /\ (i <= Len(s.said) => o < Size(s.said[i])) /\ (i > Len(s.said) => o = 0)
  /\ stream = SubSeq(Bytes(s.said), Begin(s.said, i) + o + 1, Len(Bytes(s.said)))
  /\ \A j \in 1..i - 1 : Accepted(s.said[j])

Parsed(s, i, o) ==
  IF i > Len(s.said) THEN s.wsStatus = ST_FLAGS
  ELSE HeaderAt(s, s.said[i], o) /\ PayloadAt(s, s.said[i], o)

(* What the browser has got for it.                                        *)
PongBegun(f, m) == <<Flags(OPCODE_PONG, TRUE), Len(f.payload)>> \o SubSeq(f.payload, 1, m)
RestAt(frames, i, o) ==
  IF i <= Len(frames) /\ frames[i].op = OPCODE_PING /\ o >= Len(Header(frames[i]))
  THEN PongBegun(frames[i], o - Len(Header(frames[i]))) ELSE <<>>
Answered(s, i, o) ==
  ~s.torn => LET n == Begin(s.said, i) + o IN
    /\ s.text = DataOf(s.said, n) /\ s.pongs = PingsOf(s.said, n)
    /\ s.rest = RestAt(s.said, i, o)

Good(s, stream) ==
  \E i \in 1..Len(s.said) + 1 : \E o \in 0..Len(Bytes(s.said)) :
    Located(s, stream, i, o) /\ Parsed(s, i, o) /\ Answered(s, i, o)

(* A socket that is done.                                                  *)
Over(said, left) ==
  \/ \E i \in DOMAIN said : Refused(said[i])
  \/ /\ said # <<>> /\ said[Len(said)].op = OPCODE_CLOSE
     /\ Len(left) <= Len(said[Len(said)].payload)

ClosedLast(said) == \A i \in 1..Len(said) - 1 : said[i].op # OPCODE_CLOSE

Unused(s) ==
  /\ s.ws = "NULL" /\ ~s.done /\ s.wsStatus = ST_FLAGS /\ ~s.closedHere /\ ~s.torn
  /\ s.said = <<>> /\ s.up = <<>> /\ s.rest = <<>> /\ s.text = <<>> /\ s.pongs = <<>>

SocketInv(s) ==
  /\ Standing(s) /\ ClosedLast(s.said)
  /\ s.phase = "closed" => ~s.recvHdl
  /\ ~s.recvHdl => Unused(s)
  /\ s.recvHdl /\ s.ws = "NULL" => Over(s.said, s.up)
  /\ s.ws = "live" => ~s.closedHere /\ Good(s, s.up)

Inv == TypeOK /\ ListInv /\ \A c \in Clients : SocketInv(sock[c])
=============================================================================
