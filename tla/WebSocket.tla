----------------------------- MODULE WebSocket -----------------------------
(***************************************************************************)
(* The web sockets of the HTTP server (libesphttpd/util/cgiwebsocket.c)    *)
(* with the handlers of the radio (cgi.c): the frame parser that is fed    *)
(* one TCP packet at a time, the answers, the list of open sockets that a  *)
(* broadcast walks, and the end of a socket.                               *)
(*                                                                         *)
(* A stream is a sequence of bytes.  Bytes of payload and mask stand for   *)
(* their lowest bit; the thresholds of the length field are parameters, so *)
(* that short frames have every form of header.  Buffers and backlog of a  *)
(* connection are those of HttpdConn: here a connection is busy until all  *)
(* it has sent is acknowledged.                                            *)
(***************************************************************************)
EXTENDS Integers, Sequences, SequencesExt

CONSTANTS Clients, NULL,
          Echo,                \* clients of myEchoWebsocketRecv; the others
                               \* are those of myWebsocketRecv
          LEN7,                \* 126, the first length with a longer field
          LEN16,               \* 65535, the last length of a 16 bit field
          Frames,              \* what a browser may send
          MaxUnread,           \* bounds: of what is under way when it sends a frame,
          MaxFrames, MaxDebug  \* frames of a socket, broadcasts

INT_MAX == 2147483647   \* the lengths of cgiWebsocketSend and sendFrameHead are ints
OPCODE_CONTINUE == 0
OPCODE_TEXT == 1
OPCODE_BINARY == 2
OPCODE_CLOSE == 8
OPCODE_PING == 9
OPCODE_PONG == 10
DataOps == {OPCODE_TEXT, OPCODE_BINARY, OPCODE_CONTINUE}

(* What a browser sends.  It masks every payload; of one that does not,    *)
(* the server refuses the data.  A byte stands for its lowest bit.         *)
GoodFrames ==
  {f \in [op : 0..15, fin : BOOLEAN, masked : BOOLEAN, payload : Seq({0, 1})] :
     Len(f.payload) < INT_MAX /\ (f.masked \/ f.op \in DataOps)}

ASSUME WebSocketAssumption ==
  /\ NULL \notin Clients /\ Echo \subseteq Clients
  /\ LEN7 \in 3..126 /\ LEN16 \in LEN7..65535
  /\ \A f \in Frames : f \in GoodFrames
  /\ MaxUnread \in Nat /\ MaxFrames \in Nat /\ MaxDebug \in Nat

VARIABLES llStart,  \* the first of the list of sockets
          next,     \* WebsockPriv.next of each client's socket
          sock,     \* connection, socket and browser of each client
          debug     \* broadcasts made

vars == <<llStart, next, sock, debug>>

FLAG_FIN == 128
IS_MASKED == 128
ST_FLAGS == 0
ST_LEN0 == 1
ST_LEN1 == 2
ST_LEN2 == 3
ST_LEN8 == 9
ST_MASK1 == 10
ST_MASK4 == 13
ST_PAYLOAD == 14

Garbage == 9   \* the byte behind the end of a packet
Xor(a, b) == (a + b) % 2
-----------------------------------------------------------------------------
(* What a browser sends and reads.                                         *)

Mask == <<1, 0, 1, 1>>

Flags(op, fin) == op + (IF fin THEN FLAG_FIN ELSE 0)
Two(n) == <<(n \div 256) % 256, n % 256>>
Four(n) == <<(n \div 16777216) % 256, (n \div 65536) % 256>> \o Two(n)

LengthCode(n) == IF n < LEN7 THEN n ELSE IF n <= LEN16 THEN LEN7 ELSE LEN7 + 1
LengthField(n) ==
  IF n < LEN7 THEN <<>> ELSE IF n <= LEN16 THEN Two(n) ELSE <<0, 0, 0, 0>> \o Four(n)

Header(f) ==
  <<Flags(f.op, f.fin), (IF f.masked THEN IS_MASKED ELSE 0) + LengthCode(Len(f.payload))>>
  \o LengthField(Len(f.payload)) \o (IF f.masked THEN Mask ELSE <<>>)
Masked(f) ==
  [i \in 1..Len(f.payload) |-> IF f.masked THEN Xor(f.payload[i], Mask[((i - 1) % 4) + 1])
                               ELSE f.payload[i]]
Encode(f) == Header(f) \o Masked(f)

Refused(f) == \/ f.op \in DataOps /\ ~f.masked
              \/ f.op = OPCODE_PING /\ Len(f.payload) >= LEN7

(* Clear: no connection.  Fresh: a connection without web socket.          *)
Clear ==
  [phase |-> "closed",     \* of the connection: closed, open, closing
   ws |-> "NULL",          \* cgiData: NULL or live
   recvHdl |-> FALSE,      \* recvHdl is set
   done |-> FALSE,         \* HFL_DISCONAFTERSENT; cgi is NULL
   busy |-> FALSE,         \* a sent callback is owed
   wsStatus |-> ST_FLAGS, flags |-> 0, len8 |-> 0, len |-> 0,
   mask |-> <<0, 0, 0, 0>>, maskCtr |-> 0, frameCont |-> FALSE, closedHere |-> FALSE,
   said |-> <<>>,          \* browser: the frames it has sent,
   up |-> <<>>,            \*   their bytes that are under way,
   rest |-> <<>>,          \*   what it has got of a frame that is not whole,
   text |-> <<>>,          \*   its own bytes that came back,
   pongs |-> <<>>,         \*   and the payloads of the pongs
   torn |-> FALSE]         \* a broadcast went into the middle of a pong
Fresh == [Clear EXCEPT !.phase = "open"]

Init ==
  /\ llStart = NULL /\ next = [c \in Clients |-> NULL]
  /\ sock = [c \in Clients |-> Clear] /\ debug = 0
-----------------------------------------------------------------------------
(* Sending.                                                                *)

(* "You sent: ", and the text of a debug message.                          *)
YouSent == <<7>>
Debug == <<8>>

(* The browser takes a frame as soon as it has all of it; no call of       *)
(* httpdSend holds the ends of two.  It keeps what it has said itself, and *)
(* reads no more when a frame went into the middle of another.             *)
HeadSize(b) == IF b[2] < LEN7 THEN 2 ELSE IF b[2] = LEN7 THEN 4 ELSE 10
PayloadSize(b) ==
  CASE HeadSize(b) = 2 -> b[2]
    [] HeadSize(b) = 4 -> b[3] * 256 + b[4]
    [] HeadSize(b) = 10 -> b[7] * 16777216 + b[8] * 65536 + b[9] * 256 + b[10]
IsWhole(b) ==
  Len(b) >= 2 /\ Len(b) >= HeadSize(b) /\ Len(b) >= HeadSize(b) + PayloadSize(b)
Own(p) == IF p # <<>> /\ p[1] \in {YouSent[1], Debug[1]} THEN Tail(p) ELSE p

TakeFrame(s) ==
  LET b == s.rest
      end == HeadSize(b) + PayloadSize(b)
      p == SubSeq(b, HeadSize(b) + 1, end)
  IN  [s EXCEPT !.rest = SubSeq(b, end + 1, Len(b)),
                !.text = IF b[1] % 16 \in DataOps THEN @ \o Own(p) ELSE @,
                !.pongs = IF b[1] % 16 = OPCODE_PONG THEN Append(@, p) ELSE @]

BrowserReads(s) == IF IsWhole(s.rest) THEN TakeFrame(s) ELSE s

httpdSend(s, bytes) ==
  IF s.torn THEN [s EXCEPT !.busy = TRUE]
  ELSE BrowserReads([s EXCEPT !.busy = TRUE, !.rest = @ \o bytes])

sendFrameHead(s, flags, len) ==
  httpdSend(s, <<flags>> \o
    (IF len > LEN16 THEN <<LEN7 + 1, 0, 0, 0, 0>> \o Four(len)
     ELSE IF len >= LEN7 THEN <<LEN7>> \o Two(len)
     ELSE <<len>>))

(* flags: the subset of WEBSOCK_FLAG_BIN and WEBSOCK_FLAG_CONT that is set. *)
SendOp(flags) == IF "BIN" \in flags THEN OPCODE_BINARY ELSE OPCODE_TEXT
cgiWebsocketSend(s, data, flags) ==
  LET t == sendFrameHead(s, Flags(SendOp(flags), "CONT" \notin flags), Len(data)) IN
  IF data = <<>> THEN t ELSE httpdSend(t, data)

MutantCloseNotSent(s, reason) == [s EXCEPT !.closedHere = TRUE]
cgiWebsocketClose(s, reason) ==
  [httpdSend(sendFrameHead(s, Flags(OPCODE_CLOSE, TRUE), 2), reason) EXCEPT
     !.closedHere = TRUE]

recvCb(c, s, data, flags) ==
  IF c \in Echo THEN cgiWebsocketSend(s, data, flags)
  ELSE cgiWebsocketSend(s, YouSent \o data, {})
-----------------------------------------------------------------------------
(* Receiving: one byte of a header, then as much of the payload as the     *)
(* packet holds.  "over" says that the socket is done.                     *)

LengthDone(s) ==
  [s EXCEPT !.wsStatus = IF s.len8 >= IS_MASKED THEN ST_MASK1 ELSE ST_PAYLOAD]

HeaderByte(s, b) ==
  CASE s.wsStatus = ST_FLAGS ->
        [s EXCEPT !.maskCtr = 0, !.frameCont = FALSE, !.flags = b, !.wsStatus = ST_LEN0]
    [] s.wsStatus = ST_LEN0 ->
        IF b % 128 >= LEN7 THEN [s EXCEPT !.len8 = b, !.len = 0, !.wsStatus = ST_LEN1]
        ELSE LengthDone([s EXCEPT !.len8 = b, !.len = b % 128])
    [] s.wsStatus \in ST_LEN1..ST_LEN8 ->
        LET t == [s EXCEPT !.len = @ * 256 + b] IN
        IF s.wsStatus = ST_LEN8 \/ (s.wsStatus = ST_LEN2 /\ s.len8 % 128 = LEN7)
        THEN LengthDone(t) ELSE [t EXCEPT !.wsStatus = @ + 1]
    [] s.wsStatus \in ST_MASK1..ST_MASK4 ->
        [s EXCEPT !.mask[s.wsStatus - ST_MASK1 + 1] = b, !.wsStatus = @ + 1]

MutantFinishForgetsMask(s, sl) ==
  [s EXCEPT !.maskCtr = 0, !.len = @ - sl,
            !.wsStatus = IF s.len = sl THEN ST_FLAGS ELSE @,
            !.frameCont = IF s.len = sl THEN @ ELSE TRUE]
Finish(s, sl) ==
  [s EXCEPT !.maskCtr = @ + sl, !.len = @ - sl,
            !.wsStatus = IF s.len = sl THEN ST_FLAGS ELSE @,
            !.frameCont = IF s.len = sl THEN @ ELSE TRUE]

MutantUnknownIsDone(c, s, data) ==
  [over |-> s.flags % 16 \in {OPCODE_CLOSE, OPCODE_PONG}, s |-> s]

RecvFlags(s) ==
  (IF s.flags % 16 = OPCODE_BINARY THEN {"BIN"} ELSE {})
  \cup (IF s.flags < FLAG_FIN THEN {"CONT"} ELSE {})

(* data: the part of the payload in this packet, unmasked.                 *)
Payload(c, s, data) ==
  LET op == s.flags % 16
      done(t) == [over |-> TRUE, s |-> t]
      more(t) == [over |-> FALSE, s |-> t]
      error == cgiWebsocketClose(s, <<3, 234>>)   \* 1002
      reason == [k \in 1..2 |-> IF k <= Len(data) THEN data[k] ELSE Garbage]
  IN  CASE op = OPCODE_PING /\ s.len >= LEN7 ->
             done(IF s.frameCont THEN s ELSE error)
        [] op = OPCODE_PING /\ s.len < LEN7 ->
             LET t == IF s.frameCont THEN s
                      ELSE sendFrameHead(s, Flags(OPCODE_PONG, TRUE), s.len)
             IN  more(IF data = <<>> THEN t ELSE httpdSend(t, data))
        [] op \in DataOps ->
             IF s.len8 < IS_MASKED THEN done(error)
             ELSE more(recvCb(c, s, data, RecvFlags(s)))
        [] op = OPCODE_CLOSE ->
             done(IF s.closedHere THEN s ELSE cgiWebsocketClose(s, reason))
        [] OTHER -> more(s)

PayloadBytes(c, s, data) ==
  LET sl == IF Len(data) < s.len THEN Len(data) ELSE s.len
      clear == [j \in 1..sl |-> Xor(data[j], s.mask[((s.maskCtr + j - 1) % 4) + 1])]
      p == Payload(c, s, clear)
  IN  IF p.over THEN [over |-> TRUE, s |-> p.s, data |-> <<>>]
      ELSE [over |-> FALSE, s |-> Finish(p.s, sl), data |-> SubSeq(data, sl + 1, Len(data))]

(* A turn of the loop: the payload may begin in the turn of the last byte  *)
(* of the header, and have no byte.                                        *)
Turn(c, p) ==
  IF p.over \/ p.data = <<>> THEN p
  ELSE IF p.s.wsStatus = ST_PAYLOAD THEN PayloadBytes(c, p.s, p.data)
  ELSE LET t == HeaderByte(p.s, Head(p.data)) IN
       IF t.wsStatus = ST_PAYLOAD THEN PayloadBytes(c, t, Tail(p.data))
       ELSE [over |-> FALSE, s |-> t, data |-> Tail(p.data)]

(* Every turn takes a byte.                                                *)
Parse(c, s, data) ==
  LET after[n \in 0..Len(data)] ==
        IF n = 0 THEN [over |-> FALSE, s |-> s, data |-> data] ELSE Turn(c, after[n - 1])
  IN  after[Len(data)]
-----------------------------------------------------------------------------
(* The list of sockets: what a walk from its first finds, and its end.     *)
HasNext(S) ==
  /\ llStart # NULL => llStart \in S
  /\ \A w \in S : next[w] # NULL => next[w] \in S
Listed == {w \in Clients : \A S \in SUBSET Clients : HasNext(S) => w \in S}
EndOfList == CHOOSE w \in Listed : next[w] = NULL

Insert(ws) ==
  IF llStart = NULL
  THEN llStart' = ws /\ next' = [next EXCEPT ![ws] = NULL]
  ELSE /\ next' = [next EXCEPT ![ws] = NULL, ![EndOfList] = ws]
       /\ UNCHANGED llStart

MutantFreeFirst(ws) ==
  /\ llStart' = IF llStart = ws THEN next[ws] ELSE llStart
  /\ UNCHANGED next
websockFree(ws) ==
  IF llStart = ws THEN llStart' = next[ws] /\ UNCHANGED next
  ELSE /\ next' = [w \in Clients |-> IF next[w] = ws /\ w \in Listed
                                     THEN next[ws] ELSE next[w]]
       /\ UNCHANGED llStart
-----------------------------------------------------------------------------
(* The calls of the server.  A connection is accepted, and its request     *)
(* handed to cgiWebsocket, which accepts it, or has no memory for it, or   *)
(* answers 500: the last two leave the connection to the next request.     *)

httpdConnectCb(c) ==
  /\ sock[c].phase = "closed"
  /\ sock' = [sock EXCEPT ![c] = Fresh]
  /\ UNCHANGED <<llStart, next, debug>>

cgiWebsocket(c) ==
  /\ sock[c].phase = "open" /\ sock[c].ws = "NULL" /\ ~sock[c].recvHdl
  /\ \/ /\ sock' = [sock EXCEPT ![c].ws = "live", ![c].recvHdl = TRUE, ![c].busy = TRUE]
        /\ Insert(c)
     \/ sock' = [sock EXCEPT ![c].busy = TRUE] /\ UNCHANGED <<llStart, next>>
  /\ UNCHANGED debug

(* A packet: the next bytes that are under way.  A socket that is done has *)
(* freed its data and left recvHdl set: reading it resets the device.      *)
Packet(c, k) == SubSeq(sock[c].up, 1, k)
Rest(c, k) == SubSeq(sock[c].up, k + 1, Len(sock[c].up))

cgiWebSocketRecv(c, k) ==
  /\ sock[c].phase = "open" /\ sock[c].ws = "live" /\ k <= Len(sock[c].up)
  /\ LET p == Parse(c, [sock[c] EXCEPT !.up = Rest(c, k)], Packet(c, k)) IN
     IF p.over
     THEN /\ sock' = [sock EXCEPT ![c] = [p.s EXCEPT !.ws = "NULL", !.done = TRUE]]
          /\ websockFree(c)
     ELSE sock' = [sock EXCEPT ![c] = p.s] /\ UNCHANGED <<llStart, next>>
  /\ UNCHANGED debug

Reset(c) ==
  /\ sock[c].phase = "open" /\ sock[c].recvHdl /\ sock[c].ws = "NULL"
  /\ sock[c].up # <<>>
  /\ llStart' = NULL /\ next' = [w \in Clients |-> NULL]
  /\ sock' = [w \in Clients |-> Clear]
  /\ UNCHANGED debug

httpdSentCb(c) ==
  /\ sock[c].phase = "open" /\ sock[c].busy
  /\ sock' = [sock EXCEPT ![c].busy = FALSE,
                          ![c].phase = IF sock[c].done THEN "closing" ELSE @]
  /\ UNCHANGED <<llStart, next, debug>>

httpdDisconCb(c) ==
  /\ sock[c].phase # "closed"
  /\ IF sock[c].ws = "live" THEN websockFree(c) ELSE UNCHANGED <<llStart, next>>
  /\ sock' = [sock EXCEPT ![c] = Clear]
  /\ UNCHANGED debug

(* websockDebugOut: to every socket of ws.cgi.                             *)
InPong(s) == s.wsStatus = ST_PAYLOAD /\ s.flags % 16 = OPCODE_PING /\ s.frameCont
cgiWebsockBroadcast ==
  /\ debug < MaxDebug /\ debug' = debug + 1
  /\ sock' = [c \in Clients |->
       IF c \in Listed \ Echo
       THEN cgiWebsocketSend([sock[c] EXCEPT !.torn = @ \/ InPong(sock[c])], Debug, {})
       ELSE sock[c]]
  /\ UNCHANGED <<llStart, next>>
-----------------------------------------------------------------------------
(* The browser: it sends nothing behind a close frame, and to ws.cgi       *)
(* nothing that does not fit, with "You sent: ", into the buffer of        *)
(* myWebsocketRecv, and no zero byte, which ends that text.  As a bound,   *)
(* one browser at a time has something to say.                             *)
ROOM == 117   \* of 128 bytes, without the 10 of the text and the 0 at its end
Fits(c, f) == c \in Echo \/ f.op \notin DataOps \/ Len(f.payload) <= ROOM
Say(c, f) ==
  /\ sock[c].phase = "open" /\ sock[c].recvHdl /\ Len(sock[c].said) < MaxFrames /\ Fits(c, f)
  /\ \A i \in DOMAIN sock[c].said : sock[c].said[i].op # OPCODE_CLOSE
  /\ Len(sock[c].up) <= MaxUnread
  /\ \A d \in Clients \ {c} : sock[d].said = <<>>
  /\ sock' = [sock EXCEPT ![c].said = Append(@, f), ![c].up = @ \o Encode(f)]
  /\ UNCHANGED <<llStart, next, debug>>

Next ==
  \/ cgiWebsockBroadcast
  \/ \E c \in Clients :
       \/ httpdConnectCb(c) \/ cgiWebsocket(c) \/ httpdSentCb(c) \/ httpdDisconCb(c)
       \/ \E k \in 1..Len(sock[c].up) : cgiWebSocketRecv(c, k)
       \/ Reset(c)
       \/ \E f \in Frames : Say(c, f)

(* The SDK reports what was sent and what is closed.                       *)
Fairness == \A c \in Clients :
  /\ WF_vars(httpdSentCb(c))
  /\ WF_vars(sock[c].phase = "closing" /\ httpdDisconCb(c))

Spec == Init /\ [][Next]_vars /\ Fairness
-----------------------------------------------------------------------------
(* The list holds exactly the sockets that are alive, each once, however   *)
(* sockets come and go, so that a broadcast reaches all of them and none   *)
(* that was freed.                                                         *)
ListIsExact ==
  /\ Listed = {c \in Clients : sock[c].ws = "live"}
  /\ llStart # NULL => \E w \in Listed : next[w] = NULL
  /\ \A v, w \in Listed : next[v] # llStart /\ (next[v] = next[w] => v = w)

(* What the browser has sent, and how much of it, and of its i-th frame,   *)
(* the server has received.  Of a frame of which n bytes have arrived,     *)
(* Part is the payload that has.                                           *)
Bytes(frames) == FlattenSeq([i \in DOMAIN frames |-> Encode(frames[i])])
Received(s) == Len(Bytes(s.said)) - Len(s.up)
OfFrame(frames, i, n) == n - Len(Bytes(SubSeq(frames, 1, i - 1)))
Part(f, n) ==
  LET m == n - Len(Header(f)) IN
  IF m <= 0 THEN <<>> ELSE IF m < Len(f.payload) THEN SubSeq(f.payload, 1, m) ELSE f.payload

(* Of the first n bytes of the frames: the data, and the pings.            *)
DataOf(frames, n) ==
  FlattenSeq([i \in DOMAIN frames |->
    IF frames[i].op \in DataOps THEN Part(frames[i], OfFrame(frames, i, n)) ELSE <<>>])
PingsOf(frames, n) ==
  FlattenSeq([i \in DOMAIN frames |->
    IF frames[i].op = OPCODE_PING /\ OfFrame(frames, i, n) >= Len(Encode(frames[i]))
    THEN <<frames[i].payload>> ELSE <<>>])

(* However TCP cuts the frames into packets, the handler is given the      *)
(* bytes the browser sent, in order, none missing or twice: they come back *)
(* in the answers, the bytes that the server added taken out.              *)
EchoIsExact ==
  \A c \in Clients : LET s == sock[c] IN
    s.ws = "live" /\ ~s.torn => s.text = DataOf(s.said, Received(s))

(* Every ping that has arrived whole is answered by one pong with the same *)
(* payload, and everything the server sends can be read by the browser,    *)
(* except that a broadcast may split a pong whose ping is split.           *)
PongIsExact ==
  \A c \in Clients : LET s == sock[c] IN
    s.ws = "live" /\ ~s.torn =>
      /\ s.pongs = PingsOf(s.said, Received(s))
      /\ s.rest # <<>> => InPong(s)

(* Frames come out of the parser as they were sent, whoever they are for:  *)
(* the handler, or the server that answers a ping.                         *)
FramesComeOut == EchoIsExact /\ PongIsExact

(* A packet for a socket that is done resets the device.  It takes a frame *)
(* the server refuses, or a close frame cut before the end of its reason:  *)
(* the socket is done with the header, and the reason resets the device.   *)
ResetNeedsLateBytes ==
  [][\A c \in Clients : Reset(c) =>
       \/ \E i \in DOMAIN sock[c].said : Refused(sock[c].said[i])
       \/ Last(sock[c].said).op = OPCODE_CLOSE
             /\ Len(sock[c].up) <= Len(Last(sock[c].said).payload)]_vars

(* A socket that is done is closed: "We assume the recvhdlr has sent       *)
(* something; we'll kill the sock in the sent callback" (httpd.c:777).     *)
DoneSocketIsClosed ==
  \A c \in Clients : sock[c].done ~> sock[c].phase = "closed"
=============================================================================
