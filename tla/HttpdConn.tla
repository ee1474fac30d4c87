----------------------------- MODULE HttpdConn -----------------------------
(***************************************************************************)
(* The connections of the web server (src/libesphttpd/core/httpd.c): the   *)
(* pool, the receive state machine that lives in post->len, the handler    *)
(* that is called again whenever its last output was sent, the backlog of  *)
(* output the socket would not take, and the end of a connection.          *)
(*                                                                         *)
(* The callbacks of the SDK run to completion, in any order the network    *)
(* allows: data arrives between two calls of a handler, the next request   *)
(* arrives before the sent callback of the last answer, and the browser    *)
(* leaves at any time.                                                     *)
(*                                                                         *)
(* A request is sent as HEAD pieces, the last of which ends the header,    *)
(* and then one piece per word of its body, cut into packets anywhere.     *)
(* The header fits into MAX_HEAD_LEN: of a longer one the code drops the   *)
(* rest, never sees its end and never answers (httpd.c:727-728).  A        *)
(* browser sends its next request when it has the whole answer.  Only an   *)
(* upload has a body longer than MAX_POST.  An answer is a sequence of     *)
(* pieces: "head", "block" for every call of httpdSend with a part of a    *)
(* file, "error" for the text of an upload that failed, and "end", the     *)
(* null chunk.                                                             *)
(***************************************************************************)
EXTENDS CgiFlash

CONSTANTS Clients,                \* remote address and port of a connection
          None,                   \* a free slot
          HTTPD_MAX_CONNECTIONS,
          MAX_BACKLOG,            \* buffers, MAX_BACKLOG_SIZE in the code
          MAX_POST,               \* words of the post buffer
          Pages, Uploads,         \* bounds: what browsers ask for, and
          Uploaders               \*   those of them that upload firmware

(* What a browser asks for.  short: a handler that answers in one call, a  *)
(* redirection, a form or the 404; file: cgiEspFsHook or cgiEspFsTemplate  *)
(* with that many full blocks and, if tail, a shorter one behind them;     *)
(* upload: cgiUploadFirmware.  keep: HTTP/1.1 without "Connection: close". *)
Ask(kind, blocks, tail, image, body, keep) ==
  [kind |-> kind, blocks |-> blocks, tail |-> tail, image |-> image, body |-> body, keep |-> keep]
Form(body, keep) == Ask("short", 0, FALSE, NoImage, body, keep)
File(blocks, tail, keep) == Ask("file", blocks, tail, NoImage, 0, keep)
Upload(f, keep) == Ask("upload", 0, FALSE, f, f.size, keep)

Forms ==
  [kind : {"short"}, blocks : {0}, tail : {FALSE}, image : {NoImage},
   body : 0..MAX_POST, keep : BOOLEAN]
Files ==
  [kind : {"file"}, blocks : Nat, tail : BOOLEAN, image : {NoImage},
   body : {0}, keep : BOOLEAN]
FirmwareFiles ==
  [kind : {"upload"}, blocks : {0}, tail : {FALSE}, image : Images,
   body : Nat, keep : BOOLEAN]

ASSUME HttpdAssumption ==
  /\ None \notin Clients
  /\ HTTPD_MAX_CONNECTIONS \in Nat \ {0}
  /\ MAX_BACKLOG \in Nat \ {0}
  /\ MAX_POST \in Nat \ {0}
  /\ Pages \subseteq Forms \cup Files
  /\ Uploads \subseteq FirmwareFiles /\ \A r \in Uploads : r.body = r.image.size
  /\ Uploaders \subseteq Clients

(* The handler compares the size of the whole file with that of the flash  *)
(* and not the sizes its header has for the two images with that of a      *)
(* half: it is the makers of a firmware file who see to that.              *)
ASSUME ImagesFit ==
  \A r \in Uploads : Complete(r.image) => Place(r.image) \subseteq Cells

VARIABLES
  connData,     \* the pool: the client each slot belongs to, or None
  socket,       \* what the SDK does with each client: closed, open, closing
  conn          \* HttpdConnData, the output and the browser of each client

vars == <<connData, socket, conn>>

Slots == 1..HTTPD_MAX_CONNECTIONS
HEAD == 2

Request(c) == IF c \in Uploaders THEN Uploads ELSE Pages
AnyRequest == Form(0, TRUE)

(* The whole answer to a request.  A file that ends early is an error, but *)
(* it has the status of a success, and so has one of no bytes.             *)
Answer(r) ==
  <<IF r.kind = "upload" /\ r.body > 0 /\ Rejected(r.image) THEN "head400" ELSE "head">>
    \o [i \in 1..(r.blocks + (IF r.tail THEN 1 ELSE 0)) |-> "block"]
    \o (IF r.kind = "upload" /\ ~Complete(r.image) THEN <<"error">> ELSE <<>>)
    \o (IF r.keep THEN <<"end">> ELSE <<>>)

Piece == {"head", "head400", "block", "error", "end"}
Flags == {"CHUNKED", "SENDINGBODY", "DISCONAFTERSENT"}
HttpdConnData ==
  [len : Int, received : Nat, buffLen : Nat, cgi : {"NULL", "file", "upload"},
   left : Nat, opened : BOOLEAN, upload : UploadState, early : BOOLEAN,
   flags : SUBSET Flags, buff : Seq(Piece), backlog : Seq(Seq(Piece)),
   tx : {"idle", "sending", "arrived"}, flight : Seq(Piece),
   req : Forms \cup Files \cup FirmwareFiles, sent : Nat, got : Seq(Piece)]

(* The connection httpdConnectCb sets up.                                  *)
Fresh ==
  [len      |-> -1,          \* post->len: -1 while the header is received
   received |-> 0,           \* post->received
   buffLen  |-> 0,           \* post->buffLen
   cgi      |-> "NULL",      \* cgi; a handler between two calls
   left     |-> 0,           \* blocks its file has left
   opened   |-> FALSE,       \* its file is open, its data allocated
   upload   |-> UploadStart, \* what its data holds
   early    |-> FALSE,       \* history: it was called amid a block
   flags    |-> {},          \* priv->flags
   buff     |-> <<>>,        \* priv->sendBuff
   backlog  |-> <<>>,        \* priv->sendBacklog
   tx       |-> "idle",      \* socket: idle, sending, or arrived: the
   flight   |-> <<>>,        \*   buffer it took; the sent callback is owed
   req      |-> AnyRequest,  \* browser: what it asks for,
   sent     |-> HEAD,        \*   how many pieces of that it has sent,
   got      |-> Answer(AnyRequest)]   \*   and what it has of the answer

Init ==
  /\ connData = [i \in Slots |-> None]
  /\ socket = [c \in Clients |-> "closed"]
  /\ conn = [c \in Clients |-> Fresh]
-----------------------------------------------------------------------------
(* Sending.  Each operator maps a connection to a connection, as the       *)
(* functions of the code work on the HttpdConnData they are given.         *)

Send(s, pieces) == [s EXCEPT !.buff = @ \o pieces]

Chunk(s) == s.buff \o (IF {"CHUNKED", "SENDINGBODY"} \subseteq s.flags /\ s.cgi = "NULL"
                       THEN <<"end">> ELSE <<>>)

(* The socket takes one buffer at a time; a second one goes to the backlog *)
(* or, when that is full, nowhere.                                         *)
MutantFlushDrops(s) ==
  IF Chunk(s) = <<>> THEN s
  ELSE IF s.tx = "idle"
  THEN [s EXCEPT !.buff = <<>>, !.tx = "sending", !.flight = Chunk(s)]
  ELSE [s EXCEPT !.buff = <<>>]
httpdFlushSendBuffer(s) ==
  IF Chunk(s) = <<>> THEN s
  ELSE IF s.tx = "idle"
  THEN [s EXCEPT !.buff = <<>>, !.tx = "sending", !.flight = Chunk(s)]
  ELSE IF Len(s.backlog) >= MAX_BACKLOG
  THEN [s EXCEPT !.buff = <<>>]
  ELSE [s EXCEPT !.buff = <<>>, !.backlog = Append(@, Chunk(s))]

(* A chunked answer leaves the connection ready for the next request, any  *)
(* other has it closed when everything is sent.                            *)
MutantDoneKeepsCount(s) ==
  IF "CHUNKED" \in s.flags
  THEN [httpdFlushSendBuffer([s EXCEPT !.cgi = "NULL"]) EXCEPT !.len = -1, !.flags = {}]
  ELSE [s EXCEPT !.cgi = "NULL", !.flags = @ \cup {"DISCONAFTERSENT"}]
httpdCgiIsDone(s) ==
  IF "CHUNKED" \in s.flags
  THEN [httpdFlushSendBuffer([s EXCEPT !.cgi = "NULL"]) EXCEPT
          !.len = -1, !.received = 0, !.buffLen = 0, !.flags = {}]
  ELSE [s EXCEPT !.cgi = "NULL", !.flags = @ \cup {"DISCONAFTERSENT"}]

(* httpdStartResponse .. httpdEndHeaders.                                  *)
StartResponse(s, status) == [Send(s, <<status>>) EXCEPT !.flags = @ \cup {"SENDINGBODY"}]

(* A call of the upload handler with what is in the post buffer.           *)
PostBuffer(s) == [i \in 1..s.buffLen |-> s.received - s.buffLen + i]
UploadBlock(s) ==
  LET u == cgiUploadFirmware(s.req.image, s.upload, PostBuffer(s))
      t == [s EXCEPT !.upload = u]
  IN  IF s.received # s.len THEN t
      ELSE httpdCgiIsDone([Send(StartResponse(t, IF u.state = "ERROR" THEN "head400" ELSE "head"),
                                IF u.state = "DONE" THEN <<>> ELSE <<"error">>)
                           EXCEPT !.opened = FALSE])

(* The first call of the handler that accepts the request.                 *)
httpdProcessRequest(s) ==
  CASE s.req.kind = "short" -> httpdCgiIsDone(StartResponse(s, "head"))
    [] s.req.kind = "file" ->
         httpdFlushSendBuffer([StartResponse(s, "head") EXCEPT
           !.cgi = "file", !.opened = TRUE, !.left = s.req.blocks])
    [] s.req.kind = "upload" ->
         httpdFlushSendBuffer(UploadBlock([s EXCEPT
           !.cgi = "upload", !.opened = TRUE, !.upload = UploadStart]))

(* A later call of a file handler; a file that ends at a block boundary    *)
(* takes a last call that sends nothing.                                   *)
FileBlock(s) ==
  IF s.left > 0
  THEN [Send(s, <<"block">>) EXCEPT !.left = @ - 1]
  ELSE httpdCgiIsDone([Send(s, IF s.req.tail THEN <<"block">> ELSE <<>>) EXCEPT
                         !.opened = FALSE])

(* The sent callback calls whatever handler there is, the one of an upload *)
(* with the part of a block that it will be called with again.             *)
CallAgain(s) ==
  IF s.cgi = "file" THEN FileBlock(s)
  ELSE UploadBlock([s EXCEPT !.early = @ \/ s.buffLen > 0])

(* Called when the socket has become free.                                 *)
SendBacklog(s) ==
  [s EXCEPT !.tx = "sending", !.flight = Head(s.backlog), !.backlog = Tail(@)]
MutantCgiFirst(s) ==
  IF s.cgi # "NULL" THEN httpdFlushSendBuffer(CallAgain(s))
  ELSE IF s.backlog # <<>> THEN SendBacklog(s)
  ELSE s
httpdContinue(s) ==
  IF s.backlog # <<>> THEN SendBacklog(s)
  ELSE IF "DISCONAFTERSENT" \in s.flags \/ s.cgi = "NULL" THEN s
  ELSE httpdFlushSendBuffer(CallAgain(s))

(* It is closed when it is marked and nothing waits.                       *)
MutantDisconnects(s) == "DISCONAFTERSENT" \in s.flags
Disconnects(s) == s.backlog = <<>> /\ "DISCONAFTERSENT" \in s.flags
-----------------------------------------------------------------------------
(* Receiving.  The bytes of a packet are looked at one by one.  A handler  *)
(* that is called with a block stays until the last one.                   *)

HeaderByte(s) ==
  IF s.sent # HEAD THEN s
  ELSE LET t == [s EXCEPT !.len = s.req.body,
                          !.flags = IF s.req.keep THEN {"CHUNKED"} ELSE {}]
       IN  IF t.len = 0 THEN httpdProcessRequest(t) ELSE t

BuffSize(s) == IF s.len > MAX_POST THEN MAX_POST ELSE s.len

PostByte(s) ==
  LET t == [s EXCEPT !.buffLen = @ + 1, !.received = @ + 1]
      u == IF t.cgi = "NULL" THEN httpdProcessRequest(t) ELSE UploadBlock(t)
  IN  IF t.buffLen >= BuffSize(t) \/ t.received = t.len
      THEN [u EXCEPT !.buffLen = 0] ELSE t

Byte(s) ==
  LET t == [s EXCEPT !.sent = @ + 1]
  IN  IF t.len = -1 THEN HeaderByte(t) ELSE IF t.len # 0 THEN PostByte(t) ELSE t

Packet(s, k) == Iterate([t \in HttpdConnData |-> Byte(t)], s, k)

Pieces(r) == HEAD + r.body

httpdRecvCb(c, k) ==
  LET s == conn[c] IN
  /\ socket[c] = "open" /\ s.sent + k <= Pieces(s.req)
  /\ conn' = [conn EXCEPT ![c] =
       httpdFlushSendBuffer(Packet(s, k))]
  /\ UNCHANGED <<connData, socket>>

httpdSentCb(c) ==
  /\ socket[c] = "open" /\ conn[c].tx = "arrived"
  /\ \E s \in {[conn[c] EXCEPT !.tx = "idle", !.flight = <<>>]} :
       /\ conn' = [conn EXCEPT ![c] = httpdContinue(s)]
       /\ socket' = [socket EXCEPT ![c] = IF Disconnects(s) THEN "closing" ELSE @]
  /\ UNCHANGED connData
-----------------------------------------------------------------------------
(* The pool.                                                               *)

FreeSlots == {i \in Slots : connData[i] = None}

httpdConnectCb(c) ==
  /\ socket[c] = "closed" /\ socket' = [socket EXCEPT ![c] = "open"]
  /\ \E i \in FreeSlots :
       /\ \A j \in FreeSlots : i <= j
       /\ connData' = [connData EXCEPT ![i] = c]
       /\ conn' = [conn EXCEPT ![c] = [Fresh EXCEPT !.opened = conn[c].opened]]

(* A handler that has more to send is called without a connection, to      *)
(* clean up.                                                               *)
CleanUp(s) == IF s.cgi = "NULL" THEN s ELSE [s EXCEPT !.opened = FALSE]

MutantRetireOther(c) == [i \in Slots |-> IF connData[i] = c THEN c ELSE None]
httpdRetireConn(c) == [i \in Slots |-> IF connData[i] = c THEN None ELSE connData[i]]

MutantDisconNoCleanUp(c) ==
  /\ socket[c] # "closed" /\ socket' = [socket EXCEPT ![c] = "closed"]
  /\ conn' = [conn EXCEPT ![c] = [Fresh EXCEPT !.opened = conn[c].opened]]
  /\ connData' = httpdRetireConn(c)
httpdDisconCb(c) ==
  /\ socket[c] # "closed" /\ socket' = [socket EXCEPT ![c] = "closed"]
  /\ conn' = [conn EXCEPT ![c] = [Fresh EXCEPT !.opened = CleanUp(conn[c]).opened]]
  /\ connData' = httpdRetireConn(c)
-----------------------------------------------------------------------------
(* The browser and the network.                                            *)

Arrive(c) ==
  /\ socket[c] # "closed" /\ conn[c].tx = "sending"
  /\ conn' = [conn EXCEPT ![c] = [@ EXCEPT !.tx = "arrived",
                                            !.got = conn[c].got \o conn[c].flight]]
  /\ UNCHANGED <<connData, socket>>

Answered(s) == s.sent = Pieces(s.req) /\ s.got = Answer(s.req)

NextRequest(c) ==
  /\ socket[c] = "open" /\ Answered(conn[c]) /\ conn[c].req.keep
  /\ \E r \in Request(c) :
       conn' = [conn EXCEPT ![c] = [@ EXCEPT !.req = r, !.sent = 0, !.got = <<>>,
                                      !.upload = UploadStart, !.early = FALSE]]
  /\ UNCHANGED <<connData, socket>>

Next == \E c \in Clients :
  \/ httpdConnectCb(c) \/ httpdSentCb(c) \/ httpdDisconCb(c)
  \/ \E k \in 1..Pieces(conn[c].req) : httpdRecvCb(c, k)
  \/ Arrive(c) \/ NextRequest(c)

(* TCP delivers what the socket took, and the SDK reports it: the one is   *)
(* enabled by the other.                                                   *)
Fairness == \A c \in Clients : WF_vars(Arrive(c) \/ httpdSentCb(c))

Spec == Init /\ [][Next]_vars /\ Fairness
-----------------------------------------------------------------------------
Sizes == {r.body : r \in Pages \cup Uploads}

TypeOK ==
  /\ connData \in [Slots -> Clients \cup {None}]
  /\ socket \in [Clients -> {"closed", "open", "closing"}]
  /\ conn \in [Clients -> HttpdConnData]
  /\ \A c \in Clients : LET s == conn[c] IN
     /\ s.len \in {-1, 0} \cup Sizes
     /\ s.received \in 0..(IF s.len = -1 THEN 0 ELSE s.len) /\ s.buffLen \in 0..MAX_POST - 1
     /\ s.left \in 0..s.req.blocks /\ Len(s.upload.page) \in 0..PAGELEN - 1 /\ s.buff = <<>>
     /\ s.req \in Request(c) \cup {AnyRequest} /\ s.sent \in 0..Pieces(s.req)

(* Every connection the SDK reports on owns one slot, a connection that is *)
(* gone owns none, so that httpdFindConnData finds what it looks for and   *)
(* the pool never runs dry.                                                *)
PoolIsExact ==
  /\ {connData[i] : i \in Slots} \ {None} = {c \in Clients : socket[c] # "closed"}
  /\ \A i, j \in Slots : connData[i] = connData[j] /\ connData[i] # None => i = j

(* A file is open only while its handler is to be called again: it is      *)
(* closed by the last call, or by the call without a connection when the   *)
(* browser leaves in between (README of libesphttpd: "We can use this to   *)
(* clean up any data").                                                    *)
FilesAreClosed ==
  \A c \in Clients : conn[c].opened <=> socket[c] # "closed" /\ conn[c].cgi # "NULL"

(* What the browser has, what is under way and what waits in the backlog   *)
(* is, in this order, the begin of the answer to its request: nothing is   *)
(* lost, repeated or overtaken, although a flush tries the socket before   *)
(* it looks at the backlog.                                                *)
Waiting(s) == (IF s.tx = "sending" THEN s.flight ELSE <<>>)
              \o (IF s.backlog = <<>> THEN <<>> ELSE Head(s.backlog))
AnswerInOrder ==
  \A c \in Clients : LET s == conn[c]
                         a == s.got \o Waiting(s) IN
    /\ Len(s.backlog) <= 1
    /\ \/ Len(a) <= Len(Answer(s.req)) /\ a = SubSeq(Answer(s.req), 1, Len(a))
       \/ s.early

(* An upload is written word by word to where it belongs, however its body *)
(* is cut into packets, blocks and pages, no sector is erased that holds a *)
(* page of it, and when the whole of a complete file has arrived, the      *)
(* whole image is there.  Not so if the sent callback of the answer before *)
(* comes amid a block: httpdContinue then calls the handler with a part of *)
(* the block that it is given once more.                                   *)
UploadIsExact ==
  \A c \in Clients : LET s == conn[c] IN
    s.req.kind = "upload" /\ ~s.early =>
      /\ NoWordIsWrong(s.req.image, s.upload.flash)
      /\ s.sent = Pieces(s.req) /\ Complete(s.req.image) =>
           ImageIsThere(s.req.image, s.upload.flash)

(* The server closes a connection only after the browser has the whole     *)
(* answer ("Mark to get it killed after all data is sent", httpd.c:458).   *)
ClosedAfterAnswer ==
  [][\A c \in Clients : socket[c] = "open" /\ socket'[c] = "closing" =>
       Answered(conn[c]) \/ conn[c].early]_vars

(* A request that has been sent is answered to the end, unless the browser *)
(* leaves: every buffer that waits is followed by a sent callback.         *)
RequestIsAnswered ==
  \A c \in Clients :
    socket[c] = "open" /\ conn[c].sent = Pieces(conn[c].req) ~>
      socket[c] = "closed" \/ Answered(conn[c]) \/ conn[c].early
=============================================================================
