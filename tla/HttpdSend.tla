----------------------------- MODULE HttpdSend -----------------------------
(***************************************************************************)
(* How an answer of the web server is put together (core/httpd.c): the     *)
(* send buffer a handler writes to, the chunks of HTTP/1.1, and the        *)
(* answers that consist of little more than a header.  What HttpdConn      *)
(* counts as a piece is here a sequence of bytes.                          *)
(*                                                                         *)
(* A byte of a header that matters is a number below zero: the status, the *)
(* names of the lines, the type of the content and the empty line.         *)
(***************************************************************************)
EXTENDS BitStrings, SequencesExt

CONSTANT MAX_SENDBUFF_LEN
ASSUME SendBufferAssumption == MAX_SENDBUFF_LEN \in Nat /\ MAX_SENDBUFF_LEN > 13

Status(code) == -code
CloseLine == -1
ChunkedLine == -2
LocationLine == -3
TypeLine == -4
CacheLine == -5
AuthLine == -6
EmptyLine == -10
TypeOf(n) == -20 - n
CRLF == <<13, 10>>

(* The answer in the making: flags HFL_CHUNKED and HFL_SENDINGBODY, the    *)
(* position of chunkHdr in the buffer or 0, whether there is a handler.    *)
(* "sent" is what the socket was given; "offered" is how much this call of *)
(* the handler wanted to send, "most" how much any of its calls did.       *)
NoAnswer(chunked) ==
  [chunked |-> chunked, body |-> FALSE, chunkHdr |-> 0, cgi |-> "NULL", buff |-> <<>>,
   sent |-> <<>>, offered |-> 0, most |-> 0, overrun |-> FALSE]


(* What does not fit is left out, and only the caller is told.             *)
httpdSend(s, data) ==
  LET opens == s.chunked /\ s.body /\ s.chunkHdr = 0
      t == [s EXCEPT !.offered = @ + Len(data)]
  IN  IF data = <<>> THEN s
      ELSE IF Len(s.buff) + Len(data) + (IF opens THEN 6 ELSE 0) > MAX_SENDBUFF_LEN THEN t
      ELSE [t EXCEPT !.chunkHdr = IF opens THEN Len(s.buff) + 1 ELSE @,
                     !.buff = @ \o (IF opens THEN <<48, 48, 48, 48>> \o CRLF ELSE <<>>) \o data]

httpdHexNibble(val) == LET v == val % 16 IN IF v < 10 THEN 48 + v ELSE 55 + v

(* The end of a chunk: CR LF, if there is room, and its length up front.   *)
FixUp(s) ==
  LET t == httpdSend(s, CRLF)
      len == Len(t.buff) - (s.chunkHdr - 1) - 8
  IN  [t EXCEPT !.chunkHdr = 0,
         !.buff = [i \in DOMAIN @ |->
                     IF i \in s.chunkHdr..(s.chunkHdr + 3)
                     THEN httpdHexNibble(len \div 16^(s.chunkHdr + 3 - i)) ELSE @[i]]]

NullChunk == <<48>> \o CRLF \o CRLF

httpdFlushSendBuffer(s) ==
  LET t == IF s.chunkHdr # 0 THEN FixUp(s) ELSE s
      end == IF t.chunked /\ t.body /\ t.cgi = "NULL" THEN NullChunk ELSE <<>>
  IN  [t EXCEPT !.sent = @ \o t.buff \o end, !.buff = <<>>, !.offered = 0,
                !.most = IF s.offered > @ THEN s.offered ELSE @,
                !.overrun = @ \/ Len(t.buff \o end) > MAX_SENDBUFF_LEN]

(* A chunked answer is flushed before its flags are cleared.               *)
httpdCgiIsDone(s) ==
  IF s.chunked
  THEN [httpdFlushSendBuffer([s EXCEPT !.cgi = "NULL"]) EXCEPT !.chunked = FALSE, !.body = FALSE]
  ELSE [s EXCEPT !.cgi = "NULL"]
-----------------------------------------------------------------------------
(* An answer is what the functions for its header send, part by part, and  *)
(* behind the empty line the parts of its body.                            *)
httpdStartResponse(s, code) ==
  <<<<Status(code), IF s.chunked THEN ChunkedLine ELSE CloseLine>>>>
httpdHeader(field, val) == <<<<field>>, val>>
httpdEndHeaders(s) == [httpdSend(s, <<EmptyLine>>) EXCEPT !.body = TRUE]
SendPart(s, part) == IF part = <<EmptyLine>> THEN httpdEndHeaders(s) ELSE httpdSend(s, part)
Respond(s, code, headers, body) ==
  FoldLeft(SendPart, s, httpdStartResponse(s, code) \o headers \o <<<<EmptyLine>>>> \o body)

MovedTo == <<77>>          \* "Moved to "
httpdRedirect(s, url) == Respond(s, 302, httpdHeader(LocationLine, url), <<MovedTo, url>>)
cgiNotFound(s) == Respond(s, 404, <<>>, <<<<78>>>>)
-----------------------------------------------------------------------------
(* The other side: what a browser makes of the bytes it has received.      *)
HexDigit(c) == IF c < 58 THEN c - 48 ELSE c - 55

RECURSIVE Dechunk(_)
Dechunk(bytes) ==
  IF bytes = NullChunk THEN [ok |-> TRUE, data |-> <<>>]
  ELSE IF Len(bytes) < 6 \/ SubSeq(bytes, 5, 6) # CRLF THEN [ok |-> FALSE, data |-> <<>>]
  ELSE LET len == 4096 * HexDigit(bytes[1]) + 256 * HexDigit(bytes[2])
                  + 16 * HexDigit(bytes[3]) + HexDigit(bytes[4])
       IN  IF Len(bytes) < len + 8 \/ SubSeq(bytes, len + 7, len + 8) # CRLF
           THEN [ok |-> FALSE, data |-> <<>>]
           ELSE LET rest == Dechunk(SubSeq(bytes, len + 9, Len(bytes))) IN
                [ok |-> rest.ok, data |-> SubSeq(bytes, 7, len + 6) \o rest.data]

Received(bytes) ==
  LET empty == CHOOSE i \in DOMAIN bytes : bytes[i] = EmptyLine
      header == SubSeq(bytes, 1, empty)
      body == SubSeq(bytes, empty + 1, Len(bytes))
      plain == IF ChunkedLine \in ToSet(header) THEN Dechunk(body) ELSE [ok |-> TRUE, data |-> body]
  IN  [status |-> -bytes[1], header |-> header, ok |-> plain.ok, body |-> plain.data]
=============================================================================
