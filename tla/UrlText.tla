------------------------------ MODULE UrlText ------------------------------
(***************************************************************************)
(* What the web server makes of the text of a request (core/httpd.c): the  *)
(* lines of its header, the arguments of a form, and their percent code.   *)
(* Text is a sequence of bytes, a buffer of C without its terminator.      *)
(***************************************************************************)
EXTENDS BitStrings, SequencesExt

NUL == 0
LF == 10
CR == 13
SPACE == 32
PERCENT == 37
AMPERSAND == 38
PLUS == 43
COLON == 58
EQUALS == 61
QUESTION == 63

httpdHexVal(c) ==
  CASE c \in 48..57 -> c - 48
    [] c \in 65..70 -> c - 55
    [] c \in 97..102 -> c - 87
    [] OTHER -> 0

(* esced: how much of an escape was read; an escape that is not finished   *)
(* is dropped.  Returns what is put into ret.                              *)
Decoding == [ret |-> <<>>, esced |-> 0, escVal |-> 0]
DecodeByte(d, c) ==
  CASE d.esced = 1 -> [d EXCEPT !.escVal = httpdHexVal(c) * 16, !.esced = 2]
    [] d.esced = 2 -> [d EXCEPT !.ret = Append(@, d.escVal + httpdHexVal(c)), !.esced = 0]
    [] d.esced = 0 /\ c = PERCENT -> [d EXCEPT !.esced = 1]
    [] d.esced = 0 /\ c = PLUS -> [d EXCEPT !.ret = Append(@, SPACE)]
    [] OTHER -> [d EXCEPT !.ret = Append(@, c)]
RECURSIVE DecodeFrom(_, _, _)
DecodeFrom(d, val, retLen) ==
  IF val = <<>> \/ Len(d.ret) >= retLen THEN d.ret
  ELSE DecodeFrom(DecodeByte(d, Head(val)), Tail(val), retLen)
httpdUrlDecode(val, retLen) == DecodeFrom(Decoding, val, retLen)

(* strstr(p, "&"): what is before the first one, and what is from there on.*)
IndexOf(text, c) ==
  LET at == {i \in DOMAIN text : text[i] = c}
  IN  IF at = {} THEN Len(text) + 1 ELSE CHOOSE i \in at : \A j \in at : i <= j
Before(text, c) == SubSeq(text, 1, IndexOf(text, c) - 1)
Behind(text, c) == SubSeq(text, IndexOf(text, c) + 1, Len(text))

(* The name must be that of the whole field.                               *)
NotFound == [len |-> -1, buff |-> <<>>]
MutantHasName(p, arg) == IsPrefix(arg, p)
HasName(p, arg) == IsPrefix(Append(arg, EQUALS), p)

RECURSIVE httpdFindArg(_, _, _)
httpdFindArg(line, arg, buffLen) ==
  IF line = <<>> \/ Head(line) \in {CR, LF} THEN NotFound
  ELSE IF HasName(line, arg)
  THEN LET val == SubSeq(line, Len(arg) + 2, Len(line))
           ret == httpdUrlDecode(Before(val, AMPERSAND), buffLen)
       IN  [len |-> Len(ret), buff |-> ret]
  ELSE httpdFindArg(Behind(line, AMPERSAND), arg, buffLen)
-----------------------------------------------------------------------------
RECURSIVE SkipSpaces(_)
SkipSpaces(text) == IF text # <<>> /\ Head(text) = SPACE THEN SkipSpaces(Tail(text)) ELSE text
RECURSIVE SkipCrap(_)
SkipCrap(text) ==
  IF text # <<>> /\ Head(text) <= 32 THEN SkipCrap(Tail(text)) ELSE text

(* head: its lines, each a string of its own.  The first line is two: its  *)
(* URL was ended by a zero.                                                *)
LineWith(head, header, first) ==
  LET at == {i \in first..Len(head) : IsPrefix(Append(header, COLON), SkipCrap(head[i]))}
  IN  IF at = {} THEN <<>> ELSE SkipCrap(head[CHOOSE i \in at : \A j \in at : i <= j])
Value(line, header, retLen) ==
  LET value == SkipSpaces(SubSeq(line, Len(header) + 2, Len(line)))
      ends == {i \in DOMAIN value : value[i] \in {CR, LF}} \cup {Len(value) + 1, retLen}
  IN  SubSeq(value, 1, (CHOOSE i \in ends : \A j \in ends : i <= j) - 1)

httpdGetHeader(head, header, retLen) ==
  LET line == LineWith(head, header, 3)
  IN  [found |-> line # <<>>, ret |-> IF line = <<>> THEN <<>> ELSE Value(line, header, retLen)]

(* The lines of a header one by one.  A name is one byte here: G and P for *)
(* the methods, H for "Host:", N for "Connection:", L for "Content-Length:"*)
(* the value of which is one byte, its number.                             *)
Get == 71
Post == 80
Host == 72
Connection == 78
ContentLength == 76
Http11 == <<49>>           \* "HTTP/1.1"
Close == <<99>>            \* "close"
NoRequest ==
  [requestType |-> "none", url |-> <<>>, getArgs |-> <<>>, hostName |-> <<>>,
   flags |-> {}, len |-> -1, buffSize |-> 0]

(* The URL ends at the first space; without one the line counts as far as  *)
(* it goes.                                                                *)
FirstLine(h, conn) ==
  LET rest == SubSeq(h, 3, Len(h))
      target == Before(rest, SPACE)
      whole == IndexOf(rest, SPACE) > Len(rest)
      protocol == SkipSpaces(Behind(rest, SPACE))
  IN  IF whole THEN [conn EXCEPT !.url = rest]
      ELSE [conn EXCEPT
              !.url = Before(target, QUESTION), !.getArgs = Behind(target, QUESTION),
              !.flags = IF protocol = Http11 THEN @ \cup {"HTTP11", "CHUNKED"} ELSE @]

httpdParseHeader(h, conn, maxPost) ==
  LET value == SkipSpaces(SubSeq(h, 3, Len(h))) IN
  IF Len(h) < 2 THEN conn
  ELSE CASE h[1] = Get /\ h[2] = SPACE -> FirstLine(h, [conn EXCEPT !.requestType = "GET"])
         [] h[1] = Post /\ h[2] = SPACE -> FirstLine(h, [conn EXCEPT !.requestType = "POST"])
         [] h[1] = Host /\ h[2] = COLON -> [conn EXCEPT !.hostName = value]
         [] h[1] = Connection /\ h[2] = COLON ->
              [conn EXCEPT !.flags = IF IsPrefix(Close, value) THEN @ \ {"CHUNKED"} ELSE @]
         [] h[1] = ContentLength /\ h[2] = COLON /\ value # <<>> ->
              [conn EXCEPT !.len = value[1], !.buffSize = Smaller(value[1], maxPost)]
         [] OTHER -> conn
=============================================================================
