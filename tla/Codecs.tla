------------------------------- MODULE Codecs -------------------------------
(***************************************************************************)
(* What is taken apart here and what put it together: the compressed file  *)
(* (Heatshrink), and the short texts a browser, a server or the author of  *)
(* the station list sends, which grow a byte at a time.  What a browser or *)
(* a server does to a text is external.                                    *)
(***************************************************************************)
EXTENDS Heatshrink

CONSTANTS Symbols,   \* the bytes of a text
          MaxText    \* its length (a bound)

U == INSTANCE UrlText
B == INSTANCE Base64
N == INSTANCE Strtol
S == INSTANCE StreamList

VARIABLE text
vars == <<file, enc, wire, dec, sunk, out, text>>

Init == HsInit /\ text = <<>>

(* A text is written while nothing is compressed.                          *)
Write(b) ==
  /\ file = <<>> /\ enc.state = "NOT_FULL" /\ Len(text) < MaxText
  /\ \A s \in Settings : enc.w <= s[1]      \* with one of the settings only
  /\ text' = Append(text, b)
  /\ UNCHANGED hsVars

Next ==
  \/ text = <<>> /\ HsNext /\ UNCHANGED text
  \/ \E b \in Symbols : Write(b)

Spec == Init /\ [][Next]_vars
-----------------------------------------------------------------------------
(* A form as a browser sends it.                                           *)
IsPlain(c) == N!Stdout_s32IsAlpha(c) \/ N!Stdout_s32IsDigit(c)
Hex(n) == IF n < 10 THEN 48 + n ELSE 55 + n
Escape(c) == IF IsPlain(c) THEN <<c>>
             ELSE IF c = U!SPACE THEN <<U!PLUS>>
             ELSE <<U!PERCENT, Hex(c \div 16), Hex(c % 16)>>
Encode(t) == FlattenSeq([i \in DOMAIN t |-> Escape(t[i])])
Field(name, t) == Append(name, U!EQUALS) \o Encode(t)
UpTo(t, n) == SubSeq(t, 1, Smaller(Len(t), n))

(* Every field of a form is found by its whole name, and its value is what *)
(* the user has typed, up to the room there is (httpdFindArg): a value     *)
(* that holds "&", "=", "%" or "+" is not taken for the next field.        *)
A == <<97>>
AA == <<97, 97>>
Other == <<52>>
FormArgIsFound ==
  LET form == Field(AA, Reverse(text)) \o <<U!AMPERSAND>> \o Field(A, text) IN
  \A room \in 1..MaxText + 1 :
    /\ U!httpdFindArg(form, A, room).buff = UpTo(text, room)
    /\ U!httpdFindArg(form, AA, room).buff = UpTo(Reverse(text), room)
    /\ U!httpdFindArg(form, Other, room) = U!NotFound

(* A request with that target, and its header lines in either order.       *)
Lines == <<<<U!Connection, U!COLON, U!SPACE>> \o U!Close, <<U!ContentLength, U!COLON, 9>>,
           <<U!Host, U!COLON, U!SPACE>> \o A>>
Request(target, http, lines) ==
  <<<<U!Post, U!SPACE>> \o target \o <<U!SPACE>> \o http>> \o lines
Parsed(lines) ==
  FoldLeft(LAMBDA conn, h : U!httpdParseHeader(h, conn, 4), U!NoRequest, lines)
Target == SelectSeq(text, LAMBDA c : c \notin {U!SPACE, U!CR, U!LF})

(* Page and arguments are told apart at the first "?", and the answer may  *)
(* be sent in chunks only to a client of HTTP/1.1 that has not asked to    *)
(* close the connection, whatever the order of the lines of the header     *)
(* (httpdParseHeader).                                                     *)
HeadIsUnderstood ==
  \A http \in {U!Http11, Other}, close \in BOOLEAN :
    LET lines == SubSeq(Lines, IF close THEN 1 ELSE 2, 3)
        r == Parsed(Request(Target, http, lines))
    IN  /\ r = Parsed(Request(Target, http, Reverse(lines)))
        /\ r.url = U!Before(Target, U!QUESTION) /\ r.getArgs = U!Behind(Target, U!QUESTION)
        /\ "CHUNKED" \in r.flags <=> http = U!Http11 /\ ~close
        /\ r.requestType = "POST" /\ r.hostName = A /\ r.len = 9 /\ r.buffSize = 4

(* The head of that request as it is kept: the target is two strings when  *)
(* it has arguments.  A header is found whatever the target and the other  *)
(* headers look like (httpdGetHeader).                                     *)
Typed == SelectSeq(text, LAMBDA c : c \notin {U!CR, U!LF})
Kept(first) ==
  <<<<U!Get, U!SPACE>> \o U!Before(first, U!QUESTION)>>
  \o (IF U!QUESTION \in ToSet(first) THEN <<U!Behind(first, U!QUESTION)>> ELSE <<>>)
  \o <<U!Http11, <<U!LF, 52, U!COLON>> \o Typed, <<U!LF, 97, U!COLON, U!SPACE>> \o Typed>>
HeaderIsFound ==
  \A room \in 1..MaxText + 2 :
    LET r == U!httpdGetHeader(Kept(Target), A, room) IN
    r.found /\ r.ret = UpTo(U!SkipSpaces(Typed), room - 1)

(* The server sees in a request what the browser has put into it: page,    *)
(* fields and headers (httpdFindArg, httpdParseHeader, httpdGetHeader).    *)
RequestIsUnderstood == FormArgIsFound /\ HeadIsUnderstood /\ HeaderIsFound
-----------------------------------------------------------------------------
(* Whatever is encoded is decoded to the same bytes, and the encoder fails *)
(* exactly when the text and its terminator do not fit (base64.c).         *)
Base64RoundTrip ==
  LET length == 4 * ((Len(text) + 2) \div 3)
      code == B!base64_encode(text, length + 1)
  IN  /\ code.len = length
      /\ B!base64_encode(text, length) = B!Failed
      /\ B!base64_decode_libesp(code.out, Len(text)).out = text
      /\ text # <<>> => B!base64_decode_libesp(code.out, Len(text) - 1) = B!Failed

(* A request is let through exactly when it names a user and her password, *)
(* also where one is the beginning of another or holds a ":" (authBasic).  *)
Users == <<[user |-> <<97>>, pass |-> <<52>>], [user |-> <<97, 97>>, pass |-> <<>>],
           [user |-> <<>>, pass |-> <<58>>]>>
OnlyUsersPass ==
  LET header == [found |-> TRUE, ret |-> B!Basic \o B!base64_encode(text, 99).out] IN
  B!authBasic(header, Users, MaxText) = "AUTHENTICATED"
    <=> \E i \in DOMAIN Users : text = Users[i].user \o B!Colon \o Users[i].pass

(* The password page knows its users, by a code that loses nothing.        *)
PasswordIsChecked == Base64RoundTrip /\ OnlyUsersPass
-----------------------------------------------------------------------------
(* A number that starts with a digit or a sign is read up to the first     *)
(* byte that is no digit, and held at the ends of the range where it is    *)
(* outside (Stdout_s32Strtol).                                             *)
LongMax == 73
NumberIsExact ==
  \A base \in {8, 10, 16} :
    LET r == N!Stdout_s32Strtol(text, base, LongMax)
        signed == text # <<>> /\ Head(text) = U!PLUS
        s == IF signed THEN Tail(text) ELSE text
        n == CHOOSE k \in 0..Len(s) :
               /\ \A i \in 1..k : N!Digit(s[i]) < base
               /\ k < Len(s) => N!Digit(s[k + 1]) >= base
        exact == MapThenSumSet(LAMBDA i : N!Digit(s[i]) * base^(n - i), 1..n)
    IN  (text # <<>> /\ ~N!Stdout_s32IsAlpha(text[1]))
          => /\ r.value = Smaller(exact, LongMax)
             /\ r.end = IF n = 0 THEN text ELSE SubSeq(s, n + 1, Len(s))

(* An answer that is sent in chunks is put together again whatever bytes   *)
(* are in it (HTTPC_iChunkedDecode), if no chunk is longer than nine bytes:*)
(* a length that starts with a letter is misread.                          *)
ChunkOf(t) == <<48 + Len(t)>> \o N!CRLF \o t \o N!CRLF
ChunksAreDecoded ==
  text # <<>> => N!HTTPC_iChunkedDecode(ChunkOf(text) \o ChunkOf(Reverse(text)) \o <<48>> \o N!CRLF)
                   = text \o Reverse(text)

(* What a server sends in chunks is read by the numbers it announces.      *)
ChunksAreRead == NumberIsExact /\ ChunksAreDecoded

(* The stations of a list whose lines end with CR LF are all found, names  *)
(* and addresses, whatever follows the file in memory.                     *)
StreamListIsParsed ==
  LET name == SelectSeq(text, LAMBDA c : c # S!SEMICOLON)
      address == IF N!Cut(text, N!CRLF).found THEN A ELSE text
      list == name \o <<S!SEMICOLON>> \o address \o N!CRLF \o A \o <<S!SEMICOLON>> \o A \o N!CRLF
  IN  \A heap \in {<<>>, text} :
        LET found == S!Control_vGetStreamCount(list, heap) IN
        /\ UpTo(found.stream_name, 2) = <<name, A>>
        /\ UpTo(found.stream_address, 2) = <<address, A>>
=============================================================================
