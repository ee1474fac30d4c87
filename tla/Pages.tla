------------------------------- MODULE Pages -------------------------------
(***************************************************************************)
(* The pages of the radio, from the image in the flash to the browser: the *)
(* table of URLs (user/user_main.c), the handlers of core/httpdespfs.c     *)
(* that send a file block by block, as it is or with its macros replaced,  *)
(* and the chunks the browser receives.                                    *)
(*                                                                         *)
(* A browser asks for a page; every time a part of the answer is sent, the *)
(* handler is called for the next one; the browser may leave in between.   *)
(* HttpdConn has the pool, the backlog and what else a connection has; a   *)
(* page is sent here over a connection of its own.                         *)
(***************************************************************************)
EXTENDS EspFs, HttpdSend, Templates

CONSTANTS Block,       \* bytes of a file a call of a handler reads, 1024
          TokenSize,   \* of TplData.token, 64
          HostName,    \* "webradio."
          Archives,    \* sequences of files that may be put into an image
          Modes,       \* options of mkespfsimage: compression and level
          Settings,    \* of the radio: records control, wifi
          Requests     \* of browsers: url, http11, keep, host, fromAp, auth

PERCENT == 37
SLASH == 47
DOT == 46
STAR == 42

VARIABLES files,       \* what the image was made from
          image,
          settings,
          conn,        \* the request being served, its handler's data
          answer       \* what was written for it

vars == <<files, image, settings, conn, answer>>

(* tokenPos is -1 in text, else the length of token.                       *)
NoTpl == [file |-> NoFile, tokenPos |-> -1, token |-> <<>>]
NoConn == [phase |-> "idle", req |-> [url |-> <<>>], cgi |-> "NULL", cgiArg |-> <<>>,
           file |-> NoFile, tpl |-> NoTpl]

Init ==
  /\ files \in Archives
  /\ \E m \in Modes : image = mkespfsimage(files, m[1], m[2])
  /\ settings \in Settings
  /\ conn = NoConn /\ answer = NoAnswer(FALSE)
-----------------------------------------------------------------------------
(* The handlers.  Each maps what it is given to [r, c, a]: its result, the *)
(* connection and the answer.                                              *)
Result(r, c, a) == [r |-> r, c |-> c, a |-> a]

(* From the last dot on; the type of an extension is its number.           *)
httpdGetMimetype(url) ==
  LET dots == {i \in DOMAIN url : url[i] = DOT}
      last == CHOOSE i \in dots : \A j \in dots : i >= j
      ext == IF dots = {} THEN url ELSE SubSeq(url, last + 1, Len(url))
  IN  IF Len(ext) = 1 /\ ext[1] \in 1..11 THEN ext[1] ELSE 12
ContentType(url) == <<TypeOf(httpdGetMimetype(url))>>

HookOpen(c, a) ==
  LET file == espFsOpen(image, c.req.url) IN
  IF file = NoFile THEN Result("NOTFOUND", c, a)
  ELSE Result("MORE", [c EXCEPT !.file = file],
              Respond(a, 200, httpdHeader(TypeLine, ContentType(c.req.url))
                                \o httpdHeader(CacheLine, <<>>), <<>>))

MutantHookRead(c, a, read) ==
  Result(IF Len(read.data) # Block THEN "DONE" ELSE "MORE",
         IF Len(read.data) # Block THEN [c EXCEPT !.file = NoFile] ELSE c, httpdSend(a, read.data))
HookRead(c, a, read) ==
  IF Len(read.data) # Block
  THEN Result("DONE", [c EXCEPT !.file = NoFile], httpdSend(a, read.data))
  ELSE Result("MORE", [c EXCEPT !.file = read.fh], httpdSend(a, read.data))

cgiEspFsHook(c, a) ==
  IF c.file = NoFile THEN HookOpen(c, a)
  ELSE With(espFsRead(image, c.file, Block), LAMBDA read : HookRead(c, a, read))

TemplateOpen(c, a) ==
  LET file == espFsOpen(image, c.req.url) IN
  IF file = NoFile THEN Result("NOTFOUND", c, a)
  ELSE Result("MORE", [c EXCEPT !.tpl = [NoTpl EXCEPT !.file = file]],
              Respond(a, 200, httpdHeader(TypeLine, ContentType(c.req.url)), <<>>))

Macro(c, token) ==
  IF c.cgiArg = "IndexTemplate" THEN IndexTemplate(token, settings.control)
  ELSE tplWlan(token, settings.wifi)

(* A token is cut off at the end of its array.                             *)
TokenByte(tpl, byte) ==
  IF tpl.tokenPos < TokenSize - 1
  THEN [tpl EXCEPT !.tokenPos = @ + 1, !.token = Append(@, byte)] ELSE tpl

(* One byte of a template; text is what has not been sent of this block.   *)
TemplateByte(c, t, byte) ==
  LET inText == t.tpl.tokenPos = -1 IN
  CASE inText /\ byte # PERCENT -> [t EXCEPT !.text = Append(@, byte)]
    [] inText /\ byte = PERCENT ->
         [tpl |-> [t.tpl EXCEPT !.tokenPos = 0, !.token = <<>>],
          a |-> httpdSend(t.a, t.text), text |-> <<>>]
    [] ~inText /\ byte # PERCENT -> [t EXCEPT !.tpl = TokenByte(@, byte)]
    [] ~inText /\ byte = PERCENT ->
         [t EXCEPT !.tpl.tokenPos = -1,
                   !.a = httpdSend(@, IF t.tpl.tokenPos = 0 THEN <<PERCENT>>
                                      ELSE Macro(c, t.tpl.token))]

TemplateBytes(c, t, bytes) == FoldLeft(LAMBDA u, byte : TemplateByte(c, u, byte), t, bytes)

MutantTemplateBlock(c, a, bytes) ==
  TemplateBytes(c, [tpl |-> [c.tpl EXCEPT !.tokenPos = -1], a |-> a, text |-> <<>>], bytes)
TemplateBlock(c, a, bytes) == TemplateBytes(c, [tpl |-> c.tpl, a |-> a, text |-> <<>>], bytes)

TemplateRead(c, read, t) ==
  IF Len(read.data) # Block
  THEN Result("DONE", [c EXCEPT !.tpl = NoTpl], httpdSend(t.a, t.text))
  ELSE Result("MORE", [c EXCEPT !.tpl = [t.tpl EXCEPT !.file = read.fh]], httpdSend(t.a, t.text))

cgiEspFsTemplate(c, a) ==
  IF c.tpl.file = NoFile THEN TemplateOpen(c, a)
  ELSE With(espFsRead(image, c.tpl.file, Block), LAMBDA read :
         With(TemplateBlock(c, a, read.data), LAMBDA t : TemplateRead(c, read, t)))

cgiRedirect(c, a) == Result("DONE", c, httpdRedirect(a, c.cgiArg))

(* More than eight digits and dots are an IP address.                      *)
IsIP(host) == Len(host) > 8 /\ \A i \in DOMAIN host : host[i] = DOT \/ host[i] \in 48..57
HttpSlashes == <<104, SLASH, SLASH>>     \* "http://"
cgiRedirectToHostname(c, a) ==
  LET host == c.req.host IN
  IF host = <<>> \/ IsIP(host) \/ host = c.cgiArg THEN Result("NOTFOUND", c, a)
  ELSE Result("DONE", c, httpdRedirect(a, HttpSlashes \o c.cgiArg \o <<SLASH>>))
cgiRedirectApClientToHostname(c, a) ==
  IF settings.wifi.opmode \in {2, 3} /\ c.req.fromAp THEN cgiRedirectToHostname(c, a)
  ELSE Result("NOTFOUND", c, a)

authBasic(c, a) ==
  IF c.req.auth THEN Result("AUTHENTICATED", c, a)
  ELSE Result("DONE", c, Respond(a, 401, httpdHeader(TypeLine, <<TypeOf(5)>>)
                                           \o httpdHeader(AuthLine, <<>>), <<<<65>>>>))

(* The network it is given is a matter of WifiMode.                        *)
Connecting == <<103>>                    \* "connecting.html"
cgiWiFiConnect(c, a) == Result("DONE", c, httpdRedirect(a, Connecting))

Handler(c, a) ==
  CASE c.cgi = "cgiEspFsHook" -> cgiEspFsHook(c, a)
    [] c.cgi = "cgiEspFsTemplate" -> cgiEspFsTemplate(c, a)
    [] c.cgi = "cgiRedirect" -> cgiRedirect(c, a)
    [] c.cgi = "cgiRedirectApClientToHostname" -> cgiRedirectApClientToHostname(c, a)
    [] c.cgi = "authBasic" -> authBasic(c, a)
    [] c.cgi = "cgiWiFiConnect" -> cgiWiFiConnect(c, a)
    [] c.cgi = "cgiNotFound" -> Result("DONE", c, cgiNotFound(a))
-----------------------------------------------------------------------------
(* builtInUrls; of the handlers of forms only the one that changes the     *)
(* network.  One letter stands for a part of a path: "i" for index.html,   *)
(* "w" for wifi, "c" for connect.cgi.                                      *)
Entry(url, cgi, arg) == [url |-> url, cgi |-> cgi, arg |-> arg]
IndexHtml == <<SLASH, 105>>
Wifi == <<SLASH, 119>>
WifiHtml == Wifi \o IndexHtml
ConnectCgi == Wifi \o <<SLASH, 99>>
MutantUrls == <<
  Entry(<<STAR>>, "cgiRedirectApClientToHostname", HostName),
  Entry(<<SLASH>>, "cgiRedirect", IndexHtml),
  Entry(IndexHtml, "cgiEspFsTemplate", "IndexTemplate"),
  Entry(Wifi, "cgiRedirect", WifiHtml),
  Entry(Wifi \o <<SLASH>>, "cgiRedirect", WifiHtml),
  Entry(WifiHtml, "cgiEspFsTemplate", "tplWlan"),
  Entry(ConnectCgi, "cgiWiFiConnect", "NULL"),
  Entry(Wifi \o <<SLASH, STAR>>, "authBasic", "myPassFn"),
  Entry(<<STAR>>, "cgiEspFsHook", "")>>
builtInUrls == <<
  Entry(<<STAR>>, "cgiRedirectApClientToHostname", HostName),
  Entry(<<SLASH>>, "cgiRedirect", IndexHtml),
  Entry(IndexHtml, "cgiEspFsTemplate", "IndexTemplate"),
  Entry(Wifi \o <<SLASH, STAR>>, "authBasic", "myPassFn"),
  Entry(Wifi, "cgiRedirect", WifiHtml),
  Entry(Wifi \o <<SLASH>>, "cgiRedirect", WifiHtml),
  Entry(WifiHtml, "cgiEspFsTemplate", "tplWlan"),
  Entry(ConnectCgi, "cgiWiFiConnect", "NULL"),
  Entry(<<STAR>>, "cgiEspFsHook", "")>>

Matches(entry, url) ==
  \/ entry.url = url
  \/ Last(entry.url) = STAR /\ IsPrefix(Front(entry.url), url)

(* The first entry that matches and does not pass the request on; behind   *)
(* the last one there is always cgiNotFound.                               *)
Dispatch(c, a) ==
  LET urls == Append(builtInUrls, Entry(c.req.url, "cgiNotFound", ""))
      matching == {i \in DOMAIN urls : Matches(urls[i], c.req.url)}
      tries == {[i |-> i, c |-> [c EXCEPT !.cgi = urls[i].cgi, !.cgiArg = urls[i].arg],
                 a |-> [a EXCEPT !.cgi = urls[i].cgi]] : i \in matching}
      results == {[i |-> t.i, res |-> Handler(t.c, t.a)] : t \in tries}
      taken == {x \in results : x.res.r \notin {"NOTFOUND", "AUTHENTICATED"}}
  IN  (CHOOSE x \in taken : \A y \in taken : x.i <= y.i).res

(* What the caller of a handler does with its result.                      *)
After(res) ==
  \/ /\ res.r = "MORE" /\ conn' = [res.c EXCEPT !.phase = "sending"]
     /\ answer' = httpdFlushSendBuffer(res.a)
  \/ /\ res.r # "MORE" /\ conn' = [res.c EXCEPT !.phase = "done", !.cgi = "NULL"]
     /\ \E a \in {httpdCgiIsDone(res.a)} : answer' = httpdFlushSendBuffer(a)

(* A browser sends a request.                                              *)
httpdProcessRequest(req) ==
  /\ conn.phase = "idle"
  /\ \E res \in {Dispatch([NoConn EXCEPT !.req = req], NoAnswer(req.http11 /\ req.keep))} :
       After(res)
  /\ UNCHANGED <<files, image, settings>>

(* The sent callback.                                                      *)
httpdContinue ==
  /\ conn.phase = "sending"
  /\ \E res \in {Handler(conn, answer)} : After(res)
  /\ UNCHANGED <<files, image, settings>>

(* The connection is gone; a handler that waits is called to clean up.  Or *)
(* the browser has its answer, and the next request finds all as it was.   *)
Leave ==
  /\ conn.phase # "idle"
  /\ conn' = NoConn /\ answer' = NoAnswer(FALSE)
  /\ UNCHANGED <<files, image, settings>>

Next == httpdContinue \/ Leave \/ \E req \in Requests : httpdProcessRequest(req)
Spec == Init /\ [][Next]_vars
-----------------------------------------------------------------------------
FileData(name) ==
  LET found == {i \in DOMAIN files : files[i].name = name}
  IN  IF found = {} THEN <<>> ELSE files[Min(found)].data
HasFile(name) == \E i \in DOMAIN files : files[i].name = name

(* The table is searched for the URL as it was sent, the image for what is *)
(* behind its slashes: "//i" is no entry's URL, and the file "i" as it is. *)
FileName(url) == StripSlashes(url)

(* A page with its macros replaced, with no regard to blocks.              *)
RECURSIVE Expanded(_, _)
Expanded(c, text) ==
  LET marks == {i \in DOMAIN text : text[i] = PERCENT}
      first == Min(marks)
      rest == marks \ {first}
      second == Min(rest)
      token == SubSeq(text, first + 1, second - 1)
      size == IF Len(token) < TokenSize THEN Len(token) ELSE TokenSize - 1
  IN  IF marks = {} THEN text
      ELSE IF rest = {} THEN SubSeq(text, 1, first - 1)
      ELSE SubSeq(text, 1, first - 1)
           \o (IF token = <<>> THEN <<PERCENT>> ELSE Macro(c, SubSeq(token, 1, size)))
           \o Expanded(c, SubSeq(text, second + 1, Len(text)))

Page ==
  LET data == FileData(FileName(conn.req.url)) IN
  IF conn.req.url \in {IndexHtml, WifiHtml} THEN Expanded(conn, data) ELSE data

(* As long as no call of a handler writes more than the send buffer can    *)
(* hold beside the frame of a chunk and the null chunk, the browser gets   *)
(* well-formed chunks, and in them the whole page: every byte of the file, *)
(* however it was compressed and cut into blocks, and every macro          *)
(* replaced, those that a block ends in too.                               *)
PageIsWhole ==
  LET got == Received(answer.sent) IN
  (conn.phase = "done" /\ answer.most <= MAX_SENDBUFF_LEN - 13) =>
    /\ got.ok /\ ~answer.overrun
    /\ got.status = 200 => HasFile(FileName(conn.req.url)) /\ got.body = Page
    /\ got.status = 404 => ~HasFile(FileName(conn.req.url))

(* Who did not give the password gets the login for every URL that the     *)
(* barrier's entry matches (user_main.c:120), unless the entry above all   *)
(* sends the client of the access point elsewhere; and no URL whatsoever   *)
(* reaches one of the handlers the barrier is there for: the WiFi page is  *)
(* not filled in, and no connection is started.  The files themselves are  *)
(* covered under these URLs only: any other spelling of their names, as    *)
(* with a second slash in front, is left to the catch-all entry, which     *)
(* sends the file as it is (PageIsWhole).                                  *)
IsRedirectTo(bytes, url) ==
  \E i \in DOMAIN bytes :
    bytes[i] = LocationLine /\ IsPrefix(url, SubSeq(bytes, i + 1, Len(bytes)))
BarrierHolds ==
  (conn.phase # "idle" /\ ~conn.req.auth) =>
    /\ IsPrefix(Wifi \o <<SLASH>>, conn.req.url) =>
         \/ answer.sent[1] = Status(401)
         \/ conn.req.fromAp /\ IsRedirectTo(answer.sent, HttpSlashes \o HostName)
    /\ conn.cgiArg # "tplWlan" /\ ~IsRedirectTo(answer.sent, Connecting)

(* The file is open, and the template data allocated, as long as the       *)
(* handler will be called again, and no longer.                            *)
FileIsOpen == (conn.phase = "sending") <=> (conn.file.open \/ conn.tpl.file.open)

(* A handler that is to be called again has taken a whole block of its     *)
(* file: the number of its calls is bounded by the size of the file, and   *)
(* no part of the file is sent twice.                                      *)
Taken(c) == IF c.file.open THEN c.file.posDecomp ELSE c.tpl.file.posDecomp
EveryCallAdvances ==
  [][(conn.phase = "sending" /\ conn'.phase = "sending") => Taken(conn') = Taken(conn) + Block]_vars
(* A handler that waits has its file open and reads on with each call.     *)
HandlerReadsOn == []FileIsOpen /\ EveryCallAdvances
=============================================================================
