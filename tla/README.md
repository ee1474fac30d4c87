# Formal model of the ESP8266 web radio

The firmware plays an Icecast stream through a VS1053 decoder chip and is set
up and operated from a browser. It runs on the ESP8266 non-OS SDK: there are no
threads, every callback (packet, timer, WiFi event, page) runs to its end before
the next one begins. What is hard about it is the *order* of callbacks, the
state they share through globals, flash and heap, and integer arithmetic at the
ends of buffers and packets. That is what these modules model.

Each callback or page is one TLA+ action; TLC checks the modules on small
instances and TLAPS proves the main invariants for all values of the constants.
Definitions called `Mutant...` are wrong variants of the definition below them
(a dropped guard, a missing reset); they are never used by a specification and
exist so that each property can be shown to notice such a mistake.

## 1. Inventory

"State" lists what the code keeps between two callbacks.

| Component | State | Operations | Interacts with |
|---|---|---|---|
| Ring buffer and decoder feed (`user/vs1053.c`) | ring, two indices, the chunk that waits, `data_pending` | `VS1053_vFillRingBuffer`, `VS1053_vPoll` (500 µs timer) | filled by the HTTP client, emptied to the chip |
| Streaming HTTP client (`user/httpclient.c`) | `StopStreaming`, `SteamStarted`, `request_args` on the heap, one timer | start, stop, DNS, connect, receive, disconnect, error and timer callbacks | pages, autoplay on GOT_IP, ring buffer |
| Icecast demultiplexer (in `HTTPC_vReceiveCallback`) | countdown to the next length byte | one packet | server, ring buffer |
| Settings (`user/control.c`, `user/vs1053.c`, `user/cgi.c`) | RAM copy, last flash page, chip registers | the four setters, `Control_vInit`, `VS1053_vInit` | forms; power loss |
| WiFi scan page (`user/cgi.c`) | table of access points, `scanInProgress`, position of each list | `cgiWiFiScan`, `wifiScanDoneCb` | HTTP server, SDK |
| WiFi mode (`user/cgi.c`, `user/user_main.c`) | operating mode, station config, disconnect counter, `connTryStatus`, three timers | WiFi events, three timer callbacks, three pages | SDK, browser |
| HTTP server (`libesphttpd/core/httpd.c`) | pool of connections; per connection `post->len`, handler, flags, send buffer, backlog | connect, receive, sent and disconnect callbacks | all pages |
| File serving and templates (`httpdespfs.c`, `user/cgi.c`), URL table (`user_main.c`) | open file, token scanner | one block per call | HTTP server, file system |
| Flash file system (`espfs.c`), image builder (`mkespfsimage`), heatshrink | read cursor, window of encoder and decoder | open, read, close; sink, poll, finish | pages |
| Form, header and number parsing (`httpd.c`, `stdout.c`), station list (`control.c`), base64, `authBasic` | none | pure functions | pages, start-up |
| OTA update (`user/rboot-ota.c`, `user/rboot-api.c`) | download state, write cursor with up to 3 carried bytes, boot sector, one timer | network callbacks, timeout, flash writes | flash, boot loader |
| Upload page (`cgiflash.c`) | position in header, images, page and sector | one block of the body per call | HTTP server, flash |
| WebSocket server (`cgiwebsocket.c`) | frame parser, list of sockets | packets, broadcast, close | HTTP server |
| Captive DNS (`captdns.c`), UART (`driver/uart.c`), SPI (`driver/spi.c`), hashes | none that is used | packets; register I/O; pure functions | not modelled, see section 5 |

What makes each of the modelled components correct:

* **ring buffer** - no accepted byte is lost, repeated or reordered, across
  wrap-around, overflow and a chip that refuses a chunk;
* **HTTP client** - one stream at a time, its timer is not taken by another, a
  stopped stream is silent and a new one can be started afterwards;
* **demultiplexer** - the countdown never loses the next length byte, wherever
  TCP cuts the stream, and only music reaches the ring;
* **settings** - RAM, flash and chip agree whenever no page is under way, and a
  loss of power anywhere never leaves a mixture;
* **scan page** - no list reads an entry that is not there; every list and every
  scan ends;
* **WiFi mode** - the radio does not become unreachable for ever unless it is given a
  blank name, and what one
  timer or page sets is not left behind by another;
* **HTTP server** - answers arrive whole and in order, slots and files are given
  back, a connection is closed only behind its answer, and the body of an upload
  reaches its handler exactly;
* **pages** - what the browser puts together from the chunks is the file in the
  image with its macros replaced, wherever blocks cut it, and no handler below the
  password's entry of the URL table is reached without it;
* **file system, heatshrink, text** - what one side encodes the other decodes,
  in pieces of any size;
* **OTA** - whenever the power goes, the boot loader finds a whole image, and an
  update that was begun ends;
* **web sockets** - frames cut anywhere come out whole, the list of sockets is
  exact, and a socket that is done is closed.

The hazards, each at its line with the properties about it, are listed in
`PROJECT.json`.

## 2. Modules

| Module | Contents |
|---|---|
| `AudioQueue` | abstract specification: a bounded FIFO that cuts packets which do not fit |
| `AudioRing` | the ring buffer and the poll; `ImplementsQueue` is the refinement of `AudioQueue` |
| `AudioRingLoops` | the byte-wise loops of the code as recursive functions and their agreement with the one-step operators |
| `MCAudioRing` | the packets for TLC |
| `AudioRingProofs` | type correctness, the refinement and the agreement of the loops |
| `HttpClient` | the life of a stream |
| `IcyDemux` | metadata and music |
| `HttpClientProofs` | the proofs about both halves of httpclient.c, `HttpClient` and `IcyDemux` |
| `Settings`, `SettingsProofs` | settings in RAM, flash and chip |
| `WifiScan` | the scan and the page that lists it |
| `WifiMode` | the operating mode and who sets it |
| `WifiProofs` | the proofs about `WifiScan` and `WifiMode` |
| `HttpdConn` | pool, requests, handlers and answers of the web server |
| `HttpdConnInvariant`, `HttpdConnProofs` | its inductive invariant, and the proofs |
| `CgiFlash` | the handler of firmware uploads, which `HttpdConn` extends and drives |
| `MCHttpdConn` | requests and uploads for TLC; extends `HttpdConnInvariant`, so that TLC can check the invariant too |
| `FlashWriter` | writing flash in words and erasing it in sectors |
| `OtaClient`, `OtaClientProofs` | the update over the network, extends `FlashWriter` |
| `WebSocket` | web sockets, the echo handler and the broadcast |
| `WebSocketInvariant`, `MCWebSocket` | its inductive invariant; the frames for TLC |
| `WebSocketProofs`, `WebSocketFrameProofs` | the proofs: types and list of sockets; the parser and what comes out of it |
| `BitStrings` | numbers as sequences of bits |
| `HeatshrinkEncoder`, `HeatshrinkDecoder` | the two state machines of the compression library |
| `Heatshrink` | a file driven through both |
| `EspFs` | image builder and file system, over the two state machines |
| `HttpdSend` | the bytes of an answer: send buffer, chunks, headers, short answers |
| `Templates` | what the radio writes for the macros of its pages |
| `Pages`, `MCPages` | URL table and page handlers, composed of `EspFs`, `HttpdSend` and `Templates` |
| `UrlText`, `Base64`, `Strtol`, `StreamList` | requests and forms; base64 and passwords; numbers and chunks; the station list |
| `Codecs`, `MCCodecs` | `Heatshrink` and these four against what they undo |

`Pages` extends `EspFs`, `HttpdSend` and `Templates`; `HttpdConn` extends
`CgiFlash`. `HttpdConn` counts the pieces of an answer and follows the connection;
`HttpdSend` and `Pages` follow the bytes over one connection: both are views of
the same `httpd.c`, split where the backlog begins.

### AudioRing

`data`, `read`, `write` are the array and the indices of `struct Buffer`;
`chunk` and `data_pending` the static variables of `VS1053_vPoll`; `sent` is a
history of what the last poll gave the chip. `VS1053_vFillRingBuffer(p)` stores
a whole packet, as one callback does; the byte-wise loops over `BufferIn` and
`BufferOut` are in `AudioRingLoops` and are proved to do the same. `VS1053_vPoll(dreq)` takes the level of
DREQ as input. One field of the ring stays free, so it holds `BUFFER_SIZE - 1`
bytes.

### HttpClient

A `Request` is a piece of heap; `conn[r]` says what holds it (resolving,
connecting, open, closing, or orphan: `espconn_connect` refused and nobody
looked at the result). The one timer object is `timer`; it is not disarmed when
its request is freed and writes through its pointer when it fires, which the
model does too. `strings` are the requests whose strings are allocated; those without
a request (`Lost`) are lost for good. `fed`, `fresh`, `waited` and `stopped` are history.
`espconn_disconnect` is asynchronous: packets may still arrive while "closing".

### IcyDemux

The server's side (`musicLeft`, `textLeft`) produces the stream; `packet` is
what has gathered when the callback runs, so every way to cut the stream is
covered. `until` is the code's `uint32` countdown with its wrap-around at `U32`,
and the length of the music behind a metadata block is cut to `U16` as the
parameter of `HTTPC_vFillBuffer` is. Bytes behind the packet are `stray`.

### Settings

A call saves the page in the steps read - erase - write (`pc`), and the power may
be lost before each step or in the middle of the write, after one or two of the
three words. A form that does not send its box makes `IndexPlaybackCgi` store
what `strtol` makes of an unwritten buffer: a value of `StackBytes`. The volume
is stored as an attenuation modulo 256. `before`, `after` and `loss` are history:
what the settings were when the power was lost, and in which kind of step.
The right channel's volume is in RAM only; nothing reads it.

### WifiScan

`cgiWiFiScan` is called once per line of the list; `Ask`, `NextLine` and
`Interrupted` are its three ways through, `Disconnected` the last call when the
browser has gone. `wifiScanDoneCb` may fail, find 0 to `MaxAps` access points, or
run out of memory at the table or at any entry. `failed` and `overtaken` are
history.

### WifiMode

`opmode` is the SDK's operating mode, `config` its stored network, `link` the
state of the station. The events of `wifi_handle_event_cb`, the callbacks of the
scan, reassociation and reset timers, and the pages that arm them are actions.
A page can be opened only while the radio is `Reachable`. Time is not modelled:
an armed timer fires at any later moment.

The name of a network (`Ssid`) comes from a form that nobody checks: it may be one of
`Networks`, one that no network has (`Absent`), or blank (`NoNetwork`); a field that
was not sent leaves what the stack holds, which is one of the three. With an absent name
a station only sees disconnects; with a blank one the SDK owes no event, but may
still report that the station has left its last network.

### HttpdConn

`conn[c]` is the `HttpdConnData` of a client together with its socket and its
browser; the functions of `httpd.c` are operators from connection to connection,
composed as the code calls them (`httpdRecvCb` is `httpdFlushSendBuffer` around
`Packet`, which repeats `Byte`, a `HeaderByte` or a `PostByte`). A header is assumed to
fit into `MAX_HEAD_LEN`. `len` is `post->len` with its double use as
state of the receiver. The socket takes one buffer (`tx`, `flight`); what it
refuses goes to `backlog`. `Arrive` (the browser has the buffer) and
`httpdSentCb` are separate, so that the next request may come before the sent
callback of the last answer. When the pool is full, `httpdConnectCb` refuses and
nothing changes.

A body is delivered in blocks of `MAX_POST`; `PostByte` calls the handler for each.
The handler of an upload is `cgiUploadFirmware` of `CgiFlash`, whose unit of length
is a word; a word of the body is its position, so that the flash says where each
of its words came from. One client uploads at a time. `early` is history: the
sent callback called the upload handler amid a block.

Both loops are recursive functions over a number of turns (`Iterate`): a packet is
as many `Byte`s as it is long, and the `while` of `cgiUploadFirmware` ends within
`Turns` (the words of the block and four changes of state), after which a turn does
nothing. Requests have the type the module assumes (`HttpdAssumption`); the
body may be empty, in which case the upload handler never looks at it and the
answer is the one of a success. `ImagesFit` is the one assumption the code does not
enforce: `cgiUploadFirmware` compares neither `len1` nor `len2` of a combined file with
`fwSize`, so a combined file whose header announces more would be written beyond its
half; the image of a complete file is assumed to lie within the flash.

### FlashWriter and OtaClient

`rboot_write_init`, `rboot_write_flash` and `rboot_write_end` are operators on a
status (`addr`, `erased` sector, carried bytes `extra`) and a flash. `OtaClient` has
one `upgrade` structure (`none`, `live`, `freed`), the flag of the SDK, one timer and
a connection per attempt, because callbacks of an attempt that has been ended may
come later. `asked` says per connection whether the name server still owes an answer:
`upgrade_resolved` uses the answer for the connection of the upgrade, whichever it
was asked for, and the attempt's own answer comes nevertheless. `rboot_ota_start`, `upgrade_resolved`, `upgrade_connect_cb`,
`upgrade_recvcb`, `upgrade_disconcb`, `upgrade_recon_cb`, the timer and the steps of
the switch (`EraseConfig`, `WriteConfig`, `Restart`) are actions; `PowerLoss` can come
between any two. What is assumed of the SDK:

* an access to a structure that is NULL or freed is a reset (`Boot`);
* `espconn_disconnect` is asynchronous and ends with the disconnect callback; a
  packet that comes before that is delivered only as long as no later attempt is
  open; a listed `espconn` cannot be connected again;
* the answer with status 200 announces a length that is not zero and a multiple
  of the word, as an image is, and not larger than the slot (the check of
  `rboot_write_flash` is commented out, rboot-api.c:161-162). The code never calls `rboot_write_end`, so the last
  bytes of another length would stay in RAM; `EndWritesTheRest`, which is proved
  and in no run, is about the function itself;
* after an erase of the configuration without its write, rBoot starts slot 0
  (`rboot.h:27`).

### WebSocket

A packet is the next k bytes the browser has sent (`up`). `Turn` is one turn of the
loop of `cgiWebSocketRecv`: a byte of a header (`HeaderByte`), or all that the packet
holds of a payload (`PayloadBytes`), which may begin in the turn of the last byte of the
header. `Parse` repeats it as often as the packet has bytes; every turn takes one, and
when none is left a turn does nothing. The state of the parser (`wsStatus`, `len`,
`maskCtr`, `frameCont`, `mask`) is carried over to the next packet. Bytes of payload and
mask stand for their lowest bit; the thresholds of the length field, 126 and 65535, are
parameters, and no payload is longer than an `int` can say (`INT_MAX`). `Frames` is what
a browser may send: any set of `GoodFrames`, which have any opcode and payload and are
masked unless they carry data (an unmasked ping, which no browser sends, would be
answered with what the mask of the frame before makes of it). `Fits` keeps a message
to ws.cgi within the 128 bytes of `myWebsocketRecv`, whose answer also ends at the
first zero byte. The send buffer and the backlog, which drop what they do not hold,
are in `HttpdConn` and `HttpdSend`; here they are large enough.

The list is `llStart` and `next`. `Listed` is what a walk from `llStart` finds: the
clients that belong to every set which holds the first and, with a socket, its
successor. `text`, `pongs`, `rest` are what the browser reads of the answers. It
takes a frame as soon as the bytes of a call of `httpdSend` complete it, and no
call holds the ends of two. `torn` is history (a broadcast was sent into the parts of
an answer).

### Pages

A browser asks for a page, the table of URLs is walked as `httpdProcessRequest`
does, and the handler is called once per sent callback with a new send buffer.
The handlers are those that send files, the redirections, `authBasic`, and
`cgiWiFiConnect` for the forms below the password. The table is compared with
the URL as it was sent, the names of files with what is behind its leading slashes:
requests with one slash and with two are among those checked.
The image is built by `mkespfsimage` of `EspFs`, with or without compression;
`espFsOpen` walks its headers and `espFsRead` runs the decoder into the block.
`HttpdSend` puts the chunks together; `Received` is the browser. A number stands
for a macro's name and for each fixed text.

### Codecs

`Heatshrink` compresses and decompresses a file in steps of any size. The other
operators have no state; a text grows by one byte per step, so that TLC evaluates
each property for every text up to the bound. The other side (a browser that
encodes a form, a server that sends chunks) is marked external.

## 3. Runs

| Run | Checks | Shows |
|---|---|---|
| `audio_ring` | `ImplementsQueue`, `RefusedChunkIsSent`, `LoopsAgree` | the ring is a bounded FIFO; a refused chunk is sent while data follows it; the one-step operators equal the loops of the code |
| `stream_life_cycle` | `OneStream`, `OwnTimerArmed`, `StoppedStreamIsSilent`, `OneLossAtMost`, `StreamMovesOn` | a stream's life under every order of callbacks and buttons |
| `icy_demux` | `CountdownInSync`, `MusicExtracted` | the countdown survives every cut of the stream |
| `settings` | `SettingsAgree`, `RestartKeepsSettings` | RAM, flash and chip agree; a restart restores |
| `wifi_scan` | `TableIsSafe`, `AnswerIsJson`, `ListsAndScansEnd` | two lists and the scans they start do not disturb each other's table |
| `wifi_mode` | `ModeIsJustified`, `ModeSettles` | the four parties that set the mode, with names of networks that are good, mistyped or blank |
| `http_server` | `TypeOK`, `PoolIsExact`, `FilesAreClosed`, `AnswerInOrder`, `UploadIsExact`, `ClosedAfterAnswer`, `RequestIsAnswered` | three browsers, two connections, one upload |
| `ota` | `BootedRomIsWhole`, `FlashIsPrefix`, `TimerMatchesUpgrade`, `UpdateEnds` | three attempts between two starts, with loss of power anywhere |
| `pages` | `PageIsWhole`, `BarrierHolds`, `HandlerReadsOn` | a page from image to browser |
| `web_socket` | `ListIsExact`, `FramesComeOut`, `ResetNeedsLateBytes`, `DoneSocketIsClosed` | two sockets, frames cut anywhere |
| `codecs` | `FileComesBack`, `RequestIsUnderstood`, `PasswordIsChecked`, `ChunksAreRead`, `StreamListIsParsed` | what is encoded is decoded |
| `icy_split_block` | violates `AllTheDataIsMp3` | a metadata block cut by the packet sends text and stray memory to the decoder |

Some of these are conjunctions of named parts, which the module states one by one:
`SettingsAgree` is `SavedSettings` and `ChipPlaysSettings`, `TableIsSafe` is `OneScan`
and `ListedApsExist`, `ModeIsJustified` is `ScanModeEnds` at any time and the action
property `ClientHasNetwork`,
`ModeSettles` is `ComesBack` and `TryEnds`, `StreamMovesOn` is `WaitEnds` and
`StopEndsStream`, `ListsAndScansEnd` is `RequestIsAnswered` and `ScanComesBack`,
`FramesComeOut` is `EchoIsExact` and `PongIsExact`, `HandlerReadsOn` is `FileIsOpen` and
`EveryCallAdvances`, and so on in `Codecs`. Type invariants that are proved for
every value of the constants are not repeated by a run.

The violation run is a disagreement between the code and its comments;
`PROJECT.json` quotes both sides.

### Bounds

* **audio_ring**: ring of 5, chunk of 2, packets of 1 to 3 bytes over two values
  (20000 and 32 in the code for the first two). A ring of 5 is not a multiple of the chunk, so the
  chunk itself wraps around; it can be exactly full, overflow in the middle of a
  packet and run empty.
* **stream_life_cycle**: two pieces of heap, enough for a second stream beside
  the first and for memory that is used again.
* **icy_demux**: interval 5, block 2, up to 2 blocks, packets up to 6 bytes,
  widths 16 and 64 instead of 2^16 and 2^32. Packets may end before, at, after
  and inside a length byte and its block, and both widths are wrapped.
* **settings**: volumes 0 and 100, one enhancer besides default, erased and reset
  values, uninitialised memory that reads as 0 or as 7.
* **wifi_scan**: two browsers, up to three access points (the shortest table with
  a first, a middle and a last line).
* **wifi_mode**: two networks, a name that neither has, a blank one, three
  disconnects instead of 15. The proofs hold for every number.
* **http_server**: three browsers, a pool of two (4 in the code), a backlog of
  two, blocks of three words of a body (`MAX_POST`), pages of two and sectors of
  four words, a slot of eight. Bodies of none or two words for forms; uploads whose
  images begin and end on either side of the end of a block, page and sector, files
  that are refused, files that end early or late, and empty ones, by one of the browsers.
  Answers of one full block with or without a tail behind it. A connection has as
  many requests as it likes.
* **ota**: words of 4 bytes, sectors of 8, slots of 16, an image of 12 (three
  words, one and a half sectors), packets of 0, 5 or 7 bytes or what is left: every
  number of carried bytes occurs. Three attempts between two starts: callbacks
  of two earlier attempts can meet the third. The safety proofs hold for every
  number.
* **pages**: a send buffer of 28 bytes, so that it can be exactly full, blocks of
  8, macros of up to 3 bytes and one that is longer. `PageIsWhole` is about calls
  that write at most `MAX_SENDBUFF_LEN - 13` bytes: with one more, the chunk's end does
  not fit (httpd.c:399). In the code that is 2048 - 13 against blocks of 1024 bytes.
* **web_socket**: two clients, one with the echo handler, texts of 0, 3 and 5
  bytes with thresholds of 3, so that all three forms of a header occur, every kind of
  frame the parser tells apart, two frames per connection and one
  broadcast, at most 8 bytes not yet read.
* **codecs**: settings (window, lookahead) of (4,3), (5,3), (9,9), (10,4), which
  have indices and counts of one and of two bytes' width; files of up to 40 bytes,
  which is beyond the smaller windows; sinks of 5 bytes or all, rooms of one byte
  or all, a decoder's buffer of 2. Texts of up to four bytes over 12 bytes, which
  are those the parsers treat specially and two ordinary ones.

`stream_life_cycle`'s environment gives an open connection packets in any order;
`http_server`'s browsers do not pipeline; a form fits into `MAX_POST`, an upload does
not.

### Fairness

* `AudioRing`: strong fairness of a poll that the chip accepts: the timer fires
  every 500 µs for ever (`timer.c`) and the chip, as it plays, keeps raising DREQ.
  Nothing is assumed of the network.
* `HttpClient`: the SDK answers DNS and connection requests, completes
  disconnects and fires the armed timer; the server keeps sending while the
  connection is open. The code has no timeout against a server that falls silent,
  so without the last point STOP would not end a stream.
* `WifiScan`: the SDK ends a scan and reports each line as sent.
* `WifiMode`: a station without an IP that has a name to look for sees another event; one that associates
  again and again gets an IP at last; armed timers fire. No page has to be opened.
* `HttpdConn`: TCP delivers what the socket took and the SDK reports it. Browsers
  need not send anything and may leave.

* `OtaClient`: an armed timer fires, the SDK answers DNS, and a call that is under
  way goes on. Nothing is assumed of the server.
* `WebSocket`: what was sent is acknowledged and the SDK completes a disconnect.

`Settings`, `IcyDemux`, `Pages` and `Codecs` have safety properties only.

## 4. Proofs

| Theorem | Establishes |
|---|---|
| `AudioRingProofs!TypeCorrect` | indices stay inside the array, for every size |
| `AudioRingProofs!RingImplementsQueue` | `Spec => Queue!Spec`: the ring refines the FIFO |
| `AudioRingProofs!LoopsAlwaysAgree` | the loops over `BufferIn` and `BufferOut` do what the steps say, for any sizes |
| `HttpClientProofs!TypeCorrect`, `AtMostOneStream`, `TimerIsNotStolen`, `StopSilences`, `FailedStartIsLast` | the safety of a stream's life, for any heap |
| `HttpClientProofs!IcyTypeCorrect`, `CountdownStaysInSync`, `MusicIsExtracted` | the countdown, and what reaches the ring, for any interval that no packet exceeds by more than the length byte |
| `SettingsProofs!TypeCorrect`, `SettingsAreSaved`, `ChipFollows` (both: `FlashAndChipFollow`), `RestartRestores` | RAM, flash and chip, for any values |
| `WifiProofs!ModeTypeCorrect`, `ScanModeIsTimed`, `ClientJoins` (both: `ModeStaysJustified`) | the operating mode, for any networks, other names and any limit |
| `WifiProofs!TypeCorrect`, `OneScanAtATime`, `ListsExistingAps` (both: `TableStaysSafe`), `AnswersAreJson` | the scan, its table and the text of its lists, for any number of browsers and access points |
| `HttpdConnProofs!PoolStaysExact` | the pool, for any size and any clients |
| `HttpdConnProofs!ConnectionTypes`, `OpenFilesAreUsed`, `AnswersStayInOrder`, `AnsweredBeforeClosed` | a connection from its first byte to its end, for packets, bodies, answers and backlogs of any length |
| `HttpdConnProofs!UploadsStayExact` | the flash of an upload, for any page, sector and half and any images that fit |
| `OtaClientProofs!TypeCorrect`, `BootedRomAlwaysWhole`, `FlashKeepsPrefix`, `TimerAlwaysMatches`, `EndAlwaysWritesTheRest` | the update, for every size of word, sector, slot and image and any number of attempts |
| `WebSocketProofs!TypeCorrect`, `ListIsAlwaysExact` | types of the sockets; the list holds those that are alive, for any clients |
| `WebSocketFrameProofs!ParserKeepsItsPlace`, `FramesAlwaysComeOut`, `ResetOnlyByLateBytes` | the parser of frames, for any set of frames, any packets and any thresholds of the length field |

They assume the ASSUMEs of the modules (sizes are positive, the widths hold what
the stream contains), which TLC evaluates in each run, and for `IcyDemux` the
assumption about the interval that its theorems state.

* **AudioRing.** `TypeOK` is inductive. The refinement maps the state to the
  sequence `InFlight` (waiting chunk, then the fields from `read` to `write`). Two
  lemmas about sequences given as functions do the work: filling extends
  `InFlight` by a prefix of the packet (`FillAccepts`), a poll removes a chunk from
  its head or leaves it alone (`PollDelivers`); a refused chunk moves from the
  ring to `chunk` and the sequence does not change. The loops are followed turn by
  turn (`FillTurn`, `DrainTurn`): a closed form of the ring after k turns satisfies the
  equation of the recursive function, and two functions that do are equal
  (`SameLoop`, from the well-foundedness of <).
* **HttpClient.** None of the three properties is inductive. `Safe` adds that a
  stream which is not connected yet has no header (`NoHeaderYet`), that a timer
  armed by a request that still exists belongs to a connected one
  (`FreshTimerIsLive`), and that a stop the user asked for is still pending while
  the stopped stream exists (`StopIsPending`). `OneLossAtMost` is inductive beside
  `Safe`. A failed DNS request leaves its strings with the flag set, and a stream begins
  only with the flag clear: then no request exists (`OneStream`), nothing is lost
  (`IdleHasNoStrings`), and the strings to come are the only ones. Only a request
  that exists resets the flag, and takes its strings with it.
* **IcyDemux.** `InSync` adds to `CountdownInSync` where the length byte of the
  packet is and how much of its text has been sent (`Progress`, `TextFits`); the
  unsigned wrap-around is undone by the lemma `WrapTwice`. For `MusicExtracted`,
  `Framed` says of which kind each byte behind the length byte is. The property
  counts: the n-th byte of music in the packet is the n-th that is passed on
  (lemma `Ranks`), and there are no others.
* **Settings.** `Inv` follows a call through its steps: the image to be written
  stands for the settings in RAM (`Pending`), the flash stands for those before
  the call until it is erased (`Untouched`), so that what it stands for after a
  loss of power (`Recoverable`) is one of the two or the defaults.
* **WifiMode.** `ModeInv` adds to types and `ScanModeEnds` that an associated station
  has a network in reach configured (`LinkIsToNetwork`). `resetTimerCb` goes to client
  mode without a look at the configuration, but only with an IP, hence with a network;
  a try with a blank name takes the link down in the same step (lemma `ClientStep`).

* **WifiScan.** `Inv` adds `TableIsFull`: as long as no allocation has failed, the
  table is missing and empty, or holds an entry for each access point.
  `JsonInv` says what a list that nobody overtook has sent so far (`Begun`), and that
  a scan under way has overtaken every list that is open (`OvertakenByScan`).
* **HttpdConn.** `Inv` is the pool (`SlotsAreLive`, `LiveHaveSlot`, `SlotsDiffer`);
  `ConnInv` says of each connection in which phase its request is (`ConnOK`), what
  is on its way to the browser (`TxOK`, `Produced`) and, for an upload, what is in
  the flash (`Good`). It holds between two callbacks; within one, weaker forms hold
  (`Steady`, `Kept`, `Resting`), and each function of httpd.c has a lemma that takes
  one form to the next. Two inductions and one piece of arithmetic carry the proof:
  - over the bytes of a packet (`PacketKeeps`): each byte of a head or a body leaves
    the phase, the position in the body and the answer in step;
  - over the turns of the upload's loop (`LoopGood`, with `StepGood` for a turn):
    the words of the block that are used up are in the flash, in the page that is
    gathered, or belong to what is skipped, and the number of turns is enough;
  - `FlushGood`, about pages and sectors: a page written at the right
    address extends what is in the flash and erases nothing of it.

  The library's induction takes an operator, which no prover here can
  instantiate; `NatSetInduction` takes a set and is proved from the
  well-foundedness of <. A recursive function is a CHOOSE to the prover;
  `LoopExists` shows that there is one. The exception `early` of `UploadIsExact` and
  `ClosedAfterAnswer` is that of the properties.
* **OtaClient.** `IInv` is `Types`, `Roms`, `Attempt` and `Download`. `Roms` says per step of
  the switch which slots hold a whole image: slot 0 after the configuration was
  erased, the slot that runs, and the one that is to be selected from the moment
  the last packet has come. `Attempt` says that a live structure belongs to an
  attempt whose flag is set, and that the only open connection is its own.
  `Download` says that once the header has been read, flash and carried bytes
  are a prefix of the server's image as long as the server's position. Two lemmas
  carry it: `WriteKeepsPrefix` (a write of the image's next bytes keeps the prefix,
  across the erase of sectors) and `PrefixIsWhole` (nothing is carried when the whole
  image, a multiple of the word, has come). `PaddingFlushes` is about
  `rboot_write_end`.
* **WebSocket.** `Inv` (`WebSocketInvariant`) was model-checked on the `web_socket`
  instance, in place of the invariants of that run, before it was proved. It has two
  parts.
  - `ListInv`: `llStart` and `next` link the live sockets, injectively, with an end, and
    every set closed under `next` that holds the first holds them all; so what a walk
    finds is exactly what is alive (`ListedIsLive`). Only `Insert` and `websockFree`
    change it.
  - `Good`: there is a place, o bytes into the i-th frame the browser has sent, behind
    which the bytes under way begin (`Located`), at which the parser has the
    state that the bytes of this frame before it, and no others, give (`Parsed`), and up
    to which everything is answered (`Answered`). The invariants of the run do not
    follow themselves through a packet: a parser with the right answers so far and a
    wrong mask position satisfies them.

  The proof follows the loop. `HeaderStep`, for a byte of a header, and `PayloadStep`, for
  a piece of a payload, carry a place to the next one; `TurnStep` joins them and
  finds either the next place or a socket that is done for one of the reasons
  `Over` names; `ParseKeeps` repeats it over the turns of a packet and shows that the
  packet is used up. What the browser reads is computed in the same steps: a head and
  a payload that were sent together or one after the other are one frame again.
  The streams are `FlattenSeq`s of the frames' bytes: the recursive function in that
  operator is shown to exist, and a frame more at the end, or cut at a byte, to be
  bytes more at the end.

  `Frames` is any subset of `GoodFrames`: any opcodes and any payloads below `INT_MAX`,
  far more than the eleven frames that TLC combines.

Only model-checked:

* everything about liveness (`RefusedChunkIsSent`, `StreamMovesOn`, `ModeSettles`,
  `ListsAndScansEnd`, `RequestIsAnswered`, `UpdateEnds`, `DoneSocketIsClosed`),
  which is outside the prover;
* the safety of `Pages` and `Codecs` (with `Heatshrink`, `EspFs`, `HttpdSend` and the text
  modules). They are about recursive operators, without which the prover would have
  to do induction over the data that they decode, and the prover has no SMT backend
  in a module that reaches one.

## 5. What the properties leave out

Some properties carry a condition because the code does not provide more:

* A refused chunk is retried only while a chunk of data lies behind it
  (vs1053.c:404); the last one of a stream can stay behind.
* The wait timer of a freed request may end the wait of the next one in the same
  memory (httpclient.c:128): `OwnTimerArmed` speaks of the timer, not of the
  flag it sets.
* A DNS failure frees the request without its strings (httpclient.c:460), reports the
  stream as stopped (timer.c:92) and leaves `SteamStarted` set, so that PLAY returns
  at httpclient.c:624 from then on: the radio plays nothing more until it is
  restarted. `OneLossAtMost` says what that is worth, that no second stream can lose
  its strings; that a stream can be started again after a failure is not so.
* With an interval shorter than a packet, a second length byte in the packet is
  missed (httpclient.c:260).
* The magic byte is in the first word of the page (control.c:70): after a write
  that was cut, the rest reads as erased. `RestartKeepsSettings` excepts this.
* After a failed allocation in `wifiScanDoneCb` the flag may stay set or the table
  be half filled (cgi.c:332-360); `ListedApsExist` and `ScanComesBack` end there.
* A list that another browser's scan overtakes gets a second header or a comma
  too many (cgi.c:422); `AnswerIsJson` is about the others.
* A box that is not ticked is not sent; `IndexPlaybackCgi` takes the -1 of
  `httpdFindArg` for a value and saves what strtol makes of a buffer nobody wrote
  (cgi.c:92). The settings' properties hold with it; that the radio then does not
  play on startup (html/index.html:37) is not so.
* `ScanTimoutTimerCb` closes the access point whenever a network is configured,
  also while the try for it goes on or has failed (cgi.c:393, against the comment
  of cgi.c:473).
* `connstatus.cgi` answers with the outcome of the try before until `reassTimerCb`
  runs (cgi.c:542, against connecting.html:16).
* A connection try started in client mode has no time limit (cgi.c:508).
* Neither `cgiWiFiConnect` nor `reassTimerCb` looks at the name of the network
  (cgi.c:531-540, 504): a client that is given a blank one, or none, has nothing to
  join, opens no network of its own, and no browser reaches it until the next start,
  when `set_ap` opens the access point. `ClientHasNetwork` names this as the only way,
  `ComesBack` excepts it (`Stranded`). A mistyped name does no such harm: the counter of
  disconnects opens the access point.
* The password's entry covers URLs, not files: `espFsOpen` drops all leading slashes
  (espfs.c:139), the table does not (httpd.c:544-547), so that a URL with two of them gets
  the file itself from the catch-all entry, without the password and with its macros
  not replaced. The requests of `pages` have such URLs, and `PageIsWhole` says that this is
  what they get; `BarrierHolds` is about the URLs that the entry matches and the
  handlers below it, which no URL reaches without the password.
* An answer without chunks whose last call sends nothing (a file that ends at a
  block boundary) is marked to be closed, but no sent callback follows
  (httpd.c:515); the connection stays until the SDK times it out.

* An upload on a connection that is kept open can be called by the sent callback
  of the answer before, amid a block, and takes a part of it twice (httpd.c:514);
  `UploadIsExact` excepts it (`early`). A file that ends early is answered with
  status 200 and the text of an error (cgiflash.c:256).
* `UpdateEnds` excepts two ways in which an update does stay for ever: an address
  that is refused at once leaves the flag set with the structure freed, and the
  callback of an earlier connection disarms the timer (`robbed`).
* A broadcast between two packets of one ping is sent into its pong
  (`PongIsExact`, `torn`). After a socket is done its receive handler stays set, and a
  packet that still comes makes the device reset; `ResetNeedsLateBytes` says when.
  The parts of a frame that comes in several packets are handed on without
  `WEBSOCK_FLAG_CONT`, and a close the server begins is not completed by the
  browser's reply; no handler of the repository uses either.
* With a lookahead of 2, e.g. (4,2), heatshrink may lose the end of a file: a
  whole backreference of seven bits fits into what is left of the last byte, and
  `st_check_for_input` asks for input only by its size. `mkespfsimage` uses none of
  these settings, and `codecs` checks none.
* `Stdout_s32Strtol` skips letters where its comment says white space
  (stdout.c:39), so a chunk length that starts with a letter is misread;
  `ChunksAreDecoded` is about chunks of up to nine bytes.
* The station list must have lines that end with CR LF, and at most three of them;
  html/streamlist.txt has LF only, of which the parser finds one name and no
  address. A longer list writes behind its arrays (control.c:261) and a missing
  file is read through NULL; both are outside the model.
* The macro currSsid of wifi.html gives "Unknown" in this build, and
  StreamSelected_1 and _2 give nothing: `Templates` says what the code does.

Not modelled, and why:

* a header longer than `MAX_HEAD_LEN`: the code drops the rest of it (httpd.c:728), so that
  its end is not found and the request is not answered, as the comment in the line
  above says; in `HttpdConn` every header has an end;
* how an update or an upload is begun: `OtaUpdate` is called by nobody and
  `cgiUploadFirmware` is not in the table of URLs, so neither can be started in this build;
  `OtaClient` and `CgiFlash` model them as the sources provide them;
* `httpdConnectCb`'s failed allocations (httpd.c:839: the slot stays taken, and no
  callback is registered that could give it back), and those of `cgiflash.c`;
* files stored with gzip: the repository builds its image with
  GZIP_COMPRESSION=no, and without such files the buffer for the header of the
  browser does not matter;
* settings that change while a page is sent: a page shows the value at the time
  of its macro;
* `HTTPC_vSentCallback` (no request has a body); lines 695-921 of cgi.c, a second
  update client nobody calls; its web socket handlers (923-961) are modelled but
  not in the table of URLs; `cgiGetFirmwareNext` and `cgiRebootFirmware`;
* the ring buffers of uart.c (lines 441-640), which are compiled out
  (`UART_BUFF_EN` is 0); the registers of UART and SPI; printing;
* captdns.c, which keeps no state and is never started;
* sha1 and sha256: arithmetic on 32-bit words with reference vectors; greatest.h
  and the tests of heatshrink, which are a test framework; mkupgimg and the
  command lines of the host tools.

## 6. Plan

Done, in this order: `AudioRing` (with `AudioQueue`), `HttpClient`, `IcyDemux`,
`Settings`, `WifiMode`, `WifiScan`, `HttpdConn`; then `FlashWriter`, `OtaClient`,
`WebSocket`, `Heatshrink`, `EspFs`, `HttpdSend`, `Pages`, `Codecs`, `CgiFlash`, and the proofs
of `WifiScan`, `HttpdConn` and `OtaClient`; then the safety of a connection and of an
upload, the loops of the ring, the extraction of the music, the strings of a
request and the text of a list; then the list of the web sockets and their parser,
for which `WebSocket` was written with recursive functions. Every safety property
that a run checks is now proved, except those of `Pages` and `Codecs`.

Left, in this order:

* `HttpdSend` with recursive functions in place of recursive operators, so that the
  chunks of an answer can be proved about;
* an abstract image store that `OtaClient` refines ("the slot that boots holds the
  old or the new image"), and the same for the upload page;
* a composition of settings, stream life and WiFi mode: autoplay on GOT_IP starts
  at most one stream, with the settings that were saved;
* the parts of `HttpdConn` and `Pages` put together, with two pages sent at once over
  the backlog;
* failed allocations in `httpdConnectCb`.
