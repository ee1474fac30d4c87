---------------------------- MODULE HttpClient ----------------------------
(***************************************************************************)
(* The life of a stream: how the HTTP client of user/httpclient.c opens,   *)
(* feeds and ends the one connection that carries the music.               *)
(*                                                                         *)
(* Every callback of the SDK (DNS answer, connect, receive, disconnect,    *)
(* error, timer) and every request of the web page (PLAY, STOP) runs to    *)
(* completion, so each is one action; their order is up to the network,    *)
(* the user and the clock.  What the callbacks share are the two global    *)
(* flags, the one HTTPC_TimerObject, and the request_args on the heap.     *)
(*                                                                         *)
(* A Request is a piece of heap memory that can hold a request_args.       *)
(* os_malloc returns any piece that is free, also one that was freed a     *)
(* moment ago and that the timer still points to.                          *)
(***************************************************************************)
EXTENDS Naturals

CONSTANTS
  Request,     (* pieces of heap memory                                    *)
  None         (* no request: the timer is not armed, nothing is buffered  *)

ASSUME NoneAssumption == None \notin Request

VARIABLES
  StopStreaming,              (* the user wants the stream to end          *)
  SteamStarted,               (* a stream has been asked for               *)
  conn,                       (* what holds the request: see Phase         *)
  strings,                    (* requests whose hostname, path, headers    *)
                              (* and buffer are allocated                  *)
  header_received,            (* fields of request_args                    *)
  buffer_wait_timer_elapsed,
  timer,                      (* HTTPC_TimerObject: its argument, or None  *)
  fed,                        (* history: the request whose packet the     *)
                              (* last step put into the ring buffer        *)
  fresh,                      (* history: the timer was armed by a request *)
                              (* that has not been freed since             *)
  waited,                     (* history: requests whose own timer fired   *)
  stopped                     (* history: requests the user stopped        *)

flags   == << StopStreaming, SteamStarted >>
history == << fed, fresh, waited, stopped >>
vars    == << StopStreaming, SteamStarted, conn, strings, header_received,
              buffer_wait_timer_elapsed, timer, fed, fresh, waited, stopped >>

(* free: not allocated; orphan: the SDK refused espconn_connect, whose     *)
(* result the code ignores, so that no callback will ever come.            *)
Phase == {"free", "resolving", "connecting", "open", "closing", "orphan"}

(* A request the SDK will call back for.                                   *)
Live(r) == conn[r] \in Phase \ {"free", "orphan"}

Init ==
  /\ StopStreaming = FALSE
  /\ SteamStarted = FALSE
  /\ conn = [r \in Request |-> "free"]
  /\ strings = {}
  /\ header_received = [r \in Request |-> FALSE]
  /\ buffer_wait_timer_elapsed = [r \in Request |-> FALSE]
  /\ timer = None
  /\ fed = None
  /\ fresh = FALSE
  /\ waited = {}
  /\ stopped = {}

---------------------------------------------------------------------------
(* Opening a stream.                                                       *)

(* HTTPC_vDnsCallback with an address calls espconn_connect.               *)
Connect == {"connecting", "orphan"}

(* HTTPC_vPrepareRequest: allocates the request and its strings and asks   *)
(* for the address.  An address known already is used at once; an error    *)
(* runs HTTPC_vDnsCallback without an address at once, which calls the     *)
(* user callback and frees the request but not its strings.                *)
HTTPC_vPrepareRequest(r) ==
  /\ conn[r] = "free"
  /\ \E phase \in {"resolving", "free"} \cup Connect :
       /\ conn' = [conn EXCEPT ![r] = phase]
  /\ strings' = strings \cup {r}
  /\ header_received' = [header_received EXCEPT ![r] = FALSE]
  /\ buffer_wait_timer_elapsed' = [buffer_wait_timer_elapsed EXCEPT ![r] = FALSE]
  /\ waited' = waited \ {r}
  /\ stopped' = stopped \ {r}

(* HTTPC_vStartStreaming, from the PLAY button or when an address is       *)
(* obtained and autoplay is on.  A stream asked for already is left alone. *)
(* An URL that HTTPC_vSendPost rejects leaves only the flag behind.        *)
MutantStartUnguarded ==
  /\ SteamStarted' = TRUE
  /\ \/ \E r \in Request : HTTPC_vPrepareRequest(r)
     \/ UNCHANGED << conn, strings, header_received,
                     buffer_wait_timer_elapsed, waited, stopped >>
  /\ fed' = None
  /\ UNCHANGED << StopStreaming, timer, fresh >>
MutantStartResetsStop ==
  /\ \/ /\ ~SteamStarted
        /\ \/ \E r \in Request : HTTPC_vPrepareRequest(r)
           \/ UNCHANGED << conn, strings, header_received,
                           buffer_wait_timer_elapsed, waited, stopped >>
     \/ /\ SteamStarted
        /\ UNCHANGED << conn, strings, header_received, waited, stopped,
                        buffer_wait_timer_elapsed >>
  /\ SteamStarted' = TRUE
  /\ StopStreaming' = FALSE
  /\ fed' = None
  /\ UNCHANGED << timer, fresh >>
HTTPC_vStartStreaming ==
  /\ ~SteamStarted
  /\ SteamStarted' = TRUE
  /\ \/ \E r \in Request : HTTPC_vPrepareRequest(r)
     \/ UNCHANGED << conn, strings, header_received,
                     buffer_wait_timer_elapsed, waited, stopped >>
  /\ fed' = None
  /\ UNCHANGED << StopStreaming, timer, fresh >>

(* HTTPC_vDnsCallback, called by the SDK with an address.                  *)
DnsResolved(r) ==
  /\ conn[r] = "resolving"
  /\ \E phase \in Connect : conn' = [conn EXCEPT ![r] = phase]
  /\ fed' = None
  /\ UNCHANGED << flags, strings, header_received, buffer_wait_timer_elapsed,
                  timer, fresh, waited, stopped >>

(* HTTPC_vDnsCallback, called by the SDK without an address.               *)
MutantDnsFailed(r) ==
  /\ conn[r] = "resolving"
  /\ conn' = [conn EXCEPT ![r] = "free"]
  /\ SteamStarted' = FALSE
  /\ fed' = None
  /\ UNCHANGED << StopStreaming, strings, header_received, buffer_wait_timer_elapsed,
                  timer, fresh, waited, stopped >>
DnsFailed(r) ==
  /\ conn[r] = "resolving"
  /\ conn' = [conn EXCEPT ![r] = "free"]
  /\ fed' = None
  /\ UNCHANGED << flags, strings, header_received, buffer_wait_timer_elapsed,
                  timer, fresh, waited, stopped >>

(* HTTPC_vConnectCallback sends the request; data can arrive from now on.  *)
HTTPC_vConnectCallback(r) ==
  /\ conn[r] = "connecting"
  /\ conn' = [conn EXCEPT ![r] = "open"]
  /\ fed' = None
  /\ UNCHANGED << flags, strings, header_received, buffer_wait_timer_elapsed,
                  timer, fresh, waited, stopped >>

---------------------------------------------------------------------------
(* Receiving.                                                              *)

(* The connection is closed; the SDK delivers what is under way and then   *)
(* calls HTTPC_vDisconnectCallback.                                        *)
EspconnDisconnect(r) == conn' = [conn EXCEPT ![r] = "closing"]

(* HTTPC_vFillBuffer: music reaches the ring once the wait is over.        *)
HTTPC_vFillBuffer(r) == fed' = IF buffer_wait_timer_elapsed[r] THEN r ELSE None

(* A packet that arrives after STOP closes the connection.                 *)
ReceiveStopped(r) ==
  /\ StopStreaming
  /\ EspconnDisconnect(r)
  /\ fed' = None
  /\ UNCHANGED << header_received, timer, fresh >>

(* The first packet arms the timer.  It has to hold the whole header.      *)
ReceiveFirst(r, header) ==
  /\ ~StopStreaming
  /\ ~header_received[r]
  /\ timer' = r
  /\ fresh' = TRUE
  /\ \/ /\ header
        /\ header_received' = [header_received EXCEPT ![r] = TRUE]
        /\ HTTPC_vFillBuffer(r)
        /\ UNCHANGED conn
     \/ /\ ~header
        /\ EspconnDisconnect(r)
        /\ fed' = None
        /\ UNCHANGED header_received

ReceiveMusic(r) ==
  /\ ~StopStreaming
  /\ header_received[r]
  /\ HTTPC_vFillBuffer(r)
  /\ UNCHANGED << conn, header_received, timer, fresh >>

(* HTTPC_vReceiveCallback; header tells whether the packet holds the blank *)
(* line that ends a header.                                                *)
HTTPC_vReceiveCallback(r, header) ==
  /\ conn[r] \in {"open", "closing"}
  /\ ReceiveStopped(r) \/ ReceiveFirst(r, header) \/ ReceiveMusic(r)
  /\ UNCHANGED << flags, strings, buffer_wait_timer_elapsed, waited, stopped >>

(* HTTPC_vTimerCallback writes through the pointer it was armed with.  If  *)
(* the request was freed meanwhile, the write hits memory that is free or  *)
(* that holds the next request.                                            *)
HTTPC_vTimerCallback ==
  /\ timer # None
  /\ timer' = None
  /\ buffer_wait_timer_elapsed' = [buffer_wait_timer_elapsed EXCEPT ![timer] = TRUE]
  /\ waited' = IF fresh THEN waited \cup {timer} ELSE waited
  /\ fresh' = FALSE
  /\ fed' = None
  /\ UNCHANGED << flags, conn, strings, header_received, stopped >>

---------------------------------------------------------------------------
(* Ending a stream.                                                        *)

(* HTTPC_vStopStreaming, from the STOP button.                             *)
HTTPC_vStopStreaming ==
  /\ StopStreaming' = TRUE
  /\ stopped' = stopped \cup {r \in Request : Live(r)}
  /\ fed' = None
  /\ UNCHANGED << SteamStarted, conn, strings, header_received, timer, fresh,
                  buffer_wait_timer_elapsed, waited >>

(* HTTPC_vDisconnectCallback, also called by HTTPC_vErrorCallback: resets  *)
(* both flags, tells the user and frees everything the stream allocated.   *)
(* The timer is not disarmed.                                              *)
MutantEndKeepsFlag(r) ==
  /\ StopStreaming' = FALSE
  /\ UNCHANGED SteamStarted
  /\ conn' = [conn EXCEPT ![r] = "free"]
  /\ strings' = strings \ {r}
  /\ fresh' = (fresh /\ timer # r)
  /\ fed' = None
  /\ UNCHANGED << header_received, buffer_wait_timer_elapsed, timer, waited, stopped >>
EndStream(r) ==
  /\ StopStreaming' = FALSE
  /\ SteamStarted' = FALSE
  /\ conn' = [conn EXCEPT ![r] = "free"]
  /\ strings' = strings \ {r}
  /\ fresh' = (fresh /\ timer # r)
  /\ fed' = None
  /\ UNCHANGED << header_received, buffer_wait_timer_elapsed, timer, waited, stopped >>

HTTPC_vDisconnectCallback(r) == conn[r] \in {"open", "closing"} /\ EndStream(r)

HTTPC_vErrorCallback(r) ==
  conn[r] \in {"connecting", "open", "closing"} /\ EndStream(r)

---------------------------------------------------------------------------

User == HTTPC_vStartStreaming \/ HTTPC_vStopStreaming

Network(r) ==
  \/ DnsResolved(r)
  \/ DnsFailed(r)
  \/ HTTPC_vConnectCallback(r)
  \/ \E header \in BOOLEAN : HTTPC_vReceiveCallback(r, header)
  \/ HTTPC_vDisconnectCallback(r)
  \/ HTTPC_vErrorCallback(r)

Next ==
  \/ User
  \/ HTTPC_vTimerCallback
  \/ \E r \in Request : Network(r)

Spec == Init /\ [][Next]_vars

(* Scheduling.  The SDK answers every DNS query and connection attempt,    *)
(* completes every disconnect and fires an armed timer; the server keeps   *)
(* sending while the connection is open.  A server that falls silent       *)
(* without closing is outside this assumption: the code has no timeout.    *)
Fairness ==
  /\ WF_vars(HTTPC_vTimerCallback)
  /\ \A r \in Request :
       /\ WF_vars(DnsResolved(r) \/ DnsFailed(r))
       /\ WF_vars(\/ HTTPC_vConnectCallback(r)
                  \/ conn[r] = "connecting" /\ HTTPC_vErrorCallback(r))
       /\ WF_vars(\E header \in BOOLEAN : HTTPC_vReceiveCallback(r, header))
       /\ WF_vars(conn[r] = "closing" /\ HTTPC_vDisconnectCallback(r))

FairSpec == Spec /\ Fairness

---------------------------------------------------------------------------
(* Properties.                                                             *)

TypeOK ==
  /\ StopStreaming \in BOOLEAN
  /\ SteamStarted \in BOOLEAN
  /\ conn \in [Request -> Phase]
  /\ strings \subseteq Request
  /\ header_received \in [Request -> BOOLEAN]
  /\ buffer_wait_timer_elapsed \in [Request -> BOOLEAN]
  /\ timer \in Request \cup {None}
  /\ fed \in Request \cup {None}
  /\ fresh \in BOOLEAN
  /\ waited \subseteq Request
  /\ stopped \subseteq Request

(* However PLAY, autoplay, DNS answers and disconnects interleave, at most *)
(* one request exists, and SteamStarted is set while it does: two streams  *)
(* never write into the ring buffer, and the timer is never shared.        *)
OneStream ==
  /\ \A r, s \in Request : conn[r] # "free" /\ conn[s] # "free" => r = s
  /\ \A r \in Request : conn[r] # "free" => SteamStarted

(* A stream that is past its header and has not waited yet is the one the  *)
(* single HTTPC_TimerObject is armed for: no other stream, and no late     *)
(* firing, takes its timer away.                                           *)
OwnTimerArmed ==
  \A r \in Request :
    conn[r] \in {"open", "closing"} /\ header_received[r] /\ r \notin waited =>
      timer = r /\ fresh

(* Once the user has pressed STOP, no packet of the stream that was        *)
(* running then reaches the ring buffer, whatever is pressed afterwards.   *)
StoppedStreamIsSilent == fed # None => fed \notin stopped

(* A stream that got its header gets to play: its wait ends, unless the    *)
(* stream does.                                                            *)
WaitEnds ==
  \A r \in Request :
    (conn[r] = "open" /\ header_received[r]) ~>
      (buffer_wait_timer_elapsed[r] \/ conn[r] = "free")

(* STOP ends a stream that is connecting or connected, and afterwards a    *)
(* new one can be started.                                                 *)
StopEndsStream ==
  \A r \in Request :
    (StopStreaming /\ conn[r] \in {"connecting", "open", "closing"}) ~> ~SteamStarted

(* Neither the wait for a full buffer nor a stop is for ever.              *)
StreamMovesOn == WaitEnds /\ StopEndsStream

(* Strings that no request owns: only a pointer that is gone led to them.  *)
Lost == {r \in strings : conn[r] = "free"}

(* A request that exists has its strings, so that no callback reads freed  *)
(* memory; and the heap loses those of one stream at most.  The branch of  *)
(* HTTPC_vDnsCallback that frees a request without them leaves             *)
(* SteamStarted set (httpclient.c:460), so that no other stream can begin  *)
(* and lose its own as well: every end that resets the flag frees all.     *)
OneLossAtMost ==
  /\ \A r \in Request : conn[r] # "free" => r \in strings
  /\ \A r \in Lost :
       SteamStarted /\ strings = {r} /\ \A s \in Request : conn[s] = "free"

===========================================================================
