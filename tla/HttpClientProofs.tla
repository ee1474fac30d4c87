------------------------- MODULE HttpClientProofs -------------------------
(***************************************************************************)
(* The streaming client (user/httpclient.c): the life of a request, and    *)
(* behind it the metadata that is taken out of its stream.                 *)
(*                                                                         *)
(* The safety properties of HttpClient hold for every number of requests   *)
(* the heap has room for.                                                  *)
(*                                                                         *)
(* None of them is inductive alone.  OwnTimerArmed needs to know that a    *)
(* stream that is not connected yet has no header and that only one stream *)
(* exists; StoppedStreamIsSilent needs to know that a stop the user asked  *)
(* for is still pending.  Safe adds these facts and is inductive.          *)
(***************************************************************************)
EXTENDS HttpClient, IcyDemux, SequenceTheorems, FiniteSetTheorems, TLAPS

(* A stream that is not connected yet has no header.                       *)
NoHeaderYet ==
  \A r \in Request : conn[r] \in {"resolving", "connecting"} => ~header_received[r]

(* The timer, if armed by a request that still exists, was armed by one    *)
(* that is connected.                                                      *)
FreshTimerIsLive ==
  fresh => timer \in Request /\ conn[timer] \in {"open", "closing"}

(* A stream the user stopped and that still exists has yet to be ended.    *)
StopIsPending == \A r \in stopped : Live(r) => StopStreaming

Safe ==
  /\ TypeOK
  /\ OneStream
  /\ NoHeaderYet
  /\ FreshTimerIsLive
  /\ OwnTimerArmed
  /\ StopIsPending
  /\ StoppedStreamIsSilent

(* With no stream asked for, no request exists.                            *)
LEMMA IdleIsFree ==
  ASSUME Safe, ~SteamStarted, NEW r \in Request
  PROVE  conn[r] = "free"
  BY DEF Safe, OneStream

(* The only request that exists is the one a callback is about.            *)
LEMMA OthersAreFree ==
  ASSUME Safe, NEW r \in Request, conn[r] # "free", NEW s \in Request, s # r
  PROVE  conn[s] = "free"
  BY DEF Safe, OneStream

(* The device starts with no request, no timer and no flag set.            *)
LEMMA InitSafe == Init => Safe
  BY NoneAssumption
  DEF Init, Safe, TypeOK, Phase, OneStream, NoHeaderYet, FreshTimerIsLive,
      OwnTimerArmed, StopIsPending, StoppedStreamIsSilent

---------------------------------------------------------------------------
(* One lemma per action.                                                   *)

(* PLAY: all memory is free, so the new request is the only one.           *)
LEMMA StartSafe ==
  ASSUME Safe, HTTPC_vStartStreaming
  PROVE  Safe'
<1>1. \A s \in Request : conn[s] = "free"
  BY IdleIsFree DEF HTTPC_vStartStreaming
<1>2. /\ ~fresh
      /\ timer' = timer /\ fresh' = fresh /\ fed' = None
      /\ StopStreaming' = StopStreaming /\ SteamStarted' = TRUE
  BY <1>1 DEF HTTPC_vStartStreaming, Safe, FreshTimerIsLive
<1>3. CASE UNCHANGED << conn, strings, header_received,
                        buffer_wait_timer_elapsed, waited, stopped >>
  BY <1>1, <1>2, <1>3
  DEF Safe, TypeOK, OneStream, NoHeaderYet, FreshTimerIsLive, OwnTimerArmed,
      StopIsPending, StoppedStreamIsSilent, Live, Phase
<1>4. ASSUME NEW r \in Request, HTTPC_vPrepareRequest(r)
      PROVE  Safe'
  <2>1. PICK phase \in {"resolving", "free", "connecting", "orphan"} :
          conn' = [conn EXCEPT ![r] = phase]
    BY <1>4 DEF HTTPC_vPrepareRequest, Connect
  <2>2. /\ header_received' = [header_received EXCEPT ![r] = FALSE]
        /\ waited' = waited \ {r}
        /\ stopped' = stopped \ {r}
        /\ strings' = strings \cup {r}
        /\ buffer_wait_timer_elapsed' = [buffer_wait_timer_elapsed EXCEPT ![r] = FALSE]
    BY <1>4 DEF HTTPC_vPrepareRequest
  <2>3. TypeOK'
    BY <1>2, <2>1, <2>2 DEF Safe, TypeOK, Phase
  <2>4. /\ conn'[r] = phase /\ header_received'[r] = FALSE
        /\ \A s \in Request \ {r} : conn'[s] = "free"
    BY <1>1, <2>1, <2>2 DEF Safe, TypeOK
  <2>5. OneStream' /\ NoHeaderYet' /\ FreshTimerIsLive' /\ OwnTimerArmed'
    BY <1>2, <2>4
    DEF OneStream, NoHeaderYet, FreshTimerIsLive, OwnTimerArmed
  <2>6. StopIsPending' /\ StoppedStreamIsSilent'
    BY <1>2, <2>2, <2>4, <2>3
    DEF StopIsPending, StoppedStreamIsSilent, Live, TypeOK
  <2>7. QED
    BY <2>3, <2>5, <2>6 DEF Safe
<1>5. QED
  BY <1>3, <1>4 DEF HTTPC_vStartStreaming

(* STOP: the flag is set for whatever stream exists.                       *)
LEMMA StopSafe ==
  ASSUME Safe, HTTPC_vStopStreaming
  PROVE  Safe'
  BY DEF Safe, HTTPC_vStopStreaming, TypeOK, OneStream, NoHeaderYet,
         FreshTimerIsLive, OwnTimerArmed, StopIsPending, StoppedStreamIsSilent, Live

(* The DNS answer and the connect callback move the request on; it has no  *)
(* header, and the timer is not its own.                                   *)
LEMMA ConnectingSafe ==
  ASSUME Safe, NEW r \in Request,
         DnsResolved(r) \/ DnsFailed(r) \/ HTTPC_vConnectCallback(r)
  PROVE  Safe'
<1>1. PICK phase \in Phase \ {"closing"} : conn' = [conn EXCEPT ![r] = phase]
  BY DEF DnsResolved, DnsFailed, HTTPC_vConnectCallback, Connect, Phase
<1>2. /\ conn[r] \in {"resolving", "connecting"} /\ ~header_received[r]
      /\ UNCHANGED << flags, strings, header_received, buffer_wait_timer_elapsed,
                      timer, fresh, waited, stopped >>
      /\ fed' = None
  BY DEF DnsResolved, DnsFailed, HTTPC_vConnectCallback, Safe, NoHeaderYet, TypeOK
<1>3. conn[r] # "free" /\ Live(r) /\ SteamStarted
  BY <1>2 DEF Safe, TypeOK, Live, OneStream, Phase
<1>4. TypeOK'
  BY <1>1, <1>2 DEF Safe, TypeOK, flags
<1>5. /\ conn'[r] = phase
      /\ \A s \in Request \ {r} : conn'[s] = "free" /\ conn[s] = "free"
  BY <1>1, <1>3, OthersAreFree DEF Safe, TypeOK
<1>6. ~fresh
  BY <1>2, <1>5 DEF Safe, FreshTimerIsLive
<1>7. OneStream' /\ NoHeaderYet' /\ FreshTimerIsLive' /\ OwnTimerArmed'
  BY <1>2, <1>3, <1>5, <1>6
  DEF flags, OneStream, NoHeaderYet, FreshTimerIsLive, OwnTimerArmed
<1>8. StopIsPending' /\ StoppedStreamIsSilent'
  BY <1>2, <1>3, <1>5, <1>4
  DEF Safe, flags, StopIsPending, StoppedStreamIsSilent, Live, TypeOK
<1>9. QED
  BY <1>4, <1>7, <1>8 DEF Safe

(* A packet: STOP or a missing header close the connection, the first      *)
(* packet arms the timer, and only a stream that was not stopped is fed.   *)
LEMMA ReceiveSafe ==
  ASSUME Safe, NEW r \in Request, NEW header \in BOOLEAN,
         HTTPC_vReceiveCallback(r, header)
  PROVE  Safe'
<1>1. /\ conn[r] \in {"open", "closing"} /\ Live(r)
      /\ UNCHANGED << flags, strings, buffer_wait_timer_elapsed, waited, stopped >>
  BY DEF HTTPC_vReceiveCallback, Live, Phase
<1>2. \A s \in Request \ {r} : conn[s] = "free"
  BY <1>1, OthersAreFree
<1>3. ~StopStreaming => r \notin stopped
  BY <1>1 DEF Safe, StopIsPending
<1>4. PICK phase \in {"open", "closing"} : conn' = [conn EXCEPT ![r] = phase]
  <2>1. conn = [conn EXCEPT ![r] = conn[r]]
    BY DEF Safe, TypeOK
  <2>2. QED
    BY <1>1, <2>1
    DEF HTTPC_vReceiveCallback, ReceiveStopped, ReceiveFirst, ReceiveMusic,
        EspconnDisconnect
<1>5. /\ fed' \in {r, None}
      /\ fed' = r => ~StopStreaming
      /\ \/ /\ timer' = timer /\ fresh' = fresh
            /\ header_received' = header_received
         \/ /\ timer' = r /\ fresh' = TRUE
            /\ \/ header_received' = header_received
               \/ header_received' = [header_received EXCEPT ![r] = TRUE]
  BY NoneAssumption
  DEF HTTPC_vReceiveCallback, ReceiveStopped, ReceiveFirst, ReceiveMusic,
      HTTPC_vFillBuffer
<1>6. TypeOK'
  BY <1>1, <1>4, <1>5 DEF Safe, TypeOK, Phase, flags
<1>7. /\ conn'[r] = phase
      /\ \A s \in Request \ {r} : conn'[s] = "free"
  BY <1>2, <1>4 DEF Safe, TypeOK
<1>8. OneStream' /\ NoHeaderYet'
  BY <1>1, <1>7 DEF Safe, OneStream, NoHeaderYet, flags
<1>9. FreshTimerIsLive' /\ OwnTimerArmed'
  <2>1. FreshTimerIsLive /\ OwnTimerArmed /\ waited' = waited
    BY <1>1 DEF Safe
  <2>2. CASE timer' = r /\ fresh' = TRUE
    BY <2>2, <1>7 DEF FreshTimerIsLive, OwnTimerArmed
  <2>3. CASE timer' = timer /\ fresh' = fresh /\ header_received' = header_received
    <3>1. fresh => timer = r
      BY <2>1, <1>2 DEF FreshTimerIsLive
    <3>2. FreshTimerIsLive'
      BY <3>1, <2>3, <1>7 DEF FreshTimerIsLive
    <3>3. OwnTimerArmed'
      BY <2>1, <2>3, <1>1, <1>7 DEF OwnTimerArmed
    <3>4. QED
      BY <3>2, <3>3
  <2>4. QED
    BY <2>2, <2>3, <1>5
<1>10. StopIsPending' /\ StoppedStreamIsSilent'
  BY <1>1, <1>3, <1>5, <1>6, <1>7
  DEF Safe, StopIsPending, StoppedStreamIsSilent, Live, TypeOK, flags
<1>11. QED
  BY <1>6, <1>8, <1>9, <1>10 DEF Safe

(* The timer: if it is the stream's own, the stream has waited from now on. *)
LEMMA TimerSafe ==
  ASSUME Safe, HTTPC_vTimerCallback
  PROVE  Safe'
<1>1. TypeOK'
  BY DEF Safe, TypeOK, HTTPC_vTimerCallback, flags
<1>2. OneStream' /\ NoHeaderYet' /\ FreshTimerIsLive'
  BY DEF Safe, HTTPC_vTimerCallback, flags, OneStream, NoHeaderYet, FreshTimerIsLive
<1>3. OwnTimerArmed'
  BY DEF Safe, HTTPC_vTimerCallback, OwnTimerArmed, TypeOK
<1>4. StopIsPending' /\ StoppedStreamIsSilent'
  BY DEF Safe, HTTPC_vTimerCallback, flags, StopIsPending, StoppedStreamIsSilent,
         Live
<1>5. QED
  BY <1>1, <1>2, <1>3, <1>4 DEF Safe

(* The end of a stream resets the flags; no other stream is there to be    *)
(* hit by that.                                                            *)
LEMMA EndSafe ==
  ASSUME Safe, NEW r \in Request, conn[r] # "free", EndStream(r)
  PROVE  Safe'
<1>1. \A s \in Request : conn'[s] = "free"
  BY OthersAreFree DEF EndStream, Safe, TypeOK
<1>2. TypeOK'
  BY DEF Safe, TypeOK, Phase, EndStream
<1>3. OneStream' /\ NoHeaderYet' /\ OwnTimerArmed'
  BY <1>1 DEF OneStream, NoHeaderYet, OwnTimerArmed
<1>4. ~fresh'
  <2>1. CASE fresh
    <3>1. timer \in Request /\ conn[timer] # "free"
      BY <2>1 DEF Safe, FreshTimerIsLive
    <3>2. timer = r
      BY <3>1, OthersAreFree
    <3>3. QED
      BY <3>2 DEF EndStream
  <2>2. CASE ~fresh
    BY <2>2 DEF EndStream
  <2>3. QED
    BY <2>1, <2>2
<1>5. FreshTimerIsLive'
  BY <1>4 DEF FreshTimerIsLive
<1>6. StopIsPending' /\ StoppedStreamIsSilent'
  BY <1>1, <1>2 DEF StopIsPending, StoppedStreamIsSilent, Live, EndStream, TypeOK
<1>7. QED
  BY <1>2, <1>3, <1>5, <1>6 DEF Safe

(* A step that changes nothing the invariant speaks of.                    *)
LEMMA StutterSafe ==
  ASSUME Safe, UNCHANGED vars
  PROVE  Safe'
  BY DEF Safe, vars, TypeOK, OneStream, NoHeaderYet, FreshTimerIsLive,
         OwnTimerArmed, StopIsPending, StoppedStreamIsSilent, Live

---------------------------------------------------------------------------

(* Every step of the client preserves Safe, so Safe always holds.          *)
LEMMA AlwaysSafe == Spec => []Safe
<1>1. Safe /\ [Next]_vars => Safe'
  <2> SUFFICES ASSUME Safe, [Next]_vars PROVE Safe'
    OBVIOUS
  <2>1. CASE User
    BY <2>1, StartSafe, StopSafe DEF User
  <2>2. CASE HTTPC_vTimerCallback
    BY <2>2, TimerSafe
  <2>3. ASSUME NEW r \in Request, Network(r) PROVE Safe'
    <3>1. CASE DnsResolved(r) \/ DnsFailed(r) \/ HTTPC_vConnectCallback(r)
      BY <3>1, ConnectingSafe
    <3>2. CASE \E header \in BOOLEAN : HTTPC_vReceiveCallback(r, header)
      BY <3>2, ReceiveSafe
    <3>3. CASE HTTPC_vDisconnectCallback(r) \/ HTTPC_vErrorCallback(r)
      BY <3>3, EndSafe DEF HTTPC_vDisconnectCallback, HTTPC_vErrorCallback
    <3>4. QED
      BY <2>3, <3>1, <3>2, <3>3 DEF Network
  <2>4. CASE UNCHANGED vars
    BY <2>4, StutterSafe
  <2>5. QED
    BY <2>1, <2>2, <2>3, <2>4 DEF Next
<1>2. QED
  BY InitSafe, <1>1, PTL DEF Spec

(* All variables stay within their types.                                  *)
THEOREM TypeCorrect == Spec => []TypeOK
<1>1. Safe => TypeOK
  BY DEF Safe
<1>2. QED
  BY AlwaysSafe, <1>1, PTL

(* There is never more than one stream, and SteamStarted is set while      *)
(* there is one: HTTPC_vStartStreaming's test of that flag is enough to    *)
(* keep a second stream away from the ring buffer and the timer.           *)
THEOREM AtMostOneStream == Spec => []OneStream
<1>1. Safe => OneStream
  BY DEF Safe
<1>2. QED
  BY AlwaysSafe, <1>1, PTL

(* The one HTTPC_TimerObject is enough: a stream with a header that has    *)
(* not waited yet is the one the timer is armed for.                       *)
THEOREM TimerIsNotStolen == Spec => []OwnTimerArmed
<1>1. Safe => OwnTimerArmed
  BY DEF Safe
<1>2. QED
  BY AlwaysSafe, <1>1, PTL

(* After STOP nothing of the stopped stream reaches the ring buffer.       *)
THEOREM StopSilences == Spec => []StoppedStreamIsSilent
<1>1. Safe => StoppedStreamIsSilent
  BY DEF Safe
<1>2. QED
  BY AlwaysSafe, <1>1, PTL

(* The strings of the one request that exists are the only ones.           *)
LEMMA OnlyItsStrings ==
  ASSUME Safe, OneLossAtMost, NEW r \in Request, conn[r] # "free"
  PROVE  strings = {r}
<1>1. r \in strings /\ strings \subseteq Request
  BY DEF OneLossAtMost, Safe, TypeOK
<1>2. ASSUME NEW s \in strings, s # r PROVE FALSE
  <2>1. conn[s] = "free"
    BY <1>1, <1>2, OthersAreFree
  <2>2. QED
    BY <2>1 DEF OneLossAtMost, Lost
<1>3. QED
  BY <1>1, <1>2

(* With no stream asked for, nothing is allocated or lost.                 *)
LEMMA IdleHasNoStrings ==
  ASSUME Safe, OneLossAtMost, ~SteamStarted
  PROVE  strings = {} /\ \A r \in Request : conn[r] = "free"
<1>1. \A r \in Request : conn[r] = "free"
  BY IdleIsFree
<1>2. QED
  BY <1>1 DEF OneLossAtMost, Lost, Safe, TypeOK

(* PLAY begins with nothing allocated; what it allocates is one request    *)
(* with its strings, or the strings alone and the flag.                    *)
LEMMA StartLoss ==
  ASSUME Safe, OneLossAtMost, HTTPC_vStartStreaming
  PROVE  OneLossAtMost'
<1>1. strings = {} /\ (\A s \in Request : conn[s] = "free") /\ SteamStarted'
  BY IdleHasNoStrings DEF HTTPC_vStartStreaming
<1>2. ASSUME NEW r \in Request, HTTPC_vPrepareRequest(r) PROVE OneLossAtMost'
  <2>1. strings' = {r} /\ \A s \in Request \ {r} : conn'[s] = "free"
    BY <1>1, <1>2 DEF HTTPC_vPrepareRequest, Safe, TypeOK
  <2>2. QED
    BY <1>1, <2>1 DEF OneLossAtMost, Lost
<1>3. CASE UNCHANGED << conn, strings >>
  BY <1>1, <1>3 DEF OneLossAtMost, Lost
<1>4. QED
  BY <1>2, <1>3 DEF HTTPC_vStartStreaming

(* A callback moves the only request on, or ends it: with its strings and  *)
(* the flag, or, for want of an address, with neither.                     *)
LEMMA NetworkLoss ==
  ASSUME Safe, OneLossAtMost, NEW r \in Request, Network(r)
  PROVE  OneLossAtMost'
<1>1. conn[r] # "free" /\ conn \in [Request -> Phase]
  BY DEF Network, DnsResolved, DnsFailed, HTTPC_vConnectCallback, HTTPC_vReceiveCallback,
         HTTPC_vDisconnectCallback, HTTPC_vErrorCallback, Safe, TypeOK
<1>2. /\ strings = {r} /\ SteamStarted
      /\ \A s \in Request \ {r} : conn[s] = "free"
  BY <1>1, OnlyItsStrings, OthersAreFree DEF Safe, OneStream
<1>3. CASE DnsResolved(r) \/ DnsFailed(r) \/ HTTPC_vConnectCallback(r)
  <2>1. /\ strings' = {r} /\ SteamStarted'
        /\ \A s \in Request \ {r} : conn'[s] = "free"
    BY <1>1, <1>2, <1>3 DEF DnsResolved, DnsFailed, HTTPC_vConnectCallback, flags
  <2>2. QED
    BY <2>1 DEF OneLossAtMost, Lost
<1>4. CASE \E header \in BOOLEAN : HTTPC_vReceiveCallback(r, header)
  <2>1. /\ strings' = {r} /\ SteamStarted'
        /\ \A s \in Request \ {r} : conn'[s] = "free"
    BY <1>1, <1>2, <1>4
    DEF HTTPC_vReceiveCallback, ReceiveStopped, ReceiveFirst, ReceiveMusic,
        EspconnDisconnect, flags
  <2>2. QED
    BY <2>1 DEF OneLossAtMost, Lost
<1>5. CASE EndStream(r)
  <2>1. strings' = {} /\ \A s \in Request : conn'[s] = "free"
    BY <1>1, <1>2, <1>5 DEF EndStream
  <2>2. QED
    BY <2>1 DEF OneLossAtMost, Lost
<1>6. QED
  BY <1>3, <1>4, <1>5 DEF Network, HTTPC_vDisconnectCallback, HTTPC_vErrorCallback

(* Whatever ends the streams and however often PLAY is pressed, a request  *)
(* that exists has its strings, and the heap loses those of one stream at  *)
(* most: a failed start is the last (HTTPC_vDnsCallback,                   *)
(* HTTPC_vDisconnectCallback, HTTPC_vStartStreaming).                      *)
THEOREM FailedStartIsLast == Spec => []OneLossAtMost
<1>1. Init => OneLossAtMost
  BY DEF Init, OneLossAtMost, Lost
<1>2. Safe /\ OneLossAtMost /\ [Next]_vars => OneLossAtMost'
  <2> SUFFICES ASSUME Safe, OneLossAtMost, [Next]_vars PROVE OneLossAtMost'
    OBVIOUS
  <2>1. CASE HTTPC_vStopStreaming \/ HTTPC_vTimerCallback \/ UNCHANGED vars
    BY <2>1 DEF HTTPC_vStopStreaming, HTTPC_vTimerCallback, flags, vars, OneLossAtMost, Lost
  <2>2. QED
    BY <2>1, StartLoss, NetworkLoss DEF Next, User
<1>3. QED
  BY <1>1, <1>2, AlwaysSafe, PTL DEF Spec

-----------------------------------------------------------------------------
(* IcyDemux.  The metadata countdown never loses the stream, for every     *)
(* interval no packet exceeds, every block size and every way the stream   *)
(* is cut into packets.                                                    *)
(*                                                                         *)
(* CountdownInSync is not inductive alone: to see that a new length byte   *)
(* is the only one of its packet, and where the one after it will be, the  *)
(* invariant has to say how far the server has come since the length byte  *)
(* that waits in the packet.                                               *)

(* From a length byte in the packet to the next one lie its text and       *)
(* `interval' bytes of music: those sent and those still to come.          *)
Progress ==
  \A i \in LengthBytes :
    Len(packet) - i + textLeft + musicLeft = packet[i].val * BLOCK + interval

(* What the server still has to send of the current block fits the width   *)
(* of the countdown.                                                       *)
TextFits == textLeft + interval + MaxLen + 1 < U32

InSync == IcyTypeOK /\ CountdownInSync /\ Progress /\ TextFits

(* Unsigned subtraction: taking a difference away from its minuend, both   *)
(* cut to the same width, gives back the subtrahend.                       *)
LEMMA WrapTwice ==
  ASSUME NEW a \in Nat, NEW x \in Nat, NEW M \in Nat, a < M, x < M,
         NEW y \in Nat, y = (a - x) % M
  PROVE  (a - y) % M = x
<1>1. CASE a >= x
  <2>1. (a - x) % M = a - x
    BY <1>1, SMTT(30)
  <2>2. x % M = x
    BY SMTT(30)
  <2>3. QED
    BY <2>1, <2>2, <1>1
<1>2. CASE a < x
  <2>1. (a - x) % M = a - x + M
    BY <1>2, SMTT(30)
  <2>2. (x - M) % M = x
    BY SMTT(30)
  <2>3. QED
    BY <2>1, <2>2, <1>2
<1>3. QED
  BY <1>1, <1>2

(* A number cut to a width is a natural number.                            *)
LEMMA WrapInNat ==
  ASSUME NEW d \in Int, NEW M \in Nat \ {0}
  PROVE  d % M \in Nat
  BY SMTT(30)

(* The product of two natural numbers is one.                              *)
LEMMA ProductInNat ==
  ASSUME NEW k \in Nat
  PROVE  k * BLOCK \in Nat
  BY StreamAssumption

(* A length byte lies in the packet, and its value counts blocks.          *)
LEMMA LengthByteType ==
  ASSUME IcyTypeOK, NEW i \in LengthBytes
  PROVE  /\ i \in 1 .. Len(packet) /\ i \in Nat /\ Len(packet) \in Nat
         /\ packet[i].val \in Nat /\ packet[i].val * BLOCK \in Nat
<1>1. i \in 1 .. Len(packet) /\ packet[i] \in WireByte /\ Len(packet) \in Nat
  BY DEF IcyTypeOK, LengthBytes
<1>2. packet[i].val \in Nat
  BY <1>1 DEF WireByte
<1>3. packet[i].val * BLOCK \in Nat
  BY <1>2, ProductInNat
<1>4. i \in Nat
  BY <1>1
<1>5. QED
  BY <1>1, <1>2, <1>3, <1>4, Zenon

(* Nothing is sent yet, and the countdown is the interval.                 *)
LEMMA InitInSync == IcyInit => InSync
<1> SUFFICES ASSUME IcyInit PROVE InSync
  OBVIOUS
<1>1. packet = << >> /\ fill = << >> /\ Len(packet) = 0
  BY DEF IcyInit
<1>2. LengthBytes = {}
  BY <1>1 DEF LengthBytes
<1>3. IcyTypeOK
  BY <1>1, StreamAssumption, WidthAssumption DEF IcyInit, IcyTypeOK
<1>4. CountdownInSync /\ Progress /\ TextFits
  BY <1>1, <1>2, StreamAssumption, WidthAssumption
  DEF IcyInit, CountdownInSync, Progress, TextFits
<1>5. QED
  BY <1>3, <1>4 DEF InSync

(* Appending a byte that is no length byte leaves the length bytes alone;  *)
(* appending one adds its position.                                        *)
LEMMA LengthBytesAppend ==
  ASSUME IcyTypeOK, NEW b \in WireByte, packet' = Append(packet, b)
  PROVE  /\ packet' \in Seq(WireByte) /\ Len(packet') = Len(packet) + 1
         /\ Len(packet) \in Nat
         /\ \A i \in LengthBytes : packet'[i] = packet[i]
         /\ b.kind # "length" => LengthBytes' = LengthBytes
         /\ b.kind = "length" => LengthBytes' = LengthBytes \cup {Len(packet) + 1}
<1>1. packet \in Seq(WireByte) /\ Len(packet) \in Nat
  BY DEF IcyTypeOK
<1>2. /\ packet' \in Seq(WireByte) /\ Len(packet') = Len(packet) + 1
      /\ \A i \in 1 .. Len(packet) : packet'[i] = packet[i]
      /\ packet'[Len(packet) + 1] = b
  BY <1>1, AppendProperties
<1>3. LengthBytes' = {i \in 1 .. Len(packet) + 1 : packet'[i].kind = "length"}
  BY <1>2 DEF LengthBytes
<1>4. QED
  BY <1>1, <1>2, <1>3 DEF LengthBytes

(* The server's next byte.                                                 *)
LEMMA SendInSync ==
  ASSUME MaxLen <= interval + 1, InSync, Send
  PROVE  InSync'
<1>1. /\ IcyTypeOK /\ CountdownInSync /\ Progress /\ TextFits
      /\ Len(packet) < MaxLen /\ until' = until /\ fill' = fill
  BY DEF InSync, Send
<1>2. /\ interval \in Nat /\ MaxLen \in Nat /\ BLOCK \in Nat /\ U32 \in Nat
      /\ textLeft \in Nat /\ musicLeft \in 0 .. interval /\ until \in 0 .. U32 - 1
      /\ Len(packet) \in Nat
  BY <1>1, StreamAssumption, WidthAssumption DEF IcyTypeOK
<1>4. CASE SendText \/ SendMusic
  <2>1. PICK b \in WireByte : packet' = Append(packet, b) /\ b.kind # "length"
    <3>1. ASSUME NEW v \in Noise, NEW kind \in {"text", "music"}
          PROVE  Wire(kind, v) \in WireByte /\ Wire(kind, v).kind # "length"
      BY StreamAssumption DEF Wire, WireByte
    <3>2. QED
      BY <1>4, <3>1 DEF SendText, SendMusic
  <2>2. PICK t \in Nat, m \in 0 .. interval :
          /\ textLeft' = t /\ musicLeft' = m
          /\ t <= textLeft
          /\ t + m = textLeft + musicLeft - 1
    <3>1. CASE SendText
      BY <1>2, <3>1 DEF SendText
    <3>2. CASE SendMusic
      BY <1>2, <3>2 DEF SendMusic
    <3>3. QED
      BY <1>4, <3>1, <3>2
  <2>3. /\ packet' \in Seq(WireByte) /\ Len(packet') = Len(packet) + 1
        /\ LengthBytes' = LengthBytes
        /\ \A i \in LengthBytes : packet'[i] = packet[i]
    BY <2>1, <1>1, LengthBytesAppend
  <2>4. IcyTypeOK'
    BY <1>1, <1>2, <2>2, <2>3 DEF IcyTypeOK
  <2>5. CountdownInSync'
    <3>1. CASE LengthBytes = {} /\ until = Len(packet) + textLeft + musicLeft
      <4>1. until' = Len(packet') + textLeft' + musicLeft'
        BY <1>1, <1>2, <2>2, <2>3, <3>1
      <4>2. QED
        BY <4>1, <3>1, <2>3 DEF CountdownInSync
    <3>2. CASE LengthBytes = {until + 1}
      BY <3>2, <1>1, <2>3 DEF CountdownInSync
    <3>3. QED
      BY <3>1, <3>2, <1>1 DEF CountdownInSync
  <2>6. Progress'
    <3>1. ASSUME NEW i \in LengthBytes
          PROVE  Len(packet') - i + textLeft' + musicLeft' = packet'[i].val * BLOCK + interval
      <4>1. Len(packet) - i + textLeft + musicLeft = packet[i].val * BLOCK + interval
        BY <1>1 DEF Progress
      <4>2. PICK w \in Nat : w = packet[i].val * BLOCK
        BY <1>1, LengthByteType
      <4>3. packet'[i].val * BLOCK = w
        BY <4>2, <2>3
      <4>4. i \in Nat
        BY <1>1, LengthByteType
      <4>5. Len(packet) + 1 - i + t + m = w + interval
        BY <4>1, <4>2, <4>4, <2>2, <1>2
      <4>6. Len(packet') - i + textLeft' + musicLeft' = Len(packet) + 1 - i + t + m
        BY <2>2, <2>3, <1>2, <4>4
      <4>7. QED
        BY <4>3, <4>5, <4>6, Zenon
    <3>2. QED
      BY <3>1, <2>3 DEF Progress
  <2>7. TextFits'
    BY <1>1, <1>2, <2>2 DEF TextFits
  <2>8. QED
    BY <2>4, <2>5, <2>6, <2>7 DEF InSync
<1>5. CASE SendLength
  <2>1. PICK k \in Blocks : /\ packet' = Append(packet, Wire("length", k))
                            /\ textLeft' = k * BLOCK
    BY <1>5 DEF SendLength
  <2>2. musicLeft' = interval /\ textLeft = 0 /\ musicLeft = 0
    BY <1>5 DEF SendLength
  <2>3. k \in Nat /\ k * BLOCK \in Nat /\ interval + MaxLen + k * BLOCK + 1 < U32
    BY ProductInNat, StreamAssumption, WidthAssumption
  <2>4. LengthBytes = {}
    <3>1. ASSUME NEW i \in LengthBytes PROVE FALSE
      <4>1. PICK w \in Nat : w = packet[i].val * BLOCK
        BY <1>1, LengthByteType
      <4>2. i \in 1 .. Len(packet)
        BY <1>1, LengthByteType
      <4>3. Len(packet) - i = w + interval
        BY <1>1, <1>2, <2>2, <4>1, <4>2 DEF Progress
      <4>4. QED
        BY <4>2, <4>3, <1>1, <1>2
    <3>2. QED
      BY <3>1
  <2>5. until = Len(packet)
    BY <2>2, <2>4, <1>1, <1>2 DEF CountdownInSync
  <2>6. Wire("length", k) \in WireByte /\ Wire("length", k).kind = "length"
        /\ Wire("length", k).val = k
    BY <2>3 DEF Wire, WireByte
  <2>7. /\ packet' \in Seq(WireByte) /\ Len(packet') = Len(packet) + 1
        /\ LengthBytes' = {Len(packet) + 1}
    BY <2>1, <2>4, <2>6, <1>1, LengthBytesAppend
  <2>8. packet'[Len(packet) + 1].val = k
    BY <2>1, <2>6, <1>1, AppendProperties DEF IcyTypeOK
  <2>9. IcyTypeOK'
    BY <1>1, <1>2, <2>1, <2>2, <2>3, <2>7 DEF IcyTypeOK
  <2>10. CountdownInSync'
    BY <1>1, <2>5, <2>7 DEF CountdownInSync
  <2>11. Progress'
    BY <1>2, <2>1, <2>2, <2>3, <2>7, <2>8 DEF Progress
  <2>12. TextFits'
    BY <1>2, <2>1, <2>3 DEF TextFits
  <2>13. QED
    BY <2>9, <2>10, <2>11, <2>12 DEF InSync
<1>6. QED
  BY <1>4, <1>5 DEF Send

(* The callback takes the packet: the new countdown is what the server has *)
(* still to send before its next length byte, whether the metadata block   *)
(* was whole or cut.                                                       *)
LEMMA ReceiveInSync ==
  ASSUME InSync, Receive
  PROVE  InSync'
<1>1. /\ IcyTypeOK /\ CountdownInSync /\ Progress /\ TextFits
      /\ packet' = << >> /\ textLeft' = textLeft /\ musicLeft' = musicLeft
  BY DEF InSync, Receive
<1>2. /\ interval \in Nat /\ MaxLen \in Nat /\ BLOCK \in Nat
      /\ U32 \in Nat /\ U16 \in Nat \ {0}
      /\ textLeft \in Nat /\ musicLeft \in 0 .. interval /\ until \in 0 .. U32 - 1
      /\ Len(packet) \in Nat /\ packet \in Seq(WireByte)
  BY <1>1, StreamAssumption, WidthAssumption DEF IcyTypeOK
<1>3. packet' \in Seq(WireByte) /\ Len(packet') = 0 /\ LengthBytes' = {}
  BY <1>1 DEF LengthBytes
<1>4. until' = textLeft + musicLeft /\ fill' \in Seq(WireByte)
  <2>1. CASE MusicOnly
    <3>1. LengthBytes # {until + 1}
      BY <2>1, <1>2 DEF MusicOnly, LengthBytes
    <3>2. until = Len(packet) + textLeft + musicLeft
      BY <3>1, <1>1 DEF CountdownInSync
    <3>3. QED
      BY <2>1, <3>2, <1>2 DEF MusicOnly
  <2>2. CASE WithMetadata
    <3>1. LengthBytes = {until + 1}
      BY <2>2, <1>1, <1>2 DEF WithMetadata, CountdownInSync
    <3>2. until + 1 \in 1 .. Len(packet)
      BY <3>1, <1>1, LengthByteType
    <3>3. PICK w \in Nat : w = packet[until + 1].val * BLOCK
      BY <3>1, <1>1, LengthByteType
    <3>4. PICK x \in Nat : x = textLeft + musicLeft
      BY <1>2
    <3>5. Len(packet) - until - (w + 1) = interval - x
      <4>1. Len(packet) - (until + 1) + textLeft + musicLeft = w + interval
        BY <3>1, <3>3, <1>1 DEF Progress
      <4>2. QED
        BY <4>1, <3>2, <3>3, <3>4, <1>2
    <3>6. interval < U32 /\ x < U32
      BY <1>1, <1>2, <3>4 DEF TextFits
    <3>7. (interval - x) % U32 \in Nat
      BY <3>4, <3>6, <1>2, WrapInNat
    <3>8. PICK after \in Nat : after = (interval - x) % U32
      BY <3>7
    <3>9. (interval - after) % U32 = x
      BY <3>8, <3>4, <3>6, <1>2, WrapTwice
    <3>10. (Len(packet) - until - (w + 1)) % U32 = after
      BY <3>8, <3>5, Zenon
    <3>11. /\ until' = (interval - after) % U32
          /\ fill' = SubSeq(packet, 1, until) \o Memory(until + (w + 1) + 1, after % U16)
      BY <2>2, <3>3, <3>10 DEF WithMetadata
    <3>12. SubSeq(packet, 1, until) \in Seq(WireByte)
      BY <3>2, <1>2, SubSeqProperties
    <3>13. Memory(until + (w + 1) + 1, after % U16) \in Seq(WireByte)
      <4>1. after % U16 \in Nat
        BY <1>2
      <4>2. Stray \in WireByte
        BY DEF Stray, Wire, WireByte
      <4>3. ASSUME NEW first \in Nat \ {0}, NEW count \in Nat
            PROVE  Memory(first, count) \in Seq(WireByte)
        <5>1. ASSUME NEW j \in 1 .. count
              PROVE  (IF first + j - 1 <= Len(packet) THEN packet[first + j - 1]
                      ELSE Stray) \in WireByte
          BY <4>2, <1>2
        <5>2. Memory(first, count) \in [1 .. count -> WireByte]
          BY <5>1 DEF Memory
        <5>3. QED
          BY <5>2, IsASeq
      <4>4. until + (w + 1) + 1 \in Nat \ {0}
        BY <1>2, <3>3
      <4>5. QED
        BY <4>1, <4>3, <4>4
    <3>14. QED
      BY <3>4, <3>9, <3>11, <3>12, <3>13, ConcatProperties
  <2>3. QED
    BY <2>1, <2>2 DEF Receive
<1>5. IcyTypeOK'
  BY <1>1, <1>2, <1>3, <1>4 DEF IcyTypeOK, TextFits
<1>6. CountdownInSync' /\ Progress'
  BY <1>1, <1>2, <1>3, <1>4 DEF CountdownInSync, Progress
<1>7. TextFits'
  BY <1>1 DEF TextFits
<1>8. QED
  BY <1>5, <1>6, <1>7 DEF InSync

(* Every reachable state satisfies the inductive invariant.                *)
THEOREM Invariance ==
  ASSUME MaxLen <= interval + 1
  PROVE  IcySpec => []InSync
<1>1. InSync /\ [IcyNext]_icyVars => InSync'
  <2> SUFFICES ASSUME InSync, [IcyNext]_icyVars PROVE InSync'
    OBVIOUS
  <2>1. CASE Send
    BY <2>1, SendInSync
  <2>2. CASE Receive
    BY <2>2, ReceiveInSync
  <2>3. CASE UNCHANGED icyVars
    BY <2>3 DEF icyVars, InSync, IcyTypeOK, CountdownInSync, Progress, TextFits, LengthBytes
  <2>4. QED
    BY <2>1, <2>2, <2>3 DEF IcyNext
<1>2. QED
  BY InitInSync, <1>1, PTL DEF IcySpec

(* The unsigned countdown keeps its width, a packet its length, and the    *)
(* server never sends more than it announced (HTTPC_vReceiveCallback).     *)
THEOREM IcyTypeCorrect ==
  ASSUME MaxLen <= interval + 1
  PROVE  IcySpec => []IcyTypeOK
<1>1. InSync => IcyTypeOK BY DEF InSync
<1>2. QED BY <1>1, Invariance, PTL

(* While no packet is longer than the interval and a length byte, the      *)
(* countdown always points at the next length byte: HTTPC_vReceiveCallback *)
(* never mistakes music for a length, even after a metadata block that was *)
(* cut by the end of a packet.                                             *)
THEOREM CountdownStaysInSync ==
  ASSUME MaxLen <= interval + 1
  PROVE  IcySpec => []CountdownInSync
<1>1. InSync => CountdownInSync BY DEF InSync
<1>2. QED BY <1>1, Invariance, PTL

---------------------------------------------------------------------------

(* What the bytes of the packet are: behind its length byte comes the text *)
(* the length byte announces, and behind that the music.                   *)
Framed ==
  /\ \A i \in 1 .. Len(packet) : packet[i].kind # "stray"
  /\ textLeft > 0 => musicLeft = interval
  /\ \A i \in LengthBytes : \A j \in i + 1 .. Len(packet) :
       packet[j].kind =
         IF j - i <= packet[i].val * BLOCK THEN "text" ELSE "music"

(* The server's next byte is of the kind its place in the block asks for.  *)
LEMMA SendFramed ==
  ASSUME MaxLen <= interval + 1, InSync, Framed, Send
  PROVE  Framed'
<1>1. /\ IcyTypeOK /\ Progress /\ CountdownInSync
      /\ packet \in Seq(WireByte) /\ Len(packet) \in Nat
      /\ interval \in Nat /\ textLeft \in Nat /\ musicLeft \in 0 .. interval
  BY StreamAssumption DEF InSync, IcyTypeOK
<1>2. CASE SendText \/ SendMusic
  <2>1. PICK kind \in {"text", "music"}, v \in Nat :
          /\ packet' = Append(packet, Wire(kind, v))
          /\ kind = IF textLeft > 0 THEN "text" ELSE "music"
    BY <1>2, <1>1, StreamAssumption DEF SendText, SendMusic
  <2>2. /\ Wire(kind, v) \in WireByte /\ Wire(kind, v).kind = kind
        /\ kind # "length" /\ kind # "stray"
    BY DEF Wire, WireByte
  <2>3. /\ Len(packet') = Len(packet) + 1 /\ LengthBytes' = LengthBytes
        /\ \A i \in LengthBytes : packet'[i] = packet[i]
    BY <1>1, <2>1, <2>2, LengthBytesAppend
  <2>4. /\ \A i \in 1 .. Len(packet) : packet'[i] = packet[i]
        /\ packet'[Len(packet) + 1] = Wire(kind, v)
    BY <1>1, <2>1, <2>2, AppendProperties
  <2>5. \A i \in 1 .. Len(packet') : packet'[i].kind # "stray"
    BY <1>1, <2>2, <2>3, <2>4 DEF Framed
  <2>6. textLeft' > 0 => musicLeft' = interval
    BY <1>1, <1>2 DEF SendText, SendMusic, Framed
  <2>7. ASSUME NEW i \in LengthBytes, NEW j \in i + 1 .. Len(packet')
        PROVE  packet'[j].kind =
                 IF j - i <= packet'[i].val * BLOCK THEN "text" ELSE "music"
    <3>1. /\ i \in 1 .. Len(packet) /\ i \in Nat
          /\ packet[i].val * BLOCK \in Nat
      BY <1>1, LengthByteType
    <3>2. PICK w \in Nat : w = packet[i].val * BLOCK
      BY <3>1
    <3>3. packet'[i].val * BLOCK = w
      BY <3>2, <2>3
    <3>4. CASE j = Len(packet) + 1
      <4>1. Len(packet) - i + textLeft + musicLeft = w + interval
        BY <1>1, <3>2 DEF Progress
      <4>2. j - i <= w <=> textLeft > 0
        BY <4>1, <3>1, <3>4, <1>1, <1>2 DEF SendText, SendMusic, Framed
      <4>3. packet'[j].kind = kind
        BY <3>4, <2>2, <2>4
      <4>4. QED
        BY <4>2, <4>3, <3>3, <2>1, Zenon
    <3>5. CASE j # Len(packet) + 1
      <4>1. j \in i + 1 .. Len(packet) /\ j \in 1 .. Len(packet)
        BY <3>1, <3>5, <2>3, <1>1
      <4>2. packet'[j] = packet[j]
        BY <4>1, <2>4
      <4>3. packet[j].kind = IF j - i <= w THEN "text" ELSE "music"
        BY <4>1, <3>2 DEF Framed
      <4>4. QED
        BY <4>2, <4>3, <3>3, Zenon
    <3>6. QED
      BY <3>4, <3>5
  <2>8. QED
    BY <2>3, <2>5, <2>6, <2>7 DEF Framed
<1>3. CASE SendLength
  <2>1. PICK k \in Blocks : packet' = Append(packet, Wire("length", k))
    BY <1>3 DEF SendLength
  <2>2. musicLeft' = interval /\ textLeft = 0 /\ musicLeft = 0
    BY <1>3 DEF SendLength
  <2>3. LengthBytes = {}
    <3>1. ASSUME NEW i \in LengthBytes PROVE FALSE
      <4>1. PICK w \in Nat : w = packet[i].val * BLOCK
        BY <1>1, LengthByteType
      <4>2. i \in 1 .. Len(packet)
        BY <1>1, LengthByteType
      <4>3. Len(packet) - i = w + interval
        BY <1>1, <2>2, <4>1, <4>2 DEF Progress
      <4>4. Len(packet) < MaxLen /\ MaxLen \in Nat
        BY StreamAssumption DEF Send
      <4>5. QED
        BY <4>2, <4>3, <4>4, <1>1
    <3>2. QED
      BY <3>1
  <2>4. Wire("length", k) \in WireByte /\ Wire("length", k).kind = "length"
    BY StreamAssumption DEF Wire, WireByte
  <2>5. /\ Len(packet') = Len(packet) + 1
        /\ LengthBytes' = {Len(packet) + 1}
    BY <2>1, <2>3, <2>4, <1>1, LengthBytesAppend
  <2>6. /\ \A i \in 1 .. Len(packet) : packet'[i] = packet[i]
        /\ packet'[Len(packet) + 1] = Wire("length", k)
    BY <1>1, <2>1, <2>4, AppendProperties
  <2>7. \A i \in 1 .. Len(packet') : packet'[i].kind # "stray"
    BY <1>1, <2>4, <2>5, <2>6 DEF Framed
  <2>8. \A i \in LengthBytes' : i + 1 .. Len(packet') = {}
    BY <1>1, <2>5
  <2>9. QED
    BY <2>2, <2>7, <2>8, Zenon DEF Framed
<1>4. QED
  BY <1>2, <1>3 DEF Send

(* The packet that HTTPC_vReceiveCallback takes leaves nothing behind.     *)
LEMMA ReceiveFramed ==
  ASSUME InSync, Framed, Receive
  PROVE  Framed'
<1>1. /\ packet' = << >> /\ Len(packet') = 0
      /\ textLeft' = textLeft /\ musicLeft' = musicLeft
  BY DEF Receive
<1>2. 1 .. Len(packet') = {} /\ LengthBytes' = {}
  BY <1>1 DEF LengthBytes
<1>3. QED
  BY <1>1, <1>2, Zenon DEF Framed

(* Numbers up to n without those above a and up to b: how many there are,  *)
(* and the how-manieth each one is.                                        *)
LEMMA Ranks ==
  ASSUME NEW n \in Nat, NEW b \in 0 .. n, NEW a \in 0 .. b,
         NEW S, S = (1 .. a) \cup (b + 1 .. n)
  PROVE  /\ Cardinality(S) = a + (n - b)
         /\ \A i \in S : Cardinality({j \in S : j <= i}) =
                          IF i <= a THEN i ELSE i - (b - a)
<1>1. ASSUME NEW m \in b .. n
      PROVE  Cardinality((1 .. a) \cup (b + 1 .. m)) = a + (m - b)
  <2>1. IsFiniteSet(1 .. a) /\ Cardinality(1 .. a) = a
    BY FS_Interval
  <2>2. IsFiniteSet(b + 1 .. m) /\ Cardinality(b + 1 .. m) = m - b
    <3>1. PICK c \in Int : c = b + 1
      OBVIOUS
    <3>2. /\ IsFiniteSet(c .. m)
          /\ Cardinality(c .. m) = IF c > m THEN 0 ELSE m - c + 1
      BY FS_Interval
    <3>3. (IF c > m THEN 0 ELSE m - c + 1) = m - b
      BY <3>1
    <3>4. QED
      BY <3>1, <3>2, <3>3
  <2>3. (1 .. a) \cap (b + 1 .. m) = {}
    OBVIOUS
  <2>4. Cardinality((1 .. a) \cap (b + 1 .. m)) = 0
    BY <2>3, FS_EmptySet
  <2>5. Cardinality((1 .. a) \cup (b + 1 .. m)) = a + (m - b) - 0
    <3>1. \A S1, T1 : IsFiniteSet(S1) /\ IsFiniteSet(T1) =>
            Cardinality(S1 \cup T1) =
              Cardinality(S1) + Cardinality(T1) - Cardinality(S1 \cap T1)
      BY FS_Union
    <3>2. Cardinality((1 .. a) \cup (b + 1 .. m)) =
            Cardinality(1 .. a) + Cardinality(b + 1 .. m)
              - Cardinality((1 .. a) \cap (b + 1 .. m))
      BY <3>1, <2>1, <2>2, Zenon
    <3>3. QED
      BY <3>2, <2>1, <2>2, <2>4, Zenon
  <2>6. QED
    BY <2>5
<1>2. ASSUME NEW i \in S
      PROVE  Cardinality({j \in S : j <= i}) =
               IF i <= a THEN i ELSE i - (b - a)
  <2>1. CASE i <= a
    <3>1. {j \in S : j <= i} = 1 .. i
      BY <2>1
    <3>2. i \in Nat /\ i >= 1 /\ Cardinality(1 .. i) = i
      BY <2>1, FS_Interval
    <3>3. QED
      BY <2>1, <3>1, <3>2
  <2>2. CASE ~(i <= a)
    <3>1. i \in b + 1 .. n
      BY <2>2
    <3>2. {j \in S : j <= i} = (1 .. a) \cup (b + 1 .. i)
      BY <3>1
    <3>3. Cardinality((1 .. a) \cup (b + 1 .. i)) = a + (i - b)
      BY <3>1, <1>1
    <3>4. QED
      BY <2>2, <3>1, <3>2, <3>3
  <2>3. QED
    BY <2>1, <2>2
<1>3. Cardinality(S) = a + (n - b)
  BY <1>1
<1>4. QED
  BY <1>2, <1>3

(* A packet whose bytes above a and up to b are cut out, element by        *)
(* element.                                                                *)
LEMMA CutOut ==
  ASSUME IcyTypeOK, NEW b \in 0 .. Len(packet), NEW a \in 0 .. b
  PROVE  LET s == SubSeq(packet, 1, a) \o Memory(b + 1, Len(packet) - b)
         IN  /\ Len(s) = a + (Len(packet) - b)
             /\ \A i \in 1 .. a : s[i] = packet[i]
             /\ \A i \in b + 1 .. Len(packet) : s[i - (b - a)] = packet[i]
<1> DEFINE left == SubSeq(packet, 1, a)
           right == Memory(b + 1, Len(packet) - b)
<1>1. packet \in Seq(WireByte) /\ Len(packet) \in Nat
  BY DEF IcyTypeOK
<1>2. /\ left \in Seq(WireByte) /\ Len(left) = a
      /\ \A i \in 1 .. a : left[i] = packet[i]
  <2>1. \A i \in 1 .. a : packet[i] \in WireByte
    BY <1>1
  <2>2. 1 - 1 = 0 /\ a - 1 + 1 = a
    OBVIOUS
  <2>3. left = [i \in 1 .. a |-> packet[1 + i - 1]]
    BY <1>1 DEF left
  <2>4. left = [i \in 1 .. a |-> packet[i]]
    BY <2>3
  <2>5. left \in [1 .. a -> WireByte]
    BY <2>1, <2>4
  <2>6. left \in Seq(WireByte) /\ Len(left) = a
    <3>1. a \in Nat
      OBVIOUS
    <3>2. left \in Seq(WireByte)
      <4>1. \A n \in Nat : \A f \in [1 .. n -> WireByte] : f \in Seq(WireByte)
        OBVIOUS
      <4>2. QED
        BY <2>5, <3>1, <4>1, Zenon
    <3>3. DOMAIN left = 1 .. a /\ Len(left) \in Nat
          /\ DOMAIN left = 1 .. Len(left)
      BY <2>5, <3>2, LenProperties
    <3>4. QED
      BY <3>1, <3>2, <3>3
  <2>7. QED
    BY <2>4, <2>6
<1>3. /\ right \in Seq(WireByte) /\ Len(right) = Len(packet) - b
      /\ \A i \in 1 .. Len(packet) - b : right[i] = packet[b + i]
  <2>1. ASSUME NEW i \in 1 .. Len(packet) - b
        PROVE  /\ b + 1 + i - 1 = b + i /\ b + i <= Len(packet)
               /\ packet[b + i] \in WireByte
    BY <1>1
  <2>2. right = [i \in 1 .. Len(packet) - b |-> packet[b + i]]
    BY <2>1 DEF right, Memory
  <2>3. right \in [1 .. Len(packet) - b -> WireByte]
    BY <2>1, <2>2
  <2>4. right \in Seq(WireByte) /\ Len(right) = Len(packet) - b
    BY <2>3, <1>1, IsASeq, LenProperties
  <2>5. QED
    BY <2>2, <2>4
<1> HIDE DEF left, right
<1>4. /\ Len(left \o right) = Len(left) + Len(right)
      /\ \A i \in 1 .. Len(left) + Len(right) :
           (left \o right)[i] =
             IF i <= Len(left) THEN left[i] ELSE right[i - Len(left)]
  BY <1>2, <1>3, ConcatProperties
<1>5. \A i \in 1 .. a : (left \o right)[i] = packet[i]
  BY <1>1, <1>2, <1>3, <1>4
<1>6. ASSUME NEW i \in b + 1 .. Len(packet)
      PROVE  (left \o right)[i - (b - a)] = packet[i]
  <2>1. /\ i - (b - a) \in 1 .. a + (Len(packet) - b)
        /\ ~(i - (b - a) <= a) /\ i - (b - a) - a = i - b
        /\ i - b \in 1 .. Len(packet) - b /\ b + (i - b) = i
    BY <1>1
  <2>2. (left \o right)[i - (b - a)] = right[i - b]
    BY <2>1, <1>2, <1>3, <1>4
  <2>3. QED
    BY <2>1, <2>2, <1>3
<1>7. QED
  BY <1>2, <1>3, <1>4, <1>5, <1>6 DEF left, right

(* HTTPC_vReceiveCallback takes a packet of whole blocks: the two calls of *)
(* HTTPC_vFillBuffer pass on the bytes before the length byte and those    *)
(* behind its text, which are the music.                                   *)
LEMMA MusicIsCutOut ==
  ASSUME InSync, Framed, Receive, WholeBlocks
  PROVE  \E b \in 0 .. Len(packet) : \E a \in 0 .. b :
           /\ MusicBytes = (1 .. a) \cup (b + 1 .. Len(packet))
           /\ fill' = SubSeq(packet, 1, a) \o Memory(b + 1, Len(packet) - b)
<1>1. /\ IcyTypeOK /\ CountdownInSync /\ Progress
      /\ packet \in Seq(WireByte) /\ Len(packet) \in Nat
      /\ Len(packet) <= MaxLen /\ MaxLen \in Nat
      /\ interval \in Nat /\ textLeft = 0 /\ musicLeft \in 0 .. interval
      /\ until \in 0 .. U32 - 1
      /\ U16 \in Nat \ {0} /\ U32 \in Nat /\ MaxLen < U16 /\ U16 < U32
  BY StreamAssumption, WidthAssumption DEF InSync, IcyTypeOK, WholeBlocks
<1>2. \A i \in 1 .. Len(packet) :
        packet[i].kind \in {"music", "text", "length"}
  <2>1. ASSUME NEW i \in 1 .. Len(packet)
        PROVE  packet[i].kind \in {"music", "text", "length"}
    <3>1. packet[i] \in WireByte /\ packet[i].kind # "stray"
      BY <1>1 DEF Framed
    <3>2. QED
      BY <3>1 DEF WireByte
  <2>2. QED
    BY <2>1
<1>3. CASE MusicOnly
  <2>1. LengthBytes = {}
    BY <1>3, <1>1 DEF MusicOnly, LengthBytes, CountdownInSync
  <2>2. MusicBytes = 1 .. Len(packet)
    BY <2>1, <1>2 DEF MusicBytes, WholeBlocks, LengthBytes
  <2>3. fill' = packet
    BY <1>3 DEF MusicOnly
  <2>4. /\ Len(packet) \in 0 .. Len(packet)
        /\ Len(packet) + 1 .. Len(packet) = {}
    BY <1>1
  <2>5. SubSeq(packet, 1, Len(packet)) = packet
    BY <1>1
  <2>6. packet \o Memory(Len(packet) + 1, Len(packet) - Len(packet)) = packet
    <3>1. 1 .. Len(packet) - Len(packet) = {}
      BY <1>1
    <3>2. Memory(Len(packet) + 1, Len(packet) - Len(packet)) = << >>
      BY <3>1, <1>1 DEF Memory
    <3>3. QED
      BY <3>2, <1>1
  <2>7. QED
    BY <2>2, <2>3, <2>4, <2>5, <2>6
<1>4. CASE WithMetadata
  <2>1. LengthBytes = {until + 1}
    BY <1>4, <1>1 DEF WithMetadata, CountdownInSync
  <2>2. until + 1 \in 1 .. Len(packet)
    BY <2>1, <1>1, LengthByteType
  <2>3. PICK w \in Nat : w = packet[until + 1].val * BLOCK
    BY <2>1, <1>1, LengthByteType
  <2>4. PICK b \in Nat : b = until + w + 1
    BY <1>1
  <2>5. PICK after \in Nat : after = interval - musicLeft
    BY <1>1
  <2>6. Len(packet) - b = after
    <3>1. Len(packet) - (until + 1) + textLeft + musicLeft = w + interval
      BY <2>1, <2>3, <1>1 DEF Progress
    <3>2. QED
      BY <3>1, <2>4, <2>5, <1>1
  <2>7. b \in 0 .. Len(packet) /\ until \in 0 .. b /\ after < U16 /\ after < U32
    BY <2>4, <2>5, <2>6, <1>1
  <2>8. /\ Len(packet) - until - (w + 1) = after
        /\ until + (w + 1) + 1 = b + 1
    BY <2>4, <2>6, <1>1
  <2>9. after % U32 = after /\ after % U16 = after
    BY <2>7, <1>1, SMTT(30)
  <2>10. fill' = SubSeq(packet, 1, until)
                   \o Memory(until + (w + 1) + 1,
                             ((Len(packet) - until - (w + 1)) % U32) % U16)
    BY <1>4, <2>3, Zenon DEF WithMetadata
  <2>11. fill' = SubSeq(packet, 1, until) \o Memory(b + 1, Len(packet) - b)
    BY <2>6, <2>8, <2>9, <2>10, Zenon
  <2>12. MusicBytes = (1 .. until) \cup (b + 1 .. Len(packet))
    <3>1. ASSUME NEW i \in 1 .. Len(packet), i <= until
          PROVE  packet[i].kind = "music"
      <4>1. i \notin LengthBytes
        BY <3>1, <2>1, <1>1
      <4>2. ~ \E j \in LengthBytes : j < i
        BY <3>1, <2>1, <1>1
      <4>3. QED
        BY <4>1, <4>2, <1>2 DEF WholeBlocks, LengthBytes
    <3>2. ASSUME NEW i \in 1 .. Len(packet), i = until + 1
          PROVE  packet[i].kind # "music"
      BY <3>2, <2>1 DEF LengthBytes
    <3>3. ASSUME NEW i \in 1 .. Len(packet), i > until + 1
          PROVE  packet[i].kind = "music" <=> i > b
      <4>1. i \in until + 1 + 1 .. Len(packet)
        BY <3>3, <1>1
      <4>2. packet[i].kind = IF i - (until + 1) <= w THEN "text" ELSE "music"
        BY <4>1, <2>1, <2>3 DEF Framed
      <4>3. i - (until + 1) <= w <=> ~(i > b)
        BY <2>4, <1>1
      <4>4. QED
        BY <4>2, <4>3
    <3>4. \A i \in 1 .. Len(packet) :
            packet[i].kind = "music" <=> i <= until \/ i > b
      BY <3>1, <3>2, <3>3, <2>4, <1>1
    <3>5. \A i : i \in (1 .. until) \cup (b + 1 .. Len(packet))
                <=> i \in 1 .. Len(packet) /\ (i <= until \/ i > b)
      BY <2>2, <2>4, <1>1
    <3>6. QED
      BY <3>4, <3>5 DEF MusicBytes
  <2>13. QED
    BY <2>7, <2>11, <2>12
<1>5. QED
  BY <1>3, <1>4 DEF Receive

(* From a packet in which no metadata block is cut, HTTPC_vReceiveCallback *)
(* passes to HTTPC_vFillBuffer the bytes of music, all of them, no other,  *)
(* and in their order, whatever the interval, the block size and the       *)
(* length of the text, as long as no packet exceeds the interval by more   *)
(* than the length byte.                                                   *)
THEOREM MusicIsExtracted ==
  ASSUME MaxLen <= interval + 1
  PROVE  IcySpec => MusicExtracted
<1> DEFINE Exact ==
      /\ Len(fill') = Cardinality(MusicBytes)
      /\ \A i \in MusicBytes :
           fill'[Cardinality({j \in MusicBytes : j <= i})] = packet[i]
<1>1. InSync /\ Framed /\ Receive /\ WholeBlocks => Exact
  <2> SUFFICES ASSUME InSync, Framed, Receive, WholeBlocks PROVE Exact
    OBVIOUS
  <2>1. IcyTypeOK /\ Len(packet) \in Nat
    BY DEF InSync, IcyTypeOK
  <2>2. PICK b \in 0 .. Len(packet) : \E a \in 0 .. b :
          /\ MusicBytes = (1 .. a) \cup (b + 1 .. Len(packet))
          /\ fill' = SubSeq(packet, 1, a) \o Memory(b + 1, Len(packet) - b)
    BY MusicIsCutOut
  <2>3. PICK a \in 0 .. b :
          /\ MusicBytes = (1 .. a) \cup (b + 1 .. Len(packet))
          /\ fill' = SubSeq(packet, 1, a) \o Memory(b + 1, Len(packet) - b)
    BY <2>2
  <2>4. /\ Len(fill') = a + (Len(packet) - b)
        /\ \A i \in 1 .. a : fill'[i] = packet[i]
        /\ \A i \in b + 1 .. Len(packet) : fill'[i - (b - a)] = packet[i]
    BY <2>1, <2>3, CutOut
  <2>5. /\ Cardinality(MusicBytes) = a + (Len(packet) - b)
        /\ \A i \in MusicBytes : Cardinality({j \in MusicBytes : j <= i}) =
                                    IF i <= a THEN i ELSE i - (b - a)
    <3>1. Len(packet) \in Nat /\ b \in 0 .. Len(packet) /\ a \in 0 .. b
      BY <2>1
    <3>2. \A n \in Nat : \A b1 \in 0 .. n : \A a1 \in 0 .. b1 : \A S :
            S = (1 .. a1) \cup (b1 + 1 .. n) =>
              /\ Cardinality(S) = a1 + (n - b1)
              /\ \A i \in S : Cardinality({j \in S : j <= i}) =
                               IF i <= a1 THEN i ELSE i - (b1 - a1)
      BY Ranks, Zenon
    <3>3. \A S : S = (1 .. a) \cup (b + 1 .. Len(packet)) =>
            /\ Cardinality(S) = a + (Len(packet) - b)
            /\ \A i \in S : Cardinality({j \in S : j <= i}) =
                             IF i <= a THEN i ELSE i - (b - a)
      BY <3>1, <3>2, Zenon
    <3>4. QED
      BY <3>3, <2>3, Zenon
  <2>6. ASSUME NEW i \in MusicBytes
        PROVE  fill'[Cardinality({j \in MusicBytes : j <= i})] = packet[i]
    <3>1. CASE i <= a
      <4>1. i \in 1 .. a
        BY <3>1, <2>1, <2>3
      <4>2. Cardinality({j \in MusicBytes : j <= i}) = i
        BY <3>1, <2>5
      <4>3. QED
        BY <4>1, <4>2, <2>4, Zenon
    <3>2. CASE ~(i <= a)
      <4>1. i \in b + 1 .. Len(packet)
        BY <3>2, <2>1, <2>3
      <4>2. Cardinality({j \in MusicBytes : j <= i}) = i - (b - a)
        BY <3>2, <2>5
      <4>3. QED
        BY <4>1, <4>2, <2>4, Zenon
    <3>3. QED
      BY <3>1, <3>2
  <2>7. QED
    BY <2>4, <2>5, <2>6, Zenon
<1>2. IcyInit => Framed
  <2> SUFFICES ASSUME IcyInit PROVE Framed
    OBVIOUS
  <2>1. Len(packet) = 0 /\ textLeft = 0
    BY DEF IcyInit
  <2>2. 1 .. Len(packet) = {} /\ LengthBytes = {}
    BY <2>1 DEF LengthBytes
  <2>3. ~(textLeft > 0)
    BY <2>1
  <2>4. QED
    BY <2>2, <2>3, Zenon DEF Framed
<1>3. InSync /\ Framed /\ [IcyNext]_icyVars => Framed'
  <2> SUFFICES ASSUME InSync, Framed, [IcyNext]_icyVars PROVE Framed'
    OBVIOUS
  <2>1. CASE Send
    BY <2>1, SendFramed
  <2>2. CASE Receive
    BY <2>2, ReceiveFramed
  <2>3. CASE UNCHANGED icyVars
    BY <2>3, Zenon DEF icyVars, Framed, LengthBytes
  <2>4. QED
    BY <2>1, <2>2, <2>3 DEF IcyNext
<1>4. InSync /\ Framed /\ [IcyNext]_icyVars => [Receive /\ WholeBlocks => Exact]_icyVars
  BY <1>1
<1>5. QED
  BY Invariance, <1>2, <1>3, <1>4, PTL DEF IcySpec, MusicExtracted
===========================================================================
