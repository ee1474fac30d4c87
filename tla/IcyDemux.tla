----------------------------- MODULE IcyDemux -----------------------------
(***************************************************************************)
(* How HTTPC_vReceiveCallback (user/httpclient.c) takes the Icecast        *)
(* metadata out of the music.                                              *)
(*                                                                         *)
(* The server sends `interval' bytes of music, a length byte k, k * BLOCK  *)
(* bytes of text, and so on.  TCP cuts this stream into packets wherever   *)
(* it likes: here the server appends to `packet' byte by byte, and the     *)
(* callback takes whatever has gathered.  The client counts down to the    *)
(* next length byte in unsigned arithmetic: its uint32 variables wrap at   *)
(* U32, and the length it passes on to HTTPC_vFillBuffer is an unsigned    *)
(* short, cut off at U16.                                                  *)
(***************************************************************************)
EXTENDS Integers, Sequences, FiniteSets

CONSTANTS
  interval,    (* icycast_info_interval, from the header's icy-metaint     *)
  BLOCK,       (* 16 in the code: metadata comes in blocks of this size    *)
  Blocks,      (* the values a length byte can take                        *)
  Noise,       (* the values a byte of music or text can take              *)
  MaxLen,      (* longest packet                                           *)
  U16, U32     (* 2^16 and 2^32 in the code                                *)

ASSUME StreamAssumption ==
  /\ interval \in Nat \ {0}
  /\ BLOCK \in Nat \ {0}
  /\ Blocks \subseteq Nat
  /\ Noise \subseteq Nat
  /\ MaxLen \in Nat

(* Everything the stream can contain fits into the widths of the code:     *)
(* a packet into an unsigned short, a countdown into a uint32.             *)
ASSUME WidthAssumption ==
  /\ U16 \in Nat /\ U32 \in Nat
  /\ MaxLen < U16
  /\ U16 < U32
  /\ interval + MaxLen + 1 < U32
  /\ \A k \in Blocks : interval + MaxLen + k * BLOCK + 1 < U32

VARIABLES
  musicLeft,   (* server: music bytes to send before the next length byte  *)
  textLeft,    (* server: text bytes still to send                         *)
  packet,      (* bytes sent and not yet received                          *)
  until,       (* client: music_bytes_until_next_icycast                   *)
  fill         (* client: what the last call passed to HTTPC_vFillBuffer   *)

icyVars == << musicLeft, textLeft, packet, until, fill >>

(* A byte on the wire, with what the server means by it.                   *)
Wire(kind, val) == [kind |-> kind, val |-> val]

(* What lies in memory behind the end of the packet.                       *)
Stray == Wire("stray", 0)

WireByte == [kind : {"music", "text", "length", "stray"}, val : Nat]

---------------------------------------------------------------------------

(* HTTPC_vReceiveCallback has seen the header and sets the countdown.      *)
IcyInit ==
  /\ musicLeft = interval
  /\ textLeft = 0
  /\ packet = << >>
  /\ until = interval
  /\ fill = << >>

(* The server's next byte.                                                 *)
SendText ==
  /\ textLeft > 0
  /\ textLeft' = textLeft - 1
  /\ \E v \in Noise : packet' = Append(packet, Wire("text", v))
  /\ UNCHANGED musicLeft

SendMusic ==
  /\ textLeft = 0 /\ musicLeft > 0
  /\ musicLeft' = musicLeft - 1
  /\ \E v \in Noise : packet' = Append(packet, Wire("music", v))
  /\ UNCHANGED textLeft

SendLength ==
  /\ textLeft = 0 /\ musicLeft = 0
  /\ \E k \in Blocks :
       /\ packet' = Append(packet, Wire("length", k))
       /\ textLeft' = k * BLOCK
  /\ musicLeft' = interval

Send ==
  /\ Len(packet) < MaxLen
  /\ SendText \/ SendMusic \/ SendLength
  /\ UNCHANGED << until, fill >>

(* count bytes of memory from the first-th byte of the packet on.          *)
Memory(first, count) ==
  [i \in 1 .. count |->
     IF first + i - 1 <= Len(packet) THEN packet[first + i - 1] ELSE Stray]

(* The packet reaches beyond the countdown: it holds a length byte and its *)
(* text, which are skipped.  How much music follows is computed without    *)
(* asking whether the packet is long enough.                               *)
MutantSizeWithoutLengthByte ==
  LET size  == packet[until + 1].val * BLOCK
      after == (Len(packet) - until - size) % U32
  IN  /\ until < Len(packet)
      /\ fill'  = SubSeq(packet, 1, until)
                    \o Memory(until + size + 1, after % U16)
      /\ until' = (interval - after) % U32
MutantNextFromScratch ==
  LET size  == packet[until + 1].val * BLOCK + 1
      after == (Len(packet) - until - size) % U32
  IN  /\ until < Len(packet)
      /\ fill'  = SubSeq(packet, 1, until)
                    \o Memory(until + size + 1, after % U16)
      /\ until' = interval
WithMetadata ==
  LET size  == packet[until + 1].val * BLOCK + 1
      after == (Len(packet) - until - size) % U32
  IN  /\ until < Len(packet)
      /\ fill'  = SubSeq(packet, 1, until)
                    \o Memory(until + size + 1, after % U16)
      /\ until' = (interval - after) % U32

MusicOnly ==
  /\ until >= Len(packet)
  /\ fill'  = packet
  /\ until' = until - Len(packet)

(* HTTPC_vReceiveCallback, for a server that injects metadata.             *)
Receive ==
  /\ packet # << >>
  /\ WithMetadata \/ MusicOnly
  /\ packet' = << >>
  /\ UNCHANGED << musicLeft, textLeft >>

IcyNext == Send \/ Receive

IcySpec == IcyInit /\ [][IcyNext]_icyVars

---------------------------------------------------------------------------
(* Properties.                                                             *)

IcyTypeOK ==
  /\ musicLeft \in 0 .. interval
  /\ textLeft \in Nat
  /\ packet \in Seq(WireByte) /\ Len(packet) <= MaxLen
  /\ until \in 0 .. U32 - 1
  /\ fill \in Seq(WireByte)

LengthBytes == {i \in 1 .. Len(packet) : packet[i].kind = "length"}

(* The countdown is right at all times: the next length byte is the one    *)
(* byte of the packet it points at, or, when the packet holds none, it is  *)
(* still to come after what the server has yet to send.  This survives a   *)
(* metadata block that is cut in two: the size that wraps below zero makes *)
(* the countdown longer by exactly the text that is missing.               *)
CountdownInSync ==
  \/ LengthBytes = {} /\ until = Len(packet) + textLeft + musicLeft
  \/ LengthBytes = {until + 1}

(* A packet in which no metadata block is cut, at either end, is separated *)
(* exactly: every byte of music and nothing else goes to the ring buffer,  *)
(* in the order in which it came (HTTPC_vReceiveCallback's calls of        *)
(* HTTPC_vFillBuffer).                                                     *)
WholeBlocks ==
  /\ textLeft = 0
  /\ \A i \in 1 .. Len(packet) :
       packet[i].kind = "text" => \E j \in LengthBytes : j < i

MusicBytes == {i \in 1 .. Len(packet) : packet[i].kind = "music"}

MusicExtracted ==
  [][Receive /\ WholeBlocks =>
       /\ Len(fill') = Cardinality(MusicBytes)
       /\ \A i \in MusicBytes :
            fill'[Cardinality({j \in MusicBytes : j <= i})] = packet[i]]_icyVars

(* "All the data is mp3 => Send to buffer", "Send data after metadata to   *)
(* buffer": what goes to the ring buffer is music.                         *)
AllTheDataIsMp3 == \A i \in 1 .. Len(fill) : fill[i].kind = "music"

===========================================================================
