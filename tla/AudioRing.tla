---------------------------- MODULE AudioRing -----------------------------
(***************************************************************************)
(* The ring buffer between the HTTP client and the VS1053 decoder, and the *)
(* 500 us timer that empties it (user/vs1053.c, user/timer.c).             *)
(*                                                                         *)
(* Two callbacks share the ring: a received packet is copied in by         *)
(* VS1053_vFillRingBuffer, VS1053_vPoll takes CHUNK bytes out and offers   *)
(* them to the chip.  The SDK runs one callback at a time to completion,   *)
(* so each is one step; they alternate in any order.  A chunk the chip     *)
(* refused (DREQ low) has left the ring already and waits in the static    *)
(* array `data' of VS1053_vPoll, here `chunk'.                             *)
(***************************************************************************)
EXTENDS Integers, Sequences

CONSTANTS
  Byte,         (* the values a byte can take                              *)
  Blank,        (* the value static storage starts with                    *)
  Packet,       (* the packets that can be received                        *)
  CHUNK,        (* 32 in the code                                          *)
  BUFFER_SIZE   (* 20000 in the code                                       *)

ASSUME ByteAssumption   == Blank \in Byte
ASSUME PacketAssumption == Packet \subseteq Seq(Byte)
ASSUME SizeAssumption   == /\ BUFFER_SIZE \in Nat /\ BUFFER_SIZE < 65536
                           /\ CHUNK \in Nat \ {0} /\ CHUNK < BUFFER_SIZE

VARIABLES
  data,          (* buffer.data                                            *)
  read,          (* buffer.read:  the field with the oldest content        *)
  write,         (* buffer.write: always an empty field                    *)
  chunk,         (* VS1053_vPoll's data[32]                                *)
  data_pending,  (* VS1053_vPoll's data_pending                            *)
  sent           (* the chunk the chip accepted last                       *)

ring == << data, read, write >>
vars == << data, read, write, chunk, data_pending, sent >>

Slot == 0 .. BUFFER_SIZE - 1

---------------------------------------------------------------------------
(* Index arithmetic and fill level.                                        *)

(* The field n places after field i; an index that reaches BUFFER_SIZE     *)
(* starts again at 0.                                                      *)
Forward(i, n) == IF i + n >= BUFFER_SIZE THEN i + n - BUFFER_SIZE ELSE i + n

(* VS1053_u16GetFreeBufferSize.                                            *)
Free ==
  IF write = read THEN BUFFER_SIZE
  ELSE IF write < read THEN read - write
  ELSE (BUFFER_SIZE - write) + read

(* VS1053_u16GetUsedBufferSize.                                            *)
Used == BUFFER_SIZE - Free

(* How often BufferIn succeeds in a row: it refuses a byte when `write'    *)
(* would catch up with `read', so one field always stays empty.            *)
MutantRoom == Free
Room == Free - 1

---------------------------------------------------------------------------

Init ==
  /\ data  = [i \in Slot |-> Blank]
  /\ read  = 0
  /\ write = 0
  /\ chunk = [k \in 1 .. CHUNK |-> Blank]
  /\ data_pending = FALSE
  /\ sent  = << >>

(* VS1053_vFillRingBuffer: bytes are stored until the packet ends or one   *)
(* is refused; the rest of the packet is lost, its stored prefix stays.    *)
VS1053_vFillRingBuffer(p) ==
  LET n       == IF Len(p) <= Room THEN Len(p) ELSE Room
      place(i) == IF i >= write THEN i - write ELSE i - write + BUFFER_SIZE
  IN  /\ data'  = [i \in Slot |-> IF place(i) < n THEN p[place(i) + 1]
                                  ELSE data[i]]
      /\ write' = Forward(write, n)
      /\ UNCHANGED << read, chunk, data_pending, sent >>

(* The CHUNK oldest bytes are copied out of the ring ...                   *)
Fetch ==
  /\ ~data_pending
  /\ chunk' = [k \in 1 .. CHUNK |-> data[Forward(read, k - 1)]]
  /\ read'  = Forward(read, CHUNK)

(* ... unless the chunk fetched before is still waiting.                   *)
Retry ==
  /\ data_pending
  /\ UNCHANGED << chunk, read >>

(* VS1053_vPoll.  With fewer than CHUNK bytes in the ring the call does    *)
(* nothing at all, whether a chunk waits or not.  dreq is the level of the *)
(* chip's DREQ pin when VS1053_u32SendMusicData samples it.                *)
MutantPollStuck(dreq) ==
  /\ Used >= CHUNK
  /\ Fetch \/ Retry
  /\ data_pending' = (data_pending \/ ~dreq)
  /\ sent' = IF dreq THEN chunk' ELSE sent
  /\ UNCHANGED << data, write >>
VS1053_vPoll(dreq) ==
  /\ Used >= CHUNK
  /\ Fetch \/ Retry
  /\ data_pending' = ~dreq
  /\ sent' = IF dreq THEN chunk' ELSE sent
  /\ UNCHANGED << data, write >>

Next ==
  \/ \E p \in Packet : VS1053_vFillRingBuffer(p)
  \/ \E dreq \in BOOLEAN : VS1053_vPoll(dreq)

Spec == Init /\ [][Next]_vars

(* The timer fires for ever, and the chip keeps asking for data: a poll    *)
(* that could succeed time and again does so in the end.  Nothing is       *)
(* assumed of the network.                                                 *)
Fairness == SF_vars(VS1053_vPoll(TRUE))

FairSpec == Spec /\ Fairness

---------------------------------------------------------------------------
(* Properties.                                                             *)

TypeOK ==
  /\ data  \in [Slot -> Byte]
  /\ read  \in Slot
  /\ write \in Slot
  /\ chunk \in [1 .. CHUNK -> Byte]
  /\ data_pending \in BOOLEAN
  /\ sent  \in {<< >>} \cup [1 .. CHUNK -> Byte]

(* The bytes on their way to the decoder, oldest first: the chunk that     *)
(* waits, then the fields from `read' up to `write'.                       *)
Waiting == IF data_pending THEN CHUNK ELSE 0

InFlight ==
  [k \in 1 .. Waiting + Used |->
     IF k <= Waiting THEN chunk[k] ELSE data[Forward(read, k - 1 - Waiting)]]

Queue == INSTANCE AudioQueue WITH queue <- InFlight, CAPACITY <- BUFFER_SIZE - 1

(* The ring, its two indices and the waiting chunk together behave as the  *)
(* bounded FIFO of AudioQueue: VS1053_vFillRingBuffer loses nothing but a  *)
(* suffix of a packet that does not fit, and VS1053_vPoll gives the chip   *)
(* every accepted byte once and in order, across wrap-arounds and however  *)
(* DREQ behaves.                                                           *)
ImplementsQueue == Queue!Spec

(* A chunk that the chip refused is offered again until it is taken, as    *)
(* long as the ring behind it holds a chunk to trigger the poll: the fill  *)
(* level is tested before the retry, so that the last chunk of a stream    *)
(* that was refused stays behind.                                          *)
RefusedChunkIsSent == (data_pending /\ Used >= CHUNK) ~> ~data_pending

===========================================================================
