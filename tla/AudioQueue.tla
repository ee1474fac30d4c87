---------------------------- MODULE AudioQueue ----------------------------
(***************************************************************************)
(* What the audio path promises its two neighbours: a bounded FIFO.  The   *)
(* HTTP client offers packets at one end, the VS1053 decoder is given      *)
(* whole chunks at the other.  Bytes may only be lost at the entrance,     *)
(* as a suffix of the packet that did not fit; nothing that was accepted   *)
(* is lost, repeated or reordered on its way to the decoder.               *)
(***************************************************************************)
EXTENDS Naturals, Sequences

CONSTANTS
  Byte,       (* the values a byte of audio data can take                  *)
  Packet,     (* the packets the client can offer                          *)
  CHUNK,      (* number of bytes the decoder takes at a time               *)
  CAPACITY    (* number of bytes that are accepted at any time             *)

VARIABLES
  queue,      (* accepted bytes that the decoder has not been given yet    *)
  sent        (* the chunk the decoder was given last                      *)

vars == << queue, sent >>

Init ==
  /\ queue = << >>
  /\ sent  = << >>

(* A prefix of the packet is accepted.  A byte is refused only when        *)
(* CAPACITY bytes are waiting already.                                     *)
Accept(p) ==
  /\ \E n \in 0 .. Len(p) :
       /\ queue' = queue \o SubSeq(p, 1, n)
       /\ n < Len(p) => Len(queue') >= CAPACITY
  /\ UNCHANGED sent

(* The oldest CHUNK bytes go to the decoder, in order.                     *)
Deliver ==
  /\ Len(queue) >= CHUNK
  /\ sent'  = SubSeq(queue, 1, CHUNK)
  /\ queue' = SubSeq(queue, CHUNK + 1, Len(queue))

Next ==
  \/ \E p \in Packet : Accept(p)
  \/ Deliver

Spec == Init /\ [][Next]_vars

===========================================================================
