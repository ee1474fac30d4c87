-------------------------- MODULE AudioRingLoops --------------------------
(***************************************************************************)
(* The loops of the ring buffer as vs1053.c writes them, byte by byte with *)
(* BufferIn and BufferOut, to be compared with the steps of AudioRing,     *)
(* which move all bytes at once.                                           *)
(***************************************************************************)
EXTENDS AudioRing

(* The ring as a value, with the result of the last BufferIn/BufferOut.    *)
TheRing == [data |-> data, read |-> read, write |-> write, ok |-> TRUE, out |-> << >>]

(* BufferIn: one byte; refused when only the guard field is left.          *)
MutantBufferIn(b, byte) ==
  IF b.write + 1 = b.read
  THEN [b EXCEPT !.ok = FALSE]
  ELSE [b EXCEPT !.data[b.write] = byte,
                 !.write = IF @ + 1 >= BUFFER_SIZE THEN 0 ELSE @ + 1]
BufferIn(b, byte) ==
  IF \/ b.write + 1 = b.read
     \/ b.read = 0 /\ b.write + 1 = BUFFER_SIZE
  THEN [b EXCEPT !.ok = FALSE]
  ELSE [b EXCEPT !.data[b.write] = byte,
                 !.write = IF @ + 1 >= BUFFER_SIZE THEN 0 ELSE @ + 1]

(* BufferOut: the oldest byte; refused when the ring is empty.             *)
BufferOut(b) ==
  IF b.read = b.write
  THEN [b EXCEPT !.ok = FALSE]
  ELSE [b EXCEPT !.out  = Append(@, b.data[b.read]),
                 !.read = IF @ + 1 >= BUFFER_SIZE THEN 0 ELSE @ + 1]

(* The bytes of a packet, up to the first that is refused.                 *)
FillLoop(b, p) ==
  LET after[k \in 0 .. Len(p)] ==
        IF k = 0 THEN b
        ELSE IF after[k - 1].ok THEN BufferIn(after[k - 1], p[k])
        ELSE after[k - 1]
  IN  after[Len(p)]

(* The bytes of a chunk.                                                   *)
DrainLoop(b) ==
  LET after[k \in 0 .. CHUNK] ==
        IF k = 0 THEN b ELSE BufferOut(after[k - 1])
  IN  after[CHUNK]

(* Copying a packet byte by byte with BufferIn, stopping at the first byte *)
(* refused, leaves the ring as the one-step VS1053_vFillRingBuffer does.   *)
FillLoopAgrees ==
  [][\A p \in Packet :
       VS1053_vFillRingBuffer(p) =>
         LET b == FillLoop(TheRing, p)
         IN  data' = b.data /\ write' = b.write /\ read' = b.read]_vars

(* CHUNK calls of BufferOut take the bytes that Fetch takes, and none of   *)
(* them fails: the fill level VS1053_vPoll looked at was right.            *)
DrainLoopAgrees ==
  [][Fetch /\ Used >= CHUNK =>
       LET b == DrainLoop(TheRing)
       IN  b.ok /\ chunk' = b.out /\ read' = b.read]_vars

(* The ring of AudioRing is the ring of the byte-wise code.                *)
LoopsAgree == FillLoopAgrees /\ DrainLoopAgrees
===========================================================================
