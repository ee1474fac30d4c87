------------------------- MODULE AudioRingProofs --------------------------
(***************************************************************************)
(* AudioRing keeps its indices in range and implements AudioQueue, for     *)
(* every ring size, chunk size, set of bytes and set of packets.           *)
(*                                                                         *)
(* TypeOK is inductive as it stands.  The refinement is carried by two     *)
(* lemmas: filling appends a prefix of the packet to InFlight, and a poll  *)
(* leaves InFlight alone or removes its first CHUNK bytes.  That the steps *)
(* of AudioRing are what the loops of vs1053.c do, byte by byte, is an     *)
(* induction over the turns of each loop.                                  *)
(***************************************************************************)
EXTENDS AudioRingLoops, SequenceTheorems, NaturalsInduction,
        WellFoundedInduction, TLAPS

(* An index moved forward by at most one turn stays in the ring.           *)
LEMMA ForwardInSlot ==
  ASSUME NEW i \in Slot, NEW n \in 0 .. BUFFER_SIZE
  PROVE  Forward(i, n) \in Slot
  BY SizeAssumption DEF Forward, Slot

(* The fill level of a ring whose indices are in range: one field is       *)
(* always empty.                                                           *)
LEMMA FillLevel ==
  ASSUME TypeOK
  PROVE  /\ Used = IF read <= write THEN write - read
                   ELSE write - read + BUFFER_SIZE
         /\ Used \in 0 .. BUFFER_SIZE - 1
         /\ Room = BUFFER_SIZE - 1 - Used
  BY SizeAssumption DEF TypeOK, Slot, Used, Free, Room

(* The same as an implication, to be used of the next state.               *)
LEMMA UsedFormula ==
  TypeOK => Used = IF read <= write THEN write - read
                   ELSE write - read + BUFFER_SIZE
  BY FillLevel

---------------------------------------------------------------------------
(* Type correctness.                                                       *)

(* The empty ring the program starts with has in-range indices.            *)
LEMMA InitTypeOK == Init => TypeOK
  BY SizeAssumption, ByteAssumption DEF Init, TypeOK, Slot

(* Filling moves `write' by at most the free room, so the index stays      *)
(* inside the ring.                                                        *)
LEMMA FillTypeOK ==
  ASSUME TypeOK, NEW p \in Packet, VS1053_vFillRingBuffer(p)
  PROVE  TypeOK'
<1> DEFINE n == IF Len(p) <= Room THEN Len(p) ELSE Room
<1> DEFINE place(i) == IF i >= write THEN i - write ELSE i - write + BUFFER_SIZE
<1>1. p \in Seq(Byte)
  BY PacketAssumption
<1>2. n \in 0 .. Len(p) /\ n \in 0 .. BUFFER_SIZE
  BY <1>1, FillLevel, SizeAssumption
<1>3. \A i \in Slot : place(i) \in Nat
  BY SizeAssumption DEF TypeOK, Slot
<1>4. \A i \in Slot : place(i) < n => p[place(i) + 1] \in Byte
  BY <1>1, <1>2, <1>3
<1>5. data' \in [Slot -> Byte]
  BY <1>4 DEF VS1053_vFillRingBuffer, TypeOK
<1>6. write' \in Slot
  BY <1>2, ForwardInSlot DEF VS1053_vFillRingBuffer, TypeOK
<1>7. QED
  BY <1>5, <1>6 DEF VS1053_vFillRingBuffer, TypeOK

(* A poll moves `read' by one chunk, which the ring is known to hold.      *)
LEMMA PollTypeOK ==
  ASSUME TypeOK, NEW dreq \in BOOLEAN, VS1053_vPoll(dreq)
  PROVE  TypeOK'
<1>1. read' \in Slot /\ chunk' \in [1 .. CHUNK -> Byte]
  <2>1. CASE Fetch
    <3>1. \A k \in 1 .. CHUNK : Forward(read, k - 1) \in Slot
      BY ForwardInSlot, SizeAssumption DEF TypeOK
    <3>2. Forward(read, CHUNK) \in Slot
      BY ForwardInSlot, SizeAssumption DEF TypeOK
    <3>3. QED
      BY <2>1, <3>1, <3>2 DEF Fetch, TypeOK
  <2>2. CASE Retry
    BY <2>2 DEF Retry, TypeOK
  <2>3. QED
    BY <2>1, <2>2 DEF VS1053_vPoll
<1>2. QED
  BY <1>1 DEF VS1053_vPoll, TypeOK

(* The indices never leave the ring and one field between them stays free, *)
(* whatever the packets and the chip do: BufferIn and BufferOut only ever  *)
(* touch buffer.data inside its bounds.                                    *)
THEOREM TypeCorrect == Spec => []TypeOK
<1>1. TypeOK /\ [Next]_vars => TypeOK'
  <2> SUFFICES ASSUME TypeOK, [Next]_vars PROVE TypeOK'
    OBVIOUS
  <2>1. CASE \E p \in Packet : VS1053_vFillRingBuffer(p)
    BY <2>1, FillTypeOK
  <2>2. CASE \E dreq \in BOOLEAN : VS1053_vPoll(dreq)
    BY <2>2, PollTypeOK
  <2>3. CASE UNCHANGED vars
    BY <2>3 DEF vars, TypeOK
  <2>4. QED
    BY <2>1, <2>2, <2>3 DEF Next
<1>2. QED
  BY InitTypeOK, <1>1, PTL DEF Spec

---------------------------------------------------------------------------
(* Refinement.                                                             *)

(* A sequence that starts with s and goes on with the first c elements of  *)
(* r is their concatenation.                                               *)
LEMMA ExtendByPrefix ==
  ASSUME NEW S, NEW s \in Seq(S), NEW t \in Seq(S), NEW r \in Seq(S),
         NEW c \in 0 .. Len(r), Len(t) = Len(s) + c,
         \A k \in 1 .. Len(s) : t[k] = s[k],
         \A k \in 1 .. c : t[Len(s) + k] = r[k]
  PROVE  t = s \o SubSeq(r, 1, c)
<1> DEFINE q == SubSeq(r, 1, c)
<1>1. Len(s) \in Nat /\ Len(r) \in Nat
  BY LenProperties
<1>2. q \in Seq(S) /\ Len(q) = c /\ \A k \in 1 .. c : q[k] = r[k]
  <2>1. \A i \in 1 .. c : r[i] \in S
    BY <1>1, ElementOfSeq
  <2>2. QED
    BY <1>1, <2>1, SubSeqProperties
<1>3. /\ s \o q \in Seq(S) /\ Len(s \o q) = Len(s) + c
      /\ \A i \in 1 .. Len(s) + c :
           (s \o q)[i] = IF i <= Len(s) THEN s[i] ELSE q[i - Len(s)]
  BY <1>2, ConcatProperties
<1>4. ASSUME NEW i \in 1 .. Len(t) PROVE t[i] = (s \o q)[i]
  <2>1. CASE i <= Len(s)
    BY <2>1, <1>1, <1>3
  <2>2. CASE ~(i <= Len(s))
    <3>1. i - Len(s) \in 1 .. c /\ Len(s) + (i - Len(s)) = i
      BY <2>2, <1>1
    <3>2. t[Len(s) + (i - Len(s))] = r[i - Len(s)]
      BY <3>1
    <3>3. QED
      BY <2>2, <3>1, <3>2, <1>1, <1>2, <1>3
  <2>3. QED
    BY <2>1, <2>2
<1> HIDE DEF q
<1>5. t = s \o q
  BY <1>3, <1>4, SeqEqual
<1>6. QED
  BY <1>5 DEF q

(* Two sequences that agree on their elements, one shifted by c, are a     *)
(* sequence and what is left of it without its first c elements.           *)
LEMMA DropPrefix ==
  ASSUME NEW S, NEW s \in Seq(S), NEW t \in Seq(S),
         NEW c \in Nat, Len(s) = c + Len(t),
         \A k \in 1 .. Len(t) : t[k] = s[c + k]
  PROVE  t = SubSeq(s, c + 1, Len(s))
<1> DEFINE r == SubSeq(s, c + 1, Len(s))
<1>1. Len(s) \in Nat /\ Len(t) \in Nat
  BY LenProperties
<1>2. \A i \in c + 1 .. Len(s) : s[i] \in S
  BY <1>1, ElementOfSeq
<1>3. /\ r \in Seq(S)
      /\ Len(r) = IF c + 1 <= Len(s) THEN Len(s) - (c + 1) + 1 ELSE 0
      /\ \A i \in 1 .. Len(s) - (c + 1) + 1 : r[i] = s[c + 1 + i - 1]
  <2>1. c + 1 \in Int /\ Len(s) \in Int
    BY <1>1
  <2>2. QED
    BY <1>2, <2>1, SubSeqProperties
<1> HIDE DEF r
<1>4. Len(r) = Len(t) /\ \A i \in 1 .. Len(t) : t[i] = r[i]
  BY <1>1, <1>3
<1>5. t = r
  BY <1>3, <1>4, SeqEqual
<1>6. QED
  BY <1>5 DEF r

(* The bytes in flight form a sequence of bytes whose length is that of    *)
(* the waiting chunk and the fill level.                                   *)
LEMMA InFlightType ==
  TypeOK => /\ InFlight \in Seq(Byte)
            /\ Len(InFlight) = Waiting + Used
            /\ Waiting \in Nat /\ Used \in Nat
<1> SUFFICES ASSUME TypeOK
             PROVE  /\ InFlight \in Seq(Byte)
                    /\ Len(InFlight) = Waiting + Used
                    /\ Waiting \in Nat /\ Used \in Nat
  OBVIOUS
<1>1. Waiting \in {0, CHUNK} /\ Used \in 0 .. BUFFER_SIZE - 1
  BY FillLevel DEF Waiting
<1>2. \A k \in 1 .. Waiting + Used :
        (IF k <= Waiting THEN chunk[k] ELSE data[Forward(read, k - 1 - Waiting)]) \in Byte
  <2> SUFFICES ASSUME NEW k \in 1 .. Waiting + Used
               PROVE  (IF k <= Waiting THEN chunk[k]
                       ELSE data[Forward(read, k - 1 - Waiting)]) \in Byte
    OBVIOUS
  <2>1. CASE k <= Waiting
    BY <2>1, <1>1, SizeAssumption DEF TypeOK, Waiting
  <2>2. CASE ~(k <= Waiting)
    <3>1. Forward(read, k - 1 - Waiting) \in Slot
      BY <2>2, <1>1, ForwardInSlot, SizeAssumption DEF TypeOK
    <3>2. QED
      BY <2>2, <3>1 DEF TypeOK
  <2>3. QED
    BY <2>1, <2>2
<1>3. Waiting + Used \in Nat
  BY <1>1, SizeAssumption
<1>4. QED
  BY <1>1, <1>2, <1>3, SizeAssumption DEF InFlight

(* The empty ring stands for the empty queue.                              *)
LEMMA InitQueue == Init => Queue!Init
<1> SUFFICES ASSUME Init PROVE Queue!Init
  OBVIOUS
<1>1. Waiting = 0 /\ Used = 0
  BY SizeAssumption DEF Init, Waiting, Used, Free
<1>2. InFlight = << >>
  BY <1>1 DEF InFlight
<1>3. QED
  BY <1>2 DEF Init, Queue!Init

(* Filling appends the stored prefix of the packet to the bytes in flight. *)
LEMMA FillAccepts ==
  ASSUME TypeOK, NEW p \in Packet, VS1053_vFillRingBuffer(p)
  PROVE  Queue!Accept(p)
<1> DEFINE n == IF Len(p) <= Room THEN Len(p) ELSE Room
<1> DEFINE place(i) == IF i >= write THEN i - write ELSE i - write + BUFFER_SIZE
<1>1. p \in Seq(Byte) /\ Len(p) \in Nat
  BY PacketAssumption
<1>2. /\ n \in 0 .. Len(p)
      /\ Used + n \in 0 .. BUFFER_SIZE - 1
      /\ Used \in 0 .. BUFFER_SIZE - 1
      /\ n < Len(p) => n = BUFFER_SIZE - 1 - Used
  BY <1>1, FillLevel, SizeAssumption
<1>3. TypeOK'
  BY FillTypeOK
<1>4. /\ Waiting' = Waiting /\ chunk' = chunk /\ sent' = sent
      /\ write' = Forward(write, n) /\ read' = read
      /\ data' = [i \in Slot |-> IF place(i) < n THEN p[place(i) + 1] ELSE data[i]]
  BY DEF VS1053_vFillRingBuffer, Waiting
<1>5. Used = IF read <= write THEN write - read ELSE write - read + BUFFER_SIZE
  BY FillLevel
<1>6. read \in Slot /\ write \in Slot
  BY DEF TypeOK
<1> HIDE DEF n
<1>7. Used' = Used + n
  <2> DEFINE level(r, w) == IF r <= w THEN w - r ELSE w - r + BUFFER_SIZE
  <2>1. (TypeOK => Used = IF read <= write THEN write - read
                          ELSE write - read + BUFFER_SIZE)'
    BY UsedFormula, PTL
  <2>2. Used' = level(read', write')
    BY <2>1, <1>3
  <2>3. n \in 0 .. BUFFER_SIZE - 1 - Used /\ Used \in 0 .. BUFFER_SIZE - 1
    BY <1>1, <1>2, SizeAssumption
  <2>4. level(read, Forward(write, n)) = Used + n
    <3>1. CASE write + n >= BUFFER_SIZE
      BY <3>1, <2>3, <1>5, <1>6, SizeAssumption DEF Slot, Forward
    <3>2. CASE ~(write + n >= BUFFER_SIZE)
      BY <3>2, <2>3, <1>5, <1>6, SizeAssumption DEF Slot, Forward
    <3>3. QED
      BY <3>1, <3>2
  <2>5. read' = read /\ write' = Forward(write, n)
    BY <1>4
  <2> HIDE DEF level
  <2>6. QED
    BY <2>2, <2>4, <2>5, Zenon
<1>8. ASSUME NEW k \in 0 .. Used + n - 1
      PROVE  /\ Forward(read, k) \in Slot
             /\ place(Forward(read, k)) =
                  IF k < Used THEN k - Used + BUFFER_SIZE ELSE k - Used
  BY <1>2, <1>5, <1>6, SizeAssumption DEF Slot, Forward
<1>9. ASSUME NEW k \in 0 .. Used - 1
      PROVE  data'[Forward(read, k)] = data[Forward(read, k)]
  <2>1. k \in 0 .. Used + n - 1 /\ k - Used + BUFFER_SIZE >= n /\ k < Used
    BY <1>1, <1>2, SizeAssumption
  <2>2. Forward(read, k) \in Slot /\ place(Forward(read, k)) = k - Used + BUFFER_SIZE
    BY <2>1, <1>8
  <2>3. ~(place(Forward(read, k)) < n)
    BY <2>1, <2>2, <1>1, <1>2, SizeAssumption
  <2> HIDE DEF place
  <2>4. QED
    BY <2>2, <2>3, <1>4
<1>10. ASSUME NEW k \in Used .. Used + n - 1
       PROVE  data'[Forward(read, k)] = p[k - Used + 1]
  <2>1. k \in 0 .. Used + n - 1 /\ k - Used < n /\ ~(k < Used)
    BY <1>1, <1>2
  <2>2. Forward(read, k) \in Slot /\ place(Forward(read, k)) = k - Used
    BY <2>1, <1>8
  <2> HIDE DEF place
  <2>3. QED
    BY <2>1, <2>2, <1>4
<1> HIDE DEF place
<1>11. /\ InFlight \in Seq(Byte) /\ Len(InFlight) = Waiting + Used
       /\ Waiting \in Nat /\ Used \in Nat
  BY InFlightType
<1>12. PICK q \in Seq(Byte) : InFlight' = q /\ Len(q) = Waiting + Used + n
  <2>1. (TypeOK => /\ InFlight \in Seq(Byte)
                   /\ Len(InFlight) = Waiting + Used
                   /\ Waiting \in Nat /\ Used \in Nat)'
    BY InFlightType, PTL
  <2>2. InFlight' \in Seq(Byte) /\ Len(InFlight') = Waiting' + Used'
    BY <2>1, <1>3
  <2>3. Waiting' + Used' = Waiting + Used + n
    BY <1>1, <1>2, <1>4, <1>7, <1>11
  <2>4. QED
    BY <2>2, <2>3, Zenon
<1>13. q = [k \in 1 .. Waiting + Used + n |->
                      IF k <= Waiting THEN chunk[k]
                      ELSE data'[Forward(read, k - 1 - Waiting)]]
  <2>1. Waiting' + Used' = Waiting + Used + n
    BY <1>1, <1>2, <1>4, <1>7, <1>11
  <2>2. QED
    BY <2>1, <1>4, <1>12 DEF InFlight, Forward
<1>14. ASSUME NEW k \in 1 .. Waiting + Used PROVE q[k] = InFlight[k]
  <2>1. k \in 1 .. Waiting + Used + n
    BY <1>1, <1>2, <1>11
  <2>2. CASE k <= Waiting
    BY <2>1, <2>2, <1>13 DEF InFlight
  <2>3. CASE ~(k <= Waiting)
    <3>1. k - 1 - Waiting \in 0 .. Used - 1
      BY <2>3, <1>11
    <3>2. data'[Forward(read, k - 1 - Waiting)] = data[Forward(read, k - 1 - Waiting)]
      BY <3>1, <1>9
    <3>3. QED
      BY <2>1, <2>3, <3>2, <1>13 DEF InFlight
  <2>4. QED
    BY <2>2, <2>3
<1>15. ASSUME NEW k \in 1 .. n PROVE q[Waiting + Used + k] = p[k]
  <2> DEFINE m == Waiting + Used + k
  <2> DEFINE j == m - 1 - Waiting
  <2>1. /\ j \in Used .. Used + n - 1 /\ j - Used + 1 = k
        /\ m \in 1 .. Waiting + Used + n
        /\ ~(m <= Waiting)
    BY <1>1, <1>2, <1>11
  <2>2. q[m] = data'[Forward(read, j)]
    <3> HIDE DEF m
    <3>1. QED
      BY <2>1, <1>13
  <2> HIDE DEF j
  <2>3. data'[Forward(read, j)] = p[k]
    BY <2>1, <1>10
  <2>4. QED
    BY <2>2, <2>3
<1>16. InFlight' = InFlight \o SubSeq(p, 1, n)
  <2>1. \A k \in 1 .. Len(InFlight) : q[k] = InFlight[k]
    BY <1>11, <1>14
  <2>2. \A k \in 1 .. n : q[Len(InFlight) + k] = p[k]
    BY <1>11, <1>15
  <2>3. Len(q) = Len(InFlight) + n
    BY <1>11, <1>12
  <2>4. q = InFlight \o SubSeq(p, 1, n)
    <3>1. p \in Seq(Byte) /\ n \in 0 .. Len(p) /\ InFlight \in Seq(Byte)
      BY <1>1, <1>2, <1>11
    <3>2. QED
      BY <3>1, <2>1, <2>2, <2>3, ExtendByPrefix
  <2>5. QED
    BY <2>4, <1>12
<1>17. n < Len(p) => Len(InFlight') >= BUFFER_SIZE - 1
  BY <1>1, <1>2, <1>11, <1>12, SizeAssumption
<1>18. QED
  BY <1>2, <1>4, <1>16, <1>17 DEF Queue!Accept

(* A poll leaves the bytes in flight alone when the chip refuses, and      *)
(* hands over the CHUNK oldest of them when it accepts.                    *)
LEMMA PollDelivers ==
  ASSUME TypeOK, NEW dreq \in BOOLEAN, VS1053_vPoll(dreq)
  PROVE  IF dreq THEN Queue!Deliver ELSE UNCHANGED << InFlight, sent >>
<1>1. TypeOK'
  BY PollTypeOK
<1>2. /\ Used >= CHUNK /\ data' = data /\ write' = write
      /\ data_pending' = ~dreq
      /\ sent' = IF dreq THEN chunk' ELSE sent
  BY DEF VS1053_vPoll
<1>3. /\ InFlight \in Seq(Byte) /\ Len(InFlight) = Waiting + Used
      /\ Waiting \in Nat /\ Used \in Nat
  BY InFlightType
<1>4. PICK u \in Nat, q \in Seq(Byte) :
        Used' = u /\ InFlight' = q /\ Len(q) = Waiting' + u
  <2>1. (TypeOK => /\ InFlight \in Seq(Byte)
                   /\ Len(InFlight) = Waiting + Used
                   /\ Waiting \in Nat /\ Used \in Nat)'
    BY InFlightType, PTL
  <2>2. QED
    BY <2>1, <1>1, Zenon
<1>5. Waiting' = IF dreq THEN 0 ELSE CHUNK
  BY <1>2 DEF Waiting
<1>6. CHUNK \in Nat /\ CHUNK >= 1 /\ CHUNK < BUFFER_SIZE /\ BUFFER_SIZE \in Nat
  BY SizeAssumption
<1>7. q = [k \in 1 .. Waiting' + u |->
             IF k <= Waiting' THEN chunk'[k]
             ELSE data[Forward(read', k - 1 - Waiting')]]
  BY <1>2, <1>4 DEF InFlight, Forward
(* What the step does to the two parts of InFlight.                        *)
<1>8. /\ Waiting + Used = CHUNK + u
      /\ \A k \in 1 .. CHUNK : chunk'[k] = InFlight[k]
      /\ \A k \in 1 .. u : data[Forward(read', k - 1)] = InFlight[CHUNK + k]
  <2>1. CASE Fetch
    <3>1. Waiting = 0 /\ read' = Forward(read, CHUNK)
      BY <2>1 DEF Fetch, Waiting
    <3>2. u = Used - CHUNK
      <4>1. Used = IF read <= write THEN write - read ELSE write - read + BUFFER_SIZE
        BY FillLevel
      <4>2. read \in Slot /\ write \in Slot
        BY DEF TypeOK
      <4>3. Forward(read, CHUNK) \in Slot
        BY <4>2, <1>6, ForwardInSlot
      <4>4. u = LET r == Forward(read, CHUNK)
                IN  IF r <= write THEN write - r ELSE write - r + BUFFER_SIZE
        BY <4>2, <4>3, <3>1, <1>2, <1>4, <1>6 DEF Slot, Used, Free
      <4>5. QED
        BY <4>1, <4>2, <4>4, <1>2, <1>3, <1>6 DEF Slot, Forward
    <3>3. ASSUME NEW k \in 1 .. CHUNK PROVE chunk'[k] = InFlight[k]
      <4>1. k \in 1 .. Waiting + Used /\ ~(k <= Waiting) /\ k - 1 - Waiting = k - 1
        BY <3>1, <1>2, <1>3, <1>6
      <4>2. InFlight[k] = data[Forward(read, k - 1)]
        BY <4>1 DEF InFlight
      <4>3. QED
        BY <2>1, <4>2 DEF Fetch
    <3>4. ASSUME NEW k \in 1 .. u
          PROVE  data[Forward(read', k - 1)] = InFlight[CHUNK + k]
      <4> DEFINE m == CHUNK + k
      <4>1. m \in 1 .. Waiting + Used /\ ~(m <= Waiting) /\ m - 1 - Waiting = m - 1
        BY <3>1, <3>2, <1>2, <1>3, <1>6
      <4>2. InFlight[m] = data[Forward(read, m - 1)]
        <5> HIDE DEF m
        <5>1. QED
          BY <4>1 DEF InFlight
      <4>3. Used \in 0 .. BUFFER_SIZE - 1 /\ read \in Slot
        BY FillLevel DEF TypeOK
      <4>4. Forward(read', k - 1) = Forward(read, m - 1)
        BY <4>3, <3>1, <3>2, <1>2, <1>3, <1>6 DEF Slot, Forward
      <4>5. QED
        BY <4>2, <4>4
    <3>5. Waiting + Used = CHUNK + u
      BY <3>1, <3>2, <1>3, <1>6
    <3>6. QED
      BY <3>3, <3>4, <3>5
  <2>2. CASE Retry
    <3>1. Waiting = CHUNK /\ read' = read /\ chunk' = chunk
      BY <2>2 DEF Retry, Waiting
    <3>2. u = Used
      BY <3>1, <1>2, <1>4 DEF Used, Free
    <3>3. ASSUME NEW k \in 1 .. CHUNK PROVE chunk'[k] = InFlight[k]
      <4>1. k \in 1 .. Waiting + Used /\ k <= Waiting
        BY <3>1, <1>3, <1>6
      <4>2. QED
        BY <4>1, <3>1 DEF InFlight
    <3>4. ASSUME NEW k \in 1 .. u
          PROVE  data[Forward(read', k - 1)] = InFlight[CHUNK + k]
      <4> DEFINE m == CHUNK + k
      <4>1. m \in 1 .. Waiting + Used /\ ~(m <= Waiting) /\ m - 1 - Waiting = k - 1
        BY <3>1, <3>2, <1>3, <1>6
      <4>2. InFlight[m] = data[Forward(read, k - 1)]
        <5> HIDE DEF m
        <5>1. QED
          BY <4>1 DEF InFlight
      <4>3. QED
        BY <4>2, <3>1
    <3>5. QED
      BY <3>1, <3>2, <3>3, <3>4
  <2>3. QED
    BY <2>1, <2>2 DEF VS1053_vPoll
<1>9. CASE dreq
  <2>1. Waiting' = 0 /\ Len(q) = u /\ Len(InFlight) = CHUNK + u
    BY <1>3, <1>4, <1>5, <1>8, <1>9
  <2>2. ASSUME NEW k \in 1 .. u PROVE q[k] = InFlight[CHUNK + k]
    <3>1. k \in 1 .. Waiting' + u /\ ~(k <= Waiting') /\ k - 1 - Waiting' = k - 1
      BY <2>1
    <3>2. q[k] = data[Forward(read', k - 1)]
      BY <3>1, <1>7
    <3>3. QED
      BY <3>2, <1>8
  <2>3. q = SubSeq(InFlight, CHUNK + 1, Len(InFlight))
    BY <2>1, <2>2, <1>3, <1>4, <1>6, DropPrefix
  <2>4. chunk' = SubSeq(InFlight, 1, CHUNK)
    <3>1. chunk' \in [1 .. CHUNK -> Byte]
      BY <1>1 DEF TypeOK
    <3>2. CHUNK \in 1 .. Len(InFlight)
      BY <2>1, <1>4, <1>6
    <3>3. QED
      BY <3>1, <3>2, <1>3, <1>6, <1>8
  <2>5. Len(InFlight) >= CHUNK
    BY <2>1, <1>4, <1>6
  <2>6. QED
    BY <2>3, <2>4, <2>5, <1>2, <1>4, <1>9 DEF Queue!Deliver
<1>10. CASE ~dreq
  <2>1. Waiting' = CHUNK /\ Len(q) = CHUNK + u /\ Len(InFlight) = CHUNK + u
    BY <1>3, <1>4, <1>5, <1>8, <1>10
  <2>2. ASSUME NEW k \in 1 .. CHUNK + u PROVE q[k] = InFlight[k]
    <3>1. CASE k <= CHUNK
      <4>1. q[k] = chunk'[k]
        BY <3>1, <2>1, <1>7
      <4>2. QED
        BY <4>1, <3>1, <1>6, <1>8
    <3>2. CASE ~(k <= CHUNK)
      <4> DEFINE j == k - CHUNK
      <4>1. j \in 1 .. u /\ CHUNK + j = k /\ k - 1 - Waiting' = j - 1
        BY <3>2, <2>1, <1>4, <1>6
      <4>2. q[k] = data[Forward(read', k - 1 - Waiting')]
        BY <3>2, <2>1, <1>7
      <4> HIDE DEF j
      <4>3. data[Forward(read', j - 1)] = InFlight[k]
        BY <4>1, <1>8
      <4>4. QED
        BY <4>1, <4>2, <4>3
    <3>3. QED
      BY <3>1, <3>2
  <2>3. q = InFlight
    BY <2>1, <2>2, <1>3, <1>4, SeqEqual
  <2>4. QED
    BY <2>3, <1>2, <1>4, <1>10
<1>11. QED
  BY <1>9, <1>10

(* The ring buffer, its indices and the chunk waiting in VS1053_vPoll      *)
(* together implement the bounded FIFO: no accepted byte is lost, repeated *)
(* or reordered on its way to the decoder.                                 *)
THEOREM RingImplementsQueue == Spec => ImplementsQueue
<1>1. TypeOK /\ [Next]_vars => [Queue!Next]_(Queue!vars)
  <2> SUFFICES ASSUME TypeOK, [Next]_vars PROVE [Queue!Next]_(Queue!vars)
    OBVIOUS
  <2>1. CASE \E p \in Packet : VS1053_vFillRingBuffer(p)
    BY <2>1, FillAccepts DEF Queue!Next
  <2>2. CASE \E dreq \in BOOLEAN : VS1053_vPoll(dreq)
    <3>1. PICK dreq \in BOOLEAN : VS1053_vPoll(dreq)
      BY <2>2
    <3>2. CASE dreq
      BY <3>1, <3>2, PollDelivers DEF Queue!Next
    <3>3. CASE ~dreq
      BY <3>1, <3>3, PollDelivers DEF Queue!vars
    <3>4. QED
      BY <3>2, <3>3
  <2>3. CASE UNCHANGED vars
    BY <2>3 DEF vars, Queue!vars, InFlight, Waiting, Used, Free, Forward
  <2>4. QED
    BY <2>1, <2>2, <2>3 DEF Next
<1>2. QED
  BY InitQueue, TypeCorrect, <1>1, PTL DEF Spec, ImplementsQueue, Queue!Spec

---------------------------------------------------------------------------
(* The loops.                                                              *)

(* What holds of 0, and of n + 1 whenever it holds of n, holds of every    *)
(* natural number; said of a set where the library says it of an operator. *)
LEMMA NatSetInduction ==
  ASSUME NEW S, 0 \in S, \A n \in Nat : n \in S => n + 1 \in S
  PROVE  Nat \subseteq S
<1> DEFINE R == OpToRel(<, Nat)
           T == Nat \ S
<1>1. ASSUME NEW x \in Nat, NEW y \in Nat, y < x
      PROVE  << y, x >> \in R
  BY <1>1 DEF OpToRel
<1>2. IsWellFoundedOn(R, Nat)
  BY NatLessThanWellFounded
<1> HIDE DEF R
<1>3. ASSUME T # {} PROVE FALSE
  <2>1. PICK x \in T : \A y \in T : ~(<< y, x >> \in R)
    BY <1>2, <1>3, WFMin
  <2>2. x \in Nat /\ x # 0
    BY <2>1
  <2>3. x - 1 \in Nat /\ x - 1 < x /\ (x - 1) + 1 = x
    BY <2>2
  <2>4. x - 1 \notin T
    BY <1>1, <2>1, <2>2, <2>3
  <2>5. x \in S
    BY <2>3, <2>4
  <2>6. QED
    BY <2>1, <2>5
<1>4. QED
  BY <1>3

(* Two loops that begin alike and go on alike end alike.                   *)
LEMMA SameLoop ==
  ASSUME NEW n \in Nat, NEW h, NEW g, h[0] = g[0],
         \A k \in 1 .. n : h[k - 1] = g[k - 1] => h[k] = g[k]
  PROVE  h[n] = g[n]
<1> DEFINE S == {k \in Nat : k <= n => h[k] = g[k]}
<1>1. 0 \in S
  OBVIOUS
<1>2. ASSUME NEW k \in Nat, k \in S PROVE k + 1 \in S
  <2>1. CASE k + 1 <= n
    <3>1. k <= n /\ k + 1 \in 1 .. n /\ (k + 1) - 1 = k
      BY <2>1
    <3>2. h[k] = g[k]
      BY <1>2, <3>1
    <3>3. h[k + 1] = g[k + 1]
      BY <3>1, <3>2
    <3>4. QED
      BY <3>3
  <2>2. CASE ~(k + 1 <= n)
    BY <2>2
  <2>3. QED
    BY <2>1, <2>2
<1>3. Nat \subseteq S
  <2> HIDE DEF S
  <2>1. QED
    BY <1>1, <1>2, NatSetInduction
<1>4. n \in S
  BY <1>3
<1>5. QED
  BY <1>4

(* The values the ring has within a loop.                                  *)
RingValue ==
  [data : [Slot -> Byte], read : Slot, write : Slot, ok : BOOLEAN,
   out : Seq(Byte)]

(* A ring is what its parts are.                                           *)
Alike(r, s) ==
  /\ r.data = s.data /\ r.read = s.read /\ r.write = s.write
  /\ r.ok = s.ok /\ r.out = s.out

LEMMA SameRing == \A r, s \in RingValue : Alike(r, s) => r = s
  BY DEF RingValue, Alike

(* When BufferIn refuses a byte: one field is to stay free.                *)
Refuses(b) ==
  \/ b.write + 1 = b.read
  \/ b.read = 0 /\ b.write + 1 = BUFFER_SIZE

(* BufferIn stores a byte, unless the field behind it is the oldest one.   *)
LEMMA BufferInDoes ==
  ASSUME NEW b \in RingValue, NEW byte \in Byte, NEW r, r = BufferIn(b, byte)
  PROVE  /\ r \in RingValue /\ r.read = b.read /\ r.out = b.out
         /\ Refuses(b) => ~r.ok /\ r.data = b.data /\ r.write = b.write
         /\ ~Refuses(b) =>
              /\ r.ok = b.ok
              /\ r.data = [b.data EXCEPT ![b.write] = byte]
              /\ r.write = IF b.write + 1 >= BUFFER_SIZE THEN 0
                           ELSE b.write + 1
<1>1. CASE Refuses(b)
  <2>1. r = [b EXCEPT !.ok = FALSE]
    BY <1>1 DEF BufferIn, Refuses
  <2>2. QED
    BY <1>1, <2>1 DEF RingValue
<1>2. CASE ~Refuses(b)
  <2>1. r = [b EXCEPT !.data[b.write] = byte,
                      !.write = IF @ + 1 >= BUFFER_SIZE THEN 0 ELSE @ + 1]
    BY <1>2, Zenon DEF BufferIn, Refuses
  <2>2. [b.data EXCEPT ![b.write] = byte] \in [Slot -> Byte]
    BY DEF RingValue
  <2>3. (IF b.write + 1 >= BUFFER_SIZE THEN 0 ELSE b.write + 1) \in Slot
    BY SizeAssumption DEF RingValue, Slot
  <2>4. QED
    BY <1>2, <2>1, <2>2, <2>3 DEF RingValue
<1>3. QED
  BY <1>1, <1>2

(* BufferOut takes the oldest byte of a ring that is not empty.            *)
LEMMA BufferOutDoes ==
  ASSUME NEW b \in RingValue, b.read # b.write, NEW r, r = BufferOut(b)
  PROVE  /\ r \in RingValue /\ r.data = b.data /\ r.write = b.write
         /\ r.ok = b.ok /\ r.out = Append(b.out, b.data[b.read])
         /\ r.read = IF b.read + 1 >= BUFFER_SIZE THEN 0 ELSE b.read + 1
<1>1. r = [b EXCEPT !.out  = Append(b.out, b.data[b.read]),
                    !.read = IF b.read + 1 >= BUFFER_SIZE THEN 0
                             ELSE b.read + 1]
  BY DEF BufferOut, RingValue
<1>2. Append(b.out, b.data[b.read]) \in Seq(Byte)
  BY DEF RingValue
<1>3. (IF b.read + 1 >= BUFFER_SIZE THEN 0 ELSE b.read + 1) \in Slot
  BY SizeAssumption DEF RingValue, Slot
<1>4. QED
  BY <1>1, <1>2, <1>3 DEF RingValue

(* The ring after the first k turns of the loop that stores p: as many     *)
(* bytes as there was room for lie behind `write', and the loop has met a  *)
(* refusal when there were more.                                           *)
Stored(k) == IF k <= Room THEN k ELSE Room

Place(i) == IF i >= write THEN i - write ELSE i - write + BUFFER_SIZE

Filled(p, k) ==
  [data  |-> [i \in Slot |-> IF Place(i) < Stored(k) THEN p[Place(i) + 1]
                             ELSE data[i]],
   read  |-> read,
   write |-> Forward(write, Stored(k)),
   ok    |-> k <= Room,
   out   |-> << >>]

(* Where the m-th byte goes, and when BufferIn refuses it.                 *)
LEMMA NextField ==
  ASSUME TypeOK, NEW m \in Nat, m <= Room, NEW v, v = Forward(write, m)
  PROVE  /\ v \in Slot /\ Place(v) = m /\ Room \in 0 .. BUFFER_SIZE - 1
         /\ (v + 1 = read \/ (read = 0 /\ v + 1 = BUFFER_SIZE)) <=> m = Room
         /\ (IF v + 1 >= BUFFER_SIZE THEN 0 ELSE v + 1) = Forward(write, m + 1)
         /\ \A i \in Slot : /\ Place(i) \in Nat
                            /\ Place(i) < m + 1 <=> (Place(i) < m \/ i = v)
<1>1. /\ read \in Slot /\ write \in Slot /\ BUFFER_SIZE \in Nat
      /\ Used = IF read <= write THEN write - read
                ELSE write - read + BUFFER_SIZE
      /\ Room = BUFFER_SIZE - 1 - Used
  BY FillLevel, SizeAssumption DEF TypeOK
<1>2. Room = IF read <= write THEN BUFFER_SIZE - 1 - (write - read)
            ELSE read - write - 1
  BY <1>1 DEF Slot
<1>3. v \in Slot /\ Place(v) = m /\ Room \in 0 .. BUFFER_SIZE - 1
  BY <1>1, <1>2 DEF Slot, Place, Forward
<1>4. (v + 1 = read \/ (read = 0 /\ v + 1 = BUFFER_SIZE)) <=> m = Room
  BY <1>1, <1>2 DEF Slot, Forward
<1>5. (IF v + 1 >= BUFFER_SIZE THEN 0 ELSE v + 1) = Forward(write, m + 1)
  BY <1>1, <1>2 DEF Slot, Forward
<1>6. ASSUME NEW i \in Slot
      PROVE  /\ Place(i) \in Nat
             /\ Place(i) < m + 1 <=> (Place(i) < m \/ i = v)
  BY <1>1, <1>2 DEF Slot, Forward, Place
<1>7. QED
  BY <1>3, <1>4, <1>5, <1>6

(* The values of Filled are rings.                                         *)
LEMMA FilledType ==
  ASSUME TypeOK, NEW p \in Seq(Byte), NEW k \in 0 .. Len(p)
  PROVE  Filled(p, k) \in RingValue
<1>1. Stored(k) \in 0 .. BUFFER_SIZE /\ Stored(k) <= k
  <2>1. Used \in 0 .. BUFFER_SIZE - 1 /\ Room = BUFFER_SIZE - 1 - Used
    BY FillLevel
  <2>2. QED
    BY <2>1, SizeAssumption DEF Stored
<1>2. \A i \in Slot : Place(i) \in Nat
  BY SizeAssumption DEF TypeOK, Slot, Place
<1>3. ASSUME NEW i \in Slot
      PROVE  (IF Place(i) < Stored(k) THEN p[Place(i) + 1] ELSE data[i]) \in Byte
  BY <1>1, <1>2 DEF TypeOK
<1>4. Forward(write, Stored(k)) \in Slot
  BY <1>1, ForwardInSlot DEF TypeOK
<1>5. (k <= Room) \in BOOLEAN /\ << >> \in Seq(Byte) /\ read \in Slot
  BY DEF TypeOK
<1>6. QED
  BY <1>3, <1>4, <1>5 DEF Filled, RingValue

(* A turn of the loop.                                                     *)
LEMMA FillTurn ==
  ASSUME TypeOK, NEW p \in Seq(Byte), NEW k \in 1 .. Len(p)
  PROVE  Filled(p, k) = IF Filled(p, k - 1).ok THEN BufferIn(Filled(p, k - 1), p[k])
                        ELSE Filled(p, k - 1)
<1>1. PICK m \in Nat : m = k - 1 /\ m + 1 = k
  OBVIOUS
<1>2. Room \in Nat
  <2>1. Used \in 0 .. BUFFER_SIZE - 1 /\ Room = BUFFER_SIZE - 1 - Used
    BY FillLevel
  <2>2. QED
    BY <2>1, SizeAssumption
<1>3. PICK b \in RingValue : b = Filled(p, m)
  BY <1>1, FilledType
<1>4. PICK c \in RingValue : c = Filled(p, k)
  BY FilledType
<1>5. /\ b.data = [i \in Slot |-> IF Place(i) < Stored(m) THEN p[Place(i) + 1]
                                  ELSE data[i]]
      /\ b.read = read /\ b.write = Forward(write, Stored(m))
      /\ b.ok = (m <= Room) /\ b.out = << >>
  BY <1>3 DEF Filled
<1>6. /\ c.data = [i \in Slot |-> IF Place(i) < Stored(k) THEN p[Place(i) + 1]
                                  ELSE data[i]]
      /\ c.read = read /\ c.write = Forward(write, Stored(k))
      /\ c.ok = (k <= Room) /\ c.out = << >>
  BY <1>4 DEF Filled
<1>7. CASE m > Room
  <2>1. Stored(m) = Stored(k) /\ ~(m <= Room) /\ ~(k <= Room)
    BY <1>1, <1>2, <1>7 DEF Stored
  <2>2. c = b
    <3>1. Alike(c, b)
      BY <2>1, <1>5, <1>6 DEF Alike
    <3>2. QED
      BY <3>1, SameRing
  <2>3. QED
    BY <2>1, <2>2, <1>1, <1>3, <1>4, <1>5
<1>8. CASE m <= Room
  <2>1. Stored(m) = m /\ (m <= Room) = TRUE
    BY <1>8 DEF Stored
  <2>2. PICK v : v = Forward(write, m)
    OBVIOUS
  <2>3. PICK r : r = BufferIn(b, p[k])
    OBVIOUS
  <2>4. p[k] \in Byte
    OBVIOUS
  <2>6. /\ r \in RingValue /\ r.read = b.read /\ r.out = b.out
        /\ Refuses(b) => ~r.ok /\ r.data = b.data /\ r.write = b.write
        /\ ~Refuses(b) =>
             /\ r.ok = b.ok
             /\ r.data = [b.data EXCEPT ![b.write] = p[k]]
             /\ r.write = IF b.write + 1 >= BUFFER_SIZE THEN 0
                          ELSE b.write + 1
    BY <2>3, <2>4, BufferInDoes
  <2>7. b.write = v
    BY <1>5, <2>1, <2>2
  <2>8. /\ v \in Slot /\ Place(v) = m
        /\ (v + 1 = read \/ (read = 0 /\ v + 1 = BUFFER_SIZE)) <=> m = Room
        /\ (IF v + 1 >= BUFFER_SIZE THEN 0 ELSE v + 1) = Forward(write, m + 1)
        /\ \A i \in Slot : Place(i) < m + 1 <=> (Place(i) < m \/ i = v)
    BY <1>8, <2>2, NextField
  <2>9. Refuses(b) <=> m = Room
    BY <2>7, <2>8, <1>5 DEF Refuses
  <2>10. c = r
    <3>1. CASE Refuses(b)
      <4>1. m = Room /\ Stored(k) = m /\ ~(k <= Room)
        BY <3>1, <2>9, <1>1, <1>2 DEF Stored
      <4>2. c.data = b.data /\ c.write = b.write
        BY <4>1, <2>1, <1>5, <1>6
      <4>3. r.ok = FALSE /\ c.ok = FALSE
        BY <3>1, <4>1, <2>6, <1>6 DEF RingValue
      <4>4. QED
        <5>1. c.read = r.read /\ c.out = r.out /\ r.data = b.data
              /\ r.write = b.write /\ r \in RingValue
          BY <3>1, <2>6, <1>5, <1>6, Zenon
        <5>2. Alike(c, r)
          BY <4>2, <4>3, <5>1, Zenon DEF Alike
        <5>3. QED
          BY <5>1, <5>2, SameRing, Zenon
    <3>2. CASE ~Refuses(b)
      <4>1. Stored(k) = m + 1 /\ k <= Room
        BY <3>2, <2>9, <1>1, <1>2, <1>8 DEF Stored
      <4>2. c.write = r.write
        BY <4>1, <3>2, <2>6, <2>7, <2>8, <1>6
      <4>3. c.ok = TRUE /\ r.ok = TRUE
        BY <4>1, <3>2, <2>1, <2>6, <1>5, <1>6
      <4>4. ASSUME NEW i \in Slot PROVE c.data[i] = r.data[i]
        <5>1. c.data[i] = IF Place(i) < m + 1 THEN p[Place(i) + 1] ELSE data[i]
          BY <4>1, <1>6
        <5>2. b.data[i] = IF Place(i) < m THEN p[Place(i) + 1] ELSE data[i]
          BY <2>1, <1>5
        <5>3. r.data[i] = IF i = v THEN p[k] ELSE b.data[i]
          BY <3>2, <2>6, <2>7, <2>8 DEF RingValue
        <5>4. CASE i = v
          BY <5>1, <5>3, <5>4, <2>8, <1>1
        <5>5. CASE i # v
          BY <5>1, <5>2, <5>3, <5>5, <2>8
        <5>6. QED
          BY <5>4, <5>5
      <4>5. c.data \in [Slot -> Byte] /\ r.data \in [Slot -> Byte]
        BY <2>6 DEF RingValue
      <4>6. c.data = r.data
        BY <4>4, <4>5
      <4>7. QED
        <5>1. c.read = r.read /\ c.out = r.out /\ r \in RingValue
          BY <2>6, <1>5, <1>6, Zenon
        <5>2. Alike(c, r)
          BY <4>2, <4>3, <4>6, <5>1, Zenon DEF Alike
        <5>3. QED
          BY <5>1, <5>2, SameRing, Zenon
    <3>3. QED
      BY <3>1, <3>2
  <2>11. b.ok = TRUE
    BY <1>5, <2>1
  <2>12. QED
    BY <2>3, <2>10, <2>11, <1>1, <1>3, <1>4
<1>9. QED
  BY <1>1, <1>2, <1>7, <1>8

(* The loop of VS1053_vFillRingBuffer ends with the ring that Filled says. *)
LEMMA FillLoopIs ==
  ASSUME TypeOK, NEW p \in Seq(Byte)
  PROVE  FillLoop(TheRing, p) = Filled(p, Len(p))
<1> DEFINE IsFill(h) ==
      h = [k \in 0 .. Len(p) |->
             IF k = 0 THEN TheRing
             ELSE IF h[k - 1].ok THEN BufferIn(h[k - 1], p[k]) ELSE h[k - 1]]
           f == CHOOSE h : IsFill(h)
           g == [k \in 0 .. Len(p) |-> Filled(p, k)]
<1>1. FillLoop(TheRing, p) = f[Len(p)]
  BY DEF FillLoop
<1>2. Len(p) \in Nat
  OBVIOUS
<1>3. Filled(p, 0) = TheRing
  <2>1. Stored(0) = 0 /\ (0 <= Room) = TRUE
    BY FillLevel, SizeAssumption DEF Stored
  <2>2. \A i \in Slot : ~(Place(i) < 0)
    BY SizeAssumption DEF TypeOK, Slot, Place
  <2>3. [i \in Slot |-> IF Place(i) < Stored(0) THEN p[Place(i) + 1] ELSE data[i]]
          = data
    BY <2>1, <2>2 DEF TypeOK
  <2>4. Forward(write, Stored(0)) = write
    BY <2>1, SizeAssumption DEF TypeOK, Slot, Forward
  <2>5. QED
    BY <2>1, <2>3, <2>4 DEF Filled, TheRing
<1>4. ASSUME NEW k \in 1 .. Len(p)
      PROVE  /\ k - 1 \in 0 .. Len(p) /\ k \in 0 .. Len(p) /\ k # 0
             /\ g[k - 1] = Filled(p, k - 1) /\ g[k] = Filled(p, k)
  BY <1>2
<1>5. ASSUME NEW k \in 1 .. Len(p)
      PROVE  g[k] = IF g[k - 1].ok THEN BufferIn(g[k - 1], p[k]) ELSE g[k - 1]
  <2> HIDE DEF g
  <2>1. QED
    BY <1>4, FillTurn
<1>6. g[0] = TheRing
  BY <1>2, <1>3
<1>7. g = [k \in 0 .. Len(p) |-> g[k]]
  OBVIOUS
<1> HIDE DEF g
<1>8. ASSUME NEW k \in 0 .. Len(p)
      PROVE  g[k] = IF k = 0 THEN TheRing
                    ELSE IF g[k - 1].ok THEN BufferIn(g[k - 1], p[k]) ELSE g[k - 1]
  <2>1. CASE k = 0
    BY <2>1, <1>6
  <2>2. CASE k # 0
    <3>1. k \in 1 .. Len(p)
      BY <2>2, <1>2
    <3>2. QED
      BY <2>2, <3>1, <1>5
  <2>3. QED
    BY <2>1, <2>2
<1>9. IsFill(g)
  BY <1>7, <1>8
<1>10. IsFill(f)
  <2> HIDE DEF IsFill
  <2>1. QED
    BY <1>9, Zenon
<1> HIDE DEF f
<1>11. f[0] = g[0]
  BY <1>10, <1>6, <1>2
<1>12. ASSUME NEW k \in 1 .. Len(p), f[k - 1] = g[k - 1]
       PROVE  f[k] = g[k]
  <2>1. f[k] = IF f[k - 1].ok THEN BufferIn(f[k - 1], p[k]) ELSE f[k - 1]
    BY <1>4, <1>10
  <2>2. QED
    BY <2>1, <1>5, <1>12
<1>13. f[Len(p)] = g[Len(p)]
  <2> HIDE DEF IsFill
  <2>1. QED
    BY <1>2, <1>11, <1>12, SameLoop
<1>14. g[Len(p)] = Filled(p, Len(p))
  BY <1>2 DEF g
<1>15. QED
  BY <1>1, <1>13, <1>14

(* The ring after k calls of BufferOut.                                    *)
Drained(k) ==
  [data  |-> data,
   read  |-> Forward(read, k),
   write |-> write,
   ok    |-> TRUE,
   out   |-> [j \in 1 .. k |-> data[Forward(read, j - 1)]]]

(* The values of Drained are rings.                                        *)
LEMMA DrainedType ==
  ASSUME TypeOK, NEW k \in 0 .. CHUNK
  PROVE  /\ Drained(k) \in RingValue
         /\ Drained(k).out \in Seq(Byte) /\ Len(Drained(k).out) = k
<1>1. \A j \in 1 .. k : Forward(read, j - 1) \in Slot
  BY ForwardInSlot, SizeAssumption DEF TypeOK
<1>2. \A j \in 1 .. k : data[Forward(read, j - 1)] \in Byte
  BY <1>1 DEF TypeOK
<1>3. k \in Nat
  BY SizeAssumption
<1> DEFINE o == [j \in 1 .. k |-> data[Forward(read, j - 1)]]
<1>4. o \in [1 .. k -> Byte]
  BY <1>2
<1> HIDE DEF o
<1>5. o \in Seq(Byte) /\ Len(o) = k
  <2>1. \A n \in Nat : \A e \in [1 .. n -> Byte] : e \in Seq(Byte) /\ Len(e) = n
    OBVIOUS
  <2>2. QED
    BY <1>3, <1>4, <2>1, Zenon
<1>6. Forward(read, k) \in Slot
  BY ForwardInSlot, SizeAssumption DEF TypeOK
<1>7. QED
  BY <1>5, <1>6 DEF TypeOK, Drained, RingValue, o

(* A turn of the loop, while the ring holds the bytes it takes.            *)
LEMMA DrainTurn ==
  ASSUME TypeOK, Used >= CHUNK, NEW k \in 1 .. CHUNK
  PROVE  Drained(k) = BufferOut(Drained(k - 1))
<1>1. PICK m \in Nat : m = k - 1 /\ m + 1 = k /\ m < CHUNK /\ m \in 0 .. CHUNK
  BY SizeAssumption
<1>2. PICK b \in RingValue : b = Drained(m)
  BY <1>1, DrainedType
<1>3. PICK c \in RingValue : c = Drained(k)
  BY <1>1, DrainedType, SizeAssumption
<1>4. /\ b.data = data /\ b.read = Forward(read, m) /\ b.write = write
      /\ b.ok = TRUE
      /\ b.out = [j \in 1 .. m |-> data[Forward(read, j - 1)]]
  BY <1>2 DEF Drained
<1>5. /\ c.data = data /\ c.read = Forward(read, k) /\ c.write = write
      /\ c.ok = TRUE
      /\ c.out = [j \in 1 .. k |-> data[Forward(read, j - 1)]]
  BY <1>3 DEF Drained
<1>6. /\ Forward(read, m) # write
      /\ (IF Forward(read, m) + 1 >= BUFFER_SIZE THEN 0 ELSE Forward(read, m) + 1)
           = Forward(read, k)
  <2>1. /\ read \in Slot /\ write \in Slot /\ BUFFER_SIZE \in Nat /\ CHUNK \in Nat
        /\ CHUNK < BUFFER_SIZE
        /\ Used = IF read <= write THEN write - read
                  ELSE write - read + BUFFER_SIZE
    BY FillLevel, SizeAssumption DEF TypeOK
  <2>2. QED
    BY <1>1, <2>1 DEF Slot, Forward
<1>7. PICK r : r = BufferOut(b)
  OBVIOUS
<1>8. b.read # b.write
  BY <1>4, <1>6
<1>9. /\ r \in RingValue /\ r.data = b.data /\ r.write = b.write
      /\ r.ok = b.ok /\ r.out = Append(b.out, b.data[b.read])
      /\ r.read = IF b.read + 1 >= BUFFER_SIZE THEN 0 ELSE b.read + 1
  BY <1>7, <1>8, BufferOutDoes
<1>10. r.out = c.out
  <2>1. b.out \in Seq(Byte) /\ Len(b.out) = m
    BY <1>1, <1>2, DrainedType
  <2>2. PICK x : x = data[Forward(read, m)]
    OBVIOUS
  <2>3. r.out = Append(b.out, x)
    BY <1>4, <1>9, <2>2
  <2>4. Append(b.out, x) = [j \in 1 .. m + 1 |-> IF j = m + 1 THEN x ELSE b.out[j]]
    BY <2>1
  <2>5. ASSUME NEW j \in 1 .. m + 1
        PROVE  (IF j = m + 1 THEN x ELSE b.out[j]) = data[Forward(read, j - 1)]
    <3>1. CASE j = m + 1
      BY <3>1, <2>2
    <3>2. CASE j # m + 1
      <4>1. j \in 1 .. m
        BY <3>2
      <4>2. QED
        BY <3>2, <4>1, <1>4
    <3>3. QED
      BY <3>1, <3>2
  <2>6. Append(b.out, x) = [j \in 1 .. m + 1 |-> data[Forward(read, j - 1)]]
    BY <2>4, <2>5
  <2>7. QED
    BY <2>3, <2>6, <1>1, <1>5
<1>11. c = r
  <2>1. c.data = r.data /\ c.write = r.write /\ c.ok = r.ok
    BY <1>4, <1>5, <1>9
  <2>2. c.read = r.read
    BY <1>4, <1>5, <1>6, <1>9, Zenon
  <2>3. Alike(c, r)
    BY <1>10, <2>1, <2>2, Zenon DEF Alike
  <2>4. r \in RingValue
    BY <1>9, Zenon
  <2>5. QED
    BY <2>3, <2>4, SameRing, Zenon
<1>12. QED
  BY <1>1, <1>2, <1>3, <1>7, <1>11

(* The loop of VS1053_vPoll ends with the ring that Drained says.          *)
LEMMA DrainLoopIs ==
  ASSUME TypeOK, Used >= CHUNK
  PROVE  DrainLoop(TheRing) = Drained(CHUNK)
<1> DEFINE IsDrain(h) ==
      h = [k \in 0 .. CHUNK |-> IF k = 0 THEN TheRing ELSE BufferOut(h[k - 1])]
           f == CHOOSE h : IsDrain(h)
           g == [k \in 0 .. CHUNK |-> Drained(k)]
<1>1. DrainLoop(TheRing) = f[CHUNK]
  BY DEF DrainLoop
<1>2. CHUNK \in Nat
  BY SizeAssumption
<1>3. Drained(0) = TheRing
  <2>1. Forward(read, 0) = read
    BY SizeAssumption DEF TypeOK, Slot, Forward
  <2>2. [j \in 1 .. 0 |-> data[Forward(read, j - 1)]] = << >>
    OBVIOUS
  <2>3. QED
    BY <2>1, <2>2 DEF Drained, TheRing
<1>4. ASSUME NEW k \in 1 .. CHUNK
      PROVE  /\ k - 1 \in 0 .. CHUNK /\ k \in 0 .. CHUNK /\ k # 0
             /\ g[k - 1] = Drained(k - 1) /\ g[k] = Drained(k)
  BY <1>2
<1>5. ASSUME NEW k \in 1 .. CHUNK
      PROVE  g[k] = BufferOut(g[k - 1])
  <2> HIDE DEF g
  <2>1. QED
    BY <1>4, DrainTurn
<1>6. g[0] = TheRing
  BY <1>2, <1>3
<1>7. g = [k \in 0 .. CHUNK |-> g[k]]
  OBVIOUS
<1> HIDE DEF g
<1>8. ASSUME NEW k \in 0 .. CHUNK
      PROVE  g[k] = IF k = 0 THEN TheRing ELSE BufferOut(g[k - 1])
  <2>1. CASE k = 0
    BY <2>1, <1>6
  <2>2. CASE k # 0
    <3>1. k \in 1 .. CHUNK
      BY <2>2, <1>2
    <3>2. QED
      BY <2>2, <3>1, <1>5
  <2>3. QED
    BY <2>1, <2>2
<1>9. IsDrain(g)
  BY <1>7, <1>8
<1>10. IsDrain(f)
  <2> HIDE DEF IsDrain
  <2>1. QED
    BY <1>9, Zenon
<1> HIDE DEF f
<1>11. f[0] = g[0]
  BY <1>10, <1>6, <1>2
<1>12. ASSUME NEW k \in 1 .. CHUNK, f[k - 1] = g[k - 1]
       PROVE  f[k] = g[k]
  <2>1. f[k] = BufferOut(f[k - 1])
    BY <1>4, <1>10
  <2>2. QED
    BY <2>1, <1>5, <1>12
<1>13. f[CHUNK] = g[CHUNK]
  <2> HIDE DEF IsDrain
  <2>1. QED
    BY <1>2, <1>11, <1>12, SameLoop
<1>14. g[CHUNK] = Drained(CHUNK)
  BY <1>2 DEF g
<1>15. QED
  BY <1>1, <1>13, <1>14

(* The byte-wise loops of vs1053.c, with BufferIn and BufferOut and their  *)
(* wrap-around, do what the one-step actions say: VS1053_vFillRingBuffer   *)
(* stores the same bytes in the same fields, and VS1053_vPoll takes the    *)
(* same chunk without meeting an empty ring, for any sizes and packets.    *)
THEOREM LoopsAlwaysAgree == Spec => LoopsAgree
<1>1. ASSUME TypeOK, NEW p \in Packet, VS1053_vFillRingBuffer(p)
      PROVE  LET b == FillLoop(TheRing, p)
             IN  data' = b.data /\ write' = b.write /\ read' = b.read
  <2>1. p \in Seq(Byte) /\ Len(p) \in Nat
    BY PacketAssumption
  <2>2. FillLoop(TheRing, p) = Filled(p, Len(p))
    BY <1>1, <2>1, FillLoopIs
  <2>3. QED
    BY <1>1, <2>2 DEF VS1053_vFillRingBuffer, Filled, Stored, Place
<1>2. ASSUME TypeOK, Fetch, Used >= CHUNK
      PROVE  LET b == DrainLoop(TheRing)
             IN  b.ok /\ chunk' = b.out /\ read' = b.read
  <2>1. DrainLoop(TheRing) = Drained(CHUNK)
    BY <1>2, DrainLoopIs
  <2>2. QED
    BY <1>2, <2>1 DEF Fetch, Drained
<1>3. TypeOK => [\A p \in Packet : VS1053_vFillRingBuffer(p) =>
                   LET b == FillLoop(TheRing, p)
                   IN  data' = b.data /\ write' = b.write /\ read' = b.read]_vars
  BY <1>1, Zenon
<1>4. TypeOK => [Fetch /\ Used >= CHUNK =>
                   LET b == DrainLoop(TheRing)
                   IN  b.ok /\ chunk' = b.out /\ read' = b.read]_vars
  BY <1>2, Zenon
<1>5. Spec => FillLoopAgrees
  BY TypeCorrect, <1>3, PTL DEF FillLoopAgrees
<1>6. Spec => DrainLoopAgrees
  BY TypeCorrect, <1>4, PTL DEF DrainLoopAgrees
<1>7. QED
  BY <1>5, <1>6, Zenon DEF LoopsAgree
===========================================================================
