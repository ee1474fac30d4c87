----------------------- MODULE WebSocketFrameProofs ------------------------
(***************************************************************************)
(* Proofs about the frame parser of WebSocket: Good is kept by every turn  *)
(* of the loop of cgiWebSocketRecv, whatever bytes a packet holds, so that *)
(* frames come out of it as the browser sent them, and a socket ends only  *)
(* over a frame that is refused or that closes it.                         *)
(***************************************************************************)
EXTENDS WebSocketProofs

(* FlattenSeq: tlapm makes of its recursive function a CHOOSE, so that the *)
(* function is shown to exist first.                                       *)

IsFlat(ss, m, f) == f = [i \in 1..m |-> IF i = 1 THEN ss[i] ELSE f[i - 1] \o ss[i]]

LEMMA FlatValues ==
  ASSUME NEW ss, NEW m \in Nat, NEW f, IsFlat(ss, m, f)
  PROVE  /\ m > 0 => f[1] = ss[1]
         /\ \A i \in 1..m - 1 : f[i + 1] = f[i] \o ss[i + 1]
<1>1. f = [i \in 1..m |-> IF i = 1 THEN ss[i] ELSE f[i - 1] \o ss[i]] BY DEF IsFlat
<1>2. m > 0 => f[1] = ss[1] BY <1>1
<1>3. ASSUME NEW i \in 1..m - 1 PROVE f[i + 1] = f[i] \o ss[i + 1]
  <2>1. i + 1 \in 1..m /\ i + 1 # 1 /\ (i + 1) - 1 = i OBVIOUS
  <2> QED BY <1>1, <2>1
<1> QED BY <1>2, <1>3

LEMMA FlatFirst ==
  ASSUME NEW ss, NEW m \in Nat \ {0}, NEW f, IsFlat(ss, m, f)
  PROVE  f[1] = ss[1]
BY DEF IsFlat

LEMMA FlatExists ==
  ASSUME NEW ss
  PROVE  \A m \in Nat : \E f : IsFlat(ss, m, f)
<1> DEFINE S == {m \in Nat : \E f : IsFlat(ss, m, f)}
<1>1. 0 \in S
  <2>1. IsFlat(ss, 0, [i \in 1..0 |-> <<>>]) BY DEF IsFlat
  <2> QED BY <2>1
<1>2. ASSUME NEW m \in Nat, m \in S PROVE m + 1 \in S
  <2>1. PICK f : IsFlat(ss, m, f) BY <1>2
  <2> DEFINE last == IF m = 0 THEN ss[1] ELSE f[m] \o ss[m + 1]
             g == [i \in 1..m + 1 |-> IF i = m + 1 THEN last ELSE f[i]]
  <2>2. /\ m > 0 => f[1] = ss[1]
        /\ \A i \in 1..m - 1 : f[i + 1] = f[i] \o ss[i + 1]
    BY <2>1, FlatValues
  <2>3. ASSUME NEW i \in 1..m + 1
        PROVE  g[i] = IF i = 1 THEN ss[i] ELSE g[i - 1] \o ss[i]
    <3>1. CASE i = m + 1 /\ i = 1 BY <3>1
    <3>2. CASE i = m + 1 /\ i # 1
      <4>1. i - 1 = m /\ m # 0 /\ m # m + 1 /\ m \in 1..m + 1 BY <3>2
      <4>2. g[i - 1] = f[m] BY <4>1
      <4> QED BY <3>2, <4>1, <4>2
    <3>3. CASE i # m + 1 /\ i = 1 BY <2>2, <3>3
    <3>4. CASE i # m + 1 /\ i # 1
      <4>1. i - 1 \in 1..m - 1 /\ (i - 1) + 1 = i /\ i - 1 # m + 1 /\ i - 1 \in 1..m + 1
        BY <3>4
      <4>2. g[i] = f[i] /\ g[i - 1] = f[i - 1] BY <3>4, <4>1
      <4>3. f[(i - 1) + 1] = f[i - 1] \o ss[(i - 1) + 1] BY <2>2, <4>1
      <4> QED BY <3>4, <4>1, <4>2, <4>3
    <3> QED BY <3>1, <3>2, <3>3, <3>4
  <2>4. g = [i \in 1..m + 1 |-> g[i]] OBVIOUS
  <2> HIDE DEF g
  <2>5. IsFlat(ss, m + 1, g) BY <2>3, <2>4 DEF IsFlat
  <2> QED BY <2>5
<1> HIDE DEF S
<1>3. Nat \subseteq S BY <1>1, <1>2, NatSetInduction
<1> QED BY <1>3 DEF S

(* Two of them agree as far as their sequences do.                         *)
LEMMA FlatUnique ==
  ASSUME NEW ss, NEW tt, NEW f, NEW g, NEW m \in Nat, NEW k \in Nat,
         IsFlat(ss, m, f), IsFlat(tt, k, g), m <= k, \A i \in 1..m : ss[i] = tt[i]
  PROVE  \A i \in 1..m : f[i] = g[i]
<1> DEFINE S == {n \in Nat : n \in 1..m => f[n] = g[n]}
<1>1. 0 \in S OBVIOUS
<1>2. ASSUME NEW n \in Nat, n \in S PROVE n + 1 \in S
  <2>1. SUFFICES ASSUME n + 1 \in 1..m PROVE f[n + 1] = g[n + 1]
    OBVIOUS
  <2>2. CASE n = 0
    <3>0. m \in Nat \ {0} /\ k \in Nat \ {0} /\ 1 \in 1..m BY <2>1
    <3>1. f[1] = ss[1] BY <3>0, FlatFirst, SMT
    <3>2. g[1] = tt[1] BY <3>0, FlatFirst, SMT
    <3>3. ss[1] = tt[1] BY <3>0
    <3> QED BY <2>2, <3>1, <3>2, <3>3
  <2>3. CASE n # 0
    <3>1. n \in 1..m - 1 /\ n \in 1..k - 1 /\ n \in 1..m BY <2>1, <2>3
    <3>2. f[n + 1] = f[n] \o ss[n + 1] BY <3>1, FlatValues
    <3>3. g[n + 1] = g[n] \o tt[n + 1] BY <3>1, FlatValues
    <3>4. f[n] = g[n] BY <1>2, <3>1
    <3>5. ss[n + 1] = tt[n + 1] BY <2>1
    <3> QED BY <3>2, <3>3, <3>4, <3>5
  <2> QED BY <2>2, <2>3
<1>3. Nat \subseteq S
  <2> HIDE DEF S
  <2> QED BY <1>1, <1>2, NatSetInduction
<1> QED BY <1>3

LEMMA FlatIs ==
  ASSUME NEW ss, Len(ss) \in Nat, Len(ss) # 0
  PROVE  \E f : IsFlat(ss, Len(ss), f) /\ FlattenSeq(ss) = f[Len(ss)]
<1> DEFINE f == CHOOSE h : IsFlat(ss, Len(ss), h)
<1>1. FlattenSeq(ss) = f[Len(ss)] BY DEF FlattenSeq, IsFlat
<1>2. \E h : IsFlat(ss, Len(ss), h) BY FlatExists
<1>3. IsFlat(ss, Len(ss), f) BY <1>2, Zenon
<1> HIDE DEF f
<1> QED BY <1>1, <1>3

(* One sequence more.                                                      *)
LEMMA FlatAppend ==
  ASSUME NEW S, NEW ss \in Seq(Seq(S)), NEW t \in Seq(S)
  PROVE  FlattenSeq(Append(ss, t)) = FlattenSeq(ss) \o t
<1> DEFINE tt == Append(ss, t)
           m == Len(ss)
<1>1. /\ tt \in Seq(Seq(S)) /\ Len(tt) = m + 1 /\ m \in Nat /\ tt[m + 1] = t
      /\ \A i \in 1..m : tt[i] = ss[i]
  OBVIOUS
<1> HIDE DEF tt
<1>2. PICK g : IsFlat(tt, m + 1, g) /\ FlattenSeq(tt) = g[m + 1] BY <1>1, FlatIs
<1>3. CASE m = 0
  <2>0. m + 1 \in Nat /\ m + 1 > 0 BY <1>1
  <2>1. g[1] = tt[1] BY <1>2, <2>0, FlatValues
  <2>2. ss = <<>> BY <1>3
  <2>3. FlattenSeq(ss) = <<>> BY <2>2 DEF FlattenSeq
  <2>4. <<>> \o t = t OBVIOUS
  <2>5. m + 1 = 1 BY <1>3
  <2>6. FlattenSeq(tt) = t BY <1>1, <1>2, <2>1, <2>5
  <2> QED BY <2>3, <2>4, <2>6 DEF tt
<1>4. CASE m # 0
  <2>1. PICK f : IsFlat(ss, m, f) /\ FlattenSeq(ss) = f[m] BY <1>1, <1>4, FlatIs
  <2>2. m \in 1..(m + 1) - 1 /\ m \in 1..m /\ m <= m + 1 /\ m + 1 \in Nat BY <1>1, <1>4
  <2>3. g[m + 1] = g[m] \o tt[m + 1] BY <1>2, <2>2, FlatValues
  <2>4. \A i \in 1..m : ss[i] = tt[i] BY <1>1
  <2>5. \A i \in 1..m : f[i] = g[i]
    <3>1. Len(ss) \in Nat /\ Len(ss) + 1 \in Nat /\ Len(ss) <= Len(ss) + 1
          /\ IsFlat(ss, Len(ss), f) /\ IsFlat(tt, Len(ss) + 1, g)
          /\ \A i \in 1..Len(ss) : ss[i] = tt[i]
      BY <1>1, <1>2, <2>1, <2>4
    <3> QED BY <3>1, FlatUnique, SMT
  <2>6. f[m] = g[m] BY <2>2, <2>5
  <2> QED BY <1>1, <1>2, <2>1, <2>3, <2>6 DEF tt
<1> QED BY <1>3, <1>4

LEMMA FlatEmpty == FlattenSeq(<<>>) = <<>>
BY DEF FlattenSeq

(* The first n sequences.                                                  *)
Flat(ss, n) == FlattenSeq(SubSeq(ss, 1, n))

LEMMA FlatBegin ==
  ASSUME NEW S, NEW ss \in Seq(S)
  PROVE  Flat(ss, 0) = <<>> /\ Flat(ss, Len(ss)) = FlattenSeq(ss)
<1>1. SubSeq(ss, 1, 0) = <<>> OBVIOUS
<1>2. SubSeq(ss, 1, Len(ss)) = ss OBVIOUS
<1> QED BY <1>1, <1>2, FlatEmpty DEF Flat

LEMMA FlatStep ==
  ASSUME NEW S, NEW ss \in Seq(Seq(S)), NEW n \in Nat, n < Len(ss)
  PROVE  Flat(ss, n + 1) = Flat(ss, n) \o ss[n + 1]
<1>1. SubSeq(ss, 1, n) \in Seq(Seq(S)) /\ ss[n + 1] \in Seq(S) OBVIOUS
<1>2. SubSeq(ss, 1, n + 1) = Append(SubSeq(ss, 1, n), ss[n + 1]) OBVIOUS
<1> QED BY <1>1, <1>2, FlatAppend DEF Flat

LEMMA FlatType ==
  ASSUME NEW S, NEW ss \in Seq(Seq(S))
  PROVE  \A n \in 0..Len(ss) : Flat(ss, n) \in Seq(S)
<1> DEFINE T == {n \in Nat : n <= Len(ss) => Flat(ss, n) \in Seq(S)}
<1>1. 0 \in T
  <2>1. Flat(ss, 0) = <<>> BY FlatBegin
  <2>2. <<>> \in Seq(S) OBVIOUS
  <2> QED BY <2>1, <2>2
<1>2. ASSUME NEW n \in Nat, n \in T PROVE n + 1 \in T
  <2>1. SUFFICES ASSUME n + 1 <= Len(ss) PROVE Flat(ss, n + 1) \in Seq(S)
    OBVIOUS
  <2>2. n < Len(ss) /\ n <= Len(ss) BY <2>1
  <2>3. Flat(ss, n + 1) = Flat(ss, n) \o ss[n + 1] BY <2>2, FlatStep
  <2>4. Flat(ss, n) \in Seq(S) BY <1>2, <2>2
  <2>5. ss[n + 1] \in Seq(S) BY <2>1
  <2>6. Flat(ss, n) \o ss[n + 1] \in Seq(S) BY <2>4, <2>5, ConcatProperties
  <2> QED BY <2>3, <2>6
<1>3. Nat \subseteq T
  <2> HIDE DEF T
  <2> QED BY <1>1, <1>2, NatSetInduction
<1> QED BY <1>3

Joined(S, a, b, c) ==
  /\ c \in Seq(S) /\ Len(a) \in Nat /\ Len(b) \in Nat /\ Len(c) = Len(a) + Len(b)
  /\ \A i \in 1..Len(a) : c[i] = a[i]
  /\ \A i \in 1..Len(b) : c[Len(a) + i] = b[i]
LEMMA Joins ==
  ASSUME NEW S, NEW a \in Seq(S), NEW b \in Seq(S)
  PROVE  Joined(S, a, b, a \o b)
BY DEF Joined

Regroups(a, b, c) == (a \o b) \o c = a \o (b \o c)
LEMMA Associative ==
  ASSUME NEW S, NEW a \in Seq(S), NEW b \in Seq(S), NEW c \in Seq(S)
  PROVE  Regroups(a, b, c)
BY DEF Regroups

(* The i-th sequence in what is flattened.                                 *)
LEMMA FlatAt ==
  ASSUME NEW S, NEW ss \in Seq(Seq(S)), NEW i \in 1..Len(ss), NEW o \in 1..Len(ss[i])
  PROVE  FlattenSeq(ss)[Len(Flat(ss, i - 1)) + o] = ss[i][o]
<1> DEFINE k == Len(Flat(ss, i - 1)) + o
           T == {n \in Nat : n \in i..Len(ss) =>
                   k \in 1..Len(Flat(ss, n)) /\ Flat(ss, n)[k] = ss[i][o]}
<1>0. Len(ss) \in Nat /\ i \in Nat /\ i - 1 \in Nat /\ i - 1 < Len(ss) /\ i - 1 \in 0..Len(ss)
      /\ (i - 1) + 1 = i /\ o \in Nat /\ o >= 1
  OBVIOUS
<1>1. PICK b \in Seq(S) : b = Flat(ss, i - 1) BY <1>0, FlatType
<1>2. Len(b) \in Nat /\ k = Len(b) + o BY <1>1
<1>3. Flat(ss, i) = b \o ss[i] BY <1>0, <1>1, FlatStep
<1>4. PICK t \in Seq(S) : t = ss[i] OBVIOUS
<1>5. k \in 1..Len(Flat(ss, i)) /\ Flat(ss, i)[k] = ss[i][o]
  <2>1. o \in 1..Len(t) BY <1>4
  <2>2. Len(b \o t) = Len(b) + Len(t) /\ (b \o t)[Len(b) + o] = t[o] BY <1>2, <2>1
  <2> HIDE DEF k
  <2> QED BY <1>0, <1>2, <1>3, <1>4, <2>1, <2>2
<1> HIDE DEF k
<1>6. 0 \in T BY <1>0
<1>7. ASSUME NEW n \in Nat, n \in T PROVE n + 1 \in T
  <2>1. SUFFICES ASSUME n + 1 \in i..Len(ss)
                 PROVE  k \in 1..Len(Flat(ss, n + 1)) /\ Flat(ss, n + 1)[k] = ss[i][o]
    OBVIOUS
  <2>2. CASE n + 1 = i BY <1>5, <2>2
  <2>3. CASE n + 1 # i
    <3>1. n \in i..Len(ss) /\ n < Len(ss) /\ n \in 0..Len(ss) BY <1>0, <2>1, <2>3
    <3>2. k \in 1..Len(Flat(ss, n)) /\ Flat(ss, n)[k] = ss[i][o] BY <1>7, <3>1
    <3>3. PICK f \in Seq(S) : f = Flat(ss, n) BY <3>1, FlatType
    <3>4. PICK u \in Seq(S) : u = ss[n + 1] BY <3>1
    <3>5. Flat(ss, n + 1) = f \o u BY <3>1, <3>3, <3>4, FlatStep
    <3>6. k \in 1..Len(f \o u) /\ (f \o u)[k] = f[k] BY <3>2, <3>3
    <3> QED BY <3>2, <3>3, <3>5, <3>6
  <2> QED BY <2>2, <2>3
<1>8. Len(ss) \in T
  <2> HIDE DEF T
  <2> QED BY <1>0, <1>6, <1>7, NatSetInduction
<1>9. Flat(ss, Len(ss)) = FlattenSeq(ss) BY FlatBegin
<1>10. Len(ss) \in i..Len(ss) BY <1>0
<1> QED BY <1>8, <1>9, <1>10 DEF k

(* Empty sequences behind the i-th one add nothing.                        *)
LEMMA FlatTail ==
  ASSUME NEW S, NEW ss \in Seq(Seq(S)), NEW i \in 0..Len(ss),
         \A j \in i + 1..Len(ss) : ss[j] = <<>>
  PROVE  FlattenSeq(ss) = Flat(ss, i)
<1> DEFINE T == {n \in Nat : n \in i..Len(ss) => Flat(ss, n) = Flat(ss, i)}
<1>1. 0 \in T
  <2>1. 0 \in i..Len(ss) => i = 0 OBVIOUS
  <2> QED BY <2>1
<1>2. ASSUME NEW n \in Nat, n \in T PROVE n + 1 \in T
  <2>1. SUFFICES ASSUME n + 1 \in i..Len(ss) PROVE Flat(ss, n + 1) = Flat(ss, i)
    OBVIOUS
  <2>2. CASE n + 1 = i BY <2>2
  <2>3. CASE n + 1 # i
    <3>1. n \in i..Len(ss) /\ n < Len(ss) /\ n \in 0..Len(ss) /\ n + 1 \in i + 1..Len(ss)
      BY <2>1, <2>3
    <3>2. PICK f \in Seq(S) : f = Flat(ss, n) BY <3>1, FlatType
    <3>3. Flat(ss, n + 1) = f \o <<>>
      <4>1. Flat(ss, n + 1) = f \o ss[n + 1] BY <3>1, <3>2, FlatStep
      <4> QED BY <3>1, <4>1
    <3>4. f \o <<>> = f OBVIOUS
    <3>5. Flat(ss, n) = Flat(ss, i) BY <1>2, <3>1
    <3> QED BY <3>2, <3>3, <3>4, <3>5
  <2> QED BY <2>2, <2>3
<1>3. Len(ss) \in T
  <2> HIDE DEF T
  <2>1. Len(ss) \in Nat OBVIOUS
  <2> QED BY <1>1, <1>2, <2>1, NatSetInduction
<1>4. Flat(ss, Len(ss)) = FlattenSeq(ss) BY FlatBegin
<1>5. Len(ss) \in i..Len(ss) OBVIOUS
<1> QED BY <1>3, <1>4, <1>5

(* The i-th sequence, the last that is not empty, grows.                   *)
LEMMA FlatGrow ==
  ASSUME NEW S, NEW ss \in Seq(Seq(S)), NEW tt \in Seq(Seq(S)), Len(ss) = Len(tt),
         NEW i \in 1..Len(ss), NEW d \in Seq(S), tt[i] = ss[i] \o d,
         \A j \in 1..i - 1 : tt[j] = ss[j],
         \A j \in i + 1..Len(ss) : ss[j] = <<>> /\ tt[j] = <<>>
  PROVE  FlattenSeq(tt) = FlattenSeq(ss) \o d
<1>1. i - 1 \in Nat /\ i - 1 < Len(ss) /\ (i - 1) + 1 = i /\ i \in 0..Len(ss)
      /\ i - 1 \in 0..Len(ss)
  OBVIOUS
<1>2. SubSeq(ss, 1, i - 1) = SubSeq(tt, 1, i - 1) OBVIOUS
<1>3. PICK b \in Seq(S) : b = Flat(ss, i - 1) BY <1>1, FlatType
<1>4. b = Flat(tt, i - 1) BY <1>2, <1>3 DEF Flat
<1>5. Flat(ss, i) = b \o ss[i] BY <1>1, <1>3, FlatStep
<1>6. Flat(tt, i) = b \o tt[i] BY <1>1, <1>4, FlatStep
<1>7. FlattenSeq(ss) = Flat(ss, i) BY <1>1, FlatTail
<1>8. FlattenSeq(tt) = Flat(tt, i) BY <1>1, FlatTail
<1>9. PICK t \in Seq(S) : t = ss[i] OBVIOUS
<1>10. Regroups(b, t, d) BY Associative, Zenon
<1> QED BY <1>5, <1>6, <1>7, <1>8, <1>9, <1>10 DEF Regroups
-----------------------------------------------------------------------------
(* The stream of bytes of some frames, and where a frame begins in it.     *)
Encoded(frames) == [i \in DOMAIN frames |-> Encode(frames[i])]

LEMMA SizeType ==
  ASSUME NEW f \in GoodFrames
  PROVE  /\ Len(Header(f)) \in Nat /\ Len(f.payload) \in Nat /\ Size(f) \in Nat
         /\ Len(Encode(f)) = Size(f) /\ Size(f) = Len(Header(f)) + Len(f.payload)
         /\ Encode(f) \in Seq(Byte) /\ f.payload \in Seq({0, 1})
         /\ \A o \in 1..Len(Header(f)) : Encode(f)[o] = Header(f)[o]
         /\ \A j \in 1..Len(f.payload) : Encode(f)[Len(Header(f)) + j] = Masked(f)[j]
<1>1. PICK h \in Seq(Byte) : h = Header(f) BY HeaderType DEF ByteSeq
<1>2. PICK m \in Seq(Byte) : m = Masked(f) /\ Len(m) = Len(f.payload)
  BY MaskedType DEF ByteSeq
<1>3. Encode(f) = h \o m BY <1>1, <1>2, Zenon DEF Encode
<1>4. f.payload \in Seq({0, 1}) BY DEF GoodFrames
<1>5. /\ h \o m \in Seq(Byte) /\ Len(h \o m) = Len(h) + Len(m) /\ Len(h) \in Nat /\ Len(m) \in Nat
      /\ \A o \in 1..Len(h) : (h \o m)[o] = h[o]
      /\ \A j \in 1..Len(m) : (h \o m)[Len(h) + j] = m[j]
  OBVIOUS
<1> QED BY <1>1, <1>2, <1>3, <1>4, <1>5 DEF Size

LEMMA EncodedType ==
  ASSUME NEW frames \in Seq(GoodFrames)
  PROVE  /\ Encoded(frames) \in Seq(Seq(Byte)) /\ Len(Encoded(frames)) = Len(frames)
         /\ \A i \in 1..Len(frames) : Encoded(frames)[i] = Encode(frames[i])
<1>1. \A i \in 1..Len(frames) : Encode(frames[i]) \in Seq(Byte)
  <2>1. \A i \in 1..Len(frames) : frames[i] \in GoodFrames OBVIOUS
  <2> QED BY <2>1, EncodeType DEF ByteSeq
<1>2. Encoded(frames) \in [1..Len(frames) -> Seq(Byte)] BY <1>1 DEF Encoded
<1>3. Len(frames) \in Nat OBVIOUS
<1>4. PICK e : e = Encoded(frames) OBVIOUS
<1>5. e \in Seq(Seq(Byte)) /\ Len(e) = Len(frames)
  <2>1. e \in [1..Len(frames) -> Seq(Byte)] BY <1>2, <1>4
  <2>2. e \in Seq(Seq(Byte)) BY <1>3, <2>1
  <2>3. DOMAIN e = 1..Len(frames) BY <2>1
  <2> QED BY <1>3, <2>2, <2>3
<1> QED BY <1>4, <1>5 DEF Encoded

LEMMA BytesOfPrefix ==
  ASSUME NEW frames \in Seq(GoodFrames), NEW n \in 0..Len(frames)
  PROVE  Bytes(SubSeq(frames, 1, n)) = Flat(Encoded(frames), n)
<1> DEFINE t == SubSeq(frames, 1, n)
           e == Encoded(frames)
           u == SubSeq(e, 1, n)
<1>1. /\ t \in Seq(GoodFrames) /\ Len(t) = n /\ n \in Nat
      /\ \A i \in 1..n : t[i] = frames[i] /\ i \in 1..Len(frames)
  OBVIOUS
<1>2. e \in Seq(Seq(Byte)) /\ Len(e) = Len(frames) /\ \A i \in 1..Len(frames) : e[i] = Encode(frames[i])
  BY EncodedType, Zenon
<1>3. u \in Seq(Seq(Byte)) /\ Len(u) = n /\ \A i \in 1..n : u[i] = e[i]
  <2> HIDE DEF e
  <2> QED BY <1>2
<1>4. /\ Encoded(t) \in Seq(Seq(Byte)) /\ Len(Encoded(t)) = Len(t)
      /\ \A i \in 1..Len(t) : Encoded(t)[i] = Encode(t[i])
  <2> HIDE DEF t
  <2> QED BY <1>1, EncodedType, Zenon
<1> HIDE DEF t, u, e
<1>5. Encoded(t) = u
  <2>1. PICK x \in Seq(Seq(Byte)) : x = Encoded(t) BY <1>4
  <2>2. Len(x) = Len(u) /\ \A i \in 1..Len(u) : x[i] = u[i] BY <1>1, <1>2, <1>3, <1>4, <2>1
  <2> QED BY <1>3, <2>1, <2>2
<1>6. Bytes(t) = FlattenSeq(Encoded(t)) BY DEF Bytes, Encoded
<1> QED BY <1>5, <1>6 DEF Flat, t, u, e

LEMMA BytesWhole ==
  ASSUME NEW frames \in Seq(GoodFrames)
  PROVE  /\ Bytes(frames) = FlattenSeq(Encoded(frames)) /\ Bytes(frames) \in Seq(Byte)
         /\ Begin(frames, 1) = 0 /\ Begin(frames, Len(frames) + 1) = Len(Bytes(frames))
         /\ \A i \in 1..Len(frames) + 1 :
              Begin(frames, i) \in Nat /\ Begin(frames, i) = Len(Flat(Encoded(frames), i - 1))
<1> DEFINE e == Encoded(frames)
<1>1. Bytes(frames) = FlattenSeq(e) BY DEF Bytes, Encoded
<1>2. e \in Seq(Seq(Byte)) /\ Len(e) = Len(frames) BY EncodedType, Zenon
<1> HIDE DEF e
<1>3. Flat(e, 0) = <<>> /\ Flat(e, Len(e)) = FlattenSeq(e) BY <1>2, FlatBegin
<1>4. \A n \in 0..Len(e) : Flat(e, n) \in Seq(Byte) BY <1>2, FlatType
<1>5. ASSUME NEW i \in 1..Len(frames) + 1
      PROVE  Begin(frames, i) \in Nat /\ Begin(frames, i) = Len(Flat(e, i - 1))
  <2>1. i - 1 \in 0..Len(frames) OBVIOUS
  <2>2. Bytes(SubSeq(frames, 1, i - 1)) = Flat(e, i - 1)
    BY <2>1, BytesOfPrefix DEF e
  <2>3. Flat(e, i - 1) \in Seq(Byte) BY <1>2, <1>4, <2>1
  <2>4. Len(Flat(e, i - 1)) \in Nat BY <2>3
  <2> QED BY <2>2, <2>4 DEF Begin
<1>6. Begin(frames, 1) = 0
  <2>1. Begin(frames, 1) = Len(Flat(e, 1 - 1))
    <3>1. 1 \in 1..Len(frames) + 1 OBVIOUS
    <3> QED BY <1>5, <3>1
  <2> QED BY <1>3, <2>1
<1>7. Begin(frames, Len(frames) + 1) = Len(Bytes(frames))
  <2>1. Begin(frames, Len(frames) + 1) = Len(Flat(e, (Len(frames) + 1) - 1)) BY <1>5
  <2>2. (Len(frames) + 1) - 1 = Len(e) BY <1>2
  <2> QED BY <1>1, <1>3, <2>1, <2>2
<1>8. Bytes(frames) \in Seq(Byte)
  <2>1. Len(e) \in 0..Len(e) BY <1>2
  <2> QED BY <1>1, <1>3, <1>4, <2>1
<1> QED BY <1>1, <1>5, <1>6, <1>7, <1>8 DEF e

LEMMA BeginNext ==
  ASSUME NEW frames \in Seq(GoodFrames), NEW i \in 1..Len(frames)
  PROVE  /\ Begin(frames, i + 1) = Begin(frames, i) + Size(frames[i])
         /\ \A o \in 1..Size(frames[i]) :
              Bytes(frames)[Begin(frames, i) + o] = Encode(frames[i])[o]
<1> DEFINE e == Encoded(frames)
<1>1. e \in Seq(Seq(Byte)) /\ Len(e) = Len(frames) /\ e[i] = Encode(frames[i])
  BY EncodedType, Zenon
<1>2. frames[i] \in GoodFrames OBVIOUS
<1>3. Len(e[i]) = Size(frames[i]) BY <1>1, <1>2, SizeType
<1>4. i - 1 \in Nat /\ i - 1 < Len(frames) /\ (i - 1) + 1 = i /\ i \in 1..Len(frames) + 1
      /\ i + 1 \in 1..Len(frames) + 1 /\ (i + 1) - 1 = i /\ i - 1 \in 0..Len(frames)
  OBVIOUS
<1>5. Begin(frames, i) = Len(Flat(e, i - 1)) /\ Begin(frames, i + 1) = Len(Flat(e, (i + 1) - 1))
      /\ Bytes(frames) = FlattenSeq(e)
  BY <1>4, BytesWhole, Zenon
<1> HIDE DEF e
<1>6. Flat(e, i) = Flat(e, i - 1) \o e[i]
  <2>1. Flat(e, (i - 1) + 1) = Flat(e, i - 1) \o e[(i - 1) + 1]
    <3>1. i - 1 < Len(e) BY <1>1, <1>4
    <3> QED BY <1>1, <1>4, <3>1, FlatStep, Zenon
  <2> QED BY <1>4, <2>1
<1>7. PICK b \in Seq(Byte) : b = Flat(e, i - 1) BY <1>1, <1>4, FlatType
<1>8. PICK t \in Seq(Byte) : t = e[i] BY <1>1
<1>9. Len(b \o t) = Len(b) + Len(t) OBVIOUS
<1>10. Begin(frames, i + 1) = Begin(frames, i) + Size(frames[i])
  BY <1>3, <1>4, <1>5, <1>6, <1>7, <1>8, <1>9
<1>11. \A o \in 1..Len(e[i]) : FlattenSeq(e)[Len(Flat(e, i - 1)) + o] = e[i][o]
  BY <1>1, FlatAt
<1> QED BY <1>1, <1>3, <1>5, <1>10, <1>11

LEMMA BeginLater ==
  ASSUME NEW frames \in Seq(GoodFrames), NEW i \in 1..Len(frames)
  PROVE  \A j \in i + 1..Len(frames) + 1 : Begin(frames, j) >= Begin(frames, i) + Size(frames[i])
<1> DEFINE B(j) == Begin(frames, j)
           b == Begin(frames, i) + Size(frames[i])
           T == {n \in Nat : n \in i + 1..Len(frames) + 1 => B(n) >= b}
<1>0. Len(frames) \in Nat /\ i \in Nat OBVIOUS
<1>1. \A j \in 1..Len(frames) + 1 : B(j) \in Nat BY BytesWhole
<1>2. \A j \in 1..Len(frames) : B(j + 1) = B(j) + Size(frames[j]) /\ Size(frames[j]) \in Nat
  <2>1. \A j \in 1..Len(frames) : frames[j] \in GoodFrames OBVIOUS
  <2>2. \A j \in 1..Len(frames) : Size(frames[j]) \in Nat BY <2>1, SizeType
  <2> QED BY <2>2, BeginNext
<1>3. B(i + 1) = b BY BeginNext
<1>4. i \in 1..Len(frames) + 1 BY <1>0
<1>5. b \in Nat BY <1>1, <1>2, <1>4
<1> HIDE DEF B, b
<1>6. 0 \in T BY <1>0
<1>7. ASSUME NEW n \in Nat, n \in T PROVE n + 1 \in T
  <2>1. SUFFICES ASSUME n + 1 \in i + 1..Len(frames) + 1 PROVE B(n + 1) >= b
    OBVIOUS
  <2>2. CASE n = i BY <1>3, <1>5, <2>2
  <2>3. CASE n # i
    <3>1. n \in i + 1..Len(frames) + 1 /\ n \in 1..Len(frames) /\ n \in 1..Len(frames) + 1
      BY <1>0, <2>1, <2>3
    <3>2. B(n) >= b /\ B(n) \in Nat BY <1>1, <1>7, <3>1
    <3>3. B(n + 1) = B(n) + Size(frames[n]) /\ Size(frames[n]) \in Nat BY <1>2, <3>1
    <3> QED BY <1>5, <3>2, <3>3
  <2> QED BY <2>2, <2>3
<1>8. Nat \subseteq T
  <2> HIDE DEF T
  <2> QED BY <1>6, <1>7, NatSetInduction
<1> QED BY <1>0, <1>8 DEF B, b

LEMMA BytesAppend ==
  ASSUME NEW frames \in Seq(GoodFrames), NEW f \in GoodFrames
  PROVE  /\ Bytes(Append(frames, f)) = Bytes(frames) \o Encode(f)
         /\ \A i \in 1..Len(frames) + 1 : Begin(Append(frames, f), i) = Begin(frames, i)
<1> DEFINE a == Append(frames, f)
           e == Encoded(frames)
<1>1. a \in Seq(GoodFrames) /\ Len(a) = Len(frames) + 1 /\ Len(frames) \in Nat OBVIOUS
<1>2. /\ e \in Seq(Seq(Byte)) /\ Len(e) = Len(frames)
      /\ \A i \in 1..Len(frames) : e[i] = Encode(frames[i])
  BY EncodedType, Zenon
<1>3. /\ Encoded(a) \in Seq(Seq(Byte)) /\ Len(Encoded(a)) = Len(a)
      /\ \A i \in 1..Len(a) : Encoded(a)[i] = Encode(a[i])
  <2> HIDE DEF a
  <2> QED BY <1>1, EncodedType, Zenon
<1>4. \A i \in 1..Len(frames) : a[i] = frames[i] OBVIOUS
<1>5. a[Len(frames) + 1] = f OBVIOUS
<1>6. Encode(f) \in Seq(Byte) BY SizeType
<1> HIDE DEF a, e
<1>7. Encoded(a) = Append(e, Encode(f))
  <2>1. PICK x \in Seq(Seq(Byte)) : x = Encoded(a) BY <1>3
  <2>2. PICK t \in Seq(Byte) : t = Encode(f) BY <1>6
  <2>3. /\ Append(e, t) \in Seq(Seq(Byte)) /\ Len(Append(e, t)) = Len(e) + 1
        /\ Append(e, t)[Len(e) + 1] = t /\ \A i \in 1..Len(e) : Append(e, t)[i] = e[i]
    BY <1>2
  <2>4. Len(x) = Len(e) + 1 BY <1>1, <1>2, <1>3, <2>1
  <2>5. \A i \in 1..Len(e) + 1 : x[i] = Append(e, t)[i]
    <3>1. x[Len(e) + 1] = t BY <1>1, <1>2, <1>3, <1>5, <2>1, <2>2
    <3>2. \A i \in 1..Len(e) : x[i] = e[i] BY <1>1, <1>2, <1>3, <1>4, <2>1
    <3>3. Len(e) \in Nat BY <1>1, <1>2
    <3> QED BY <2>3, <3>1, <3>2, <3>3
  <2>6. PICK y \in Seq(Seq(Byte)) : y = Append(e, t) BY <2>3
  <2>7. x = y BY <2>3, <2>4, <2>5, <2>6
  <2> QED BY <2>1, <2>2, <2>6, <2>7
<1>8. FlattenSeq(Append(e, Encode(f))) = FlattenSeq(e) \o Encode(f) BY <1>2, <1>6, FlatAppend
<1>9. Bytes(a) = FlattenSeq(Encoded(a)) /\ Bytes(frames) = FlattenSeq(e)
  BY DEF Bytes, Encoded, e
<1>10. ASSUME NEW i \in 1..Len(frames) + 1 PROVE Begin(a, i) = Begin(frames, i)
  <2>1. SubSeq(a, 1, i - 1) = SubSeq(frames, 1, i - 1) BY DEF a
  <2> QED BY <2>1 DEF Begin
<1> QED BY <1>7, <1>8, <1>9, <1>10 DEF a
-----------------------------------------------------------------------------
(* The header of a frame.                                                  *)
LEMMA LengthFieldType ==
  ASSUME NEW n \in Nat
  PROVE  /\ LengthField(n) \in Seq(Byte)
         /\ n < LEN7 => LengthField(n) = <<>> /\ Len(LengthField(n)) = 0
         /\ n >= LEN7 /\ n <= LEN16 => LengthField(n) = Two(n) /\ Len(LengthField(n)) = 2
         /\ n > LEN16 => /\ LengthField(n) = <<0, 0, 0, 0>> \o Four(n)
                        /\ Len(LengthField(n)) = 8
         /\ Len(LengthField(n)) \in {0, 2, 8}
<1>1. LEN7 \in Nat /\ LEN16 \in Nat /\ LEN7 <= LEN16 BY Thresholds
<1>2. CASE n < LEN7
  <2>1. LengthField(n) = <<>> BY <1>2, Zenon DEF LengthField
  <2>2. ~(n >= LEN7) /\ ~(n > LEN16) BY <1>1, <1>2
  <2>3. <<>> \in Seq(Byte) /\ Len(<<>>) = 0 OBVIOUS
  <2> QED BY <1>2, <2>1, <2>2, <2>3
<1>3. CASE n >= LEN7 /\ n <= LEN16
  <2>1. ~(n < LEN7) /\ ~(n > LEN16) BY <1>1, <1>3
  <2>2. LengthField(n) = Two(n) BY <1>3, <2>1, Zenon DEF LengthField
  <2>3. Two(n) \in Seq(Byte) /\ Len(Two(n)) = 2 BY LengthBytes DEF ByteSeq
  <2> QED BY <2>1, <2>2, <2>3
<1>4. CASE n > LEN16
  <2>1. ~(n < LEN7) /\ ~(n <= LEN16) BY <1>1, <1>4
  <2>2. LengthField(n) = <<0, 0, 0, 0>> \o Four(n) BY <1>4, <2>1, Zenon DEF LengthField
  <2>3. PICK t \in Seq(Byte) : t = Four(n) /\ Len(t) = 4 BY LengthBytes DEF ByteSeq
  <2>4. PICK z : z = <<0, 0, 0, 0>> OBVIOUS
  <2>5. z \in Seq(Byte) /\ Len(z) = 4 BY <2>4 DEF Byte
  <2>6. PICK c : c = z \o t /\ Joined(Byte, z, t, c) BY <2>3, <2>5, Joins, Zenon
  <2>7. c \in Seq(Byte) /\ Len(c) = 8 BY <2>3, <2>5, <2>6 DEF Joined
  <2> QED BY <2>1, <2>2, <2>3, <2>4, <2>6, <2>7
<1> QED BY <1>1, <1>2, <1>3, <1>4

LEMMA HeaderParts ==
  ASSUME NEW f \in GoodFrames
  PROVE  LET l == LengthField(Len(f.payload)) IN
         /\ Len(l) \in {0, 2, 8} /\ Head2(f) = 2 + Len(l)
         /\ Len(Header(f)) = Head2(f) + (IF f.masked THEN 4 ELSE 0)
         /\ Header(f)[1] = Flags(f.op, f.fin)
         /\ Header(f)[2] = (IF f.masked THEN IS_MASKED ELSE 0) + LengthCode(Len(f.payload))
         /\ \A j \in 1..Len(l) : Header(f)[2 + j] = l[j]
         /\ f.masked => \A j \in 1..4 : Header(f)[Head2(f) + j] = Mask[j]
<1> DEFINE x == Flags(f.op, f.fin)
           y == (IF f.masked THEN IS_MASKED ELSE 0) + LengthCode(Len(f.payload))
<1>1. Len(f.payload) \in Nat BY SizeType
<1>2. PICK l \in Seq(Byte) : l = LengthField(Len(f.payload)) /\ Len(l) \in {0, 2, 8}
  BY <1>1, LengthFieldType
<1>3. Head2(f) = 2 + Len(l) BY <1>2 DEF Head2
<1>4. PICK m : m = IF f.masked THEN Mask ELSE <<>> OBVIOUS
<1>5. m \in Seq({0, 1}) /\ Len(m) = IF f.masked THEN 4 ELSE 0
  <2>1. Mask \in Seq({0, 1}) /\ Len(Mask) = 4 BY DEF Mask
  <2>2. <<>> \in Seq({0, 1}) /\ Len(<<>>) = 0 OBVIOUS
  <2>3. CASE f.masked BY <1>4, <2>1, <2>3
  <2>4. CASE ~f.masked BY <1>4, <2>2, <2>4
  <2> QED BY <2>3, <2>4
<1>6. Header(f) = (<<x, y>> \o l) \o m BY <1>2, <1>4, Zenon DEF Header
<1> HIDE DEF x, y
<1>7. PICK t : t = <<x, y>> OBVIOUS
<1>8. t \in Seq({x, y}) /\ Len(t) = 2 /\ t[1] = x /\ t[2] = y BY <1>7
<1> DEFINE V == Byte \cup {x, y, 0, 1}
<1>9. t \in Seq(V) /\ l \in Seq(V) /\ m \in Seq(V)
  <2>1. \A A, B : A \subseteq B => Seq(A) \subseteq Seq(B) OBVIOUS
  <2>2. {x, y} \subseteq V /\ Byte \subseteq V /\ {0, 1} \subseteq V OBVIOUS
  <2> QED BY <1>5, <1>8, <2>1, <2>2
<1> HIDE DEF V
<1>10. PICK u \in Seq(V) : u = t \o l /\ Len(u) = 2 + Len(l) /\ u[1] = x /\ u[2] = y
              /\ \A j \in 1..Len(l) : u[2 + j] = l[j]
  <2>1. PICK c : c = t \o l /\ Joined(V, t, l, c) BY <1>9, Joins, Zenon
  <2>2. c \in Seq(V) /\ Len(c) = 2 + Len(l) BY <1>8, <2>1 DEF Joined
  <2>3. c[1] = t[1] /\ c[2] = t[2] BY <1>8, <2>1 DEF Joined
  <2>4. \A j \in 1..Len(l) : c[2 + j] = l[j] BY <1>8, <2>1 DEF Joined
  <2> QED BY <1>8, <2>1, <2>2, <2>3, <2>4
<1>11. Header(f) = u \o m BY <1>6, <1>7, <1>10
<1>12. /\ Len(u \o m) = Len(u) + Len(m)
       /\ \A j \in 1..Len(u) : (u \o m)[j] = u[j]
       /\ \A j \in 1..Len(m) : (u \o m)[Len(u) + j] = m[j]
  BY <1>9
<1>13. Len(l) \in Nat /\ Len(u) \in Nat /\ Len(u) = Head2(f) BY <1>2, <1>3, <1>10
<1>14. Len(Header(f)) = Head2(f) + (IF f.masked THEN 4 ELSE 0) BY <1>5, <1>11, <1>12, <1>13
<1>15. Header(f)[1] = x /\ Header(f)[2] = y
  <2>1. 1 \in 1..Len(u) /\ 2 \in 1..Len(u) BY <1>10, <1>13
  <2> QED BY <1>10, <1>11, <1>12, <2>1
<1>16. \A j \in 1..Len(l) : Header(f)[2 + j] = l[j]
  <2>1. \A j \in 1..Len(l) : 2 + j \in 1..Len(u) BY <1>10, <1>13
  <2> QED BY <1>10, <1>11, <1>12, <2>1
<1>17. f.masked => \A j \in 1..4 : Header(f)[Head2(f) + j] = Mask[j]
  BY <1>4, <1>5, <1>11, <1>12, <1>13
<1> QED BY <1>2, <1>3, <1>14, <1>15, <1>16, <1>17 DEF x, y

LEMMA HeaderLength ==
  ASSUME NEW f \in GoodFrames
  PROVE  /\ Head2(f) \in {2, 4, 10} /\ Len(Header(f)) \in {Head2(f), Head2(f) + 4}
         /\ Len(Header(f)) >= 2 /\ Size(f) >= 2 /\ Size(f) >= Len(Header(f))
<1>1. Head2(f) \in {2, 4, 10}
  <2>1. PICK k \in {0, 2, 8} : Head2(f) = 2 + k BY HeaderParts
  <2> QED BY <2>1
<1>2. Len(Header(f)) \in {Head2(f), Head2(f) + 4} BY HeaderParts
<1>3. Len(f.payload) \in Nat /\ Size(f) = Len(Header(f)) + Len(f.payload) BY SizeType
<1> QED BY <1>1, <1>2, <1>3
-----------------------------------------------------------------------------
(* Of the bytes up to the o-th of the i-th frame, the frames before it     *)
(* have all of theirs and those behind it none.                            *)
LEMMA Offsets ==
  ASSUME NEW frames \in Seq(GoodFrames), NEW i \in 1..Len(frames),
         NEW o \in 0..Size(frames[i])
  PROVE  LET n == Begin(frames, i) + o IN
         /\ n \in Nat /\ OfFrame(frames, i, n) = o
         /\ \A j \in 1..Len(frames) : OfFrame(frames, j, n) \in Int
         /\ \A j \in 1..i - 1 : OfFrame(frames, j, n) >= Size(frames[j])
         /\ \A j \in i + 1..Len(frames) : OfFrame(frames, j, n) <= 0
<1> DEFINE B(j) == Begin(frames, j)
           n == Begin(frames, i) + o
<1>0. Len(frames) \in Nat /\ i \in Nat OBVIOUS
<1>1. \A j \in 1..Len(frames) + 1 : B(j) \in Nat BY BytesWhole
<1>2. \A j : OfFrame(frames, j, n) = n - B(j) BY DEF OfFrame, Begin
<1>3. \A j \in 1..Len(frames) : Size(frames[j]) \in Nat
  <2>1. \A j \in 1..Len(frames) : frames[j] \in GoodFrames OBVIOUS
  <2> QED BY <2>1, SizeType
<1>4. B(i) \in Nat /\ Size(frames[i]) \in Nat /\ o \in Nat /\ n = B(i) + o
  BY <1>0, <1>1, <1>3
<1>5. ASSUME NEW j \in 1..i - 1 PROVE OfFrame(frames, j, n) >= Size(frames[j])
  <2>1. j \in 1..Len(frames) /\ i \in j + 1..Len(frames) + 1 /\ j \in 1..Len(frames) + 1 BY <1>0
  <2>2. B(i) >= B(j) + Size(frames[j]) BY <2>1, BeginLater
  <2>3. B(j) \in Nat /\ Size(frames[j]) \in Nat BY <1>1, <1>3, <2>1
  <2> HIDE DEF B, n
  <2> QED BY <1>2, <1>4, <2>2, <2>3
<1>6. ASSUME NEW j \in i + 1..Len(frames) PROVE OfFrame(frames, j, n) <= 0
  <2>1. j \in i + 1..Len(frames) + 1 /\ j \in 1..Len(frames) + 1 BY <1>0
  <2>2. B(j) >= B(i) + Size(frames[i]) BY <2>1, BeginLater
  <2>3. B(j) \in Nat BY <1>1, <2>1
  <2> HIDE DEF B, n
  <2> QED BY <1>2, <1>4, <2>2, <2>3
<1>7. ASSUME NEW j \in 1..Len(frames) PROVE OfFrame(frames, j, n) \in Int
  <2>1. B(j) \in Nat BY <1>0, <1>1
  <2> HIDE DEF B, n
  <2> QED BY <1>2, <1>4, <2>1
<1>8. n \in Nat /\ OfFrame(frames, i, n) = o
  <2> HIDE DEF B, n
  <2> QED BY <1>2, <1>4
<1> QED BY <1>5, <1>6, <1>7, <1>8

LEMMA PartType ==
  ASSUME NEW f \in GoodFrames, NEW n \in Int
  PROVE  /\ Part(f, n) \in Seq({0, 1})
         /\ n <= Len(Header(f)) => Part(f, n) = <<>>
         /\ n >= Size(f) => Part(f, n) = f.payload
         /\ n >= Len(Header(f)) /\ n <= Size(f) =>
              Part(f, n) = SubSeq(f.payload, 1, n - Len(Header(f)))
<1>1. PICK p \in Seq({0, 1}) : p = f.payload BY SizeType
<1>2. PICK h \in Nat : h = Len(Header(f)) /\ Size(f) = h + Len(p) BY <1>1, SizeType
<1>3. Part(f, n) = IF n - h <= 0 THEN <<>>
                   ELSE IF n - h < Len(p) THEN SubSeq(p, 1, n - h) ELSE p
  BY <1>1, <1>2 DEF Part
<1>4. SubSeq(p, 1, Len(p)) = p /\ SubSeq(p, 1, 0) = <<>> /\ Len(p) \in Nat /\ <<>> \in Seq({0, 1})
      /\ (Len(p) = 0 => p = <<>>)
  OBVIOUS
<1>5. CASE n - h <= 0
  <2>1. n >= h + Len(p) => Len(p) = 0 BY <1>4, <1>5
  <2>2. n >= h => n - h = 0 BY <1>5
  <2> QED BY <1>1, <1>2, <1>3, <1>4, <1>5, <2>1, <2>2
<1>6. CASE n - h > 0 /\ n - h < Len(p)
  <2>1. SubSeq(p, 1, n - h) \in Seq({0, 1}) BY <1>6
  <2>2. ~(n <= h) /\ ~(n >= h + Len(p)) BY <1>4, <1>6
  <2> QED BY <1>1, <1>2, <1>3, <1>6, <2>1, <2>2
<1>7. CASE n - h > 0 /\ n - h >= Len(p)
  <2>1. Part(f, n) = p BY <1>3, <1>4, <1>7
  <2>2. n <= h + Len(p) => n - h = Len(p) BY <1>4, <1>7
  <2> QED BY <1>1, <1>2, <1>4, <1>7, <2>1, <2>2
<1> QED BY <1>4, <1>5, <1>6, <1>7

DataParts(frames, n) ==
  [i \in DOMAIN frames |->
    IF frames[i].op \in DataOps THEN Part(frames[i], OfFrame(frames, i, n)) ELSE <<>>]
PingParts(frames, n) ==
  [i \in DOMAIN frames |->
    IF frames[i].op = OPCODE_PING /\ OfFrame(frames, i, n) >= Len(Encode(frames[i]))
    THEN <<frames[i].payload>> ELSE <<>>]

LEMMA PartsType ==
  ASSUME NEW frames \in Seq(GoodFrames), NEW n \in Int,
         \A j \in 1..Len(frames) : OfFrame(frames, j, n) \in Int
  PROVE  /\ DataParts(frames, n) \in Seq(Seq({0, 1}))
         /\ PingParts(frames, n) \in Seq(Seq(Seq({0, 1})))
         /\ Len(DataParts(frames, n)) = Len(frames) /\ Len(PingParts(frames, n)) = Len(frames)
         /\ DataOf(frames, n) = FlattenSeq(DataParts(frames, n))
         /\ PingsOf(frames, n) = FlattenSeq(PingParts(frames, n))
<1> DEFINE D(j) == IF frames[j].op \in DataOps THEN Part(frames[j], OfFrame(frames, j, n)) ELSE <<>>
           P(j) == IF frames[j].op = OPCODE_PING /\ OfFrame(frames, j, n) >= Len(Encode(frames[j]))
                   THEN <<frames[j].payload>> ELSE <<>>
<1>1. ASSUME NEW j \in 1..Len(frames) PROVE D(j) \in Seq({0, 1})
  <2>1. frames[j] \in GoodFrames OBVIOUS
  <2>2. Part(frames[j], OfFrame(frames, j, n)) \in Seq({0, 1}) BY <2>1, PartType
  <2>3. <<>> \in Seq({0, 1}) OBVIOUS
  <2> QED BY <2>2, <2>3
<1>2. ASSUME NEW j \in 1..Len(frames) PROVE P(j) \in Seq(Seq({0, 1}))
  <2>1. frames[j] \in GoodFrames OBVIOUS
  <2>2. PICK p \in Seq({0, 1}) : p = frames[j].payload BY <2>1, SizeType
  <2>3. <<p>> \in Seq(Seq({0, 1})) /\ <<>> \in Seq(Seq({0, 1})) OBVIOUS
  <2> QED BY <2>2, <2>3
<1>3. Len(frames) \in Nat /\ DOMAIN frames = 1..Len(frames) OBVIOUS
<1>4. DataParts(frames, n) = [j \in 1..Len(frames) |-> D(j)]
      /\ PingParts(frames, n) = [j \in 1..Len(frames) |-> P(j)]
  BY <1>3 DEF DataParts, PingParts
<1> HIDE DEF D, P
<1>5. DataParts(frames, n) \in Seq(Seq({0, 1})) /\ Len(DataParts(frames, n)) = Len(frames)
  <2>1. [j \in 1..Len(frames) |-> D(j)] \in [1..Len(frames) -> Seq({0, 1})] BY <1>1
  <2>2. PICK x \in [1..Len(frames) -> Seq({0, 1})] : x = DataParts(frames, n) BY <1>4, <2>1
  <2>3. x \in Seq(Seq({0, 1})) /\ DOMAIN x = 1..Len(frames) BY <1>3
  <2>4. Len(x) = Len(frames) BY <1>3, <2>3
  <2> QED BY <2>2, <2>3, <2>4
<1>6. PingParts(frames, n) \in Seq(Seq(Seq({0, 1}))) /\ Len(PingParts(frames, n)) = Len(frames)
  <2>1. [j \in 1..Len(frames) |-> P(j)] \in [1..Len(frames) -> Seq(Seq({0, 1}))] BY <1>2
  <2>2. PICK x \in [1..Len(frames) -> Seq(Seq({0, 1}))] : x = PingParts(frames, n) BY <1>4, <2>1
  <2>3. x \in Seq(Seq(Seq({0, 1}))) /\ DOMAIN x = 1..Len(frames) BY <1>3
  <2>4. Len(x) = Len(frames) BY <1>3, <2>3
  <2> QED BY <2>2, <2>3, <2>4
<1>7. DataOf(frames, n) = FlattenSeq(DataParts(frames, n))
      /\ PingsOf(frames, n) = FlattenSeq(PingParts(frames, n))
  BY DEF DataOf, PingsOf, DataParts, PingParts
<1> QED BY <1>5, <1>6, <1>7

(* What the part of the i-th frame that has arrived adds.                  *)
LEMMA DataAt ==
  ASSUME NEW frames \in Seq(GoodFrames), NEW i \in 1..Len(frames),
         NEW o \in 0..Size(frames[i])
  PROVE  LET f == frames[i] IN
         /\ DataOf(frames, Begin(frames, i)) \in Seq({0, 1})
         /\ DataOf(frames, Begin(frames, i) + o) = DataOf(frames, Begin(frames, i))
              \o (IF f.op \in DataOps THEN Part(f, o) ELSE <<>>)
<1> DEFINE f == frames[i]
           b == Begin(frames, i)
           ss == DataParts(frames, b)
           tt == DataParts(frames, b + o)
           d == IF f.op \in DataOps THEN Part(f, o) ELSE <<>>
<1>0. /\ \A j \in 1..Len(frames) : frames[j] \in GoodFrames
      /\ f \in GoodFrames /\ Size(f) \in Nat /\ 0 \in 0..Size(f) /\ o \in Int /\ Len(frames) \in Nat
  <2>1. f \in GoodFrames OBVIOUS
  <2> QED BY <2>1, SizeType
<1>1. /\ b \in Nat /\ OfFrame(frames, i, b) = 0
      /\ \A j \in 1..Len(frames) : OfFrame(frames, j, b) \in Int
      /\ \A j \in 1..i - 1 : OfFrame(frames, j, b) >= Size(frames[j])
      /\ \A j \in i + 1..Len(frames) : OfFrame(frames, j, b) <= 0
  <2>1. Begin(frames, i) + 0 = Begin(frames, i)
    <3>1. i \in 1..Len(frames) + 1 BY <1>0
    <3>2. Begin(frames, i) \in Nat BY <3>1, BytesWhole
    <3> QED BY <3>2
  <2>2. 0 \in 0..Size(frames[i]) BY <1>0
  <2> QED BY <2>1, <2>2, Offsets
<1>2. /\ b + o \in Nat /\ OfFrame(frames, i, b + o) = o
      /\ \A j \in 1..Len(frames) : OfFrame(frames, j, b + o) \in Int
      /\ \A j \in 1..i - 1 : OfFrame(frames, j, b + o) >= Size(frames[j])
      /\ \A j \in i + 1..Len(frames) : OfFrame(frames, j, b + o) <= 0
  BY Offsets
<1>3. PICK n \in Nat : n = b + o BY <1>2
<1> HIDE DEF b
<1>4. /\ ss \in Seq(Seq({0, 1})) /\ Len(ss) = Len(frames) /\ DataOf(frames, b) = FlattenSeq(ss)
  BY <1>1, PartsType
<1>5. /\ tt \in Seq(Seq({0, 1})) /\ Len(tt) = Len(frames)
      /\ DataOf(frames, b + o) = FlattenSeq(tt)
  BY <1>2, <1>3, PartsType
<1>6. /\ \A j \in 1..Len(frames) : ss[j] =
            IF frames[j].op \in DataOps THEN Part(frames[j], OfFrame(frames, j, b)) ELSE <<>>
      /\ \A j \in 1..Len(frames) : tt[j] =
            IF frames[j].op \in DataOps THEN Part(frames[j], OfFrame(frames, j, b + o)) ELSE <<>>
  BY DEF DataParts
<1> HIDE DEF ss, tt
<1>7. d \in Seq({0, 1}) /\ Part(f, 0) = <<>> /\ Part(f, o) \in Seq({0, 1})
  <2>1. Part(f, o) \in Seq({0, 1}) BY <1>0, PartType
  <2>2. 0 \in Int /\ 0 <= Len(Header(f)) BY <1>0, SizeType
  <2>3. Part(f, 0) = <<>> BY <1>0, <2>2, PartType
  <2>4. <<>> \in Seq({0, 1}) OBVIOUS
  <2> QED BY <2>1, <2>3, <2>4
<1>8. tt[i] = d /\ ss[i] = <<>> BY <1>1, <1>2, <1>6, <1>7
<1>9. tt[i] = ss[i] \o d
  <2>1. <<>> \o d = d BY <1>7
  <2> QED BY <1>8, <2>1
<1>10. ASSUME NEW j \in 1..i - 1 PROVE tt[j] = ss[j]
  <2>1. j \in 1..Len(frames) /\ frames[j] \in GoodFrames BY <1>0
  <2>2. Part(frames[j], OfFrame(frames, j, b)) = frames[j].payload
    BY <1>1, <2>1, PartType
  <2>3. Part(frames[j], OfFrame(frames, j, b + o)) = frames[j].payload
    BY <1>2, <2>1, PartType
  <2> QED BY <1>6, <2>1, <2>2, <2>3
<1>11. ASSUME NEW j \in i + 1..Len(frames) PROVE ss[j] = <<>> /\ tt[j] = <<>>
  <2>1. j \in 1..Len(frames) /\ frames[j] \in GoodFrames BY <1>0
  <2>0. Len(Header(frames[j])) \in Nat BY <2>1, SizeType
  <2>2. Part(frames[j], OfFrame(frames, j, b)) = <<>>
    <3>1. OfFrame(frames, j, b) \in Int /\ OfFrame(frames, j, b) <= Len(Header(frames[j]))
      BY <1>1, <2>0, <2>1
    <3> QED BY <2>1, <3>1, PartType
  <2>3. Part(frames[j], OfFrame(frames, j, b + o)) = <<>>
    <3>1. OfFrame(frames, j, b + o) \in Int /\ OfFrame(frames, j, b + o) <= Len(Header(frames[j]))
      BY <1>2, <2>0, <2>1
    <3> QED BY <2>1, <3>1, PartType
  <2> QED BY <1>6, <2>1, <2>2, <2>3
<1> HIDE DEF d
<1>12. FlattenSeq(tt) = FlattenSeq(ss) \o d
  <2>1. i \in 1..Len(ss) /\ Len(ss) = Len(tt) BY <1>4, <1>5
  <2>2. \A j \in i + 1..Len(ss) : ss[j] = <<>> /\ tt[j] = <<>> BY <1>4, <1>11
  <2>3. \A j \in 1..i - 1 : tt[j] = ss[j] BY <1>10
  <2> QED BY <1>4, <1>5, <1>7, <1>9, <2>1, <2>2, <2>3, FlatGrow, Zenon
<1>13. FlattenSeq(ss) \in Seq({0, 1})
  <2>1. Flat(ss, Len(ss)) = FlattenSeq(ss) BY <1>4, FlatBegin
  <2>2. Len(ss) \in 0..Len(ss) BY <1>0, <1>4
  <2> QED BY <1>4, <2>1, <2>2, FlatType
<1> QED BY <1>4, <1>5, <1>12, <1>13 DEF b, d

LEMMA PingsAt ==
  ASSUME NEW frames \in Seq(GoodFrames), NEW i \in 1..Len(frames),
         NEW o \in 0..Size(frames[i])
  PROVE  LET f == frames[i] IN
         /\ PingsOf(frames, Begin(frames, i)) \in Seq(Seq({0, 1}))
         /\ PingsOf(frames, Begin(frames, i) + o) = PingsOf(frames, Begin(frames, i))
              \o (IF f.op = OPCODE_PING /\ o = Size(f) THEN <<f.payload>> ELSE <<>>)
<1> DEFINE f == frames[i]
           b == Begin(frames, i)
           ss == PingParts(frames, b)
           tt == PingParts(frames, b + o)
           d == IF f.op = OPCODE_PING /\ o = Size(f) THEN <<f.payload>> ELSE <<>>
<1>0. /\ \A j \in 1..Len(frames) : frames[j] \in GoodFrames
      /\ \A j \in 1..Len(frames) : Len(Encode(frames[j])) = Size(frames[j])
      /\ \A j \in 1..Len(frames) : Size(frames[j]) \in Nat /\ Size(frames[j]) >= 2
      /\ f \in GoodFrames /\ 0 \in 0..Size(f) /\ o \in Int /\ Len(frames) \in Nat
  <2>1. \A j \in 1..Len(frames) : frames[j] \in GoodFrames OBVIOUS
  <2>2. \A j \in 1..Len(frames) : Len(Encode(frames[j])) = Size(frames[j])
        /\ Size(frames[j]) \in Nat /\ Size(frames[j]) >= 2
    BY <2>1, SizeType, HeaderLength
  <2> QED BY <2>1, <2>2
<1>1. /\ b \in Nat /\ OfFrame(frames, i, b) = 0
      /\ \A j \in 1..Len(frames) : OfFrame(frames, j, b) \in Int
      /\ \A j \in 1..i - 1 : OfFrame(frames, j, b) >= Size(frames[j])
      /\ \A j \in i + 1..Len(frames) : OfFrame(frames, j, b) <= 0
  <2>1. Begin(frames, i) + 0 = Begin(frames, i)
    <3>1. i \in 1..Len(frames) + 1 BY <1>0
    <3>2. Begin(frames, i) \in Nat BY <3>1, BytesWhole
    <3> QED BY <3>2
  <2>2. 0 \in 0..Size(frames[i]) BY <1>0
  <2> QED BY <2>1, <2>2, Offsets
<1>2. /\ b + o \in Nat /\ OfFrame(frames, i, b + o) = o
      /\ \A j \in 1..Len(frames) : OfFrame(frames, j, b + o) \in Int
      /\ \A j \in 1..i - 1 : OfFrame(frames, j, b + o) >= Size(frames[j])
      /\ \A j \in i + 1..Len(frames) : OfFrame(frames, j, b + o) <= 0
  BY Offsets
<1>3. PICK n \in Nat : n = b + o BY <1>2
<1> HIDE DEF b
<1>4. /\ ss \in Seq(Seq(Seq({0, 1}))) /\ Len(ss) = Len(frames)
      /\ PingsOf(frames, b) = FlattenSeq(ss)
  BY <1>1, PartsType
<1>5. /\ tt \in Seq(Seq(Seq({0, 1}))) /\ Len(tt) = Len(frames)
      /\ PingsOf(frames, b + o) = FlattenSeq(tt)
  BY <1>2, <1>3, PartsType
<1>6. /\ \A j \in 1..Len(frames) : ss[j] =
            IF frames[j].op = OPCODE_PING /\ OfFrame(frames, j, b) >= Size(frames[j])
            THEN <<frames[j].payload>> ELSE <<>>
      /\ \A j \in 1..Len(frames) : tt[j] =
            IF frames[j].op = OPCODE_PING /\ OfFrame(frames, j, b + o) >= Size(frames[j])
            THEN <<frames[j].payload>> ELSE <<>>
  BY <1>0 DEF PingParts
<1> HIDE DEF ss, tt
<1>7. d \in Seq(Seq({0, 1}))
  <2>1. PICK p \in Seq({0, 1}) : p = f.payload BY <1>0, SizeType
  <2>2. <<p>> \in Seq(Seq({0, 1})) /\ <<>> \in Seq(Seq({0, 1})) OBVIOUS
  <2> QED BY <2>1, <2>2
<1>8. tt[i] = d /\ ss[i] = <<>>
  <2>1. ~(0 >= Size(f)) /\ (o >= Size(f) <=> o = Size(f)) BY <1>0
  <2> QED BY <1>1, <1>2, <1>6, <2>1
<1>9. tt[i] = ss[i] \o d
  <2>1. <<>> \o d = d BY <1>7
  <2> QED BY <1>8, <2>1
<1>10. ASSUME NEW j \in 1..i - 1 PROVE tt[j] = ss[j]
  <2>1. j \in 1..Len(frames) BY <1>0
  <2> QED BY <1>1, <1>2, <1>6, <2>1
<1>11. ASSUME NEW j \in i + 1..Len(frames) PROVE ss[j] = <<>> /\ tt[j] = <<>>
  <2>1. j \in 1..Len(frames) BY <1>0
  <2>2. ~(OfFrame(frames, j, b) >= Size(frames[j])) BY <1>0, <1>1, <2>1
  <2>3. ~(OfFrame(frames, j, b + o) >= Size(frames[j])) BY <1>0, <1>2, <2>1
  <2> QED BY <1>6, <2>1, <2>2, <2>3
<1> HIDE DEF d
<1>12. FlattenSeq(tt) = FlattenSeq(ss) \o d
  <2>1. i \in 1..Len(ss) /\ Len(ss) = Len(tt) BY <1>4, <1>5
  <2>2. \A j \in i + 1..Len(ss) : ss[j] = <<>> /\ tt[j] = <<>> BY <1>4, <1>11
  <2>3. \A j \in 1..i - 1 : tt[j] = ss[j] BY <1>10
  <2> QED BY <1>4, <1>5, <1>7, <1>9, <2>1, <2>2, <2>3, FlatGrow, Zenon
<1>13. FlattenSeq(ss) \in Seq(Seq({0, 1}))
  <2>1. Flat(ss, Len(ss)) = FlattenSeq(ss) BY <1>4, FlatBegin
  <2>2. Len(ss) \in 0..Len(ss) BY <1>0, <1>4
  <2> QED BY <1>4, <2>1, <2>2, FlatType
<1> QED BY <1>4, <1>5, <1>12, <1>13 DEF b, d

LEMMA Pieces ==
  ASSUME NEW S, NEW p \in Seq(S), NEW k \in 0..Len(p), NEW m \in 0..k
  PROVE  /\ SubSeq(p, 1, m) \in Seq(S) /\ SubSeq(p, m + 1, k) \in Seq(S)
         /\ Len(SubSeq(p, 1, m)) = m /\ Len(SubSeq(p, m + 1, k)) = k - m
         /\ \A j \in 1..m : SubSeq(p, 1, m)[j] = p[j]
         /\ \A j \in 1..k - m : SubSeq(p, m + 1, k)[j] = p[m + j]
         /\ SubSeq(p, 1, k) = SubSeq(p, 1, m) \o SubSeq(p, m + 1, k)
<1>0. m \in Nat /\ k \in Nat /\ Len(p) \in Nat /\ m <= k /\ k <= Len(p) OBVIOUS
<1>1. \A j \in 1..k : p[j] \in S OBVIOUS
<1>2. \A i \in 1..k + 1 : \A n \in 0..k :
         /\ SubSeq(p, i, n) = [j \in 1..(1 + n - i) |-> p[i + j - 1]]
  BY <1>0
<1>3. PICK x : x = SubSeq(p, 1, m) OBVIOUS
<1>4. x = [j \in 1..m |-> p[j]]
  <2>1. x = [j \in 1..(1 + m - 1) |-> p[1 + j - 1]] BY <1>0, <1>2, <1>3
  <2>2. 1 + m - 1 = m /\ \A j \in 1..m : 1 + j - 1 = j BY <1>0
  <2> QED BY <2>1, <2>2
<1>5. x \in Seq(S) /\ Len(x) = m /\ \A j \in 1..m : x[j] = p[j]
  <2>1. \A j \in 1..m : p[j] \in S BY <1>0, <1>1
  <2>2. x \in [1..m -> S] BY <1>4, <2>1
  <2> QED BY <1>0, <1>4, <2>2
<1>6. PICK y : y = SubSeq(p, m + 1, k) OBVIOUS
<1>7. y = [j \in 1..k - m |-> p[m + j]]
  <2>0. m + 1 \in 1..k + 1 /\ k \in 0..k BY <1>0
  <2>1. y = [j \in 1..(1 + k - (m + 1)) |-> p[(m + 1) + j - 1]] BY <1>2, <1>6, <2>0
  <2>2. 1 + k - (m + 1) = k - m /\ \A j \in 1..k - m : (m + 1) + j - 1 = m + j BY <1>0
  <2> QED BY <2>1, <2>2
<1>8. y \in Seq(S) /\ Len(y) = k - m /\ \A j \in 1..k - m : y[j] = p[m + j]
  <2>1. \A j \in 1..k - m : p[m + j] \in S
    <3>1. \A j \in 1..k - m : m + j \in 1..k BY <1>0
    <3> QED BY <1>1, <3>1
  <2>2. y \in [1..k - m -> S] BY <1>7, <2>1
  <2>3. k - m \in Nat BY <1>0
  <2> QED BY <1>7, <2>2, <2>3
<1>9. PICK z : z = SubSeq(p, 1, k) OBVIOUS
<1>10. z = [j \in 1..k |-> p[j]]
  <2>1. z = [j \in 1..(1 + k - 1) |-> p[1 + j - 1]] BY <1>0, <1>2, <1>9
  <2>2. 1 + k - 1 = k /\ \A j \in 1..k : 1 + j - 1 = j BY <1>0
  <2> QED BY <2>1, <2>2
<1>11. z = x \o y
  <2>1. PICK w : w = x \o y /\ Joined(S, x, y, w) BY <1>5, <1>8, Joins, Zenon
  <2>2. w \in Seq(S) /\ Len(w) = k BY <1>0, <1>5, <1>8, <2>1 DEF Joined
  <2>3. \A j \in 1..k : w[j] = p[j]
    <3>1. ASSUME NEW j \in 1..k, j <= m PROVE w[j] = p[j]
      <4>1. j \in 1..m BY <1>0, <3>1
      <4> QED BY <1>5, <2>1, <4>1 DEF Joined
    <3>2. ASSUME NEW j \in 1..k, j > m PROVE w[j] = p[j]
      <4>1. j - m \in 1..k - m /\ m + (j - m) = j BY <1>0, <3>2
      <4>2. w[m + (j - m)] = y[j - m] BY <1>5, <1>8, <2>1, <4>1 DEF Joined
      <4> QED BY <1>8, <4>1, <4>2
    <3>3. \A j \in 1..k : j <= m \/ j > m BY <1>0
    <3> QED BY <3>1, <3>2, <3>3
  <2>4. w = [j \in 1..k |-> w[j]] BY <1>0, <2>2
  <2> QED BY <1>10, <2>1, <2>3, <2>4
<1> QED BY <1>3, <1>5, <1>6, <1>8, <1>9, <1>11

LEMMA DataGrows ==
  ASSUME NEW frames \in Seq(GoodFrames), NEW i \in 1..Len(frames)
  PROVE  LET f == frames[i]
             b == Begin(frames, i)
             h == Len(Header(f))
         IN  /\ \A o \in 0..h : DataOf(frames, b + o) = DataOf(frames, b)
             /\ \A k \in 0..Len(f.payload) : \A m \in 0..k :
                  DataOf(frames, b + (h + k)) = DataOf(frames, b + (h + m)) \o
                    (IF f.op \in DataOps THEN SubSeq(f.payload, m + 1, k) ELSE <<>>)
<1> DEFINE f == frames[i]
           b == Begin(frames, i)
           D(n) == DataOf(frames, n)
           G(o) == IF f.op \in DataOps THEN Part(f, o) ELSE <<>>
<1>1. f \in GoodFrames OBVIOUS
<1>2. PICK h \in Nat : h = Len(Header(f)) BY <1>1, SizeType
<1>3. PICK p \in Seq({0, 1}) : p = f.payload BY <1>1, SizeType
<1>4. Size(f) = h + Len(p) /\ Len(p) \in Nat BY <1>1, <1>2, <1>3, SizeType
<1>5. \A o \in 0..Size(f) : D(b + o) = D(b) \o G(o) BY DataAt
<1>6. D(b) \in Seq({0, 1})
  <2>1. 0 \in 0..Size(f) BY <1>4
  <2> QED BY <2>1, DataAt
<1>7. \A o \in 0..h : Part(f, o) = <<>>
  <2>1. \A o \in 0..h : o \in Int /\ o <= Len(Header(f)) BY <1>2
  <2> QED BY <1>1, <2>1, PartType
<1>8. \A k \in 0..Len(p) : Part(f, h + k) = SubSeq(p, 1, k)
  <2>1. \A k \in 0..Len(p) : h + k \in Int /\ h + k >= h /\ h + k <= Size(f) /\ (h + k) - h = k
    BY <1>4
  <2>2. \A n \in Int : n >= h /\ n <= Size(f) => Part(f, n) = SubSeq(p, 1, n - h)
    BY <1>1, <1>2, <1>3, PartType
  <2>3. ASSUME NEW k \in 0..Len(p) PROVE Part(f, h + k) = SubSeq(p, 1, k)
    <3>1. PICK n \in Int : n = h + k BY <2>1
    <3>2. n >= h /\ n <= Size(f) /\ n - h = k BY <2>1, <3>1
    <3> QED BY <2>2, <3>1, <3>2
  <2> QED BY <2>3
<1>9. PICK a \in Seq({0, 1}) : a = D(b) BY <1>6
<1> HIDE DEF D, b
<1>10. ASSUME NEW o \in 0..h PROVE D(b + o) = D(b)
  <2>1. o \in 0..Size(f) BY <1>2, <1>4
  <2>2. G(o) = <<>> BY <1>7
  <2>3. a \o <<>> = a OBVIOUS
  <2> HIDE DEF G
  <2> QED BY <1>5, <1>9, <2>1, <2>2, <2>3
<1>11. ASSUME NEW k \in 0..Len(p), NEW m \in 0..k
       PROVE  D(b + (h + k)) = D(b + (h + m)) \o
                (IF f.op \in DataOps THEN SubSeq(p, m + 1, k) ELSE <<>>)
  <2>1. /\ h + k \in 0..Size(f) /\ h + m \in 0..Size(f) /\ m \in 0..Len(p)
    BY <1>2, <1>4
  <2>2. D(b + (h + k)) = a \o G(h + k) /\ D(b + (h + m)) = a \o G(h + m)
    <3> HIDE DEF G
    <3> QED BY <1>5, <1>9, <2>1
  <2>3. CASE f.op \in DataOps
    <3>1. G(h + k) = SubSeq(p, 1, k) /\ G(h + m) = SubSeq(p, 1, m) BY <1>8, <2>1, <2>3
    <3>2. PICK x \in Seq({0, 1}) : x = SubSeq(p, 1, m) BY <2>1, Pieces
    <3>3. PICK y \in Seq({0, 1}) : y = SubSeq(p, m + 1, k) BY <2>1, Pieces
    <3>4. SubSeq(p, 1, k) = x \o y
      <4>1. SubSeq(p, 1, k) = SubSeq(p, 1, m) \o SubSeq(p, m + 1, k) BY Pieces, SMT
      <4> QED BY <3>2, <3>3, <4>1
    <3>5. (a \o x) \o y = a \o (x \o y)
      <4>1. Regroups(a, x, y) BY Associative, Zenon
      <4> QED BY <4>1 DEF Regroups
    <3> HIDE DEF G
    <3> QED BY <2>2, <2>3, <3>1, <3>2, <3>3, <3>4, <3>5
  <2>4. CASE f.op \notin DataOps
    <3>1. G(h + k) = <<>> /\ G(h + m) = <<>> BY <2>4
    <3>2. a \o <<>> = a OBVIOUS
    <3> HIDE DEF G
    <3> QED BY <2>2, <2>4, <3>1, <3>2
  <2> QED BY <2>3, <2>4
<1> QED BY <1>2, <1>3, <1>10, <1>11 DEF D, b

LEMMA PingsGrow ==
  ASSUME NEW frames \in Seq(GoodFrames), NEW i \in 1..Len(frames)
  PROVE  LET f == frames[i]
             b == Begin(frames, i)
         IN  /\ \A o \in 0..Size(f) : f.op # OPCODE_PING \/ o < Size(f) =>
                  PingsOf(frames, b + o) = PingsOf(frames, b)
             /\ f.op = OPCODE_PING =>
                  PingsOf(frames, b + Size(f)) = Append(PingsOf(frames, b), f.payload)
<1> DEFINE f == frames[i]
           b == Begin(frames, i)
           D(n) == PingsOf(frames, n)
           G(o) == IF f.op = OPCODE_PING /\ o = Size(f) THEN <<f.payload>> ELSE <<>>
<1>1. f \in GoodFrames OBVIOUS
<1>2. Size(f) \in Nat BY <1>1, SizeType
<1>3. PICK p \in Seq({0, 1}) : p = f.payload BY <1>1, SizeType
<1>4. \A o \in 0..Size(f) : D(b + o) = D(b) \o G(o) BY PingsAt
<1>5. 0 \in 0..Size(f) /\ Size(f) \in 0..Size(f) BY <1>2
<1>6. PICK a \in Seq(Seq({0, 1})) : a = D(b) BY <1>5, PingsAt
<1> HIDE DEF D, b
<1>7. a \o <<>> = a /\ a \o <<p>> = Append(a, p) OBVIOUS
<1>8. ASSUME NEW o \in 0..Size(f), f.op # OPCODE_PING \/ o < Size(f)
      PROVE  D(b + o) = D(b)
  <2>1. G(o) = <<>> BY <1>2, <1>8
  <2> HIDE DEF G
  <2> QED BY <1>4, <1>6, <1>7, <2>1
<1>9. ASSUME f.op = OPCODE_PING PROVE D(b + Size(f)) = Append(D(b), p)
  <2>1. G(Size(f)) = <<p>> BY <1>3, <1>9
  <2> HIDE DEF G
  <2> QED BY <1>4, <1>5, <1>6, <1>7, <2>1
<1> QED BY <1>3, <1>8, <1>9 DEF D, b

LEMMA EmptyLast ==
  ASSUME NEW S, NEW x \in Seq(Seq(S)), NEW y \in Seq(Seq(S)),
         Len(y) = Len(x) + 1, y[Len(x) + 1] = <<>>, \A j \in 1..Len(x) : y[j] = x[j]
  PROVE  FlattenSeq(y) = FlattenSeq(x)
<1>1. Len(x) \in Nat /\ Len(x) \in 0..Len(y) BY SMT
<1>2. SubSeq(y, 1, Len(x)) = x BY <1>1
<1>3. \A j \in Len(x) + 1..Len(y) : y[j] = <<>>
  <2>1. \A j \in Len(x) + 1..Len(y) : j = Len(x) + 1 BY <1>1
  <2> QED BY <2>1
<1>4. FlattenSeq(y) = Flat(y, Len(x)) BY <1>1, <1>3, FlatTail
<1> QED BY <1>2, <1>4 DEF Flat

(* A frame more of which nothing has arrived adds nothing.                 *)
LEMMA NothingOfLast ==
  ASSUME NEW frames \in Seq(GoodFrames), NEW f \in GoodFrames,
         NEW n \in 0..Len(Bytes(frames))
  PROVE  /\ DataOf(Append(frames, f), n) = DataOf(frames, n)
         /\ PingsOf(Append(frames, f), n) = PingsOf(frames, n)
<1> DEFINE a == Append(frames, f)
           k == Len(frames) + 1
<1>0. n \in Int /\ Len(Bytes(frames)) \in Nat
  <2>1. Bytes(frames) \in Seq(Byte) BY BytesWhole
  <2>2. Len(Bytes(frames)) \in Nat BY <2>1
  <2> QED BY <2>2
<1>1. a \in Seq(GoodFrames) /\ Len(a) = k /\ Len(frames) \in Nat /\ a[k] = f
      /\ \A j \in 1..Len(frames) : a[j] = frames[j]
  OBVIOUS
<1>2. \A j \in 1..k : Begin(a, j) = Begin(frames, j) /\ Begin(frames, j) \in Nat
  BY BytesAppend, BytesWhole
<1>3. Begin(frames, k) = Len(Bytes(frames)) BY BytesWhole
<1>4. \A j : OfFrame(a, j, n) = n - Begin(a, j) /\ OfFrame(frames, j, n) = n - Begin(frames, j)
  BY DEF OfFrame, Begin
<1> HIDE DEF a, k
<1>5. /\ \A j \in 1..k : OfFrame(a, j, n) = OfFrame(frames, j, n) /\ OfFrame(a, j, n) \in Int
      /\ OfFrame(a, k, n) <= 0
  <2>1. k \in 1..k BY <1>1 DEF k
  <2> QED BY <1>0, <1>2, <1>3, <1>4, <2>1
<1>6. \A j \in 1..Len(frames) : j \in 1..k BY <1>1 DEF k
<1>7. /\ DataParts(frames, n) \in Seq(Seq({0, 1}))
      /\ PingParts(frames, n) \in Seq(Seq(Seq({0, 1})))
      /\ Len(DataParts(frames, n)) = Len(frames) /\ Len(PingParts(frames, n)) = Len(frames)
      /\ DataOf(frames, n) = FlattenSeq(DataParts(frames, n))
      /\ PingsOf(frames, n) = FlattenSeq(PingParts(frames, n))
  <2>1. \A j \in 1..Len(frames) : OfFrame(frames, j, n) \in Int BY <1>5, <1>6
  <2> QED BY <1>0, <2>1, PartsType
<1>8. /\ DataParts(a, n) \in Seq(Seq({0, 1}))
      /\ PingParts(a, n) \in Seq(Seq(Seq({0, 1})))
      /\ Len(DataParts(a, n)) = k /\ Len(PingParts(a, n)) = k
      /\ DataOf(a, n) = FlattenSeq(DataParts(a, n))
      /\ PingsOf(a, n) = FlattenSeq(PingParts(a, n))
  <2>1. \A j \in 1..Len(a) : OfFrame(a, j, n) \in Int BY <1>1, <1>5
  <2> QED BY <1>0, <1>1, <2>1, PartsType
<1>9. DOMAIN a = 1..k /\ DOMAIN frames = 1..Len(frames) /\ k \in 1..k BY <1>1 DEF k
<1>10. /\ \A j \in 1..Len(frames) : DataParts(a, n)[j] = DataParts(frames, n)[j]
       /\ \A j \in 1..Len(frames) : PingParts(a, n)[j] = PingParts(frames, n)[j]
  BY <1>1, <1>5, <1>6, <1>9 DEF DataParts, PingParts
<1>11. DataParts(a, n)[k] = <<>> /\ PingParts(a, n)[k] = <<>>
  <2>1. Part(f, OfFrame(a, k, n)) = <<>>
    <3>1. Len(Header(f)) \in Nat BY SizeType
    <3>2. OfFrame(a, k, n) \in Int /\ OfFrame(a, k, n) <= Len(Header(f)) BY <1>5, <1>9, <3>1
    <3> QED BY <3>2, PartType
  <2>2. ~(OfFrame(a, k, n) >= Len(Encode(f)))
    <3>1. Len(Encode(f)) \in Nat /\ Len(Encode(f)) >= 2 BY SizeType, HeaderLength
    <3> QED BY <1>5, <1>9, <3>1
  <2> QED BY <1>1, <1>9, <2>1, <2>2 DEF DataParts, PingParts
<1>12. /\ Len(DataParts(a, n)) = Len(DataParts(frames, n)) + 1
       /\ Len(PingParts(a, n)) = Len(PingParts(frames, n)) + 1
       /\ DataParts(a, n)[Len(DataParts(frames, n)) + 1] = <<>>
       /\ PingParts(a, n)[Len(PingParts(frames, n)) + 1] = <<>>
       /\ \A j \in 1..Len(DataParts(frames, n)) : DataParts(a, n)[j] = DataParts(frames, n)[j]
       /\ \A j \in 1..Len(PingParts(frames, n)) : PingParts(a, n)[j] = PingParts(frames, n)[j]
  BY <1>7, <1>8, <1>10, <1>11 DEF k
<1>13. FlattenSeq(DataParts(a, n)) = FlattenSeq(DataParts(frames, n))
  BY <1>7, <1>8, <1>12, EmptyLast, Zenon
<1>14. FlattenSeq(PingParts(a, n)) = FlattenSeq(PingParts(frames, n))
  BY <1>7, <1>8, <1>12, EmptyLast, Zenon
<1> QED BY <1>7, <1>8, <1>13, <1>14 DEF a
-----------------------------------------------------------------------------
(* A byte of the header.                                                   *)
LEMMA Arithmetic ==
  ASSUME NEW n \in Nat
  PROVE  /\ (n \div 256) * 256 + (n % 256) = n
         /\ (n \div 65536) * 256 + ((n \div 256) % 256) = n \div 256
         /\ (n \div 16777216) * 256 + ((n \div 65536) % 256) = n \div 65536
         /\ n < 65536 => (n \div 256) % 256 = n \div 256
         /\ n < 4294967296 => (n \div 16777216) % 256 = n \div 16777216
         /\ n \div 256 \in Nat /\ n \div 65536 \in Nat /\ n \div 16777216 \in Nat
<1>1. (n \div 256) * 256 + (n % 256) = n BY SMT
<1>2. (n \div 65536) * 256 + ((n \div 256) % 256) = n \div 256 BY SMT
<1>3. (n \div 16777216) * 256 + ((n \div 65536) % 256) = n \div 65536 BY SMT
<1>4. n < 65536 => (n \div 256) % 256 = n \div 256 BY SMT
<1>5. n < 4294967296 => (n \div 16777216) % 256 = n \div 16777216 BY SMT
<1>6. n \div 256 \in Nat /\ n \div 65536 \in Nat /\ n \div 16777216 \in Nat BY SMT
<1> QED BY <1>1, <1>2, <1>3, <1>4, <1>5, <1>6, SMT

LEMMA LengthGrows ==
  ASSUME NEW f \in GoodFrames
  PROVE  LET n == Len(f.payload)
             l == LengthField(n)
         IN  /\ Len(l) > 0 => LengthSoFar(n, 0) = 0
             /\ \A j \in 1..Len(l) : LengthSoFar(n, j - 1) * 256 + l[j] =
                  IF j = Len(l) THEN n ELSE LengthSoFar(n, j)
<1>1. PICK n \in Nat : n = Len(f.payload) /\ n < INT_MAX
  <2>1. Len(f.payload) \in Nat BY SizeType
  <2>2. Len(f.payload) < INT_MAX BY DEF GoodFrames
  <2> QED BY <2>1, <2>2
<1>2. PICK l : l = LengthField(n) OBVIOUS
<1>3. LEN7 \in Nat /\ LEN16 \in Nat /\ LEN7 <= LEN16 /\ LEN16 < 65536 BY Thresholds, SMT
<1>4. n < 4294967296 BY <1>1, SMT DEF INT_MAX
<1>5. PICK a : a = n \div 256 OBVIOUS
<1>6. PICK b : b = n \div 65536 OBVIOUS
<1>7. PICK d : d = n \div 16777216 OBVIOUS
<1>8. CASE n < LEN7
  <2>1. Len(l) = 0 BY <1>2, <1>8, LengthFieldType
  <2> QED BY <1>1, <1>2, <2>1
<1>9. CASE n >= LEN7 /\ n <= LEN16
  <2>1. l = Two(n) /\ Len(l) = 2 BY <1>2, <1>9, LengthFieldType
  <2>2. l[1] = a % 256 /\ l[2] = n % 256 BY <1>5, <2>1, SMT DEF Two
  <2>3. n < 65536 BY <1>3, <1>9, SMT
  <2>4. a * 256 + (n % 256) = n /\ a % 256 = a /\ a \in Nat
    BY <1>5, <2>3, Arithmetic, SMT
  <2>5. LengthSoFar(n, 0) = 0 /\ LengthSoFar(n, 1) = a
    BY <1>5, <1>9, SMT DEF LengthSoFar
  <2>6. ASSUME NEW j \in 1..2
        PROVE  LengthSoFar(n, j - 1) * 256 + l[j] = IF j = 2 THEN n ELSE LengthSoFar(n, j)
    <3>1. CASE j = 1
      <4>1. LengthSoFar(n, 1 - 1) = 0 BY <2>5
      <4> QED BY <2>2, <2>4, <2>5, <3>1, <4>1
    <3>2. CASE j = 2
      <4>1. LengthSoFar(n, 2 - 1) = a BY <2>5
      <4> QED BY <2>2, <2>4, <2>5, <3>2, <4>1
    <3> QED BY <3>1, <3>2
  <2> QED BY <1>1, <1>2, <2>1, <2>5, <2>6
<1>10. CASE n > LEN16
  <2>1. l = <<0, 0, 0, 0>> \o Four(n) /\ Len(l) = 8 BY <1>2, <1>10, LengthFieldType
  <2>2. /\ l[1] = 0 /\ l[2] = 0 /\ l[3] = 0 /\ l[4] = 0
        /\ l[5] = d % 256 /\ l[6] = b % 256 /\ l[7] = a % 256 /\ l[8] = n % 256
    <3>1. PICK v : v = d % 256 OBVIOUS
    <3>2. PICK w : w = b % 256 OBVIOUS
    <3>3. PICK x : x = a % 256 OBVIOUS
    <3>4. PICK y : y = n % 256 OBVIOUS
    <3>5. Four(n) = <<v, w>> \o <<x, y>>
      BY <1>5, <1>6, <1>7, <3>1, <3>2, <3>3, <3>4, SMT DEF Four, Two
    <3>6. l = <<0, 0, 0, 0>> \o (<<v, w>> \o <<x, y>>) BY <2>1, <3>5, Zenon
    <3>7. PICK V : v \in V /\ w \in V /\ x \in V /\ y \in V /\ 0 \in V
      <4>1. v \in {v, w, x, y, 0} /\ w \in {v, w, x, y, 0} /\ x \in {v, w, x, y, 0}
            /\ y \in {v, w, x, y, 0} /\ 0 \in {v, w, x, y, 0}
        OBVIOUS
      <4> QED BY <4>1
    <3>8. PICK q : q = <<v, w>> OBVIOUS
    <3>81. q \in Seq(V) /\ Len(q) = 2 /\ q[1] = v /\ q[2] = w BY <3>7, <3>8
    <3>9. PICK r : r = <<x, y>> OBVIOUS
    <3>91. r \in Seq(V) /\ Len(r) = 2 /\ r[1] = x /\ r[2] = y BY <3>7, <3>9
    <3>10. PICK z : z = <<0, 0, 0, 0>> OBVIOUS
    <3>101. z \in Seq(V) /\ Len(z) = 4 /\ z[1] = 0 /\ z[2] = 0 /\ z[3] = 0 /\ z[4] = 0
      BY <3>7, <3>10
    <3>11. PICK t : t = q \o r /\ Joined(V, q, r, t) BY <3>81, <3>91, Joins, Zenon
    <3>111. t \in Seq(V) /\ Len(t) = 4 BY <3>81, <3>91, <3>11 DEF Joined
    <3>112. t[1] = v /\ t[2] = w BY <3>81, <3>91, <3>11 DEF Joined
    <3>113. t[2 + 1] = x /\ t[2 + 2] = y BY <3>81, <3>91, <3>11 DEF Joined
    <3>12. PICK u : u = z \o t /\ Joined(V, z, t, u) BY <3>101, <3>111, Joins, Zenon
    <3>13. u[1] = z[1] /\ u[2] = z[2] /\ u[3] = z[3] /\ u[4] = z[4] /\ u[4 + 1] = t[1]
           /\ u[4 + 2] = t[2] /\ u[4 + 3] = t[3] /\ u[4 + 4] = t[4]
      BY <3>101, <3>111, <3>12 DEF Joined
    <3>14. l = u BY <3>6, <3>8, <3>9, <3>10, <3>11, <3>12
    <3> QED BY <3>1, <3>2, <3>3, <3>4, <3>101, <3>112, <3>113, <3>13, <3>14
  <2>3. /\ a * 256 + (n % 256) = n /\ b * 256 + (a % 256) = a
        /\ d * 256 + (b % 256) = b /\ d % 256 = d
        /\ a \in Nat /\ b \in Nat /\ d \in Nat
    BY <1>4, <1>5, <1>6, <1>7, Arithmetic, SMT
  <2>4. ~(n <= LEN16) BY <1>3, <1>10, SMT
  <2>5. /\ \A k \in 0..4 : LengthSoFar(n, k) = 0
        /\ LengthSoFar(n, 5) = d /\ LengthSoFar(n, 6) = b /\ LengthSoFar(n, 7) = a
    <3>1. \A k : LengthSoFar(n, k) = IF k < 5 THEN 0 ELSE IF k = 5 THEN d ELSE IF k = 6 THEN b ELSE a
      BY <1>5, <1>6, <1>7, <2>4, SMT DEF LengthSoFar
    <3> QED BY <3>1
  <2>6. ASSUME NEW j \in 1..8
        PROVE  LengthSoFar(n, j - 1) * 256 + l[j] = IF j = 8 THEN n ELSE LengthSoFar(n, j)
    <3>1. CASE j \in 1..4
      <4>1. LengthSoFar(n, j - 1) = 0 /\ LengthSoFar(n, j) = 0 /\ l[j] = 0
        BY <2>2, <2>5, <3>1
      <4> QED BY <3>1, <4>1
    <3>2. CASE j = 5
      <4>1. LengthSoFar(n, 5 - 1) = 0 BY <2>5
      <4> QED BY <2>2, <2>3, <2>5, <3>2, <4>1
    <3>3. CASE j = 6
      <4>1. LengthSoFar(n, 6 - 1) = d BY <2>5
      <4> QED BY <2>2, <2>3, <2>5, <3>3, <4>1
    <3>4. CASE j = 7
      <4>1. LengthSoFar(n, 7 - 1) = b BY <2>5
      <4> QED BY <2>2, <2>3, <2>5, <3>4, <4>1
    <3>5. CASE j = 8
      <4>1. LengthSoFar(n, 8 - 1) = a BY <2>5
      <4> QED BY <2>2, <2>3, <2>5, <3>5, <4>1
    <3> QED BY <3>1, <3>2, <3>3, <3>4, <3>5
  <2> QED BY <1>1, <1>2, <2>1, <2>5, <2>6
<1> QED BY <1>1, <1>3, <1>8, <1>9, <1>10

(* What it changes of the parser.                                          *)
Registers(t, status, flags, len8, len, mask, ctr, cont) ==
  /\ t.wsStatus = status /\ t.flags = flags /\ t.len8 = len8 /\ t.len = len
  /\ t.mask = mask /\ t.maskCtr = ctr /\ t.frameCont = cont

LEMMA HeaderByteDoes ==
  ASSUME NEW s \in SocketType, NEW b \in Byte
  PROVE  LET t == HeaderByte(s, b)
             next1 == s.wsStatus + 1
             len1 == s.len * 256 + b
             done(len8) == IF len8 >= IS_MASKED THEN ST_MASK1 ELSE ST_PAYLOAD
         IN  /\ s.wsStatus = ST_FLAGS =>
                  Registers(t, ST_LEN0, b, s.len8, s.len, s.mask, 0, FALSE)
             /\ s.wsStatus = ST_LEN0 /\ b % 128 >= LEN7 =>
                  Registers(t, ST_LEN1, s.flags, b, 0, s.mask, s.maskCtr, s.frameCont)
             /\ s.wsStatus = ST_LEN0 /\ ~(b % 128 >= LEN7) =>
                  Registers(t, done(b), s.flags, b, b % 128, s.mask, s.maskCtr, s.frameCont)
             /\ s.wsStatus \in ST_LEN1..ST_LEN8 =>
                  IF s.wsStatus = ST_LEN8 \/ (s.wsStatus = ST_LEN2 /\ s.len8 % 128 = LEN7)
                  THEN Registers(t, done(s.len8), s.flags, s.len8, len1, s.mask, s.maskCtr,
                                 s.frameCont)
                  ELSE Registers(t, next1, s.flags, s.len8, len1, s.mask, s.maskCtr, s.frameCont)
             /\ s.wsStatus \in ST_MASK1..ST_MASK4 =>
                  Registers(t, next1, s.flags, s.len8, s.len,
                            [s.mask EXCEPT ![s.wsStatus - 9] = b], s.maskCtr, s.frameCont)
<1> USE DEF ST_FLAGS, ST_LEN0, ST_LEN1, ST_LEN8, ST_MASK1, ST_MASK4, ST_PAYLOAD
<1>0. s.wsStatus \in 0..14 BY Zenon DEF SocketType
<1>1. CASE s.wsStatus = ST_FLAGS
  <2>1. HeaderByte(s, b) = [s EXCEPT !.maskCtr = 0, !.frameCont = FALSE, !.flags = b,
                            !.wsStatus = ST_LEN0]
    BY <1>1 DEF HeaderByte
  <2> QED BY <1>1, <2>1 DEF Registers, SocketType
<1>2. CASE s.wsStatus = ST_LEN0
  <2> DEFINE u == [s EXCEPT !.len8 = b, !.len = b % 128]
  <2>1. HeaderByte(s, b) =
          IF b % 128 >= LEN7 THEN [s EXCEPT !.len8 = b, !.len = 0, !.wsStatus = ST_LEN1]
          ELSE LengthDone(u)
    BY <1>2 DEF HeaderByte
  <2>2. LengthDone(u) =
          [s EXCEPT !.len8 = b, !.len = b % 128,
                    !.wsStatus = IF b >= IS_MASKED THEN ST_MASK1 ELSE ST_PAYLOAD]
    BY DEF LengthDone, SocketType
  <2> HIDE DEF u
  <2>3. CASE b % 128 >= LEN7 BY <1>2, <2>1, <2>3 DEF Registers, SocketType
  <2>4. CASE ~(b % 128 >= LEN7) BY <1>2, <2>1, <2>2, <2>4 DEF Registers, SocketType
  <2> QED BY <2>3, <2>4
<1>3. CASE s.wsStatus \in ST_LEN1..ST_LEN8
  <2> DEFINE l == s.len * 256 + b
             t == [s EXCEPT !.len = l]
             end == s.wsStatus = ST_LEN8 \/ (s.wsStatus = ST_LEN2 /\ s.len8 % 128 = LEN7)
  <2>1. HeaderByte(s, b) = IF end THEN LengthDone(t) ELSE [t EXCEPT !.wsStatus = t.wsStatus + 1]
    BY <1>3 DEF HeaderByte
  <2> HIDE DEF l, end
  <2>2. LengthDone(t) =
          [s EXCEPT !.len = l,
                    !.wsStatus = IF s.len8 >= IS_MASKED THEN ST_MASK1 ELSE ST_PAYLOAD]
    BY DEF LengthDone, SocketType
  <2>3. [t EXCEPT !.wsStatus = t.wsStatus + 1] = [s EXCEPT !.len = l, !.wsStatus = s.wsStatus + 1]
    BY DEF SocketType
  <2> HIDE DEF t
  <2>4. ~(s.wsStatus = ST_FLAGS) /\ ~(s.wsStatus = ST_LEN0) /\ ~(s.wsStatus \in ST_MASK1..ST_MASK4)
    BY <1>3
  <2>5. end => Registers(HeaderByte(s, b), IF s.len8 >= IS_MASKED THEN ST_MASK1 ELSE ST_PAYLOAD,
                         s.flags, s.len8, l, s.mask, s.maskCtr, s.frameCont)
    BY <2>1, <2>2 DEF Registers, SocketType
  <2>6. ~end => Registers(HeaderByte(s, b), s.wsStatus + 1,
                          s.flags, s.len8, l, s.mask, s.maskCtr, s.frameCont)
    <3>1. PICK w : w = s.wsStatus + 1 OBVIOUS
    <3>2. ~end => HeaderByte(s, b) = [s EXCEPT !.len = l, !.wsStatus = w] BY <2>1, <2>3, <3>1
    <3>3. Registers([s EXCEPT !.len = l, !.wsStatus = w], w, s.flags, s.len8, l, s.mask,
                    s.maskCtr, s.frameCont)
      BY DEF Registers, SocketType
    <3> QED BY <3>1, <3>2, <3>3
  <2> QED BY <2>4, <2>5, <2>6 DEF l, end
<1>4. CASE s.wsStatus \in ST_MASK1..ST_MASK4
  <2>1. s.wsStatus - ST_MASK1 + 1 = s.wsStatus - 9 BY <1>4
  <2>2. HeaderByte(s, b) =
          [s EXCEPT !.mask = [s.mask EXCEPT ![s.wsStatus - ST_MASK1 + 1] = b],
                    !.wsStatus = s.wsStatus + 1]
    BY <1>4 DEF HeaderByte
  <2>3. PICK m : m = [s.mask EXCEPT ![s.wsStatus - ST_MASK1 + 1] = b] OBVIOUS
  <2>4. Registers(HeaderByte(s, b), s.wsStatus + 1, s.flags, s.len8, s.len, m, s.maskCtr,
                  s.frameCont)
    BY <2>2, <2>3 DEF Registers, SocketType
  <2>5. ~(s.wsStatus = ST_FLAGS) /\ ~(s.wsStatus = ST_LEN0) /\ ~(s.wsStatus \in ST_LEN1..ST_LEN8)
    BY <1>4
  <2> QED BY <2>1, <2>3, <2>4, <2>5
<1>5. CASE s.wsStatus = ST_PAYLOAD BY <1>5
<1> QED BY <1>0, <1>1, <1>2, <1>3, <1>4, <1>5

(* The second byte of a header.                                            *)
LEMMA SecondByte ==
  ASSUME NEW f \in GoodFrames
  PROVE  LET n == Len(f.payload)
             k == Len(LengthField(n))
             y == Header(f)[2]
         IN  /\ y \in Nat /\ (y >= IS_MASKED <=> f.masked)
             /\ k = 0 <=> ~(y % 128 >= LEN7)
             /\ k = 0 => y % 128 = n
             /\ k = 2 => y % 128 = LEN7
             /\ k = 8 => y % 128 # LEN7
<1>1. PICK n \in Nat : n = Len(f.payload) BY SizeType
<1>2. PICK c : c = LengthCode(n) OBVIOUS
<1>3. LEN7 \in 3..126 /\ LEN16 \in Nat /\ LEN7 <= LEN16 BY Thresholds, SMT
<1>4. PICK k : k = Len(LengthField(n)) OBVIOUS
<1>5. /\ n < LEN7 => k = 0
      /\ n >= LEN7 /\ n <= LEN16 => k = 2
      /\ n > LEN16 => k = 8
  BY <1>1, <1>4, LengthFieldType
<1>51. c = IF n < LEN7 THEN n ELSE IF n <= LEN16 THEN LEN7 ELSE LEN7 + 1
  BY <1>2 DEF LengthCode
<1>52. LEN7 \in Int /\ LEN16 \in Int /\ n \in Int /\ n >= 0 /\ LEN7 <= 126 /\ LEN7 >= 3
  BY <1>1, <1>3
<1>6. /\ c \in 0..127
      /\ \/ k = 0 /\ c < LEN7 /\ c = n
         \/ k = 2 /\ c = LEN7
         \/ k = 8 /\ c = LEN7 + 1
  <2>1. CASE n < LEN7 BY <1>5, <1>51, <1>52, <2>1
  <2>2. CASE n >= LEN7 /\ n <= LEN16 BY <1>5, <1>51, <1>52, <2>2
  <2>3. CASE n > LEN16 BY <1>5, <1>51, <1>52, <2>3
  <2> QED BY <1>52, <2>1, <2>2, <2>3
<1>7. Header(f)[2] = (IF f.masked THEN 128 ELSE 0) + c
  BY <1>1, <1>2, HeaderParts DEF IS_MASKED
<1>8. PICK y : y = Header(f)[2] OBVIOUS
<1>9. y % 128 = c /\ y \in Nat /\ (y >= 128 <=> f.masked)
  <2>1. CASE f.masked BY <1>6, <1>7, <1>8, <2>1
  <2>2. CASE ~f.masked BY <1>6, <1>7, <1>8, <2>2
  <2> QED BY <2>1, <2>2
<1>10. /\ k = 0 <=> ~(y % 128 >= LEN7)
       /\ k = 0 => y % 128 = n
       /\ k = 2 => y % 128 = LEN7
       /\ k = 8 => y % 128 # LEN7
  BY <1>3, <1>6, <1>9
<1>11. y \in Nat /\ (y >= IS_MASKED <=> f.masked) BY <1>9 DEF IS_MASKED
<1> QED BY <1>1, <1>4, <1>8, <1>10, <1>11, Zenon

LEMMA HeaderStep ==
  ASSUME NEW s \in SocketType, NEW f \in GoodFrames, NEW o \in 0..Len(Header(f)) - 1,
         HeaderAt(s, f, o)
  PROVE  LET t == HeaderByte(s, Header(f)[o + 1]) IN
         /\ s.wsStatus # ST_PAYLOAD /\ HeaderAt(t, f, o + 1) /\ ~t.frameCont
         /\ t.wsStatus = ST_PAYLOAD <=> o + 1 = Len(Header(f))
<1> USE DEF ST_FLAGS, ST_LEN0, ST_LEN1, ST_LEN2, ST_LEN8, ST_MASK1, ST_MASK4, ST_PAYLOAD
<1>1. PICK n \in Nat : n = Len(f.payload) BY SizeType
<1>2. PICK l : l = LengthField(n) OBVIOUS
<1>3. PICK k \in {0, 2, 8} : k = Len(l) /\ Head2(f) = 2 + k BY <1>1, <1>2, HeaderParts
<1>4. PICK h \in Nat : h = Len(Header(f)) BY SizeType
<1>5. h = 2 + k + (IF f.masked THEN 4 ELSE 0) BY <1>3, <1>4, HeaderParts
<1>6. PICK x : x = Flags(f.op, f.fin) /\ x = Header(f)[1] BY HeaderParts
<1>7. PICK y \in Nat : /\ y = Header(f)[2] /\ (y >= IS_MASKED <=> f.masked)
                       /\ k = 0 <=> ~(y % 128 >= LEN7)
                       /\ k = 0 => y % 128 = n
                       /\ k = 2 => y % 128 = LEN7
                       /\ k = 8 => y % 128 # LEN7
  BY <1>1, <1>2, <1>3, SecondByte
<1>8. PICK b \in Byte : b = Header(f)[o + 1]
  <2>1. Header(f) \in Seq(Byte) BY HeaderType DEF ByteSeq
  <2>2. o + 1 \in 1..Len(Header(f)) BY <1>4
  <2> QED BY <2>1, <2>2
<1>9. PICK t : t = HeaderByte(s, b) OBVIOUS
<1>10. /\ s.wsStatus = IF o = 0 THEN 0 ELSE IF o = 1 THEN 1 ELSE IF o < 2 + k THEN 2 + (o - 2)
                       ELSE IF o < h THEN 10 + (o - (2 + k)) ELSE 14
       /\ o >= 1 => s.flags = x
       /\ o >= 2 => s.len8 = y
       /\ o \in 2..1 + k => s.len = LengthSoFar(n, o - 2)
       /\ o \in 2 + k..h => s.len = n
       /\ \A j \in 1..4 : o >= 2 + k + j => s.mask[j] = Mask[j]
       /\ o \in 1..h => s.maskCtr = 0
       /\ o \in 1..h - 1 => ~s.frameCont
  <2>1. Head2(f) - 1 = 1 + k /\ Head2(f) = 2 + k BY <1>3
  <2> QED BY <1>1, <1>4, <1>6, <1>7, <2>1, SMT DEF HeaderAt, StatusAt
<1>11. /\ o \in Nat /\ o < h /\ k \in Nat /\ k <= 8 /\ (k = 0 \/ k = 2 \/ k = 8)
       /\ h = 2 + k \/ h = 6 + k
  <2>1. o \in Nat /\ o < h BY <1>4
  <2>2. k \in Nat /\ k <= 8 /\ (k = 0 \/ k = 2 \/ k = 8)
    <3>1. k = 0 \/ k = 2 \/ k = 8 BY Zenon
    <3> QED BY <3>1
  <2>3. PICK m \in {0, 4} : m = (IF f.masked THEN 4 ELSE 0) OBVIOUS
  <2>4. h = 2 + k + m BY <1>5, <2>3
  <2> QED BY <1>4, <2>1, <2>2, <2>3, <2>4
<1>12. s.wsStatus # 14
  <2>1. s.wsStatus = IF o = 0 THEN 0 ELSE IF o = 1 THEN 1 ELSE IF o < 2 + k THEN 2 + (o - 2)
                     ELSE IF o < h THEN 10 + (o - (2 + k)) ELSE 14
    BY <1>10
  <2> QED BY <1>11, <2>1
<1> DEFINE At(p) ==
      /\ t.wsStatus = IF p = 0 THEN 0 ELSE IF p = 1 THEN 1 ELSE IF p < 2 + k THEN 2 + (p - 2)
                      ELSE IF p < h THEN 10 + (p - (2 + k)) ELSE 14
      /\ p >= 1 => t.flags = x
      /\ p >= 2 => t.len8 = y
      /\ p \in 2..1 + k => t.len = LengthSoFar(n, p - 2)
      /\ p \in 2 + k..h => t.len = n
      /\ \A j \in 1..4 : p >= 2 + k + j => t.mask[j] = Mask[j]
      /\ p \in 1..h => t.maskCtr = 0
      /\ ~t.frameCont
<1>13. At(o + 1)
  <2> DEFINE done(z) == IF z >= IS_MASKED THEN 10 ELSE 14
  <2>0. done(y) = IF 2 + k < h THEN 10 ELSE 14 BY <1>3, <1>5, <1>7
  <2> HIDE DEF done
  <2>1. CASE o = 0
    <3>1. Registers(t, 1, b, s.len8, s.len, s.mask, 0, FALSE)
      BY <1>9, <1>10, <2>1, HeaderByteDoes
    <3>2. b = x BY <1>6, <1>8, <2>1
    <3> QED BY <1>3, <1>5, <2>1, <3>1, <3>2 DEF Registers
  <2>2. CASE o = 1 /\ k # 0
    <3>1. b = y /\ b % 128 >= LEN7 BY <1>7, <1>8, <2>2
    <3>2. s.wsStatus = 1 BY <1>10, <2>2
    <3>3. Registers(t, 2, s.flags, b, 0, s.mask, s.maskCtr, s.frameCont)
      BY <1>9, <3>1, <3>2, HeaderByteDoes
    <3>4. LengthSoFar(n, 0) = 0 BY <1>1, <1>2, <1>3, <2>2, LengthGrows
    <3> QED BY <1>3, <1>5, <1>10, <1>11, <2>2, <3>1, <3>3, <3>4 DEF Registers
  <2>3. CASE o = 1 /\ k = 0
    <3>1. b = y /\ ~(b % 128 >= LEN7) /\ b % 128 = n BY <1>7, <1>8, <2>3
    <3>2. s.wsStatus = 1 BY <1>10, <2>3
    <3>3. Registers(t, done(b), s.flags, b, b % 128, s.mask, s.maskCtr, s.frameCont)
      BY <1>9, <3>1, <3>2, HeaderByteDoes DEF done
    <3> QED BY <1>3, <1>5, <1>10, <1>11, <2>0, <2>3, <3>1, <3>3 DEF Registers
  <2>4. CASE o \in 2..1 + k
    <3>1. PICK j \in 1..k : j = o - 1 BY <1>3, <2>4
    <3>2. b = l[j]
      <4>1. Header(f)[2 + j] = l[j] BY <1>1, <1>2, <1>3, <3>1, HeaderParts
      <4> QED BY <1>3, <1>8, <3>1, <4>1
    <3>3. s.wsStatus = j + 1 /\ s.len8 = y /\ s.len = LengthSoFar(n, j - 1) /\ s.flags = x
          /\ s.maskCtr = 0 /\ ~s.frameCont
      BY <1>3, <1>5, <1>10, <1>11, <2>4, <3>1
    <3>4. s.len * 256 + b = IF j = k THEN n ELSE LengthSoFar(n, j)
      BY <1>1, <1>2, <1>3, <3>1, <3>2, <3>3, LengthGrows
    <3>5. (s.wsStatus = 9 \/ (s.wsStatus = 3 /\ s.len8 % 128 = LEN7)) <=> j = k
      BY <1>7, <1>11, <3>1, <3>3
    <3>6. s.wsStatus \in 2..9 BY <1>11, <3>1, <3>3
    <3>7. CASE j = k
      <4>1. Registers(t, done(y), s.flags, y, n, s.mask, s.maskCtr, s.frameCont)
        <5>1. s.len * 256 + b = n BY <3>4, <3>7
        <5>2. LET len1 == s.len * 256 + b IN
              Registers(t, done(s.len8), s.flags, s.len8, len1, s.mask, s.maskCtr, s.frameCont)
          BY <1>9, <3>5, <3>6, <3>7, HeaderByteDoes DEF done
        <5> QED BY <3>3, <5>1, <5>2
      <4>2. PICK p : p = o + 1 OBVIOUS
      <4>3. p = 2 + k /\ p <= h /\ k > 0 BY <1>11, <3>1, <3>7, <4>2
      <4>4. t.wsStatus = IF p = 0 THEN 0 ELSE IF p = 1 THEN 1 ELSE IF p < 2 + k THEN 2 + (p - 2)
                         ELSE IF p < h THEN 10 + (p - (2 + k)) ELSE 14
        BY <1>11, <2>0, <4>1, <4>3 DEF Registers
      <4>5. ~(p \in 2..1 + k) /\ \A i \in 1..4 : ~(p >= 2 + k + i) BY <1>11, <4>3
      <4>6. t.flags = x /\ t.len8 = y /\ t.len = n /\ t.maskCtr = 0 /\ ~t.frameCont
        BY <3>3, <4>1 DEF Registers
      <4>7. At(p) BY <4>4, <4>5, <4>6
      <4> QED BY <4>2, <4>7
    <3>8. CASE j # k
      <4>1. PICK u : u = LengthSoFar(n, j) OBVIOUS
      <4>2. Registers(t, j + 2, s.flags, y, u, s.mask, s.maskCtr, s.frameCont)
        <5>1. s.wsStatus + 1 = j + 2 BY <3>1, <3>3
        <5> QED BY <1>9, <3>3, <3>4, <3>5, <3>6, <3>8, <4>1, <5>1, HeaderByteDoes
      <4>3. (o + 1) - 2 = j /\ o + 1 < 2 + k BY <1>3, <3>1, <3>8
      <4> QED BY <1>3, <1>5, <1>10, <1>11, <2>4, <3>1, <3>3, <4>1, <4>2, <4>3 DEF Registers
    <3> QED BY <3>7, <3>8
  <2>5. CASE o >= 2 + k
    <3>1. f.masked /\ h = 6 + k /\ o \in 2 + k..5 + k BY <1>3, <1>5, <1>11, <2>5
    <3>2. PICK j \in 1..4 : j = o - (1 + k) BY <1>3, <3>1
    <3>3. b = Mask[j]
      <4>1. Header(f)[(2 + k) + j] = Mask[j] BY <1>3, <3>1, <3>2, HeaderParts
      <4>2. (2 + k) + j = o + 1 BY <1>3, <1>11, <3>2
      <4> QED BY <1>8, <4>1, <4>2
    <3>4. /\ s.wsStatus = 9 + j /\ s.len8 = y /\ s.len = n /\ s.flags = x
          /\ s.maskCtr = 0 /\ ~s.frameCont
      BY <1>3, <1>10, <1>11, <3>1, <3>2
    <3>5. PICK m : m = [s.mask EXCEPT ![j] = b] OBVIOUS
    <3>6. Registers(t, 10 + j, x, y, n, m, 0, s.frameCont)
      <4>1. s.wsStatus \in 10..13 /\ s.wsStatus - 9 = j /\ s.wsStatus + 1 = 10 + j
        BY <3>2, <3>4
      <4> QED BY <1>9, <3>4, <3>5, <4>1, HeaderByteDoes
    <3>7. \A i \in 1..4 : i <= j => m[i] = Mask[i]
      <4>1. s.mask \in [1..4 -> Byte] BY DEF SocketType, Masks
      <4>2. m[j] = b /\ \A i \in 1..4 : i # j => m[i] = s.mask[i] BY <3>5, <4>1
      <4>3. \A i \in 1..4 : i < j => o >= 2 + k + i BY <1>3, <1>11, <3>2
      <4> QED BY <1>10, <3>3, <4>2, <4>3
    <3>8. \A i \in 1..4 : o + 1 >= 2 + k + i => i <= j BY <1>3, <1>11, <3>2
    <3>9. PICK p : p = o + 1 OBVIOUS
    <3>10. p = 2 + k + j /\ p <= h /\ h = 6 + k BY <1>11, <3>1, <3>2, <3>9
    <3>11. t.wsStatus = IF p = 0 THEN 0 ELSE IF p = 1 THEN 1 ELSE IF p < 2 + k THEN 2 + (p - 2)
                        ELSE IF p < h THEN 10 + (p - (2 + k)) ELSE 14
      BY <1>11, <3>2, <3>6, <3>10 DEF Registers
    <3>12. ~(p \in 2..1 + k) BY <1>11, <3>2, <3>10
    <3>13. \A i \in 1..4 : p >= 2 + k + i => t.mask[i] = Mask[i] BY <3>6, <3>7, <3>8, <3>9 DEF Registers
    <3>14. t.flags = x /\ t.len8 = y /\ t.len = n /\ t.maskCtr = 0 /\ ~t.frameCont
      BY <3>4, <3>6 DEF Registers
    <3>15. At(p) BY <3>11, <3>12, <3>13, <3>14
    <3> QED BY <3>9, <3>15
  <2> QED BY <1>3, <1>11, <2>1, <2>2, <2>3, <2>4, <2>5
<1>14. HeaderAt(t, f, o + 1)
  <2>1. Head2(f) - 1 = 1 + k /\ Head2(f) = 2 + k BY <1>3
  <2> QED BY <1>1, <1>4, <1>6, <1>7, <1>13, <2>1, SMT DEF HeaderAt, StatusAt
<1>15. t.wsStatus = 14 <=> o + 1 = h
  <2>1. PICK p : p = o + 1 OBVIOUS
  <2>2. t.wsStatus = IF p = 0 THEN 0 ELSE IF p = 1 THEN 1 ELSE IF p < 2 + k THEN 2 + (p - 2)
                     ELSE IF p < h THEN 10 + (p - (2 + k)) ELSE 14
    BY <1>13, <2>1
  <2> QED BY <1>11, <2>1, <2>2
<1> QED BY <1>4, <1>8, <1>9, <1>12, <1>13, <1>14, <1>15
-----------------------------------------------------------------------------
(* The browser: a frame begun with n bytes to come, of which it has p.     *)
LEMMA BytesAreNats == ByteSeq \subseteq Seq(Nat)
<1>1. \A A, B : A \subseteq B => Seq(A) \subseteq Seq(B) OBVIOUS
<1>2. Byte \subseteq Nat BY DEF Byte
<1> QED BY <1>1, <1>2 DEF ByteSeq

LEMMA TwoAre ==
  ASSUME NEW n \in Nat
  PROVE  /\ Two(n) \in ByteSeq /\ Len(Two(n)) = 2
         /\ n < 65536 => Two(n)[1] * 256 + Two(n)[2] = n
<1>1. PICK a : a = n \div 256 OBVIOUS
<1>2. PICK u : u = a % 256 OBVIOUS
<1>3. PICK v : v = n % 256 OBVIOUS
<1>4. Two(n) = <<u, v>> BY <1>1, <1>2, <1>3, SMT DEF Two
<1>5. Two(n)[1] = u /\ Two(n)[2] = v BY <1>4
<1>6. n < 65536 => a * 256 + v = n /\ u = a BY <1>1, <1>2, <1>3, Arithmetic, SMT
<1>7. n < 65536 => u * 256 + v = n BY <1>6
<1> QED BY <1>5, <1>7, LengthBytes, SMT

LEMMA FourAre ==
  ASSUME NEW n \in Nat, n <= INT_MAX
  PROVE  LET r == Four(n) IN
         /\ r \in ByteSeq /\ Len(r) = 4
         /\ r[1] * 16777216 + r[2] * 65536 + r[3] * 256 + r[4] = n
<1>1. PICK a \in Nat : a = n \div 256 BY SMT
<1>2. PICK b \in Nat : b = n \div 65536 BY SMT
<1>3. PICK d \in Nat : d = n \div 16777216 BY SMT
<1>4. PICK u \in Nat : u = a % 256 BY SMT
<1>5. PICK v \in Nat : v = b % 256 BY SMT
<1>6. PICK w \in Nat : w = d % 256 BY SMT
<1>7. PICK x \in Nat : x = n % 256 BY SMT
<1>8. PICK q : q = <<w, v>> OBVIOUS
<1>9. PICK r : r = <<u, x>> OBVIOUS
<1>10. Four(n) = q \o r
  BY <1>1, <1>2, <1>3, <1>4, <1>5, <1>6, <1>7, <1>8, <1>9, SMT DEF Four, Two
<1>11. q \in Seq(Nat) /\ Len(q) = 2 /\ q[1] = w /\ q[2] = v BY <1>8
<1>12. r \in Seq(Nat) /\ Len(r) = 2 /\ r[1] = u /\ r[2] = x BY <1>9
<1>13. PICK t : t = q \o r /\ Joined(Nat, q, r, t) BY <1>11, <1>12, Joins, Zenon
<1>14. t[1] = q[1] /\ t[2] = q[2] /\ t[2 + 1] = r[1] /\ t[2 + 2] = r[2]
  BY <1>11, <1>12, <1>13 DEF Joined
<1>15. t[1] = w /\ t[2] = v /\ t[3] = u /\ t[4] = x BY <1>11, <1>12, <1>14
<1>16. a * 256 + x = n /\ b * 256 + u = a /\ d * 256 + v = b /\ w = d
  BY <1>1, <1>2, <1>3, <1>4, <1>5, <1>6, <1>7, Arithmetic, SMT DEF INT_MAX
<1>17. w * 16777216 + v * 65536 + u * 256 + x = n BY <1>16, SMT
<1>18. Four(n) = t BY <1>10, <1>13
<1>19. Four(n) \in ByteSeq /\ Len(Four(n)) = 4 BY LengthBytes
<1> HIDE DEF Four
<1> QED BY <1>15, <1>17, <1>18, <1>19, SMT

FieldSays(b, n) ==
  \/ Len(b) = 2 /\ n < LEN7 /\ b[2] = n
  \/ Len(b) = 4 /\ b[2] = LEN7 /\ b[3] * 256 + b[4] = n
  \/ /\ Len(b) = 10 /\ b[2] = LEN7 + 1
     /\ b[7] * 16777216 + b[8] * 65536 + b[9] * 256 + b[10] = n

LEMMA HeadFacts ==
  ASSUME NEW fl \in Byte, NEW n \in Nat, n <= INT_MAX
  PROVE  LET b == HeadOf(fl, n) IN
         /\ b \in ByteSeq /\ b[1] = fl /\ FieldSays(b, n)
         /\ n < LEN7 => b = <<fl>> \o <<n>>
<1>0. HeadOf(fl, n) \in ByteSeq BY HeadOfType, Zenon
<1>1. LEN7 \in 3..126 /\ LEN16 \in Nat /\ LEN7 <= LEN16 /\ LEN16 < 65536 BY Thresholds, SMT
<1>2. PICK f : f = <<fl>> OBVIOUS
<1>3. f \in Seq(Nat) /\ Len(f) = 1 /\ f[1] = fl
  <2>1. fl \in Nat BY DEF Byte
  <2> QED BY <1>2, <2>1
<1>4. CASE n < LEN7
  <2>1. PICK g : g = <<n>> OBVIOUS
  <2>2. HeadOf(fl, n) = f \o g
    <3>1. ~(n > LEN16) /\ ~(n >= LEN7) BY <1>1, <1>4
    <3> QED BY <1>2, <2>1, <3>1, Zenon DEF HeadOf
  <2>3. g \in Seq(Nat) /\ Len(g) = 1 /\ g[1] = n BY <2>1
  <2>4. PICK b : b = f \o g /\ Joined(Nat, f, g, b) BY <1>3, <2>3, Joins, Zenon
  <2>5. Len(b) = 2 /\ b[1] = fl /\ b[1 + 1] = n BY <1>3, <2>3, <2>4 DEF Joined
  <2> QED BY <1>0, <1>2, <1>4, <2>1, <2>2, <2>4, <2>5, SMT DEF FieldSays
<1>5. CASE n >= LEN7 /\ n <= LEN16
  <2>1. PICK g : g = <<LEN7>> OBVIOUS
  <2>2. PICK r : r = Two(n) OBVIOUS
  <2>3. HeadOf(fl, n) = f \o (g \o r)
    <3>1. ~(n > LEN16) /\ n >= LEN7 BY <1>1, <1>5
    <3> QED BY <1>2, <2>1, <2>2, <3>1, Zenon DEF HeadOf
  <2>4. g \in Seq(Nat) /\ Len(g) = 1 /\ g[1] = LEN7 BY <1>1, <2>1
  <2>5. r \in Seq(Nat) /\ Len(r) = 2 /\ r[1] * 256 + r[2] = n
    <3>1. n < 65536 BY <1>1, <1>5, SMT
    <3>2. r \in ByteSeq /\ Len(r) = 2 BY <2>2, LengthBytes
    <3>3. r \in Seq(Nat) BY <3>2, BytesAreNats
    <3> QED BY <2>2, <3>1, <3>2, <3>3, TwoAre, SMT
  <2>6. PICK c : c = g \o r /\ Joined(Nat, g, r, c) BY <2>4, <2>5, Joins, Zenon
  <2>7. c \in Seq(Nat) /\ Len(c) = 3 /\ c[1] = LEN7 /\ c[1 + 1] = r[1] /\ c[1 + 2] = r[2]
    BY <2>4, <2>5, <2>6 DEF Joined
  <2>8. PICK b : b = f \o c /\ Joined(Nat, f, c, b) BY <1>3, <2>7, Joins, Zenon
  <2>9. Len(b) = 4 /\ b[1] = fl /\ b[1 + 1] = c[1] /\ b[1 + 2] = c[2] /\ b[1 + 3] = c[3]
    <3>1. Len(c) = 3 /\ 1 \in 1..Len(c) /\ 2 \in 1..Len(c) /\ 3 \in 1..Len(c) BY <2>7
    <3>2. Len(b) = Len(f) + Len(c) /\ b[1] = f[1] BY <1>3, <2>8 DEF Joined
    <3>3. \A i \in 1..Len(c) : b[1 + i] = c[i] BY <1>3, <2>8 DEF Joined
    <3> QED BY <1>3, <3>1, <3>2, <3>3
  <2>10. b = HeadOf(fl, n) BY <2>3, <2>6, <2>8
  <2>11. b[2] = LEN7 /\ b[3] = r[1] /\ b[4] = r[2] BY <2>7, <2>9
  <2> QED BY <1>0, <1>1, <1>5, <2>5, <2>9, <2>10, <2>11, SMT DEF FieldSays
<1>6. CASE n > LEN16
  <2>1. PICK g : g = <<LEN7 + 1, 0, 0, 0, 0>> OBVIOUS
  <2>2. PICK r : r = Four(n) OBVIOUS
  <2>3. HeadOf(fl, n) = f \o (g \o r) BY <1>2, <1>6, <2>1, <2>2, Zenon DEF HeadOf
  <2>4. g \in Seq(Nat) /\ Len(g) = 5 /\ g[1] = LEN7 + 1 BY <1>1, <2>1
  <2>5. r \in Seq(Nat) /\ Len(r) = 4
    <3>1. r \in ByteSeq /\ Len(r) = 4 BY <2>2, LengthBytes
    <3>2. r \in Seq(Nat) BY <3>1, BytesAreNats
    <3> QED BY <3>1, <3>2
  <2>50. r[1] * 16777216 + r[2] * 65536 + r[3] * 256 + r[4] = n BY <2>2, FourAre, SMT
  <2>6. PICK c : c = g \o r /\ Joined(Nat, g, r, c) BY <2>4, <2>5, Joins, Zenon
  <2>7. c \in Seq(Nat) /\ Len(c) = 9 /\ c[1] = LEN7 + 1 /\ c[5 + 1] = r[1] /\ c[5 + 2] = r[2]
        /\ c[5 + 3] = r[3] /\ c[5 + 4] = r[4]
    <3>1. 1 \in 1..Len(r) /\ 2 \in 1..Len(r) /\ 3 \in 1..Len(r) /\ 4 \in 1..Len(r)
          /\ 1 \in 1..Len(g)
      BY <2>4, <2>5
    <3>2. c \in Seq(Nat) /\ Len(c) = Len(g) + Len(r) /\ c[1] = g[1]
      BY <2>4, <2>6, <3>1 DEF Joined
    <3>3. \A i \in 1..Len(r) : c[5 + i] = r[i] BY <2>4, <2>6 DEF Joined
    <3> QED BY <2>4, <2>5, <3>1, <3>2, <3>3
  <2>8. PICK b : b = f \o c /\ Joined(Nat, f, c, b) BY <1>3, <2>7, Joins, Zenon
  <2>9. Len(b) = 10 /\ b[1] = fl /\ b[1 + 1] = c[1] /\ b[1 + 6] = c[6] /\ b[1 + 7] = c[7]
        /\ b[1 + 8] = c[8] /\ b[1 + 9] = c[9]
    <3>1. Len(c) = 9 /\ 1 \in 1..Len(c) /\ 6 \in 1..Len(c) /\ 7 \in 1..Len(c)
          /\ 8 \in 1..Len(c) /\ 9 \in 1..Len(c)
      BY <2>7
    <3>2. Len(b) = Len(f) + Len(c) /\ b[1] = f[1] BY <1>3, <2>8 DEF Joined
    <3>3. \A i \in 1..Len(c) : b[1 + i] = c[i] BY <1>3, <2>8 DEF Joined
    <3> QED BY <1>3, <3>1, <3>2, <3>3
  <2>10. b = HeadOf(fl, n) BY <2>3, <2>6, <2>8
  <2>11. b[2] = LEN7 + 1 /\ b[7] = r[1] /\ b[8] = r[2] /\ b[9] = r[3] /\ b[10] = r[4]
    BY <2>7, <2>9
  <2>12. b[7] * 16777216 + b[8] * 65536 + b[9] * 256 + b[10] = n BY <2>50, <2>11, SMT
  <2> QED BY <1>0, <1>1, <1>6, <2>9, <2>10, <2>11, <2>12, SMT DEF FieldSays
<1> QED BY <1>1, <1>4, <1>5, <1>6, SMT

Holds(t, s, fl, n, p) ==
  IF Len(p) = n
  THEN /\ t.rest = <<>>
       /\ t.text = IF fl % 16 \in DataOps THEN s.text \o Own(p) ELSE s.text
       /\ t.pongs = IF fl % 16 = OPCODE_PONG THEN Append(s.pongs, p) ELSE s.pongs
  ELSE t.rest = HeadOf(fl, n) \o p /\ t.text = s.text /\ t.pongs = s.pongs

LEMMA FrameSizes ==
  ASSUME NEW fl \in Byte, NEW n \in Nat, n <= INT_MAX, NEW p \in ByteSeq
  PROVE  LET h == HeadOf(fl, n)
             b == h \o p
         IN  /\ b \in ByteSeq /\ Len(b) = Len(h) + Len(p) /\ b[1] = fl
             /\ Len(h) \in Nat /\ Len(h) >= 2 /\ h \in ByteSeq
             /\ HeadSize(b) = Len(h) /\ PayloadSize(b) = n
<1>1. PICK h \in ByteSeq : h = HeadOf(fl, n) BY HeadOfType
<1>2. PICK b : b = h \o p OBVIOUS
<1>3. /\ b \in ByteSeq /\ Len(b) = Len(h) + Len(p) /\ \A i \in 1..Len(h) : b[i] = h[i]
  BY <1>2, ByteConcat
<1>4. Len(h) \in Nat /\ Len(p) \in Nat BY ByteIsNat
<1>5. LEN7 \in Nat BY Thresholds
<1>6. h[1] = fl BY <1>1, HeadFacts, Zenon
<1>7. FieldSays(h, n) BY <1>1, HeadFacts, Zenon
<1>8. CASE Len(h) = 2 /\ n < LEN7 /\ h[2] = n
  <2>1. b[1] = h[1] /\ b[2] = h[2] BY <1>3, <1>8, SMT
  <2>2. HeadSize(b) = 2 BY <1>8, <2>1, SMT DEF HeadSize
  <2>3. PayloadSize(b) = b[2] BY <2>2, SMT DEF PayloadSize
  <2> QED BY <1>1, <1>2, <1>3, <1>4, <1>6, <1>8, <2>1, <2>2, <2>3, SMT
<1>9. CASE Len(h) = 4 /\ h[2] = LEN7 /\ h[3] * 256 + h[4] = n
  <2>1. b[1] = h[1] /\ b[2] = h[2] /\ b[3] = h[3] /\ b[4] = h[4] BY <1>3, <1>9, SMT
  <2>2. HeadSize(b) = 4 BY <1>5, <1>9, <2>1, SMT DEF HeadSize
  <2>3. PayloadSize(b) = b[3] * 256 + b[4] BY <2>2, SMT DEF PayloadSize
  <2> QED BY <1>1, <1>2, <1>3, <1>4, <1>6, <1>9, <2>1, <2>2, <2>3, SMT
<1>10. CASE /\ Len(h) = 10 /\ h[2] = LEN7 + 1
            /\ h[7] * 16777216 + h[8] * 65536 + h[9] * 256 + h[10] = n
  <2>1. b[1] = h[1] /\ b[2] = h[2] /\ b[7] = h[7] /\ b[8] = h[8] /\ b[9] = h[9] /\ b[10] = h[10]
    <3>1. 1 \in 1..Len(h) /\ 2 \in 1..Len(h) /\ 7 \in 1..Len(h) /\ 8 \in 1..Len(h)
          /\ 9 \in 1..Len(h) /\ 10 \in 1..Len(h)
      BY <1>10, SMT
    <3> QED BY <1>3, <3>1, SMT
  <2>2. HeadSize(b) = 10 BY <1>5, <1>10, <2>1, SMT DEF HeadSize
  <2>3. PayloadSize(b) = b[7] * 16777216 + b[8] * 65536 + b[9] * 256 + b[10]
    BY <2>2, SMT DEF PayloadSize
  <2> QED BY <1>1, <1>2, <1>3, <1>4, <1>6, <1>10, <2>1, <2>2, <2>3, SMT
<1> QED BY <1>7, <1>8, <1>9, <1>10, SMT DEF FieldSays

LEMMA Reads ==
  ASSUME NEW u \in SocketType, NEW fl \in Byte, NEW n \in Nat, n <= INT_MAX,
         NEW p \in ByteSeq, Len(p) <= n, u.rest = HeadOf(fl, n) \o p
  PROVE  Holds(BrowserReads(u), u, fl, n, p)
<1>1. PICK h \in ByteSeq : h = HeadOf(fl, n) BY HeadOfType
<1>2. PICK b : b = h \o p OBVIOUS
<1>3. /\ b \in ByteSeq /\ Len(b) = Len(h) + Len(p) /\ b[1] = fl
      /\ Len(h) \in Nat /\ Len(h) >= 2
      /\ HeadSize(b) = Len(h) /\ PayloadSize(b) = n
  BY <1>1, <1>2, FrameSizes, Zenon
<1>4. u.rest = b /\ Len(p) \in Nat BY <1>1, <1>2, ByteIsNat
<1>5. CASE Len(p) = n
  <2>1. IsWhole(b) BY <1>3, <1>4, <1>5, SMT DEF IsWhole
  <2>2. PICK q : q = SubSeq(b, Len(h) + 1, Len(h) + n) OBVIOUS
  <2>3. PICK r : r = SubSeq(b, Len(h) + n + 1, Len(b)) OBVIOUS
  <2>4. TakeFrame(u) = [u EXCEPT
          !.rest = r,
          !.text = IF fl % 16 \in DataOps THEN u.text \o Own(q) ELSE u.text,
          !.pongs = IF fl % 16 = OPCODE_PONG THEN Append(u.pongs, q) ELSE u.pongs]
    BY <1>3, <1>4, <2>2, <2>3, Zenon DEF TakeFrame
  <2>5. r = <<>>
    <3>1. Len(h) + n + 1 > Len(b) BY <1>3, <1>4, <1>5, SMT
    <3> QED BY <1>3, <1>4, <1>5, <2>3, <3>1, SMT DEF ByteSeq
  <2>6. q = p
    <3>1. b \in Seq(Byte) /\ Len(b) \in 0..Len(b) /\ Len(h) \in 0..Len(b) /\ Len(b) - Len(h) = Len(p)
          /\ Len(h) + n = Len(b)
      BY <1>3, <1>4, <1>5, SMT DEF ByteSeq
    <3>2. q \in Seq(Byte) /\ Len(q) = Len(p) /\ \A j \in 1..Len(p) : q[j] = b[Len(h) + j]
      BY <2>2, <3>1, Pieces, SMT
    <3>3. \A j \in 1..Len(p) : b[Len(h) + j] = p[j] BY <1>2, ByteConcat
    <3>4. p \in Seq(Byte) BY DEF ByteSeq
    <3> QED BY <1>4, <3>2, <3>3, <3>4, SMT
  <2>7. TakeFrame(u).rest = r
        /\ TakeFrame(u).text = (IF fl % 16 \in DataOps THEN u.text \o Own(q) ELSE u.text)
        /\ TakeFrame(u).pongs = (IF fl % 16 = OPCODE_PONG THEN Append(u.pongs, q) ELSE u.pongs)
    BY <2>4, SMT DEF SocketType
  <2>8. BrowserReads(u) = TakeFrame(u) BY <1>4, <2>1, Zenon DEF BrowserReads
  <2> QED BY <1>5, <2>5, <2>6, <2>7, <2>8, Zenon DEF Holds
<1>6. CASE Len(p) # n
  <2>1. ~IsWhole(b) BY <1>3, <1>4, <1>6, SMT DEF IsWhole
  <2>2. BrowserReads(u) = u BY <1>4, <2>1, Zenon DEF BrowserReads
  <2> QED BY <1>6, <2>2, Zenon DEF Holds
<1> QED BY <1>5, <1>6, Zenon

(* What a call of httpdSend adds.                                          *)
LEMMA SendHead ==
  ASSUME NEW s \in SocketType, ~s.torn, s.rest = <<>>, NEW fl \in Byte,
         NEW n \in Nat, n <= INT_MAX
  PROVE  Holds(sendFrameHead(s, fl, n), s, fl, n, <<>>)
<1>1. PICK h \in ByteSeq : h = HeadOf(fl, n) BY HeadOfType
<1>2. sendFrameHead(s, fl, n) = httpdSend(s, h) BY <1>1, Zenon DEF sendFrameHead, HeadOf
<1>3. PICK u : u = [s EXCEPT !.busy = TRUE, !.rest = h] OBVIOUS
<1>4. s.rest \o h = h BY <1>1 DEF ByteSeq
<1>5. httpdSend(s, h) = BrowserReads(u) BY <1>3, <1>4, Zenon DEF httpdSend
<1>6. u \in SocketType
  <2>1. TRUE \in BOOLEAN OBVIOUS
  <2> QED BY <1>3, <2>1, Zenon DEF SocketType
<1>7. u.rest = h /\ u.text = s.text /\ u.pongs = s.pongs BY <1>3 DEF SocketType
<1>8. h \o <<>> = h /\ <<>> \in ByteSeq BY DEF ByteSeq
<1>9. Len(<<>>) <= n BY SMT
<1>10. Holds(BrowserReads(u), u, fl, n, <<>>) BY <1>1, <1>6, <1>7, <1>8, <1>9, Reads, Zenon
<1> QED BY <1>2, <1>5, <1>7, <1>10, Zenon DEF Holds

LEMMA SendMore ==
  ASSUME NEW s \in SocketType, ~s.torn, NEW fl \in Byte, NEW n \in Nat, n <= INT_MAX,
         NEW p \in ByteSeq, NEW d \in ByteSeq, s.rest = HeadOf(fl, n) \o p,
         Len(p) + Len(d) <= n
  PROVE  Holds(httpdSend(s, d), s, fl, n, p \o d)
<1>1. PICK h \in ByteSeq : h = HeadOf(fl, n) BY HeadOfType
<1>2. PICK q : q = p \o d OBVIOUS
<1>3. q \in ByteSeq /\ Len(q) <= n BY <1>2, ByteConcat
<1>4. PICK u : u = [s EXCEPT !.busy = TRUE, !.rest = h \o q] OBVIOUS
<1>5. s.rest \o d = h \o q
  <2>1. Regroups(h, p, d) BY Associative, Zenon DEF ByteSeq
  <2> QED BY <1>1, <1>2, <2>1 DEF Regroups
<1>6. httpdSend(s, d) = BrowserReads(u) BY <1>4, <1>5, Zenon DEF httpdSend
<1>7. u \in SocketType
  <2>1. TRUE \in BOOLEAN /\ h \o q \in ByteSeq BY <1>3, ByteConcat
  <2> QED BY <1>4, <2>1, Zenon DEF SocketType
<1>8. u.rest = h \o q /\ u.text = s.text /\ u.pongs = s.pongs BY <1>4 DEF SocketType
<1>9. Holds(BrowserReads(u), u, fl, n, q) BY <1>1, <1>3, <1>7, <1>8, Reads, Zenon
<1> QED BY <1>2, <1>6, <1>8, <1>9, Zenon DEF Holds
-----------------------------------------------------------------------------
(* The answers.                                                            *)
Bits == Seq({0, 1})

LEMMA BitsAreBytes == Bits \subseteq ByteSeq
<1>1. \A A, B : A \subseteq B => Seq(A) \subseteq Seq(B) OBVIOUS
<1>2. {0, 1} \subseteq Byte BY DEF Byte
<1> QED BY <1>1, <1>2 DEF ByteSeq, Bits

LEMMA OwnBits ==
  ASSUME NEW d \in Bits
  PROVE  Own(d) = d /\ Own(YouSent \o d) = d
<1>1. Own(d) = d
  <2>1. d # <<>> => d[1] \in {0, 1} BY DEF Bits
  <2>2. d # <<>> => ~(d[1] \in {YouSent[1], Debug[1]}) BY <2>1 DEF YouSent, Debug
  <2> QED BY <2>2, Zenon DEF Own
<1>2. PICK y : y = <<7>> OBVIOUS
<1>3. y \in ByteSeq /\ Len(y) = 1 /\ y[1] = 7 /\ y = YouSent BY <1>2 DEF ByteSeq, Byte, YouSent
<1>4. d \in ByteSeq BY BitsAreBytes
<1>5. PICK p \in ByteSeq : p = y \o d BY <1>3, <1>4, ByteConcat
<1>6. Len(p) = 1 + Len(d) /\ p[1] = 7 /\ \A i \in 1..Len(d) : p[1 + i] = d[i]
  <2>1. Joined(Byte, y, d, p) BY <1>3, <1>4, <1>5, Joins, Zenon DEF ByteSeq
  <2>2. Len(p) = Len(y) + Len(d) BY <2>1 DEF Joined
  <2>3. p[1] = y[1] BY <1>3, <2>1 DEF Joined
  <2>4. \A i \in 1..Len(d) : p[Len(y) + i] = d[i] BY <2>1, Zenon DEF Joined
  <2> QED BY <1>3, <2>2, <2>3, <2>4
<1>7. Len(d) \in Nat /\ d \in Seq(Byte) BY <1>4 DEF ByteSeq
<1>8. Tail(p) = d
  <2>1. p \in Seq(Byte) /\ Len(p) = 1 + Len(d) BY <1>6 DEF ByteSeq
  <2>2. Tail(p) \in Seq(Byte) /\ Len(Tail(p)) = Len(d) /\ \A i \in 1..Len(d) : Tail(p)[i] = p[i + 1]
    BY <1>7, <2>1
  <2>3. PICK t \in Seq(Byte) : t = Tail(p) BY <2>2
  <2>4. \A i \in 1..Len(d) : t[i] = d[i]
    <3>1. \A i \in 1..Len(d) : i + 1 = 1 + i BY <1>7
    <3> QED BY <1>6, <2>2, <2>3, <3>1
  <2> QED BY <1>7, <2>2, <2>3, <2>4
<1>9. Own(p) = d
  <2>1. p # <<>> BY <1>6, <1>7
  <2>2. YouSent[1] = 7 BY DEF YouSent
  <2> QED BY <1>6, <1>8, <2>1, <2>2, Zenon DEF Own
<1> QED BY <1>1, <1>3, <1>5, <1>9

LEMMA OwnDebug == Own(Debug) = <<>> /\ Own(<<>>) = <<>> /\ Debug \in ByteSeq /\ Len(Debug) = 1
<1>1. Debug \in ByteSeq /\ Len(Debug) = 1 /\ Debug # <<>> /\ Debug[1] = 8 BY DEF ByteSeq, Byte, Debug
<1>2. Tail(Debug) = <<>> BY DEF Debug
<1>3. Own(Debug) = <<>> BY <1>1, <1>2, Zenon DEF Own
<1>4. Own(<<>>) = <<>> BY Zenon DEF Own
<1> QED BY <1>1, <1>3, <1>4

LEMMA FlagsAre ==
  ASSUME NEW op \in 0..15, NEW fin \in BOOLEAN
  PROVE  /\ Flags(op, fin) \in Byte /\ Flags(op, fin) % 16 = op
         /\ Flags(op, fin) < FLAG_FIN <=> ~fin
BY DEF Flags, FLAG_FIN, Byte

Gives(t, s, x) == t.rest = <<>> /\ t.text = s.text \o x /\ t.pongs = s.pongs

LEMMA SendText ==
  ASSUME NEW s \in SocketType, ~s.torn, s.rest = <<>>, NEW data \in ByteSeq,
         Len(data) <= INT_MAX, NEW flags
  PROVE  Gives(cgiWebsocketSend(s, data, flags), s, Own(data))
<1>1. PICK fl \in Byte : fl = Flags(SendOp(flags), "CONT" \notin flags) /\ fl % 16 \in {1, 2}
  <2>1. SendOp(flags) \in 0..15 /\ SendOp(flags) \in {1, 2}
    BY DEF SendOp, OPCODE_TEXT, OPCODE_BINARY
  <2>2. ("CONT" \notin flags) \in BOOLEAN OBVIOUS
  <2> QED BY <2>1, <2>2, FlagsAre
<1>2. PICK n \in Nat : n = Len(data) BY ByteIsNat
<1>3. fl % 16 # OPCODE_PONG /\ fl % 16 \in DataOps
  BY <1>1 DEF OPCODE_TEXT, OPCODE_BINARY, OPCODE_PONG, DataOps
<1>4. PICK t : t = sendFrameHead(s, fl, n) OBVIOUS
<1>5. Sends(s, t) BY <1>4, SendHeadType, Zenon
<1>6. Holds(t, s, fl, n, <<>>) BY <1>2, <1>4, SendHead, Zenon
<1>7. cgiWebsocketSend(s, data, flags) = IF data = <<>> THEN t ELSE httpdSend(t, data)
  BY <1>1, <1>2, <1>4, Zenon DEF cgiWebsocketSend
<1>8. CASE data = <<>>
  <2>1. Len(<<>>) = n BY <1>2, <1>8
  <2>2. t.rest = <<>> /\ t.text = s.text \o Own(<<>>) /\ t.pongs = s.pongs
    BY <1>1, <1>3, <1>6, <2>1, Zenon DEF Holds
  <2> QED BY <1>7, <1>8, <2>2, Zenon DEF Gives
<1>9. CASE data # <<>>
  <2>1. n # 0 /\ n > 0 BY <1>2, <1>9 DEF ByteSeq
  <2>2. Len(<<>>) # n BY <2>1
  <2>3. t.rest = HeadOf(fl, n) \o <<>> /\ t.text = s.text /\ t.pongs = s.pongs
    BY <1>6, <2>2, Zenon DEF Holds
  <2>4. t \in SocketType /\ ~t.torn BY <1>5 DEF Sends, Untouched
  <2>5. <<>> \in ByteSeq /\ <<>> \o data = data BY DEF ByteSeq
  <2>6. Len(<<>>) + Len(data) <= n BY <1>2
  <2>7. Holds(httpdSend(t, data), t, fl, n, data)
    BY <1>2, <2>3, <2>4, <2>5, <2>6, SendMore, Zenon
  <2>8. /\ httpdSend(t, data).rest = <<>>
        /\ httpdSend(t, data).text = t.text \o Own(data)
        /\ httpdSend(t, data).pongs = t.pongs
    BY <1>1, <1>2, <1>3, <2>7, Zenon DEF Holds
  <2> QED BY <1>7, <1>9, <2>3, <2>8, Zenon DEF Gives
<1> QED BY <1>8, <1>9, Zenon

(* The bytes of a message come back.                                       *)
LEMMA EchoText ==
  ASSUME NEW c, NEW s \in SocketType, ~s.torn, s.rest = <<>>, NEW d \in Bits,
         Len(d) < INT_MAX, NEW flags
  PROVE  Gives(recvCb(c, s, d, flags), s, d)
<1>1. d \in ByteSeq /\ Len(d) \in Nat /\ Len(d) <= INT_MAX /\ 1 + Len(d) <= INT_MAX
  <2>1. d \in ByteSeq BY BitsAreBytes
  <2>2. Len(d) \in Nat BY <2>1, ByteIsNat
  <2> QED BY <2>1, <2>2, SMT DEF INT_MAX
<1>2. CASE c \in Echo
  <2>1. recvCb(c, s, d, flags) = cgiWebsocketSend(s, d, flags) BY <1>2, Zenon DEF recvCb
  <2>2. Gives(cgiWebsocketSend(s, d, flags), s, Own(d)) BY <1>1, SendText, Zenon
  <2> QED BY <2>1, <2>2, OwnBits, Zenon
<1>3. CASE c \notin Echo
  <2>1. recvCb(c, s, d, flags) = cgiWebsocketSend(s, YouSent \o d, {}) BY <1>3, Zenon DEF recvCb
  <2>2. YouSent \in ByteSeq /\ Len(YouSent) = 1 BY DEF YouSent, ByteSeq, Byte
  <2>3. YouSent \o d \in ByteSeq /\ Len(YouSent \o d) = 1 + Len(d) BY <1>1, <2>2, ByteConcat
  <2>4. Len(YouSent \o d) <= INT_MAX BY <1>1, <2>3
  <2>5. Gives(cgiWebsocketSend(s, YouSent \o d, {}), s, Own(YouSent \o d))
    BY <2>3, <2>4, SendText, Zenon
  <2> QED BY <2>1, <2>5, OwnBits, Zenon
<1> QED BY <1>2, <1>3, Zenon

(* The pieces of a ping go out as the pieces of its pong.                  *)
LEMMA PongText ==
  ASSUME NEW s \in SocketType, ~s.torn, NEW fl \in Byte, NEW n \in Nat, n <= INT_MAX,
         NEW p \in ByteSeq, NEW d \in ByteSeq, Len(p) + Len(d) <= n,
         IF s.frameCont THEN s.rest = HeadOf(fl, n) \o p /\ Len(p) # n
         ELSE s.rest = <<>> /\ p = <<>>
  PROVE  LET t == IF s.frameCont THEN s ELSE sendFrameHead(s, fl, n) IN
         Holds(IF d = <<>> THEN t ELSE httpdSend(t, d), s, fl, n, p \o d)
<1>1. PICK t : t = IF s.frameCont THEN s ELSE sendFrameHead(s, fl, n) OBVIOUS
<1>2. Holds(t, s, fl, n, p)
  <2>1. CASE s.frameCont BY <1>1, <2>1, Zenon DEF Holds
  <2>2. CASE ~s.frameCont
    <3>1. Holds(sendFrameHead(s, fl, n), s, fl, n, <<>>) BY <2>2, SendHead, Zenon
    <3> QED BY <1>1, <2>2, <3>1, Zenon
  <2> QED BY <2>1, <2>2, Zenon
<1>3. t \in SocketType /\ ~t.torn
  <2>1. CASE s.frameCont BY <1>1, <2>1, Zenon
  <2>2. CASE ~s.frameCont
    <3>1. Sends(s, t) BY <1>1, <2>2, SendHeadType, Zenon
    <3> QED BY <3>1 DEF Sends, Untouched
  <2> QED BY <2>1, <2>2, Zenon
<1>4. CASE d = <<>>
  <2>1. p \o d = p BY <1>4 DEF ByteSeq
  <2> QED BY <1>1, <1>2, <1>4, <2>1, Zenon
<1>5. CASE d # <<>>
  <2>1. Len(d) # 0 /\ Len(d) \in Nat /\ Len(p) \in Nat BY <1>5 DEF ByteSeq
  <2>2. Len(p) # n BY <2>1
  <2>3. t.rest = HeadOf(fl, n) \o p /\ t.text = s.text /\ t.pongs = s.pongs
    BY <1>2, <2>2, Zenon DEF Holds
  <2>4. Holds(httpdSend(t, d), t, fl, n, p \o d) BY <1>3, <2>3, SendMore, Zenon
  <2>5. Holds(httpdSend(t, d), s, fl, n, p \o d) BY <2>3, <2>4, Zenon DEF Holds
  <2> QED BY <1>1, <1>5, <2>5, Zenon
<1> QED BY <1>4, <1>5, Zenon
-----------------------------------------------------------------------------
(* The payload: m bytes of it have been taken, and k when the turn ends.   *)
PayloadReady(s, f, m) ==
  /\ s.wsStatus = ST_PAYLOAD /\ s.flags = Flags(f.op, f.fin) /\ s.len8 = Header(f)[2]
  /\ s.len = Len(f.payload) - m /\ s.maskCtr = m
  /\ f.masked => \A j \in 1..4 : s.mask[j] = Mask[j]
  /\ IF s.frameCont THEN Accepted(f) /\ m < Len(f.payload) ELSE m = 0
  /\ ~s.closedHere
  /\ ~s.torn =>
       s.rest = IF f.op = OPCODE_PING /\ s.frameCont THEN PongBegun(f, m) ELSE <<>>

Answers(t, s, f, m, k) ==
  /\ t.text = s.text \o (IF f.op \in DataOps THEN SubSeq(f.payload, m + 1, k) ELSE <<>>)
  /\ t.pongs = IF f.op = OPCODE_PING /\ k = Len(f.payload) THEN Append(s.pongs, f.payload)
               ELSE s.pongs
  /\ t.rest = IF f.op = OPCODE_PING /\ k < Len(f.payload) THEN PongBegun(f, k) ELSE <<>>

LEMMA PongBegunIs ==
  ASSUME NEW f \in GoodFrames, Len(f.payload) < LEN7, NEW m
  PROVE  PongBegun(f, m) = HeadOf(Flags(OPCODE_PONG, TRUE), Len(f.payload)) \o
                             SubSeq(f.payload, 1, m)
<1>1. PICK n \in Nat : n = Len(f.payload) /\ n < LEN7 BY SizeType
<1>2. PICK fl \in Byte : fl = Flags(OPCODE_PONG, TRUE)
  <2>1. OPCODE_PONG \in 0..15 /\ TRUE \in BOOLEAN BY DEF OPCODE_PONG
  <2> QED BY <2>1, FlagsAre
<1>3. n <= INT_MAX BY <1>1, Thresholds, SMT DEF INT_MAX
<1>4. HeadOf(fl, n) = <<fl>> \o <<n>> BY <1>1, <1>3, HeadFacts, Zenon
<1>5. <<fl>> \o <<n>> = <<fl, n>>
  <2>1. fl \in Nat BY DEF Byte
  <2>2. PICK x : x = <<fl>> OBVIOUS
  <2>3. PICK y : y = <<n>> OBVIOUS
  <2>4. PICK z : z = <<fl, n>> OBVIOUS
  <2>5. x \in Seq(Nat) /\ Len(x) = 1 /\ x[1] = fl BY <2>1, <2>2
  <2>6. y \in Seq(Nat) /\ Len(y) = 1 /\ y[1] = n BY <2>3
  <2>7. z \in Seq(Nat) /\ Len(z) = 2 /\ z[1] = fl /\ z[2] = n BY <2>1, <2>4
  <2>8. PICK w : w = x \o y /\ Joined(Nat, x, y, w) BY <2>5, <2>6, Joins, Zenon
  <2>9. w \in Seq(Nat) /\ Len(w) = 2 /\ w[1] = fl /\ w[1 + 1] = n
    BY <2>5, <2>6, <2>8 DEF Joined
  <2>10. w = z BY <2>7, <2>9
  <2> QED BY <2>2, <2>3, <2>4, <2>8, <2>10
<1> QED BY <1>1, <1>2, <1>4, <1>5, Zenon DEF PongBegun

LEMMA PayloadDoes ==
  ASSUME NEW c, NEW s \in SocketType, NEW f \in GoodFrames, NEW k \in 0..Len(f.payload),
         NEW m \in 0..k, PayloadReady(s, f, m), NEW d \in ByteSeq,
         f.masked => d = SubSeq(f.payload, m + 1, k)
  PROVE  LET r == Payload(c, s, d) IN
         /\ r.over \in BOOLEAN /\ (r.over <=> ~Accepted(f))
         /\ ~r.over /\ ~s.torn => Answers(r.s, s, f, m, k)
<1> DEFINE r == Payload(c, s, d)
           error == cgiWebsocketClose(s, <<3, 234>>)
           reason == [i \in 1..2 |-> IF i <= Len(d) THEN d[i] ELSE Garbage]
           close == cgiWebsocketClose(s, reason)
           fl == Flags(OPCODE_PONG, TRUE)
           head == sendFrameHead(s, fl, s.len)
           t == IF s.frameCont THEN s ELSE head
           pong == IF d = <<>> THEN t ELSE httpdSend(t, d)
           said == recvCb(c, s, d, RecvFlags(s))
<1> USE DEF OPCODE_PING, OPCODE_TEXT, OPCODE_BINARY, OPCODE_CONTINUE, OPCODE_CLOSE, DataOps
<1>1. PICK n \in Nat : n = Len(f.payload) BY SizeType
<1>2. PICK p \in Bits : p = f.payload BY SizeType DEF Bits
<1>3. /\ f.op \in 0..15 /\ f.fin \in BOOLEAN /\ f.masked \in BOOLEAN /\ n < INT_MAX
      /\ f.masked \/ f.op \in DataOps
  BY <1>1, Zenon DEF GoodFrames
<1>4. s.flags % 16 = f.op BY <1>3, FlagsAre DEF PayloadReady
<1>5. s.len8 >= IS_MASKED <=> f.masked BY SecondByte DEF PayloadReady
<1>6. s.len8 \in Nat /\ s.len \in Nat /\ s.frameCont \in BOOLEAN /\ s.torn \in BOOLEAN
  <2>1. s.len8 \in Byte /\ s.len \in Nat /\ s.frameCont \in BOOLEAN /\ s.torn \in BOOLEAN
    BY Zenon DEF SocketType
  <2>2. \A z \in Byte : z \in Nat BY DEF Byte
  <2> QED BY <2>1, <2>2, Zenon
<1>7. s.len = n - m /\ k \in 0..n /\ m \in 0..n BY <1>1 DEF PayloadReady
<1>71. /\ p \in Seq({0, 1}) /\ k \in 0..Len(p) /\ m \in 0..k /\ k \in 0..k
       /\ Bits = Seq({0, 1})
  BY <1>1, <1>2 DEF Bits
<1>72. /\ SubSeq(p, 1, m) \in Bits /\ Len(SubSeq(p, 1, m)) = m
       /\ SubSeq(p, m + 1, k) \in Bits /\ Len(SubSeq(p, m + 1, k)) = k - m
       /\ SubSeq(p, 1, k) = SubSeq(p, 1, m) \o SubSeq(p, m + 1, k)
  <2>1. /\ SubSeq(p, 1, m) \in Seq({0, 1}) /\ Len(SubSeq(p, 1, m)) = m
        /\ SubSeq(p, m + 1, k) \in Seq({0, 1}) /\ Len(SubSeq(p, m + 1, k)) = k - m
        /\ SubSeq(p, 1, k) = SubSeq(p, 1, m) \o SubSeq(p, m + 1, k)
    BY <1>71, Pieces, SMT
  <2> QED BY <2>1 DEF Bits
<1>73. SubSeq(p, 1, k) \in Bits /\ Len(SubSeq(p, 1, k)) = k
  <2>1. SubSeq(p, 1, k) \in Seq({0, 1}) /\ Len(SubSeq(p, 1, k)) = k BY <1>71, Pieces, SMT
  <2> QED BY <2>1 DEF Bits
<1>8. s.frameCont => Accepted(f) BY Zenon DEF PayloadReady
<1>9. ~s.frameCont => m = 0 /\ s.len = n BY <1>1, <1>7 DEF PayloadReady
<1>10. Refused(f) <=> (f.op \in {0, 1, 2} /\ ~f.masked) \/ (f.op = 9 /\ n >= LEN7)
  BY <1>1 DEF Refused
<1>11. Accepted(f) <=> ~Refused(f) /\ f.op # 8 BY DEF Accepted
<1>12. LEN7 \in Nat BY Thresholds
<1>13. CASE f.op = 9 /\ s.len >= LEN7
  <2>1. r = [over |-> TRUE, s |-> IF s.frameCont THEN s ELSE error]
    <3>1. s.len >= LEN7 /\ ~(s.len < LEN7) BY <1>6, <1>12, <1>13
    <3>2. 9 # 8 /\ 9 \notin {0, 1, 2} OBVIOUS
    <3> HIDE DEF error
    <3> QED BY <1>4, <1>13, <3>1, <3>2 DEF Payload, error
  <2>2. n >= LEN7 BY <1>7, <1>12, <1>13
  <2>3. ~Accepted(f) BY <1>10, <1>11, <1>13, <2>2
  <2> QED BY <2>1, <2>3
<1>14. CASE f.op = 9 /\ s.len < LEN7
  <2>1. r = [over |-> FALSE, s |-> pong]
    <3>1. ~(s.len >= LEN7) BY <1>6, <1>12, <1>14
    <3>2. 9 # 8 /\ 9 \notin {0, 1, 2} OBVIOUS
    <3> QED BY <1>4, <1>14, <3>1, <3>2 DEF Payload
  <2>2. n < LEN7 /\ f.masked
    <3>1. CASE s.frameCont BY <1>3, <1>8, <1>10, <1>11, <1>12, <1>14, <3>1
    <3>2. CASE ~s.frameCont BY <1>3, <1>9, <1>14, <3>2
    <3> QED BY <3>1, <3>2
  <2>3. Accepted(f) BY <1>1, <1>10, <1>11, <1>12, <1>14, <2>2
  <2>4. ASSUME ~s.torn PROVE Answers(pong, s, f, m, k)
    <3>0. d = SubSeq(p, m + 1, k) BY <1>2, <2>2
    <3>1. PICK x \in Bits : x = SubSeq(p, 1, m) /\ Len(x) = m
      BY <1>72
    <3>2. PICK y \in Bits : y = SubSeq(p, 1, k) /\ Len(y) = k
      BY <1>73
    <3>3. y = x \o d /\ Len(d) = k - m
      BY <1>72, <3>0, <3>1, <3>2
    <3>4. fl \in Byte /\ fl % 16 = 10
      <4>1. OPCODE_PONG \in 0..15 /\ TRUE \in BOOLEAN /\ OPCODE_PONG = 10 BY DEF OPCODE_PONG
      <4> QED BY <4>1, FlagsAre
    <3> HIDE DEF fl
    <3>5. \A j : PongBegun(f, j) = HeadOf(fl, n) \o SubSeq(p, 1, j)
      BY <1>1, <1>2, <2>2, PongBegunIs DEF fl
    <3>6. Len(x) + Len(d) <= n BY <1>7, <3>1, <3>3
    <3>7. IF s.frameCont THEN s.rest = HeadOf(fl, n) \o x /\ Len(x) # n
          ELSE s.rest = <<>> /\ x = <<>>
      <4>1. CASE s.frameCont
        <5>1. m < n /\ s.rest = PongBegun(f, m)
          BY <1>1, <1>14, <2>4, <4>1, Zenon DEF PayloadReady
        <5>2. Len(x) # n BY <1>7, <3>1, <5>1
        <5>3. s.rest = HeadOf(fl, n) \o x BY <3>1, <3>5, <5>1, Zenon
        <5> QED BY <4>1, <5>2, <5>3, Zenon
      <4>2. CASE ~s.frameCont
        <5>1. s.rest = <<>> BY <2>4, <4>2, Zenon DEF PayloadReady
        <5>2. Len(x) = 0 BY <1>9, <3>1, <4>2
        <5> QED BY <4>2, <5>1, <5>2 DEF Bits
      <4> QED BY <4>1, <4>2
    <3>8. head = sendFrameHead(s, fl, n) \/ s.frameCont BY <1>9 DEF fl
    <3>9. t = IF s.frameCont THEN s ELSE sendFrameHead(s, fl, n) BY <3>8
    <3>10. n <= INT_MAX BY <1>3, SMT DEF INT_MAX
    <3>11. x \in ByteSeq BY BitsAreBytes
    <3> HIDE DEF t
    <3>12. Holds(pong, s, fl, n, y)
      BY <2>4, <3>3, <3>4, <3>6, <3>7, <3>9, <3>10, <3>11, PongText, Zenon
    <3> HIDE DEF pong
    <3>13. s.text \o <<>> = s.text BY DEF SocketType, ByteSeq
    <3>14. f.op \notin DataOps /\ f.op = OPCODE_PING BY <1>14
    <3>15. CASE k = n
      <4>1. y = p BY <1>1, <1>2, <3>2, <3>15 DEF Bits
      <4>2. Len(y) = n BY <3>2, <3>15
      <4>3. pong.rest = <<>> /\ pong.text = s.text /\ pong.pongs = Append(s.pongs, p)
        <5>1. OPCODE_PONG = 10 /\ 10 \notin DataOps BY DEF OPCODE_PONG
        <5> QED BY <3>4, <3>12, <4>1, <4>2, <5>1 DEF Holds
      <4>4. ~(k < n) BY <1>1, <3>15
      <4> QED BY <1>1, <1>2, <3>13, <3>14, <3>15, <4>3, <4>4, Zenon DEF Answers
    <3>16. CASE k # n
      <4>1. Len(y) # n BY <3>2, <3>16
      <4>2. pong.rest = HeadOf(fl, n) \o y /\ pong.text = s.text /\ pong.pongs = s.pongs
        BY <3>12, <4>1, Zenon DEF Holds
      <4>3. k < n BY <1>7, <3>16
      <4> QED BY <1>1, <1>2, <3>2, <3>5, <3>13, <3>14, <3>16, <4>2, <4>3, Zenon DEF Answers
    <3> QED BY <3>15, <3>16
  <2> HIDE DEF pong, r
  <2> QED BY <2>1, <2>3, <2>4 DEF r
<1>15. CASE f.op \in {0, 1, 2} /\ ~f.masked
  <2>1. r = [over |-> TRUE, s |-> error]
    <3>1. s.len8 < IS_MASKED BY <1>5, <1>6, <1>15 DEF IS_MASKED
    <3>2. f.op # 9 BY <1>15
    <3> QED BY <1>4, <1>15, <3>1, <3>2 DEF Payload
  <2>2. ~Accepted(f) BY <1>10, <1>11, <1>15
  <2> QED BY <2>1, <2>2
<1>16. CASE f.op \in {0, 1, 2} /\ f.masked
  <2>1. r = [over |-> FALSE, s |-> said]
    <3>1. ~(s.len8 < IS_MASKED) BY <1>5, <1>6, <1>16 DEF IS_MASKED
    <3>2. f.op # 9 BY <1>16
    <3> QED BY <1>4, <1>16, <3>1, <3>2 DEF Payload
  <2>2. Accepted(f) BY <1>10, <1>11, <1>16
  <2>3. ASSUME ~s.torn PROVE Answers(said, s, f, m, k)
    <3>1. PICK e \in Bits : e = d /\ e = SubSeq(p, m + 1, k) /\ Len(e) = k - m
      BY <1>2, <1>16, <1>72
    <3>2. Len(e) < INT_MAX BY <1>3, <1>7, <3>1, SMT DEF INT_MAX
    <3>3. s.rest = <<>>
      <4>1. f.op # OPCODE_PING BY <1>16
      <4> QED BY <2>3, <4>1, Zenon DEF PayloadReady
    <3>5. said.rest = <<>> /\ said.text = s.text \o e /\ said.pongs = s.pongs
      <4>1. said = recvCb(c, s, e, RecvFlags(s)) BY <3>1
      <4> HIDE DEF said
      <4>2. Gives(said, s, e) BY <2>3, <3>2, <3>3, <4>1, EchoText, Zenon
      <4> QED BY <4>2, Zenon DEF Gives
    <3> HIDE DEF said
    <3>6. f.op \in DataOps /\ f.op # OPCODE_PING BY <1>16
    <3> QED BY <1>2, <3>1, <3>5, <3>6, Zenon DEF Answers
  <2> HIDE DEF said, r
  <2> QED BY <2>1, <2>2, <2>3 DEF r
<1>17. CASE f.op = 8
  <2>1. r.over = TRUE
    <3>1. r = [over |-> TRUE, s |-> IF s.closedHere THEN s ELSE close]
      BY <1>4, <1>17 DEF Payload
    <3> HIDE DEF r, close
    <3> QED BY <3>1
  <2>2. ~Accepted(f) BY <1>11, <1>17
  <2> QED BY <2>1, <2>2
<1>18. CASE f.op \notin {0, 1, 2, 8, 9}
  <2>1. r = [over |-> FALSE, s |-> s] BY <1>4, <1>18 DEF Payload
  <2>2. Accepted(f) BY <1>10, <1>11, <1>18
  <2>3. ASSUME ~s.torn PROVE Answers(s, s, f, m, k)
    <3>1. f.op \notin DataOps /\ f.op # OPCODE_PING BY <1>18
    <3>2. s.rest = <<>> BY <2>3, <3>1, Zenon DEF PayloadReady
    <3>3. s.text \o <<>> = s.text BY DEF SocketType, ByteSeq
    <3> QED BY <3>1, <3>2, <3>3, Zenon DEF Answers
  <2> HIDE DEF r
  <2> QED BY <2>1, <2>2, <2>3 DEF r
<1>19. s.len >= LEN7 \/ s.len < LEN7 BY <1>6, <1>12
<1> QED BY <1>3, <1>13, <1>14, <1>15, <1>16, <1>17, <1>18, <1>19

LEMMA XorTwice == \A a, b \in {0, 1} : Xor(Xor(a, b), b) = a
BY DEF Xor

LEMMA MaskBits == \A i \in 1..4 : Mask[i] \in {0, 1}
BY DEF Mask

(* The mask taken off again: of the sl bytes of a frame behind the m-th.   *)
Carries(x, f, m, sl) == \A j \in 1..sl : x[j] = Masked(f)[m + j]
Clears(d, x, s, sl) ==
  \A j \in 1..sl : d[j] = Xor(x[j], s.mask[((s.maskCtr + j - 1) % 4) + 1])

LEMMA Unmasks ==
  ASSUME NEW s \in SocketType, NEW f \in GoodFrames, f.masked, NEW m \in 0..Len(f.payload),
         NEW sl \in 0..Len(f.payload) - m, PayloadReady(s, f, m), NEW x, NEW d \in [1..sl -> Byte],
         Carries(x, f, m, sl), Clears(d, x, s, sl)
  PROVE  d = SubSeq(f.payload, m + 1, m + sl)
<1> DEFINE M(j) == s.mask[((s.maskCtr + j - 1) % 4) + 1]
<1>1. PICK p \in Seq({0, 1}) : p = f.payload BY SizeType
<1>2. /\ Len(p) \in Nat /\ m \in Nat /\ sl \in Nat /\ m + sl \in 0..Len(p) /\ m \in 0..m + sl
      /\ (m + sl) - m = sl
  BY <1>1
<1>3. s.maskCtr = m BY DEF PayloadReady
<1>4. ASSUME NEW j \in 1..sl PROVE Xor(x[j], M(j)) = p[m + j]
  <2>1. m + j \in 1..Len(p) BY <1>2
  <2>2. p[m + j] \in {0, 1} BY <2>1
  <2>3. PICK i \in 1..4 : i = ((m + j - 1) % 4) + 1
    <3>1. m + j - 1 \in Nat BY <1>2
    <3>2. \A a \in Nat : (a % 4) + 1 \in 1..4 OBVIOUS
    <3> QED BY <3>1, <3>2, Zenon
  <2>4. s.mask[i] = Mask[i] /\ Mask[i] \in {0, 1} BY MaskBits, Zenon DEF PayloadReady
  <2>5. x[j] = Xor(p[m + j], Mask[i])
    <3>1. PICK a : a = m + j OBVIOUS
    <3>2. a \in 1..Len(f.payload) /\ p[a] = f.payload[a] BY <1>1, <2>1, <3>1
    <3>3. Masked(f)[a] = Xor(p[a], Mask[((a - 1) % 4) + 1])
      BY <3>2, MaskedType, Zenon
    <3>4. ((a - 1) % 4) + 1 = i BY <2>3, <3>1
    <3>5. x[j] = Masked(f)[m + j] BY Zenon DEF Carries
    <3> QED BY <3>1, <3>3, <3>4, <3>5
  <2>6. M(j) = Mask[i] BY <1>3, <2>3, <2>4, Zenon
  <2> HIDE DEF M
  <2> QED BY <2>2, <2>4, <2>5, <2>6, XorTwice, Zenon
<1>40. \A j \in 1..sl : d[j] = Xor(x[j], M(j)) BY Zenon DEF Clears, M
<1> HIDE DEF M
<1>41. \A j \in 1..sl : d[j] = p[m + j] BY <1>4, <1>40
<1>6. PICK y \in Seq({0, 1}) : /\ y = SubSeq(p, m + 1, m + sl) /\ Len(y) = sl
                               /\ \A j \in 1..sl : y[j] = p[m + j]
  <2>1. /\ SubSeq(p, m + 1, m + sl) \in Seq({0, 1})
        /\ Len(SubSeq(p, m + 1, m + sl)) = (m + sl) - m
        /\ \A j \in 1..(m + sl) - m : SubSeq(p, m + 1, m + sl)[j] = p[m + j]
    BY <1>2, Pieces, SMT
  <2> QED BY <1>2, <2>1
<1>7. y \in [1..sl -> {0, 1}]
  <2>1. \A z \in Seq({0, 1}) : z \in [1..Len(z) -> {0, 1}] OBVIOUS
  <2> QED BY <1>6, <2>1, Zenon
<1>8. d = y
  <2>1. \A j \in 1..sl : d[j] = y[j] BY <1>6, <1>41
  <2>2. d = [j \in 1..sl |-> d[j]] OBVIOUS
  <2>3. y = [j \in 1..sl |-> y[j]] BY <1>7
  <2> QED BY <2>1, <2>2, <2>3
<1> QED BY <1>1, <1>6, <1>8

LEMMA FinishDoes ==
  ASSUME NEW s \in SocketType, NEW sl
  PROVE  LET t == Finish(s, sl)
             ctr == s.maskCtr + sl
             len == s.len - sl
         IN  /\ s.len = sl => Registers(t, ST_FLAGS, s.flags, s.len8, len, s.mask, ctr, s.frameCont)
             /\ s.len # sl => Registers(t, s.wsStatus, s.flags, s.len8, len, s.mask, ctr, TRUE)
             /\ t.closedHere = s.closedHere
             /\ t.text = s.text /\ t.pongs = s.pongs /\ t.rest = s.rest
<1>1. PICK a : a = s.maskCtr + sl OBVIOUS
<1>2. PICK b : b = s.len - sl OBVIOUS
<1>3. Finish(s, sl) = [s EXCEPT !.maskCtr = a, !.len = b,
            !.wsStatus = IF s.len = sl THEN ST_FLAGS ELSE s.wsStatus,
            !.frameCont = IF s.len = sl THEN s.frameCont ELSE TRUE]
  BY <1>1, <1>2, Zenon DEF Finish
<1> HIDE DEF ST_FLAGS
<1>4. CASE s.len = sl BY <1>1, <1>2, <1>3, <1>4 DEF Registers, SocketType
<1>5. CASE s.len # sl BY <1>1, <1>2, <1>3, <1>5 DEF Registers, SocketType
<1> QED BY <1>4, <1>5

LEMMA PayloadTurn ==
  ASSUME NEW c, NEW s \in SocketType, NEW f \in GoodFrames, NEW m \in 0..Len(f.payload),
         PayloadReady(s, f, m), NEW x \in ByteSeq, NEW sl \in Nat,
         sl <= Len(x), sl <= s.len, sl \in {Len(x), s.len},
         Carries(x, f, m, sl)
  PROVE  LET q == PayloadBytes(c, s, x)
             n == Len(f.payload)
             k == m + sl
         IN  /\ q.over \in BOOLEAN /\ (q.over <=> ~Accepted(f))
             /\ ~q.over =>
                  /\ q.data = SubSeq(x, sl + 1, Len(x))
                  /\ k = n => Registers(q.s, ST_FLAGS, s.flags, s.len8, n - k, s.mask, k, s.frameCont)
                  /\ k # n => Registers(q.s, ST_PAYLOAD, s.flags, s.len8, n - k, s.mask, k, TRUE)
                  /\ ~q.s.closedHere
                  /\ ~s.torn => Answers(q.s, s, f, m, k)
<1> DEFINE d == [j \in 1..sl |-> Xor(x[j], s.mask[((s.maskCtr + j - 1) % 4) + 1])]
           r == Payload(c, s, d)
           q == PayloadBytes(c, s, x)
<1>1. PICK n \in Nat : n = Len(f.payload) BY SizeType
<1>2. s.len = n - m /\ s.maskCtr = m /\ s.wsStatus = ST_PAYLOAD /\ ~s.closedHere /\ m \in 0..n
  BY <1>1 DEF PayloadReady
<1>3. Len(x) \in Nat /\ \A i \in 1..Len(x) : x[i] \in Nat BY ByteIsNat, Zenon
<1>4. sl \in 0..n - m /\ sl \in Nat /\ sl \in 0..Len(x) BY <1>2, <1>3
<1>5. PICK k \in m..n : k = m + sl BY <1>2, <1>4
<1>6. d \in ByteSeq /\ d \in [1..sl -> Byte]
  <2>1. ASSUME NEW j \in 1..sl PROVE d[j] \in Byte
    <3>1. x[j] \in Nat BY <1>3, <1>4
    <3>2. ((s.maskCtr + j - 1) % 4) + 1 \in 1..4 BY <1>2, <1>4
    <3>3. s.mask[((s.maskCtr + j - 1) % 4) + 1] \in Byte
      <4>1. s.mask \in Masks BY Zenon DEF SocketType
      <4> QED BY <3>2, <4>1, Zenon DEF Masks
    <3>4. \A a \in Nat : \A b \in Byte : Xor(a, b) \in Byte BY DEF Xor, Byte
    <3> QED BY <3>1, <3>3, <3>4, Zenon
  <2>2. d = [j \in 1..sl |-> d[j]] BY Zenon
  <2> HIDE DEF d
  <2>3. d \in [1..sl -> Byte] BY <2>1, <2>2, Zenon
  <2> QED BY <1>4, <2>3, FunctionIsBytes
<1>7. f.masked => d = SubSeq(f.payload, m + 1, k)
  <2>1. sl \in 0..Len(f.payload) - m BY <1>1, <1>4
  <2> HIDE DEF d
  <2>2. f.masked => d = SubSeq(f.payload, m + 1, m + sl)
    <3> SUFFICES ASSUME f.masked PROVE d = SubSeq(f.payload, m + 1, m + sl)
      OBVIOUS
    <3>1. Clears(d, x, s, sl) BY Zenon DEF d, Clears
    <3> QED BY <1>6, <2>1, <3>1, Unmasks, Zenon
  <2> QED BY <1>5, <2>2
<1>8. q = IF r.over THEN [over |-> TRUE, s |-> r.s, data |-> <<>>]
          ELSE [over |-> FALSE, s |-> Finish(r.s, sl), data |-> SubSeq(x, sl + 1, Len(x))]
  <2>1. sl = IF Len(x) < s.len THEN Len(x) ELSE s.len BY <1>1, <1>2, <1>3
  <2> QED BY <2>1, Zenon DEF PayloadBytes
<1> HIDE DEF d
<1>9. Taken(s, r) BY <1>6, PayloadType, Zenon
<1>10. /\ r.over \in BOOLEAN /\ (r.over <=> ~Accepted(f))
       /\ ~r.over /\ ~s.torn => Answers(r.s, s, f, m, k)
  <2>1. k \in 0..Len(f.payload) /\ m \in 0..k BY <1>1, <1>2, <1>5
  <2> QED BY <1>6, <1>7, <2>1, PayloadDoes, Zenon
<1> HIDE DEF r, q
<1>11. CASE r.over
  <2>1. q.over = TRUE BY <1>8, <1>11
  <2> QED BY <1>10, <1>11, <2>1 DEF q
<1>12. CASE ~r.over
  <2>1. q = [over |-> FALSE, s |-> Finish(r.s, sl), data |-> SubSeq(x, sl + 1, Len(x))]
    BY <1>8, <1>12, Zenon
  <2>2. q.over = FALSE /\ q.s = Finish(r.s, sl) /\ q.data = SubSeq(x, sl + 1, Len(x)) BY <2>1
  <2>3. r.s \in SocketType /\ SameParser(s, r.s) BY <1>9, <1>12, Zenon DEF Taken
  <2>4. r.s.len = n - m /\ r.s.maskCtr = m /\ r.s.flags = s.flags /\ r.s.len8 = s.len8
        /\ r.s.mask = s.mask /\ r.s.wsStatus = ST_PAYLOAD /\ r.s.frameCont = s.frameCont
        /\ ~r.s.closedHere
    BY <1>2, <2>3, Zenon DEF SameParser
  <2>5. (n - m) - sl = n - k /\ m + sl = k /\ (n - m = sl <=> k = n)
    <3>1. \A a, b, e, g \in Nat : g = b + e /\ b + e \in 0..a
            => (a - b) - e = a - g /\ (a - b = e <=> g = a)
      OBVIOUS
    <3>2. m \in Nat /\ k \in Nat /\ m + sl \in 0..n BY <1>1, <1>2, <1>4, <1>5
    <3> QED BY <1>1, <1>4, <1>5, <3>2, SMT
  <2>60. PICK u \in SocketType : u = r.s BY <2>3
  <2>61. PICK v : v = q.s OBVIOUS
  <2>62. v = Finish(u, sl) BY <2>2, <2>60, <2>61
  <2>63. PICK a : a = u.maskCtr + sl OBVIOUS
  <2>64. PICK b : b = u.len - sl OBVIOUS
  <2>65. a = k /\ b = n - k BY <2>4, <2>5, <2>60, <2>63, <2>64
  <2>66. /\ u.len = sl => Registers(v, ST_FLAGS, u.flags, u.len8, b, u.mask, a, u.frameCont)
         /\ u.len # sl => Registers(v, u.wsStatus, u.flags, u.len8, b, u.mask, a, TRUE)
         /\ v.closedHere = u.closedHere
         /\ v.text = u.text /\ v.pongs = u.pongs /\ v.rest = u.rest
    BY <2>62, <2>63, <2>64, FinishDoes
  <2>67. u.len = sl <=> k = n BY <2>4, <2>5, <2>60
  <2>6. k = n => Registers(q.s, ST_FLAGS, s.flags, s.len8, n - k, s.mask, k, s.frameCont)
    BY <2>4, <2>60, <2>61, <2>65, <2>66, <2>67, Zenon
  <2>7. k # n => Registers(q.s, ST_PAYLOAD, s.flags, s.len8, n - k, s.mask, k, TRUE)
    BY <2>4, <2>60, <2>61, <2>65, <2>66, <2>67, Zenon
  <2>8. /\ q.s.closedHere = r.s.closedHere
        /\ q.s.text = r.s.text /\ q.s.pongs = r.s.pongs /\ q.s.rest = r.s.rest
    BY <2>60, <2>61, <2>66, Zenon
  <2>9. ~s.torn => Answers(q.s, s, f, m, k)
    BY <1>10, <1>12, <2>8, Zenon DEF Answers
  <2>10. n - k = Len(f.payload) - (m + sl) BY <1>1, <1>5
  <2> QED BY <1>1, <1>5, <1>10, <1>12, <2>2, <2>4, <2>6, <2>7, <2>8, <2>9, Zenon DEF q
<1> QED BY <1>10, <1>11, <1>12
-----------------------------------------------------------------------------
(* Where a stream stands in the frames: o bytes into the i-th, of which    *)
(* all may have been taken.                                                *)
At(frames, stream, i, o) ==
  /\ i \in 1..Len(frames) /\ o \in 0..Size(frames[i])
  /\ stream = SubSeq(Bytes(frames), Begin(frames, i) + o + 1, Len(Bytes(frames)))
  /\ \A j \in 1..i - 1 : Accepted(frames[j])

LEMMA SameSequence ==
  ASSUME NEW S, NEW x \in Seq(S), NEW y \in Seq(S), Len(x) = Len(y),
         \A i \in 1..Len(x) : x[i] = y[i]
  PROVE  x = y
OBVIOUS

(* What is left of p behind its c-th.                                      *)
IsRest(z, p, c) == z = SubSeq(p, c + 1, Len(p))

LEMMA Drops ==
  ASSUME NEW S, NEW a \in Seq(S), NEW b \in Seq(S), NEW d \in 0..Len(a), NEW p \in Seq(S),
         NEW c \in 0..Len(p), IsRest(a \o b, p, c)
  PROVE  /\ c + d \in 0..Len(p) /\ Len(a) + Len(b) = Len(p) - c
         /\ IsRest(SubSeq(a, d + 1, Len(a)) \o b, p, c + d)
         /\ \A j \in 1..Len(a) : a[j] = p[c + j]
<1> DEFINE q == SubSeq(p, c + 1, Len(p))
           e == SubSeq(a, d + 1, Len(a))
           r == SubSeq(p, (c + d) + 1, Len(p))
<1>1. Len(a) \in Nat /\ Len(b) \in Nat /\ Len(p) \in Nat /\ c \in Nat /\ d \in Nat OBVIOUS
<1>2. q \in Seq(S) /\ Len(q) = Len(p) - c /\ \A j \in 1..Len(p) - c : q[j] = p[c + j]
  BY <1>1, Pieces, SMT
<1>3. Joined(S, a, b, q) BY Joins, Zenon DEF IsRest
<1>4. Len(q) = Len(a) + Len(b) BY <1>3 DEF Joined
<1>5. \A j \in 1..Len(a) : q[j] = a[j] BY <1>3, Zenon DEF Joined
<1>6. \A j \in 1..Len(b) : q[Len(a) + j] = b[j] BY <1>3, Zenon DEF Joined
<1>7. e \in Seq(S) /\ Len(e) = Len(a) - d /\ \A j \in 1..Len(a) - d : e[j] = a[d + j]
  BY <1>1, Pieces, SMT
<1>8. c + d \in 0..Len(p) BY <1>1, <1>2, <1>4
<1>9. r \in Seq(S) /\ Len(r) = Len(p) - (c + d)
      /\ \A j \in 1..Len(p) - (c + d) : r[j] = p[(c + d) + j]
  BY <1>1, <1>8, Pieces, SMT
<1> HIDE DEF q, e, r
<1>10. PICK x : x = e \o b OBVIOUS
<1>11. Joined(S, e, b, x) BY <1>7, <1>10, Joins, Zenon
<1>12. x \in Seq(S) /\ Len(x) = Len(e) + Len(b) /\ \A j \in 1..Len(e) : x[j] = e[j] BY <1>11 DEF Joined
<1>13. \A j \in 1..Len(b) : x[Len(e) + j] = b[j] BY <1>11, Zenon DEF Joined
<1>13a. PICK la \in Nat, lb \in Nat, lp \in Nat : la = Len(a) /\ lb = Len(b) /\ lp = Len(p)
  BY <1>1
<1>13b. lp - c = la + lb /\ c \in Nat /\ d \in Nat /\ Len(e) = la - d /\ Len(x) = (la - d) + lb
        /\ Len(r) = lp - (c + d) /\ d <= la
  <2>1. c \in Nat /\ d \in Nat /\ d <= la BY <1>1, <1>13a
  <2>2. lp - c = la + lb BY <1>2, <1>4, <1>13a
  <2>3. Len(e) = la - d BY <1>7, <1>13a
  <2>4. Len(r) = lp - (c + d) BY <1>9, <1>13a
  <2>5. Len(x) = Len(e) + lb BY <1>12, <1>13a
  <2> QED BY <2>1, <2>2, <2>3, <2>4, <2>5, Zenon
<1>14. Len(x) = Len(r) BY <1>13b
<1>15. ASSUME NEW j \in 1..Len(x) PROVE x[j] = r[j]
  <2>1. r[j] = p[(c + d) + j] BY <1>1, <1>8, <1>9, <1>14
  <2>2. q[d + j] = p[(c + d) + j]
    <3>1. d + j \in 1..Len(p) - c BY <1>1, <1>2, <1>4, <1>7, <1>12
    <3>2. q[d + j] = p[c + (d + j)] BY <1>2, <3>1
    <3>3. c + (d + j) = (c + d) + j BY <1>1
    <3> QED BY <3>2, <3>3, Zenon
  <2>3. CASE j <= Len(e)
    <3>1. j \in 1..Len(e) /\ d + j \in 1..Len(a) BY <1>1, <1>7, <2>3
    <3>2. x[j] = e[j] BY <1>12, <3>1
    <3>3. e[j] = a[d + j] BY <1>7, <3>1
    <3>4. q[d + j] = a[d + j] BY <1>5, <3>1
    <3> QED BY <2>1, <2>2, <3>2, <3>3, <3>4, Zenon
  <2>4. CASE j > Len(e)
    <3>1. PICK k \in 1..Len(b) : j = Len(e) + k /\ d + j = Len(a) + k
      <4>1. PICK k : k = j - (la - d) OBVIOUS
      <4>2. j \in 1..(la - d) + lb /\ j > la - d BY <1>13b, <2>4
      <4>3. k \in 1..lb /\ j = (la - d) + k /\ d + j = la + k BY <1>13b, <4>1, <4>2
      <4> QED BY <1>13a, <1>13b, <4>3, Zenon
    <3>2. x[j] = b[k] BY <1>13, <3>1
    <3>3. q[d + j] = b[k] BY <1>6, <3>1
    <3> QED BY <2>1, <2>2, <3>2, <3>3, Zenon
  <2> QED BY <1>1, <1>7, <1>12, <2>3, <2>4
<1>16. x = r BY <1>9, <1>12, <1>14, <1>15, SameSequence, Zenon
<1>17. ASSUME NEW j \in 1..Len(a) PROVE a[j] = p[c + j]
  <2>1. j \in 1..Len(p) - c BY <1>13a, <1>13b
  <2> QED BY <1>2, <1>5, <2>1, Zenon
<1>18. IsRest(e \o b, p, c + d) BY <1>10, <1>16, Zenon DEF r, IsRest
<1> QED BY <1>2, <1>4, <1>8, <1>17, <1>18 DEF e

LEMMA AtFacts ==
  ASSUME NEW frames \in Seq(GoodFrames), NEW stream, NEW i, NEW o, At(frames, stream, i, o)
  PROVE  LET f == frames[i] IN
         /\ f \in GoodFrames /\ i \in 1..Len(frames) /\ o \in 0..Size(f)
         /\ Begin(frames, i) + o \in 0..Len(Bytes(frames))
         /\ stream \in ByteSeq /\ Len(stream) >= Size(f) - o
         /\ i = Len(frames) => Len(stream) = Size(f) - o
         /\ \A j \in 1..Len(stream) : o + j <= Size(f) => stream[j] = Encode(f)[o + j]
<1> DEFINE f == frames[i]
<1>1. i \in 1..Len(frames) /\ o \in 0..Size(f) /\ f \in GoodFrames BY DEF At
<1>2. PICK n \in Nat : n = Size(f) BY <1>1, SizeType
<1>3. PICK p \in Seq(Byte) : p = Bytes(frames) BY BytesWhole
<1>4. PICK b \in Nat : b = Begin(frames, i) BY <1>1, BytesWhole
<1>5. i + 1 \in 1..Len(frames) + 1 /\ Len(frames) + 1 \in i + 1..Len(frames) + 1
  BY <1>1
<1>6. Len(p) >= b + n
  <2>1. Begin(frames, Len(frames) + 1) = Len(p) BY <1>3, BytesWhole, Zenon
  <2>2. Begin(frames, Len(frames) + 1) >= Begin(frames, i) + Size(f) BY <1>1, <1>5, BeginLater
  <2> QED BY <1>2, <1>4, <2>1, <2>2
<1>7. i = Len(frames) => Len(p) = b + n
  <2>1. Begin(frames, Len(frames) + 1) = Len(p) BY <1>3, BytesWhole, Zenon
  <2>2. Begin(frames, i + 1) = b + n BY <1>1, <1>2, <1>4, BeginNext
  <2> QED BY <2>1, <2>2
<1>8. \A k \in 1..n : p[b + k] = Encode(f)[k] BY <1>1, <1>2, <1>3, <1>4, BeginNext
<1>9. b + o \in 0..Len(p) /\ o \in 0..n BY <1>1, <1>2, <1>4, <1>6
<1>10. stream = SubSeq(p, (b + o) + 1, Len(p)) BY <1>3, <1>4 DEF At
<1>11. /\ stream \in Seq(Byte) /\ Len(stream) = Len(p) - (b + o)
       /\ \A j \in 1..Len(p) - (b + o) : stream[j] = p[(b + o) + j]
  <2>1. Len(p) \in 0..Len(p) OBVIOUS
  <2>2. PICK c \in 0..Len(p) : c = b + o BY <1>9
  <2>3. /\ SubSeq(p, c + 1, Len(p)) \in Seq(Byte)
        /\ Len(SubSeq(p, c + 1, Len(p))) = Len(p) - c
        /\ \A j \in 1..Len(p) - c : SubSeq(p, c + 1, Len(p))[j] = p[c + j]
    BY <2>1, Pieces, SMT
  <2> QED BY <1>10, <2>2, <2>3, Zenon
<1>12. ASSUME NEW j \in 1..Len(stream), o + j <= n PROVE stream[j] = Encode(f)[o + j]
  <2>1. stream[j] = p[(b + o) + j] BY <1>11
  <2>2. (b + o) + j = b + (o + j) /\ o + j \in 1..n BY <1>4, <1>9, <1>11, <1>12
  <2> QED BY <1>8, <2>1, <2>2, Zenon
<1>13. Len(stream) >= n - o /\ (i = Len(frames) => Len(stream) = n - o)
  <2>1. PICK lp \in Nat : lp = Len(p) OBVIOUS
  <2>2. Len(stream) = lp - (b + o) /\ lp >= b + n /\ o \in Nat BY <1>6, <1>9, <1>11, <2>1
  <2>3. lp = b + n => lp - (b + o) = n - o BY <2>2
  <2> QED BY <1>7, <2>1, <2>2, <2>3
<1> QED BY <1>1, <1>2, <1>3, <1>4, <1>9, <1>11, <1>12, <1>13 DEF ByteSeq

LEMMA AtOf ==
  ASSUME NEW s \in SocketType, NEW stream, stream # <<>>, NEW i, NEW o,
         Located(s, stream, i, o)
  PROVE  At(s.said, stream, i, o) /\ o < Size(s.said[i])
<1>1. s.said \in Seq(GoodFrames) BY Zenon DEF SocketType, GoodSeq
<1>2. PICK frames \in Seq(GoodFrames) : frames = s.said BY <1>1
<1>3. CASE i > Len(frames)
  <2>1. i = Len(frames) + 1 /\ o = 0 BY <1>2, <1>3 DEF Located
  <2>2. PICK p \in Seq(Byte) : p = Bytes(frames) BY BytesWhole
  <2>3. Begin(frames, i) = Len(p) BY <2>1, <2>2, BytesWhole, Zenon
  <2>4. stream = SubSeq(p, Len(p) + 0 + 1, Len(p)) BY <1>2, <2>1, <2>2, <2>3 DEF Located
  <2>5. stream = <<>> BY <2>4
  <2> QED BY <2>5
<1>4. CASE i <= Len(frames)
  <2>1. i \in 1..Len(frames) /\ o \in Nat /\ o < Size(frames[i]) BY <1>2, <1>4 DEF Located
  <2>2. frames[i] \in GoodFrames BY <2>1
  <2>3. Size(frames[i]) \in Nat BY <2>2, SizeType
  <2>4. o \in 0..Size(frames[i]) BY <2>1, <2>3
  <2> QED BY <1>2, <2>1, <2>4, Zenon DEF At, Located
<1>5. i \in Nat /\ Len(frames) \in Nat BY <1>2 DEF Located
<1> QED BY <1>3, <1>4, <1>5

LEMMA OfAt ==
  ASSUME NEW s \in SocketType, NEW stream, NEW i, NEW o, At(s.said, stream, i, o)
  PROVE  LET f == s.said[i] IN
         /\ o < Size(f) => Located(s, stream, i, o)
         /\ o = Size(f) /\ Accepted(f) => Located(s, stream, i + 1, 0)
<1> DEFINE f == s.said[i]
<1>1. s.said \in Seq(GoodFrames) BY Zenon DEF SocketType, GoodSeq
<1>2. PICK frames \in Seq(GoodFrames) : frames = s.said BY <1>1
<1>3. i \in 1..Len(frames) /\ o \in 0..Size(f) /\ f \in GoodFrames /\ f = frames[i] BY <1>2 DEF At
<1>4. Size(f) \in Nat /\ o \in Nat BY <1>3, SizeType
<1>5. ASSUME o < Size(f) PROVE Located(s, stream, i, o)
  <2>1. i \in 1..Len(s.said) + 1 /\ ~(i > Len(s.said)) BY <1>2, <1>3
  <2> QED BY <1>4, <1>5, <2>1, Zenon DEF At, Located
<1>6. ASSUME o = Size(f), Accepted(f) PROVE Located(s, stream, i + 1, 0)
  <2>1. i + 1 \in 1..Len(frames) + 1 /\ i \in Nat /\ (i + 1) - 1 = i BY <1>3
  <2>2. Begin(frames, i) \in Nat /\ Begin(frames, i + 1) = Begin(frames, i) + o
    BY <1>3, <1>6, <2>1, BeginNext, BytesWhole
  <2>3. stream = SubSeq(Bytes(frames), Begin(frames, i + 1) + 0 + 1, Len(Bytes(frames)))
    <3>1. stream = SubSeq(Bytes(frames), Begin(frames, i) + o + 1, Len(Bytes(frames)))
      BY <1>2, Zenon DEF At
    <3>2. Begin(frames, i) + o + 1 = Begin(frames, i + 1) + 0 + 1 BY <1>4, <2>2
    <3> QED BY <3>1, <3>2, Zenon
  <2>4. ASSUME i + 1 <= Len(frames) PROVE 0 < Size(frames[i + 1])
    <3>1. frames[i + 1] \in GoodFrames BY <2>1, <2>4
    <3> QED BY <3>1, HeaderLength, SizeType
  <2>5. \A j \in 1..i : Accepted(frames[j])
    <3>1. \A j \in 1..i - 1 : Accepted(frames[j]) BY <1>2, Zenon DEF At
    <3>2. \A j \in 1..i : j \in 1..i - 1 \/ j = i BY <2>1
    <3> QED BY <1>3, <1>6, <3>1, <3>2
  <2> QED BY <1>2, <2>1, <2>3, <2>4, <2>5 DEF Located
<1> QED BY <1>5, <1>6

(* d bytes taken of what a packet holds.                                   *)
LEMMA Advances ==
  ASSUME NEW frames \in Seq(GoodFrames), NEW a \in ByteSeq, NEW b \in ByteSeq, NEW i, NEW o,
         At(frames, a \o b, i, o), NEW d \in 0..Len(a), o + d <= Size(frames[i])
  PROVE  /\ At(frames, SubSeq(a, d + 1, Len(a)) \o b, i, o + d)
         /\ \A j \in 1..Len(a) : o + j <= Size(frames[i]) => a[j] = Encode(frames[i])[o + j]
<1> DEFINE f == frames[i]
<1>1. PICK p \in Seq(Byte) : p = Bytes(frames) BY BytesWhole
<1>2. i \in 1..Len(frames) /\ o \in 0..Size(f) /\ f \in GoodFrames BY DEF At
<1>3. PICK n \in Nat : n = Size(f) BY <1>2, SizeType
<1>4. PICK e \in Nat : e = Begin(frames, i) BY <1>2, BytesWhole
<1>5. e + o \in 0..Len(p) BY <1>1, <1>4, AtFacts, Zenon
<1>6. a \o b = SubSeq(p, (e + o) + 1, Len(p)) BY <1>1, <1>4 DEF At
<1>7. a \in Seq(Byte) /\ b \in Seq(Byte) BY DEF ByteSeq
<1>8. SubSeq(a, d + 1, Len(a)) \o b = SubSeq(p, ((e + o) + d) + 1, Len(p))
  <2>1. PICK c : c = e + o OBVIOUS
  <2>2. c \in 0..Len(p) /\ IsRest(a \o b, p, c) BY <1>5, <1>6, <2>1 DEF IsRest
  <2>3. IsRest(SubSeq(a, d + 1, Len(a)) \o b, p, c + d)
    BY <1>7, <2>2, Drops, Zenon
  <2> QED BY <2>1, <2>3, Zenon DEF IsRest
<1>9. ((e + o) + d) + 1 = e + (o + d) + 1 /\ o + d \in 0..n
  BY <1>2, <1>3, <1>4
<1>10. At(frames, SubSeq(a, d + 1, Len(a)) \o b, i, o + d)
  BY <1>1, <1>2, <1>3, <1>4, <1>8, <1>9, Zenon DEF At
<1>11. PICK z : z = a \o b OBVIOUS
<1>12. Joined(Byte, a, b, z) BY <1>7, <1>11, Joins, Zenon
<1>13. Len(z) = Len(a) + Len(b) /\ Len(a) \in Nat /\ Len(b) \in Nat
       /\ \A j \in 1..Len(a) : z[j] = a[j]
  BY <1>12 DEF Joined
<1>14. \A j \in 1..Len(z) : o + j <= Size(f) => z[j] = Encode(f)[o + j]
  <2>1. At(frames, z, i, o) BY <1>11, Zenon
  <2> QED BY <2>1, AtFacts, SMT
<1>15. \A j \in 1..Len(a) : j \in 1..Len(z) BY <1>13
<1> QED BY <1>10, <1>13, <1>14, <1>15, Zenon

(* The places a turn can come from and go to.                              *)
Told(s, i, m) ==
  ~s.torn =>
    /\ s.text = DataOf(s.said, Begin(s.said, i) + (Len(Header(s.said[i])) + m))
    /\ s.pongs = PingsOf(s.said, Begin(s.said, i))

LEMMA AcceptedIsMasked ==
  ASSUME NEW f \in GoodFrames, Accepted(f)
  PROVE  f.masked
<1>1. f.masked \/ f.op \in DataOps BY DEF GoodFrames
<1> QED BY <1>1 DEF Accepted, Refused, DataOps

LEMMA FrameBegins ==
  ASSUME NEW s, NEW f \in GoodFrames, s.wsStatus = ST_FLAGS
  PROVE  HeaderAt(s, f, 0) /\ PayloadAt(s, f, 0)
<1>1. /\ Head2(f) \in {2, 4, 10} /\ Len(Header(f)) \in {Head2(f), Head2(f) + 4}
  BY HeaderLength
<1>2. \A j \in 1..4 : ~(0 >= Head2(f) + j) BY <1>1
<1>3. ~(0 \in Head2(f)..Len(Header(f))) /\ ~(0 >= Len(Header(f))) BY <1>1
<1>4. ~(0 >= 1) /\ ~(0 >= 2) /\ ~(0 \in 2..Head2(f) - 1) /\ ~(0 \in 1..Len(Header(f)))
      /\ ~(0 \in 1..Len(Header(f)) - 1)
  BY <1>1
<1>5. s.wsStatus = StatusAt(f, 0) BY DEF StatusAt
<1> QED BY <1>2, <1>3, <1>4, <1>5, Zenon DEF HeaderAt, PayloadAt

LEMMA PayloadIsAt ==
  ASSUME NEW s, NEW f \in GoodFrames, Accepted(f), NEW k \in Nat, k < Len(f.payload),
         s.wsStatus = ST_PAYLOAD, s.flags = Flags(f.op, f.fin), s.len8 = Header(f)[2],
         s.len = Len(f.payload) - k, s.maskCtr = k, s.frameCont,
         \A j \in 1..4 : s.mask[j] = Mask[j]
  PROVE  HeaderAt(s, f, Len(Header(f)) + k) /\ PayloadAt(s, f, Len(Header(f)) + k)
<1>1. PICK h \in Nat : h = Len(Header(f)) BY SizeType
<1>2. PICK e \in Nat : e = Head2(f) /\ e \in {2, 4, 10} /\ h >= e BY <1>1, HeaderLength
<1>3. PICK n \in Nat : n = Len(f.payload) BY SizeType
<1>4. PICK o \in Nat : o = h + k BY <1>1
<1>5. o >= h /\ o - h = k /\ ~(o = 0) /\ ~(o = 1) /\ ~(o < e) /\ ~(o < h)
  <2>1. h >= 2 /\ h >= e BY <1>2
  <2>2. o >= h /\ o - h = k BY <1>4
  <2> QED BY <2>1, <2>2
<1>6. s.wsStatus = StatusAt(f, o) BY <1>1, <1>2, <1>5, Zenon DEF StatusAt
<1>7. ~(o \in 2..e - 1) /\ ~(o \in 1..h - 1) /\ (o \in e..h => k = 0) /\ (o \in 1..h => k = 0)
  BY <1>1, <1>2, <1>4
<1>8. k = 0 => n - k = n BY <1>3
<1>9. HeaderAt(s, f, o) BY <1>1, <1>2, <1>3, <1>6, <1>7, <1>8, Zenon DEF HeaderAt
<1>10. PayloadAt(s, f, o) BY <1>1, <1>3, <1>5, Zenon DEF PayloadAt
<1> QED BY <1>1, <1>4, <1>9, <1>10

LEMMA IsGood ==
  ASSUME NEW s \in SocketType, NEW stream, NEW i, NEW o,
         At(s.said, stream, i, o), o < Size(s.said[i]),
         HeaderAt(s, s.said[i], o), PayloadAt(s, s.said[i], o), Answered(s, i, o)
  PROVE  Good(s, stream)
<1>1. s.said \in Seq(GoodFrames) BY Zenon DEF SocketType, GoodSeq
<1>2. PICK frames \in Seq(GoodFrames) : frames = s.said BY <1>1
<1>3. i \in 1..Len(frames) /\ o \in 0..Size(frames[i]) BY <1>2 DEF At
<1>4. i \in 1..Len(s.said) + 1 /\ ~(i > Len(s.said)) BY <1>2, <1>3
<1>5. frames[i] \in GoodFrames BY <1>3
<1>6. Begin(frames, i) \in Nat /\ Size(frames[i]) \in Nat /\ Bytes(frames) \in Seq(Byte)
  BY <1>2, <1>3, <1>4, <1>5, SizeType, BytesWhole
<1>7. Begin(frames, i) + o \in 0..Len(Bytes(frames)) BY <1>2, AtFacts, Zenon
<1>8. o \in 0..Len(Bytes(s.said)) BY <1>2, <1>3, <1>6, <1>7
<1>9. Located(s, stream, i, o) BY OfAt, Zenon
<1>10. Parsed(s, i, o) BY <1>4, Zenon DEF Parsed
<1> QED BY <1>4, <1>8, <1>9, <1>10, Zenon DEF Good

(* A frame is taken: the next one begins.                                  *)
LEMMA IsGoodNext ==
  ASSUME NEW s \in SocketType, NEW stream, NEW i,
         At(s.said, stream, i, Size(s.said[i])), Accepted(s.said[i]),
         s.wsStatus = ST_FLAGS,
         ~s.torn => /\ s.text = DataOf(s.said, Begin(s.said, i) + Size(s.said[i]))
                    /\ s.pongs = PingsOf(s.said, Begin(s.said, i) + Size(s.said[i]))
                    /\ s.rest = <<>>
  PROVE  Good(s, stream)
<1>1. s.said \in Seq(GoodFrames) BY Zenon DEF SocketType, GoodSeq
<1>2. PICK frames \in Seq(GoodFrames) : frames = s.said BY <1>1
<1>3. i \in 1..Len(frames) BY <1>2 DEF At
<1>4. i + 1 \in 1..Len(s.said) + 1 /\ frames[i] \in GoodFrames BY <1>2, <1>3
<1>5. Located(s, stream, i + 1, 0) BY OfAt, Zenon
<1>6a. i \in 1..Len(frames) + 1 /\ frames[i] \in GoodFrames BY <1>3
<1>6. ASSUME ~(i + 1 > Len(frames)) PROVE frames[i + 1] \in GoodFrames BY <1>3, <1>6
<1>7. Parsed(s, i + 1, 0)
  <2>1. CASE i + 1 > Len(s.said) BY <2>1 DEF Parsed
  <2>2. CASE ~(i + 1 > Len(s.said))
    <3>1. s.said[i + 1] \in GoodFrames BY <1>2, <1>6, <2>2
    <3> QED BY <2>2, <3>1, FrameBegins, Zenon DEF Parsed
  <2> QED BY <2>1, <2>2
<1>8. RestAt(frames, i + 1, 0) = <<>>
  <2>1. CASE ~(i + 1 <= Len(frames)) BY <2>1, Zenon DEF RestAt
  <2>2. CASE i + 1 <= Len(frames)
    <3>1. frames[i + 1] \in GoodFrames BY <1>3, <2>2
    <3>2. Len(Header(frames[i + 1])) \in Nat /\ Len(Header(frames[i + 1])) >= 2
      BY <3>1, HeaderLength, SizeType
    <3>3. ~(0 >= Len(Header(frames[i + 1]))) BY <3>2
    <3> QED BY <3>3, Zenon DEF RestAt
  <2> QED BY <2>1, <2>2
<1>9. Begin(frames, i) \in Nat /\ Begin(frames, i + 1) + 0 = Begin(frames, i) + Size(frames[i])
  <2>1. Begin(frames, i) \in Nat /\ Size(frames[i]) \in Nat
    BY <1>2, <1>3, <1>6a, BytesWhole, SizeType, Zenon
  <2> QED BY <1>3, <2>1, BeginNext
<1>10. Answered(s, i + 1, 0) BY <1>2, <1>8, <1>9, Zenon DEF Answered
<1>11. 0 \in 0..Len(Bytes(s.said)) BY <1>2, BytesWhole
<1> QED BY <1>4, <1>5, <1>7, <1>10, <1>11, Zenon DEF Good

LEMMA HeadOfData ==
  ASSUME NEW a \in ByteSeq, a # <<>>
  PROVE  /\ Head(a) = a[1] /\ Head(a) \in Byte /\ Tail(a) \in ByteSeq
         /\ Tail(a) = SubSeq(a, 1 + 1, Len(a)) /\ 1 \in 0..Len(a) /\ 1 \in 1..Len(a)
         /\ Len(a) \in Nat /\ Len(Tail(a)) = Len(a) - 1
BY DEF ByteSeq

LEMMA HeadTurn ==
  ASSUME NEW s \in SocketType, NEW a \in ByteSeq, a # <<>>, NEW b \in ByteSeq, NEW i, NEW o,
         At(s.said, a \o b, i, o), o < Len(Header(s.said[i])), HeaderAt(s, s.said[i], o),
         Answered(s, i, o), ~s.closedHere
  PROVE  LET f == s.said[i]
             t == HeaderByte(s, Head(a))
         IN  /\ s.wsStatus # ST_PAYLOAD /\ t \in SocketType /\ Untouched(s, t) /\ ~t.closedHere
             /\ t.wsStatus = ST_PAYLOAD <=> o + 1 = Len(Header(f))
             /\ t.wsStatus # ST_PAYLOAD => Good(t, Tail(a) \o b)
             /\ t.wsStatus = ST_PAYLOAD =>
                  /\ At(t.said, Tail(a) \o b, i, Len(Header(f)) + 0)
                  /\ PayloadReady(t, f, 0) /\ Told(t, i, 0)
<1> DEFINE x == Tail(a)
           y == Head(a)
<1>1. s.said \in Seq(GoodFrames) BY Zenon DEF SocketType, GoodSeq
<1>2. PICK frames \in Seq(GoodFrames) : frames = s.said BY <1>1
<1>3. PICK f \in GoodFrames : f = frames[i] /\ i \in 1..Len(frames) BY <1>2, AtFacts, Zenon
<1>4. PICK h \in Nat : h = Len(Header(f)) /\ h >= 2 BY SizeType, HeaderLength
<1>5. PICK n \in Nat : n = Len(f.payload) BY SizeType
<1>6. PICK z \in Nat : z = Size(f) /\ z = h + n BY <1>4, <1>5, SizeType
<1>7. o \in 0..z /\ o < h BY <1>2, <1>3, <1>4, <1>6, AtFacts
<1>8. o \in 0..h - 1 /\ o \in Nat /\ o + 1 \in 1..h /\ o + 1 <= z /\ o <= h /\ o \in 0..h /\ o + 1 \in 0..h
  BY <1>4, <1>6, <1>7
<1>9. y = a[1] /\ y \in Byte /\ x \in ByteSeq /\ x = SubSeq(a, 1 + 1, Len(a)) /\ 1 \in 0..Len(a)
      /\ 1 \in 1..Len(a)
  BY HeadOfData
<1> HIDE DEF x, y
<1>10. /\ At(frames, SubSeq(a, 1 + 1, Len(a)) \o b, i, o + 1)
       /\ \A j \in 1..Len(a) : o + j <= Size(frames[i]) => a[j] = Encode(frames[i])[o + j]
  <2>1. At(frames, a \o b, i, o) /\ o + 1 <= Size(frames[i]) BY <1>2, <1>3, <1>6, <1>8
  <2>2. PICK d : d = 1 OBVIOUS
  <2>3. d \in 0..Len(a) /\ o + d <= Size(frames[i]) BY <1>9, <2>1, <2>2
  <2>4. /\ At(frames, SubSeq(a, d + 1, Len(a)) \o b, i, o + d)
        /\ \A j \in 1..Len(a) : o + j <= Size(frames[i]) => a[j] = Encode(frames[i])[o + j]
    BY <2>1, <2>3, Advances, SMT
  <2> QED BY <2>2, <2>4, Zenon
<1>11. y = Header(f)[o + 1]
  <2>1. a[1] = Encode(f)[o + 1] BY <1>3, <1>6, <1>8, <1>9, <1>10
  <2>2. Encode(f)[o + 1] = Header(f)[o + 1] BY <1>4, <1>8, SizeType, Zenon
  <2> QED BY <1>9, <2>1, <2>2
<1>12. PICK t : t = HeaderByte(s, y) OBVIOUS
<1>13. HeaderAt(s, f, o) /\ Answered(s, i, o) BY <1>2, <1>3
<1>14. s.wsStatus # ST_PAYLOAD /\ HeaderAt(t, f, o + 1) /\ ~t.frameCont
       /\ (t.wsStatus = ST_PAYLOAD <=> o + 1 = h)
  <2>1. o \in 0..Len(Header(f)) - 1 BY <1>4, <1>8
  <2> QED BY <1>4, <1>11, <1>12, <1>13, <2>1, HeaderStep, Zenon
<1>15. t \in SocketType /\ SameAnswers(s, t) BY <1>9, <1>12, <1>14, HeaderByteType, Zenon
<1>16. /\ Untouched(s, t) /\ t.said = frames /\ t.torn = s.torn /\ ~t.closedHere
       /\ t.text = s.text /\ t.pongs = s.pongs /\ t.rest = s.rest
  BY <1>2, <1>15, Zenon DEF SameAnswers, Untouched
<1>17. At(t.said, x \o b, i, o + 1) BY <1>9, <1>10, <1>16, Zenon
<1>18. PICK e : e = Begin(frames, i) OBVIOUS
<1>19. DataOf(frames, e + (o + 1)) = DataOf(frames, e) /\ DataOf(frames, e + o) = DataOf(frames, e)
  <2>1. \A j \in 0..Len(Header(frames[i])) : DataOf(frames, e + j) = DataOf(frames, e)
    BY <1>3, <1>18, DataGrows, Zenon
  <2> QED BY <1>3, <1>4, <1>8, <2>1
<1>20. PingsOf(frames, e + o) = PingsOf(frames, e)
       /\ (o + 1 < h => PingsOf(frames, e + (o + 1)) = PingsOf(frames, e))
  <2>1. \A j \in 0..Size(frames[i]) : j < Size(frames[i]) => PingsOf(frames, e + j) = PingsOf(frames, e)
    BY <1>3, <1>18, PingsGrow, Zenon
  <2>2. o \in 0..z /\ o < z /\ o + 1 \in 0..z /\ (o + 1 < h => o + 1 < z) BY <1>6, <1>8
  <2> QED BY <1>3, <1>6, <2>1, <2>2
<1>21. RestAt(frames, i, o) = <<>> /\ (o + 1 < h => RestAt(frames, i, o + 1) = <<>>)
  <2>1. ~(o >= h) /\ (o + 1 < h => ~(o + 1 >= h)) BY <1>4, <1>8
  <2> QED BY <1>3, <1>4, <2>1, Zenon DEF RestAt
<1>22. ~t.torn => t.text = DataOf(frames, e) /\ t.pongs = PingsOf(frames, e) /\ t.rest = <<>>
  BY <1>2, <1>13, <1>16, <1>18, <1>19, <1>20, <1>21, Zenon DEF Answered
<1>23. ASSUME t.wsStatus # ST_PAYLOAD PROVE Good(t, x \o b)
  <2>1. o + 1 < h /\ o + 1 < z /\ ~(o + 1 >= h) BY <1>4, <1>6, <1>8, <1>14, <1>23
  <2>2. PayloadAt(t, f, o + 1) BY <1>4, <2>1, Zenon DEF PayloadAt
  <2>3. Answered(t, i, o + 1)
    <3>1. RestAt(frames, i, o + 1) = <<>> /\ PingsOf(frames, e + (o + 1)) = PingsOf(frames, e)
      BY <1>20, <1>21, <2>1
    <3> QED BY <1>16, <1>18, <1>19, <1>22, <3>1, Zenon DEF Answered
  <2> QED BY <1>3, <1>6, <1>14, <1>15, <1>16, <1>17, <2>1, <2>2, <2>3, IsGood, Zenon
<1>24. ASSUME t.wsStatus = ST_PAYLOAD
       PROVE  At(t.said, x \o b, i, h + 0) /\ PayloadReady(t, f, 0) /\ Told(t, i, 0)
  <2>1. o + 1 = h BY <1>14, <1>24
  <2>2. h + 0 = h /\ n - 0 = n BY <1>4, <1>5
  <2>3. PICK k : k = o + 1 OBVIOUS
  <2>4. HeaderAt(t, f, h) BY <1>14, <2>1
  <2>5. PICK g \in Nat : g = Head2(f) /\ g \in {2, 4, 10} /\ h \in {g, g + 4} BY <1>4, HeaderLength
  <2>6. h >= 1 /\ h >= 2 /\ h \in g..h /\ h \in 1..h BY <1>4, <2>5
  <2>7. t.flags = Flags(f.op, f.fin) /\ t.len8 = Header(f)[2] /\ t.len = n /\ t.maskCtr = 0
    BY <1>4, <1>5, <2>4, <2>5, <2>6, Zenon DEF HeaderAt
  <2>8. f.masked => \A j \in 1..4 : t.mask[j] = Mask[j]
    <3>1. f.masked => h = g + 4
      <4>1. Len(Header(f)) = Head2(f) + (IF f.masked THEN 4 ELSE 0) BY HeaderParts, Zenon
      <4> QED BY <1>4, <2>5, <4>1
    <3>2. \A j \in 1..4 : f.masked => h >= g + j BY <2>5, <3>1
    <3> QED BY <2>4, <2>5, <3>2, Zenon DEF HeaderAt
  <2>9. PayloadReady(t, f, 0)
    BY <1>5, <1>14, <1>16, <1>22, <1>24, <2>2, <2>7, <2>8, Zenon DEF PayloadReady
  <2>10. Told(t, i, 0)
    <3>1. DataOf(frames, e + (h + 0)) = DataOf(frames, e) BY <1>19, <2>1, <2>2
    <3> QED BY <1>3, <1>4, <1>16, <1>18, <1>22, <3>1, Zenon DEF Told
  <2> QED BY <1>17, <2>1, <2>2, <2>9, <2>10
<1> QED BY <1>2, <1>3, <1>4, <1>12, <1>14, <1>15, <1>16, <1>23, <1>24, Zenon DEF x, y

(* A socket ends over a frame that is refused, or the last that was sent.  *)
LEMMA IsOver ==
  ASSUME NEW frames \in Seq(GoodFrames), ClosedLast(frames), NEW x \in ByteSeq, NEW b \in ByteSeq,
         NEW i, NEW o, At(frames, x \o b, i, o), o >= Len(Header(frames[i])),
         ~Accepted(frames[i])
  PROVE  Over(frames, b)
<1>1. PICK f \in GoodFrames : f = frames[i] /\ i \in 1..Len(frames) BY AtFacts, Zenon
<1>2. CASE Refused(f)
  <2>1. i \in DOMAIN frames BY <1>1
  <2> QED BY <1>1, <1>2, <2>1, Zenon DEF Over
<1>3. CASE ~Refused(f)
  <2>1. f.op = OPCODE_CLOSE BY <1>1, <1>3, Zenon DEF Accepted
  <2>2. i = Len(frames)
    <3>1. i \in 1..Len(frames) - 1 \/ i = Len(frames) BY <1>1
    <3> QED BY <1>1, <2>1, <3>1, Zenon DEF ClosedLast
  <2>3. PICK z : z = x \o b OBVIOUS
  <2>4. At(frames, z, i, o) BY <2>3, Zenon
  <2>5. Len(z) = Size(f) - o /\ o \in 0..Size(f) BY <1>1, <2>2, <2>4, AtFacts, SMT
  <2>6. Joined(Byte, x, b, z) BY <2>3, Joins, Zenon DEF ByteSeq
  <2>7. Len(z) = Len(x) + Len(b) /\ Len(x) \in Nat /\ Len(b) \in Nat BY <2>6 DEF Joined
  <2>8. PICK h \in Nat, n \in Nat : h = Len(Header(f)) /\ n = Len(f.payload) /\ Size(f) = h + n
    BY SizeType
  <2>9. Len(b) <= n
    <3>1. PICK lx \in Nat, lb \in Nat : lx = Len(x) /\ lb = Len(b) BY <2>7
    <3>2. lx + lb = (h + n) - o /\ o \in 0..h + n /\ o >= h
      BY <1>1, <2>5, <2>7, <2>8, <3>1
    <3>3. lb <= n BY <3>2
    <3> QED BY <3>1, <3>3
  <2>10. frames # <<>> /\ frames[Len(frames)].op = OPCODE_CLOSE BY <1>1, <2>1, <2>2
  <2> QED BY <1>1, <2>2, <2>8, <2>9, <2>10, Zenon DEF Over
<1> QED BY <1>2, <1>3

LEMMA PayloadStep ==
  ASSUME NEW c, NEW u \in SocketType, ClosedLast(u.said), NEW x \in ByteSeq, NEW b \in ByteSeq,
         NEW i, NEW m \in 0..Len(u.said[i].payload),
         At(u.said, x \o b, i, Len(Header(u.said[i])) + m),
         PayloadReady(u, u.said[i], m), Told(u, i, m)
  PROVE  LET q == PayloadBytes(c, u, x) IN
         /\ q.over => Over(u.said, b)
         /\ ~q.over => Good(q.s, q.data \o b) /\ ~q.s.closedHere
<1>1. u.said \in Seq(GoodFrames) BY Zenon DEF SocketType, GoodSeq
<1>2. PICK frames \in Seq(GoodFrames) : frames = u.said BY <1>1
<1>3. PICK f \in GoodFrames : f = frames[i] /\ i \in 1..Len(frames) BY <1>2, AtFacts, Zenon
<1>4. PICK h \in Nat : h = Len(Header(f)) /\ h >= 2 BY SizeType, HeaderLength
<1>5. PICK n \in Nat : n = Len(f.payload) BY SizeType
<1>6. PICK z \in Nat : z = Size(f) /\ z = h + n BY <1>4, <1>5, SizeType
<1>7. m \in 0..n /\ u.len = n - m BY <1>2, <1>3, <1>5 DEF PayloadReady
<1>8. PICK lx \in Nat : lx = Len(x) BY ByteIsNat
<1>9. PICK sl \in Nat : sl <= lx /\ sl <= n - m /\ sl \in {lx, n - m}
  <2>1. PICK d \in Nat : d = n - m BY <1>7
  <2>2. \A y \in Nat : (lx <= d /\ y = lx) \/ (lx > d /\ y = d) =>
          y <= lx /\ y <= d /\ y \in {lx, d}
    OBVIOUS
  <2>3. lx <= d \/ lx > d OBVIOUS
  <2> QED BY <2>1, <2>2, <2>3, Zenon
<1>10. PICK k \in Nat : k = m + sl /\ k \in 0..n /\ m \in 0..k BY <1>7, <1>9
<1>11. At(frames, x \o b, i, h + m) BY <1>2, <1>3, <1>4
<1>12. /\ At(frames, SubSeq(x, sl + 1, Len(x)) \o b, i, (h + m) + sl)
       /\ \A j \in 1..Len(x) : (h + m) + j <= z => x[j] = Encode(f)[(h + m) + j]
  <2>1. PICK o : o = h + m OBVIOUS
  <2>2. sl \in 0..Len(x) /\ o + sl <= Size(frames[i]) BY <1>3, <1>6, <1>7, <1>8, <1>9, <2>1
  <2>3. At(frames, x \o b, i, o) BY <1>11, <2>1
  <2>4. /\ At(frames, SubSeq(x, sl + 1, Len(x)) \o b, i, o + sl)
        /\ \A j \in 1..Len(x) : o + j <= Size(frames[i]) => x[j] = Encode(frames[i])[o + j]
    BY <2>2, <2>3, Advances, SMT
  <2> QED BY <1>3, <1>6, <2>1, <2>4, Zenon
<1>13. Carries(x, f, m, sl)
  <2> SUFFICES ASSUME NEW j \in 1..sl PROVE x[j] = Masked(f)[m + j]
    BY Zenon DEF Carries
  <2>1. j \in 1..Len(x) /\ (h + m) + j <= z /\ m + j \in 1..n /\ (h + m) + j = h + (m + j)
    BY <1>6, <1>7, <1>8, <1>9
  <2>2. Encode(f)[h + (m + j)] = Masked(f)[m + j] BY <1>4, <1>5, <2>1, SizeType, Zenon
  <2> QED BY <1>12, <2>1, <2>2, Zenon
<1> DEFINE q == PayloadBytes(c, u, x)
<1>14. /\ q.over \in BOOLEAN /\ (q.over <=> ~Accepted(f))
       /\ ~q.over =>
            /\ q.data = SubSeq(x, sl + 1, Len(x))
            /\ k = n => Registers(q.s, ST_FLAGS, u.flags, u.len8, n - k, u.mask, k, u.frameCont)
            /\ k # n => Registers(q.s, ST_PAYLOAD, u.flags, u.len8, n - k, u.mask, k, TRUE)
            /\ ~q.s.closedHere
            /\ ~u.torn => Answers(q.s, u, f, m, k)
  <2>1. PayloadReady(u, f, m) /\ m \in 0..Len(f.payload) BY <1>2, <1>3
  <2>2. sl <= Len(x) /\ sl <= u.len /\ sl \in {Len(x), u.len} BY <1>7, <1>8, <1>9
  <2> QED BY <1>5, <1>10, <1>13, <2>1, <2>2, PayloadTurn, Zenon
<1>15. q \in ParserType /\ Untouched(u, q.s) BY PayloadBytesType, Zenon
<1> HIDE DEF q
<1>16. q.s \in SocketType /\ q.s.said = frames /\ q.s.torn = u.torn
  <2>1. q.s \in SocketType BY <1>15, Zenon DEF ParserType
  <2> QED BY <1>2, <1>15, <2>1, Zenon DEF Untouched
<1>17. ASSUME q.over PROVE Over(u.said, b)
  <2>1. h + m >= h BY <1>7
  <2> QED BY <1>2, <1>3, <1>4, <1>11, <1>14, <1>17, <2>1, IsOver, SMT
<1>18. ASSUME ~q.over PROVE Good(q.s, q.data \o b)
  <2>1. At(frames, q.data \o b, i, h + k)
    <3>1. (h + m) + sl = h + k BY <1>7, <1>10
    <3> QED BY <1>12, <1>14, <1>18, <3>1, Zenon
  <2>2. Accepted(f) BY <1>14, <1>18
  <2>3. PICK e : e = Begin(frames, i) OBVIOUS
  <2>4. ~u.torn => /\ u.text = DataOf(frames, e + (h + m)) /\ u.pongs = PingsOf(frames, e)
                   /\ Answers(q.s, u, f, m, k)
    BY <1>2, <1>3, <1>4, <1>14, <1>18, <2>3, Zenon DEF Told
  <2>5. ~u.torn => q.s.text = DataOf(frames, e + (h + k))
    <3>1. DataOf(frames, e + (h + k)) = DataOf(frames, e + (h + m)) \o
            (IF f.op \in DataOps THEN SubSeq(f.payload, m + 1, k) ELSE <<>>)
      <4>1. \A v \in 0..Len(f.payload) : \A w \in 0..v :
               DataOf(frames, e + (h + v)) = DataOf(frames, e + (h + w)) \o
                  (IF f.op \in DataOps THEN SubSeq(f.payload, w + 1, v) ELSE <<>>)
        BY <1>3, <1>4, <2>3, DataGrows, Zenon
      <4> QED BY <1>5, <1>10, <4>1, Zenon
    <3> QED BY <2>4, <3>1, Zenon DEF Answers
  <2>6. CASE k = n
    <3>1. h + k = z BY <1>6, <2>6
    <3>2. q.s.wsStatus = ST_FLAGS BY <1>14, <1>18, <2>6, Zenon DEF Registers
    <3>3. ~u.torn => q.s.pongs = PingsOf(frames, e + z) /\ q.s.rest = <<>>
      <4>1. /\ f.op # OPCODE_PING => PingsOf(frames, e + z) = PingsOf(frames, e)
            /\ f.op = OPCODE_PING => PingsOf(frames, e + z) = Append(PingsOf(frames, e), f.payload)
        <5>1. z \in 0..Size(frames[i]) BY <1>3, <1>6
        <5> QED BY <1>3, <1>6, <2>3, <5>1, PingsGrow, Zenon
      <4>2. k = Len(f.payload) /\ ~(k < Len(f.payload)) BY <1>5, <2>6
      <4> QED BY <2>4, <4>1, <4>2, Zenon DEF Answers
    <3>4. At(frames, q.data \o b, i, z) BY <2>1, <3>1
    <3> QED BY <1>3, <1>6, <1>16, <2>2, <2>3, <2>5, <3>1, <3>2, <3>3, <3>4, IsGoodNext, Zenon
  <2>7. CASE k # n
    <3>1. k < n /\ h + k < z /\ h + k \in 0..z /\ h + k >= h /\ (h + k) - h = k
      BY <1>6, <1>10, <2>7
    <3>2. Registers(q.s, ST_PAYLOAD, u.flags, u.len8, n - k, u.mask, k, TRUE)
      BY <1>14, <1>18, <2>7
    <3>3. /\ u.flags = Flags(f.op, f.fin) /\ u.len8 = Header(f)[2]
          /\ \A j \in 1..4 : u.mask[j] = Mask[j]
      BY <1>2, <1>3, <2>2, AcceptedIsMasked, Zenon DEF PayloadReady
    <3>4. /\ q.s.wsStatus = ST_PAYLOAD /\ q.s.flags = Flags(f.op, f.fin)
          /\ q.s.len8 = Header(f)[2] /\ q.s.len = Len(f.payload) - k /\ q.s.maskCtr = k
          /\ q.s.frameCont /\ \A j \in 1..4 : q.s.mask[j] = Mask[j]
      BY <1>5, <3>2, <3>3, Zenon DEF Registers
    <3>5. HeaderAt(q.s, f, h + k) /\ PayloadAt(q.s, f, h + k)
      BY <1>4, <1>5, <2>2, <3>1, <3>4, PayloadIsAt, Zenon
    <3>6. PingsOf(frames, e + (h + k)) = PingsOf(frames, e)
      BY <1>3, <1>6, <2>3, <3>1, PingsGrow, Zenon
    <3>7. RestAt(frames, i, h + k) = IF f.op = OPCODE_PING THEN PongBegun(f, k) ELSE <<>>
      <4>1. i <= Len(frames) BY <1>3
      <4> QED BY <1>3, <1>4, <3>1, <4>1, Zenon DEF RestAt
    <3>8. ~u.torn => /\ q.s.pongs = PingsOf(frames, e)
                     /\ q.s.rest = IF f.op = OPCODE_PING THEN PongBegun(f, k) ELSE <<>>
      <4>1. k < Len(f.payload) /\ ~(k = Len(f.payload)) BY <1>5, <2>7, <3>1
      <4> QED BY <2>4, <4>1, Zenon DEF Answers
    <3>9. Answered(q.s, i, h + k) BY <1>16, <2>3, <2>5, <3>6, <3>7, <3>8, Zenon DEF Answered
    <3> QED BY <1>3, <1>6, <1>16, <2>1, <3>1, <3>5, <3>9, IsGood, Zenon
  <2> QED BY <2>6, <2>7
<1> QED BY <1>14, <1>17, <1>18 DEF q

LEMMA AtPayload ==
  ASSUME NEW s \in SocketType, NEW stream, NEW i, NEW o, At(s.said, stream, i, o),
         o >= Len(Header(s.said[i])), o < Size(s.said[i]), HeaderAt(s, s.said[i], o),
         PayloadAt(s, s.said[i], o), Answered(s, i, o), ~s.closedHere
  PROVE  LET f == s.said[i] IN
         /\ s.wsStatus = ST_PAYLOAD /\ s.len \in Nat /\ s.len > 0
         /\ \E m \in 0..Len(f.payload) :
              o = Len(Header(f)) + m /\ PayloadReady(s, f, m) /\ Told(s, i, m)
<1>1. s.said \in Seq(GoodFrames) BY Zenon DEF SocketType, GoodSeq
<1>2. PICK frames \in Seq(GoodFrames) : frames = s.said BY <1>1
<1>3. PICK f \in GoodFrames : f = frames[i] /\ i \in 1..Len(frames) BY <1>2, AtFacts, Zenon
<1>4. PICK h \in Nat : h = Len(Header(f)) /\ h >= 2 BY SizeType, HeaderLength
<1>5. PICK n \in Nat : n = Len(f.payload) BY SizeType
<1>6. PICK z \in Nat : z = Size(f) /\ z = h + n BY <1>4, <1>5, SizeType
<1>7. o \in 0..z /\ o >= h /\ o < z BY <1>2, <1>3, <1>4, <1>6, AtFacts
<1>8. PICK m \in Nat : m = o - h /\ o = h + m /\ m < n BY <1>4, <1>6, <1>7
<1>9. PICK g \in Nat : g = Head2(f) /\ g \in {2, 4, 10} /\ h \in {g, g + 4} BY <1>4, HeaderLength
<1>10. HeaderAt(s, f, o) /\ PayloadAt(s, f, o) /\ Answered(s, i, o) BY <1>2, <1>3
<1>11. Accepted(f) /\ s.frameCont /\ s.maskCtr = m /\ s.len = n - m
  BY <1>4, <1>5, <1>7, <1>8, <1>10, Zenon DEF PayloadAt
<1>12. f.masked BY <1>11, AcceptedIsMasked
<1>13. h = g + 4
  <2>1. Len(Header(f)) = Head2(f) + (IF f.masked THEN 4 ELSE 0) BY HeaderParts, Zenon
  <2> QED BY <1>4, <1>9, <1>12, <2>1
<1>14. o >= 1 /\ o >= 2 /\ ~(o = 0) /\ ~(o = 1) /\ ~(o < g) /\ ~(o < h)
       /\ \A j \in 1..4 : o >= g + j
  <2>1. o >= h /\ h = g + 4 /\ g >= 2 /\ o \in Nat BY <1>7, <1>9, <1>13
  <2> QED BY <1>9, <2>1
<1>15. s.wsStatus = ST_PAYLOAD
  <2>1. s.wsStatus = StatusAt(f, o) BY <1>10, Zenon DEF HeaderAt
  <2> QED BY <1>4, <1>9, <1>14, <2>1, Zenon DEF StatusAt
<1>16. /\ s.flags = Flags(f.op, f.fin) /\ s.len8 = Header(f)[2]
       /\ \A j \in 1..4 : s.mask[j] = Mask[j]
  BY <1>9, <1>10, <1>14, Zenon DEF HeaderAt
<1>17. PICK e : e = Begin(frames, i) OBVIOUS
<1>18. ~s.torn => /\ s.text = DataOf(frames, e + (h + m)) /\ s.pongs = PingsOf(frames, e)
                  /\ s.rest = IF f.op = OPCODE_PING THEN PongBegun(f, m) ELSE <<>>
  <2>1. ~s.torn => /\ s.text = DataOf(frames, e + (h + m)) /\ s.pongs = PingsOf(frames, e + (h + m))
                   /\ s.rest = RestAt(frames, i, o)
    BY <1>2, <1>8, <1>10, <1>17, Zenon DEF Answered
  <2>2. PingsOf(frames, e + (h + m)) = PingsOf(frames, e)
    <3>1. h + m \in 0..Size(frames[i]) /\ h + m < Size(frames[i]) BY <1>3, <1>6, <1>8
    <3> QED BY <1>3, <1>17, <3>1, PingsGrow, Zenon
  <2>3. RestAt(frames, i, o) = IF f.op = OPCODE_PING THEN PongBegun(f, m) ELSE <<>>
    <3>1. i <= Len(frames) /\ o - h = m BY <1>3, <1>8
    <3> QED BY <1>3, <1>4, <1>7, <3>1, Zenon DEF RestAt
  <2> QED BY <2>1, <2>2, <2>3
<1>19. PayloadReady(s, f, m)
  BY <1>5, <1>8, <1>11, <1>15, <1>16, <1>18, Zenon DEF PayloadReady
<1>20. Told(s, i, m) BY <1>2, <1>3, <1>4, <1>17, <1>18, Zenon DEF Told
<1>21. s.len \in Nat /\ s.len > 0 BY <1>8, <1>11
<1>22. m \in 0..n BY <1>8
<1> QED BY <1>2, <1>3, <1>4, <1>5, <1>8, <1>15, <1>19, <1>20, <1>21, <1>22, Zenon

LEMMA SomeBytes ==
  ASSUME NEW a \in ByteSeq, NEW b \in ByteSeq, a # <<>>
  PROVE  a \o b # <<>>
<1>1. PICK z : z = a \o b OBVIOUS
<1>2. Joined(Byte, a, b, z) BY <1>1, Joins, Zenon DEF ByteSeq
<1>3. Len(z) = Len(a) + Len(b) /\ Len(a) \in Nat /\ Len(b) \in Nat BY <1>2 DEF Joined
<1>4. Len(a) > 0 BY DEF ByteSeq
<1> QED BY <1>1, <1>3, <1>4

(* A turn of the loop of cgiWebSocketRecv.                                 *)
LEMMA TurnStep ==
  ASSUME NEW c, NEW p \in ParserType, ~p.over, p.data # <<>>, NEW up \in ByteSeq,
         ClosedLast(p.s.said), Good(p.s, p.data \o up), ~p.s.closedHere
  PROVE  LET q == Turn(c, p) IN
         /\ q.over => Over(p.s.said, up)
         /\ ~q.over => /\ Good(q.s, q.data \o up) /\ ~q.s.closedHere
                       /\ q.data = <<>> \/ Len(q.data) < Len(p.data)
<1>1. PICK s \in SocketType : s = p.s BY DEF ParserType
<1>2. PICK a \in ByteSeq : a = p.data /\ a # <<>> BY DEF ParserType
<1>3. PICK i, o : Located(s, a \o up, i, o) /\ Parsed(s, i, o) /\ Answered(s, i, o)
  BY <1>1, <1>2, Zenon DEF Good
<1>4. At(s.said, a \o up, i, o) /\ o < Size(s.said[i]) BY <1>2, <1>3, SomeBytes, AtOf, Zenon
<1>5. s.said \in Seq(GoodFrames) BY Zenon DEF SocketType, GoodSeq
<1>6. PICK f \in GoodFrames : f = s.said[i] /\ i \in 1..Len(s.said) /\ o \in 0..Size(f)
  BY <1>4, <1>5, AtFacts, Zenon
<1>7. HeaderAt(s, f, o) /\ PayloadAt(s, f, o)
  <2>1. ~(i > Len(s.said))
    <3>1. Len(s.said) \in Nat BY <1>5
    <3> QED BY <1>6, <3>1
  <2> QED BY <1>3, <1>6, <2>1, Zenon DEF Parsed
<1>8. Len(a) \in Nat /\ Len(a) > 0 BY <1>2 DEF ByteSeq
<1>9. Len(Header(f)) \in Nat /\ o \in Nat BY <1>6, SizeType
<1> DEFINE q == Turn(c, p)
<1>10. CASE o >= Len(Header(f))
  <2>1. s.wsStatus = ST_PAYLOAD /\ s.len \in Nat /\ s.len > 0
    BY <1>1, <1>3, <1>4, <1>6, <1>7, <1>10, AtPayload, Zenon
  <2>2. PICK m \in 0..Len(f.payload) :
          o = Len(Header(f)) + m /\ PayloadReady(s, f, m) /\ Told(s, i, m)
    BY <1>1, <1>3, <1>4, <1>6, <1>7, <1>10, AtPayload, Zenon
  <2>3. q = PayloadBytes(c, s, a) BY <1>1, <1>2, <2>1, Zenon DEF Turn
  <2> HIDE DEF q
  <2>4. /\ q.over => Over(s.said, up)
        /\ ~q.over => Good(q.s, q.data \o up) /\ ~q.s.closedHere
    BY <1>1, <1>4, <1>6, <2>2, <2>3, PayloadStep, Zenon
  <2>5. q.data # <<>> => Len(q.data) = Len(a) - s.len BY <2>3, PayloadBytesType, Zenon
  <2>6. q.data # <<>> => Len(q.data) < Len(a) BY <1>8, <2>1, <2>5
  <2> QED BY <1>1, <1>2, <2>4, <2>6 DEF q
<1>11. CASE ~(o >= Len(Header(f)))
  <2>1. o < Len(Header(f)) BY <1>9, <1>11
  <2>2. PICK t : t = HeaderByte(s, Head(a)) OBVIOUS
  <2>3. PICK x \in ByteSeq : x = Tail(a) /\ Len(x) = Len(a) - 1 BY <1>2, HeadOfData
  <2>4. /\ s.wsStatus # ST_PAYLOAD /\ t \in SocketType /\ Untouched(s, t) /\ ~t.closedHere
        /\ t.wsStatus # ST_PAYLOAD => Good(t, x \o up)
        /\ t.wsStatus = ST_PAYLOAD =>
             /\ At(t.said, x \o up, i, Len(Header(f)) + 0)
             /\ PayloadReady(t, f, 0) /\ Told(t, i, 0)
    BY <1>1, <1>2, <1>3, <1>4, <1>6, <1>7, <2>1, <2>2, <2>3, HeadTurn, Zenon
  <2>5. t.said = s.said BY <2>4, Zenon DEF Untouched
  <2>6. CASE t.wsStatus = ST_PAYLOAD
    <3>1. q = PayloadBytes(c, t, x)
      BY <1>1, <1>2, <2>2, <2>3, <2>4, <2>6, Zenon DEF Turn
    <3> HIDE DEF q
    <3>2. 0 \in 0..Len(f.payload) BY SizeType
    <3>3. /\ q.over => Over(s.said, up)
          /\ ~q.over => Good(q.s, q.data \o up) /\ ~q.s.closedHere
      BY <1>1, <1>6, <2>4, <2>5, <2>6, <3>1, <3>2, PayloadStep, Zenon
    <3>4. q.data # <<>> => t.len \in Nat /\ Len(q.data) = Len(x) - t.len
      BY <2>4, <3>1, PayloadBytesType, Zenon
    <3>5. q.data # <<>> => Len(q.data) < Len(a) BY <1>8, <2>3, <3>4
    <3> QED BY <1>1, <1>2, <3>3, <3>5 DEF q
  <2>7. CASE t.wsStatus # ST_PAYLOAD
    <3>1. q = [over |-> FALSE, s |-> t, data |-> x]
      BY <1>1, <1>2, <2>2, <2>3, <2>4, <2>7, Zenon DEF Turn
    <3> HIDE DEF q
    <3>2. q.over = FALSE /\ q.s = t /\ q.data = x BY <3>1
    <3>3. Len(x) < Len(a) BY <1>8, <2>3
    <3> QED BY <1>2, <2>4, <2>7, <3>2, <3>3, Zenon DEF q
  <2> QED BY <2>6, <2>7
<1> QED BY <1>10, <1>11

(* The loop: what is true of it after n turns.                             *)
Kept(s, len, p, n) ==
  /\ p \in ParserType /\ Untouched(s, p.s)
  /\ p.over => Over(s.said, s.up)
  /\ ~p.over => /\ Good(p.s, p.data \o s.up) /\ ~p.s.closedHere
                /\ p.data = <<>> \/ Len(p.data) + n <= len

LEMMA TurnKeeps ==
  ASSUME NEW c, NEW s \in SocketType, ClosedLast(s.said), NEW len \in Nat, NEW n \in Nat, NEW p,
         Kept(s, len, p, n)
  PROVE  Kept(s, len, Turn(c, p), n + 1)
<1>1. p \in ParserType /\ Untouched(s, p.s) BY Zenon DEF Kept
<1>2. p.s.said = s.said /\ p.s.up = s.up /\ s.up \in ByteSeq BY <1>1, Zenon DEF Untouched, SocketType
<1>3. PICK q : q = Turn(c, p) OBVIOUS
<1>4. q \in ParserType /\ Untouched(s, q.s)
  <2>1. q \in ParserType /\ Untouched(p.s, q.s) BY <1>1, <1>3, TurnType, Zenon DEF Turned
  <2> QED BY <1>1, <2>1 DEF Untouched
<1>5. CASE p.over \/ p.data = <<>>
  <2>1. q = p BY <1>3, <1>5, Zenon DEF Turn
  <2>2. ~p.over => p.data = <<>> BY <1>5
  <2> QED BY <1>3, <2>1, <2>2, Zenon DEF Kept
<1>6. CASE ~p.over /\ p.data # <<>>
  <2>1. /\ Good(p.s, p.data \o s.up) /\ ~p.s.closedHere /\ Len(p.data) + n <= len
    BY <1>6, Zenon DEF Kept
  <2>2. /\ q.over => Over(s.said, s.up)
        /\ ~q.over => /\ Good(q.s, q.data \o s.up) /\ ~q.s.closedHere
                      /\ q.data = <<>> \/ Len(q.data) < Len(p.data)
    BY <1>1, <1>2, <1>3, <1>6, <2>1, TurnStep, Zenon
  <2>3. Len(p.data) \in Nat /\ Len(q.data) \in Nat
    <3>1. p.data \in ByteSeq /\ q.data \in ByteSeq BY <1>1, <1>4 DEF ParserType
    <3> QED BY <3>1, ByteIsNat, Zenon
  <2>4. Len(q.data) < Len(p.data) => Len(q.data) + (n + 1) <= len
    <3>1. PICK lp \in Nat, lq \in Nat : lp = Len(p.data) /\ lq = Len(q.data) BY <2>3
    <3>2. lp + n <= len BY <2>1, <3>1
    <3>3. lq < lp => lq + (n + 1) <= len BY <3>2
    <3> QED BY <3>1, <3>3
  <2> QED BY <1>3, <1>4, <2>2, <2>4, Zenon DEF Kept
<1> QED BY <1>5, <1>6

LEMMA ParseKeeps ==
  ASSUME NEW c, NEW s \in SocketType, ClosedLast(s.said), NEW data \in ByteSeq,
         Good(s, data \o s.up), ~s.closedHere
  PROVE  LET p == Parse(c, s, data) IN
         /\ p \in ParserType /\ Untouched(s, p.s)
         /\ p.over => Over(s.said, s.up)
         /\ ~p.over => Good(p.s, s.up) /\ ~p.s.closedHere
<1>1. PICK len \in Nat : len = Len(data) BY ByteIsNat
<1> DEFINE P == [n \in Nat |-> {p \in ParserType : Kept(s, len, p, n)}]
           p0 == [over |-> FALSE, s |-> s, data |-> data]
<1>2. \A n \in Nat : \A p : p \in P[n] <=> Kept(s, len, p, n)
  <2>1. \A n \in Nat : P[n] = {p \in ParserType : Kept(s, len, p, n)} OBVIOUS
  <2>2. \A n, p : Kept(s, len, p, n) => p \in ParserType BY Zenon DEF Kept
  <2> HIDE DEF P
  <2> QED BY <2>1, <2>2
<1> HIDE DEF P
<1>3. p0 \in P[0]
  <2>1. p0 \in ParserType /\ p0.over = FALSE /\ p0.s = s /\ p0.data = data BY DEF ParserType
  <2>2. Untouched(s, s) BY DEF Untouched
  <2>3. len + 0 <= len /\ 0 \in Nat BY <1>1
  <2> HIDE DEF p0
  <2>4. Kept(s, len, p0, 0) BY <1>1, <2>1, <2>2, <2>3, Zenon DEF Kept
  <2> QED BY <1>2, <2>3, <2>4, Zenon
<1> HIDE DEF p0
<1>4. \A n \in Nat : \A p \in P[n] : Turn(c, p) \in P[n + 1]
  <2> SUFFICES ASSUME NEW n \in Nat, NEW p \in P[n] PROVE Turn(c, p) \in P[n + 1]
    OBVIOUS
  <2>1. Kept(s, len, p, n) BY <1>2, Zenon
  <2>2. Kept(s, len, Turn(c, p), n + 1) BY <2>1, TurnKeeps, Zenon
  <2>3. n + 1 \in Nat OBVIOUS
  <2> QED BY <1>2, <2>2, <2>3, Zenon
<1>5. Parse(c, s, data) \in P[len] BY <1>1, <1>3, <1>4, ParseRule, Zenon DEF p0
<1>6. PICK p : p = Parse(c, s, data) OBVIOUS
<1>7. Kept(s, len, p, len) BY <1>2, <1>5, <1>6, Zenon
<1>8. ASSUME ~p.over PROVE p.data \o s.up = s.up
  <2>1. p.data \in ByteSeq BY <1>7, Zenon DEF Kept, ParserType
  <2>2. p.data = <<>> \/ Len(p.data) + len <= len BY <1>7, <1>8, Zenon DEF Kept
  <2>3. p.data = <<>> BY <2>1, <2>2 DEF ByteSeq
  <2>4. s.up \in Seq(Byte) BY Zenon DEF SocketType, ByteSeq
  <2> QED BY <2>3, <2>4
<1> QED BY <1>6, <1>7, <1>8, Zenon DEF Kept
-----------------------------------------------------------------------------
(* Steps.                                                                  *)
LEMMA GoodSame ==
  ASSUME NEW s, NEW t, NEW stream, Good(s, stream), SameParser(s, t), t.said = s.said,
         \/ t.torn
         \/ ~s.torn /\ t.text = s.text /\ t.pongs = s.pongs /\ t.rest = s.rest
  PROVE  Good(t, stream)
<1>1. PICK i \in 1..Len(s.said) + 1, o \in 0..Len(Bytes(s.said)) :
        Located(s, stream, i, o) /\ Parsed(s, i, o) /\ Answered(s, i, o)
  BY Zenon DEF Good
<1>2. Located(t, stream, i, o) BY <1>1, Zenon DEF Located
<1>3. \A f : HeaderAt(s, f, o) => HeaderAt(t, f, o) BY Zenon DEF HeaderAt, SameParser
<1>4. \A f : PayloadAt(s, f, o) => PayloadAt(t, f, o) BY Zenon DEF PayloadAt, SameParser
<1>5. Parsed(t, i, o) BY <1>1, <1>3, <1>4, Zenon DEF Parsed, SameParser
<1>6. Answered(t, i, o) BY <1>1, Zenon DEF Answered
<1> QED BY <1>1, <1>2, <1>5, <1>6, Zenon DEF Good

LEMMA PacketKeeps ==
  ASSUME NEW c, NEW s \in SocketType, SocketInv(s), s.ws = "live", NEW k \in 1..Len(s.up)
  PROVE  SocketInv(AfterPacket(c, s, k))
<1>1. /\ Standing(s) /\ ClosedLast(s.said) /\ ~s.closedHere /\ Good(s, s.up)
      /\ s.phase = "open" /\ s.recvHdl
  BY Zenon DEF SocketInv, Standing
<1>2. PICK u : u = Delivered(s, k) OBVIOUS
<1>3. PICK x \in ByteSeq : x = SubSeq(s.up, 1, k) BY DeliveredType
<1>4. u \in SocketType /\ u.up = SubSeq(s.up, k + 1, Len(s.up)) BY <1>2, DeliveredType
<1>5. /\ SameParser(s, u) /\ u.said = s.said /\ u.torn = s.torn /\ u.text = s.text
      /\ u.pongs = s.pongs /\ u.rest = s.rest /\ u.phase = s.phase /\ u.recvHdl = s.recvHdl
  BY <1>2 DEF Delivered, SocketType, SameParser
<1>6. x \o u.up = s.up
  <2>1. s.up \in Seq(Byte) BY Zenon DEF SocketType, ByteSeq
  <2>2. Len(s.up) \in 0..Len(s.up) /\ k \in 0..Len(s.up) BY <2>1
  <2>3. SubSeq(s.up, 1, Len(s.up)) = SubSeq(s.up, 1, k) \o SubSeq(s.up, k + 1, Len(s.up))
    BY <2>1, <2>2, Pieces, SMT
  <2>4. SubSeq(s.up, 1, Len(s.up)) = s.up BY <2>1
  <2> QED BY <1>3, <1>4, <2>3, <2>4, Zenon
<1>7. Good(u, x \o u.up)
  <2>1. Good(u, s.up) BY <1>1, <1>5, GoodSame, Zenon
  <2> QED BY <1>6, <2>1, Zenon
<1>8. ~u.closedHere /\ ClosedLast(u.said) BY <1>1, <1>5, Zenon DEF SameParser
<1>9. PICK p : p = Parse(c, u, x) OBVIOUS
<1>10. /\ p \in ParserType /\ Untouched(u, p.s)
       /\ p.over => Over(u.said, u.up)
       /\ ~p.over => Good(p.s, u.up) /\ ~p.s.closedHere
  BY <1>4, <1>7, <1>8, <1>9, ParseKeeps, Zenon
<1>11. PICK r \in SocketType : r = p.s BY <1>10 DEF ParserType
<1>12. r.phase = "open" /\ r.recvHdl /\ r.said = s.said /\ r.up = u.up /\ u.said = s.said
  BY <1>1, <1>5, <1>10, <1>11, Zenon DEF Untouched
<1>13. PICK t : t = AfterPacket(c, s, k) OBVIOUS
<1>14. /\ Standing(t) /\ t.ws = IF p.over THEN "NULL" ELSE "live"
       /\ t = IF p.over THEN Done(r) ELSE r
  BY <1>1, <1>2, <1>3, <1>9, <1>11, <1>13, StandingPacket, Zenon DEF AfterPacket
<1>15. Done(r).phase = r.phase /\ Done(r).recvHdl = r.recvHdl /\ Done(r).said = r.said
       /\ Done(r).up = r.up /\ Done(r).ws = "NULL"
  BY DEF Done, SocketType
<1>16. t.phase = "open" /\ t.recvHdl /\ t.said = s.said /\ t.up = u.up
  BY <1>12, <1>14, <1>15, Zenon
<1>17. CASE p.over
  <2>1. Over(t.said, t.up) /\ t.ws = "NULL" BY <1>10, <1>12, <1>14, <1>16, <1>17, Zenon
  <2> QED BY <1>1, <1>13, <1>14, <1>16, <2>1, Zenon DEF SocketInv
<1>18. CASE ~p.over
  <2>1. t = r /\ t.ws = "live" /\ ~t.closedHere /\ Good(t, t.up)
    BY <1>10, <1>11, <1>14, <1>16, <1>18, Zenon
  <2> QED BY <1>1, <1>13, <1>14, <1>16, <2>1, Zenon DEF SocketInv
<1> QED BY <1>17, <1>18

(* A step that leaves parser, browser and the state of the socket alone.   *)
LEMMA SameKeeps ==
  ASSUME NEW s, NEW t, SocketInv(s), Standing(t), SameParser(s, t), t.said = s.said, t.up = s.up,
         t.torn = s.torn, t.text = s.text, t.pongs = s.pongs, t.rest = s.rest,
         t.ws = s.ws, t.recvHdl = s.recvHdl, t.done = s.done,
         t.phase = "closed" => s.phase = "closed"
  PROVE  SocketInv(t)
<1>1. Good(s, s.up) => Good(t, t.up) BY GoodSame, Zenon
<1>2. ~s.recvHdl => Unused(t) BY Zenon DEF SocketInv, Unused, SameParser
<1>3. s.ws = "live" => ~t.closedHere BY Zenon DEF SocketInv, SameParser
<1> QED BY <1>1, <1>2, <1>3, Zenon DEF SocketInv

LEMMA SmallKeeps ==
  ASSUME NEW s \in SocketType, SocketInv(s)
  PROVE  /\ SocketInv(Decline(s))
         /\ s.phase = "open" => SocketInv(Sent(s))
<1>1. Standing(s) BY Zenon DEF SocketInv
<1>2. Standing(Decline(s)) /\ Standing(Sent(s)) BY <1>1, StandingStep
<1>3. SocketInv(Decline(s))
  <2> DEFINE t == Decline(s)
  <2>1. /\ SameParser(s, t) /\ t.said = s.said /\ t.up = s.up /\ t.torn = s.torn
        /\ t.text = s.text /\ t.pongs = s.pongs /\ t.rest = s.rest /\ t.ws = s.ws
        /\ t.recvHdl = s.recvHdl /\ t.done = s.done /\ t.phase = s.phase
    BY DEF Decline, SocketType, SameParser
  <2> HIDE DEF t
  <2> QED BY <1>2, <2>1, SameKeeps, Zenon DEF t
<1>4. ASSUME s.phase = "open" PROVE SocketInv(Sent(s))
  <2> DEFINE t == Sent(s)
  <2>1. /\ SameParser(s, t) /\ t.said = s.said /\ t.up = s.up /\ t.torn = s.torn
        /\ t.text = s.text /\ t.pongs = s.pongs /\ t.rest = s.rest /\ t.ws = s.ws
        /\ t.recvHdl = s.recvHdl /\ t.done = s.done
    BY DEF Sent, SocketType, SameParser
  <2>2. t.phase # "closed"
    <3>1. t.phase = IF s.done THEN "closing" ELSE s.phase BY DEF Sent, SocketType
    <3> QED BY <1>4, <3>1
  <2> HIDE DEF t
  <2> QED BY <1>2, <2>1, <2>2, SameKeeps, Zenon DEF t
<1> QED BY <1>3, <1>4

LEMMA ClearKeeps == SocketInv(Clear) /\ SocketInv(Fresh)
<1>1. Unused(Clear) /\ Unused(Fresh) BY DEF Unused, Clear, Fresh
<1>2. ~Clear.recvHdl /\ ~Fresh.recvHdl /\ Clear.ws # "live" /\ Fresh.ws # "live"
      /\ Clear.said = <<>> /\ Fresh.said = <<>>
  BY DEF Clear, Fresh
<1>3. ClosedLast(<<>>) BY DEF ClosedLast
<1> QED BY <1>1, <1>2, <1>3, StandingClear, Zenon DEF SocketInv

LEMMA NoFrames ==
  /\ Bytes(<<>>) = <<>> /\ Begin(<<>>, 1) = 0
  /\ \A n : DataOf(<<>>, n) = <<>> /\ PingsOf(<<>>, n) = <<>>
<1>1. <<>> \in Seq(GoodFrames) /\ DOMAIN <<>> = {} OBVIOUS
<1>2. Begin(<<>>, 1) = 0 BY <1>1, BytesWhole, Zenon
<1>3. Bytes(<<>>) = <<>>
  <2>1. [i \in DOMAIN <<>> |-> Encode(<<>>[i])] = <<>> OBVIOUS
  <2> QED BY <2>1, FlatEmpty DEF Bytes
<1>4. ASSUME NEW n PROVE DataOf(<<>>, n) = <<>> /\ PingsOf(<<>>, n) = <<>>
  <2>1. DataParts(<<>>, n) = <<>> BY DEF DataParts
  <2>2. PingParts(<<>>, n) = <<>> BY DEF PingParts
  <2>3. /\ DataOf(<<>>, n) = FlattenSeq(DataParts(<<>>, n))
        /\ PingsOf(<<>>, n) = FlattenSeq(PingParts(<<>>, n))
    BY Zenon DEF DataOf, PingsOf, DataParts, PingParts
  <2> QED BY <2>1, <2>2, <2>3, FlatEmpty
<1> QED BY <1>2, <1>3, <1>4

LEMMA AcceptKeeps ==
  ASSUME NEW s \in SocketType, SocketInv(s), s.phase = "open", ~s.recvHdl
  PROVE  SocketInv(Accept(s))
<1> DEFINE t == Accept(s)
<1>1. Standing(s) /\ Unused(s) BY Zenon DEF SocketInv
<1>2. Standing(t) /\ t.ws = "live" BY <1>1, StandingStep, Zenon
<1>3. /\ t.recvHdl /\ t.phase = "open" /\ t.said = s.said /\ t.up = s.up
      /\ t.wsStatus = s.wsStatus /\ t.closedHere = s.closedHere
      /\ t.text = s.text /\ t.pongs = s.pongs /\ t.rest = s.rest
  BY DEF Accept, SocketType
<1> HIDE DEF t
<1>4. /\ t.said = <<>> /\ t.up = <<>> /\ t.wsStatus = ST_FLAGS /\ ~t.closedHere
      /\ t.text = <<>> /\ t.pongs = <<>> /\ t.rest = <<>>
  BY <1>1, <1>3, Zenon DEF Unused
<1>5. /\ Len(<<>>) = 0 /\ 1 \in 1..0 + 1 /\ 0 \in 0..0 /\ 0 \in Nat /\ ~(1 <= 0) /\ 1 > 0
      /\ \A j \in 1..1 - 1 : FALSE
  OBVIOUS
<1>6. Located(t, <<>>, 1, 0)
  <2>1. <<>> = SubSeq(Bytes(<<>>), Begin(<<>>, 1) + 0 + 1, Len(Bytes(<<>>)))
    <3>1. <<>> = SubSeq(<<>>, 0 + 0 + 1, 0) OBVIOUS
    <3> QED BY <1>5, <3>1, NoFrames
  <2> QED BY <1>4, <1>5, <2>1, Zenon DEF Located
<1>7. Parsed(t, 1, 0) BY <1>4, <1>5, Zenon DEF Parsed
<1>8. Answered(t, 1, 0)
  <2>1. RestAt(<<>>, 1, 0) = <<>> BY <1>5, Zenon DEF RestAt
  <2> QED BY <1>4, <2>1, NoFrames, Zenon DEF Answered
<1>9. Good(t, t.up)
  <2>1. Len(Bytes(<<>>)) = 0 BY NoFrames
  <2> QED BY <1>4, <1>5, <1>6, <1>7, <1>8, <2>1, Zenon DEF Good
<1>10. ClosedLast(t.said) BY <1>4 DEF ClosedLast
<1> QED BY <1>2, <1>3, <1>4, <1>9, <1>10, Zenon DEF SocketInv, t

LEMMA RestIsPong ==
  ASSUME NEW s \in SocketType, NEW stream, Good(s, stream), ~s.torn, s.rest # <<>>
  PROVE  InPong(s)
<1>1. PICK i \in 1..Len(s.said) + 1, o \in 0..Len(Bytes(s.said)) :
        Located(s, stream, i, o) /\ Parsed(s, i, o) /\ Answered(s, i, o)
  BY Zenon DEF Good
<1>2. s.said \in Seq(GoodFrames) BY Zenon DEF SocketType, GoodSeq
<1>3. RestAt(s.said, i, o) # <<>> BY <1>1, Zenon DEF Answered
<1>4. i <= Len(s.said) /\ s.said[i].op = OPCODE_PING /\ o >= Len(Header(s.said[i]))
  BY <1>3, Zenon DEF RestAt
<1>5. i \in 1..Len(s.said) /\ ~(i > Len(s.said)) BY <1>2, <1>4
<1>6. PICK f \in GoodFrames : f = s.said[i] BY <1>2, <1>5
<1>7. HeaderAt(s, f, o) /\ PayloadAt(s, f, o) BY <1>1, <1>5, <1>6, Zenon DEF Parsed
<1>8. PICK h \in Nat, g \in Nat : h = Len(Header(f)) /\ g = Head2(f) /\ h >= g /\ g >= 2
  BY SizeType, HeaderLength
<1>9. o \in Nat /\ o >= h BY <1>1, <1>4, <1>6, <1>8, Zenon DEF Located
<1>10. o >= 1 /\ ~(o = 0) /\ ~(o = 1) /\ ~(o < g) /\ ~(o < h) BY <1>8, <1>9
<1>11. s.wsStatus = ST_PAYLOAD /\ s.flags = Flags(f.op, f.fin)
  <2>1. s.wsStatus = StatusAt(f, o) /\ s.flags = Flags(f.op, f.fin)
    BY <1>7, <1>10, Zenon DEF HeaderAt
  <2> QED BY <1>8, <1>10, <2>1, Zenon DEF StatusAt
<1>12. s.frameCont BY <1>7, <1>8, <1>9, Zenon DEF PayloadAt
<1>13. f.op \in 0..15 /\ f.fin \in BOOLEAN BY DEF GoodFrames
<1>14. s.flags % 16 = OPCODE_PING BY <1>4, <1>6, <1>11, <1>13, FlagsAre, Zenon
<1> QED BY <1>11, <1>12, <1>14, Zenon DEF InPong

LEMMA HearsKeeps ==
  ASSUME NEW s \in SocketType, SocketInv(s), s.ws = "live"
  PROVE  SocketInv(Hears(s))
<1>1. Standing(s) /\ Good(s, s.up) /\ ~s.closedHere /\ ClosedLast(s.said) /\ s.phase = "open"
      /\ s.recvHdl
  BY Zenon DEF SocketInv, Standing
<1>2. PICK u \in SocketType : u = Tear(s) BY StepTypes
<1>3. PICK t : t = Hears(s) OBVIOUS
<1>4. /\ SameParser(s, u) /\ u.torn = (s.torn \/ InPong(s)) /\ u.said = s.said /\ u.up = s.up
      /\ u.text = s.text /\ u.pongs = s.pongs /\ u.rest = s.rest
      /\ u.recvHdl = s.recvHdl /\ u.phase = s.phase /\ u.ws = s.ws
  BY <1>2 DEF Tear, SocketType, SameParser
<1>5. t \in SocketType /\ Untouched(u, t) /\ SameParser(u, t)
  BY <1>2, <1>3, HearsType, Zenon DEF Sends
<1>6. SameParser(s, t) /\ t.said = s.said /\ t.up = s.up /\ t.torn = u.torn
      /\ t.recvHdl = s.recvHdl /\ t.phase = s.phase /\ t.ws = s.ws
  BY <1>4, <1>5, Zenon DEF SameParser, Untouched
<1>7. ASSUME ~t.torn PROVE ~s.torn /\ t.text = s.text /\ t.pongs = s.pongs /\ t.rest = s.rest
  <2>1. ~u.torn /\ ~s.torn /\ ~InPong(s) BY <1>4, <1>6, <1>7
  <2>2. s.rest = <<>> BY <1>1, <2>1, RestIsPong, Zenon
  <2>3. t = cgiWebsocketSend(u, Debug, {}) BY <1>2, <1>3, Zenon DEF Hears
  <2>4. Len(Debug) <= INT_MAX
    <3>1. 1 <= INT_MAX BY SMT DEF INT_MAX
    <3> QED BY <3>1, OwnDebug
  <2>5. t.rest = <<>> /\ t.text = u.text \o Own(Debug) /\ t.pongs = u.pongs
    BY <1>4, <2>1, <2>2, <2>3, <2>4, OwnDebug, SendText, Zenon DEF Gives
  <2>6. u.text \o <<>> = u.text
    <3>1. u.text \in Seq(Byte) BY Zenon DEF SocketType, ByteSeq
    <3> QED BY <3>1
  <2> QED BY <1>4, <2>1, <2>2, <2>5, <2>6, OwnDebug
<1>8. Good(t, t.up)
  <2>1. \/ t.torn
        \/ ~s.torn /\ t.text = s.text /\ t.pongs = s.pongs /\ t.rest = s.rest
    BY <1>7
  <2>2. Good(t, s.up) BY <1>1, <1>6, <2>1, GoodSame, Zenon
  <2> QED BY <1>6, <2>2, Zenon
<1>9. Standing(t) BY <1>1, <1>3, StandingHears, Zenon
<1>10. ~t.closedHere BY <1>1, <1>6, Zenon DEF SameParser
<1> QED BY <1>1, <1>3, <1>6, <1>8, <1>9, <1>10, Zenon DEF SocketInv

(* The browser sends a frame more.                                         *)
LEMMA GoodSaid ==
  ASSUME NEW s \in SocketType, Good(s, s.up), NEW f \in GoodFrames, NEW t \in SocketType,
         t.said = Append(s.said, f), t.up = s.up \o Encode(f), SameParser(s, t),
         t.text = s.text, t.pongs = s.pongs, t.rest = s.rest, t.torn = s.torn
  PROVE  Good(t, t.up)
<1>1. s.said \in Seq(GoodFrames) BY Zenon DEF SocketType, GoodSeq
<1>2. PICK frames \in Seq(GoodFrames) : frames = s.said BY <1>1
<1>3. PICK i \in 1..Len(frames) + 1, o \in 0..Len(Bytes(frames)) :
        Located(s, s.up, i, o) /\ Parsed(s, i, o) /\ Answered(s, i, o)
  BY <1>2, Zenon DEF Good
<1>4. PICK more \in Seq(GoodFrames) : /\ more = Append(frames, f) /\ Len(more) = Len(frames) + 1
                                     /\ \A j \in 1..Len(frames) : more[j] = frames[j]
                                     /\ more[Len(frames) + 1] = f
  <2>1. /\ Append(frames, f) \in Seq(GoodFrames) /\ Len(Append(frames, f)) = Len(frames) + 1
        /\ \A j \in 1..Len(frames) : Append(frames, f)[j] = frames[j]
        /\ Append(frames, f)[Len(frames) + 1] = f
    OBVIOUS
  <2> QED BY <2>1
<1>5. t.said = more BY <1>2, <1>4
<1>6. PICK p \in Seq(Byte) : p = Bytes(frames) BY BytesWhole
<1>7. PICK q \in Seq(Byte) : q = Encode(f) BY SizeType
<1>8. PICK r : r = Bytes(more) OBVIOUS
<1>9. r = p \o q /\ Begin(more, i) = Begin(frames, i)
  BY <1>3, <1>4, <1>6, <1>7, <1>8, BytesAppend, Zenon
<1>10. PICK e \in Nat : e = Begin(frames, i) BY <1>3, BytesWhole
<1>11. i \in 1..Len(more) /\ i \in 1..Len(more) + 1 /\ ~(i > Len(more)) /\ i <= Len(more)
  BY <1>3, <1>4
<1>12. PICK g \in GoodFrames : g = more[i] BY <1>11
<1>13. i <= Len(frames) => g = frames[i] /\ i \in 1..Len(frames) /\ ~(i > Len(frames))
  BY <1>3, <1>4, <1>12
<1>14. ~(i <= Len(frames)) => i = Len(frames) + 1 /\ g = f /\ i > Len(frames) /\ o = 0
  <2>1. ~(i <= Len(frames)) => i = Len(frames) + 1 /\ i > Len(frames) BY <1>3
  <2>2. ~(i <= Len(frames)) => o = 0 BY <1>2, <1>3, <2>1, Zenon DEF Located
  <2>3. ~(i <= Len(frames)) => g = f BY <1>4, <1>12, <2>1
  <2> QED BY <2>1, <2>2, <2>3
<1>15. o \in Nat /\ o < Size(g) /\ e + o \in 0..Len(p)
  <2>1. CASE i <= Len(frames)
    <3>1. o \in Nat /\ o < Size(g) BY <1>2, <1>3, <1>13, <2>1, Zenon DEF Located
    <3>2. e + Size(g) <= Len(p)
      <4>1. Begin(frames, Len(frames) + 1) = Len(p) BY <1>6, BytesWhole, Zenon
      <4>2. Len(frames) + 1 \in i + 1..Len(frames) + 1 BY <1>13, <2>1
      <4>3. Begin(frames, Len(frames) + 1) >= Begin(frames, i) + Size(frames[i])
        BY <1>13, <2>1, <4>2, BeginLater, Zenon
      <4>4. Size(g) \in Nat /\ Len(p) \in Nat BY SizeType
      <4> QED BY <1>10, <1>13, <2>1, <4>1, <4>3, <4>4
    <3>3. Size(g) \in Nat BY SizeType
    <3> QED BY <3>1, <3>2, <3>3
  <2>2. CASE ~(i <= Len(frames))
    <3>1. o = 0 /\ i = Len(frames) + 1 BY <1>14, <2>2
    <3>2. Size(g) \in Nat /\ Size(g) >= 2 BY SizeType, HeaderLength
    <3>3. e = Len(p) BY <1>6, <1>10, <3>1, BytesWhole, Zenon
    <3> QED BY <3>1, <3>2, <3>3
  <2> QED BY <2>1, <2>2
<1>16. t.up = SubSeq(r, e + o + 1, Len(r))
  <2>1. PICK c \in 0..Len(p) : c = e + o BY <1>15
  <2>2. s.up = SubSeq(p, c + 1, Len(p)) BY <1>2, <1>3, <1>6, <1>10, <2>1, Zenon DEF Located
  <2>3. SubSeq(p \o q, c + 1, Len(p \o q)) = SubSeq(p, c + 1, Len(p)) \o q
    <3>1. Len(p) \in 0..Len(p) OBVIOUS
    <3>2. PICK pa : pa = SubSeq(p, 1, c) OBVIOUS
    <3>3. PICK pb : pb = SubSeq(p, c + 1, Len(p)) OBVIOUS
    <3>4. /\ pa \in Seq(Byte) /\ pb \in Seq(Byte) /\ Len(pa) = c /\ Len(pb) = Len(p) - c
          /\ \A j \in 1..Len(p) - c : pb[j] = p[c + j]
      <4>1. /\ SubSeq(p, 1, c) \in Seq(Byte) /\ SubSeq(p, c + 1, Len(p)) \in Seq(Byte)
            /\ Len(SubSeq(p, 1, c)) = c /\ Len(SubSeq(p, c + 1, Len(p))) = Len(p) - c
            /\ \A j \in 1..Len(p) - c : SubSeq(p, c + 1, Len(p))[j] = p[c + j]
        BY <3>1, Pieces, SMT
      <4> QED BY <3>2, <3>3, <4>1, Zenon
    <3>5. Joined(Byte, p, q, r) BY <1>9, Joins, Zenon
    <3>6. r \in Seq(Byte) /\ Len(r) = Len(p) + Len(q) BY <3>5 DEF Joined
    <3>7. \A j \in 1..Len(p) : r[j] = p[j] BY <3>5, Zenon DEF Joined
    <3>8. \A j \in 1..Len(q) : r[Len(p) + j] = q[j] BY <3>5, Zenon DEF Joined
    <3>9. c \in 0..Len(r) /\ Len(r) \in 0..Len(r) BY <3>6
    <3>10. PICK v : v = SubSeq(r, c + 1, Len(r)) OBVIOUS
    <3>11. /\ v \in Seq(Byte) /\ Len(v) = Len(r) - c /\ \A j \in 1..Len(r) - c : v[j] = r[c + j]
      BY <3>6, <3>9, <3>10, Pieces, SMT
    <3>12. PICK w : w = pb \o q OBVIOUS
    <3>13. Joined(Byte, pb, q, w) BY <3>4, <3>12, Joins, Zenon
    <3>14. w \in Seq(Byte) /\ Len(w) = Len(pb) + Len(q) BY <3>13 DEF Joined
    <3>15. \A j \in 1..Len(pb) : w[j] = pb[j] BY <3>13, Zenon DEF Joined
    <3>16. \A j \in 1..Len(q) : w[Len(pb) + j] = q[j] BY <3>13, Zenon DEF Joined
    <3>17. PICK lp \in Nat, lq \in Nat : lp = Len(p) /\ lq = Len(q) OBVIOUS
    <3>18. c \in 0..lp /\ Len(pb) = lp - c /\ Len(w) = (lp - c) + lq /\ Len(v) = (lp + lq) - c
           /\ Len(r) = lp + lq
      BY <3>4, <3>6, <3>11, <3>14, <3>17
    <3>19. Len(v) = Len(w) BY <3>18
    <3>20. ASSUME NEW j \in 1..Len(v) PROVE v[j] = w[j]
      <4>1. j \in 1..Len(r) - c BY <3>18
      <4>2. v[j] = r[c + j] BY <3>11, <4>1
      <4>3. CASE j <= lp - c
        <5>1. j \in 1..Len(pb) /\ j \in 1..Len(p) - c /\ c + j \in 1..Len(p)
          BY <3>17, <3>18, <4>3
        <5> QED BY <3>4, <3>7, <3>15, <4>2, <5>1, Zenon
      <4>4. CASE ~(j <= lp - c)
        <5>1. PICK k : k = j - (lp - c) OBVIOUS
        <5>2. k \in 1..lq /\ j = (lp - c) + k /\ c + j = lp + k BY <3>18, <4>4, <5>1
        <5>3. k \in 1..Len(q) /\ j = Len(pb) + k /\ c + j = Len(p) + k BY <3>17, <3>18, <5>2
        <5> QED BY <3>8, <3>16, <4>2, <5>3, Zenon
      <4> QED BY <4>3, <4>4
    <3>21. v = w BY <3>11, <3>14, <3>19, <3>20, SameSequence, Zenon
    <3> QED BY <1>9, <3>3, <3>10, <3>12, <3>21, Zenon
  <2> QED BY <1>7, <1>9, <2>1, <2>2, <2>3, Zenon
<1>17. Located(t, t.up, i, o)
  <2>1. \A j \in 1..i - 1 : Accepted(more[j])
    <3>1. \A j \in 1..i - 1 : Accepted(frames[j]) BY <1>2, <1>3, Zenon DEF Located
    <3>2. \A j \in 1..i - 1 : j \in 1..Len(frames) BY <1>3
    <3> QED BY <1>4, <3>1, <3>2
  <2> QED BY <1>5, <1>8, <1>9, <1>10, <1>11, <1>12, <1>15, <1>16, <2>1, Zenon DEF Located
<1>18. HeaderAt(s, g, o) /\ PayloadAt(s, g, o)
  <2>1. CASE i <= Len(frames) BY <1>2, <1>3, <1>13, <2>1, Zenon DEF Parsed
  <2>2. CASE ~(i <= Len(frames))
    <3>1. s.wsStatus = ST_FLAGS BY <1>2, <1>3, <1>14, <2>2, Zenon DEF Parsed
    <3> QED BY <1>14, <2>2, <3>1, FrameBegins, Zenon
  <2> QED BY <2>1, <2>2
<1>19. Parsed(t, i, o)
  <2>1. HeaderAt(t, g, o) BY <1>18, Zenon DEF HeaderAt, SameParser
  <2>2. PayloadAt(t, g, o) BY <1>18, Zenon DEF PayloadAt, SameParser
  <2> QED BY <1>5, <1>11, <1>12, <2>1, <2>2, Zenon DEF Parsed
<1>20. RestAt(more, i, o) = RestAt(frames, i, o)
  <2>1. CASE i <= Len(frames) BY <1>11, <1>12, <1>13, <2>1, Zenon DEF RestAt
  <2>2. CASE ~(i <= Len(frames))
    <3>1. Len(Header(g)) \in Nat /\ Len(Header(g)) >= 2 BY SizeType, HeaderLength
    <3>2. ~(o >= Len(Header(g))) BY <1>14, <2>2, <3>1
    <3> QED BY <1>12, <2>2, <3>2, Zenon DEF RestAt
  <2> QED BY <2>1, <2>2
<1>21. Answered(t, i, o)
  <2>1. PICK n \in 0..Len(Bytes(frames)) : n = e + o BY <1>6, <1>15
  <2>2. DataOf(more, n) = DataOf(frames, n) /\ PingsOf(more, n) = PingsOf(frames, n)
    BY <1>4, NothingOfLast, Zenon
  <2> QED BY <1>2, <1>3, <1>5, <1>9, <1>10, <1>20, <2>1, <2>2, Zenon DEF Answered
<1>22. o \in 0..Len(Bytes(more))
  <2>1. Len(r) = Len(p) + Len(q) /\ Len(p) \in Nat /\ Len(q) \in Nat BY <1>9
  <2> QED BY <1>3, <1>6, <1>8, <2>1
<1> QED BY <1>5, <1>11, <1>17, <1>19, <1>21, <1>22, Zenon DEF Good

LEMMA SaidKeeps ==
  ASSUME NEW s \in SocketType, SocketInv(s), s.recvHdl, NEW f \in Frames,
         \A i \in DOMAIN s.said : s.said[i].op # OPCODE_CLOSE
  PROVE  SocketInv(Said(s, f))
<1>1. PICK t \in SocketType : t = Said(s, f) BY SaidType
<1>2. /\ t.said = Append(s.said, f) /\ t.up = s.up \o Encode(f) /\ SameParser(s, t)
      /\ t.text = s.text /\ t.pongs = s.pongs /\ t.rest = s.rest /\ t.torn = s.torn
      /\ t.ws = s.ws /\ t.recvHdl = s.recvHdl /\ t.phase = s.phase
  BY <1>1 DEF Said, SocketType, SameParser
<1>3. PICK frames \in Seq(GoodFrames) : frames = s.said BY Zenon DEF SocketType, GoodSeq
<1>4. f \in GoodFrames BY FramesAreGood
<1>5. PICK more : more = Append(frames, f) OBVIOUS
<1>6. /\ Len(more) = Len(frames) + 1 /\ more \in Seq(GoodFrames)
      /\ \A j \in 1..Len(frames) : more[j] = frames[j] /\ j \in 1..Len(more)
  BY <1>4, <1>5
<1>7. Standing(t) BY <1>1, StandingSaid, Zenon DEF SocketInv
<1>8. ClosedLast(t.said)
  <2>1. \A j \in 1..Len(more) - 1 : j \in 1..Len(frames) /\ j \in DOMAIN frames BY <1>6
  <2>2. \A j \in 1..Len(more) - 1 : more[j].op # OPCODE_CLOSE BY <1>3, <1>6, <2>1
  <2> QED BY <1>2, <1>3, <1>5, <2>2, Zenon DEF ClosedLast
<1>9. Over(s.said, s.up) => Over(t.said, t.up)
  <2>1. SUFFICES ASSUME Over(frames, s.up) PROVE Over(more, t.up)
    BY <1>2, <1>3, <1>5
  <2>2. CASE \E i \in DOMAIN frames : Refused(frames[i])
    <3>1. PICK i \in DOMAIN frames : Refused(frames[i]) BY <2>2
    <3>2. i \in DOMAIN more /\ more[i] = frames[i] BY <1>6, <3>1
    <3> QED BY <3>1, <3>2, Zenon DEF Over
  <2>3. CASE frames # <<>> /\ frames[Len(frames)].op = OPCODE_CLOSE
    <3>1. Len(frames) \in DOMAIN frames BY <2>3
    <3> QED BY <1>3, <2>3, <3>1
  <2> QED BY <2>1, <2>2, <2>3, Zenon DEF Over
<1>10. s.ws = "live" => Good(t, t.up)
  BY <1>1, <1>2, <1>4, GoodSaid, Zenon DEF SocketInv
<1>11. s.ws = "live" => ~t.closedHere BY <1>2, Zenon DEF SocketInv, SameParser
<1> QED BY <1>1, <1>2, <1>7, <1>8, <1>9, <1>10, <1>11, Zenon DEF SocketInv

SocketsInv == \A c \in Clients : SocketInv(sock[c])

LEMMA InvIs == Inv <=> TypeOK /\ ListSafe /\ SocketsInv
BY Zenon DEF Inv, ListSafe, SocketsInv, SocketInv

LEMMA InvInit == Init => Inv
<1>1. Init => SocketsInv
  <2>1. Init => \A c \in Clients : sock[c] = Clear BY DEF Init
  <2> QED BY <2>1, ClearKeeps, Zenon DEF SocketsInv
<1> QED BY <1>1, TypeInit, ListInit, InvIs, Zenon

LEMMA SocketsStep ==
  ASSUME TypeOK, ListSafe, SocketsInv, [Next]_vars
  PROVE  SocketsInv'
<1>1. /\ sock \in [Clients -> SocketType]
      /\ \A c \in Clients : sock[c] \in SocketType /\ SocketInv(sock[c])
  BY DEF TypeOK, SocketsInv
<1>2. ASSUME NEW c \in Clients, NEW t, sock' = [sock EXCEPT ![c] = t], SocketInv(t)
      PROVE  SocketsInv'
  <2>1. \A d \in Clients : sock'[d] = IF d = c THEN t ELSE sock[d] BY <1>1, <1>2
  <2>2. \A d \in Clients : SocketInv(sock'[d]) BY <1>1, <1>2, <2>1, Zenon
  <2> QED BY <2>2, Zenon DEF SocketsInv
<1>3. CASE cgiWebsockBroadcast
  <2>1. sock' = [c \in Clients |-> IF c \in Listed \ Echo THEN Hears(sock[c]) ELSE sock[c]]
    BY <1>3, SockAfter, Zenon
  <2>2. Listed = {c \in Clients : sock[c].ws = "live"}
    BY ListIsExactFollows, Zenon DEF ListIsExact
  <2>3. ASSUME NEW c \in Clients PROVE SocketInv(sock'[c])
    <3>1. c \in Listed \ Echo => SocketInv(Hears(sock[c])) BY <1>1, <2>2, HearsKeeps
    <3>2. sock'[c] = IF c \in Listed \ Echo THEN Hears(sock[c]) ELSE sock[c] BY <2>1
    <3> QED BY <1>1, <3>1, <3>2, Zenon
  <2> QED BY <2>3, Zenon DEF SocketsInv
<1>4. ASSUME NEW c \in Clients, httpdConnectCb(c) PROVE SocketsInv'
  BY <1>2, <1>4, SockAfter, ClearKeeps, Zenon
<1>5. ASSUME NEW c \in Clients, cgiWebsocket(c) PROVE SocketsInv'
  <2>1. sock[c].phase = "open" /\ ~sock[c].recvHdl BY <1>5, Zenon DEF cgiWebsocket
  <2>2. SocketInv(Accept(sock[c])) /\ SocketInv(Decline(sock[c]))
    BY <1>1, <2>1, AcceptKeeps, SmallKeeps, Zenon
  <2>3. \/ sock' = [sock EXCEPT ![c] = Accept(sock[c])]
        \/ sock' = [sock EXCEPT ![c] = Decline(sock[c])]
    BY <1>5, SockAfter, Zenon
  <2> QED BY <1>2, <2>2, <2>3, Zenon
<1>6. ASSUME NEW c \in Clients, httpdSentCb(c) PROVE SocketsInv'
  <2>1. sock[c].phase = "open" BY <1>6, Zenon DEF httpdSentCb
  <2>2. SocketInv(Sent(sock[c])) BY <1>1, <2>1, SmallKeeps, Zenon
  <2>3. sock' = [sock EXCEPT ![c] = Sent(sock[c])] BY <1>6, SockAfter, Zenon
  <2> QED BY <1>2, <2>2, <2>3, Zenon
<1>7. ASSUME NEW c \in Clients, httpdDisconCb(c) PROVE SocketsInv'
  BY <1>2, <1>7, SockAfter, ClearKeeps, Zenon
<1>8. ASSUME NEW c \in Clients, NEW k \in 1..Len(sock[c].up), cgiWebSocketRecv(c, k)
      PROVE  SocketsInv'
  <2>1. sock[c].ws = "live" BY <1>8, Zenon DEF cgiWebSocketRecv
  <2>2. SocketInv(AfterPacket(c, sock[c], k)) BY <1>1, <2>1, PacketKeeps, Zenon
  <2>3. sock' = [sock EXCEPT ![c] = AfterPacket(c, sock[c], k)] BY <1>8, SockAfter, Zenon
  <2> QED BY <1>2, <2>2, <2>3, Zenon
<1>9. ASSUME NEW c \in Clients, Reset(c) PROVE SocketsInv'
  <2>1. sock' = [w \in Clients |-> Clear] BY <1>9, Zenon DEF Reset
  <2>2. \A d \in Clients : sock'[d] = Clear BY <2>1
  <2> QED BY <2>2, ClearKeeps, Zenon DEF SocketsInv
<1>10. ASSUME NEW c \in Clients, NEW f \in Frames, Say(c, f) PROVE SocketsInv'
  <2>1. sock[c].recvHdl /\ \A i \in DOMAIN sock[c].said : sock[c].said[i].op # OPCODE_CLOSE
    BY <1>10, Zenon DEF Say
  <2>2. SocketInv(Said(sock[c], f)) BY <1>1, <2>1, SaidKeeps, Zenon
  <2>3. sock' = [sock EXCEPT ![c] = Said(sock[c], f)] BY <1>10, SockAfter, Zenon
  <2> QED BY <1>2, <2>2, <2>3, Zenon
<1>11. CASE UNCHANGED vars BY <1>11, Zenon DEF vars, SocketsInv
<1> QED
  BY <1>3, <1>4, <1>5, <1>6, <1>7, <1>8, <1>9, <1>10, <1>11 DEF Next

LEMMA InvStep == Inv /\ [Next]_vars => Inv'
<1>1. SUFFICES ASSUME Inv, [Next]_vars PROVE Inv'
  OBVIOUS
<1>2. TypeOK /\ ListSafe /\ SocketsInv BY <1>1, InvIs, Zenon
<1>3. TypeOK' /\ ListSafe' /\ SocketsInv' BY <1>1, <1>2, TypeStep, ListStep, SocketsStep, Zenon
<1>4. Inv' <=> TypeOK' /\ ListSafe' /\ SocketsInv'
  BY Zenon DEF Inv, ListSafe, SocketsInv, SocketInv
<1> QED BY <1>3, <1>4

(* Where the parser of a socket stands is always a place in the frames of  *)
(* its browser, reached from what the server has received and nothing      *)
(* else: fr.len, fr.mask, maskCtr, frameCont and wsStatus in the middle of *)
(* cgiWebSocketRecv's packets are those of the frame that was sent.        *)
THEOREM ParserKeepsItsPlace == Spec => []Inv
BY InvInit, InvStep, PTL DEF Spec

LEMMA Follows ==
  ASSUME NEW s \in SocketType, Good(s, s.up), ~s.torn
  PROVE  /\ s.text = DataOf(s.said, Received(s)) /\ s.pongs = PingsOf(s.said, Received(s))
         /\ s.rest # <<>> => InPong(s)
<1>1. s.said \in Seq(GoodFrames) BY Zenon DEF SocketType, GoodSeq
<1>2. PICK frames \in Seq(GoodFrames) : frames = s.said BY <1>1
<1>3. PICK i \in 1..Len(frames) + 1, o \in 0..Len(Bytes(frames)) :
        Located(s, s.up, i, o) /\ Parsed(s, i, o) /\ Answered(s, i, o)
  BY <1>2, Zenon DEF Good
<1>4. PICK e \in Nat : e = Begin(frames, i) BY <1>3, BytesWhole
<1>5. PICK p \in Seq(Byte) : p = Bytes(frames) BY BytesWhole
<1>6. e + o \in 0..Len(p)
  <2>1. CASE i <= Len(frames)
    <3>1. i \in 1..Len(frames) BY <1>3, <2>1
    <3>2. frames[i] \in GoodFrames BY <3>1
    <3>3. o \in 0..Size(frames[i])
      <4>1. o \in Nat /\ o < Size(frames[i]) BY <1>2, <1>3, <2>1, Zenon DEF Located
      <4>2. Size(frames[i]) \in Nat BY <3>2, SizeType
      <4> QED BY <4>1, <4>2
    <3>4. At(frames, s.up, i, o) BY <1>2, <1>3, <3>1, <3>3, Zenon DEF At, Located
    <3> QED BY <1>4, <1>5, <3>4, AtFacts, Zenon
  <2>2. CASE ~(i <= Len(frames))
    <3>1. i = Len(frames) + 1 /\ i > Len(frames) BY <1>3, <2>2
    <3>2. o = 0 BY <1>2, <1>3, <3>1, Zenon DEF Located
    <3>3. e = Len(p) BY <1>4, <1>5, <3>1, BytesWhole, Zenon
    <3> QED BY <3>2, <3>3
  <2> QED BY <2>1, <2>2
<1>7. PICK c \in 0..Len(p) : c = e + o BY <1>6
<1>8. Received(s) = c
  <2>1. s.up = SubSeq(p, c + 1, Len(p)) BY <1>2, <1>3, <1>4, <1>5, <1>7, Zenon DEF Located
  <2>2. Len(p) \in 0..Len(p) OBVIOUS
  <2>3. Len(SubSeq(p, c + 1, Len(p))) = Len(p) - c BY <2>2, Pieces, SMT
  <2>4. Len(s.up) = Len(p) - c BY <2>1, <2>3
  <2>5. Len(p) - (Len(p) - c) = c OBVIOUS
  <2> QED BY <1>2, <1>5, <2>4, <2>5, Zenon DEF Received
<1>9. s.text = DataOf(s.said, Received(s)) /\ s.pongs = PingsOf(s.said, Received(s))
  BY <1>2, <1>3, <1>4, <1>7, <1>8, Zenon DEF Answered
<1> QED BY <1>9, RestIsPong, Zenon

LEMMA FramesFollow ==
  ASSUME Inv
  PROVE  FramesComeOut
<1>1. \A c \in Clients : sock[c] \in SocketType /\ SocketInv(sock[c]) BY DEF Inv, TypeOK
<1>2. ASSUME NEW c \in Clients, sock[c].ws = "live", ~sock[c].torn
      PROVE  /\ sock[c].text = DataOf(sock[c].said, Received(sock[c]))
             /\ sock[c].pongs = PingsOf(sock[c].said, Received(sock[c]))
             /\ sock[c].rest # <<>> => InPong(sock[c])
  <2>1. Good(sock[c], sock[c].up) BY <1>1, <1>2, Zenon DEF SocketInv
  <2> QED BY <1>1, <1>2, <2>1, Follows, Zenon
<1>3. EchoIsExact BY <1>2, Zenon DEF EchoIsExact
<1>4. PongIsExact BY <1>2, Zenon DEF PongIsExact
<1> QED BY <1>3, <1>4 DEF FramesComeOut

(* Whatever frames a browser sends and however TCP cuts them into packets, *)
(* the bytes handed to ws->recvCb by cgiWebSocketRecv are those of its     *)
(* text frames, and each ping is answered by one pong with its payload.    *)
THEOREM FramesAlwaysComeOut == Spec => []FramesComeOut
BY ParserKeepsItsPlace, FramesFollow, PTL

(* What a step that resets the device needs.                               *)
LateBytes ==
  \A c \in Clients : Reset(c) =>
    \/ \E i \in DOMAIN sock[c].said : Refused(sock[c].said[i])
    \/ Last(sock[c].said).op = OPCODE_CLOSE
          /\ Len(sock[c].up) <= Len(Last(sock[c].said).payload)

LEMMA LateBytesFollow == Inv /\ [Next]_vars => [LateBytes]_vars
<1>1. SUFFICES ASSUME Inv, NEW c \in Clients, Reset(c)
               PROVE  \/ \E i \in DOMAIN sock[c].said : Refused(sock[c].said[i])
                      \/ Last(sock[c].said).op = OPCODE_CLOSE
                           /\ Len(sock[c].up) <= Len(Last(sock[c].said).payload)
  BY Zenon DEF LateBytes
<1>2. sock[c].recvHdl /\ sock[c].ws = "NULL" BY <1>1, Zenon DEF Reset
<1>3. SocketInv(sock[c]) BY <1>1, Zenon DEF Inv
<1>4. Over(sock[c].said, sock[c].up) BY <1>2, <1>3, Zenon DEF SocketInv
<1> QED BY <1>4, Zenon DEF Over, Last

(* A packet reaches a socket that cgiWebSocketRecv has freed only behind a *)
(* frame it refuses or inside the reason of a close frame, which is over   *)
(* as soon as its header is read.                                          *)
THEOREM ResetOnlyByLateBytes == Spec => ResetNeedsLateBytes
<1>1. Spec => [][LateBytes]_vars BY ParserKeepsItsPlace, LateBytesFollow, PTL DEF Spec
<1> QED BY <1>1 DEF LateBytes, ResetNeedsLateBytes
=============================================================================
