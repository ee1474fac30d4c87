-------------------------- MODULE OtaClientProofs --------------------------
(***************************************************************************)
(* For every size of word, sector, slot and image, every set of versions   *)
(* and every number of attempts: the update never leaves the boot loader   *)
(* without a whole image.                                                  *)
(*                                                                         *)
(* The argument: IInv says which slots hold a whole image in each step of  *)
(* the switch (Roms), whose attempt the live structure, the flag and the   *)
(* open connection belong to (Attempt), and that flash and carried bytes   *)
(* are a prefix of what the server sends (Download).  A write keeps the    *)
(* prefix (WriteKeepsPrefix), and when all has come nothing is carried     *)
(* (PrefixIsWhole), so that the slot may be selected.                      *)
(***************************************************************************)
EXTENDS OtaClient, SequenceTheorems, TLAPS

Cells == 0..SlotSize - 1
Status == [addr : Nat, erased : Int, extra : Seq(Byte)]

Sector(a) == a \div SectorSize

(* What a write of words leaves in flash, and the last sector erased then. *)
Extended(f, addr, erased, words, last) ==
  spi_flash_write(EraseSectors(f, erased + 1, last), addr, words)
LastErased(erased, last) == IF last > erased THEN last ELSE erased

(* The first addr bytes of an image are in flash f; behind them, what      *)
(* belongs to a sector that was erased is still erased.                    *)
Written(f, addr, erased, image) ==
  /\ \A a \in 0..addr - 1 : f[a] = image[a + 1] /\ Sector(a) <= erased
  /\ \A a \in Cells : a >= addr /\ Sector(a) <= erased => f[a] = Erased

(* The bytes of b are those of the image from addr on.                     *)
Continues(b, image, addr) == \A i \in 1..Len(b) : b[i] = image[addr + i]

(* The words in flash f and the bytes carried over are the first n bytes   *)
(* of an image.                                                            *)
Prefix(s, f, image, n) ==
  /\ s.addr % Word = 0 /\ Len(s.extra) < Word /\ n = s.addr + Len(s.extra)
  /\ Written(f, s.addr, s.erased, image)
  /\ Continues(s.extra, image, s.addr)
-----------------------------------------------------------------------------
(* Arithmetic.                                                             *)
LEMMA MulMonotone ==
  ASSUME NEW n \in Nat, NEW a \in Int, NEW b \in Int, a <= b
  PROVE  n * a <= n * b
<1>1. n * (b - a) >= 0 BY SMT
<1>2. n * (b - a) = n * b - n * a BY SMT
<1> QED BY <1>1, <1>2

LEMMA DivMonotone ==
  ASSUME NEW a \in Int, NEW b \in Int, NEW S \in Nat \ {0}, a <= b
  PROVE  a \div S <= b \div S
<1> DEFINE p == a \div S
           q == b \div S
<1>1. /\ p \in Int /\ q \in Int /\ a = S * p + (a % S) /\ b = S * q + (b % S)
      /\ a % S \in 0..S - 1 /\ b % S \in 0..S - 1
  BY SMT
<1> HIDE DEF p, q
<1>2. SUFFICES ASSUME q + 1 <= p PROVE FALSE
  BY <1>1 DEF p, q
<1>3. S * (q + 1) <= S * p BY <1>1, <1>2, MulMonotone
<1>4. S * (q + 1) = S * q + S BY <1>1
<1> QED BY <1>1, <1>3, <1>4

(* Two multiples of a word less than a word apart are equal.               *)
LEMMA SameMultiple ==
  ASSUME NEW W \in Nat \ {0}, NEW x \in Nat, NEW y \in Nat,
         x % W = 0, y % W = 0, x <= y, y < x + W
  PROVE  x = y
<1> DEFINE p == x \div W
           q == y \div W
<1>1. p \in Int /\ q \in Int /\ x = W * p /\ y = W * q BY SMT
<1> HIDE DEF p, q
<1>2. CASE q <= p
  <2>1. W * q <= W * p BY <1>1, <1>2, MulMonotone
  <2> QED BY <1>1, <2>1
<1>3. CASE p + 1 <= q
  <2>1. W * (p + 1) <= W * q BY <1>1, <1>3, MulMonotone
  <2>2. W * (p + 1) = W * p + W BY <1>1
  <2> QED BY <1>1, <2>1, <2>2
<1> QED BY <1>1, <1>2, <1>3

LEMMA LessMultiple ==
  ASSUME NEW W \in Nat \ {0}, NEW x \in Nat, NEW y \in Nat,
         x % W = 0, y % W = 0, x < y + W
  PROVE  x <= y
<1> DEFINE p == x \div W
           q == y \div W
<1>1. p \in Int /\ q \in Int /\ x = W * p /\ y = W * q BY SMT
<1> HIDE DEF p, q
<1>2. CASE p <= q BY <1>1, <1>2, MulMonotone
<1>3. CASE q + 1 <= p
  <2>1. W * (q + 1) <= W * p BY <1>1, <1>3, MulMonotone
  <2>2. W * (q + 1) = W * q + W BY <1>1
  <2> QED BY <1>1, <2>1, <2>2
<1> QED BY <1>1, <1>2, <1>3

LEMMA MultipleOfMultiple ==
  ASSUME NEW W \in Nat \ {0}, NEW S \in Nat \ {0}, NEW x \in Nat, S % W = 0, x % S = 0
  PROVE  x % W = 0
<1> DEFINE p == S \div W
           q == x \div S
           r == p * q
<1>1. p \in Int /\ q \in Int /\ S = W * p /\ x = S * q BY SMT
<1> HIDE DEF p, q
<1>2. r \in Int /\ x = W * r BY <1>1
<1> HIDE DEF r
<1>3. (W * r) % W = 0 BY <1>2, SMT
<1> QED BY <1>2, <1>3

(* What is cut off a length leaves a multiple of a word.                   *)
LEMMA WholeWords ==
  ASSUME NEW W \in Nat \ {0}, NEW x \in Nat, NEW n \in Nat, x % W = 0
  PROVE  /\ n % W \in 0..W - 1 /\ n - (n % W) \in 0..n
         /\ (x + (n - (n % W))) % W = 0
<1> DEFINE p == x \div W
           q == n \div W
           r == n % W
<1>1. /\ p \in Int /\ q \in Int /\ x = W * p /\ n = W * q + r
      /\ r \in 0..W - 1 /\ q >= 0
  BY SMT
<1> HIDE DEF p, q, r
<1>0. W * (p + q) = W * p + W * q BY <1>1
<1>5. W * p \in Int /\ W * q \in Int BY <1>1
<1>2. x + (n - r) = W * (p + q) BY <1>0, <1>1, <1>5
<1>3. (W * (p + q)) % W = 0
  <2> DEFINE k == p + q
  <2>1. k \in Int BY <1>1
  <2> HIDE DEF k
  <2>2. (W * k) % W = 0 BY <2>1, SMT
  <2> QED BY <2>2 DEF k
<1>4. W * 0 <= W * q BY <1>1, MulMonotone
<1>6. r \in 0..W - 1 /\ n - r \in 0..n BY <1>1, <1>4, <1>5
<1>7. (x + (n - r)) % W = 0 BY <1>2, <1>3
<1> QED BY <1>6, <1>7 DEF r
-----------------------------------------------------------------------------
LEMMA SectorGrows ==
  /\ \A a \in Int : Sector(a) \in Int
  /\ \A a, b \in Int : a <= b => Sector(a) <= Sector(b)
<1>1. SectorSize \in Nat \ {0} BY FlashAssumption
<1>2. ASSUME NEW a \in Int PROVE Sector(a) \in Int BY <1>1 DEF Sector
<1>3. ASSUME NEW a \in Int, NEW b \in Int, a <= b PROVE Sector(a) <= Sector(b)
  BY <1>1, <1>3, DivMonotone DEF Sector
<1> QED BY <1>2, <1>3

LEMMA ByteValues == Erased \in Byte /\ Garbled \in Byte
BY DEF Byte

(* The lengths of the words and of the rest of a buffer.                   *)
LEMMA BufferLengths ==
  ASSUME NEW addr \in Nat, addr % Word = 0, NEW total \in Nat
  PROVE  \E len \in 0..total :
            /\ len = total - (total % Word) /\ total - len < Word
            /\ (addr + len) % Word = 0
<1> DEFINE r == total % Word
<1>1. Word \in Nat \ {0} BY FlashAssumption
<1>2. r \in 0..Word - 1 /\ total - r \in 0..total /\ (addr + (total - r)) % Word = 0
  BY <1>1, WholeWords
<1> HIDE DEF r
<1>3. PICK len \in 0..total : len = total - r BY <1>2
<1>4. (addr + len) % Word = 0 BY <1>2, <1>3
<1>5. total - len < Word BY <1>1, <1>2, <1>3
<1> QED BY <1>3, <1>4, <1>5 DEF r
-----------------------------------------------------------------------------
(* The bytes carried over and the new ones are the next bytes of the image. *)
LEMMA BufferContinues ==
  ASSUME NEW extra \in Seq(Byte), NEW data \in Seq(Byte), NEW image,
         NEW addr \in Nat, NEW n \in Nat, n = addr + Len(extra),
         Continues(extra, image, addr), Continues(data, image, n)
  PROVE  /\ extra \o data \in Seq(Byte) /\ Len(extra \o data) = Len(extra) + Len(data)
         /\ Continues(extra \o data, image, addr)
<1>1. /\ extra \o data \in Seq(Byte) /\ Len(extra \o data) = Len(extra) + Len(data)
      /\ \A i \in 1..Len(extra) + Len(data) :
           (extra \o data)[i] = IF i <= Len(extra) THEN extra[i] ELSE data[i - Len(extra)]
  BY ConcatProperties
<1>2. Len(extra) \in Nat /\ Len(data) \in Nat OBVIOUS
<1>3. ASSUME NEW i \in 1..Len(extra) + Len(data)
      PROVE  (extra \o data)[i] = image[addr + i]
  <2>1. CASE i <= Len(extra)
    <3>1. i \in 1..Len(extra) BY <1>2, <2>1
    <3>2. extra[i] = image[addr + i] BY <3>1 DEF Continues
    <3> QED BY <1>1, <2>1, <3>2
  <2>2. CASE i > Len(extra)
    <3>1. i - Len(extra) \in 1..Len(data) /\ n + (i - Len(extra)) = addr + i
      BY <1>2, <2>2
    <3>2. (extra \o data)[i] = data[i - Len(extra)] BY <1>1, <1>2, <2>2
    <3>3. data[i - Len(extra)] = image[n + (i - Len(extra))] BY <3>1 DEF Continues
    <3> QED BY <3>1, <3>2, <3>3
  <2> QED BY <1>2, <2>1, <2>2
<1> QED BY <1>1, <1>3 DEF Continues

(* Both parts of a buffer that is cut.                                     *)
LEMMA CutBuffer ==
  ASSUME NEW b \in Seq(Byte), NEW total \in Nat, total = Len(b), NEW len \in 0..total,
         NEW image, NEW addr \in Nat, Continues(b, image, addr)
  PROVE  /\ SubSeq(b, 1, len) \in Seq(Byte) /\ Len(SubSeq(b, 1, len)) = len
         /\ Continues(SubSeq(b, 1, len), image, addr)
         /\ SubSeq(b, len + 1, total) \in Seq(Byte)
         /\ Len(SubSeq(b, len + 1, total)) = total - len
         /\ Continues(SubSeq(b, len + 1, total), image, addr + len)
<1> DEFINE words == SubSeq(b, 1, len)
           rest  == SubSeq(b, len + 1, total)
<1>1. /\ words \in Seq(Byte) /\ Len(words) = len
      /\ \A i \in 1..len : words[i] = b[i]
  OBVIOUS
<1>2. rest \in Seq(Byte) /\ Len(rest) = total - len
  OBVIOUS
<1>3. ASSUME NEW i \in 1..total - len PROVE rest[i] = b[len + i]
  OBVIOUS
<1> HIDE DEF words, rest
<1>4. Continues(words, image, addr)
  <2>1. ASSUME NEW i \in 1..len PROVE words[i] = image[addr + i]
    <3>1. i \in 1..Len(b) OBVIOUS
    <3> QED BY <1>1, <3>1 DEF Continues
  <2> QED BY <1>1, <2>1 DEF Continues
<1>5. Continues(rest, image, addr + len)
  <2>1. ASSUME NEW i \in 1..total - len PROVE rest[i] = image[(addr + len) + i]
    <3>1. len + i \in 1..Len(b) /\ addr + (len + i) = (addr + len) + i OBVIOUS
    <3>2. b[len + i] = image[addr + (len + i)] BY <3>1 DEF Continues
    <3> QED BY <1>3, <3>1, <3>2
  <2> QED BY <1>2, <2>1 DEF Continues
<1> QED BY <1>1, <1>2, <1>4, <1>5 DEF words, rest

LEMMA Slice ==
  ASSUME NEW b \in Seq(Byte), NEW from \in Nat, NEW n \in Nat, from + n <= Len(b)
  PROVE  /\ SubSeq(b, from + 1, from + n) \in Seq(Byte)
         /\ Len(SubSeq(b, from + 1, from + n)) = n
         /\ \A i \in 1..n : SubSeq(b, from + 1, from + n)[i] = b[from + i]
<1>1. from + 1 \in Int /\ from + n \in Int /\ (from + n) - (from + 1) + 1 = n OBVIOUS
<1>2. /\ SubSeq(b, from + 1, from + n) \in Seq(Byte)
      /\ Len(SubSeq(b, from + 1, from + n)) = n
  BY <1>1
<1>3. ASSUME NEW i \in 1..n PROVE SubSeq(b, from + 1, from + n)[i] = b[from + i]
  BY <1>1
<1> QED BY <1>2, <1>3

(* Words written behind the part of the image that is in flash: the        *)
(* sectors they begin are erased first.                                    *)
LEMMA WriteExtends ==
  ASSUME NEW f \in [Cells -> Byte], NEW addr \in Nat, NEW erased \in Int,
         NEW words \in Seq(Byte), NEW image, NEW len \in Nat, len = Len(words),
         addr + len <= SlotSize,
         NEW last, last = Sector(addr + len - 1),
         Written(f, addr, erased, image), Continues(words, image, addr)
  PROVE  /\ Extended(f, addr, erased, words, last) \in [Cells -> Byte]
         /\ LastErased(erased, last) \in Int
         /\ Written(Extended(f, addr, erased, words, last), addr + len,
                    LastErased(erased, last), image)
<1> DEFINE c == EraseSectors(f, erased + 1, last)
           g == Extended(f, addr, erased, words, last)
           upto == LastErased(erased, last)
<1>1. SlotSize \in Nat \ {0} BY FlashAssumption
<1>2. last \in Int
  <2>1. addr + len - 1 \in Int OBVIOUS
  <2> QED BY <2>1, SectorGrows
<1>3. upto \in Int /\ erased <= upto /\ last <= upto
      /\ (upto = last \/ upto = erased)
  BY <1>2 DEF LastErased
<1>4. /\ c \in [Cells -> Byte]
      /\ \A a \in Cells : c[a] = IF Sector(a) \in erased + 1..last THEN Erased ELSE f[a]
  BY ByteValues DEF EraseSectors, Sector
<1> HIDE DEF c
<1>5. \A a \in Cells : g[a] = IF a \notin addr..addr + len - 1 THEN c[a]
                           ELSE IF c[a] = Erased THEN words[a - addr + 1] ELSE Garbled
  BY <1>4 DEF spi_flash_write, c, Extended
<1>11. g = [a \in Cells |-> g[a]] BY DEF spi_flash_write, c, EraseSectors, Extended
<1> HIDE DEF g, upto
<1>6. ASSUME NEW a \in Nat, a < addr + len
      PROVE  a \in Cells /\ Sector(a) \in Int /\ Sector(a) <= last
  <2>1. a \in Int /\ addr + len - 1 \in Int /\ a <= addr + len - 1 BY <1>6
  <2>2. a \in Cells BY <1>1, <1>6 DEF Cells
  <2>3. Sector(a) \in Int /\ Sector(a) <= Sector(addr + len - 1) BY <2>1, SectorGrows
  <2> QED BY <2>2, <2>3
<1>7. \A a \in Cells : a \in Nat /\ Sector(a) \in Int BY <1>1, SectorGrows DEF Cells
<1>8. ASSUME NEW a \in 0..addr + len - 1
      PROVE  g[a] = image[a + 1] /\ Sector(a) <= upto
  <2>1. a \in Nat /\ a < addr + len OBVIOUS
  <2>2. a \in Cells /\ Sector(a) \in Int /\ Sector(a) <= last BY <1>6, <2>1
  <2>6. Sector(a) <= upto BY <1>2, <1>3, <2>2
  <2>3. CASE a < addr
    <3>0. a \in 0..addr - 1 BY <2>1, <2>3
    <3>1. f[a] = image[a + 1] /\ Sector(a) <= erased BY <3>0 DEF Written
    <3>2. c[a] = f[a] BY <1>4, <2>2, <3>1
    <3>3. g[a] = c[a] BY <1>5, <2>2, <2>3
    <3> QED BY <2>6, <3>1, <3>2, <3>3
  <2>4. CASE a >= addr
    <3>1. c[a] = Erased
      <4>1. CASE Sector(a) <= erased
        <5>1. f[a] = Erased BY <2>2, <2>4, <4>1 DEF Written
        <5> QED BY <1>4, <2>2, <5>1
      <4>2. CASE Sector(a) > erased
        <5>1. Sector(a) \in erased + 1..last BY <1>2, <2>2, <4>2
        <5> QED BY <1>4, <2>2, <5>1
      <4> QED BY <2>2, <4>1, <4>2
    <3>2. a \in addr..addr + len - 1 /\ a - addr + 1 \in 1..len
      BY <2>1, <2>4
    <3>3. g[a] = words[a - addr + 1] BY <1>5, <2>2, <3>1, <3>2
    <3>4. words[a - addr + 1] = image[addr + (a - addr + 1)] BY <3>2 DEF Continues
    <3>5. addr + (a - addr + 1) = a + 1 BY <2>1
    <3> QED BY <2>6, <3>3, <3>4, <3>5
  <2> QED BY <2>1, <2>3, <2>4
<1>9. ASSUME NEW a \in Cells, a >= addr + len, Sector(a) <= upto
      PROVE  g[a] = Erased
  <2>1. a \in Nat /\ Sector(a) \in Int BY <1>7
  <2>2. a \notin addr..addr + len - 1 /\ a >= addr BY <1>9, <2>1
  <2>3. g[a] = c[a] BY <1>5, <2>2
  <2>4. CASE Sector(a) <= erased
    <3>1. f[a] = Erased BY <2>2, <2>4 DEF Written
    <3> QED BY <1>4, <2>3, <3>1
  <2>5. CASE Sector(a) > erased
    <3>1. Sector(a) \in erased + 1..last BY <1>2, <1>3, <1>9, <2>1, <2>5
    <3> QED BY <1>4, <2>3, <3>1
  <2> QED BY <2>1, <2>4, <2>5
<1>10. g \in [Cells -> Byte]
  <2>1. ASSUME NEW a \in Cells PROVE g[a] \in Byte
    <3>1. CASE a \notin addr..addr + len - 1 BY <1>4, <1>5, <3>1
    <3>2. CASE a \in addr..addr + len - 1
      <4>1. a - addr + 1 \in 1..len BY <1>7, <3>2
      <4>2. words[a - addr + 1] \in Byte BY <4>1
      <4> QED BY <1>5, <3>2, <4>2, ByteValues
    <3> QED BY <3>1, <3>2
  <2> QED BY <2>1, <1>11
<1>12. Written(g, addr + len, upto, image) BY <1>8, <1>9 DEF Written
<1> QED BY <1>3, <1>10, <1>12 DEF g, upto

(* A call of rboot_write_flash with the bytes that come next.              *)
LEMMA WriteKeepsPrefix ==
  ASSUME NEW s \in Status, NEW f \in [Cells -> Byte], NEW data \in Seq(Byte),
         NEW outcome \in Outcomes, NEW image, NEW n \in Nat,
         Prefix(s, f, image, n), n + Len(data) < SlotSize + Word,
         Continues(data, image, n),
         NEW w, w = rboot_write_flash(s, f, data, outcome)
  PROVE  /\ w.ok \in BOOLEAN /\ w.flash \in [Cells -> Byte]
         /\ w.ok => w.status \in Status /\ Prefix(w.status, w.flash, image, n + Len(data))
<1> DEFINE buffer == s.extra \o data
           total  == Len(buffer)
           len    == total - (total % Word)
           last   == (s.addr + len - 1) \div SectorSize
           erased == IF last > s.erased THEN last ELSE s.erased
           cleared == EraseSectors(f, s.erased + 1, last)
           words  == SubSeq(buffer, 1, len)
           rest   == SubSeq(buffer, len + 1, total)
<1>1. PICK addr \in Nat, old \in Int, extra \in Seq(Byte) :
         s = [addr |-> addr, erased |-> old, extra |-> extra]
  BY DEF Status
<1>2. s.addr = addr /\ s.erased = old /\ s.extra = extra BY <1>1
<1>3. CASE data = <<>>
  <2>1. w = [ok |-> TRUE, status |-> s, flash |-> f] BY <1>3 DEF rboot_write_flash
  <2>2. n + Len(data) = n BY <1>3
  <2> QED BY <2>1, <2>2
<1>4. CASE data # <<>> /\ outcome = "no_ram"
  <2>1. w = [ok |-> FALSE, status |-> s, flash |-> f] BY <1>4 DEF rboot_write_flash
  <2> QED BY <2>1
<1>5. CASE data # <<>> /\ outcome = "bad_write"
  <2>1. w.ok = FALSE /\ w.flash = cleared BY <1>5 DEF rboot_write_flash
  <2>2. cleared \in [Cells -> Byte] BY ByteValues DEF EraseSectors
  <2> QED BY <2>1, <2>2
<1>6. CASE data # <<>> /\ outcome = "ok"
  <2>1. /\ w.ok = TRUE
        /\ w.status = [[s EXCEPT !.erased = erased, !.extra = rest] EXCEPT !.addr = @ + len]
        /\ w.flash = spi_flash_write(cleared, s.addr, words)
    BY <1>6 DEF rboot_write_flash
  <2>2. /\ n = addr + Len(extra) /\ addr % Word = 0
        /\ Written(f, addr, old, image) /\ Continues(extra, image, addr)
    BY <1>2 DEF Prefix
  <2>3. /\ buffer = extra \o data /\ buffer \in Seq(Byte)
        /\ total = Len(extra) + Len(data) /\ Continues(buffer, image, addr)
    BY <1>2, <2>2, BufferContinues
  <2> HIDE DEF buffer
  <2>4. total = Len(buffer) /\ total \in Nat BY <2>3
  <2> HIDE DEF total
  <2>5. n + Len(data) = addr + total
    <3>1. Len(extra) \in Nat /\ Len(data) \in Nat OBVIOUS
    <3> QED BY <2>2, <2>3, <3>1
  <2>6. PICK k \in 0..total : k = len /\ total - k < Word /\ (addr + k) % Word = 0
    BY <2>2, <2>4, BufferLengths
  <2> HIDE DEF len
  <2>7. /\ words \in Seq(Byte) /\ Len(words) = k /\ Continues(words, image, addr)
        /\ rest \in Seq(Byte) /\ Len(rest) = total - k /\ Continues(rest, image, addr + k)
    <3>1. words = SubSeq(buffer, 1, k) /\ rest = SubSeq(buffer, k + 1, total) BY <2>6
    <3> HIDE DEF words, rest
    <3> QED BY <2>3, <2>4, <3>1, CutBuffer
  <2>8. k \in Nat /\ addr + k \in Nat /\ addr + k <= SlotSize
    <3>1. /\ Word \in Nat \ {0} /\ SectorSize \in Nat \ {0} /\ SlotSize \in Nat
          /\ SectorSize % Word = 0 /\ SlotSize % SectorSize = 0
      BY FlashAssumption
    <3>2. SlotSize % Word = 0 BY <3>1, MultipleOfMultiple
    <3>3. k \in Nat /\ addr + k \in Nat /\ addr + k < SlotSize + Word BY <2>4, <2>5, <3>1
    <3>4. (addr + k) % Word = 0 BY <2>6
    <3> QED BY <3>1, <3>2, <3>3, <3>4, LessMultiple
  <2>9. /\ last = Sector(addr + k - 1)
        /\ erased = LastErased(old, last)
        /\ w.flash = Extended(f, addr, old, words, last)
    BY <1>2, <2>1, <2>6 DEF Sector, LastErased, Extended
  <2> HIDE DEF words, rest, last, erased
  <2>10. /\ w.flash \in [Cells -> Byte] /\ erased \in Int
         /\ Written(w.flash, addr + k, erased, image)
    <3>1. words \in Seq(Byte) /\ k = Len(words) /\ Continues(words, image, addr) BY <2>7
    <3>2. Written(f, addr, old, image) BY <2>2
    <3>3. k \in Nat /\ addr + k <= SlotSize BY <2>8
    <3>4. last = Sector(addr + k - 1) BY <2>9
    <3>5. /\ Extended(f, addr, old, words, last) \in [Cells -> Byte]
          /\ LastErased(old, last) \in Int
          /\ Written(Extended(f, addr, old, words, last), addr + k,
                     LastErased(old, last), image)
      BY <3>1, <3>2, <3>3, <3>4, WriteExtends
    <3> QED BY <2>9, <3>5
  <2>11. w.status = [addr |-> addr + k, erased |-> erased, extra |-> rest]
    BY <1>1, <2>1, <2>6
  <2>12. /\ w.status \in Status
         /\ w.status.addr = addr + k /\ w.status.erased = erased /\ w.status.extra = rest
    BY <2>7, <2>8, <2>10, <2>11 DEF Status
  <2>13. n + Len(data) = (addr + k) + Len(rest) /\ Len(rest) < Word
    <3>1. Len(rest) = total - k /\ total - k < Word BY <2>6, <2>7
    <3>2. total \in Nat /\ k \in Int BY <2>4
    <3>3. addr + total = (addr + k) + (total - k) BY <3>2
    <3> QED BY <2>5, <3>1, <3>3
  <2>14. Prefix(w.status, w.flash, image, n + Len(data))
    BY <2>6, <2>7, <2>10, <2>12, <2>13 DEF Prefix
  <2> QED BY <2>1, <2>10, <2>12, <2>14
<1> QED BY <1>3, <1>4, <1>5, <1>6 DEF Outcomes
-----------------------------------------------------------------------------
(* The inductive invariant.                                                *)
ConnStates == {"unused", "dns", "connecting", "orphan", "open", "closing", "zombie", "gone"}
Upgrades == [mem : {"none", "live", "freed"}, slot : Slots, conn : 0..MaxConns,
             total : 0..ImageLen, content : {0, ImageLen}, status : Status]
Offered == Versions \cup {0}
Replies == [version : Offered, pos : Int, asked : BOOLEAN]

Types ==
  /\ flash \in [Slots -> [Cells -> Byte]]
  /\ config \in Slots \cup {Bad} /\ running \in Slots /\ chosen \in Slots
  /\ upgrade \in Upgrades
  /\ flag \in {"idle", "start", "finish"} /\ timer \in {"off", "connect", "deinit"}
  /\ conn \in [Conns -> ConnStates]
  /\ server \in [Conns -> Replies]
  /\ step \in {"run", "select", "write", "restart"}

(* A slot's flash holds an image.                                          *)
Holds(f) == \E v \in Offered : \A i \in 1..ImageLen : f[i - 1] = Image(v)[i]

Roms ==
  /\ step # "write" => config \in Slots /\ Holds(flash[config])
  /\ step \in {"select", "write"} => Holds(flash[0]) /\ Holds(flash[1])

Attempt ==
  /\ Live(upgrade) => /\ step = "run" /\ flag = "start"
                      /\ upgrade.conn \in Conns /\ upgrade.slot = 1 - config
                      /\ conn[upgrade.conn] \in {"dns", "connecting", "open"}
  /\ \A d \in Conns : conn[d] = "open" => Live(upgrade) /\ upgrade.conn = d

Download ==
  /\ upgrade.content = 0 => upgrade.total = 0 /\ upgrade.status = rboot_write_init
  /\ upgrade.content # 0 =>
       /\ Live(upgrade) /\ conn[upgrade.conn] = "open"
       /\ server[upgrade.conn].pos = upgrade.total
       /\ Prefix(upgrade.status, flash[upgrade.slot],
                 Image(server[upgrade.conn].version), upgrade.total)

IInv == Types /\ Roms /\ Attempt /\ Download
-----------------------------------------------------------------------------
LEMMA InitialStatus == rboot_write_init \in Status
<1>1. <<>> \in Seq(Byte) OBVIOUS
<1> QED BY <1>1 DEF rboot_write_init, Status

LEMMA NullIsUpgrade ==
  /\ Null \in Upgrades /\ ~Live(Null)
  /\ Null.content = 0 /\ Null.total = 0 /\ Null.status = rboot_write_init
<1>1. ImageLen \in Nat /\ MaxConns \in Nat BY OtaAssumption
<1>2. 0 \in 0..MaxConns /\ 0 \in 0..ImageLen BY <1>1
<1> QED BY <1>2, InitialStatus DEF Null, Upgrades, Live, Slots

(* Nothing is written yet: any image is to come.                           *)
LEMMA NothingWritten ==
  ASSUME NEW f \in [Cells -> Byte], NEW image
  PROVE  Prefix(rboot_write_init, f, image, 0)
<1>1. /\ Word \in Nat \ {0} /\ SectorSize \in Nat \ {0} /\ SlotSize \in Nat \ {0}
  BY FlashAssumption
<1>2. ASSUME NEW a \in Cells PROVE ~(Sector(a) <= -1)
  <2>1. 0 \in Int /\ a \in Int /\ 0 <= a BY <1>1 DEF Cells
  <2>2. Sector(0) <= Sector(a) /\ Sector(a) \in Int BY <2>1, SectorGrows
  <2>3. Sector(0) = 0 BY <1>1 DEF Sector
  <2> QED BY <2>2, <2>3
<1>3. Written(f, 0, -1, image) BY <1>2 DEF Written
<1>4. 0 % Word = 0 /\ 0 < Word BY <1>1
<1>5. Continues(<<>>, image, 0) BY DEF Continues
<1> QED BY <1>3, <1>4, <1>5 DEF Prefix, rboot_write_init

LEMMA ImageIsBytes ==
  ASSUME NEW v \in Offered
  PROVE  Image(v) \in Seq(Byte) /\ Len(Image(v)) = ImageLen
<1>1. ImageLen \in Nat BY OtaAssumption
<1>2. \A i \in 1..ImageLen : 20 * v + i \in Byte BY DEF Byte, Offered
<1>3. Image(v) \in [1..ImageLen -> Byte] BY <1>2 DEF Image
<1> QED BY <1>1, <1>3

(* When all bytes of an image have come, none is carried over.             *)
LEMMA PrefixIsWhole ==
  ASSUME NEW s \in Status, NEW f, NEW v \in Offered,
         Prefix(s, f, Image(v), ImageLen)
  PROVE  Holds(f)
<1>1. PICK addr \in Nat, old \in Int, extra \in Seq(Byte) :
         s = [addr |-> addr, erased |-> old, extra |-> extra]
  BY DEF Status
<1>2. s.addr = addr /\ s.erased = old /\ s.extra = extra BY <1>1
<1>3. /\ addr % Word = 0 /\ Len(extra) < Word /\ ImageLen = addr + Len(extra)
      /\ Written(f, addr, old, Image(v))
  BY <1>2 DEF Prefix
<1>4. Word \in Nat \ {0} /\ ImageLen \in Nat /\ ImageLen % Word = 0
  BY FlashAssumption, OtaAssumption
<1>5. Len(extra) \in Nat OBVIOUS
<1>6. addr <= ImageLen /\ ImageLen < addr + Word BY <1>3, <1>4, <1>5
<1>7. addr = ImageLen BY <1>3, <1>4, <1>6, SameMultiple
<1>8. ASSUME NEW i \in 1..ImageLen PROVE f[i - 1] = Image(v)[i]
  <2>1. i - 1 \in 0..addr - 1 /\ (i - 1) + 1 = i BY <1>4, <1>7
  <2>2. f[i - 1] = Image(v)[(i - 1) + 1] BY <1>3, <2>1 DEF Written
  <2> QED BY <2>1, <2>2
<1> QED BY <1>8 DEF Holds
-----------------------------------------------------------------------------
LEMMA InitHolds == Init => IInv
<1> SUFFICES ASSUME Init PROVE IInv OBVIOUS
<1>1. SlotSize \in Nat /\ ImageLen \in Nat /\ ImageLen <= SlotSize /\ MaxConns \in Nat
  BY FlashAssumption, OtaAssumption
<1>2. \A a \in Cells : Slot0[a] = IF a < ImageLen THEN Image(0)[a + 1] ELSE Erased
  BY DEF Slot0, Cells
<1>3. Image(0) \in Seq(Byte) /\ Len(Image(0)) = ImageLen BY ImageIsBytes DEF Offered
<1>4. Slot0 \in [Cells -> Byte]
  <2>1. ASSUME NEW a \in Cells, a < ImageLen PROVE Image(0)[a + 1] \in Byte
    <3>1. a + 1 \in 1..Len(Image(0)) BY <1>1, <1>3, <2>1 DEF Cells
    <3> QED BY <1>3, <3>1
  <2> QED BY <2>1, ByteValues DEF Slot0, Cells
<1>5. flash \in [Slots -> [Cells -> Byte]] /\ flash[0] = Slot0
  BY <1>4, ByteValues DEF Init, Slots, Cells
<1>6. Types BY <1>5, NullIsUpgrade DEF Init, Types, Slots, ConnStates, Offered, NoReply, Replies
<1>7. Holds(Slot0)
  <2>1. ASSUME NEW i \in 1..ImageLen PROVE Slot0[i - 1] = Image(0)[i]
    <3>1. i - 1 \in Cells /\ i - 1 < ImageLen /\ (i - 1) + 1 = i BY <1>1 DEF Cells
    <3> QED BY <1>2, <3>1
  <2> QED BY <2>1 DEF Holds, Offered
<1>8. Roms BY <1>5, <1>7 DEF Init, Roms, Slots
<1>9. Attempt BY NullIsUpgrade DEF Init, Attempt
<1>10. Download BY NullIsUpgrade DEF Init, Download
<1> QED BY <1>6, <1>8, <1>9, <1>10 DEF IInv

LEMMA BootKeeps == IInv /\ Boot => IInv'
<1> SUFFICES ASSUME IInv, Boot PROVE IInv' OBVIOUS
<1>1. config' \in Slots /\ Holds(flash'[config'])
  <2>1. flash' = flash /\ config' = BootRom(config) BY DEF Boot
  <2>2. CASE step = "write"
    <3>1. Holds(flash[0]) /\ Holds(flash[1]) BY <2>2 DEF IInv, Roms
    <3>2. config = Bad \/ config \in Slots BY DEF IInv, Types
    <3>3. BootRom(config) = 0 \/ BootRom(config) = 1 BY <3>2 DEF BootRom, Slots
    <3> QED BY <2>1, <3>1, <3>3 DEF Slots
  <2>3. CASE step # "write"
    <3>1. config \in Slots /\ Holds(flash[config]) BY <2>3 DEF IInv, Roms
    <3>2. config # Bad BY <3>1 DEF Slots, Bad
    <3> QED BY <2>1, <3>1, <3>2 DEF BootRom
  <2> QED BY <2>2, <2>3
<1>2. Types' BY <1>1, NullIsUpgrade DEF IInv, Types, Boot, BootRom, Slots, ConnStates, Offered, NoReply, Replies
<1>3. Roms' BY <1>1 DEF Roms, Boot
<1>4. Attempt' BY NullIsUpgrade DEF Attempt, Boot
<1>5. Download' BY NullIsUpgrade DEF Download, Boot
<1> QED BY <1>2, <1>3, <1>4, <1>5 DEF IInv

(* rboot_ota_deinit, wherever it is called.                                *)
LEMMA DeinitKeeps ==
  ASSUME IInv, step = "run", NEW u, NEW cs \in [Conns -> ConnStates], NEW f,
         u.slot \in Slots, u.conn \in 0..MaxConns, Deinit(u, cs, f),
         \A d \in Conns : cs[d] = "open" => u.conn = d,
         UNCHANGED <<config, running>>,
         flash' \in [Slots -> [Cells -> Byte]],
         server' \in [Conns -> Replies],
         Holds(flash'[config]),
         f = "finish" => Holds(flash'[0]) /\ Holds(flash'[1])
  PROVE  IInv'
<1>1. \A d \in Conns : u.conn = d => u.conn # 0 BY OtaAssumption DEF Conns
<1>2. conn' \in [Conns -> ConnStates] /\ \A d \in Conns : conn'[d] # "open"
  BY <1>1 DEF Deinit, ConnStates
<1>3. Types' BY <1>2, NullIsUpgrade DEF IInv, Types, Deinit
<1>4. Roms' BY DEF IInv, Types, Roms, Deinit
<1>5. Attempt' BY <1>2, NullIsUpgrade DEF Attempt, Deinit
<1>6. Download' BY NullIsUpgrade DEF Download, Deinit
<1> QED BY <1>3, <1>4, <1>5, <1>6 DEF IInv

LEMMA SameReplies ==
  ASSUME IInv, UNCHANGED server
  PROVE  /\ server' \in [Conns -> Replies]
         /\ \A d \in Conns : /\ server'[d].version = server[d].version
                            /\ server'[d].pos = server[d].pos
BY DEF IInv, Types

(* upgrade_disconcb, wherever it is called.                                *)
LEMMA DisconcbKeeps ==
  ASSUME IInv, step = "run", NEW c \in 0..MaxConns, NEW cs \in [Conns -> ConnStates],
         upgrade_disconcb(c, cs), UNCHANGED storage, server' \in [Conns -> Replies],
         \A d \in Conns : /\ server'[d].version = server[d].version
                          /\ server'[d].pos = server[d].pos,
         \A d \in Conns : cs[d] \in {conn[d], "gone"},
         Live(upgrade) /\ upgrade.conn # c => cs[upgrade.conn] = conn[upgrade.conn]
  PROVE  IInv'
<1>1. /\ flash' = flash /\ config' = config /\ running' = running
  BY DEF storage
<1>2. \A d \in Conns : cs[d] = "open" => Live(upgrade) /\ upgrade.conn = d
  BY DEF IInv, Attempt
<1>3. CASE Live(upgrade) /\ upgrade.conn = c
  <2> DEFINE u == [upgrade EXCEPT !.conn = 0]
             free == IF c = 0 THEN cs ELSE Free(cs, c)
  <2>1. Deinit(u, free, flag) BY <1>3 DEF upgrade_disconcb
  <2>2. c \in Conns /\ c # 0 BY <1>3, OtaAssumption DEF IInv, Attempt, Conns
  <2>3. free \in [Conns -> ConnStates] /\ \A d \in Conns : free[d] # "open"
    <3>1. free = Free(cs, c) BY <2>2
    <3>2. cs[c] \in {"dns", "connecting", "open", "gone"}
      BY <1>3, <2>2 DEF IInv, Attempt
    <3>3. \A d \in Conns : d # c => cs[d] # "open" BY <1>2, <1>3
    <3>4. Free(cs, c) \in [Conns -> ConnStates]
      BY <2>2, <3>2 DEF Free, ConnStates
    <3>5. \A d \in Conns : d # c => Free(cs, c)[d] = cs[d] BY DEF Free
    <3>6. Free(cs, c)[c] # "open" BY <2>2, <3>2 DEF Free, ConnStates
    <3> QED BY <3>1, <3>3, <3>4, <3>5, <3>6
  <2>4. u.slot \in Slots /\ u.conn \in 0..MaxConns
    BY OtaAssumption DEF IInv, Types, Upgrades
  <2>5. Holds(flash'[config]) /\ flag # "finish"
    BY <1>1, <1>3 DEF IInv, Roms, Attempt
  <2>6. /\ flash' \in [Slots -> [Cells -> Byte]]
        /\ server' \in [Conns -> Replies]
    BY <1>1 DEF IInv, Types
  <2>7. \A d \in Conns : free[d] = "open" => u.conn = d BY <2>3
  <2>8. UNCHANGED <<config, running>> BY <1>1
  <2>9. flag = "finish" => Holds(flash'[0]) /\ Holds(flash'[1]) BY <2>5
  <2> HIDE DEF u, free
  <2> QED BY <2>1, <2>3, <2>4, <2>5, <2>6, <2>7, <2>8, <2>9, DeinitKeeps
<1>4. CASE ~(Live(upgrade) /\ upgrade.conn = c)
  <2>1. /\ timer' = "off" /\ conn' = cs /\ upgrade' = upgrade /\ flag' = flag
        /\ step' = step /\ chosen' = chosen
    BY <1>4 DEF upgrade_disconcb
  <2>2. Types' BY <1>1, <2>1 DEF IInv, Types
  <2>3. Roms' BY <1>1, <2>1 DEF IInv, Roms
  <2>4. Attempt' BY <1>1, <1>2, <1>4, <2>1 DEF IInv, Attempt
  <2>5. Download' BY <1>1, <1>4, <2>1 DEF IInv, Download, Attempt
  <2> QED BY <2>2, <2>3, <2>4, <2>5 DEF IInv
<1> QED BY <1>3, <1>4
-----------------------------------------------------------------------------
(* The actions.                                                            *)
LEMMA StartKeeps == IInv /\ rboot_ota_start => IInv'
<1> SUFFICES ASSUME IInv, rboot_ota_start PROVE IInv' OBVIOUS
<1>1. /\ flash' = flash /\ config' = config /\ running' = running
      /\ step' = step /\ chosen' = chosen /\ step = "run" /\ flag # "start"
  BY DEF rboot_ota_start, storage
<1>2. ~Live(upgrade) /\ \A d \in Conns : conn[d] # "open"
  BY <1>1 DEF IInv, Attempt
<1>3. config \in Slots /\ 1 - config \in Slots BY <1>1 DEF IInv, Roms, Slots
<1>4. PICK c \in Conns :
        /\ server' \in {server, [server EXCEPT ![c].asked = TRUE]}
        /\ LET u == [Null EXCEPT !.mem = "live", !.conn = c, !.slot = 1 - config]
           IN  \/ upgrade' = Null /\ UNCHANGED <<flag, conn, timer>>
               \/ upgrade' = [u EXCEPT !.mem = "freed"] /\ UNCHANGED <<flag, conn, timer>>
               \/ /\ flag' = "start"
                  /\ \/ Connect(u, conn)
                     \/ /\ upgrade' = u /\ conn' = [conn EXCEPT ![c] = "dns"]
                        /\ UNCHANGED timer
                     \/ /\ upgrade' = [u EXCEPT !.mem = "freed"]
                        /\ conn' = [conn EXCEPT ![c] = "gone"]
                        /\ UNCHANGED timer
  BY DEF rboot_ota_start
<1> DEFINE u == [Null EXCEPT !.mem = "live", !.conn = c, !.slot = 1 - config]
           freed == [u EXCEPT !.mem = "freed"]
<1>5. c \in 0..MaxConns BY OtaAssumption DEF Conns
<1>6. /\ u \in Upgrades /\ u.conn = c /\ u.slot = 1 - config
      /\ u.content = 0 /\ u.total = 0 /\ u.status = rboot_write_init
  BY <1>3, <1>5, NullIsUpgrade DEF Null, Upgrades
<1>7. /\ freed \in Upgrades /\ ~Live(freed)
      /\ freed.content = 0 /\ freed.total = 0 /\ freed.status = rboot_write_init
  BY <1>6 DEF Upgrades, Live
<1>8. /\ conn' \in [Conns -> ConnStates] /\ \A d \in Conns : conn'[d] # "open"
      /\ timer' \in {"off", "connect", "deinit"} /\ flag' \in {"idle", "start", "finish"}
  <2>1. CASE Connect(u, conn)
    <3>1. conn' = [conn EXCEPT ![c] = "connecting"] /\ timer' = "connect"
      BY <1>2, <1>6, <2>1 DEF Connect
    <3>2. flag' \in {"idle", "start", "finish"} BY <1>4 DEF IInv, Types
    <3> QED BY <1>2, <3>1, <3>2 DEF IInv, Types, ConnStates
  <2>2. CASE ~Connect(u, conn)
    BY <1>2, <1>4, <2>2 DEF IInv, Types, ConnStates
  <2> QED BY <2>1, <2>2
<1>9. \/ upgrade' \in {Null, freed}
      \/ upgrade' = u /\ flag' = "start" /\ conn'[c] \in {"dns", "connecting"}
  <2>1. CASE Connect(u, conn)
    <3>1. conn' = [conn EXCEPT ![c] = "connecting"] /\ upgrade' = u
      BY <1>2, <1>6, <2>1 DEF Connect
    <3>2. conn'[c] = "connecting" BY <3>1 DEF IInv, Types
    <3> QED BY <1>4, <3>1, <3>2, NullIsUpgrade DEF Live
  <2>2. CASE ~Connect(u, conn)
    BY <1>4, <2>2 DEF IInv, Types
  <2> QED BY <2>1, <2>2
<1> HIDE DEF u, freed
<1>14. server' \in [Conns -> Replies] BY <1>4 DEF IInv, Types, Replies
<1>10. Types' BY <1>1, <1>14, <1>6, <1>7, <1>8, <1>9, NullIsUpgrade DEF IInv, Types
<1>11. Roms' BY <1>1 DEF IInv, Roms
<1>12. Attempt' BY <1>1, <1>6, <1>7, <1>8, <1>9, NullIsUpgrade DEF Attempt
<1>13. Download' BY <1>6, <1>7, <1>9, NullIsUpgrade DEF Download
<1> QED BY <1>10, <1>11, <1>12, <1>13 DEF IInv

LEMMA ResolvedKeeps ==
  ASSUME NEW c \in Conns, NEW found \in BOOLEAN, IInv, upgrade_resolved(c, found)
  PROVE  IInv'
<1> DEFINE cs == [conn EXCEPT ![c] = IF @ = "dns" THEN "gone" ELSE @]
<1>1. step = "run" BY DEF upgrade_resolved
<1>2. /\ conn \in [Conns -> ConnStates] /\ cs \in [Conns -> ConnStates]
      /\ \A d \in Conns : cs[d] \in {conn[d], "gone"}
      /\ \A d \in Conns : conn[d] # "dns" => cs[d] = conn[d]
  BY DEF IInv, Types, ConnStates
<1>6. Live(upgrade) => /\ server' \in [Conns -> Replies]
                       /\ \A d \in Conns : /\ server'[d].version = server[d].version
                                          /\ server'[d].pos = server[d].pos
  <2>1. Live(upgrade) => server' = [server EXCEPT ![c].asked = FALSE]
    BY DEF upgrade_resolved
  <2>2. server \in [Conns -> Replies] BY DEF IInv, Types
  <2>3. /\ [server[c] EXCEPT !.asked = FALSE] \in Replies
        /\ [server[c] EXCEPT !.asked = FALSE].version = server[c].version
        /\ [server[c] EXCEPT !.asked = FALSE].pos = server[c].pos
    BY <2>2 DEF Replies
  <2>4. ASSUME Live(upgrade), NEW d \in Conns
        PROVE  /\ server'[d] \in Replies /\ server'[d].version = server[d].version
               /\ server'[d].pos = server[d].pos
    BY <2>1, <2>2, <2>3, <2>4
  <2>5. Live(upgrade) => server' \in [Conns -> Replies]
    BY <2>1, <2>2, <2>3
  <2> QED BY <2>4, <2>5
<1>3. CASE ~Live(upgrade) BY <1>3, BootKeeps DEF upgrade_resolved
<1>4. CASE Live(upgrade) /\ ~found
  <2>1. /\ UNCHANGED storage /\ upgrade_disconcb(upgrade.conn, cs)
    BY <1>4 DEF upgrade_resolved
  <2>2. upgrade.conn \in 0..MaxConns BY DEF IInv, Types, Upgrades
  <2> HIDE DEF cs
  <2> QED BY <1>1, <1>2, <1>4, <1>6, <2>1, <2>2, DisconcbKeeps
<1>5. CASE Live(upgrade) /\ found
  <2>1. /\ flash' = flash /\ config' = config /\ running' = running
        /\ upgrade' = upgrade /\ flag' = flag /\ step' = step /\ chosen' = chosen
        /\ timer' = "connect"
        /\ conn' = [cs EXCEPT ![upgrade.conn] = IF @ = "open" THEN @ ELSE "connecting"]
    BY <1>5 DEF upgrade_resolved, storage, Connect
  <2>2. upgrade.conn \in Conns BY <1>5 DEF IInv, Attempt
  <2> HIDE DEF cs
  <2>3. /\ conn' \in [Conns -> ConnStates]
        /\ \A d \in Conns : conn'[d] = "open" => conn[d] = "open"
        /\ conn'[upgrade.conn] \in {"open", "connecting"}
    BY <1>2, <2>1, <2>2 DEF ConnStates
  <2>4. conn[upgrade.conn] = "open" => conn'[upgrade.conn] = "open"
    BY <1>1, <1>2, <2>1, <2>2
  <2>5. Types' BY <1>5, <1>6, <2>1, <2>3 DEF IInv, Types
  <2>6. Roms' BY <2>1 DEF IInv, Roms
  <2>7. Attempt' BY <2>1, <2>2, <2>3 DEF IInv, Attempt
  <2>8. Download' BY <1>5, <1>6, <2>1, <2>2, <2>4 DEF IInv, Download
  <2> QED BY <2>5, <2>6, <2>7, <2>8 DEF IInv
<1> QED BY <1>3, <1>4, <1>5

LEMMA ConnectCbKeeps ==
  ASSUME NEW c \in Conns, NEW ram \in BOOLEAN, IInv, upgrade_connect_cb(c, ram)
  PROVE  IInv'
<1> DEFINE cs == [conn EXCEPT ![c] = IF c = upgrade.conn THEN "open" ELSE "zombie"]
<1>1. step = "run" /\ conn[c] \in {"connecting", "orphan"} BY DEF upgrade_connect_cb
<1>2. CASE ~Live(upgrade) BY <1>2, BootKeeps DEF upgrade_connect_cb
<1>3. CASE Live(upgrade)
  <2>1. /\ flash' = flash /\ config' = config /\ running' = running
        /\ IF ram THEN /\ timer' = "deinit" /\ conn' = cs
                       /\ UNCHANGED <<upgrade, flag, step, chosen, robbed>>
           ELSE Deinit(upgrade, cs, flag)
    BY <1>3 DEF upgrade_connect_cb, storage
  <2>2. PICK v \in Versions : server' = [server EXCEPT ![c].version = v]
    BY <1>3 DEF upgrade_connect_cb
  <2>3. /\ server' \in [Conns -> Replies]
        /\ \A d \in Conns : d # c => server'[d] = server[d]
    BY <2>2 DEF IInv, Types, Offered, Replies
  <2>4. upgrade.conn \in Conns /\ upgrade.conn \in 0..MaxConns /\ upgrade.slot \in Slots
        /\ conn[upgrade.conn] \in {"dns", "connecting", "open"} /\ flag = "start"
    BY <1>3 DEF IInv, Attempt, Types, Upgrades
  <2>5. /\ cs \in [Conns -> ConnStates]
        /\ \A d \in Conns : cs[d] = "open" => upgrade.conn = d
        /\ \A d \in Conns : d # c => cs[d] = conn[d]
        /\ cs[upgrade.conn] \in {"dns", "connecting", "open"}
    BY <1>1, <2>4 DEF IInv, Types, ConnStates, Attempt
  <2> HIDE DEF cs
  <2>6. Holds(flash'[config]) BY <1>1, <2>1 DEF IInv, Roms
  <2>7. flash' \in [Slots -> [Cells -> Byte]] BY <2>1 DEF IInv, Types
  <2>8. CASE ~ram
    <3>1. Deinit(upgrade, cs, flag) /\ UNCHANGED <<config, running>> BY <2>1, <2>8
    <3> QED BY <1>1, <2>3, <2>4, <2>5, <2>6, <2>7, <3>1, DeinitKeeps
  <2>9. CASE ram
    <3>1. /\ timer' = "deinit" /\ conn' = cs /\ upgrade' = upgrade /\ flag' = flag
          /\ step' = step /\ chosen' = chosen
      BY <2>1, <2>9
    <3>2. Types' BY <2>1, <2>3, <2>5, <3>1 DEF IInv, Types
    <3>3. Roms' BY <2>1, <3>1 DEF IInv, Roms
    <3>4. Attempt' BY <1>3, <2>1, <2>5, <3>1 DEF IInv, Attempt
    <3>5. Download'
      <4>1. CASE upgrade.content = 0 BY <3>1, <4>1 DEF IInv, Download
      <4>2. CASE upgrade.content # 0
        <5>1. conn[upgrade.conn] = "open" BY <4>2 DEF IInv, Download
        <5>2. upgrade.conn # c BY <1>1, <5>1
        <5>3. server'[upgrade.conn] = server[upgrade.conn]
              /\ conn'[upgrade.conn] = conn[upgrade.conn]
          BY <2>3, <2>4, <2>5, <3>1, <5>2
        <5> QED BY <2>1, <3>1, <4>2, <5>3 DEF IInv, Download
      <4> QED BY <4>1, <4>2
    <3> QED BY <3>2, <3>3, <3>4, <3>5 DEF IInv
  <2> QED BY <2>8, <2>9
<1> QED BY <1>2, <1>3

(* Both callbacks of the end of a connection, and the timer.               *)
LEMMA EndKeeps ==
  ASSUME NEW c \in Conns, IInv, upgrade_recon_cb(c) \/ Disconnected(c)
  PROVE  IInv'
<1> DEFINE cs == [conn EXCEPT ![c] = "gone"]
<1>1. step = "run" BY DEF upgrade_recon_cb, Disconnected
<1>2. /\ cs \in [Conns -> ConnStates]
      /\ \A d \in Conns : cs[d] \in {conn[d], "gone"}
      /\ \A d \in Conns : d # c => cs[d] = conn[d]
  BY DEF IInv, Types, ConnStates
<1>3. c \in 0..MaxConns /\ upgrade.conn \in 0..MaxConns
  BY OtaAssumption DEF IInv, Types, Upgrades, Conns
<1>4. CASE upgrade_recon_cb(c) /\ ~Live(upgrade) BY <1>4, BootKeeps DEF upgrade_recon_cb
<1>5. CASE upgrade_recon_cb(c) /\ Live(upgrade)
  <2>1. upgrade_disconcb(upgrade.conn, cs) /\ UNCHANGED <<storage, server>>
    BY <1>5 DEF upgrade_recon_cb
  <2> HIDE DEF cs
  <2> QED BY <1>1, <1>2, <1>3, <2>1, SameReplies, DisconcbKeeps
<1>6. CASE Disconnected(c)
  <2>1. upgrade_disconcb(c, cs) /\ UNCHANGED <<storage, server>>
    BY <1>6 DEF Disconnected
  <2>2. Live(upgrade) /\ upgrade.conn # c => cs[upgrade.conn] = conn[upgrade.conn]
    BY <1>2 DEF IInv, Attempt
  <2> HIDE DEF cs
  <2> QED BY <1>1, <1>2, <1>3, <2>1, <2>2, SameReplies, DisconcbKeeps
<1> QED BY <1>4, <1>5, <1>6

LEMMA TimerKeeps == IInv /\ TimerFires => IInv'
<1> SUFFICES ASSUME IInv, TimerFires PROVE IInv' OBVIOUS
<1>1. step = "run" BY DEF TimerFires
<1>2. /\ conn \in [Conns -> ConnStates] /\ upgrade.slot \in Slots
      /\ upgrade.conn \in 0..MaxConns
  BY DEF IInv, Types, Upgrades
<1>3. CASE ~Live(upgrade) BY <1>3, BootKeeps DEF TimerFires
<1>4. CASE Live(upgrade) /\ timer = "deinit"
  <2>1. Deinit(upgrade, conn, flag) /\ UNCHANGED <<storage, server>>
    BY <1>4 DEF TimerFires
  <2>2. /\ flash' = flash /\ UNCHANGED <<config, running>> /\ server' = server
    BY <2>1 DEF storage
  <2>3. /\ \A d \in Conns : conn[d] = "open" => upgrade.conn = d
        /\ flag # "finish" /\ Holds(flash'[config])
    BY <1>1, <1>4, <2>2 DEF IInv, Attempt, Roms
  <2>4. /\ flash' \in [Slots -> [Cells -> Byte]]
        /\ server' \in [Conns -> Replies]
    BY <2>2 DEF IInv, Types
  <2> QED BY <1>1, <1>2, <2>1, <2>2, <2>3, <2>4, DeinitKeeps
<1>5. CASE Live(upgrade) /\ timer # "deinit"
  <2>1. upgrade_disconcb(upgrade.conn, conn) /\ UNCHANGED <<storage, server>>
    BY <1>5 DEF TimerFires
  <2>2. \A d \in Conns : conn[d] \in {conn[d], "gone"} OBVIOUS
  <2> QED BY <1>1, <1>2, <2>1, <2>2, SameReplies, DisconcbKeeps
<1> QED BY <1>3, <1>4, <1>5

LEMMA ForgottenKeeps ==
  ASSUME NEW c \in Conns, IInv, Forgotten(c)
  PROVE  IInv'
<1>1. /\ step = "run" /\ conn[c] \in {"orphan", "zombie"}
      /\ conn' = [conn EXCEPT ![c] = "gone"]
      /\ flash' = flash /\ config' = config /\ running' = running /\ server' = server
      /\ upgrade' = upgrade /\ flag' = flag /\ timer' = timer
      /\ step' = step /\ chosen' = chosen
  BY DEF Forgotten, storage
<1>2. /\ conn' \in [Conns -> ConnStates]
      /\ \A d \in Conns : d # c => conn'[d] = conn[d]
      /\ \A d \in Conns : conn'[d] = "open" => conn[d] = "open"
  BY <1>1 DEF IInv, Types, ConnStates
<1>3. Types' BY <1>1, <1>2 DEF IInv, Types
<1>4. Roms' BY <1>1 DEF IInv, Roms
<1>5. Attempt' BY <1>1, <1>2 DEF IInv, Attempt
<1>6. Download' BY <1>1, <1>2 DEF IInv, Download, Attempt
<1> QED BY <1>3, <1>4, <1>5, <1>6 DEF IInv

LEMMA SelectKeeps == IInv /\ (EraseConfig \/ WriteConfig) => IInv'
<1> SUFFICES ASSUME IInv, EraseConfig \/ WriteConfig PROVE IInv' OBVIOUS
<1>1. /\ flash' = flash /\ running' = running /\ server' = server /\ conn' = conn
      /\ upgrade' = upgrade /\ flag' = flag /\ timer' = timer /\ chosen' = chosen
  BY DEF EraseConfig, WriteConfig
<1>2. step \in {"select", "write"} /\ Holds(flash[0]) /\ Holds(flash[1]) /\ ~Live(upgrade)
  BY DEF EraseConfig, WriteConfig, IInv, Roms, Attempt
<1>3. \/ step' = "write" /\ config' = Bad
      \/ step' = "restart" /\ config' \in Slots /\ Holds(flash[config'])
  <2>1. CASE EraseConfig BY <2>1 DEF EraseConfig, IInv, Roms
  <2>2. CASE WriteConfig
    <3>1. step' = "restart" /\ config' = chosen /\ chosen \in Slots
      BY <2>2 DEF WriteConfig, IInv, Types
    <3>2. chosen = 0 \/ chosen = 1 BY <3>1 DEF Slots
    <3> QED BY <1>2, <3>1, <3>2
  <2> QED BY <2>1, <2>2
<1>4. Types' BY <1>1, <1>3 DEF IInv, Types
<1>5. Roms' BY <1>1, <1>2, <1>3 DEF Roms
<1>6. Attempt' BY <1>1, <1>2 DEF IInv, Attempt
<1>7. Download' BY <1>1 DEF IInv, Download
<1> QED BY <1>4, <1>5, <1>6, <1>7 DEF IInv
(* A packet.  Either its bytes follow those that are written, or it ends   *)
(* the attempt.                                                            *)
LEMMA RecvKeeps ==
  ASSUME NEW c \in Conns, NEW n \in Pieces, NEW ok \in BOOLEAN, NEW outcome \in Outcomes,
         IInv, upgrade_recvcb(c, n, ok, outcome)
  PROVE  IInv'
<1> DEFINE pos   == server[c].pos
           first == pos = -1
           from  == IF first THEN 0 ELSE pos
           bytes == SubSeq(Image(server[c].version), from + 1, from + n)
           slot  == upgrade.slot
           w     == rboot_write_flash(upgrade.status, flash[slot], bytes, outcome)
           u     == [upgrade EXCEPT !.total = @ + n, !.status = w.status,
                                    !.content = IF first THEN ImageLen ELSE @]
<1>1. /\ step = "run" /\ conn[c] \in {"open", "closing"}
      /\ conn[c] = "closing" => \A d \in Conns : conn[d] # "open"
      /\ from + n <= ImageLen /\ (first \/ (n > 0 /\ ok))
  BY DEF upgrade_recvcb
<1>2. CASE ~Live(upgrade) BY <1>2, BootKeeps DEF upgrade_recvcb
<1>3. CASE Live(upgrade)
  <2>1. /\ server' = [server EXCEPT ![c].pos = from + n]
        /\ config' = config /\ running' = running
        /\ IF upgrade.content = 0 /\ ~(first /\ ok)
           THEN Deinit(upgrade, conn, flag) /\ UNCHANGED flash
           ELSE /\ flash' = [flash EXCEPT ![slot] = w.flash]
                /\ IF ~w.ok THEN Deinit(u, conn, flag)
                   ELSE IF u.total = u.content THEN Deinit(u, conn, "finish")
                   ELSE IF conn[u.conn] # "open" THEN Deinit(u, conn, flag)
                   ELSE /\ upgrade' = u /\ timer' = "deinit"
                        /\ UNCHANGED <<conn, flag, step, chosen, robbed>>
    BY <1>3 DEF upgrade_recvcb
  <2>2. /\ n \in Nat /\ ImageLen \in Nat \ {0} /\ SlotSize \in Nat /\ ImageLen <= SlotSize
    BY OtaAssumption, FlashAssumption
  <2>3. /\ flash \in [Slots -> [Cells -> Byte]] /\ upgrade \in Upgrades
        /\ conn \in [Conns -> ConnStates] /\ pos \in Int /\ server[c].version \in Offered
        /\ server \in [Conns -> Replies]
    BY DEF IInv, Types, Replies
  <2>4. /\ slot \in Slots /\ upgrade.conn \in 0..MaxConns /\ upgrade.conn \in Conns
        /\ upgrade.status \in Status /\ upgrade.total \in Nat /\ flag = "start"
        /\ upgrade.content \in {0, ImageLen}
    BY <1>3, <2>2, <2>3 DEF Upgrades, IInv, Attempt
  <2>5. /\ config \in Slots /\ slot = 1 - config /\ Holds(flash[config])
        /\ \A d \in Conns : conn[d] = "open" => upgrade.conn = d
    BY <1>1, <1>3 DEF IInv, Attempt, Roms
  <2>6. config # slot /\ Slots = {config, slot}
    BY <2>4, <2>5 DEF Slots
  <2> HIDE DEF pos
  <2>7. from \in Int BY <2>3
  <2>8. server' \in [Conns -> Replies]
    BY <2>1, <2>2, <2>3, <2>7 DEF Replies
  <2>9. CASE upgrade.content = 0 /\ ~(first /\ ok)
    <3>1. Deinit(upgrade, conn, flag) /\ flash' = flash BY <2>1, <2>9
    <3> QED BY <1>1, <2>1, <2>3, <2>4, <2>5, <2>8, <3>1, DeinitKeeps
  <2>10. CASE ~(upgrade.content = 0 /\ ~(first /\ ok))
    <3>1. /\ from = upgrade.total
          /\ Prefix(upgrade.status, flash[slot], Image(server[c].version), upgrade.total)
          /\ upgrade.content # 0 => conn[c] = "open" /\ ~first
      <4>1. CASE upgrade.content = 0
        <5>1. first /\ upgrade.total = 0 /\ upgrade.status = rboot_write_init
          BY <2>10, <4>1 DEF IInv, Download
        <5>2. flash[slot] \in [Cells -> Byte] BY <2>3, <2>4
        <5> QED BY <4>1, <5>1, <5>2, NothingWritten
      <4>2. CASE upgrade.content # 0
        <5>1. /\ conn[upgrade.conn] = "open" /\ server[upgrade.conn].pos = upgrade.total
              /\ Prefix(upgrade.status, flash[slot], Image(server[upgrade.conn].version),
                        upgrade.total)
          BY <4>2 DEF IInv, Download
        <5>2. conn[c] = "open" /\ upgrade.conn = c BY <1>1, <2>4, <2>5, <5>1
        <5>3. pos = upgrade.total BY <5>1, <5>2 DEF pos
        <5>4. ~first BY <2>4, <5>3
        <5> QED BY <5>1, <5>2, <5>3, <5>4
      <4> QED BY <4>1, <4>2
    <3> HIDE DEF first, from
    <3> DEFINE image == Image(server[c].version)
               total == upgrade.total + n
    <3>2. image \in Seq(Byte) /\ Len(image) = ImageLen BY <2>3, ImageIsBytes
    <3> HIDE DEF image
    <3>3. from \in Nat /\ from + n <= Len(image) BY <1>1, <2>4, <3>1, <3>2
    <3>4. bytes = SubSeq(image, from + 1, from + n) BY DEF image
    <3>5. bytes \in Seq(Byte) /\ Len(bytes) = n /\ Continues(bytes, image, from)
      <4> HIDE DEF bytes
      <4>1. n \in Nat /\ image \in Seq(Byte) BY <2>2, <3>2
      <4>2. /\ SubSeq(image, from + 1, from + n) \in Seq(Byte)
            /\ Len(SubSeq(image, from + 1, from + n)) = n
            /\ \A i \in 1..n : SubSeq(image, from + 1, from + n)[i] = image[from + i]
        BY <3>3, <4>1, Slice
      <4>3. /\ bytes \in Seq(Byte) /\ Len(bytes) = n
            /\ \A i \in 1..n : bytes[i] = image[from + i]
        BY <3>4, <4>2
      <4> QED BY <4>3 DEF Continues
    <3> HIDE DEF bytes
    <3>6. flash[slot] \in [Cells -> Byte] BY <2>3, <2>4
    <3>7. upgrade.total + Len(bytes) < SlotSize + Word /\ upgrade.total + Len(bytes) = total
          /\ total \in 0..ImageLen /\ from + n = total
      BY <1>1, <2>2, <2>4, <3>1, <3>5, FlashAssumption
    <3>8. Prefix(upgrade.status, flash[slot], image, upgrade.total)
          /\ Continues(bytes, image, upgrade.total)
      BY <3>1, <3>5 DEF image
    <3>9. /\ w.ok \in BOOLEAN /\ w.flash \in [Cells -> Byte]
          /\ w.ok => /\ w.status \in Status
                     /\ Prefix(w.status, w.flash, image, upgrade.total + Len(bytes))
      BY <2>4, <3>5, <3>6, <3>7, <3>8, WriteKeepsPrefix
    <3> HIDE DEF w
    <3>10. /\ flash' = [flash EXCEPT ![slot] = w.flash]
           /\ flash' \in [Slots -> [Cells -> Byte]]
           /\ flash'[slot] = w.flash /\ flash'[config] = flash[config]
      BY <2>1, <2>3, <2>4, <2>5, <2>6, <2>10, <3>9 DEF first
    <3>11. Holds(flash'[config]) BY <2>5, <3>10
    <3>12. /\ u.slot = slot /\ u.conn = upgrade.conn /\ u.total = total /\ u.mem = upgrade.mem
           /\ u.status = w.status /\ u.content = ImageLen
      BY <2>3, <2>4, <2>10, <3>1 DEF Upgrades, first
    <3>13. u.slot \in Slots /\ u.conn \in 0..MaxConns
           /\ \A d \in Conns : conn[d] = "open" => u.conn = d
      BY <2>4, <2>5, <3>12
    <3>14. u = [upgrade EXCEPT !.total = total, !.status = w.status, !.content = ImageLen]
      BY <2>3, <2>4, <2>10, <3>1 DEF Upgrades, first
    <3> HIDE DEF u
    <3>15. CASE ~w.ok
      <4>1. Deinit(u, conn, flag) BY <2>1, <2>10, <3>15 DEF first
      <4> QED BY <1>1, <2>1, <2>3, <2>4, <2>8, <3>10, <3>11, <3>13, <4>1, DeinitKeeps
    <3>16. CASE w.ok /\ total = ImageLen
      <4>1. Deinit(u, conn, "finish") BY <2>1, <2>10, <3>12, <3>16 DEF first
      <4>2. Holds(flash'[slot])
        <5>1. Prefix(w.status, w.flash, image, ImageLen) BY <3>7, <3>9, <3>16
        <5> QED BY <2>3, <3>9, <3>10, <3>16, <5>1, PrefixIsWhole DEF image
      <4>3. Holds(flash'[0]) /\ Holds(flash'[1]) BY <2>6, <3>11, <4>2 DEF Slots
      <4>4. UNCHANGED <<config, running>> BY <2>1
      <4> QED BY <1>1, <2>3, <2>8, <3>10, <3>11, <3>13, <4>1, <4>3, <4>4, DeinitKeeps
    <3>17. CASE w.ok /\ total # ImageLen /\ conn[upgrade.conn] # "open"
      <4>1. Deinit(u, conn, flag) BY <2>1, <2>10, <3>12, <3>17 DEF first
      <4> QED BY <1>1, <2>1, <2>3, <2>4, <2>8, <3>10, <3>11, <3>13, <4>1, DeinitKeeps
    <3>18. CASE w.ok /\ total # ImageLen /\ conn[upgrade.conn] = "open"
      <4>1. /\ upgrade' = u /\ timer' = "deinit" /\ conn' = conn /\ flag' = flag
            /\ step' = step /\ chosen' = chosen
        BY <2>1, <2>10, <3>12, <3>18 DEF first
      <4>2. c = upgrade.conn BY <1>1, <2>4, <2>5, <3>18
      <4>3. server'[c].pos = total /\ server'[c].version = server[c].version
        BY <2>1, <2>3, <3>7
      <4>4. u \in Upgrades BY <2>3, <3>7, <3>9, <3>14, <3>18 DEF Upgrades
      <4>5. Live(u) BY <1>3, <3>12 DEF Live
      <4>6. Types' BY <2>1, <2>8, <3>10, <4>1, <4>4 DEF IInv, Types
      <4>7. Roms' BY <1>1, <2>1, <2>5, <3>11, <4>1 DEF Roms
      <4>8. Attempt' BY <1>3, <2>1, <3>12, <4>1, <4>5 DEF IInv, Attempt
      <4>9. Prefix(u.status, flash'[u.slot], Image(server'[u.conn].version), u.total)
        <5>1. Prefix(w.status, w.flash, image, total) BY <3>7, <3>9, <3>18
        <5>2. Image(server'[u.conn].version) = image BY <3>12, <4>2, <4>3 DEF image
        <5> QED BY <3>10, <3>12, <5>1, <5>2
      <4>10. u.content # 0 BY <2>2, <3>12
      <4>11. conn'[u.conn] = "open" /\ server'[u.conn].pos = u.total
        BY <3>12, <3>18, <4>1, <4>2, <4>3
      <4>12. Download' BY <4>1, <4>5, <4>9, <4>10, <4>11 DEF Download
      <4> QED BY <4>6, <4>7, <4>8, <4>12 DEF IInv
    <3> QED BY <3>9, <3>15, <3>16, <3>17, <3>18
  <2> QED BY <2>9, <2>10
<1> QED BY <1>2, <1>3
-----------------------------------------------------------------------------
LEMMA StutterKeeps == IInv /\ UNCHANGED vars => IInv'
BY DEF IInv, Types, Roms, Attempt, Download, vars, storage

LEMMA StepKeeps == IInv /\ [Next]_vars => IInv'
<1> SUFFICES ASSUME IInv, [Next]_vars PROVE IInv' OBVIOUS
<1>1. CASE rboot_ota_start BY <1>1, StartKeeps
<1>2. CASE Network
  <2>1. PICK c \in Conns :
          \/ \E found \in BOOLEAN : upgrade_resolved(c, found)
          \/ \E ram \in BOOLEAN : upgrade_connect_cb(c, ram)
          \/ upgrade_recon_cb(c)
          \/ Forgotten(c)
          \/ \E n \in Pieces, ok \in BOOLEAN, o \in Outcomes : upgrade_recvcb(c, n, ok, o)
          \/ Disconnected(c)
    BY <1>2 DEF Network
  <2> QED BY <2>1, ResolvedKeeps, ConnectCbKeeps, EndKeeps, ForgottenKeeps, RecvKeeps
<1>3. CASE TimerFires BY <1>3, TimerKeeps
<1>4. CASE EraseConfig \/ WriteConfig BY <1>4, SelectKeeps
<1>5. CASE Restart \/ PowerLoss BY <1>5, BootKeeps DEF Restart, PowerLoss
<1>6. CASE UNCHANGED vars BY <1>6, StutterKeeps
<1> QED BY <1>1, <1>2, <1>3, <1>4, <1>5, <1>6 DEF Next

(* The inductive invariant holds in every state: the slots hold what the   *)
(* step of the selection needs, and an attempt has written what has come.  *)
THEOREM Invariance == Spec => []IInv
<1> QED BY InitHolds, StepKeeps, PTL DEF Spec

(* Every variable keeps its type; the bytes carried over never fill a      *)
(* word (extra_bytes has room for four).                                   *)
THEOREM TypeCorrect == Spec => []TypeOK
<1>1. IInv => TypeOK
  <2> SUFFICES ASSUME IInv PROVE TypeOK OBVIOUS
  <2>1. Types BY DEF IInv
  <2>2. PICK s \in Status : upgrade.status = s BY <2>1 DEF Types, Upgrades
  <2>3. PICK addr \in Nat, old \in Int, extra \in Seq(Byte) :
          s = [addr |-> addr, erased |-> old, extra |-> extra]
    BY DEF Status
  <2>4. s.addr = addr /\ s.extra = extra BY <2>3
  <2>5. /\ Len(upgrade.status.extra) < Word /\ upgrade.status.addr <= upgrade.total
        /\ upgrade.status.addr % Word = 0
    <3>1. CASE upgrade.content = 0
      <4>1. /\ upgrade.total = 0 /\ upgrade.status.addr = 0 /\ upgrade.status.extra = <<>>
        BY <3>1 DEF IInv, Download, rboot_write_init
      <4> QED BY <4>1, FlashAssumption
    <3>2. CASE upgrade.content # 0
      <4>1. /\ addr % Word = 0 /\ Len(extra) < Word /\ upgrade.total = addr + Len(extra)
        BY <2>2, <2>4, <3>2 DEF IInv, Download, Prefix
      <4>2. Len(extra) \in Nat OBVIOUS
      <4>3. addr <= upgrade.total BY <4>1, <4>2
      <4> QED BY <2>2, <2>4, <4>1, <4>3
    <3> QED BY <3>1, <3>2
  <2> QED BY <2>1, <2>5 DEF TypeOK, Types, Upgrades, Cells, ConnStates
<1> QED BY <1>1, Invariance, PTL

(* Whenever the power is lost, the slot the boot loader takes then holds a *)
(* whole image, however the attempts and their callbacks interleave and    *)
(* however an image is cut into packets.                                   *)
THEOREM BootedRomAlwaysWhole == Spec => []BootedRomIsWhole
<1>1. IInv => BootedRomIsWhole
  <2> SUFFICES ASSUME IInv PROVE BootedRomIsWhole OBVIOUS
  <2>1. Holds(flash[BootRom(config)])
    <3>1. CASE step = "write"
      <4>1. Holds(flash[0]) /\ Holds(flash[1]) BY <3>1 DEF IInv, Roms
      <4>2. BootRom(config) = 0 \/ BootRom(config) = 1 BY DEF IInv, Types, BootRom, Slots
      <4> QED BY <4>1, <4>2
    <3>2. CASE step # "write"
      <4>1. config \in Slots /\ Holds(flash[config]) BY <3>2 DEF IInv, Roms
      <4>2. config # Bad BY <4>1 DEF Slots, Bad
      <4> QED BY <4>1, <4>2 DEF BootRom
    <3> QED BY <3>1, <3>2
  <2> QED BY <2>1 DEF BootedRomIsWhole, Whole, Holds, Offered
<1> QED BY <1>1, Invariance, PTL

(* What is in flash and what is carried over are the bytes the connection  *)
(* of the attempt has delivered, none lost, doubled or out of place.       *)
THEOREM FlashKeepsPrefix == Spec => []FlashIsPrefix
<1>1. IInv => FlashIsPrefix
  <2> SUFFICES ASSUME IInv, upgrade.content # 0
               PROVE  /\ upgrade.total = upgrade.status.addr + Len(upgrade.status.extra)
                      /\ \A a \in 0..upgrade.status.addr - 1 :
                            flash[upgrade.slot][a]
                              = Image(server[upgrade.conn].version)[a + 1]
                      /\ \A i \in DOMAIN upgrade.status.extra :
                            upgrade.status.extra[i]
                              = Image(server[upgrade.conn].version)[upgrade.status.addr + i]
    BY DEF FlashIsPrefix
  <2>1. Prefix(upgrade.status, flash[upgrade.slot],
               Image(server[upgrade.conn].version), upgrade.total)
    BY DEF IInv, Download
  <2>2. PICK s \in Status : upgrade.status = s BY DEF IInv, Types, Upgrades
  <2>3. s.extra \in Seq(Byte) BY DEF Status
  <2>4. DOMAIN upgrade.status.extra = 1..Len(upgrade.status.extra) BY <2>2, <2>3
  <2> QED BY <2>1, <2>4 DEF Prefix, Written, Continues
<1> QED BY <1>1, Invariance, PTL
-----------------------------------------------------------------------------
LEMMA DeinitStopsTimer ==
  ASSUME NEW u, NEW cs, NEW f, Deinit(u, cs, f)
  PROVE  TimerMatchesUpgrade'
<1>1. timer' = "off" /\ ~Live(upgrade') BY NullIsUpgrade DEF Deinit
<1> QED BY <1>1 DEF TimerMatchesUpgrade

LEMMA BootStopsTimer == Boot => TimerMatchesUpgrade'
<1>1. Boot => timer' = "off" /\ ~Live(upgrade') BY NullIsUpgrade DEF Boot
<1> QED BY <1>1 DEF TimerMatchesUpgrade

LEMMA ArmedMatches ==
  ASSUME IInv', Live(upgrade'), timer' # "off"
  PROVE  TimerMatchesUpgrade'
BY DEF TimerMatchesUpgrade, IInv, Attempt

(* Nothing but a stale callback separates a timer from its upgrade.        *)
LEMMA TimerStep == IInv /\ IInv' /\ TimerMatchesUpgrade /\ [Next]_vars => TimerMatchesUpgrade'
<1> SUFFICES ASSUME IInv, IInv', TimerMatchesUpgrade, [Next]_vars
             PROVE  TimerMatchesUpgrade'
  OBVIOUS
<1>1. CASE rboot_ota_start
  <2>1. ~Live(upgrade) BY <1>1 DEF rboot_ota_start, IInv, Attempt
  <2>2. timer = "off" BY <2>1 DEF TimerMatchesUpgrade
  <2>3. PICK c \in Conns :
          LET u == [Null EXCEPT !.mem = "live", !.conn = c, !.slot = 1 - config]
          IN  \/ upgrade' = Null /\ UNCHANGED <<flag, conn, timer>>
              \/ upgrade' = [u EXCEPT !.mem = "freed"] /\ UNCHANGED <<flag, conn, timer>>
              \/ /\ flag' = "start"
                 /\ \/ Connect(u, conn)
                    \/ /\ upgrade' = u /\ conn' = [conn EXCEPT ![c] = "dns"]
                       /\ UNCHANGED timer
                    \/ /\ upgrade' = [u EXCEPT !.mem = "freed"]
                       /\ conn' = [conn EXCEPT ![c] = "gone"]
                       /\ UNCHANGED timer
    BY <1>1 DEF rboot_ota_start
  <2> DEFINE u == [Null EXCEPT !.mem = "live", !.conn = c, !.slot = 1 - config]
  <2>4. Live(u) /\ ~Live([u EXCEPT !.mem = "freed"]) BY DEF Null, Live
  <2>5. conn \in [Conns -> ConnStates] BY DEF IInv, Types
  <2> HIDE DEF u
  <2>6. CASE Connect(u, conn)
    <3>1. Live(upgrade') /\ timer' = "connect" BY <2>4, <2>6 DEF Connect
    <3> QED BY <3>1, ArmedMatches
  <2>7. CASE upgrade' = u /\ conn' = [conn EXCEPT ![c] = "dns"] /\ UNCHANGED timer
    <3>1. conn'[c] = "dns" /\ timer' = "off" BY <2>2, <2>5, <2>7
    <3> QED BY <3>1 DEF TimerMatchesUpgrade
  <2>8. CASE upgrade' \in {Null, [u EXCEPT !.mem = "freed"]} /\ UNCHANGED timer
    <3>1. ~Live(upgrade') /\ timer' = "off" BY <2>2, <2>4, <2>8, NullIsUpgrade
    <3> QED BY <3>1 DEF TimerMatchesUpgrade
  <2> QED BY <2>3, <2>6, <2>7, <2>8 DEF u
<1>2. ASSUME NEW c \in Conns, NEW found \in BOOLEAN, upgrade_resolved(c, found)
      PROVE  TimerMatchesUpgrade'
  <2>1. CASE ~Live(upgrade) BY <1>2, <2>1, BootStopsTimer DEF upgrade_resolved
  <2>2. CASE Live(upgrade) /\ found
    <3>1. Live(upgrade') /\ timer' = "connect" BY <1>2, <2>2 DEF upgrade_resolved, Connect
    <3> QED BY <3>1, ArmedMatches
  <2>3. CASE Live(upgrade) /\ ~found
    BY <1>2, <2>3, DeinitStopsTimer DEF upgrade_resolved, upgrade_disconcb
  <2> QED BY <2>1, <2>2, <2>3
<1>3. ASSUME NEW c \in Conns, NEW ram \in BOOLEAN, upgrade_connect_cb(c, ram)
      PROVE  TimerMatchesUpgrade'
  <2>1. CASE ~Live(upgrade) BY <1>3, <2>1, BootStopsTimer DEF upgrade_connect_cb
  <2>2. CASE Live(upgrade) /\ ram
    <3>1. Live(upgrade') /\ timer' = "deinit" BY <1>3, <2>2 DEF upgrade_connect_cb
    <3> QED BY <3>1, ArmedMatches
  <2>3. CASE Live(upgrade) /\ ~ram
    BY <1>3, <2>3, DeinitStopsTimer DEF upgrade_connect_cb
  <2> QED BY <2>1, <2>2, <2>3
<1>4. ASSUME NEW c \in Conns, upgrade_recon_cb(c) PROVE TimerMatchesUpgrade'
  <2>1. CASE ~Live(upgrade) BY <1>4, <2>1, BootStopsTimer DEF upgrade_recon_cb
  <2>2. CASE Live(upgrade)
    BY <1>4, <2>2, DeinitStopsTimer DEF upgrade_recon_cb, upgrade_disconcb
  <2> QED BY <2>1, <2>2
<1>5. ASSUME NEW c \in Conns, Forgotten(c) PROVE TimerMatchesUpgrade'
  <2>1. conn[c] # "dns" /\ conn' = [conn EXCEPT ![c] = "gone"] BY <1>5 DEF Forgotten
  <2>2. \A d \in Conns : conn[d] = "dns" => conn'[d] = "dns"
    BY <2>1 DEF IInv, Types
  <2> QED BY <1>5, <2>2 DEF Forgotten, TimerMatchesUpgrade
<1>6. ASSUME NEW c \in Conns, Disconnected(c) PROVE TimerMatchesUpgrade'
  <2> DEFINE cs == [conn EXCEPT ![c] = "gone"]
  <2>1. conn[c] # "dns" /\ upgrade_disconcb(c, cs) BY <1>6 DEF Disconnected
  <2>2. \A d \in Conns : conn[d] = "dns" => cs[d] = "dns" BY <2>1 DEF IInv, Types
  <2> HIDE DEF cs
  <2>3. CASE Live(upgrade) /\ upgrade.conn = c
    BY <2>1, <2>3, DeinitStopsTimer DEF upgrade_disconcb
  <2>4. CASE ~(Live(upgrade) /\ upgrade.conn = c)
    <3>1. /\ timer' = "off" /\ conn' = cs /\ upgrade' = upgrade
          /\ robbed' = (robbed \/ (Live(upgrade) /\ timer # "off"))
      BY <2>1, <2>4 DEF upgrade_disconcb
    <3> QED BY <2>2, <3>1 DEF TimerMatchesUpgrade
  <2> QED BY <2>3, <2>4
<1>7. ASSUME NEW c \in Conns, NEW n \in Pieces, NEW ok \in BOOLEAN, NEW o \in Outcomes,
             upgrade_recvcb(c, n, ok, o)
      PROVE  TimerMatchesUpgrade'
  <2>1. CASE ~Live(upgrade) BY <1>7, <2>1, BootStopsTimer DEF upgrade_recvcb
  <2>2. CASE Live(upgrade)
    <3> DEFINE first == server[c].pos = -1
               from  == IF first THEN 0 ELSE server[c].pos
               bytes == SubSeq(Image(server[c].version), from + 1, from + n)
               w == rboot_write_flash(upgrade.status, flash[upgrade.slot], bytes, o)
               u == [upgrade EXCEPT !.total = @ + n, !.status = w.status,
                                    !.content = IF first THEN ImageLen ELSE @]
    <3>1. IF upgrade.content = 0 /\ ~(first /\ ok)
          THEN Deinit(upgrade, conn, flag)
          ELSE IF ~w.ok THEN Deinit(u, conn, flag)
          ELSE IF u.total = u.content THEN Deinit(u, conn, "finish")
          ELSE IF conn[u.conn] # "open" THEN Deinit(u, conn, flag)
          ELSE upgrade' = u /\ timer' = "deinit"
      BY <1>7, <2>2 DEF upgrade_recvcb
    <3> HIDE DEF w, bytes
    <3>2. Live(u) BY <2>2 DEF IInv, Types, Upgrades, Live
    <3> HIDE DEF first, u
    <3>3. CASE upgrade' = u /\ timer' = "deinit" BY <3>2, <3>3, ArmedMatches
    <3> QED BY <3>1, <3>3, DeinitStopsTimer
  <2> QED BY <2>1, <2>2
<1>8. CASE Network BY <1>2, <1>3, <1>4, <1>5, <1>6, <1>7, <1>8 DEF Network
<1>9. CASE TimerFires
  <2>1. CASE ~Live(upgrade) BY <1>9, <2>1, BootStopsTimer DEF TimerFires
  <2>2. CASE Live(upgrade)
    BY <1>9, <2>2, DeinitStopsTimer DEF TimerFires, upgrade_disconcb
  <2> QED BY <2>1, <2>2
<1>10. CASE EraseConfig \/ WriteConfig
  BY <1>10 DEF EraseConfig, WriteConfig, TimerMatchesUpgrade
<1>11. CASE Restart \/ PowerLoss BY <1>11, BootStopsTimer DEF Restart, PowerLoss
<1>12. CASE UNCHANGED vars BY <1>12 DEF vars, TimerMatchesUpgrade
<1> QED BY <1>1, <1>8, <1>9, <1>10, <1>11, <1>12 DEF Next

(* The timer calls back only for an upgrade, and an upgrade waits without  *)
(* it only for the name server, or because a stale callback disarmed it.   *)
THEOREM TimerAlwaysMatches == Spec => []TimerMatchesUpgrade
<1>1. Init => TimerMatchesUpgrade
  BY NullIsUpgrade DEF Init, TimerMatchesUpgrade
<1> QED BY <1>1, TimerStep, Invariance, PTL DEF Spec
-----------------------------------------------------------------------------
(* Padding passed to rboot_write_flash brings out the bytes carried over.  *)
LEMMA PaddingFlushes ==
  ASSUME NEW s \in Status, NEW f \in [Cells -> Byte], NEW image, NEW n \in Nat,
         Prefix(s, f, image, n), n <= SlotSize, s.extra # <<>>,
         NEW w, w = rboot_write_end(s, f)
  PROVE  /\ w.ok
         /\ \A i \in 1..Len(s.extra) : w.flash[s.addr + i - 1] = s.extra[i]
         /\ \A a \in 0..s.addr - 1 : w.flash[a] = f[a]
<1>1. PICK addr \in Nat, old \in Int, extra \in Seq(Byte) :
         s = [addr |-> addr, erased |-> old, extra |-> extra]
  BY DEF Status
<1>2. s.addr = addr /\ s.erased = old /\ s.extra = extra BY <1>1
<1> DEFINE padded == [i \in 1..Word |-> IF i <= Len(extra) THEN extra[i] ELSE Erased]
           img == [i \in Nat |-> IF i <= n THEN image[i] ELSE padded[i - n]]
<1>3. Word \in Nat \ {0} /\ SlotSize \in Nat /\ Len(extra) \in Nat BY FlashAssumption
<1>4. /\ addr % Word = 0 /\ Len(extra) < Word /\ n = addr + Len(extra)
      /\ Written(f, addr, old, image) /\ Continues(extra, image, addr)
  BY <1>2 DEF Prefix
<1>5. padded \in Seq(Byte) /\ Len(padded) = Word /\ padded # <<>>
  <2>1. ASSUME NEW i \in 1..Word PROVE padded[i] \in Byte
    <3>1. CASE i <= Len(extra)
      <4>1. i \in 1..Len(extra) BY <1>3, <3>1
      <4> QED BY <3>1, <4>1
    <3>2. CASE ~(i <= Len(extra)) BY <3>2, ByteValues
    <3> QED BY <3>1, <3>2
  <2>2. padded \in [1..Word -> Byte] BY <2>1
  <2> HIDE DEF padded
  <2>3. padded \in Seq(Byte) /\ Len(padded) = Word BY <1>3, <2>2
  <2> QED BY <1>3, <2>3
<1>6. w = rboot_write_flash(s, f, padded, "ok") BY <1>2 DEF rboot_write_end
<1> HIDE DEF padded
<1>7. w.ok = TRUE BY <1>5, <1>6 DEF rboot_write_flash
<1>8. Written(f, addr, old, img)
  <2>1. ASSUME NEW a \in 0..addr - 1 PROVE f[a] = img[a + 1] /\ Sector(a) <= old
    <3>1. a + 1 \in Nat /\ a + 1 <= n BY <1>3, <1>4
    <3>2. f[a] = image[a + 1] /\ Sector(a) <= old BY <1>4 DEF Written
    <3> QED BY <3>1, <3>2
  <2> QED BY <1>4, <2>1 DEF Written
<1>9. ASSUME NEW i \in 1..Len(extra) PROVE extra[i] = img[addr + i] /\ addr + i <= n
  <2>1. addr + i \in Nat /\ addr + i <= n BY <1>3, <1>4
  <2>2. extra[i] = image[addr + i] BY <1>4 DEF Continues
  <2> QED BY <2>1, <2>2
<1>10. Continues(padded, img, n)
  <2>1. ASSUME NEW i \in 1..Word PROVE padded[i] = img[n + i]
    <3>1. n + i \in Nat /\ ~(n + i <= n) /\ (n + i) - n = i BY <1>3
    <3> QED BY <3>1
  <2> QED BY <1>5, <2>1 DEF Continues
<1> HIDE DEF img
<1>11. Continues(extra, img, addr) BY <1>9 DEF Continues
<1>12. Prefix(s, f, img, n) BY <1>2, <1>4, <1>8, <1>11 DEF Prefix
<1>13. "ok" \in Outcomes BY DEF Outcomes
<1>14. n + Len(padded) < SlotSize + Word \/ n = SlotSize BY <1>3, <1>5
<1>15. n # SlotSize
  <2> SUFFICES ASSUME n = SlotSize PROVE FALSE OBVIOUS
  <2>1. SectorSize \in Nat \ {0} /\ SectorSize % Word = 0 /\ SlotSize % SectorSize = 0
    BY FlashAssumption
  <2>2. SlotSize % Word = 0 BY <1>3, <2>1, MultipleOfMultiple
  <2>3. addr <= SlotSize /\ SlotSize < addr + Word BY <1>3, <1>4
  <2>4. addr = SlotSize BY <1>3, <1>4, <2>2, <2>3, SameMultiple
  <2>5. Len(extra) = 0 BY <1>3, <1>4, <2>4
  <2>6. extra = <<>> BY <2>5
  <2> QED BY <1>2, <2>6
<1>16. w.status \in Status /\ Prefix(w.status, w.flash, img, n + Len(padded))
  <2>1. n + Len(padded) < SlotSize + Word BY <1>14, <1>15
  <2> QED BY <1>5, <1>6, <1>7, <1>10, <1>12, <1>13, <2>1, WriteKeepsPrefix
<1>17. PICK addr2 \in Nat, old2 \in Int, extra2 \in Seq(Byte) :
         w.status = [addr |-> addr2, erased |-> old2, extra |-> extra2]
  BY <1>16 DEF Status
<1>18. /\ Len(extra2) < Word /\ n + Word = addr2 + Len(extra2)
       /\ Written(w.flash, addr2, old2, img)
  BY <1>5, <1>16, <1>17 DEF Prefix
<1>19. n < addr2 BY <1>3, <1>18
<1>20. \A a \in 0..n - 1 : w.flash[a] = img[a + 1]
  <2>1. \A a \in 0..n - 1 : a \in 0..addr2 - 1 BY <1>19
  <2> QED BY <1>18, <2>1 DEF Written
<1>21. ASSUME NEW i \in 1..Len(extra) PROVE w.flash[addr + i - 1] = extra[i]
  <2>1. addr + i - 1 \in 0..n - 1 /\ (addr + i - 1) + 1 = addr + i BY <1>3, <1>4
  <2>2. w.flash[addr + i - 1] = img[addr + i] BY <1>20, <2>1
  <2> QED BY <1>9, <2>2
<1>22. ASSUME NEW a \in 0..addr - 1 PROVE w.flash[a] = f[a]
  <2>1. a \in 0..n - 1 BY <1>3, <1>4
  <2>2. w.flash[a] = img[a + 1] BY <1>20, <2>1
  <2>3. f[a] = img[a + 1] BY <1>8 DEF Written
  <2> QED BY <2>2, <2>3
<1> QED BY <1>2, <1>7, <1>21, <1>22

(* rboot_write_end, called at any time, loses none of the bytes that are   *)
(* carried over and harms none of those in flash.                          *)
THEOREM EndAlwaysWritesTheRest == Spec => []EndWritesTheRest
<1>1. IInv => EndWritesTheRest
  <2> SUFFICES ASSUME IInv, Live(upgrade) PROVE
        LET w == rboot_write_end(upgrade.status, flash[upgrade.slot]) IN
        /\ w.ok
        /\ \A i \in DOMAIN upgrade.status.extra :
             w.flash[upgrade.status.addr + i - 1] = upgrade.status.extra[i]
        /\ \A a \in 0 .. upgrade.status.addr - 1 : w.flash[a] = flash[upgrade.slot][a]
    BY DEF EndWritesTheRest
  <2> DEFINE s == upgrade.status
             f == flash[upgrade.slot]
             w == rboot_write_end(s, f)
  <2>1. /\ s \in Status /\ f \in [Cells -> Byte] /\ upgrade.total \in 0..ImageLen
        /\ ImageLen \in Nat /\ SlotSize \in Nat /\ ImageLen <= SlotSize
    BY OtaAssumption, FlashAssumption DEF IInv, Types, Upgrades
  <2>2. s.extra \in Seq(Byte) BY <2>1 DEF Status
  <2>3. DOMAIN s.extra = 1..Len(s.extra) BY <2>2
  <2>4. CASE s.extra = <<>>
    <3>1. w = [ok |-> TRUE, status |-> s, flash |-> f] BY <2>4 DEF rboot_write_end
    <3>2. DOMAIN s.extra = {} BY <2>4
    <3> QED BY <3>1, <3>2
  <2>5. CASE s.extra # <<>>
    <3>1. upgrade.content # 0 BY <2>5 DEF IInv, Download, rboot_write_init
    <3>2. Prefix(s, f, Image(server[upgrade.conn].version), upgrade.total)
      BY <3>1 DEF IInv, Download
    <3> DEFINE n == upgrade.total
    <3>3. n \in Nat /\ n <= SlotSize BY <2>1
    <3> HIDE DEF s, f, n
    <3>4. Prefix(s, f, Image(server[upgrade.conn].version), n) BY <3>2 DEF n
    <3>5. /\ w.ok
          /\ \A i \in 1..Len(s.extra) : w.flash[s.addr + i - 1] = s.extra[i]
          /\ \A a \in 0..s.addr - 1 : w.flash[a] = f[a]
      BY <2>1, <2>5, <3>3, <3>4, PaddingFlushes
    <3> QED BY <2>3, <3>5 DEF s, f
  <2> QED BY <2>4, <2>5
<1> QED BY <1>1, Invariance, PTL
=============================================================================
