-------------------------- MODULE HttpdConnProofs --------------------------
(***************************************************************************)
(* Theorems about the web server, for every number of clients, every size  *)
(* of the pool, the post buffer, the pages and the sectors of the flash,   *)
(* every set of requests and every way the packets are cut.                *)
(*                                                                         *)
(* The pool: only the callbacks for a new and for a lost connection touch  *)
(* it, and each of them is called for a connection that has no slot, or    *)
(* has one.                                                                *)
(*                                                                         *)
(* A connection is in one of the phases of HttpdConnInvariant.  A packet   *)
(* is taken byte by byte, so that RecvConn needs PacketKeeps, an induction *)
(* over its bytes; a byte may have the handler called, and the handler of  *)
(* an upload is a loop, so that needs LoopGood, an induction over the      *)
(* turns of the loop; a turn may write a page, which needs FlushGood, the  *)
(* arithmetic of pages and sectors.  The lemmas come in the opposite       *)
(* order.                                                                  *)
(***************************************************************************)
EXTENDS HttpdConnInvariant, SequenceTheorems, WellFoundedInduction, TLAPS

-----------------------------------------------------------------------------
(* Induction over the natural numbers, and the loops it is about: tlapm    *)
(* makes of a recursive function a CHOOSE, so that the function is shown   *)
(* to exist first. NatSetInduction takes a set where the library takes an  *)
(* operator.                                                               *)

(* What holds of 0, and of n + 1 whenever it holds of n, holds of every    *)
(* natural number.                                                         *)
LEMMA NatSetInduction ==
  ASSUME NEW S, 0 \in S, \A n \in Nat : n \in S => n + 1 \in S
  PROVE  Nat \subseteq S
<1> DEFINE R == OpToRel(<, Nat)
           T == Nat \ S
<1>1. ASSUME NEW x \in Nat, NEW y \in Nat, y < x PROVE <<y, x>> \in R
  BY <1>1 DEF OpToRel
<1>2. IsWellFoundedOn(R, Nat) BY NatLessThanWellFounded
<1> HIDE DEF R
<1>3. ASSUME T # {} PROVE FALSE
  <2>1. PICK x \in T : \A y \in T : ~(<<y, x>> \in R)
    BY <1>2, <1>3, WFMin
  <2>2. x \in Nat /\ x # 0 BY <2>1
  <2>3. x - 1 \in Nat /\ x - 1 < x /\ (x - 1) + 1 = x BY <2>2
  <2>4. x - 1 \notin T BY <1>1, <2>1, <2>2, <2>3
  <2>5. x \in S BY <2>3, <2>4
  <2> QED BY <2>1, <2>5
<1> QED BY <1>3

(* The begin of a loop: h holds what it has after 0 to m turns.            *)
IsBegin(x, turn, h, m) == h = [n \in 0..m |-> IF n = 0 THEN x ELSE turn[h[n - 1]]]

(* The values of the begin of a loop.                                      *)
LEMMA BeginAt ==
  ASSUME NEW x, NEW turn, NEW h, NEW m \in Nat, IsBegin(x, turn, h, m)
  PROVE  h[0] = x /\ \A n \in 0..m - 1 : h[n + 1] = turn[h[n]]
<1>1. h = [n \in 0..m |-> IF n = 0 THEN x ELSE turn[h[n - 1]]] BY DEF IsBegin
<1>2. h[0] = x BY <1>1
<1>3. ASSUME NEW n \in 0..m - 1 PROVE h[n + 1] = turn[h[n]]
  <2>1. n + 1 \in 0..m /\ n + 1 # 0 /\ (n + 1) - 1 = n OBVIOUS
  <2> QED BY <1>1, <2>1
<1> QED BY <1>2, <1>3

(* However often a loop goes round, there is a function that holds what it *)
(* has then.                                                               *)
LEMMA BeginExists ==
  ASSUME NEW x, NEW turn
  PROVE  \A m \in Nat : \E h : IsBegin(x, turn, h, m)
<1> DEFINE S == {m \in Nat : \E h : IsBegin(x, turn, h, m)}
<1>1. 0 \in S
  <2>1. IsBegin(x, turn, [n \in 0..0 |-> x], 0) BY DEF IsBegin
  <2> QED BY <2>1
<1>2. ASSUME NEW m \in Nat, m \in S PROVE m + 1 \in S
  <2>1. PICK h : IsBegin(x, turn, h, m) BY <1>2
  <2> DEFINE g == [n \in 0..m + 1 |-> IF n = m + 1 THEN turn[h[m]] ELSE h[n]]
  <2>2. h[0] = x /\ \A n \in 0..m - 1 : h[n + 1] = turn[h[n]] BY <2>1, BeginAt
  <2>3. ASSUME NEW n \in 0..m + 1
        PROVE  g[n] = IF n = 0 THEN x ELSE turn[g[n - 1]]
    <3>1. CASE n = 0 BY <2>2, <3>1
    <3>2. CASE n = m + 1 BY <3>2
    <3>3. CASE n # 0 /\ n # m + 1
      <4>1. n - 1 \in 0..m - 1 /\ (n - 1) + 1 = n /\ n - 1 # m + 1 /\ n - 1 \in 0..m + 1 BY <3>3
      <4>2. g[n] = h[n] /\ g[n - 1] = h[n - 1] BY <3>3, <4>1
      <4> QED BY <2>2, <3>3, <4>1, <4>2
    <3> QED BY <3>1, <3>2, <3>3
  <2>4. g = [n \in 0..m + 1 |-> g[n]] OBVIOUS
  <2> HIDE DEF g
  <2>5. IsBegin(x, turn, g, m + 1) BY <2>3, <2>4 DEF IsBegin
  <2> QED BY <2>5
<1> HIDE DEF S
<1>3. Nat \subseteq S BY <1>1, <1>2, NatSetInduction
<1> QED BY <1>3 DEF S

(* Two of them agree where both are defined.                               *)
LEMMA BeginUnique ==
  ASSUME NEW x, NEW turn
  PROVE  \A n \in Nat : \A h, g : \A m, k \in Nat :
           IsBegin(x, turn, h, m) /\ IsBegin(x, turn, g, k) /\ n <= m /\ n <= k => h[n] = g[n]
<1> DEFINE P(n) == \A h, g : \A m, k \in Nat :
           IsBegin(x, turn, h, m) /\ IsBegin(x, turn, g, k) /\ n <= m /\ n <= k => h[n] = g[n]
           S == {n \in Nat : P(n)}
<1>1. 0 \in S BY BeginAt
<1>2. ASSUME NEW n \in Nat, n \in S PROVE n + 1 \in S
  <2>1. P(n) BY <1>2
  <2>2. SUFFICES ASSUME NEW h, NEW g, NEW m \in Nat, NEW k \in Nat,
                        IsBegin(x, turn, h, m), IsBegin(x, turn, g, k), n + 1 <= m, n + 1 <= k
                 PROVE  h[n + 1] = g[n + 1]
    OBVIOUS
  <2>3. n \in 0..m - 1 /\ n \in 0..k - 1 /\ n <= m /\ n <= k BY <2>2
  <2>4. h[n + 1] = turn[h[n]] BY <2>2, <2>3, BeginAt
  <2>5. g[n + 1] = turn[g[n]] BY <2>2, <2>3, BeginAt
  <2>6. h[n] = g[n] BY <2>1, <2>2, <2>3
  <2> QED BY <2>4, <2>5, <2>6
<1>3. Nat \subseteq S
  <2> HIDE DEF S
  <2> QED BY <1>1, <1>2, NatSetInduction
<1> QED BY <1>3

(* All of it.                                                              *)
IsLoop(x, turn, f) == f = [n \in Nat |-> IF n = 0 THEN x ELSE turn[f[n - 1]]]

(* There is one for all numbers of turns: a recursive function on the      *)
(* natural numbers is defined.                                             *)
LEMMA LoopExists ==
  ASSUME NEW x, NEW turn
  PROVE  \E f : IsLoop(x, turn, f)
<1> DEFINE H(m) == CHOOSE h : IsBegin(x, turn, h, m)
           g == [n \in Nat |-> H(n)[n]]
<1>1. \A m \in Nat : IsBegin(x, turn, H(m), m) BY BeginExists
<1>2. g[0] = x BY <1>1, BeginAt
<1>3. ASSUME NEW n \in Nat PROVE g[n + 1] = turn[g[n]]
  <2>1. n + 1 \in Nat /\ n \in 0..(n + 1) - 1 /\ n <= n + 1 /\ n <= n OBVIOUS
  <2>2. IsBegin(x, turn, H(n), n) /\ IsBegin(x, turn, H(n + 1), n + 1) BY <1>1, <2>1
  <2> HIDE DEF H
  <2>3. H(n + 1)[n + 1] = turn[H(n + 1)[n]] BY <2>1, <2>2, BeginAt
  <2>4. H(n + 1)[n] = H(n)[n] BY <2>1, <2>2, BeginUnique
  <2>5. g[n + 1] = H(n + 1)[n + 1] /\ g[n] = H(n)[n] BY <2>1
  <2> QED BY <2>3, <2>4, <2>5
<1>4. g = [n \in Nat |-> g[n]] OBVIOUS
<1> HIDE DEF g
<1>5. ASSUME NEW n \in Nat PROVE g[n] = IF n = 0 THEN x ELSE turn[g[n - 1]]
  <2>1. CASE n = 0 BY <1>2, <2>1
  <2>2. CASE n # 0
    <3>1. n - 1 \in Nat /\ (n - 1) + 1 = n BY <2>2
    <3>2. g[(n - 1) + 1] = turn[g[n - 1]] BY <1>3, <3>1
    <3> QED BY <2>2, <3>1, <3>2
  <2> QED BY <2>1, <2>2
<1>6. IsLoop(x, turn, g) BY <1>4, <1>5 DEF IsLoop
<1> QED BY <1>6

-----------------------------------------------------------------------------
(* Arithmetic of pages and sectors.                                        *)

(* Multiples grow with the number.                                         *)
LEMMA MulMonotone ==
  ASSUME NEW n \in Nat, NEW a \in Int, NEW b \in Int, a <= b
  PROVE  n * a <= n * b
<1>1. n * (b - a) >= 0 BY SMT
<1>2. n * (b - a) = n * b - n * a BY SMT
<1> QED BY <1>1, <1>2

(* What is taken on one side is missing on the other.                      *)
LEMMA FewerLeft ==
  ASSUME NEW a \in Nat, NEW k \in Nat, NEW l \in Nat
  PROVE  (a + l) + (k - l) = a + k /\ (k > l => k - l > 0)
OBVIOUS

(* Quotient and remainder of a multiple and less than one more.            *)
LEMMA DivIs ==
  ASSUME NEW S \in Nat \ {0}, NEW q \in Int, NEW d \in 0..S - 1
  PROVE  (S * q + d) \div S = q /\ (S * q + d) % S = d
<1> DEFINE x == S * q + d
           p == x \div S
           e == x % S
<1>1. x \in Int BY SMT
<1>2. p \in Int /\ x = S * p + e /\ e \in 0..S - 1
  <2> HIDE DEF x
  <2> QED BY <1>1, SMT
<1>3. S * q \in Int /\ S * p \in Int BY <1>2, SMT
<1> HIDE DEF p, e
<1>4. ASSUME p + 1 <= q PROVE FALSE
  <2>1. S * (p + 1) <= S * q BY <1>2, <1>4, MulMonotone
  <2>2. S * (p + 1) = S * p + S BY <1>2
  <2> QED BY <1>2, <1>3, <2>1, <2>2
<1>5. ASSUME q + 1 <= p PROVE FALSE
  <2>1. S * (q + 1) <= S * p BY <1>2, <1>5, MulMonotone
  <2>2. S * (q + 1) = S * q + S BY <1>2
  <2> QED BY <1>2, <1>3, <2>1, <2>2
<1>6. p = q BY <1>2, <1>4, <1>5
<1>7. e = d BY <1>2, <1>3, <1>6
<1> QED BY <1>6, <1>7 DEF p, e

(* No cell of a sector lies before its begin.                              *)
LEMMA SectorBegins ==
  ASSUME NEW S \in Nat \ {0}, NEW x \in Nat, NEW y \in Nat,
         x % S = 0, y \div S = x \div S
  PROVE  y >= x
<1> DEFINE q == x \div S
<1>1. q \in Int /\ x = S * q /\ y = S * q + (y % S) /\ y % S \in 0..S - 1 BY SMT
<1>2. S * q \in Int BY <1>1
<1> HIDE DEF q
<1> QED BY <1>1, <1>2

(* A page that begins at a multiple of its length lies in one sector, and  *)
(* the next page in the same one unless a sector ends.                     *)
LEMMA PageInSector ==
  ASSUME NEW P \in Nat \ {0}, NEW S \in Nat \ {0}, NEW x \in Nat,
         S % P = 0, x % P = 0
  PROVE  /\ (x + P) % P = 0
         /\ \A y \in x..x + P - 1 : y \div S = x \div S
         /\ (x + P) % S # 0 => (x + P) \div S = x \div S
<1> DEFINE q == x \div S
           r == x % S
           k == S \div P
           i == x \div P
           j == i - k * q
<1>1. q \in Int /\ x = S * q + r /\ r \in 0..S - 1 BY SMT
<1>2. k \in Int /\ S = P * k /\ i \in Int /\ x = P * i BY SMT
<1>3. k * q \in Int /\ j \in Int BY <1>1, <1>2
<1>4. (P * k) * q = P * (k * q) BY <1>1, <1>2
<1>5. P * j = P * i - P * (k * q)
  <2> DEFINE m == k * q
  <2>1. m \in Int BY <1>3
  <2> HIDE DEF m, i
  <2>2. P * (i - m) = P * i - P * m BY <1>2, <2>1
  <2> QED BY <2>2 DEF m
<1> HIDE DEF q, r, k, i, j
<1>6. S * q \in Int /\ P * j \in Int /\ P * (k * q) \in Int /\ S * q = P * (k * q)
  BY <1>1, <1>2, <1>3, <1>4
<1>7. r = P * j BY <1>1, <1>2, <1>5, <1>6
<1>8. ASSUME k <= j PROVE FALSE
  <2>1. P * k <= P * j BY <1>2, <1>3, <1>8, MulMonotone
  <2> QED BY <1>1, <1>2, <1>7, <2>1
<1>9. r + P <= S
  <2>1. j + 1 <= k BY <1>2, <1>3, <1>8
  <2>2. P * (j + 1) <= P * k BY <1>2, <1>3, <2>1, MulMonotone
  <2>3. P * (j + 1) = P * j + P BY <1>3
  <2> QED BY <1>2, <1>6, <1>7, <2>2, <2>3
<1>10. (x + P) % P = 0
  <2>1. x + P = P * (i + 1) + 0 /\ i + 1 \in Int /\ 0 \in 0..P - 1 BY <1>2
  <2> QED BY <2>1, DivIs
<1>11. ASSUME NEW y \in x..x + P - 1 PROVE y \div S = q
  <2> DEFINE d == r + (y - x)
  <2>1. d \in 0..S - 1 /\ y = S * q + d BY <1>1, <1>6, <1>9
  <2> QED BY <1>1, <2>1, DivIs
<1>12. ASSUME (x + P) % S # 0 PROVE (x + P) \div S = q
  <2>1. CASE r + P = S
    <3>1. S * (q + 1) = S * q + S /\ q + 1 \in Int BY <1>1
    <3>2. x + P = S * (q + 1) + 0 /\ 0 \in 0..S - 1 BY <1>1, <1>6, <2>1, <3>1
    <3> QED BY <1>12, <3>1, <3>2, DivIs
  <2>2. CASE r + P < S
    <3>1. r + P \in 0..S - 1 /\ x + P = S * q + (r + P) BY <1>1, <1>6, <2>2
    <3> QED BY <1>1, <3>1, DivIs
  <2> QED BY <1>1, <1>9, <2>1, <2>2
<1> QED BY <1>10, <1>11, <1>12 DEF q

-----------------------------------------------------------------------------
(* The flash: what one call of spi_flash_write changes.                    *)

(* Sectors are made of whole pages: what begins a sector begins a page.    *)
LEMMA MultipleOfMultiple ==
  ASSUME NEW W \in Nat \ {0}, NEW S \in Nat \ {0}, NEW x \in Nat, S % W = 0, x % S = 0
  PROVE  x % W = 0
<1> DEFINE p == S \div W
           q == x \div S
           r == p * q
<1>1. p \in Int /\ q \in Int /\ S = W * p /\ x = S * q BY SMT
<1> HIDE DEF p, q
<1>2. r \in Int /\ x = W * r BY <1>1
<1> HIDE DEF r
<1>3. (W * r) % W = 0 BY <1>2, SMT
<1> QED BY <1>2, <1>3

(* Both places for an image begin with a page and a sector (the defines of *)
(* cgiUploadFirmware).                                                     *)
LEMMA FlashLayout ==
  /\ PAGELEN \in Nat \ {0} /\ SPI_FLASH_SEC_SIZE \in Nat \ {0}
  /\ SPI_FLASH_SEC_SIZE % PAGELEN = 0
  /\ fw1Pos \in Nat /\ fw1Pos % SPI_FLASH_SEC_SIZE = 0 /\ fw1Pos % PAGELEN = 0
  /\ fw2Pos \in Nat /\ fw2Pos % SPI_FLASH_SEC_SIZE = 0 /\ fw2Pos % PAGELEN = 0
<1>1. /\ PAGELEN \in Nat \ {0} /\ SPI_FLASH_SEC_SIZE \in Nat \ {0} /\ fwSize \in Nat
      /\ SPI_FLASH_SEC_SIZE % PAGELEN = 0 /\ fwSize % SPI_FLASH_SEC_SIZE = 0
  BY FlashAssumption
<1>2. fwSize % PAGELEN = 0 BY <1>1, MultipleOfMultiple
<1>3. 0 % PAGELEN = 0 /\ 0 % SPI_FLASH_SEC_SIZE = 0 BY <1>1, SMT
<1> QED BY <1>1, <1>2, <1>3 DEF fw1Pos, fw2Pos

(* A cell is old, erased, or holds a word.                                 *)
LEMMA CellValues ==
  Cells \subseteq Nat /\ Old \in Int /\ Erased \in Int /\ Mixed \in Int /\ Old # Erased
<1>1. fwSize \in Nat BY FlashAssumption
<1> QED BY <1>1 DEF Cells, Old, Erased, Mixed

(* A cell when the sector the next page lies in has been erased if need be. *)
Prepared(u, a) ==
  IF /\ u.address % SPI_FLASH_SEC_SIZE = 0
     /\ a \div SPI_FLASH_SEC_SIZE = u.address \div SPI_FLASH_SEC_SIZE
  THEN Erased ELSE u.flash[a]

(* What writing a page does to every cell: the sector is erased when the   *)
(* page is its first, and the words go to the erased cells.                *)
LEMMA FlushCells ==
  ASSUME NEW u \in UploadState, NEW page \in Seq(Int), NEW r, r = FlushPage(u, page)
  PROVE  /\ r \in UploadState /\ r.page = <<>> /\ r.address = u.address + PAGELEN
         /\ r.state = u.state /\ r.len = u.len /\ r.skip = u.skip
         /\ \A a \in Cells : r.flash[a] =
              IF a \in u.address..u.address + Len(page) - 1
              THEN IF Prepared(u, a) = Erased THEN page[a - u.address + 1] ELSE Mixed
              ELSE Prepared(u, a)
<1> DEFINE base == IF u.address % SPI_FLASH_SEC_SIZE = 0
                   THEN spi_flash_erase_sector(u.flash, u.address) ELSE u.flash
           fl == spi_flash_write(base, u.address, page)
<1>1. \A a \in Cells : base[a] = Prepared(u, a)
  BY DEF spi_flash_erase_sector, Prepared
<1>2. u.flash \in [Cells -> Int] /\ u.address \in Nat BY DEF UploadState
<1>3. \A a \in Cells : Prepared(u, a) \in Int BY <1>2, CellValues DEF Prepared
<1> HIDE DEF base
<1>4. \A a \in Cells : fl[a] =
              IF a \notin u.address..u.address + Len(page) - 1 THEN base[a]
              ELSE IF base[a] = Erased THEN page[a - u.address + 1] ELSE Mixed
  BY DEF spi_flash_write
<1>5. \A a \in Cells : fl[a] =
              IF a \in u.address..u.address + Len(page) - 1
              THEN IF Prepared(u, a) = Erased THEN page[a - u.address + 1] ELSE Mixed
              ELSE Prepared(u, a)
  BY <1>1, <1>4
<1>6. fl = [a \in Cells |-> fl[a]] BY DEF spi_flash_write
<1> HIDE DEF fl
<1>7. ASSUME NEW a \in Cells PROVE fl[a] \in Int
  <2>1. a \in u.address..u.address + Len(page) - 1 => page[a - u.address + 1] \in Int
    <3> SUFFICES ASSUME a \in u.address..u.address + Len(page) - 1
                 PROVE  page[a - u.address + 1] \in Int
      OBVIOUS
    <3>1. a - u.address + 1 \in 1..Len(page) BY <1>2, CellValues
    <3> QED BY <3>1
  <2> QED BY <1>3, <1>5, <2>1, CellValues
<1>8. fl \in [Cells -> Int] BY <1>6, <1>7
<1>9. r = [u EXCEPT !.flash = fl, !.address = u.address + PAGELEN, !.page = <<>>]
  BY DEF FlushPage, base, fl
<1>10. u.address + PAGELEN \in Nat BY <1>2, FlashLayout
<1>13. <<>> \in Seq(Int) OBVIOUS
<1>11. r \in UploadState BY <1>8, <1>9, <1>10, <1>13 DEF UploadState
<1>12. /\ r.page = <<>> /\ r.address = u.address + PAGELEN /\ r.flash = fl
       /\ r.state = u.state /\ r.len = u.len /\ r.skip = u.skip
  BY <1>9 DEF UploadState
<1> QED BY <1>5, <1>11, <1>12

(* The sizes of an image.                                                  *)
LEMMA ImageShape ==
  ASSUME NEW f \in Images
  PROVE  /\ Base(f) \in Nat /\ First(f) \in Nat /\ Length(f) \in Nat
         /\ Base(f) % PAGELEN = 0 /\ Base(f) % SPI_FLASH_SEC_SIZE = 0
BY FlashLayout DEF Images, Base, First, Length, OtaHeader

(* A page of the next words of the image leaves one page more of it in the *)
(* flash.                                                                  *)
LEMMA FlushGood ==
  ASSUME NEW f \in Images, NEW u \in UploadState, NEW page \in Seq(Int), NEW n \in Nat,
         NEW r, r = FlushPage(u, page),
         u.address = Base(f) + n, u.address % PAGELEN = 0, Len(page) <= PAGELEN,
         \A i \in 1..Len(page) : page[i] = First(f) + n + i,
         Wrote(f, u, n), RestErased(u)
  PROVE  Wrote(f, r, n + Len(page)) /\ RestErased(r) /\ r.address % PAGELEN = 0
<1> DEFINE P == PAGELEN
           S == SPI_FLASH_SEC_SIZE
           x == u.address
<1>1. P \in Nat \ {0} /\ S \in Nat \ {0} /\ S % P = 0 /\ x \in Nat /\ x % P = 0
  BY FlashLayout DEF UploadState
<1>2. /\ (x + P) % P = 0
      /\ \A y \in x..x + P - 1 : y \div S = x \div S
      /\ (x + P) % S # 0 => (x + P) \div S = x \div S
  BY <1>1, PageInSector
<1>3. \A a \in Cells : x % S = 0 /\ a \div S = x \div S => a >= x
  BY <1>1, SectorBegins, CellValues
<1>4. r.address = x + P /\ \A a \in Cells : r.flash[a] =
              IF a \in x..x + Len(page) - 1
              THEN IF Prepared(u, a) = Erased THEN page[a - x + 1] ELSE Mixed
              ELSE Prepared(u, a)
  BY FlushCells
<1>5. Len(page) \in Nat OBVIOUS
<1>6. ASSUME NEW a \in Cells, a >= x, a \div S = x \div S PROVE Prepared(u, a) = Erased
  BY <1>6 DEF Prepared, RestErased
<1>7. ASSUME NEW a \in Cells, a \in x..x + Len(page) - 1
      PROVE  r.flash[a] = WordAt(f, a)
  <2>1. a >= x /\ a \in x..x + P - 1 BY <1>1, <1>5, <1>7
  <2>2. r.flash[a] = page[a - x + 1] BY <1>2, <1>4, <1>6, <1>7, <2>1
  <2>3. a - x + 1 \in 1..Len(page) BY <1>1, <1>5, <1>7
  <2>4. page[a - x + 1] = First(f) + n + (a - x + 1) BY <2>3
  <2>5. Base(f) \in Nat /\ First(f) \in Nat /\ a \in Nat BY ImageShape, CellValues
  <2>6. First(f) + n + (a - x + 1) = First(f) + a - Base(f) + 1 BY <1>1, <2>5
  <2> QED BY <2>2, <2>4, <2>6 DEF WordAt
<1>8. ASSUME NEW a \in Cells, a < x PROVE r.flash[a] = u.flash[a]
  <2>1. a \in Nat BY CellValues
  <2>2. Prepared(u, a) = u.flash[a] BY <1>1, <1>3, <1>8, <2>1 DEF Prepared
  <2> QED BY <1>1, <1>4, <1>8, <2>1, <2>2
<1>9. ASSUME NEW a \in Cells, a >= x + Len(page)
      PROVE  r.flash[a] \in {Old, Erased}
  <2>1. a \in Nat BY CellValues
  <2>2. a \notin Base(f)..Base(f) + n - 1 BY <1>1, <1>5, <1>9, <2>1, ImageShape
  <2>3. u.flash[a] \in {Old, Erased} BY <2>2 DEF Wrote
  <2>4. a \notin x..x + Len(page) - 1 BY <1>1, <1>5, <1>9, <2>1
  <2> QED BY <1>4, <2>3, <2>4 DEF Prepared
<1>10. Wrote(f, r, n + Len(page))
  <2>1. SUFFICES ASSUME NEW a \in Cells
                 PROVE  IF a \in Base(f)..Base(f) + (n + Len(page)) - 1
                        THEN r.flash[a] = WordAt(f, a) ELSE r.flash[a] \in {Old, Erased}
    BY DEF Wrote
  <2>2. a \in Nat /\ Base(f) \in Nat BY CellValues, ImageShape
  <2>3. CASE a < x
    <3>1. IF a \in Base(f)..Base(f) + n - 1 THEN u.flash[a] = WordAt(f, a)
          ELSE u.flash[a] \in {Old, Erased}
      BY DEF Wrote
    <3> QED BY <1>1, <1>5, <1>8, <2>2, <2>3, <3>1
  <2>4. CASE a >= x /\ a < x + Len(page)
    <3>1. a \in x..x + Len(page) - 1 BY <1>1, <1>5, <2>2, <2>4
    <3> QED BY <1>1, <1>5, <1>7, <2>2, <2>4, <3>1
  <2>5. CASE a >= x + Len(page)
    <3>1. a \notin Base(f)..Base(f) + (n + Len(page)) - 1 BY <1>1, <1>5, <2>2, <2>5
    <3> QED BY <1>9, <2>5, <3>1
  <2> QED BY <1>1, <1>5, <2>2, <2>3, <2>4, <2>5
<1>11. RestErased(r)
  <2> SUFFICES ASSUME r.address % S # 0, NEW a \in Cells, a >= r.address,
                      a \div S = r.address \div S
               PROVE  r.flash[a] = Erased
    BY DEF RestErased
  <2>1. a \in Nat /\ a >= x /\ a \div S = x \div S BY <1>1, <1>2, <1>4, CellValues
  <2>2. a \notin x..x + Len(page) - 1 BY <1>1, <1>4, <1>5, <2>1
  <2> QED BY <1>4, <1>6, <2>1, <2>2
<1> QED BY <1>2, <1>4, <1>10, <1>11

-----------------------------------------------------------------------------
(* One turn of the loop of cgiUploadFirmware.                              *)

(* A block whose first word is number q + 1 of the file.                   *)
IsBlock(f, data, q) ==
  /\ data \in Seq(Int) /\ q + Len(data) <= f.size
  /\ \A i \in 1..Len(data) : data[i] = q + i

(* The turns that use up no word.                                          *)
Rank(u) ==
  IF u.state = "START" THEN 4
  ELSE IF u.state = "SKIP" THEN 2
  ELSE IF u.state = "WRITE" THEN IF u.skip > 0 THEN 3 ELSE 1
  ELSE 0

(* What the loop works on when the page has room.                          *)
SaneLoop == {p \in LoopState : Len(p.u.page) < PAGELEN}

(* r is p n words further on.                                              *)
Further(p, n, r) ==
  /\ r \in SaneLoop
  /\ r.data = SubSeq(p.data, n + 1, Len(p.data))
  /\ Len(p.data) - n + Rank(r.u) < Len(p.data) + Rank(p.u)

(* What is left of a block when n words are taken from it.                 *)
LEMMA RestOfBlock ==
  ASSUME NEW data \in Seq(Int), NEW n \in 0..Len(data)
  PROVE  LET rest == SubSeq(data, n + 1, Len(data))
         IN  /\ rest \in Seq(Int) /\ Len(rest) = Len(data) - n
             /\ \A i \in 1..Len(rest) : rest[i] = data[n + i]
             /\ \A f, q : q \in Nat /\ IsBlock(f, data, q) => IsBlock(f, rest, q + n)
<1> DEFINE rest == SubSeq(data, n + 1, Len(data))
<1>1. rest \in Seq(Int) /\ Len(rest) = Len(data) - n
  OBVIOUS
<1>2. \A i \in 1..Len(rest) : rest[i] = data[n + i]
  OBVIOUS
<1> HIDE DEF rest
<1>3. ASSUME NEW f, NEW q \in Nat, IsBlock(f, data, q) PROVE IsBlock(f, rest, q + n)
  <2>1. n \in Nat /\ Len(data) \in Nat OBVIOUS
  <2>2. (q + n) + Len(rest) = q + Len(data) BY <1>1, <2>1
  <2>3. ASSUME NEW i \in 1..Len(rest) PROVE rest[i] = (q + n) + i
    <3>1. n + i \in 1..Len(data) BY <1>1, <2>1
    <3>2. data[n + i] = q + (n + i) BY <1>3, <3>1 DEF IsBlock
    <3> QED BY <1>2, <2>1, <3>2
  <2> QED BY <1>1, <1>3, <2>2, <2>3 DEF IsBlock
<1> QED BY <1>1, <1>2, <1>3 DEF rest

(* All of a block taken, or none of it left.                               *)
LEMMA NothingLeft ==
  ASSUME NEW data \in Seq(Int)
  PROVE  SubSeq(data, Len(data) + 1, Len(data)) = <<>> /\ SubSeq(data, 1, Len(data)) = data
OBVIOUS

(* The parts of what the while loop of cgiUploadFirmware works on.         *)
LEMMA LoopTypes ==
  ASSUME NEW p \in SaneLoop
  PROVE  /\ p = [data |-> p.data, u |-> p.u] /\ p.data \in Seq(Int) /\ p.u \in UploadState
         /\ p.u.state \in {"START", "SKIP", "WRITE", "DONE", "ERROR"}
         /\ p.u.len \in Nat /\ p.u.skip \in Nat /\ p.u.address \in Nat
         /\ p.u.page \in Seq(Int) /\ p.u.flash \in [Cells -> Int]
         /\ Len(p.u.page) \in Nat /\ Len(p.data) \in Nat /\ Len(p.u.page) < PAGELEN
BY DEF SaneLoop, LoopState, UploadState

(* A block and an upload make such a state.                                *)
LEMMA SaneLoopIs ==
  ASSUME NEW d \in Seq(Int), NEW u \in UploadState, Len(u.page) < PAGELEN
  PROVE  [data |-> d, u |-> u] \in SaneLoop
BY DEF SaneLoop, LoopState

(* There are at most four turns that use up no word.                       *)
LEMMA RankIs ==
  ASSUME NEW u \in UploadState
  PROVE  Rank(u) \in 0..4
BY DEF Rank, UploadState

(* A turn that takes n words and does not fall back by as many steps is    *)
(* progress.                                                               *)
LEMMA GoesOn ==
  ASSUME NEW p \in SaneLoop, NEW n \in 0..Len(p.data), NEW w \in UploadState,
         Len(w.page) < PAGELEN, Rank(w) < n + Rank(p.u)
  PROVE  Further(p, n, [data |-> SubSeq(p.data, n + 1, Len(p.data)), u |-> w])
<1> DEFINE rest == SubSeq(p.data, n + 1, Len(p.data))
<1>1. p.data \in Seq(Int) /\ p.u \in UploadState /\ Len(p.data) \in Nat BY LoopTypes
<1>2. rest \in Seq(Int) BY <1>1, RestOfBlock
<1>3. Rank(w) \in Nat /\ Rank(p.u) \in Nat BY <1>1, RankIs
<1> HIDE DEF rest
<1>4. [data |-> rest, u |-> w] \in SaneLoop BY <1>2, SaneLoopIs
<1>5. Len(p.data) - n + Rank(w) < Len(p.data) + Rank(p.u)
  <2>1. PICK l \in Nat, a \in Nat, b \in Nat :
          l = Len(p.data) /\ a = Rank(w) /\ b = Rank(p.u)
    BY <1>1, <1>3
  <2>2. n \in 0..l /\ a < n + b BY <2>1
  <2>3. l - n + a < l + b BY <2>1, <2>2
  <2> QED BY <2>1, <2>3
<1> QED BY <1>4, <1>5, Zenon DEF Further, rest

(* So is one that takes none and goes a step on.                           *)
LEMMA StaysPut ==
  ASSUME NEW p \in SaneLoop, NEW w \in UploadState, Len(w.page) < PAGELEN, Rank(w) < Rank(p.u)
  PROVE  0 \in 0..Len(p.data) /\ Further(p, 0, [data |-> p.data, u |-> w])
<1>1. p.data \in Seq(Int) /\ p.u \in UploadState /\ Len(p.data) \in Nat BY LoopTypes
<1>2. SubSeq(p.data, 0 + 1, Len(p.data)) = p.data BY <1>1, NothingLeft
<1>3. 0 \in 0..Len(p.data) /\ Rank(w) < 0 + Rank(p.u) BY <1>1, RankIs
<1> QED BY <1>2, <1>3, GoesOn

(* The turn that reads the header takes the header of a combined file, and *)
(* nothing of another.                                                     *)
LEMMA HeaderType ==
  ASSUME NEW f \in Images, NEW p \in SaneLoop, p.data # <<>>, p.u.state = "START"
  PROVE  \E n \in 0..Len(p.data) :
           /\ Further(p, n, HeaderStep(f, p))
           /\ n = IF Rejected(f) \/ f.type = "BIN" THEN 0 ELSE OtaHeader
<1> DEFINE r == HeaderStep(f, p)
<1>1. PICK u, d : p = [data |-> d, u |-> u] /\ u = p.u /\ d = p.data BY LoopTypes
<1>2. /\ u \in UploadState /\ d \in Seq(Int) /\ Len(d) \in Nat /\ Len(d) # 0
      /\ Len(u.page) < PAGELEN
  BY <1>1, LoopTypes
<1>3. f.len1 \in Nat /\ f.len2 \in Nat /\ f.size \in Nat BY DEF Images
<1>4. fw1Pos \in Nat /\ fw2Pos \in Nat BY FlashLayout
<1>5. CASE Rejected(f)
  <2> DEFINE w == [u EXCEPT !.state = "ERROR"]
  <2>1. r = [data |-> d, u |-> w] BY <1>1, <1>5 DEF HeaderStep
  <2>2. w \in UploadState /\ Len(w.page) < PAGELEN /\ w.state = "ERROR" BY <1>2 DEF UploadState
  <2> HIDE DEF w
  <2> QED BY <1>1, <1>2, <1>5, <2>1, <2>2, StaysPut DEF Rank
<1>6. CASE ~Rejected(f) /\ f.type = "BIN"
  <2> DEFINE w == [u EXCEPT !.state = "WRITE", !.len = f.size, !.address = fw1Pos]
  <2>1. r = [data |-> d, u |-> w] BY <1>1, <1>6 DEF HeaderStep
  <2>2. w \in UploadState /\ Len(w.page) < PAGELEN /\ w.state = "WRITE"
    BY <1>2, <1>3, <1>4 DEF UploadState
  <2> HIDE DEF w
  <2> QED BY <1>1, <1>2, <1>6, <2>1, <2>2, StaysPut DEF Rank
<1>7. CASE ~Rejected(f) /\ f.type # "BIN"
  <2> DEFINE w == IF f.user1
                  THEN [u EXCEPT !.state = "WRITE", !.len = f.len1, !.skip = f.len2,
                                 !.address = fw1Pos]
                  ELSE [u EXCEPT !.state = "SKIP", !.len = f.len2, !.skip = f.len1,
                                 !.address = fw2Pos]
  <2>1. r = [data |-> SubSeq(d, 1 + 1, Len(d)), u |-> w]
    BY <1>1, <1>7 DEF HeaderStep, OtaHeader
  <2>2. w \in UploadState /\ Len(w.page) < PAGELEN /\ w.state \in {"WRITE", "SKIP"}
    BY <1>2, <1>3, <1>4 DEF UploadState
  <2> HIDE DEF w
  <2>3. 1 \in 0..Len(d) /\ Rank(w) < 1 + Rank(p.u) BY <1>1, <1>2, <2>2 DEF Rank
  <2>4. Further(p, 1, r) BY <1>1, <1>2, <2>1, <2>2, <2>3, GoesOn
  <2> QED BY <1>1, <1>7, <2>3, <2>4 DEF OtaHeader
<1> QED BY <1>5, <1>6, <1>7

(* The turn that skips takes what it skips.                                *)
LEMMA SkipType ==
  ASSUME NEW p \in SaneLoop, p.data # <<>>, p.u.state = "SKIP"
  PROVE  \E n \in 0..Len(p.data) :
           /\ Further(p, n, SkipStep(p))
           /\ n = IF p.u.skip > Len(p.data) THEN Len(p.data) ELSE p.u.skip
<1> DEFINE r == SkipStep(p)
<1>1. PICK u, d : p = [data |-> d, u |-> u] /\ u = p.u /\ d = p.data BY LoopTypes
<1>2. /\ u \in UploadState /\ d \in Seq(Int) /\ Len(d) \in Nat /\ Len(d) # 0
      /\ Len(u.page) < PAGELEN /\ u.skip \in Nat
  BY <1>1, LoopTypes
<1>3. CASE u.skip > Len(d)
  <2> DEFINE w == [u EXCEPT !.skip = u.skip - Len(d)]
  <2>0. u.skip - Len(d) \in Nat BY <1>2, <1>3
  <2>1. r = [data |-> SubSeq(d, Len(d) + 1, Len(d)), u |-> w]
    BY <1>1, <1>2, <1>3, NothingLeft DEF SkipStep
  <2>2. w \in UploadState /\ Len(w.page) < PAGELEN /\ w.state = u.state
    BY <1>2, <2>0 DEF UploadState
  <2> HIDE DEF w
  <2>3. Rank(w) < Len(d) + Rank(p.u) /\ Len(d) \in 0..Len(p.data)
    BY <1>1, <1>2, <2>2 DEF Rank
  <2> QED BY <1>1, <1>3, <2>1, <2>2, <2>3, GoesOn
<1>4. CASE ~(u.skip > Len(d))
  <2> DEFINE w == [u EXCEPT !.skip = 0, !.state = IF u.len > 0 THEN "WRITE" ELSE "DONE"]
  <2>1. r = [data |-> SubSeq(d, u.skip + 1, Len(d)), u |-> w]
    BY <1>1, <1>4 DEF SkipStep
  <2>2. w \in UploadState /\ Len(w.page) < PAGELEN /\ w.state \in {"WRITE", "DONE"} /\ w.skip = 0
    BY <1>2 DEF UploadState
  <2> HIDE DEF w
  <2>3. Rank(w) < u.skip + Rank(p.u) /\ u.skip \in 0..Len(p.data)
    BY <1>1, <1>2, <1>4, <2>2 DEF Rank
  <2> QED BY <1>1, <1>4, <2>1, <2>2, <2>3, GoesOn
<1> QED BY <1>3, <1>4

(* The words a turn of WRITE wants.                                        *)
Wants(u) ==
  IF u.len < PAGELEN - Len(u.page) THEN u.len ELSE PAGELEN - Len(u.page)

(* What a turn of WRITE wants fits the page, and is nothing only when the  *)
(* image is complete.                                                      *)
LEMMA WantsIs ==
  ASSUME NEW u \in UploadState, Len(u.page) < PAGELEN
  PROVE  /\ Wants(u) \in 0..u.len /\ Wants(u) + Len(u.page) <= PAGELEN
         /\ Wants(u) = 0 => u.len = 0
         /\ Wants(u) # u.len => Wants(u) + Len(u.page) = PAGELEN
<1>1. u.len \in Nat /\ Len(u.page) \in Nat BY DEF UploadState
<1>2. PAGELEN \in Nat BY FlashLayout
<1> QED BY <1>1, <1>2 DEF Wants

(* The words of a short block are kept until the next ...                  *)
LEMMA WriteKeeps ==
  ASSUME NEW p \in SaneLoop, p.data # <<>>, p.u.state = "WRITE", Len(p.data) < Wants(p.u)
  PROVE  LET r == WriteStep(p)
         IN  /\ Further(p, Len(p.data), r)
             /\ r.u = [p.u EXCEPT !.page = p.u.page \o p.data, !.len = p.u.len - Len(p.data)]
<1> DEFINE r == WriteStep(p)
<1>1. PICK u, d : p = [data |-> d, u |-> u] /\ u = p.u /\ d = p.data BY LoopTypes
<1>2. /\ u \in UploadState /\ d \in Seq(Int) /\ Len(d) \in Nat /\ Len(d) # 0
      /\ Len(u.page) < PAGELEN /\ u.len \in Nat /\ u.page \in Seq(Int) /\ Len(u.page) \in Nat
  BY <1>1, LoopTypes
<1> DEFINE w == [u EXCEPT !.page = u.page \o d, !.len = u.len - Len(d)]
<1>3. r = [data |-> <<>>, u |-> w] BY <1>1 DEF WriteStep, Wants
<1>4. r = [data |-> SubSeq(d, Len(d) + 1, Len(d)), u |-> w] BY <1>2, <1>3, NothingLeft
<1>5. u.page \o d \in Seq(Int) /\ Len(u.page \o d) = Len(u.page) + Len(d) BY <1>2
<1>6. Wants(u) \in 0..u.len /\ Wants(u) + Len(u.page) <= PAGELEN BY <1>2, WantsIs
<1>7. u.len - Len(d) \in Nat /\ Len(u.page \o d) < PAGELEN
  BY <1>1, <1>2, <1>5, <1>6, FlashLayout
<1>8. /\ w \in UploadState /\ Len(w.page) < PAGELEN /\ w.state = u.state /\ w.skip = u.skip
  BY <1>2, <1>5, <1>7 DEF UploadState
<1>9. Rank(w) < Len(d) + Rank(p.u) /\ Len(d) \in 0..Len(p.data)
  <2> HIDE DEF w
  <2> QED BY <1>1, <1>2, <1>8, RankIs DEF Rank
<1>10. Further(p, Len(d), r)
  <2> HIDE DEF w, r
  <2> QED BY <1>1, <1>4, <1>8, <1>9, GoesOn
<1> QED BY <1>1, <1>3, <1>10

(* ... and those of a long one complete a page, or the image, which is     *)
(* written.                                                                *)
LEMMA WriteFlushes ==
  ASSUME NEW p \in SaneLoop, p.data # <<>>, p.u.state = "WRITE", ~(Len(p.data) < Wants(p.u))
  PROVE  LET r == WriteStep(p)
             n == Wants(p.u)
             page == p.u.page \o SubSeq(p.data, 1, n)
             fl == FlushPage(p.u, page)
         IN  /\ n \in 0..Len(p.data) /\ Further(p, n, r)
             /\ page \in Seq(Int) /\ Len(page) = Len(p.u.page) + n
             /\ r.u.flash = fl.flash /\ r.u.address = fl.address /\ r.u.page = <<>>
             /\ r.u.len = p.u.len - n /\ r.u.skip = p.u.skip
             /\ r.u.state = IF r.u.len > 0 THEN "WRITE"
                            ELSE IF p.u.skip > 0 THEN "SKIP" ELSE "DONE"
<1> DEFINE r == WriteStep(p)
           n == Wants(p.u)
           page == p.u.page \o SubSeq(p.data, 1, n)
           fl == FlushPage(p.u, page)
<1>1. PICK u, d : p = [data |-> d, u |-> u] /\ u = p.u /\ d = p.data BY LoopTypes
<1>2. /\ u \in UploadState /\ d \in Seq(Int) /\ Len(d) \in Nat /\ Len(d) # 0 /\ u.skip \in Nat
      /\ Len(u.page) < PAGELEN /\ u.len \in Nat /\ u.page \in Seq(Int) /\ Len(u.page) \in Nat
  BY <1>1, LoopTypes
<1>3. n \in 0..u.len /\ n + Len(u.page) <= PAGELEN /\ (n = 0 => u.len = 0)
  BY <1>1, <1>2, WantsIs
<1>4. n \in 0..Len(d) BY <1>1, <1>2, <1>3
<1>5. SubSeq(d, 1, n) \in Seq(Int) /\ Len(SubSeq(d, 1, n)) = n
  <2> HIDE DEF n
  <2> QED BY <1>2, <1>4
<1>6. page \in Seq(Int) /\ Len(page) = Len(u.page) + n
  <2> HIDE DEF n
  <2> QED BY <1>1, <1>2, <1>5
<1> DEFINE v == [fl EXCEPT !.len = fl.len - n]
           w == IF v.len > 0 THEN v
                ELSE [v EXCEPT !.state = IF v.skip > 0 THEN "SKIP" ELSE "DONE"]
<1>7. r = [data |-> SubSeq(d, n + 1, Len(d)), u |-> w]
  BY <1>1 DEF WriteStep, Wants
<1>8. /\ fl \in UploadState /\ fl.page = <<>> /\ fl.state = "WRITE"
      /\ fl.len = u.len /\ fl.skip = u.skip
  <2>1. p.u \in UploadState /\ u.state = "WRITE" BY <1>1, <1>2
  <2> HIDE DEF page
  <2>2. fl = FlushPage(p.u, page) OBVIOUS
  <2> HIDE DEF fl
  <2> QED BY <1>1, <1>6, <2>1, <2>2, FlushCells
<1> HIDE DEF n, page, fl
<1>9. u.len - n \in Nat BY <1>2, <1>3
<1>10. /\ v \in UploadState /\ v.page = <<>> /\ v.state = "WRITE" /\ v.len = u.len - n
       /\ v.skip = u.skip /\ v.flash = fl.flash /\ v.address = fl.address
  BY <1>8, <1>9 DEF UploadState
<1> HIDE DEF v
<1>11. /\ w \in UploadState /\ w.page = <<>> /\ w.len = u.len - n
       /\ w.skip = u.skip /\ w.flash = fl.flash /\ w.address = fl.address
       /\ w.state = IF w.len > 0 THEN "WRITE" ELSE IF u.skip > 0 THEN "SKIP" ELSE "DONE"
  BY <1>10 DEF UploadState
<1>12. Len(w.page) < PAGELEN BY <1>11, FlashLayout
<1>13. Rank(w) < n + Rank(u)
  <2> HIDE DEF w
  <2>1. u.state = "WRITE" BY <1>1
  <2>2. CASE n = 0
    <3>1. w.len = 0 BY <1>2, <1>3, <1>11, <2>2
    <3> QED BY <1>2, <1>11, <2>1, <2>2, <3>1 DEF Rank
  <2>3. CASE n > 0 BY <1>2, <1>3, <1>11, <2>1, <2>3 DEF Rank
  <2> QED BY <1>3, <2>2, <2>3
<1> HIDE DEF w, r
<1>14. Further(p, n, r)
  BY <1>1, <1>4, <1>7, <1>11, <1>12, <1>13, GoesOn
<1>15. r.u = w BY <1>7
<1> QED BY <1>1, <1>4, <1>6, <1>11, <1>14, <1>15 DEF n, page, fl, r

(* Every turn of the loop is progress.                                     *)
LEMMA StepType ==
  ASSUME NEW f \in Images, NEW p \in SaneLoop, p.data # <<>>
  PROVE  \E n \in 0..Len(p.data) : Further(p, n, Step(f, p))
<1>1. CASE p.u.state = "START"
  <2>1. Step(f, p) = HeaderStep(f, p) BY <1>1 DEF Step
  <2> QED BY <1>1, <2>1, HeaderType
<1>2. CASE p.u.state = "SKIP"
  <2>1. Step(f, p) = SkipStep(p) BY <1>2 DEF Step
  <2> QED BY <1>2, <2>1, SkipType
<1>3. CASE p.u.state = "WRITE"
  <2>1. Step(f, p) = WriteStep(p) BY <1>3 DEF Step
  <2>2. Len(p.data) \in 0..Len(p.data) BY LoopTypes
  <2> QED BY <1>3, <2>1, <2>2, WriteKeeps, WriteFlushes
<1>4. CASE p.u.state \in {"DONE", "ERROR"}
  <2>1. Step(f, p) = [p EXCEPT !.data = <<>>] BY <1>4 DEF Step
  <2>2. /\ p = [data |-> p.data, u |-> p.u] /\ p.u \in UploadState /\ p.data \in Seq(Int)
        /\ Len(p.u.page) < PAGELEN /\ Len(p.data) \in Nat
    BY LoopTypes
  <2>3. Step(f, p) = [data |-> SubSeq(p.data, Len(p.data) + 1, Len(p.data)), u |-> p.u]
    BY <2>1, <2>2, NothingLeft
  <2>4. Len(p.data) # 0 BY <2>2
  <2>5. Rank(p.u) < Len(p.data) + Rank(p.u) /\ Len(p.data) \in 0..Len(p.data)
    BY <2>2, <2>4, RankIs
  <2> QED BY <2>2, <2>3, <2>5, GoesOn
<1> QED BY <1>1, <1>2, <1>3, <1>4, LoopTypes

(* A flash that was not written to holds none of the image.                *)
LEMMA Untouched ==
  ASSUME NEW f \in Images, NEW u, u.flash = UploadStart.flash
  PROVE  Wrote(f, u, 0)
<1>1. \A a \in Cells : u.flash[a] = Old BY DEF UploadStart
<1>2. Base(f) \in Nat BY ImageShape
<1>3. Base(f)..Base(f) + 0 - 1 = {} BY <1>2
<1> QED BY <1>1, <1>3 DEF Wrote

(* The turn that reads the header begins the upload or refuses it.         *)
LEMMA HeaderGood ==
  ASSUME NEW f \in Images, NEW p \in SaneLoop, p.data # <<>>, p.u.state = "START",
         p.u = UploadStart, f.size > 0, NEW n \in Nat,
         n = IF Rejected(f) \/ f.type = "BIN" THEN 0 ELSE OtaHeader
  PROVE  Good(f, HeaderStep(f, p).u, n)
<1> DEFINE r == HeaderStep(f, p)
           u == p.u
<1>1. p = [data |-> p.data, u |-> p.u] BY LoopTypes
<1>2. f.len1 \in Nat /\ f.len2 \in Nat /\ f.size \in Nat BY DEF Images
<1>3. CASE Rejected(f)
  <2>1. r.u = [UploadStart EXCEPT !.state = "ERROR"] BY <1>1, <1>3 DEF HeaderStep
  <2> QED BY <1>3, <2>1 DEF Good
<1>4. CASE ~Rejected(f) /\ f.type = "BIN"
  <2> DEFINE w == [UploadStart EXCEPT !.state = "WRITE", !.len = f.size, !.address = fw1Pos]
  <2>1. r.u = w BY <1>1, <1>4 DEF HeaderStep
  <2>2. /\ w.state = "WRITE" /\ w.len = f.size /\ w.skip = 0 /\ w.address = fw1Pos
        /\ w.page = <<>> /\ w.flash = UploadStart.flash
    BY DEF UploadStart
  <2>3. Wrote(f, w, 0) BY <2>2, Untouched
  <2>4. RestErased(w) BY <2>2, FlashLayout DEF RestErased
  <2> HIDE DEF w
  <2>5. w.address - Base(f) = 0 /\ First(f) = 0 /\ Length(f) = f.size /\ n = 0
    BY <1>4, <2>2, FlashLayout DEF Base, First, Length
  <2>6. Len(w.page) = 0 BY <2>2
  <2>8. w.skip = IF f.type = "OTA" /\ f.user1 THEN f.len2 ELSE 0 BY <1>4, <2>2
  <2>7. Writes(f, w, 0) BY <1>2, <2>2, <2>3, <2>4, <2>5, <2>6, <2>8, FlashLayout DEF Writes
  <2> QED BY <1>4, <2>1, <2>5, <2>7 DEF Good
<1>5. CASE ~Rejected(f) /\ f.type # "BIN" /\ f.user1
  <2> DEFINE w == [UploadStart EXCEPT !.state = "WRITE", !.len = f.len1, !.skip = f.len2,
                                      !.address = fw1Pos]
  <2>1. r.u = w BY <1>1, <1>5 DEF HeaderStep
  <2>2. /\ w.state = "WRITE" /\ w.len = f.len1 /\ w.skip = f.len2 /\ w.address = fw1Pos
        /\ w.page = <<>> /\ w.flash = UploadStart.flash
    BY DEF UploadStart
  <2>3. Wrote(f, w, 0) BY <2>2, Untouched
  <2>4. RestErased(w) BY <2>2, FlashLayout DEF RestErased
  <2> HIDE DEF w
  <2>5. /\ w.address - Base(f) = 0 /\ First(f) = 1 /\ Length(f) = f.len1 /\ n = 1
        /\ f.type = "OTA"
    BY <1>5, <2>2, FlashLayout DEF Base, First, Length, Rejected, OtaHeader
  <2>6. Len(w.page) = 0 BY <2>2
  <2>7. Writes(f, w, 1)
    BY <1>2, <1>5, <2>2, <2>3, <2>4, <2>5, <2>6, FlashLayout DEF Writes
  <2> QED BY <1>5, <2>1, <2>5, <2>7 DEF Good
<1>6. CASE ~Rejected(f) /\ f.type # "BIN" /\ ~f.user1
  <2> DEFINE w == [UploadStart EXCEPT !.state = "SKIP", !.len = f.len2, !.skip = f.len1,
                                      !.address = fw2Pos]
  <2>1. r.u = w BY <1>1, <1>6 DEF HeaderStep
  <2>2. /\ w.state = "SKIP" /\ w.len = f.len2 /\ w.skip = f.len1 /\ w.address = fw2Pos
        /\ w.page = <<>> /\ w.flash = UploadStart.flash
    BY DEF UploadStart
  <2>3. Wrote(f, w, 0) BY <2>2, Untouched
  <2> HIDE DEF w
  <2>4. n = 1 /\ f.type = "OTA" BY <1>6 DEF OtaHeader, Rejected
  <2>5. SkipsFirst(f, w, 1) BY <1>2, <1>6, <2>2, <2>3, <2>4 DEF SkipsFirst, OtaHeader
  <2> QED BY <1>6, <2>1, <2>4, <2>5 DEF Good
<1> QED BY <1>3, <1>4, <1>5, <1>6

(* A turn that skips keeps what is right of an upload ...                  *)
LEMMA SkipGood ==
  ASSUME NEW f \in Images, NEW p \in SaneLoop, p.data # <<>>, p.u.state = "SKIP",
         NEW q \in Nat, ~Rejected(f), SkipsFirst(f, p.u, q) \/ SkipsSecond(f, p.u, q),
         q + Len(p.data) <= f.size, NEW n \in Nat,
         n = IF p.u.skip > Len(p.data) THEN Len(p.data) ELSE p.u.skip
  PROVE  Good(f, SkipStep(p).u, q + n)
<1> DEFINE r == SkipStep(p)
<1>1. PICK u, d : p = [data |-> d, u |-> u] /\ u = p.u /\ d = p.data BY LoopTypes
<1>2. /\ u \in UploadState /\ d \in Seq(Int) /\ Len(d) \in Nat /\ Len(d) # 0
      /\ Len(u.page) < PAGELEN /\ u.skip \in Nat /\ u.len \in Nat
  BY <1>1, LoopTypes
<1>3. f.len1 \in Nat /\ f.len2 \in Nat /\ f.size \in Nat BY DEF Images
<1>4. CASE u.skip > Len(d)
  <2> DEFINE w == [u EXCEPT !.skip = u.skip - Len(d)]
  <2>1. r.u = w BY <1>1, <1>4 DEF SkipStep
  <2>2. /\ w.state = "SKIP" /\ w.len = u.len /\ w.skip = u.skip - Len(d)
        /\ w.address = u.address /\ w.page = u.page /\ w.flash = u.flash
    BY <1>1, <1>2 DEF UploadState
  <2> HIDE DEF w
  <2>7. n = Len(d) BY <1>1, <1>4
  <2>8. /\ u.skip \in Nat /\ Len(d) \in Nat /\ u.skip > Len(d) /\ w.skip = u.skip - Len(d)
        /\ n = Len(d)
    BY <1>2, <1>4, <2>2, <2>7
  <2>3. (q + n) + w.skip = q + u.skip /\ w.skip > 0
    <3>1. PICK l \in Nat, k \in Nat : l = Len(d) /\ k = u.skip BY <2>8
    <3>2. (q + l) + (k - l) = q + k /\ (k > l => k - l > 0)
      <4>1. q \in Nat /\ k \in Nat /\ l \in Nat BY <3>1, Zenon
      <4> QED BY <4>1, SMTT(30)
    <3>3. n = l /\ w.skip = k - l /\ k > l BY <2>8, <3>1
    <3> QED BY <3>1, <3>2, <3>3
  <2>4. \A m : Wrote(f, u, m) => Wrote(f, w, m) BY <2>2 DEF Wrote
  <2>5. SkipsFirst(f, u, q) => SkipsFirst(f, w, q + n)
    BY <2>2, <2>3, <2>4 DEF SkipsFirst, OtaHeader
  <2>6. SkipsSecond(f, u, q) => SkipsSecond(f, w, q + n)
    BY <2>2, <2>3, <2>4 DEF SkipsSecond, OtaHeader
  <2> QED BY <1>1, <2>1, <2>5, <2>6 DEF Good
<1>5. CASE ~(u.skip > Len(d))
  <2> DEFINE w == [u EXCEPT !.skip = 0, !.state = IF u.len > 0 THEN "WRITE" ELSE "DONE"]
  <2>1. r.u = w BY <1>1, <1>5 DEF SkipStep
  <2>2. /\ w.state = (IF u.len > 0 THEN "WRITE" ELSE "DONE") /\ w.len = u.len /\ w.skip = 0
        /\ w.address = u.address /\ w.page = u.page /\ w.flash = u.flash
    BY <1>1, <1>2 DEF UploadState
  <2> HIDE DEF w
  <2>3. n = u.skip BY <1>1, <1>5
  <2>4. \A m : Wrote(f, u, m) => Wrote(f, w, m) BY <2>2 DEF Wrote
  <2>5. q >= 1 /\ q + Len(d) <= f.size /\ f.size > 1 /\ q + n <= f.size
    BY <1>1, <1>2, <1>3, <1>5, <2>3 DEF SkipsFirst, SkipsSecond, OtaHeader
  <2>6. CASE SkipsFirst(f, u, q)
    <3>1. /\ f.type = "OTA" /\ ~f.user1 /\ q + n = 1 + f.len1 /\ u.len = f.len2
          /\ u.address = fw2Pos /\ u.page = <<>> /\ Wrote(f, w, 0)
      BY <2>3, <2>4, <2>6 DEF SkipsFirst, OtaHeader
    <3>2. Base(f) = fw2Pos /\ First(f) = 1 + f.len1 /\ Length(f) = f.len2
      BY <3>1 DEF Base, First, Length, OtaHeader
    <3>3. CASE u.len > 0
      <4>1. RestErased(w) BY <2>2, <3>1, FlashLayout DEF RestErased
      <4>2. w.address - Base(f) = 0 /\ Len(w.page) = 0 BY <2>2, <3>1, <3>2, FlashLayout
      <4>3. Writes(f, w, q + n)
        BY <1>2, <1>3, <2>2, <3>1, <3>2, <3>3, <4>1, <4>2, FlashLayout DEF Writes
      <4> QED BY <2>1, <4>3 DEF Good
    <3>4. CASE u.len = 0
      <4>1. Complete(f) BY <1>3, <2>5, <3>1, <3>4 DEF Complete, OtaHeader
      <4>2. w.state = "DONE" /\ w.page = <<>> /\ Wrote(f, w, Length(f))
        BY <2>2, <3>1, <3>2, <3>4
      <4> QED BY <2>1, <4>1, <4>2 DEF Good
    <3> QED BY <1>2, <3>3, <3>4
  <2>7. CASE SkipsSecond(f, u, q)
    <3>1. /\ f.type = "OTA" /\ q + n = 1 + f.len1 + f.len2 /\ u.len = 0
          /\ u.page = <<>> /\ Wrote(f, w, Length(f))
      BY <2>3, <2>4, <2>7 DEF SkipsSecond, OtaHeader
    <3>2. Complete(f) BY <1>3, <2>5, <3>1 DEF Complete, OtaHeader
    <3> QED BY <2>1, <2>2, <3>1, <3>2 DEF Good
  <2> QED BY <1>1, <2>6, <2>7
<1> QED BY <1>4, <1>5

(* ... and so does one that keeps the words ...                            *)
LEMMA WriteKeepsGood ==
  ASSUME NEW f \in Images, NEW p \in SaneLoop, p.data # <<>>, p.u.state = "WRITE",
         NEW q \in Nat, ~Rejected(f), Writes(f, p.u, q), IsBlock(f, p.data, q),
         Len(p.data) < Wants(p.u)
  PROVE  Good(f, WriteStep(p).u, q + Len(p.data))
<1> DEFINE u == p.u
           d == p.data
           w == WriteStep(p).u
<1>1. u \in UploadState /\ d \in Seq(Int) /\ u.page \in Seq(Int) /\ Len(u.page) < PAGELEN
  BY LoopTypes
<1>2. w = [u EXCEPT !.page = u.page \o d, !.len = u.len - Len(d)] BY WriteKeeps
<1>3. /\ w.state = "WRITE" /\ w.page = u.page \o d /\ w.len = u.len - Len(d)
      /\ w.address = u.address /\ w.flash = u.flash /\ w.skip = u.skip
  BY <1>1, <1>2 DEF UploadState
<1>4. PICK L \in Nat, D \in Nat, m \in Nat, n \in Nat, a \in Nat, z \in Nat :
        /\ L = Len(u.page) /\ D = Len(d) /\ m = u.len /\ n = u.address - Base(f)
        /\ a = First(f) /\ z = Length(f)
  BY LoopTypes, ImageShape DEF Writes
<1>5. /\ u.address % PAGELEN = 0 /\ q = a + n + L /\ n + L + m = z
      /\ \A i \in 1..L : u.page[i] = a + n + i
      /\ u.skip = IF f.type = "OTA" /\ f.user1 THEN f.len2 ELSE 0
      /\ Wrote(f, u, n) /\ RestErased(u)
  BY <1>4 DEF Writes
<1>6. D < m
  <2>1. Wants(u) \in 0..u.len BY <1>1, WantsIs
  <2> QED BY <1>4, <2>1
<1>7. Len(w.page) = L + D BY <1>1, <1>3, <1>4
<1>8. \A i \in 1..D : d[i] = q + i BY <1>4 DEF IsBlock
<1>9. ASSUME NEW i \in 1..L + D PROVE w.page[i] = a + n + i
  <2>1. CASE i <= L
    <3>1. i \in 1..L BY <2>1
    <3>2. w.page[i] = u.page[i] BY <1>1, <1>3, <1>4, <3>1
    <3> QED BY <1>5, <3>1, <3>2
  <2>2. CASE i > L
    <3>1. i - L \in 1..D BY <2>2
    <3>2. w.page[i] = d[i - L] BY <1>1, <1>3, <1>4, <2>2
    <3>3. q + (i - L) = a + n + i BY <1>5
    <3> QED BY <1>8, <3>1, <3>2, <3>3
  <2> QED BY <2>1, <2>2
<1>10. Wrote(f, w, n) BY <1>3, <1>5 DEF Wrote
<1>11. RestErased(w) BY <1>3, <1>5 DEF RestErased
<1>12. w.len = m - D /\ w.address - Base(f) = n BY <1>3, <1>4
<1>13. q + D = a + n + (L + D) /\ n + (L + D) + (m - D) = z /\ m - D # 0
  BY <1>5, <1>6
<1> HIDE DEF w, u, d
<1>14. Writes(f, w, q + D)
  BY <1>3, <1>4, <1>5, <1>7, <1>9, <1>10, <1>11, <1>12, <1>13 DEF Writes
<1> QED BY <1>4, <1>14 DEF Good, w, d

(* The first words of a block.                                             *)
LEMMA PrefixOfBlock ==
  ASSUME NEW d \in Seq(Int), NEW k \in 0..Len(d)
  PROVE  LET s == SubSeq(d, 1, k)
         IN  s \in Seq(Int) /\ Len(s) = k /\ \A j \in 1..k : s[j] = d[j]
OBVIOUS

(* One sequence after another.                                             *)
LEMMA Joined ==
  ASSUME NEW T, NEW s \in Seq(T), NEW t \in Seq(T)
  PROVE  /\ s \o t \in Seq(T) /\ Len(s \o t) = Len(s) + Len(t)
         /\ \A i \in 1..Len(s) : (s \o t)[i] = s[i]
         /\ \A i \in 1..Len(t) : (s \o t)[Len(s) + i] = t[i]
OBVIOUS

(* ... and one that writes a page.                                         *)
LEMMA WriteFlushesGood ==
  ASSUME NEW f \in Images, NEW p \in SaneLoop, p.data # <<>>, p.u.state = "WRITE",
         NEW q \in Nat, ~Rejected(f), Writes(f, p.u, q), IsBlock(f, p.data, q),
         ~(Len(p.data) < Wants(p.u))
  PROVE  Good(f, WriteStep(p).u, q + Wants(p.u))
<1> DEFINE u == p.u
           d == p.data
           page == u.page \o SubSeq(d, 1, Wants(u))
           fl == FlushPage(u, page)
           w == WriteStep(p).u
<1>1. u \in UploadState /\ d \in Seq(Int) /\ u.page \in Seq(Int) /\ Len(u.page) < PAGELEN
  BY LoopTypes
<1>2. /\ Wants(u) \in 0..Len(d) /\ page \in Seq(Int) /\ Len(page) = Len(u.page) + Wants(u)
      /\ w.flash = fl.flash /\ w.address = fl.address /\ w.page = <<>>
      /\ w.len = u.len - Wants(u) /\ w.skip = u.skip
      /\ w.state = IF w.len > 0 THEN "WRITE" ELSE IF u.skip > 0 THEN "SKIP" ELSE "DONE"
  BY WriteFlushes
<1>3. /\ Wants(u) \in 0..u.len /\ Wants(u) + Len(u.page) <= PAGELEN
      /\ Wants(u) # u.len => Wants(u) + Len(u.page) = PAGELEN
  BY <1>1, WantsIs
<1>4. PICK L \in Nat, D \in Nat, m \in Nat, n \in Nat, a \in Nat, z \in Nat, k \in Nat,
           P \in Nat, b \in Nat :
        /\ L = Len(u.page) /\ D = Len(d) /\ m = u.len /\ n = u.address - Base(f)
        /\ a = First(f) /\ z = Length(f) /\ k = Wants(u) /\ P = PAGELEN /\ b = Base(f)
  <2>1. Len(d) \in Nat /\ Wants(u) \in Nat BY <1>2, LoopTypes
  <2> HIDE DEF page, fl, w
  <2> QED BY <2>1, LoopTypes, ImageShape, FlashLayout DEF Writes
<1>5. /\ u.address % PAGELEN = 0 /\ q = a + n + L /\ n + L + m = z
      /\ \A i \in 1..L : u.page[i] = a + n + i
      /\ u.skip = IF f.type = "OTA" /\ f.user1 THEN f.len2 ELSE 0
      /\ Wrote(f, u, n) /\ RestErased(u)
  BY <1>4 DEF Writes
<1>6. /\ k \in 0..D /\ k \in 0..m /\ k + L <= P /\ (k # m => k + L = P)
      /\ D # 0 /\ Len(page) = L + k
  BY <1>1, <1>2, <1>3, <1>4
<1>7. D + q <= f.size /\ \A i \in 1..D : d[i] = q + i BY <1>4 DEF IsBlock
<1>8. f.len1 \in Nat /\ f.len2 \in Nat /\ f.size \in Nat BY DEF Images
<1>9. ASSUME NEW i \in 1..L + k PROVE page[i] = a + n + i
  <2>0. /\ SubSeq(d, 1, k) \in Seq(Int) /\ Len(SubSeq(d, 1, k)) = k
        /\ \A j \in 1..k : SubSeq(d, 1, k)[j] = d[j]
    <3>1. k \in 0..Len(d) BY <1>4, <1>6
    <3> QED BY <1>1, <3>1, PrefixOfBlock
  <2>1. page = u.page \o SubSeq(d, 1, k) BY <1>4
  <2> HIDE DEF page
  <2>2. CASE i <= L
    <3>1. i \in 1..L BY <2>2
    <3>2. page[i] = u.page[i] BY <1>1, <1>4, <2>0, <2>1, <3>1
    <3> QED BY <1>5, <3>1, <3>2
  <2>3. CASE i > L
    <3>1. i - L \in 1..k /\ i - L \in 1..D BY <1>6, <2>3
    <3>2. page[L + (i - L)] = SubSeq(d, 1, k)[i - L]
      BY <1>1, <1>4, <2>0, <2>1, <3>1, Joined
    <3>5. L + (i - L) = i OBVIOUS
    <3>3. page[i] = d[i - L] BY <2>0, <3>1, <3>2, <3>5
    <3>4. q + (i - L) = a + n + i BY <1>5
    <3> QED BY <1>7, <3>1, <3>3, <3>4
  <2> QED BY <2>2, <2>3
<1>10. u.address = Base(f) + n /\ u.address \in Nat
  <2>1. u.address \in Nat BY LoopTypes
  <2> QED BY <1>4, <2>1
<1>11. fl.address = u.address + PAGELEN BY <1>1, <1>2, FlushCells
<1> HIDE DEF page
<1>12. Wrote(f, fl, n + Len(page)) /\ RestErased(fl) /\ fl.address % PAGELEN = 0
  <2>1. Len(page) <= PAGELEN BY <1>4, <1>6
  <2>2. \A i \in 1..Len(page) : page[i] = First(f) + n + i BY <1>4, <1>6, <1>9
  <2>3. u \in UploadState /\ page \in Seq(Int) /\ fl = FlushPage(u, page) BY <1>1, <1>2
  <2>4. u.address % PAGELEN = 0 /\ Wrote(f, u, n) /\ RestErased(u) BY <1>5
  <2> HIDE DEF fl, u
  <2> QED BY <1>10, <2>1, <2>2, <2>3, <2>4, FlushGood
<1> HIDE DEF fl
<1>13. Wrote(f, w, n + (L + k)) /\ RestErased(w) /\ w.address % PAGELEN = 0
  BY <1>2, <1>6, <1>12 DEF Wrote, RestErased
<1>14. /\ w.address = b + n + P /\ w.len = m - k /\ m - k \in Nat /\ w.page = <<>>
       /\ w.skip = u.skip
       /\ w.state = IF m - k > 0 THEN "WRITE" ELSE IF u.skip > 0 THEN "SKIP" ELSE "DONE"
  <2>1. w.address = u.address + PAGELEN BY <1>2, <1>11
  <2>2. w.address = b + n + P BY <1>4, <1>10, <2>1
  <2>3. w.len = m - k BY <1>2, <1>4
  <2> QED BY <1>2, <1>6, <2>2, <2>3
<1> HIDE DEF w, u, d
<1>15. q + k = a + n + (L + k) /\ n + (L + k) + (m - k) = z
  BY <1>5, <1>6
<1>18. PICK x1 \in Nat, x2 \in Nat, x \in Nat :
         x1 = f.len1 /\ x2 = f.len2 /\ x = f.size /\ q + k <= x /\ q < x
  BY <1>6, <1>7, <1>8
<1>16. CASE m - k > 0
  <2>1. L + k = P BY <1>6, <1>16
  <2>5. Base(f) = b /\ w.address = b + n + P BY <1>4, <1>14
  <2>2. w.address - Base(f) = n + (L + k) BY <2>1, <2>5
  <2>3. Len(w.page) = 0 BY <1>14
  <2>6. PICK y \in Nat : y = n + (L + k) /\ q + k = a + y + 0 /\ y + 0 + (m - k) = z
    BY <1>15
  <2>7. /\ q + k = First(f) + y + Len(w.page) /\ y + Len(w.page) + w.len = Length(f)
        /\ w.len # 0 /\ w.state = "WRITE" /\ w.address - Base(f) = y
    <3>1. First(f) = a /\ Length(f) = z BY <1>4
    <3>2. w.len = m - k /\ w.state = "WRITE" BY <1>14, <1>16
    <3> QED BY <1>16, <2>2, <2>3, <2>6, <3>1, <3>2
  <2>8. w.skip = IF f.type = "OTA" /\ f.user1 THEN f.len2 ELSE 0 BY <1>5, <1>14
  <2>4. Writes(f, w, q + k) BY <1>13, <2>3, <2>6, <2>7, <2>8 DEF Writes
  <2> QED BY <1>4, <2>4 DEF Good, w, u
<1>17. CASE m - k = 0
  <2>1. n + (L + k) = z /\ q + k = a + z BY <1>15, <1>17
  <2>2. Wrote(f, w, Length(f)) BY <1>4, <1>13, <2>1
  <2>3. q >= a BY <1>5
  <2>4. CASE u.skip > 0
    <3>1. f.type = "OTA" /\ f.user1 /\ u.skip = f.len2 BY <1>5, <2>4
    <3>2. a = 1 /\ z = x1 BY <1>4, <1>18, <3>1 DEF First, Length, OtaHeader
    <3>5. q + k + x2 = 1 + x1 + x2 /\ q + k >= 1 BY <2>1, <2>3, <3>2
    <3>3. q + k + f.len2 = 1 + f.len1 + f.len2 /\ q + k >= 1 BY <1>18, <3>5
    <3>4. SkipsSecond(f, w, q + k)
      BY <1>14, <1>17, <2>2, <2>4, <3>1, <3>3 DEF SkipsSecond, OtaHeader
    <3> QED BY <1>4, <3>4 DEF Good, w, u
  <2>5. CASE ~(u.skip > 0)
    <3>1. Complete(f)
      <4>1. CASE f.type = "BIN" BY <1>18, <4>1 DEF Complete
      <4>2. CASE f.type # "BIN" /\ f.user1
        <5>0. f.type = "OTA" BY <4>2 DEF Rejected
        <5>9. f.len2 = 0
          <6>1. u.skip = f.len2 BY <1>5, <4>2, <5>0, Zenon
          <6>2. PICK l \in Nat : l = f.len2 BY <1>8
          <6>3. ~(l > 0) BY <2>5, <6>1, <6>2, Zenon
          <6> QED BY <6>2, <6>3
        <5>1. f.type = "OTA" /\ f.len2 = 0 BY <5>0, <5>9
        <5>2. a = 1 /\ z = x1 /\ x2 = 0 BY <1>4, <1>18, <4>2, <5>1 DEF First, Length, OtaHeader
        <5>3. x > 1 /\ x >= 1 + x1 + x2 BY <1>18, <2>1, <2>3, <5>2
        <5> QED BY <1>18, <4>2, <5>3 DEF Complete, OtaHeader
      <4>3. CASE f.type # "BIN" /\ ~f.user1
        <5>1. a = 1 + x1 /\ z = x2 BY <1>4, <1>18, <4>3 DEF First, Length, OtaHeader
        <5>2. x > 1 /\ x >= 1 + x1 + x2 BY <1>18, <2>1, <2>3, <5>1
        <5> QED BY <1>18, <4>3, <5>2 DEF Complete, OtaHeader
      <4> QED BY <4>1, <4>2, <4>3
    <3>2. w.state = "DONE" /\ w.page = <<>> BY <1>14, <1>17, <2>5
    <3> QED BY <1>4, <2>2, <3>1, <3>2 DEF Good, w, u
  <2> QED BY <2>4, <2>5
<1> QED BY <1>14, <1>16, <1>17

(* Every turn keeps what is right of an upload.                            *)
LEMMA StepGood ==
  ASSUME NEW f \in Images, NEW p \in SaneLoop, p.data # <<>>,
         NEW q \in Nat, Good(f, p.u, q), IsBlock(f, p.data, q)
  PROVE  \E n \in 0..Len(p.data) : Further(p, n, Step(f, p)) /\ Good(f, Step(f, p).u, q + n)
<1>1. CASE p.u.state = "START"
  <2>1. p.u = UploadStart /\ q = 0
    BY <1>1 DEF Good, SkipsFirst, SkipsSecond, Writes, UploadStart
  <2>2. Step(f, p) = HeaderStep(f, p) BY <1>1 DEF Step
  <2>3. PICK n \in 0..Len(p.data) :
          /\ Further(p, n, HeaderStep(f, p))
          /\ n = IF Rejected(f) \/ f.type = "BIN" THEN 0 ELSE OtaHeader
    BY <1>1, HeaderType
  <2>4. n \in Nat /\ q + n = n BY <2>1
  <2>6. f.size > 0
    <3>1. f.size \in Nat /\ q + Len(p.data) <= f.size BY DEF Images, IsBlock
    <3>2. PICK D \in Nat : D = Len(p.data) BY LoopTypes
    <3>3. D # 0 BY <3>2, LoopTypes
    <3> QED BY <2>1, <3>1, <3>2, <3>3
  <2>5. Good(f, HeaderStep(f, p).u, n) BY <1>1, <2>1, <2>3, <2>4, <2>6, HeaderGood
  <2> QED BY <2>2, <2>3, <2>4, <2>5
<1>2. CASE p.u.state = "SKIP"
  <2>1. ~Rejected(f) /\ (SkipsFirst(f, p.u, q) \/ SkipsSecond(f, p.u, q))
    BY <1>2 DEF Good, Writes, UploadStart
  <2>2. Step(f, p) = SkipStep(p) BY <1>2 DEF Step
  <2>3. PICK n \in 0..Len(p.data) :
          /\ Further(p, n, SkipStep(p))
          /\ n = IF p.u.skip > Len(p.data) THEN Len(p.data) ELSE p.u.skip
    BY <1>2, SkipType
  <2>4. n \in Nat /\ q + Len(p.data) <= f.size BY DEF IsBlock
  <2>5. Good(f, SkipStep(p).u, q + n) BY <1>2, <2>1, <2>3, <2>4, SkipGood
  <2> QED BY <2>2, <2>3, <2>5
<1>3. CASE p.u.state = "WRITE"
  <2>1. ~Rejected(f) /\ Writes(f, p.u, q)
    BY <1>3 DEF Good, SkipsFirst, SkipsSecond, UploadStart
  <2>2. Step(f, p) = WriteStep(p) BY <1>3 DEF Step
  <2>3. CASE Len(p.data) < Wants(p.u)
    <3>1. Len(p.data) \in 0..Len(p.data) BY LoopTypes
    <3> QED BY <1>3, <2>1, <2>2, <2>3, <3>1, WriteKeeps, WriteKeepsGood
  <2>4. CASE ~(Len(p.data) < Wants(p.u))
    BY <1>3, <2>1, <2>2, <2>4, WriteFlushes, WriteFlushesGood
  <2> QED BY <2>3, <2>4
<1>4. CASE p.u.state \in {"DONE", "ERROR"}
  <2>1. PICK n \in 0..Len(p.data) : Further(p, n, Step(f, p)) BY StepType
  <2>2. Step(f, p) = [p EXCEPT !.data = <<>>] BY <1>4 DEF Step
  <2>3. Step(f, p).u = p.u BY <2>2, LoopTypes
  <2>4. Good(f, p.u, q + n)
    <3>1. CASE p.u.state = "DONE"
      BY <3>1 DEF Good, SkipsFirst, SkipsSecond, Writes, UploadStart
    <3>2. CASE p.u.state = "ERROR"
      BY <3>2 DEF Good, SkipsFirst, SkipsSecond, Writes, UploadStart
    <3> QED BY <1>4, <3>1, <3>2
  <2> QED BY <2>1, <2>3, <2>4
<1> QED BY <1>1, <1>2, <1>3, <1>4, LoopTypes

-----------------------------------------------------------------------------
(* The loop: every turn takes words from the block or goes on to the next  *)
(* state, so that it ends within the turns CgiFlash gives it, and keeps    *)
(* what is right of the upload.                                            *)

(* The loop of CgiFlash goes round turn by turn.                           *)
LEMMA IterateSteps ==
  ASSUME NEW turn, NEW x
  PROVE  /\ Iterate(turn, x, 0) = x
         /\ \A n \in Nat : Iterate(turn, x, n + 1) = turn[Iterate(turn, x, n)]
<1> DEFINE f == CHOOSE h : IsLoop(x, turn, h)
<1>1. \A n : Iterate(turn, x, n) = f[n] BY DEF Iterate, IsLoop
<1>2. \E h : IsLoop(x, turn, h) BY LoopExists
<1>3. IsLoop(x, turn, f) BY <1>2, Zenon
<1> HIDE DEF f
<1>4. f[0] = x BY <1>3 DEF IsLoop
<1>5. ASSUME NEW n \in Nat PROVE f[n + 1] = turn[f[n]]
  <2>1. n + 1 \in Nat /\ n + 1 # 0 /\ (n + 1) - 1 = n OBVIOUS
  <2> QED BY <1>3, <2>1 DEF IsLoop
<1> QED BY <1>1, <1>4, <1>5

(* The while loop of cgiUploadFirmware leaves an upload whose page is not  *)
(* full, whatever the block.                                               *)
LEMMA LoopType ==
  ASSUME NEW f \in Images, NEW u, Sane(u), NEW data \in Seq(Int)
  PROVE  Sane(cgiUploadFirmware(f, u, data))
<1> DEFINE turn == [p \in LoopState |-> IF p.data = <<>> THEN p ELSE Step(f, p)]
           x == [data |-> data, u |-> u]
           S == {n \in Nat : Iterate(turn, x, n) \in SaneLoop}
<1>1. Iterate(turn, x, 0) = x /\ \A n \in Nat : Iterate(turn, x, n + 1) = turn[Iterate(turn, x, n)]
  <2> HIDE DEF turn, x
  <2> QED BY IterateSteps
<1>2. x \in SaneLoop BY SaneLoopIs DEF Sane
<1>3. 0 \in S BY <1>1, <1>2
<1>4. ASSUME NEW n \in Nat, n \in S PROVE n + 1 \in S
  <2> DEFINE p == Iterate(turn, x, n)
  <2>1. p \in SaneLoop BY <1>4
  <2>2. p \in LoopState BY <2>1 DEF SaneLoop
  <2> HIDE DEF p
  <2>3. turn[p] = IF p.data = <<>> THEN p ELSE Step(f, p) BY <2>2
  <2>4. turn[p] \in SaneLoop BY <2>1, <2>3, StepType DEF Further
  <2>5. n + 1 \in Nat OBVIOUS
  <2>6. Iterate(turn, x, n + 1) = turn[p] BY <1>1 DEF p
  <2> QED BY <2>4, <2>5, <2>6
<1>5. Nat \subseteq S
  <2> HIDE DEF S
  <2> QED BY <1>3, <1>4, NatSetInduction
<1>6. Turns(data) \in Nat BY DEF Turns
<1> DEFINE p == Iterate(turn, x, Turns(data))
<1>7. p \in SaneLoop BY <1>5, <1>6
<1>8. cgiUploadFirmware(f, u, data) = p.u BY DEF cgiUploadFirmware
<1> HIDE DEF p
<1> QED BY <1>7, <1>8, LoopTypes DEF Sane

(* It does nothing with an empty block.                                    *)
LEMMA EmptyBlock ==
  ASSUME NEW f, NEW u \in UploadState
  PROVE  cgiUploadFirmware(f, u, <<>>) = u
<1> DEFINE turn == [p \in LoopState |-> IF p.data = <<>> THEN p ELSE Step(f, p)]
           x == [data |-> <<>>, u |-> u]
           S == {n \in Nat : Iterate(turn, x, n) = x}
<1>1. Iterate(turn, x, 0) = x /\ \A n \in Nat : Iterate(turn, x, n + 1) = turn[Iterate(turn, x, n)]
  <2> HIDE DEF turn, x
  <2> QED BY IterateSteps
<1>2. x \in LoopState /\ x.data = <<>> BY DEF LoopState
<1>3. turn[x] = x BY <1>2
<1>4. 0 \in S BY <1>1
<1>5. ASSUME NEW n \in Nat, n \in S PROVE n + 1 \in S
  <2>1. n + 1 \in Nat OBVIOUS
  <2> HIDE DEF turn, x
  <2> QED BY <1>1, <1>3, <1>5, <2>1
<1>6. Nat \subseteq S
  <2> HIDE DEF S
  <2> QED BY <1>4, <1>5, NatSetInduction
<1>7. Turns(<<>>) \in Nat BY DEF Turns
<1>8. Iterate(turn, x, Turns(<<>>)) = x BY <1>6, <1>7
<1>9. cgiUploadFirmware(f, u, <<>>) = Iterate(turn, x, Turns(<<>>)).u BY DEF cgiUploadFirmware
<1> QED BY <1>8, <1>9

(* What it makes of the next block of a file is right of the file as far   *)
(* as the block goes: by induction over the turns there may be.            *)
LEMMA LoopGood ==
  ASSUME NEW f \in Images, NEW u, Sane(u), NEW data, NEW q \in Nat,
         Good(f, u, q), IsBlock(f, data, q)
  PROVE  Good(f, cgiUploadFirmware(f, u, data), q + Len(data))
<1> DEFINE turn == [p \in LoopState |-> IF p.data = <<>> THEN p ELSE Step(f, p)]
           x == [data |-> data, u |-> u]
           At(n) == Iterate(turn, x, n)
           Reached(n, m) ==
             /\ At(n) \in SaneLoop /\ IsBlock(f, At(n).data, q + m)
             /\ Len(At(n).data) = Len(data) - m /\ Good(f, At(n).u, q + m)
             /\ At(n).data = <<>> \/ Len(At(n).data) + Rank(At(n).u) + n <= Len(data) + 4
           S == {n \in Nat : \E m \in 0..Len(data) : Reached(n, m)}
<1>0. data \in Seq(Int) BY DEF IsBlock
<1>1. At(0) = x /\ \A n \in Nat : At(n + 1) = turn[At(n)]
  <2> HIDE DEF turn, x
  <2> QED BY IterateSteps
<1>2. x \in SaneLoop BY <1>0, SaneLoopIs DEF Sane
<1>3. 0 \in S
  <2>1. Rank(u) \in 0..4 BY RankIs DEF Sane
  <2>2. Len(data) \in Nat BY <1>0
  <2>3. q + 0 = q /\ Len(data) - 0 = Len(data) BY <2>2
  <2>4. Len(data) + Rank(u) + 0 <= Len(data) + 4 BY <2>1, <2>2
  <2>5. x.data = data /\ x.u = u OBVIOUS
  <2> HIDE DEF turn, x
  <2>6. Reached(0, 0) BY <1>1, <1>2, <2>3, <2>4, <2>5
  <2>7. 0 \in 0..Len(data) BY <2>2
  <2> QED BY <2>6, <2>7
<1>4. ASSUME NEW n \in Nat, n \in S PROVE n + 1 \in S
  <2>1. PICK m \in 0..Len(data) : Reached(n, m) BY <1>4
  <2> DEFINE p == At(n)
  <2>2. p \in LoopState BY <2>1 DEF SaneLoop
  <2>3. turn[p] = IF p.data = <<>> THEN p ELSE Step(f, p)
    <3> HIDE DEF p
    <3> QED BY <2>2
  <2>4. n + 1 \in Nat OBVIOUS
  <2>5. At(n + 1) = turn[p] BY <1>1
  <2> HIDE DEF At, turn, x
  <2>6. CASE p.data = <<>>
    <3>1. At(n + 1) = At(n) BY <2>3, <2>5, <2>6
    <3>2. Reached(n + 1, m) BY <2>1, <2>6, <3>1
    <3> QED BY <2>4, <3>2
  <2>7. CASE p.data # <<>>
    <3>1. At(n + 1) = Step(f, p) BY <2>3, <2>5, <2>7
    <3>2. q + m \in Nat BY <1>0
    <3>3. PICK k \in 0..Len(p.data) :
            Further(p, k, Step(f, p)) /\ Good(f, Step(f, p).u, (q + m) + k)
      BY <2>1, <2>7, <3>2, StepGood
    <3> DEFINE r == Step(f, p)
    <3>4. /\ r \in SaneLoop /\ r.data = SubSeq(p.data, k + 1, Len(p.data))
          /\ Len(p.data) - k + Rank(r.u) < Len(p.data) + Rank(p.u)
      BY <3>3 DEF Further
    <3>5. p.data \in Seq(Int) /\ p \in SaneLoop BY <2>1, LoopTypes
    <3>6. Len(r.data) = Len(p.data) - k /\ IsBlock(f, r.data, (q + m) + k)
      BY <2>1, <3>2, <3>4, <3>5, RestOfBlock
    <3>7. PICK L \in Nat, D \in Nat, a \in Nat, b \in Nat :
            L = Len(p.data) /\ D = Len(data) /\ a = Rank(p.u) /\ b = Rank(r.u)
      <4>1. p.u \in UploadState /\ r.u \in UploadState BY <3>4, <3>5, LoopTypes
      <4>2. Rank(p.u) \in Nat /\ Rank(r.u) \in Nat BY <4>1, RankIs
      <4> HIDE DEF r, p
      <4> QED BY <1>0, <3>5, <4>2
    <3>8. L = D - m /\ k \in 0..L /\ m \in 0..D BY <2>1, <3>7
    <3>9. m + k \in 0..D /\ (q + m) + k = q + (m + k) /\ L - k = D - (m + k) BY <3>8
    <3>10. L + a + n <= D + 4 /\ L - k + b < L + a BY <2>1, <2>7, <3>4, <3>7
    <3>11. (L - k) + b + (n + 1) <= D + 4 BY <3>8, <3>10
    <3>12. Reached(n + 1, m + k) BY <3>1, <3>3, <3>4, <3>6, <3>7, <3>9, <3>11
    <3>13. m + k \in 0..Len(data) BY <3>7, <3>9
    <3> QED BY <2>4, <3>12, <3>13
  <2> QED BY <2>6, <2>7
<1>5. Nat \subseteq S
  <2> HIDE DEF S
  <2> QED BY <1>3, <1>4, NatSetInduction
<1>6. Turns(data) \in Nat /\ Turns(data) = Len(data) + 4 BY <1>0 DEF Turns
<1>7. cgiUploadFirmware(f, u, data) = At(Turns(data)).u BY DEF cgiUploadFirmware
<1> HIDE DEF At
<1>8. PICK m \in 0..Len(data) : Reached(Turns(data), m) BY <1>5, <1>6
<1> DEFINE p == At(Turns(data))
<1>9. p.data = <<>>
  <2> SUFFICES ASSUME p.data # <<>> PROVE FALSE
    OBVIOUS
  <2>1. p.data \in Seq(Int) /\ p.u \in UploadState BY <1>8, LoopTypes
  <2>2. PICK L \in Nat, D \in Nat, b \in Nat : L = Len(p.data) /\ D = Len(data) /\ b = Rank(p.u)
    BY <1>0, <2>1, RankIs
  <2>3. L + b + (D + 4) <= D + 4 BY <1>6, <1>8, <2>2
  <2>4. L # 0 BY <2>1, <2>2
  <2> QED BY <2>3, <2>4
<1>10. m = Len(data)
  <2>1. PICK D \in Nat : D = Len(data) BY <1>0
  <2>2. Len(p.data) = 0 BY <1>9
  <2> QED BY <1>8, <2>1, <2>2
<1> QED BY <1>7, <1>8, <1>10

(* An upload that is right has no wrong word in the flash ...              *)
LEMMA GoodIsNeverWrong ==
  ASSUME NEW f \in Images, NEW u \in UploadState, NEW q \in Nat, Good(f, u, q)
  PROVE  NoWordIsWrong(f, u.flash)
<1>1. Base(f) \in Nat /\ Length(f) \in Nat BY ImageShape
<1>2. ASSUME NEW n \in Nat, n <= Length(f), Wrote(f, u, n) PROVE NoWordIsWrong(f, u.flash)
  <2>1. Base(f)..Base(f) + n - 1 \subseteq Place(f) BY <1>1, <1>2 DEF Place
  <2> QED BY <1>2, <2>1 DEF Wrote, NoWordIsWrong
<1>3. CASE u.flash = UploadStart.flash
  <2>1. 0 <= Length(f) BY <1>1
  <2> QED BY <1>2, <1>3, <2>1, Untouched
<1>4. CASE SkipsFirst(f, u, q) BY <1>1, <1>2, <1>4 DEF SkipsFirst
<1>5. CASE SkipsSecond(f, u, q) BY <1>1, <1>2, <1>5 DEF SkipsSecond
<1>6. CASE Writes(f, u, q)
  <2>1. PICK n \in Nat, L \in Nat, m \in Nat : n + L + m = Length(f) /\ Wrote(f, u, n)
    BY <1>6 DEF Writes, UploadState
  <2>2. n <= Length(f) BY <2>1
  <2> QED BY <1>2, <2>1, <2>2
<1>7. CASE Wrote(f, u, Length(f)) BY <1>1, <1>2, <1>7
<1> QED BY <1>3, <1>4, <1>5, <1>6, <1>7 DEF Good, UploadStart

(* ... and at the end of the file it is done if and only if the file was   *)
(* complete, and refused if and only if it was to be.                      *)
LEMMA GoodAtEnd ==
  ASSUME NEW f \in Images, NEW u \in UploadState, Good(f, u, f.size)
  PROVE  /\ u.state = "DONE" <=> Complete(f)
         /\ u.state = "ERROR" <=> f.size > 0 /\ Rejected(f)
         /\ Complete(f) /\ Place(f) \subseteq Cells => ImageIsThere(f, u.flash)
<1>1. PICK x1 \in Nat, x2 \in Nat, x \in Nat, m \in Nat, L \in Nat, k \in Nat :
        x1 = f.len1 /\ x2 = f.len2 /\ x = f.size /\ m = u.len /\ L = Len(u.page) /\ k = u.skip
  BY DEF Images, UploadState
<1>2. CASE u = UploadStart /\ x = 0
  <2>1. u.state = "START" BY <1>2 DEF UploadStart
  <2>2. ~Complete(f) BY <1>1, <1>2 DEF Complete, OtaHeader
  <2> QED BY <1>1, <1>2, <2>1, <2>2
<1>3. CASE u = [UploadStart EXCEPT !.state = "ERROR"] /\ Rejected(f) /\ x > 0
  <2>1. u.state = "ERROR" BY <1>3 DEF UploadStart
  <2> QED BY <1>1, <1>3, <2>1 DEF Complete
<1>4. CASE ~Rejected(f) /\ SkipsFirst(f, u, x)
  <2>1. /\ u.state = "SKIP" /\ f.type = "OTA" /\ x + k = 1 + x1 /\ x >= 1
        /\ k = 0 => x = 1
    BY <1>1, <1>4 DEF SkipsFirst, OtaHeader
  <2>2. ~(x > 1 /\ x >= 1 + x1 + x2) BY <2>1
  <2> QED BY <1>1, <1>4, <2>1, <2>2 DEF Complete, OtaHeader
<1>5. CASE ~Rejected(f) /\ SkipsSecond(f, u, x)
  <2>1. u.state = "SKIP" /\ f.type = "OTA" /\ x + k = 1 + x1 + x2 /\ k > 0
    BY <1>1, <1>5 DEF SkipsSecond, OtaHeader
  <2> QED BY <1>1, <1>5, <2>1 DEF Complete, OtaHeader
<1>6. CASE ~Rejected(f) /\ Writes(f, u, x)
  <2>1. PICK n \in Nat : /\ x = First(f) + n + L /\ n + L + m = Length(f)
                         /\ u.state = "WRITE" /\ (m = 0 => Length(f) = 0 /\ x = 1)
    BY <1>1, <1>6 DEF Writes, OtaHeader
  <2>2. CASE f.type = "BIN"
    <3>1. First(f) = 0 /\ Length(f) = x BY <1>1, <2>2 DEF First, Length
    <3>2. FALSE BY <2>1, <3>1
    <3> QED BY <3>2
  <2>3. CASE f.type # "BIN" /\ f.user1
    <3>1. First(f) = 1 /\ Length(f) = x1 BY <1>1, <2>3 DEF First, Length, OtaHeader
    <3>2. ~(x > 1 /\ x >= 1 + x1 + x2) BY <2>1, <3>1
    <3> QED BY <1>1, <1>6, <2>1, <2>3, <3>2 DEF Complete, OtaHeader
  <2>4. CASE f.type # "BIN" /\ ~f.user1
    <3>1. First(f) = 1 + x1 /\ Length(f) = x2 BY <1>1, <2>4 DEF First, Length, OtaHeader
    <3>2. ~(x > 1 /\ x >= 1 + x1 + x2) BY <2>1, <3>1
    <3> QED BY <1>1, <1>6, <2>1, <2>4, <3>2 DEF Complete, OtaHeader
  <2> QED BY <2>2, <2>3, <2>4
<1>7. CASE u.state = "DONE" /\ Complete(f) /\ Wrote(f, u, Length(f))
  <2>1. ASSUME Place(f) \subseteq Cells PROVE ImageIsThere(f, u.flash)
    BY <1>7, <2>1 DEF Wrote, ImageIsThere, Place
  <2> QED BY <1>7, <2>1 DEF Complete
<1> QED BY <1>1, <1>2, <1>3, <1>4, <1>5, <1>6, <1>7 DEF Good

-----------------------------------------------------------------------------
(* The output of a connection.                                             *)

(* Everything but what has been produced and where it is.                  *)
Alike(s, r) ==
  /\ r.len = s.len /\ r.received = s.received /\ r.buffLen = s.buffLen /\ r.cgi = s.cgi
  /\ r.left = s.left /\ r.opened = s.opened /\ r.upload = s.upload /\ r.early = s.early
  /\ r.flags = s.flags /\ r.req = s.req /\ r.sent = s.sent /\ r.got = s.got

(* The fields of a connection.                                             *)
LEMMA Fields ==
  ASSUME NEW s \in HttpdConnData
  PROVE  /\ s.len \in Int /\ s.received \in Nat /\ s.buffLen \in Nat
         /\ s.cgi \in {"NULL", "file", "upload"} /\ s.left \in Nat /\ s.opened \in BOOLEAN
         /\ s.upload \in UploadState /\ s.early \in BOOLEAN
         /\ s.flags \in SUBSET Flags /\ s.buff \in Seq(Piece)
         /\ s.backlog \in Seq(Seq(Piece)) /\ s.tx \in {"idle", "sending", "arrived"}
         /\ s.flight \in Seq(Piece) /\ s.req \in Forms \cup Files \cup FirmwareFiles
         /\ s.sent \in Nat /\ s.got \in Seq(Piece)
BY DEF HttpdConnData

(* A buffer that is not empty goes to the socket, or waits behind the one  *)
(* that is there (httpdFlushSendBuffer).                                   *)
LEMMA FlushIs ==
  ASSUME NEW s \in HttpdConnData, Free(s), Chunk(s) # <<>>
  PROVE  LET r == httpdFlushSendBuffer(s)
         IN  /\ r \in HttpdConnData /\ Alike(s, r) /\ r.buff = <<>>
             /\ \/ r.tx = "sending" /\ r.flight = Chunk(s) /\ r.backlog = <<>>
                \/ r.tx = "arrived" /\ r.backlog = <<Chunk(s)>> /\ r.flight = s.flight
<1> DEFINE ch == Chunk(s)
           r == httpdFlushSendBuffer(s)
<1>1. ch \in Seq(Piece)
  <2>1. s.buff \in Seq(Piece) BY Fields
  <2>2. <<"end">> \in Seq(Piece) /\ <<>> \in Seq(Piece) BY DEF Piece
  <2> QED BY <2>1, <2>2 DEF Chunk
<1>2. s.tx \in {"idle", "arrived"} /\ s.backlog = <<>> BY Fields DEF Free
<1>3. ~(Len(s.backlog) >= MAX_BACKLOG) BY <1>2, HttpdAssumption
<1>4. <<>> \in Seq(Piece) /\ <<ch>> \in Seq(Seq(Piece)) /\ Append(<<>>, ch) = <<ch>> BY <1>1
<1>5. CASE s.tx = "idle"
  <2>1. r = [s EXCEPT !.buff = <<>>, !.tx = "sending", !.flight = ch]
    BY <1>5 DEF httpdFlushSendBuffer
  <2> HIDE DEF r, ch
  <2>2. r \in HttpdConnData BY <1>1, <1>4, <2>1 DEF HttpdConnData
  <2>3. Alike(s, r) BY <2>1 DEF HttpdConnData, Alike
  <2>4. r.buff = <<>> /\ r.tx = "sending" /\ r.flight = ch /\ r.backlog = <<>>
    BY <1>2, <2>1 DEF HttpdConnData
  <2> QED BY <2>2, <2>3, <2>4 DEF r, ch
<1>6. CASE s.tx # "idle"
  <2>1. r = [s EXCEPT !.buff = <<>>, !.backlog = <<ch>>]
    BY <1>2, <1>3, <1>4, <1>6 DEF httpdFlushSendBuffer
  <2> HIDE DEF r, ch
  <2>2. r \in HttpdConnData BY <1>1, <1>4, <2>1 DEF HttpdConnData
  <2>3. Alike(s, r) BY <2>1 DEF HttpdConnData, Alike
  <2>4. r.buff = <<>> /\ r.tx = "arrived" /\ r.flight = s.flight /\ r.backlog = <<ch>>
    BY <1>2, <1>6, <2>1 DEF HttpdConnData
  <2> QED BY <2>2, <2>3, <2>4 DEF r, ch
<1> QED BY <1>5, <1>6

(* Nothing waits on a connection that is free.                             *)
LEMMA FreeProduced ==
  ASSUME NEW s \in HttpdConnData, Free(s)
  PROVE  Waiting(s) = <<>> /\ Produced(s) = s.got \o s.buff
<1>1. Waiting(s) = <<>> BY Fields DEF Waiting, Free
<1>2. s.got \in Seq(Piece) BY Fields
<1>3. s.got \o <<>> = s.got BY <1>2
<1> QED BY <1>1, <1>3 DEF Produced

(* What is sent of a buffer.                                               *)
LEMMA ChunkType ==
  ASSUME NEW s \in HttpdConnData
  PROVE  /\ Chunk(s) \in Seq(Piece)
         /\ Chunk(s) = <<>> => s.buff = <<>>
<1>1. s.buff \in Seq(Piece) BY Fields
<1>2. <<"end">> \in Seq(Piece) /\ <<>> \in Seq(Piece) BY DEF Piece
<1> QED BY <1>1, <1>2 DEF Chunk

(* Sending a buffer on a free connection produces what was in it.          *)
LEMMA Flush ==
  ASSUME NEW s \in HttpdConnData, Free(s)
  PROVE  LET r == httpdFlushSendBuffer(s)
         IN  /\ r \in HttpdConnData /\ Alike(s, r) /\ r.buff = <<>>
             /\ TxOK(r) /\ Produced(r) = s.got \o Chunk(s)
<1> DEFINE ch == Chunk(s)
           r == httpdFlushSendBuffer(s)
<1>1. s.got \in Seq(Piece) /\ ch \in Seq(Piece) BY Fields, ChunkType
<1>2. CASE ch = <<>>
  <2>1. r = s BY <1>2 DEF httpdFlushSendBuffer
  <2>2. s.buff = <<>> BY <1>2, ChunkType
  <2>3. TxOK(s) BY DEF TxOK, Free
  <2>4. Produced(s) = s.got \o ch BY <1>2, <2>2, FreeProduced
  <2> QED BY <2>1, <2>2, <2>3, <2>4 DEF Alike
<1>3. CASE ch # <<>>
  <2>1. /\ r \in HttpdConnData /\ Alike(s, r) /\ r.buff = <<>>
        /\ \/ r.tx = "sending" /\ r.flight = ch /\ r.backlog = <<>>
           \/ r.tx = "arrived" /\ r.backlog = <<ch>>
    BY <1>3, FlushIs
  <2> HIDE DEF r, ch
  <2>2. Waiting(r) = ch
    <3>1. ch \o <<>> = ch /\ <<>> \o ch = ch BY <1>1
    <3>2. Head(<<ch>>) = ch /\ <<ch>> # <<>> OBVIOUS
    <3> QED BY <2>1, <3>1, <3>2 DEF Waiting
  <2>3. TxOK(r)
    <3>1. Head(<<ch>>) = ch /\ <<ch>> # <<>> /\ Len(<<ch>>) = 1 OBVIOUS
    <3> QED BY <1>3, <2>1, <3>1 DEF TxOK
  <2>4. (s.got \o ch) \o <<>> = s.got \o ch BY <1>1
  <2>5. Produced(r) = s.got \o ch BY <2>1, <2>2, <2>4 DEF Produced, Alike
  <2> QED BY <2>1, <2>3, <2>5 DEF r, ch
<1> QED BY <1>2, <1>3

(* The end of an answer in chunks ...                                      *)
End(r) == IF r.keep THEN <<"end">> ELSE <<>>

(* What is alike when an answer has come to its end.                       *)
Same(s, r) ==
  /\ r.left = s.left /\ r.opened = s.opened /\ r.upload = s.upload /\ r.early = s.early
  /\ r.req = s.req /\ r.sent = s.sent /\ r.got = s.got

(* httpdCgiIsDone ends the answer, and makes the connection as new or      *)
(* marks it to be closed.                                                  *)
LEMMA DoneIs ==
  ASSUME NEW s \in HttpdConnData, Free(s), s.flags = Keeps(s.req) \cup {"SENDINGBODY"}
  PROVE  LET r == httpdCgiIsDone(s)
         IN  /\ r \in HttpdConnData /\ Same(s, r) /\ r.cgi = "NULL" /\ Done(r)
             /\ ~s.req.keep => r.len = s.len /\ r.received = s.received /\ r.buffLen = s.buffLen
             /\ TxOK(r) /\ (r.buff # <<>> => Free(r))
             /\ Produced(r) = s.got \o (s.buff \o End(s.req))
<1> DEFINE r == httpdCgiIsDone(s)
           t == [s EXCEPT !.cgi = "NULL"]
           w == httpdFlushSendBuffer(t)
<1>1. s.got \in Seq(Piece) /\ s.buff \in Seq(Piece) BY Fields
<1>2. CASE s.req.keep
  <2>1. s.flags = {"CHUNKED", "SENDINGBODY"} BY <1>2 DEF Keeps
  <2>2. /\ t \in HttpdConnData /\ t.flags = s.flags /\ t.cgi = "NULL" /\ t.buff = s.buff
        /\ t.got = s.got /\ t.tx = s.tx /\ t.backlog = s.backlog /\ Same(s, t)
    BY DEF HttpdConnData, Same
  <2>3. r = [w EXCEPT !.len = -1, !.received = 0, !.buffLen = 0, !.flags = {}]
    BY <2>1 DEF httpdCgiIsDone
  <2> HIDE DEF r, t
  <2>4. Free(t) BY <2>2 DEF Free
  <2>5. Chunk(t) = s.buff \o <<"end">> BY <2>1, <2>2 DEF Chunk
  <2>6. /\ w \in HttpdConnData /\ Alike(t, w) /\ w.buff = <<>>
        /\ TxOK(w) /\ Produced(w) = s.got \o (s.buff \o <<"end">>)
    BY <2>2, <2>4, <2>5, Flush
  <2> HIDE DEF w
  <2>7. /\ r \in HttpdConnData
        /\ r.len = -1 /\ r.received = 0 /\ r.buffLen = 0 /\ r.flags = {} /\ r.buff = <<>>
        /\ r.cgi = w.cgi /\ Same(w, r)
        /\ r.got = w.got /\ r.tx = w.tx /\ r.flight = w.flight /\ r.backlog = w.backlog
    <3>1. w \in HttpdConnData /\ -1 \in Int /\ {} \in SUBSET Flags BY <2>6
    <3>2. r \in HttpdConnData BY <2>3, <3>1 DEF HttpdConnData
    <3>3. r.len = -1 /\ r.received = 0 /\ r.buffLen = 0 /\ r.flags = {}
      BY <2>3, <3>1 DEF HttpdConnData
    <3>4. r.buff = w.buff /\ r.cgi = w.cgi /\ Same(w, r)
      BY <2>3, <3>1 DEF HttpdConnData, Same
    <3>5. r.got = w.got /\ r.tx = w.tx /\ r.flight = w.flight /\ r.backlog = w.backlog
      BY <2>3, <3>1 DEF HttpdConnData
    <3> QED BY <2>6, <3>2, <3>3, <3>4, <3>5
  <2>8. TxOK(r) /\ Produced(r) = Produced(w)
    BY <2>6, <2>7 DEF TxOK, Produced, Waiting
  <2>9. Same(s, r) /\ r.cgi = "NULL"
    BY <2>2, <2>6, <2>7 DEF Same, Alike
  <2>10. End(s.req) = <<"end">> BY <1>2 DEF End
  <2> QED BY <1>2, <2>6, <2>7, <2>8, <2>9, <2>10 DEF Done, Same, r
<1>3. CASE ~s.req.keep
  <2>1. s.flags = {"SENDINGBODY"} BY <1>3 DEF Keeps
  <2>2. r = [s EXCEPT !.cgi = "NULL", !.flags = {"SENDINGBODY", "DISCONAFTERSENT"}]
    BY <2>1 DEF httpdCgiIsDone
  <2> HIDE DEF r
  <2>3. {"SENDINGBODY", "DISCONAFTERSENT"} \in SUBSET Flags BY DEF Flags
  <2>4. r \in HttpdConnData BY <2>2, <2>3 DEF HttpdConnData
  <2>5. /\ Same(s, r) /\ r.cgi = "NULL" /\ r.flags = {"SENDINGBODY", "DISCONAFTERSENT"}
        /\ r.len = s.len /\ r.received = s.received /\ r.buffLen = s.buffLen
        /\ r.buff = s.buff /\ r.tx = s.tx /\ r.backlog = s.backlog
    BY <2>2 DEF HttpdConnData, Same
  <2>6. Free(r) BY <2>5 DEF Free
  <2>7. Produced(r) = s.got \o s.buff BY <2>4, <2>5, <2>6, FreeProduced DEF Same
  <2>8. s.buff \o End(s.req) = s.buff BY <1>1, <1>3 DEF End
  <2>9. TxOK(r) BY <2>6 DEF TxOK, Free
  <2>10. Done(r) BY <1>3, <2>5 DEF Done, Same
  <2> QED BY <2>4, <2>5, <2>6, <2>7, <2>8, <2>9, <2>10, <1>3 DEF r
<1>4. s.req.keep \in BOOLEAN BY Fields DEF Forms, Files, FirmwareFiles
<1> QED BY <1>2, <1>3, <1>4

-----------------------------------------------------------------------------
(* The answers.                                                            *)

(* ... and of a file whose last block is short.                            *)
Last(r) == IF r.tail THEN <<"block">> ELSE <<>>

(* The requests a browser may send.                                        *)
LEMMA Requests ==
  ASSUME NEW r \in Forms \cup Files \cup FirmwareFiles
  PROVE  /\ r.keep \in BOOLEAN /\ r.blocks \in Nat /\ r.body \in Nat /\ r.image \in Images
         /\ r.kind \in {"short", "file", "upload"} /\ r.tail \in BOOLEAN
         /\ r.kind = "short" => r.blocks = 0 /\ ~r.tail /\ r.body \in 0..MAX_POST
         /\ r.kind = "file" => r.body = 0
         /\ r.kind = "upload" => r.blocks = 0 /\ ~r.tail
<1>1. NoImage \in Images BY DEF NoImage, Image, Images
<1>2. MAX_POST \in Nat BY HttpdAssumption
<1>3. CASE r \in Forms
  <2>1. /\ r.kind = "short" /\ r.blocks = 0 /\ r.tail \in {FALSE} /\ r.image = NoImage
        /\ r.body \in 0..MAX_POST /\ r.keep \in BOOLEAN
    BY <1>3 DEF Forms
  <2>2. r.body \in Nat BY <1>2, <2>1
  <2>3. ~r.tail /\ r.tail \in BOOLEAN BY <2>1, Zenon
  <2> QED BY <1>1, <2>1, <2>2, <2>3
<1>4. CASE r \in Files
  <2>1. /\ r.kind = "file" /\ r.blocks \in Nat /\ r.tail \in BOOLEAN /\ r.image = NoImage
        /\ r.body = 0 /\ r.keep \in BOOLEAN
    BY <1>4 DEF Files
  <2> QED BY <1>1, <2>1
<1>5. CASE r \in FirmwareFiles
  <2>1. /\ r.kind = "upload" /\ r.blocks = 0 /\ r.tail \in {FALSE} /\ r.image \in Images
        /\ r.body \in Nat /\ r.keep \in BOOLEAN
    BY <1>5 DEF FirmwareFiles
  <2>2. ~r.tail /\ r.tail \in BOOLEAN BY <2>1, Zenon
  <2> QED BY <2>1, <2>2
<1> QED BY <1>3, <1>4, <1>5

(* The blocks of a file, one by one.                                       *)
LEMMA BlocksAre ==
  ASSUME NEW n \in Nat
  PROVE  /\ Blocks(n) \in Seq(Piece) /\ Len(Blocks(n)) = n /\ Blocks(0) = <<>>
         /\ Blocks(n) \o <<"block">> = Blocks(n + 1)
<1>1. "block" \in Piece BY DEF Piece
<1>2. \A m \in Nat : Blocks(m) \in Seq(Piece) /\ Len(Blocks(m)) = m /\ \A i \in 1..m : Blocks(m)[i] = "block"
  BY <1>1 DEF Blocks
<1>3. <<"block">> \in Seq(Piece) BY <1>1
<1>4. Blocks(0) = <<>> BY <1>2
<1> DEFINE a == Blocks(n) \o <<"block">>
           b == Blocks(n + 1)
<1>5. n + 1 \in Nat /\ b \in Seq(Piece) /\ Len(b) = n + 1 BY <1>2
<1>6. a \in Seq(Piece) /\ Len(a) = n + 1 BY <1>2, <1>3
<1>7. ASSUME NEW i \in 1..n + 1 PROVE a[i] = b[i]
  <2>1. b[i] = "block" BY <1>2, <1>5
  <2>2. CASE i \in 1..n
    <3>1. a[i] = Blocks(n)[i] BY <1>2, <1>3, <2>2, Joined
    <3> QED BY <1>2, <2>1, <2>2, <3>1
  <2>3. CASE i = n + 1
    <3>1. a[i] = <<"block">>[1]
      <4>1. 1 \in 1..Len(<<"block">>) /\ Len(Blocks(n)) + 1 = n + 1 BY <1>2
      <4> QED BY <1>2, <1>3, <2>3, <4>1, Joined
    <3> QED BY <2>1, <3>1
  <2>4. i \in 1..n \/ i = n + 1 OBVIOUS
  <2> QED BY <2>2, <2>3, <2>4
<1> HIDE DEF a, b
<1>8. a = b BY <1>5, <1>6, <1>7
<1> QED BY <1>2, <1>4, <1>8 DEF a, b

(* The end of an answer, put together in another order.                    *)
LEMMA Regroup ==
  ASSUME NEW x \in Seq(Piece), NEW y \in Seq(Piece), NEW z \in Seq(Piece), NEW w \in Seq(Piece)
  PROVE  ((x \o (y \o z)) \o <<>>) \o w = (x \o y) \o (z \o w)
<1>1. x \o (y \o z) = (x \o y) \o z BY ConcatAssociative
<1>2. x \o y \in Seq(Piece) BY Joined
<1>3. (x \o y) \o z \in Seq(Piece) BY <1>2, Joined
<1> DEFINE v == (x \o y) \o z
<1>4. v \o <<>> = v
  <2> HIDE DEF v
  <2> QED BY <1>3 DEF v
<1>5. ((x \o y) \o z) \o w = (x \o y) \o (z \o w) BY <1>2, ConcatAssociative
<1> QED BY <1>1, <1>4, <1>5

(* An answer with a head is not empty.                                     *)
LEMMA NotEmpty ==
  ASSUME NEW h \in Seq(Piece), NEW b \in Seq(Piece), NEW e \in Seq(Piece), NEW t \in Seq(Piece),
         Len(h) = 1
  PROVE  ((h \o b) \o e) \o t \in Seq(Piece) /\ ((h \o b) \o e) \o t # <<>>
<1>1. h \o b \in Seq(Piece) /\ Len(h \o b) = Len(h) + Len(b) BY Joined
<1>2. (h \o b) \o e \in Seq(Piece) /\ Len((h \o b) \o e) = Len(h \o b) + Len(e)
  BY <1>1, Joined
<1>3. /\ ((h \o b) \o e) \o t \in Seq(Piece)
      /\ Len(((h \o b) \o e) \o t) = Len((h \o b) \o e) + Len(t)
  BY <1>2, Joined
<1>4. Len(b) \in Nat /\ Len(e) \in Nat /\ Len(t) \in Nat OBVIOUS
<1> QED BY <1>1, <1>2, <1>3, <1>4

(* The answer to each kind of request.                                     *)
LEMMA AnswerIs ==
  ASSUME NEW r \in Forms \cup Files \cup FirmwareFiles
  PROVE  /\ Answer(r) \in Seq(Piece) /\ Answer(r) # <<>>
         /\ r.kind = "short" => Answer(r) = <<"head">> \o End(r)
         /\ r.kind = "file" =>
              Answer(r) = (<<"head">> \o Blocks(r.blocks)) \o (Last(r) \o End(r))
         /\ r.kind = "upload" =>
              Answer(r) = (<<IF r.body > 0 /\ Rejected(r.image) THEN "head400" ELSE "head">>
                            \o (IF Complete(r.image) THEN <<>> ELSE <<"error">>)) \o End(r)
<1> DEFINE h == <<IF r.kind = "upload" /\ r.body > 0 /\ Rejected(r.image)
                  THEN "head400" ELSE "head">>
           n == r.blocks + (IF r.tail THEN 1 ELSE 0)
           e == IF r.kind = "upload" /\ ~Complete(r.image) THEN <<"error">> ELSE <<>>
<1>1. /\ h \in Seq(Piece) /\ e \in Seq(Piece) /\ End(r) \in Seq(Piece)
      /\ Last(r) \in Seq(Piece) /\ Len(h) = 1
  <2>1. h \in Seq(Piece) /\ Len(h) = 1 BY DEF Piece
  <2>2. <<>> \in Seq(Piece) OBVIOUS
  <2>3. e \in Seq(Piece) BY <2>2 DEF Piece
  <2>4. <<"end">> \in Seq(Piece) /\ <<"block">> \in Seq(Piece) BY DEF Piece
  <2>5. End(r) \in Seq(Piece) BY <2>2, <2>4 DEF End
  <2>6. Last(r) \in Seq(Piece) BY <2>2, <2>4 DEF Last
  <2> QED BY <2>1, <2>3, <2>5, <2>6
<1>2. Answer(r) = ((h \o Blocks(n)) \o e) \o End(r) BY DEF Answer, Blocks, End
<1>3. r.blocks \in Nat /\ n \in Nat /\ r.tail \in BOOLEAN BY Requests
<1>4. Blocks(n) \in Seq(Piece) /\ Blocks(r.blocks) \in Seq(Piece) BY <1>3, BlocksAre
<1>5. Answer(r) \in Seq(Piece) /\ Answer(r) # <<>>
  <2> HIDE DEF h, n, e
  <2> QED BY <1>1, <1>2, <1>4, NotEmpty
<1>6. ASSUME r.kind = "file"
      PROVE  Answer(r) = (<<"head">> \o Blocks(r.blocks)) \o (Last(r) \o End(r))
  <2>1. h = <<"head">> /\ e = <<>> BY <1>6
  <2>2. Blocks(n) = Blocks(r.blocks) \o Last(r)
    <3>1. CASE r.tail BY <1>3, <3>1, BlocksAre DEF Last
    <3>2. CASE ~r.tail
      <4>1. n = r.blocks /\ Blocks(r.blocks) \o <<>> = Blocks(r.blocks) BY <1>3, <1>4, <3>2
      <4> QED BY <3>2, <4>1 DEF Last
    <3> QED BY <1>3, <3>1, <3>2
  <2>3. PICK p, b, l, t : /\ p \in Seq(Piece) /\ b \in Seq(Piece) /\ l \in Seq(Piece) /\ t \in Seq(Piece)
                          /\ p = <<"head">> /\ b = Blocks(r.blocks) /\ l = Last(r) /\ t = End(r)
    BY <1>1, <1>4, <2>1
  <2>4. Answer(r) = ((p \o (b \o l)) \o <<>>) \o t BY <1>2, <2>1, <2>2, <2>3
  <2>5. ((p \o (b \o l)) \o <<>>) \o t = (p \o b) \o (l \o t)
    <3> DEFINE Regrouped(x, y, z, w) == ((x \o (y \o z)) \o <<>>) \o w = (x \o y) \o (z \o w)
    <3>1. \A x, y, z, w \in Seq(Piece) : Regrouped(x, y, z, w) BY Regroup, Zenon
    <3> HIDE DEF Regrouped
    <3>2. p \in Seq(Piece) /\ b \in Seq(Piece) /\ l \in Seq(Piece) /\ t \in Seq(Piece)
      BY <2>3, Zenon
    <3>3. Regrouped(p, b, l, t) BY <3>1, <3>2, Zenon
    <3> QED BY <3>3, Zenon DEF Regrouped
  <2> QED BY <2>3, <2>4, <2>5
<1>7. ASSUME r.kind # "file" PROVE Answer(r) = (h \o e) \o End(r)
  <2>1. n = 0 BY <1>7, Requests
  <2>2. Blocks(n) = <<>> BY <2>1, BlocksAre
  <2> HIDE DEF h, n, e
  <2>3. \A x, y, w \in Seq(Piece) : ((x \o <<>>) \o y) \o w = (x \o y) \o w
    OBVIOUS
  <2> QED BY <1>1, <1>2, <2>2, <2>3
<1>8. ASSUME r.kind = "short" PROVE Answer(r) = <<"head">> \o End(r)
  <2>1. h = <<"head">> /\ e = <<>> /\ r.kind # "file" BY <1>8
  <2>2. <<"head">> \o <<>> = <<"head">> OBVIOUS
  <2> QED BY <1>7, <2>1, <2>2
<1>9. ASSUME r.kind = "upload" PROVE Answer(r) =
              (<<IF r.body > 0 /\ Rejected(r.image) THEN "head400" ELSE "head">>
                            \o (IF Complete(r.image) THEN <<>> ELSE <<"error">>)) \o End(r)
  BY <1>7, <1>9
<1> QED BY <1>5, <1>6, <1>8, <1>9

-----------------------------------------------------------------------------
(* The handlers.                                                           *)

(* What an answer leaves alone until it has come to its end.               *)
Beside(s, r) ==
  /\ r.len = s.len /\ r.received = s.received /\ r.buffLen = s.buffLen
  /\ r.tx = s.tx /\ r.backlog = s.backlog

(* httpdStartResponse and httpdEndHeaders put the head in the buffer.      *)
LEMMA StartIs ==
  ASSUME NEW s \in HttpdConnData, s.buff = <<>>, s.flags = Keeps(s.req), NEW status \in Piece
  PROVE  LET r == StartResponse(s, status)
         IN  /\ r \in HttpdConnData /\ Same(s, r) /\ Beside(s, r) /\ r.cgi = s.cgi
             /\ r.buff = <<status>> /\ r.flags = Keeps(s.req) \cup {"SENDINGBODY"}
<1> DEFINE r == StartResponse(s, status)
           fl == Keeps(s.req) \cup {"SENDINGBODY"}
<1>1. fl \in SUBSET Flags BY DEF Keeps, Flags
<1>2. <<status>> \in Seq(Piece) /\ <<>> \o <<status>> = <<status>> OBVIOUS
<1>3. r = [s EXCEPT !.buff = <<status>>, !.flags = fl]
  <2>1. Send(s, <<status>>) = [s EXCEPT !.buff = <<status>>] BY <1>2 DEF Send
  <2>2. s.flags \cup {"SENDINGBODY"} = fl OBVIOUS
  <2>3. [s EXCEPT !.buff = <<status>>].flags = s.flags BY DEF HttpdConnData
  <2> HIDE DEF fl
  <2> QED BY <2>1, <2>2, <2>3 DEF StartResponse, HttpdConnData
<1> HIDE DEF r, fl
<1>4. r \in HttpdConnData BY <1>1, <1>2, <1>3 DEF HttpdConnData
<1>5. Same(s, r) /\ Beside(s, r) /\ r.cgi = s.cgi BY <1>3 DEF HttpdConnData, Same, Beside
<1>6. r.buff = <<status>> /\ r.flags = fl BY <1>3 DEF HttpdConnData
<1> QED BY <1>4, <1>5, <1>6 DEF r, fl

(* r is s with x added to the buffer.                                      *)
SendsTo(s, x, r) ==
  /\ r \in HttpdConnData /\ Same(s, r) /\ Beside(s, r) /\ r.cgi = s.cgi
  /\ r.flags = s.flags /\ r.buff = s.buff \o x

(* httpdSend adds to the buffer.                                           *)
LEMMA SendIs ==
  ASSUME NEW s \in HttpdConnData, NEW x \in Seq(Piece)
  PROVE  SendsTo(s, x, Send(s, x))
<1> DEFINE r == Send(s, x)
           b == s.buff \o x
<1>1. b \in Seq(Piece) BY Fields, Joined
<1>2. r = [s EXCEPT !.buff = b] BY DEF Send
<1> HIDE DEF b, r
<1>3. r \in HttpdConnData BY <1>1, <1>2 DEF HttpdConnData
<1>4. Same(s, r) /\ Beside(s, r) /\ r.cgi = s.cgi BY <1>2 DEF HttpdConnData, Same, Beside
<1>5. r.flags = s.flags /\ r.buff = b BY <1>2 DEF HttpdConnData
<1> QED BY <1>3, <1>4, <1>5 DEF b, r, SendsTo

(* A file that is closed changes nothing else.                             *)
LEMMA CloseIs ==
  ASSUME NEW s \in HttpdConnData
  PROVE  LET r == [s EXCEPT !.opened = FALSE]
         IN  /\ r \in HttpdConnData /\ Beside(s, r) /\ r.cgi = s.cgi /\ r.buff = s.buff
             /\ r.flags = s.flags /\ ~r.opened /\ r.left = s.left /\ r.upload = s.upload
             /\ r.early = s.early /\ r.req = s.req /\ r.sent = s.sent /\ r.got = s.got
BY DEF HttpdConnData, Beside

(* A handler of an upload is about to be called.                           *)
InBlock(s) ==
  /\ s.req.kind = "upload" /\ s.req.body = s.req.image.size /\ Silent(s)
  /\ s.cgi = "upload" /\ s.opened /\ s.left = 0 /\ s.flags = Keeps(s.req)
  /\ s.len = s.req.body /\ s.received <= s.req.body /\ s.buffLen <= s.received
  /\ s.sent = HEAD + s.received
  /\ s.early \/ Good(s.req.image, s.upload, s.received - s.buffLen)

(* The post buffer of an upload holds the words of the file that come      *)
(* next.                                                                   *)
LEMMA PostBufferIs ==
  ASSUME NEW s \in HttpdConnData, InBlock(s)
  PROVE  /\ PostBuffer(s) \in Seq(Int) /\ Len(PostBuffer(s)) = s.buffLen
         /\ IsBlock(s.req.image, PostBuffer(s), s.received - s.buffLen)
<1>1. PICK n \in Nat, k \in Nat, z \in {s.req.image.size} : n = s.received /\ k = s.buffLen
  BY Fields
<1>2. k <= n /\ n <= z BY <1>1 DEF InBlock
<1> DEFINE d == [i \in 1..k |-> n - k + i]
<1>3. PostBuffer(s) = d BY <1>1 DEF PostBuffer
<1>4. d \in Seq(Int) /\ Len(d) = k /\ \A i \in 1..k : d[i] = (n - k) + i BY <1>1
<1> HIDE DEF d
<1>5. (n - k) + k <= z
  <2>1. (n - k) + k = n BY <1>1
  <2> QED BY <1>2, <2>1
<1> QED BY <1>1, <1>3, <1>4, <1>5 DEF IsBlock

(* The upload after a call of the handler.                                 *)
LEMMA UploadIs ==
  ASSUME NEW s \in HttpdConnData, Sane(s.upload), InBlock(s)
  PROVE  LET u == cgiUploadFirmware(s.req.image, s.upload, PostBuffer(s))
         IN  Sane(u) /\ (s.early \/ Good(s.req.image, u, s.received))
<1> DEFINE u == cgiUploadFirmware(s.req.image, s.upload, PostBuffer(s))
<1>1. s.req.image \in Images BY Fields, Requests
<1>2. PostBuffer(s) \in Seq(Int) BY PostBufferIs
<1>3. Sane(u) BY <1>1, <1>2, LoopType
<1>4. ASSUME ~s.early PROVE Good(s.req.image, u, s.received)
  <2>1. PICK n \in Nat, k \in Nat : n = s.received /\ k = s.buffLen BY Fields
  <2>2. n - k \in Nat /\ (n - k) + k = n BY <2>1 DEF InBlock
  <2>3. Good(s.req.image, s.upload, n - k) BY <1>4, <2>1 DEF InBlock
  <2>4. IsBlock(s.req.image, PostBuffer(s), n - k) /\ Len(PostBuffer(s)) = k
    BY <2>1, PostBufferIs
  <2> HIDE DEF u
  <2>5. Good(s.req.image, u, (n - k) + Len(PostBuffer(s)))
    BY <1>1, <2>2, <2>3, <2>4, LoopGood DEF u
  <2> QED BY <2>1, <2>2, <2>4, <2>5
<1> QED BY <1>3, <1>4

(* Nothing before the first piece of an answer.                            *)
LEMMA SilentProduced ==
  ASSUME NEW s \in HttpdConnData, s.got = <<>>, NEW x \in Seq(Piece), NEW p, p = s.got \o x
  PROVE  p = x
OBVIOUS

(* The handler of an upload, called with a block that is not the last ...  *)
LEMMA UploadMore ==
  ASSUME NEW s \in HttpdConnData, Sane(s.upload), InBlock(s), s.received # s.len
  PROVE  LET r == UploadBlock(s)
         IN  /\ Steady(r) /\ Silent(r) /\ r.len = s.len /\ r.received = s.received
             /\ r.buffLen = s.buffLen /\ r.cgi = s.cgi /\ r.left = s.left
             /\ r.opened = s.opened /\ r.early = s.early /\ r.flags = s.flags
             /\ r.req = s.req /\ r.sent = s.sent
             /\ s.early \/ Good(s.req.image, r.upload, s.received)
<1> DEFINE u == cgiUploadFirmware(s.req.image, s.upload, PostBuffer(s))
           r == UploadBlock(s)
<1>1. Sane(u) /\ (s.early \/ Good(s.req.image, u, s.received)) BY UploadIs
<1>2. r = [s EXCEPT !.upload = u] BY DEF UploadBlock
<1> HIDE DEF u, r
<1>3. r \in HttpdConnData BY <1>1, <1>2 DEF HttpdConnData, Sane
<1>4. /\ r.len = s.len /\ r.received = s.received /\ r.buffLen = s.buffLen /\ r.cgi = s.cgi
      /\ r.left = s.left /\ r.opened = s.opened /\ r.early = s.early /\ r.flags = s.flags
      /\ r.req = s.req /\ r.sent = s.sent
  BY <1>2 DEF HttpdConnData
<1>5. /\ r.upload = u /\ r.tx = s.tx /\ r.backlog = s.backlog /\ r.buff = s.buff
      /\ r.got = s.got
  BY <1>2 DEF HttpdConnData
<1>6. Silent(r) BY <1>5 DEF InBlock, Silent, Free
<1>7. Steady(r) BY <1>1, <1>3, <1>5, <1>6 DEF Steady, Silent, TxOK, Free
<1> QED BY <1>1, <1>4, <1>5, <1>6, <1>7 DEF r

(* ... and with the last one: it has answered and is done.                 *)
LEMMA UploadEnds ==
  ASSUME NEW s \in HttpdConnData, Sane(s.upload), InBlock(s), s.received = s.len
  PROVE  LET r == UploadBlock(s)
         IN  Steady(r) /\ Answering(r) /\ r.req = s.req /\ r.sent = s.sent
             /\ r.buffLen \in {0, s.buffLen}
<1> DEFINE f == s.req.image
           u == cgiUploadFirmware(f, s.upload, PostBuffer(s))
           status == IF u.state = "ERROR" THEN "head400" ELSE "head"
           x == IF u.state = "DONE" THEN <<>> ELSE <<"error">>
           t == [s EXCEPT !.upload = u]
           v == StartResponse(t, status)
           w == Send(v, x)
           y == [w EXCEPT !.opened = FALSE]
           r == UploadBlock(s)
<1>1. Sane(u) /\ (s.early \/ Good(f, u, s.received)) BY UploadIs
<1>2. r = httpdCgiIsDone(y) BY DEF UploadBlock
<1>3. status \in Piece /\ <<status>> \in Seq(Piece) BY DEF Piece
<1>4. x \in Seq(Piece)
  <2>1. <<>> \in Seq(Piece) /\ <<"error">> \in Seq(Piece) BY DEF Piece
  <2> QED BY <2>1
<1> HIDE DEF u, x, status
<1>5. /\ t \in HttpdConnData /\ Beside(s, t) /\ t.cgi = s.cgi /\ t.buff = s.buff
      /\ t.flags = s.flags /\ t.opened = s.opened /\ t.left = s.left /\ t.upload = u
      /\ t.early = s.early /\ t.req = s.req /\ t.sent = s.sent /\ t.got = s.got
  BY <1>1 DEF HttpdConnData, Beside, Sane
<1> HIDE DEF t
<1>6. t.buff = <<>> /\ t.flags = Keeps(t.req) BY <1>5 DEF InBlock, Silent
<1>7. /\ v \in HttpdConnData /\ Same(t, v) /\ Beside(t, v) /\ v.cgi = t.cgi
      /\ v.buff = <<status>> /\ v.flags = Keeps(t.req) \cup {"SENDINGBODY"}
  BY <1>3, <1>5, <1>6, StartIs
<1> HIDE DEF v
<1>8. SendsTo(v, x, w) BY <1>4, <1>7, SendIs
<1> HIDE DEF w
<1>9. w \in HttpdConnData BY <1>8 DEF SendsTo
<1>10. /\ y \in HttpdConnData /\ Beside(w, y) /\ y.cgi = w.cgi /\ y.buff = w.buff
       /\ y.flags = w.flags /\ ~y.opened /\ y.left = w.left /\ y.upload = w.upload
       /\ y.early = w.early /\ y.req = w.req /\ y.sent = w.sent /\ y.got = w.got
  BY <1>9, CloseIs
<1> HIDE DEF y
<1>11. /\ Beside(s, y) /\ y.cgi = "upload" /\ y.buff = <<status>> \o x
       /\ y.flags = Keeps(s.req) \cup {"SENDINGBODY"} /\ ~y.opened /\ y.left = 0
       /\ y.upload = u /\ y.early = s.early /\ y.req = s.req /\ y.sent = s.sent
       /\ y.got = <<>>
  BY <1>5, <1>7, <1>8, <1>10 DEF SendsTo, Same, Beside, InBlock, Silent
<1>12. Free(y) BY <1>11 DEF Beside, InBlock, Silent, Free
<1>13. /\ r \in HttpdConnData /\ Same(y, r) /\ r.cgi = "NULL" /\ Done(r)
       /\ ~y.req.keep => r.len = y.len /\ r.received = y.received /\ r.buffLen = y.buffLen
       /\ TxOK(r) /\ (r.buff # <<>> => Free(r))
       /\ Produced(r) = y.got \o (y.buff \o End(y.req))
  BY <1>2, <1>10, <1>11, <1>12, DoneIs
<1> HIDE DEF r
<1>14. Steady(r) BY <1>1, <1>11, <1>13 DEF Steady, Same
<1>15. s.received = s.req.body /\ s.req.body = f.size /\ s.sent = HEAD + s.req.body
  BY DEF InBlock
<1>16. r.sent = Pieces(r.req) BY <1>11, <1>13, <1>15 DEF Same, Pieces
<1>17. Unused(r) BY <1>11, <1>13 DEF Same, Unused
<1>18. /\ ~r.req.keep => r.len = r.req.body /\ r.received = r.req.body /\ r.buffLen = s.buffLen
       /\ r.req.keep => r.buffLen = 0
  BY <1>11, <1>13, <1>15 DEF Same, Beside, InBlock, Done
<1>19. s.req \in Forms \cup Files \cup FirmwareFiles /\ f \in Images
  BY Fields, Requests
<1>20. Produced(r) = (<<status>> \o x) \o End(s.req)
  <2>1. End(s.req) \in Seq(Piece)
    <3>1. <<"end">> \in Seq(Piece) /\ <<>> \in Seq(Piece) BY DEF Piece
    <3> QED BY <3>1 DEF End
  <2>2. (<<status>> \o x) \o End(s.req) \in Seq(Piece) BY <1>3, <1>4, <2>1, Joined
  <2> QED BY <1>11, <1>13, <2>2, SilentProduced
<1>21. ASSUME ~s.early PROVE Produced(r) = Answer(r.req)
  <2>1. Good(f, u, f.size) /\ u \in UploadState BY <1>1, <1>15, <1>21 DEF Sane
  <2>2. /\ u.state = "DONE" <=> Complete(f)
        /\ u.state = "ERROR" <=> f.size > 0 /\ Rejected(f)
    BY <1>19, <2>1, GoodAtEnd
  <2>3. status = IF s.req.body > 0 /\ Rejected(f) THEN "head400" ELSE "head"
    BY <1>15, <2>2 DEF status
  <2>4. x = IF Complete(f) THEN <<>> ELSE <<"error">> BY <2>2 DEF x
  <2>5. Answer(s.req) = (<<status>> \o x) \o End(s.req)
    BY <1>19, <2>3, <2>4, AnswerIs DEF InBlock
  <2> QED BY <1>11, <1>13, <1>20, <2>5 DEF Same
<1>22. ASSUME s.early PROVE r.early /\ r.got = <<>>
  BY <1>11, <1>13, <1>22 DEF Same
<1>23. r.req.kind = "upload" /\ ~r.early => Good(r.req.image, r.upload, r.req.body)
  BY <1>1, <1>11, <1>13, <1>15 DEF Same
<1>24. Answering(r)
  BY <1>13, <1>16, <1>17, <1>18, <1>21, <1>22, <1>23 DEF Answering
<1>25. r.req = s.req /\ r.sent = s.sent BY <1>11, <1>13 DEF Same
<1> QED BY <1>14, <1>18, <1>24, <1>25, <1>19, Requests DEF r

-----------------------------------------------------------------------------
(* A request is processed.                                                 *)

(* A buffer is sent as it is while the answer has not ended.               *)
LEMMA NoEndIsDue ==
  ASSUME NEW s \in HttpdConnData, Phase(s)
  PROVE  Chunk(s) = s.buff
<1>1. ~({"CHUNKED", "SENDINGBODY"} \subseteq s.flags /\ s.cgi = "NULL")
  <2>1. CASE Receiving(s) BY <2>1 DEF Receiving
  <2>2. CASE Reading(s) \/ Uploading(s)
    <3>1. s.flags \subseteq {"CHUNKED"} BY <2>2 DEF Reading, Uploading, InBody, Keeps
    <3> QED BY <3>1
  <2>3. CASE Filing(s) BY <2>3 DEF Filing
  <2>4. CASE Answering(s)
    <3>1. s.flags \subseteq {"SENDINGBODY", "DISCONAFTERSENT"} BY <2>4 DEF Answering, Done
    <3> QED BY <3>1
  <2> QED BY <2>1, <2>2, <2>3, <2>4 DEF Phase
<1>2. s.buff \o <<>> = s.buff BY Fields
<1> QED BY <1>1, <1>2 DEF Chunk

(* Sending the buffer changes no phase.                                    *)
LEMMA FlushSteady ==
  ASSUME NEW s, Steady(s), Phase(s)
  PROVE  LET r == httpdFlushSendBuffer(s)
         IN  Steady(r) /\ Phase(r) /\ r.buff = <<>> /\ Alike(s, r)
<1> DEFINE r == httpdFlushSendBuffer(s)
<1>1. s \in HttpdConnData /\ Chunk(s) = s.buff BY NoEndIsDue DEF Steady
<1>2. CASE s.buff = <<>>
  <2>1. r = s BY <1>1, <1>2 DEF httpdFlushSendBuffer
  <2> QED BY <1>2, <2>1 DEF Alike
<1>3. CASE s.buff # <<>>
  <2>1. Free(s) BY <1>3 DEF Steady
  <2>2. /\ r \in HttpdConnData /\ Alike(s, r) /\ r.buff = <<>> /\ TxOK(r)
        /\ Produced(r) = s.got \o s.buff
    BY <1>1, <2>1, Flush
  <2> HIDE DEF r
  <2>3. Produced(r) = Produced(s) BY <1>1, <2>1, <2>2, FreeProduced
  <2>4. Steady(r) BY <2>2 DEF Steady, Alike
  <2>5. CASE Filing(s)
    <3>1. Filing(r) BY <2>2, <2>3, <2>5 DEF Filing, Alike
    <3>2. Phase(r) BY <3>1 DEF Phase
    <3> QED BY <2>2, <2>4, <3>2 DEF r
  <2>6. CASE Answering(s)
    <3>1. ~s.req.keep BY <1>3, <2>6 DEF Answering, Done
    <3>2. Unused(r) /\ Done(r)
      BY <2>2, <2>6, <3>1 DEF Answering, Alike, Unused, Done
    <3>3. Answering(r) BY <2>2, <2>3, <2>6, <3>1, <3>2 DEF Answering, Alike
    <3>4. Phase(r) BY <3>3 DEF Phase
    <3> QED BY <2>2, <2>4, <3>4 DEF r
  <2>7. Filing(s) \/ Answering(s)
    BY <1>3 DEF Phase, Receiving, Reading, Uploading, InBody, Silent
  <2> QED BY <2>2, <2>4, <2>5, <2>6, <2>7
<1> QED BY <1>2, <1>3

(* A request has been received, or the first block of an upload.           *)
Asked(s) ==
  /\ s \in HttpdConnData /\ Sane(s.upload) /\ Unused(s) /\ Silent(s) /\ ~s.early
  /\ s.upload = UploadStart /\ s.flags = Keeps(s.req)
  /\ s.len = s.req.body /\ s.received <= s.req.body /\ s.buffLen = s.received
  /\ s.sent = HEAD + s.received
  /\ IF s.req.kind = "upload" THEN s.req.body = s.req.image.size ELSE s.received = s.req.body

(* An upload whose handler has been called with a whole block.             *)
BlockTaken(s) ==
  /\ s.req.kind = "upload" /\ Silent(s)
  /\ s.cgi = "upload" /\ s.opened /\ s.left = 0 /\ s.flags = Keeps(s.req)
  /\ s.len = s.req.body /\ s.received < s.req.body
  /\ s.sent = HEAD + s.received
  /\ s.early \/ Good(s.req.image, s.upload, s.received)

(* What httpdProcessRequest has made of s.                                 *)
Processed(s, r) ==
  /\ Steady(r) /\ r.req = s.req /\ r.sent = s.sent /\ r.buffLen \in {0, s.buffLen}
  /\ IF s.received = s.req.body THEN Filing(r) \/ Answering(r) ELSE BlockTaken(r)

(* httpdProcessRequest for a form: answered at once.                       *)
LEMMA FormProcessed ==
  ASSUME NEW s, Asked(s), s.req.kind = "short"
  PROVE  Processed(s, httpdProcessRequest(s))
<1> DEFINE r == httpdProcessRequest(s)
           t == StartResponse(s, "head")
<1>1. r = httpdCgiIsDone(t) BY Zenon DEF httpdProcessRequest
<1>2. s \in HttpdConnData /\ s.buff = <<>> /\ s.flags = Keeps(s.req) /\ "head" \in Piece
  BY DEF Asked, Silent, Piece
<1>3. /\ t \in HttpdConnData /\ Same(s, t) /\ Beside(s, t) /\ t.cgi = s.cgi
      /\ t.buff = <<"head">> /\ t.flags = Keeps(s.req) \cup {"SENDINGBODY"}
  BY <1>2, StartIs
<1> HIDE DEF t, r
<1>4. Free(t) /\ t.req = s.req BY <1>3 DEF Asked, Silent, Free, Same, Beside
<1>5. /\ r \in HttpdConnData /\ Same(t, r) /\ r.cgi = "NULL" /\ Done(r)
      /\ ~t.req.keep => r.len = t.len /\ r.received = t.received /\ r.buffLen = t.buffLen
      /\ TxOK(r) /\ (r.buff # <<>> => Free(r))
      /\ Produced(r) = t.got \o (t.buff \o End(t.req))
  BY <1>1, <1>3, <1>4, DoneIs
<1>6. /\ r.req = s.req /\ r.sent = s.sent /\ r.early = s.early /\ r.upload = s.upload
      /\ r.opened = s.opened /\ r.left = s.left /\ t.got = <<>>
  BY <1>3, <1>5 DEF Same, Asked, Silent
<1>7. s.received = s.req.body BY DEF Asked
<1>8. Produced(r) = Answer(s.req)
  <2>1. Answer(s.req) = <<"head">> \o End(s.req) /\ Answer(s.req) \in Seq(Piece)
    BY <1>2, Fields, AnswerIs
  <2> QED BY <1>3, <1>4, <1>5, <1>6, <2>1, SilentProduced
<1>9. Unused(r) BY <1>5, <1>6 DEF Unused, Asked
<1>10. r.sent = Pieces(r.req) BY <1>6, <1>7 DEF Asked, Pieces
<1>11. ~r.req.keep => r.len = s.len /\ r.received = s.received /\ r.buffLen = s.buffLen
  BY <1>3, <1>4, <1>5, <1>6 DEF Beside
<1>12. r.req.kind # "upload" BY <1>6
<1>13. Answering(r)
  BY <1>5, <1>6, <1>7, <1>8, <1>9, <1>10, <1>11, <1>12 DEF Answering, Asked
<1>14. Steady(r) BY <1>5, <1>6 DEF Steady, Asked
<1>15. r.buffLen \in {0, s.buffLen} BY <1>5, <1>6, <1>11 DEF Done
<1> QED BY <1>6, <1>7, <1>13, <1>14, <1>15 DEF Processed, r

(* For a file: the head and the first block are produced.                  *)
LEMMA FileProcessed ==
  ASSUME NEW s, Asked(s), s.req.kind = "file"
  PROVE  Processed(s, httpdProcessRequest(s))
<1> DEFINE r == httpdProcessRequest(s)
           v == StartResponse(s, "head")
           t == [v EXCEPT !.cgi = "file", !.opened = TRUE, !.left = s.req.blocks]
<1>1. r = httpdFlushSendBuffer(t) BY Zenon DEF httpdProcessRequest
<1>2. s \in HttpdConnData /\ s.buff = <<>> /\ s.flags = Keeps(s.req) /\ "head" \in Piece
  BY DEF Asked, Silent, Piece
<1>3. /\ v \in HttpdConnData /\ Same(s, v) /\ Beside(s, v) /\ v.cgi = s.cgi
      /\ v.buff = <<"head">> /\ v.flags = Keeps(s.req) \cup {"SENDINGBODY"}
  BY <1>2, StartIs
<1>4. s.req.blocks \in Nat /\ s.req.body = 0 BY <1>2, Fields, Requests
<1> HIDE DEF v
<1>5. /\ t \in HttpdConnData /\ t.cgi = "file" /\ t.opened /\ t.left = s.req.blocks
      /\ Beside(v, t) /\ t.buff = v.buff /\ t.flags = v.flags /\ t.upload = v.upload
      /\ t.early = v.early /\ t.req = v.req /\ t.sent = v.sent /\ t.got = v.got
  BY <1>3, <1>4 DEF HttpdConnData, Beside
<1> HIDE DEF t, r
<1>6. /\ Free(t) /\ t.len = 0 /\ t.received = 0 /\ t.buffLen = 0
      /\ t.req = s.req /\ t.sent = s.sent /\ t.got = <<>> /\ ~t.early /\ t.upload = s.upload
  BY <1>3, <1>4, <1>5 DEF Same, Beside, Asked, Silent, Free
<1>7. Steady(t) BY <1>5, <1>6 DEF Steady, TxOK, Free, Asked
<1>8. Produced(t) = <<"head">> \o Blocks(0)
  <2>1. Produced(t) = t.got \o t.buff BY <1>5, <1>6, FreeProduced
  <2>2. Blocks(0) = <<>> BY BlocksAre
  <2>3. <<>> \o <<"head">> = <<"head">> \o <<>> OBVIOUS
  <2> QED BY <1>3, <1>5, <1>6, <2>1, <2>2, <2>3
<1>9. t.sent = Pieces(t.req) BY <1>4, <1>6 DEF Asked, Pieces
<1>10. s.req.blocks - t.left = 0 BY <1>4, <1>5
<1>11. Filing(t)
  BY <1>3, <1>4, <1>5, <1>6, <1>8, <1>9, <1>10 DEF Filing
<1>12. Steady(r) /\ Phase(r) /\ Alike(t, r) BY <1>1, <1>7, <1>11, FlushSteady DEF Phase
<1>13. /\ r.req = s.req /\ r.sent = s.sent /\ r.buffLen = 0 /\ r.cgi = "file"
  BY <1>5, <1>6, <1>12 DEF Alike
<1>14. Filing(r)
  BY <1>12, <1>13 DEF Phase, Receiving, Reading, Uploading, Answering, Unused
<1> QED BY <1>4, <1>6, <1>12, <1>13, <1>14 DEF Processed, Asked, r

(* For an upload: the handler has had the first block.                     *)
LEMMA UploadProcessed ==
  ASSUME NEW s, Asked(s), s.req.kind = "upload"
  PROVE  Processed(s, httpdProcessRequest(s))
<1> DEFINE r == httpdProcessRequest(s)
           t == [s EXCEPT !.cgi = "upload", !.opened = TRUE, !.upload = UploadStart]
           w == UploadBlock(t)
<1>1. r = httpdFlushSendBuffer(w) BY Zenon DEF httpdProcessRequest
<1>2. s \in HttpdConnData /\ UploadStart \in UploadState BY DEF Asked, Sane
<1>3. /\ t \in HttpdConnData /\ t.cgi = "upload" /\ t.opened /\ t.upload = UploadStart
      /\ Beside(s, t) /\ t.buff = s.buff /\ t.flags = s.flags /\ t.left = s.left
      /\ t.early = s.early /\ t.req = s.req /\ t.sent = s.sent /\ t.got = s.got
  BY <1>2 DEF HttpdConnData, Beside
<1> HIDE DEF t
<1>4. Sane(t.upload) BY <1>3 DEF Asked
<1>5. t.received - t.buffLen = 0
  <2>1. t.received \in Nat /\ t.buffLen = t.received BY <1>3, Fields DEF Beside, Asked
  <2> QED BY <2>1
<1>6. InBlock(t)
  <2>1. Good(t.req.image, t.upload, t.received - t.buffLen) BY <1>3, <1>5 DEF Good
  <2>2. Silent(t) BY <1>3 DEF Beside, Asked, Silent, Free
  <2>3. t.buffLen <= t.received BY <1>3, Fields DEF Beside, Asked
  <2> QED BY <1>3, <2>1, <2>2, <2>3 DEF InBlock, Beside, Asked, Unused
<1>7. s.received = t.received /\ s.req.body = t.len /\ t.buffLen = s.buffLen BY <1>3 DEF Beside, Asked
<1>8. CASE s.received = s.req.body
  <2>1. /\ Steady(w) /\ Answering(w) /\ w.req = t.req /\ w.sent = t.sent
        /\ w.buffLen \in {0, t.buffLen}
    BY <1>3, <1>4, <1>6, <1>7, <1>8, UploadEnds
  <2> HIDE DEF w, r
  <2>2. Steady(r) /\ Phase(r) /\ Alike(w, r) BY <1>1, <2>1, FlushSteady DEF Phase
  <2>3. Answering(r)
    <3>1. r.cgi = "NULL" /\ r.sent = Pieces(r.req)
      BY <2>1, <2>2 DEF Alike, Answering, Unused
    <3>2. r.req.body \in Nat /\ r.sent \in Nat BY <2>2, Fields, Requests DEF Steady
    <3>3. ~Receiving(r) /\ ~Reading(r) BY <3>1, <3>2 DEF Receiving, Reading, InBody, Pieces, HEAD
    <3> QED BY <2>2, <3>1, <3>3 DEF Phase, Uploading, Filing
  <2>4. r.req = s.req /\ r.sent = s.sent /\ r.buffLen \in {0, s.buffLen}
    BY <1>3, <1>7, <2>1, <2>2 DEF Alike
  <2> QED BY <1>8, <2>2, <2>3, <2>4 DEF Processed, r
<1>9. CASE s.received # s.req.body
  <2>0. t \in HttpdConnData /\ t.received # t.len BY <1>3, <1>7, <1>9
  <2> HIDE DEF r
  <2>1. /\ Steady(w) /\ Silent(w) /\ w.len = t.len /\ w.received = t.received
        /\ w.buffLen = t.buffLen /\ w.cgi = t.cgi /\ w.left = t.left
        /\ w.opened = t.opened /\ w.early = t.early /\ w.flags = t.flags
        /\ w.req = t.req /\ w.sent = t.sent
        /\ t.early \/ Good(t.req.image, w.upload, t.received)
    BY <1>4, <1>6, <2>0, UploadMore
  <2> HIDE DEF w
  <2>2. Chunk(w) = <<>>
    <3>1. ~("SENDINGBODY" \in w.flags) /\ w.buff = <<>>
      BY <1>3, <2>1 DEF InBlock, Keeps, Silent, Asked
    <3> QED BY <3>1 DEF Chunk
  <2>3. r = w BY <1>1, <2>2 DEF httpdFlushSendBuffer
  <2>4. s.received < s.req.body
    <3>1. s.received \in Nat /\ s.req.body \in Nat BY <1>2, Fields, Requests
    <3> QED BY <1>9, <3>1 DEF Asked
  <2>5. BlockTaken(r)
    BY <1>3, <1>7, <2>1, <2>3, <2>4 DEF BlockTaken, Beside, Asked, Unused
  <2> QED BY <1>3, <1>7, <1>9, <2>1, <2>3, <2>5 DEF Processed, r
<1> QED BY <1>8, <1>9

(* httpdProcessRequest, whatever the request.                              *)
LEMMA RequestProcessed ==
  ASSUME NEW s, Asked(s)
  PROVE  Processed(s, httpdProcessRequest(s))
<1>1. s.req.kind \in {"short", "file", "upload"} BY Fields, Requests DEF Asked
<1> QED BY <1>1, FormProcessed, FileProcessed, UploadProcessed

-----------------------------------------------------------------------------
(* One byte of a packet, and the packet.                                   *)

(* The post buffer may be emptied when the handler has had it.             *)
LEMMA BufferEmptied ==
  ASSUME NEW s, Steady(s), Filing(s) \/ Answering(s) \/ BlockTaken(s)
  PROVE  LET r == [s EXCEPT !.buffLen = 0]
         IN  Steady(r) /\ Phase(r) /\ r.buffLen = 0 /\ r.req = s.req /\ r.sent = s.sent
<1> DEFINE r == [s EXCEPT !.buffLen = 0]
<1>1. s \in HttpdConnData BY DEF Steady
<1>2. /\ r \in HttpdConnData /\ r.buffLen = 0 /\ r.len = s.len /\ r.received = s.received
      /\ r.cgi = s.cgi /\ r.left = s.left /\ r.opened = s.opened /\ r.upload = s.upload
      /\ r.early = s.early /\ r.flags = s.flags /\ r.req = s.req /\ r.sent = s.sent
      /\ r.got = s.got /\ r.buff = s.buff /\ r.tx = s.tx /\ r.flight = s.flight
      /\ r.backlog = s.backlog
  BY <1>1 DEF HttpdConnData
<1> HIDE DEF r
<1>3. Steady(r) BY <1>2 DEF Steady, TxOK, Free
<1>4. Produced(r) = Produced(s) BY <1>2 DEF Produced, Waiting
<1>5. CASE Filing(s)
  <2>1. Filing(r) BY <1>2, <1>4, <1>5 DEF Filing
  <2> QED BY <1>2, <1>3, <2>1 DEF Phase, r
<1>6. CASE Answering(s)
  <2>1. Unused(r) /\ Done(r) BY <1>2, <1>6 DEF Answering, Unused, Done
  <2>2. Free(r) <=> Free(s) BY <1>2 DEF Free
  <2>3. Answering(r) BY <1>2, <1>4, <1>6, <2>1, <2>2 DEF Answering
  <2> QED BY <1>2, <1>3, <2>3 DEF Phase, r
<1>7. CASE BlockTaken(s)
  <2>1. PICK n \in Nat, b \in Nat, k \in Nat : n = s.received /\ b = s.req.body /\ k = s.sent
    BY <1>1, Fields, Requests
  <2>2. n < b /\ k = HEAD + n BY <1>7, <2>1 DEF BlockTaken
  <2>3. HEAD <= k /\ k < HEAD + b /\ n = k - HEAD /\ 0 <= n /\ n - 0 = n
    BY <2>1, <2>2 DEF HEAD
  <2>4. 0 < BuffSize(r)
    <3>1. MAX_POST \in Nat \ {0} BY HttpdAssumption
    <3>2. r.len = b BY <1>2, <1>7, <2>1 DEF BlockTaken
    <3> QED BY <2>1, <2>2, <3>1, <3>2 DEF BuffSize
  <2>5. Silent(r) BY <1>2, <1>7 DEF BlockTaken, Silent, Free
  <2>6. InBody(r)
    BY <1>2, <1>7, <2>1, <2>3, <2>4, <2>5 DEF BlockTaken, InBody, Pieces
  <2>7. Uploading(r) BY <1>2, <1>7, <2>1, <2>3, <2>6 DEF Uploading, BlockTaken
  <2> QED BY <1>2, <1>3, <2>7 DEF Phase, r
<1> QED BY <1>5, <1>6, <1>7

(* The browser has sent one byte more ...                                  *)
SentIs(s) == [s EXCEPT !.sent = s.sent + 1]

(* One byte more has been sent, nothing else.                              *)
LEMMA SentOne ==
  ASSUME NEW s \in HttpdConnData
  PROVE  LET t == SentIs(s)
         IN  /\ t \in HttpdConnData /\ t.sent = s.sent + 1
             /\ t.buffLen = s.buffLen /\ t.len = s.len /\ t.received = s.received
             /\ t.cgi = s.cgi /\ t.left = s.left /\ t.opened = s.opened /\ t.upload = s.upload
             /\ t.early = s.early /\ t.flags = s.flags /\ t.req = s.req
             /\ t.got = s.got /\ t.buff = s.buff /\ t.tx = s.tx /\ t.flight = s.flight
             /\ t.backlog = s.backlog
<1>1. s.sent + 1 \in Nat BY Fields
<1> QED BY <1>1 DEF HttpdConnData, SentIs

(* A byte of the header (httpdRecvCb): the last one begins the body, or    *)
(* the answer when there is none.                                          *)
LEMMA HeaderByteKeeps ==
  ASSUME NEW s, Kept(s), Receiving(s), s.sent < Pieces(s.req)
  PROVE  LET r == HeaderByte(SentIs(s))
         IN  Kept(r) /\ r.req = s.req /\ r.sent = s.sent + 1
<1> DEFINE t == SentIs(s)
           r == HeaderByte(t)
<1>1. s \in HttpdConnData BY DEF Kept, Steady
<1>2. /\ t \in HttpdConnData /\ t.sent = s.sent + 1
      /\ t.buffLen = 0 /\ t.len = -1 /\ t.received = 0
      /\ t.cgi = s.cgi /\ t.left = s.left /\ t.opened = s.opened /\ t.upload = s.upload
      /\ ~t.early /\ t.flags = {} /\ t.req = s.req
      /\ t.got = s.got /\ t.buff = s.buff /\ t.tx = s.tx /\ t.flight = s.flight
      /\ t.backlog = s.backlog
  BY <1>1, SentOne DEF Receiving
<1>3. PICK k \in Nat, b \in Nat, M \in Nat \ {0} : k = s.sent /\ b = s.req.body /\ M = MAX_POST
  BY <1>1, Fields, Requests, HttpdAssumption
<1>4. k < HEAD /\ t.sent = k + 1 BY <1>2, <1>3 DEF Receiving
<1> HIDE DEF t
<1>5. Silent(t) /\ Unused(t) BY <1>2 DEF Receiving, Silent, Free, Unused
<1>6. CASE t.sent # HEAD
  <2>1. r = t BY <1>6 DEF HeaderByte
  <2>2. t.sent < HEAD BY <1>3, <1>4, <1>6 DEF HEAD
  <2>3. Receiving(t) BY <1>2, <1>5, <2>2 DEF Receiving
  <2>4. Steady(t) BY <1>2, <1>5 DEF Kept, Steady, Silent, TxOK, Free
  <2>5. t.buffLen < MAX_POST BY <1>2, <1>3
  <2> QED BY <1>2, <2>1, <2>3, <2>4, <2>5 DEF Kept, Phase, t
<1>7. CASE t.sent = HEAD
  <2> DEFINE fl == Keeps(t.req)
             w == [t EXCEPT !.len = b, !.flags = fl]
  <2>1. fl \in SUBSET Flags BY DEF Keeps, Flags
  <2>2. fl = IF t.req.keep THEN {"CHUNKED"} ELSE {} BY DEF Keeps
  <2> HIDE DEF fl
  <2>3. r = IF w.len = 0 THEN httpdProcessRequest(w) ELSE w
    BY <1>2, <1>3, <1>7, <2>2 DEF HeaderByte
  <2>4. /\ w \in HttpdConnData /\ w.len = b /\ w.flags = fl /\ w.sent = HEAD
        /\ w.buffLen = 0 /\ w.received = 0
        /\ w.cgi = t.cgi /\ w.left = t.left /\ w.opened = t.opened /\ w.upload = t.upload
        /\ w.early = t.early /\ w.req = t.req
        /\ w.got = t.got /\ w.buff = t.buff /\ w.tx = t.tx /\ w.flight = t.flight
        /\ w.backlog = t.backlog
    <3>0. b \in Int /\ t \in HttpdConnData BY <1>2, <1>3
    <3>1. w \in HttpdConnData BY <2>1, <3>0 DEF HttpdConnData
    <3>2. /\ w.len = b /\ w.flags = fl /\ w.sent = t.sent
          /\ w.buffLen = t.buffLen /\ w.received = t.received
      BY <1>2 DEF HttpdConnData
    <3>3. /\ w.cgi = t.cgi /\ w.left = t.left /\ w.opened = t.opened /\ w.upload = t.upload
          /\ w.early = t.early /\ w.req = t.req
      BY <1>2 DEF HttpdConnData
    <3>4. /\ w.got = t.got /\ w.buff = t.buff /\ w.tx = t.tx /\ w.flight = t.flight
          /\ w.backlog = t.backlog
      BY <1>2 DEF HttpdConnData
    <3> QED BY <1>2, <1>7, <3>1, <3>2, <3>3, <3>4
  <2> HIDE DEF w, r
  <2>5. Silent(w) /\ Unused(w) BY <1>5, <2>4 DEF Silent, Free, Unused
  <2>6. w.flags = Keeps(w.req) /\ ~w.early /\ w.upload = UploadStart /\ Sane(w.upload)
    BY <1>2, <2>4 DEF fl, Receiving, Kept, Steady
  <2>7. HEAD + 0 = HEAD /\ HEAD - HEAD = 0 /\ HEAD <= HEAD /\ 0 <= 0 /\ 0 <= b
    BY <1>3 DEF HEAD
  <2>8. w.req = s.req /\ w.req.body = b /\ Sized(w.req) BY <1>2, <1>3, <2>4 DEF Kept
  <2>9. w.sent = s.sent + 1 BY <1>2, <1>7, <2>4
  <2>10. CASE b = 0
    <3>1. r = httpdProcessRequest(w) BY <2>3, <2>4, <2>10
    <3>2. Asked(w)
      BY <2>4, <2>5, <2>6, <2>7, <2>8, <2>10 DEF Asked, Sized
    <3>3. Processed(w, r) BY <3>1, <3>2, RequestProcessed
    <3>4. Phase(r) BY <2>4, <2>8, <2>10, <3>3 DEF Processed, Phase
    <3>5. r.buffLen < MAX_POST BY <1>3, <2>4, <3>3 DEF Processed
    <3> QED BY <2>8, <2>9, <3>3, <3>4, <3>5 DEF Processed, Kept, r, t
  <2>11. CASE b # 0
    <3>1. r = w BY <2>3, <2>4, <2>11
    <3>2. 0 < BuffSize(w) BY <1>3, <2>4, <2>11 DEF BuffSize
    <3>3. HEAD < Pieces(w.req) BY <1>3, <2>8, <2>11 DEF Pieces, HEAD
    <3>4. InBody(w)
      BY <2>4, <2>5, <2>6, <2>7, <2>8, <3>2, <3>3 DEF InBody
    <3>5. Phase(w) BY <2>4, <2>5, <2>6, <3>4 DEF Phase, Reading
    <3>6. Steady(w) BY <2>4, <2>5, <2>6 DEF Steady, Silent, TxOK, Free
    <3>7. w.buffLen < MAX_POST BY <1>3, <2>4
    <3> QED BY <2>8, <2>9, <3>1, <3>5, <3>6, <3>7 DEF Kept, r, t
  <2> QED BY <2>10, <2>11
<1> QED BY <1>6, <1>7

(* ... which is in the post buffer.                                        *)
Stored(s) == [SentIs(s) EXCEPT !.buffLen = s.buffLen + 1, !.received = s.received + 1]

(* A byte is put in the post buffer.                                       *)
LEMMA StoredIs ==
  ASSUME NEW s \in HttpdConnData
  PROVE  LET w == Stored(s)
         IN  /\ w \in HttpdConnData /\ w.sent = s.sent + 1
             /\ w.buffLen = s.buffLen + 1 /\ w.received = s.received + 1 /\ w.len = s.len
             /\ w.cgi = s.cgi /\ w.left = s.left /\ w.opened = s.opened /\ w.upload = s.upload
             /\ w.early = s.early /\ w.flags = s.flags /\ w.req = s.req
             /\ w.got = s.got /\ w.buff = s.buff /\ w.tx = s.tx /\ w.flight = s.flight
             /\ w.backlog = s.backlog
<1> DEFINE t == SentIs(s)
           w == Stored(s)
<1>1. /\ t \in HttpdConnData /\ t.sent = s.sent + 1
      /\ t.buffLen = s.buffLen /\ t.len = s.len /\ t.received = s.received
      /\ t.cgi = s.cgi /\ t.left = s.left /\ t.opened = s.opened /\ t.upload = s.upload
      /\ t.early = s.early /\ t.flags = s.flags /\ t.req = s.req
      /\ t.got = s.got /\ t.buff = s.buff /\ t.tx = s.tx /\ t.flight = s.flight
      /\ t.backlog = s.backlog
  BY SentOne
<1>2. s.buffLen + 1 \in Nat /\ s.received + 1 \in Nat BY Fields
<1>3. w = [t EXCEPT !.buffLen = s.buffLen + 1, !.received = s.received + 1] BY DEF Stored
<1> HIDE DEF t, w
<1>4. w \in HttpdConnData BY <1>1, <1>2, <1>3 DEF HttpdConnData
<1>5. w.buffLen = s.buffLen + 1 /\ w.received = s.received + 1 /\ w.sent = t.sent /\ w.len = t.len
  BY <1>1, <1>2, <1>3 DEF HttpdConnData
<1>6. /\ w.cgi = t.cgi /\ w.left = t.left /\ w.opened = t.opened /\ w.upload = t.upload
      /\ w.early = t.early /\ w.flags = t.flags /\ w.req = t.req
  BY <1>1, <1>3 DEF HttpdConnData
<1>7. /\ w.got = t.got /\ w.buff = t.buff /\ w.tx = t.tx /\ w.flight = t.flight
      /\ w.backlog = t.backlog
  BY <1>1, <1>3 DEF HttpdConnData
<1> QED BY <1>1, <1>4, <1>5, <1>6, <1>7 DEF w

(* The numbers of a body of which one byte more has come.                  *)
LEMMA BodyCounts ==
  ASSUME NEW s \in HttpdConnData, InBody(s), NEW w, w = Stored(s)
  PROVE  /\ w.len = w.req.body /\ w.received <= w.req.body /\ w.buffLen <= w.received
         /\ w.sent = HEAD + w.received /\ w.received - w.buffLen = s.received - s.buffLen
         /\ w.buffLen = w.received <=> s.buffLen = s.received
         /\ w.len # 0 /\ w.len # -1 /\ w.buffLen <= BuffSize(w) /\ BuffSize(w) <= MAX_POST
         /\ w.received # w.len => HEAD <= w.sent /\ w.sent < Pieces(w.req) /\ w.received < w.len
         /\ w.received = w.sent - HEAD /\ w.buffLen \in Nat
         /\ BuffSize(w) = IF w.req.body > MAX_POST THEN MAX_POST ELSE w.req.body
<1>1. PICK n \in Nat, b \in Nat, k \in Nat, x \in Nat, M \in Nat \ {0} :
        n = s.received /\ b = s.req.body /\ k = s.sent /\ x = s.buffLen /\ M = MAX_POST
  BY Fields, Requests, HttpdAssumption
<1>2. /\ k >= 2 /\ k < 2 + b /\ n = k - 2 /\ x <= n /\ x < BuffSize(s) /\ s.len = b
  BY <1>1 DEF InBody, Pieces, HEAD
<1>3. /\ w.sent = k + 1 /\ w.received = n + 1 /\ w.buffLen = x + 1 /\ w.len = b /\ w.req = s.req
  BY <1>1, <1>2, StoredIs
<1>4. BuffSize(w) = (IF b > M THEN M ELSE b) /\ x < BuffSize(w)
  BY <1>1, <1>2, <1>3 DEF BuffSize
<1> QED BY <1>1, <1>2, <1>3, <1>4 DEF Pieces, HEAD

(* A body is coming in.                                                    *)
Body(s) == Reading(s) \/ Uploading(s)

(* The buffer is not full and the body not complete: nothing more happens. *)
LEMMA BodyGoesOn ==
  ASSUME NEW s, Kept(s), Body(s), NEW w, w = Stored(s),
         ~(w.buffLen >= BuffSize(w) \/ w.received = w.len)
  PROVE  Kept(w)
<1>1. s \in HttpdConnData /\ InBody(s) BY DEF Kept, Steady, Body, Reading, Uploading
<1>2. /\ w \in HttpdConnData /\ w.cgi = s.cgi /\ w.left = s.left /\ w.opened = s.opened
      /\ w.upload = s.upload /\ w.early = s.early /\ w.flags = s.flags /\ w.req = s.req
      /\ w.got = s.got /\ w.buff = s.buff /\ w.tx = s.tx /\ w.flight = s.flight
      /\ w.backlog = s.backlog
  BY <1>1, StoredIs
<1>3. /\ w.len = w.req.body /\ w.buffLen <= w.received
      /\ w.received - w.buffLen = s.received - s.buffLen
      /\ w.buffLen = w.received <=> s.buffLen = s.received
      /\ HEAD <= w.sent /\ w.sent < Pieces(w.req) /\ w.received = w.sent - HEAD
  BY <1>1, BodyCounts
<1>4. w.buffLen < BuffSize(w) /\ w.buffLen < MAX_POST
  <2>1. PICK x \in Nat, y \in Nat, M \in Nat : x = w.buffLen /\ y = w.req.body /\ M = MAX_POST
    BY <1>2, Fields, Requests, HttpdAssumption
  <2>2. ~(x >= BuffSize(w)) /\ BuffSize(w) = IF y > M THEN M ELSE y
    BY <1>1, <2>1, BodyCounts
  <2> QED BY <2>1, <2>2
<1>5. Silent(w) BY <1>1, <1>2 DEF InBody, Silent, Free
<1>6. InBody(w) BY <1>1, <1>2, <1>3, <1>4, <1>5 DEF InBody
<1>7. CASE Reading(s)
  <2>1. Unused(w) BY <1>2, <1>7 DEF Reading, Unused
  <2> QED BY <1>1, <1>2, <1>3, <1>4, <1>5, <1>6, <1>7, <2>1
          DEF Kept, Steady, Reading, Phase, Silent, TxOK, Free
<1>8. CASE Uploading(s)
  <2>1. Uploading(w) BY <1>2, <1>3, <1>6, <1>8 DEF Uploading
  <2> QED BY <1>2, <1>4, <1>5, <2>1 DEF Kept, Steady, Phase, Silent, TxOK, Free
<1> QED BY <1>7, <1>8 DEF Body

(* A byte of the body (httpdRecvCb): a full buffer and a complete body go  *)
(* to the handler.                                                         *)
LEMMA PostByteKeeps ==
  ASSUME NEW s, Kept(s), Body(s)
  PROVE  LET r == PostByte(SentIs(s))
         IN  Kept(r) /\ r.req = s.req /\ r.sent = s.sent + 1
<1> DEFINE w == Stored(s)
           u == IF w.cgi = "NULL" THEN httpdProcessRequest(w) ELSE UploadBlock(w)
           r == PostByte(SentIs(s))
<1>1. s \in HttpdConnData /\ InBody(s) BY DEF Kept, Steady, Body, Reading, Uploading
<1>2. /\ w \in HttpdConnData /\ w.cgi = s.cgi /\ w.left = s.left /\ w.opened = s.opened
      /\ w.upload = s.upload /\ w.early = s.early /\ w.flags = s.flags /\ w.req = s.req
      /\ w.got = s.got /\ w.buff = s.buff /\ w.tx = s.tx /\ w.flight = s.flight
      /\ w.backlog = s.backlog /\ w.sent = s.sent + 1
  BY <1>1, StoredIs
<1>3. /\ w.len = w.req.body /\ w.received <= w.req.body /\ w.buffLen <= w.received
      /\ w.sent = HEAD + w.received /\ w.received - w.buffLen = s.received - s.buffLen
      /\ w.buffLen = w.received <=> s.buffLen = s.received
      /\ w.received # w.len => w.received < w.len
      /\ BuffSize(w) = IF w.req.body > MAX_POST THEN MAX_POST ELSE w.req.body
  BY <1>1, BodyCounts
<1>4. r = IF w.buffLen >= BuffSize(w) \/ w.received = w.len
          THEN [u EXCEPT !.buffLen = 0] ELSE w
  <2>1. SentIs(s).buffLen = s.buffLen /\ SentIs(s).received = s.received BY <1>1, SentOne
  <2>2. w = [SentIs(s) EXCEPT !.buffLen = @ + 1, !.received = @ + 1] BY <2>1 DEF Stored
  <2> QED BY <2>2 DEF PostByte
<1>5. CASE ~(w.buffLen >= BuffSize(w) \/ w.received = w.len)
  <2>1. r = w BY <1>4, <1>5
  <2>2. Kept(w) BY <1>5, BodyGoesOn
  <2> QED BY <1>2, <2>1, <2>2
<1>6. CASE w.buffLen >= BuffSize(w) \/ w.received = w.len
  <2>1. r = [u EXCEPT !.buffLen = 0] BY <1>4, <1>6
  <2>2. Silent(w) BY <1>1, <1>2 DEF InBody, Silent, Free
  <2>3. w.flags = Keeps(w.req) /\ Sized(w.req) /\ Sane(w.upload)
    BY <1>1, <1>2 DEF InBody, Kept, Steady
  <2> HIDE DEF w
  <2>4. /\ Steady(u) /\ u.req = w.req /\ u.sent = w.sent
        /\ Filing(u) \/ Answering(u) \/ BlockTaken(u)
    <3>1. CASE Reading(s)
      <4>1. u = httpdProcessRequest(w) BY <1>2, <3>1 DEF Reading, Unused
      <4>2. Unused(w) /\ ~w.early /\ w.upload = UploadStart /\ w.buffLen = w.received
        BY <1>2, <1>3, <3>1 DEF Reading, Unused
      <4>3. w.req.kind # "upload" => w.received = w.req.body
        <5>1. SUFFICES ASSUME w.req.kind # "upload" PROVE w.received = w.req.body
          OBVIOUS
        <5>2. PICK n \in Nat, b \in Nat, M \in Nat : n = w.received /\ b = w.req.body /\ M = MAX_POST
          BY <1>2, Fields, Requests, HttpdAssumption
        <5>3. b <= M
          <6>1. w.req.body \in 0..MAX_POST \/ w.req.body = 0
            BY <1>2, <5>1, Fields, Requests
          <6> QED BY <5>2, <6>1
        <5>4. n <= b /\ (n >= b \/ n = b) BY <1>3, <1>6, <4>2, <5>2, <5>3
        <5> QED BY <5>2, <5>4
      <4>4. Asked(w)
        BY <1>2, <1>3, <2>2, <2>3, <4>2, <4>3 DEF Asked, Sized
      <4>5. Processed(w, u) BY <4>1, <4>4, RequestProcessed
      <4> HIDE DEF u
      <4> QED BY <4>5 DEF Processed
    <3>2. CASE Uploading(s)
      <4>1. u = UploadBlock(w) BY <1>2, <3>2 DEF Uploading
      <4>2. InBlock(w)
        BY <1>2, <1>3, <2>2, <2>3, <3>2 DEF InBlock, Uploading, Sized
      <4>3. CASE w.received = w.len
        <5>1. Steady(u) /\ Answering(u) /\ u.req = w.req /\ u.sent = w.sent
          BY <1>2, <2>3, <4>1, <4>2, <4>3, UploadEnds
        <5> QED BY <5>1
      <4>4. CASE w.received # w.len
        <5> HIDE DEF u
        <5>1. /\ Steady(u) /\ Silent(u) /\ u.len = w.len /\ u.received = w.received
              /\ u.buffLen = w.buffLen /\ u.cgi = w.cgi /\ u.left = w.left
              /\ u.opened = w.opened /\ u.early = w.early /\ u.flags = w.flags
              /\ u.req = w.req /\ u.sent = w.sent
              /\ w.early \/ Good(w.req.image, u.upload, w.received)
          BY <1>2, <2>3, <4>1, <4>2, <4>4, UploadMore
        <5>2. BlockTaken(u)
          BY <1>3, <4>2, <4>4, <5>1 DEF BlockTaken, InBlock
        <5> QED BY <5>1, <5>2
      <4> QED BY <4>3, <4>4
    <3> QED BY <3>1, <3>2 DEF Body
  <2> HIDE DEF u, r
  <2>5. Steady(r) /\ Phase(r) /\ r.buffLen = 0 /\ r.req = u.req /\ r.sent = u.sent
    BY <2>1, <2>4, BufferEmptied
  <2>6. 0 < MAX_POST BY HttpdAssumption
  <2> QED BY <1>2, <2>3, <2>4, <2>5, <2>6 DEF Kept, r
<1> QED BY <1>5, <1>6

(* A byte, of the header or of the body ...                                *)
LEMMA ByteKeeps ==
  ASSUME NEW s, Kept(s), s.sent < Pieces(s.req)
  PROVE  LET r == Byte(s)
         IN  Kept(r) /\ r.req = s.req /\ r.sent = s.sent + 1
<1> DEFINE t == SentIs(s)
           r == Byte(s)
<1>1. s \in HttpdConnData BY DEF Kept, Steady
<1>2. t.len = s.len BY <1>1, SentOne
<1>3. r = IF s.len = -1 THEN HeaderByte(t) ELSE IF s.len # 0 THEN PostByte(t) ELSE t
  BY <1>2 DEF Byte, SentIs
<1> HIDE DEF r, t
<1>4. CASE Receiving(s)
  <2>1. r = HeaderByte(t) BY <1>3, <1>4 DEF Receiving
  <2> QED BY <1>4, <2>1, HeaderByteKeeps DEF r, t
<1>5. CASE Body(s)
  <2>1. PICK b \in Nat, k \in Nat : b = s.req.body /\ k = s.sent
    BY <1>1, Fields, Requests
  <2>2. 2 <= k /\ k < 2 + b /\ s.len = b
    BY <1>5, <2>1 DEF Body, Reading, Uploading, InBody, Pieces, HEAD
  <2>3. s.len # -1 /\ s.len # 0 BY <2>1, <2>2
  <2>4. r = PostByte(t) BY <1>3, <2>3
  <2> QED BY <1>5, <2>4, PostByteKeeps DEF r, t
<1>6. ~Filing(s) /\ ~Answering(s)
  <2>1. PICK b \in Nat, k \in Nat : b = s.req.body /\ k = s.sent
    BY <1>1, Fields, Requests
  <2> QED BY <2>1 DEF Filing, Answering, Pieces, HEAD
<1> QED BY <1>4, <1>5, <1>6 DEF Kept, Phase, Body

(* ... and so a packet of any number of bytes: by induction over them.     *)
LEMMA PacketKeeps ==
  ASSUME NEW s, Kept(s), NEW k \in Nat, s.sent + k <= Pieces(s.req)
  PROVE  LET r == Packet(s, k)
         IN  Kept(r) /\ r.req = s.req /\ r.sent = s.sent + k
<1> DEFINE turn == [t \in HttpdConnData |-> Byte(t)]
           At(n) == Iterate(turn, s, n)
           S == {n \in Nat : n <= k =>
                   Kept(At(n)) /\ At(n).req = s.req /\ At(n).sent = s.sent + n}
<1>1. At(0) = s /\ \A n \in Nat : At(n + 1) = turn[At(n)]
  <2> HIDE DEF turn
  <2> QED BY IterateSteps
<1>2. PICK a \in Nat, p \in Nat : a = s.sent /\ p = Pieces(s.req)
  <2>1. s.sent \in Nat /\ s.req.body \in Nat BY Fields, Requests DEF Kept, Steady
  <2> QED BY <2>1 DEF Pieces, HEAD
<1> HIDE DEF At
<1>3. 0 \in S BY <1>1, <1>2
<1>4. ASSUME NEW n \in Nat, n \in S PROVE n + 1 \in S
  <2> SUFFICES ASSUME n + 1 <= k
               PROVE  Kept(At(n + 1)) /\ At(n + 1).req = s.req /\ At(n + 1).sent = s.sent + (n + 1)
    OBVIOUS
  <2>1. Kept(At(n)) /\ At(n).req = s.req /\ At(n).sent = s.sent + n BY <1>4
  <2>2. a + n < p /\ (a + n) + 1 = a + (n + 1) BY <1>2
  <2>3. At(n).sent < Pieces(At(n).req) BY <1>2, <2>1, <2>2
  <2>4. At(n) \in HttpdConnData BY <2>1 DEF Kept, Steady
  <2>5. At(n + 1) = Byte(At(n)) BY <1>1, <2>4
  <2>6. /\ Kept(At(n + 1)) /\ At(n + 1).req = At(n).req
        /\ At(n + 1).sent = At(n).sent + 1
    BY <2>1, <2>3, <2>5, ByteKeeps
  <2> QED BY <1>2, <2>1, <2>2, <2>6
<1>5. Nat \subseteq S
  <2> HIDE DEF S
  <2> QED BY <1>3, <1>4, NatSetInduction
<1>6. Packet(s, k) = At(k) BY DEF Packet, At
<1> QED BY <1>5, <1>6

-----------------------------------------------------------------------------
(* A buffer has been sent.                                                 *)

(* The output under way may move on, in the order it was produced in.      *)
LEMMA MovedKeeps ==
  ASSUME NEW s, Kept(s), NEW r \in HttpdConnData, Alike(s, r), r.buff = s.buff, TxOK(r),
         Produced(r) = Produced(s), Free(s) => Free(r), s.buff = <<>>
  PROVE  Kept(r)
<1>1. /\ r.len = s.len /\ r.received = s.received /\ r.buffLen = s.buffLen /\ r.cgi = s.cgi
      /\ r.left = s.left /\ r.opened = s.opened /\ r.upload = s.upload /\ r.early = s.early
      /\ r.flags = s.flags /\ r.req = s.req /\ r.sent = s.sent /\ r.got = s.got
  BY DEF Alike
<1>2. Steady(r) BY <1>1 DEF Kept, Steady
<1>3. Silent(s) => Silent(r) BY <1>1 DEF Silent
<1>4. BuffSize(r) = BuffSize(s) BY <1>1 DEF BuffSize
<1>5. Unused(r) <=> Unused(s) BY <1>1 DEF Unused
<1>6. Done(r) <=> Done(s) BY <1>1 DEF Done
<1>7. Receiving(s) => Receiving(r) BY <1>1, <1>3, <1>5 DEF Receiving
<1>8. InBody(s) => InBody(r) BY <1>1, <1>3, <1>4 DEF InBody
<1>9. Reading(s) => Reading(r) BY <1>1, <1>5, <1>8 DEF Reading
<1>10. Uploading(s) => Uploading(r) BY <1>1, <1>8 DEF Uploading
<1>11. Filing(s) => Filing(r) BY <1>1 DEF Filing
<1>12. Answering(s) => Answering(r) BY <1>1, <1>5, <1>6 DEF Answering
<1>13. Phase(r) BY <1>7, <1>9, <1>10, <1>11, <1>12 DEF Kept, Phase
<1> QED BY <1>1, <1>2, <1>13 DEF Kept

(* The socket has sent its buffer.                                         *)
Idle(s) == [s EXCEPT !.tx = "idle", !.flight = <<>>]

(* The socket has sent its buffer.                                         *)
LEMMA IdleIs ==
  ASSUME NEW s, Resting(s), s.tx = "arrived"
  PROVE  LET t == Idle(s)
         IN  /\ t \in HttpdConnData /\ Alike(s, t) /\ t.buff = <<>> /\ t.backlog = s.backlog
             /\ t.tx = "idle" /\ (s.backlog = <<>> => Resting(t) /\ Free(t))
<1> DEFINE t == Idle(s)
<1>1. s \in HttpdConnData /\ s.buff = <<>> BY DEF Resting, Kept, Steady
<1>2. <<>> \in Seq(Piece) OBVIOUS
<1>3. t \in HttpdConnData BY <1>1, <1>2 DEF HttpdConnData, Idle
<1>4. Alike(s, t) BY <1>1 DEF HttpdConnData, Alike, Idle
<1>5. t.buff = <<>> /\ t.backlog = s.backlog /\ t.tx = "idle" BY <1>1 DEF HttpdConnData, Idle
<1> HIDE DEF t
<1>6. ASSUME s.backlog = <<>> PROVE Kept(t) /\ Free(t)
  <2>1. Free(t) /\ Free(s) /\ TxOK(t) BY <1>5, <1>6 DEF Free, TxOK
  <2>2. Produced(t) = Produced(s)
    BY <1>1, <1>3, <1>4, <1>5, <2>1, FreeProduced DEF Alike
  <2>3. Kept(t) BY <1>1, <1>3, <1>4, <1>5, <2>1, <2>2, MovedKeeps DEF Resting
  <2> QED BY <2>1, <2>3
<1> QED BY <1>3, <1>4, <1>5, <1>6 DEF Resting, t

(* The buffer that waited is sent next.                                    *)
LEMMA BacklogKeeps ==
  ASSUME NEW s, Resting(s), s.tx = "arrived", s.backlog # <<>>
  PROVE  LET r == SendBacklog(Idle(s))
         IN  Resting(r) /\ Alike(s, r)
<1> DEFINE t == Idle(s)
           b == Head(s.backlog)
           r == SendBacklog(t)
<1>1. /\ t \in HttpdConnData /\ Alike(s, t) /\ t.buff = <<>> /\ t.backlog = s.backlog
  BY IdleIs
<1>2. s \in HttpdConnData /\ TxOK(s) /\ s.buff = <<>> BY DEF Resting, Kept, Steady
<1>3. s.backlog \in Seq(Seq(Piece)) /\ Len(s.backlog) = 1 /\ b # <<>>
  BY <1>2, Fields DEF TxOK
<1>4. b \in Seq(Piece) /\ Tail(s.backlog) = <<>>
  <2>1. PICK q \in Seq(Seq(Piece)) : q = s.backlog /\ Len(q) = 1 BY <1>3
  <2>2. q # <<>> BY <2>1
  <2>3. Head(q) \in Seq(Piece) BY <2>2, HeadTailProperties
  <2>4. Tail(q) \in Seq(Seq(Piece)) /\ Len(Tail(q)) = 0 BY <2>1, <2>2, HeadTailProperties
  <2>5. PICK t0 \in Seq(Seq(Piece)) : t0 = Tail(q) /\ Len(t0) = 0 BY <2>4
  <2>6. \A S0 : \A x \in Seq(S0) : x # <<>> => Len(x) \in Nat \ {0} BY EmptySeq
  <2>7. t0 = <<>> BY <2>5, <2>6
  <2> QED BY <2>1, <2>3, <2>5, <2>7
<1>5. r = [t EXCEPT !.tx = "sending", !.flight = b, !.backlog = <<>>]
  BY <1>1, <1>4 DEF SendBacklog, HttpdConnData
<1> HIDE DEF t, b, r
<1>6. <<>> \in Seq(Seq(Piece)) OBVIOUS
<1>7. r \in HttpdConnData BY <1>1, <1>4, <1>5, <1>6 DEF HttpdConnData
<1>8. Alike(t, r) /\ r.buff = t.buff /\ r.tx = "sending" /\ r.flight = b /\ r.backlog = <<>>
  BY <1>1, <1>5 DEF HttpdConnData, Alike
<1>9. Alike(s, r) BY <1>1, <1>8 DEF Alike
<1>10. TxOK(r) BY <1>3, <1>8 DEF TxOK
<1>11. Produced(r) = Produced(s)
  <2>1. b \o <<>> = b /\ <<>> \o b = b BY <1>4
  <2>2. Waiting(s) = b BY <2>1, <1>3 DEF Waiting, b
  <2>3. Waiting(r) = b BY <2>1, <1>8 DEF Waiting
  <2> QED BY <1>1, <1>2, <1>8, <1>9, <2>2, <2>3 DEF Produced, Alike
<1>12. ~Free(s) BY DEF Free
<1>13. Kept(r) BY <1>1, <1>2, <1>7, <1>8, <1>9, <1>10, <1>11, <1>12, MovedKeeps DEF Resting
<1> QED BY <1>1, <1>8, <1>9, <1>13 DEF Resting, r, t

(* The next block of a file (cgiEspFsHook, cgiEspFsTemplate) ...           *)
LEMMA BlockSent ==
  ASSUME NEW s, Resting(s), Free(s), Filing(s), s.left > 0
  PROVE  LET r == FileBlock(s)
         IN  Kept(r) /\ r.req = s.req /\ r.sent = s.sent
<1> DEFINE w == Send(s, <<"block">>)
           r == FileBlock(s)
           h == <<"head">>
<1>1. s \in HttpdConnData /\ Steady(s) /\ s.buff = <<>> BY DEF Resting, Kept, Steady
<1>2. PICK n \in Nat, m \in Nat : n = s.left /\ m = s.req.blocks BY <1>1, Fields, Requests
<1>3. n > 0 /\ n <= m BY <1>2 DEF Filing
<1>4. r = [w EXCEPT !.left = n - 1]
  <2>1. <<"block">> \in Seq(Piece) BY DEF Piece
  <2>2. w \in HttpdConnData /\ w.left = s.left BY <1>1, <2>1, SendIs DEF SendsTo, Same
  <2> HIDE DEF w
  <2>3. FileBlock(s) = [w EXCEPT !.left = @ - 1] BY DEF FileBlock, w
  <2> QED BY <1>2, <2>2, <2>3
<1>5. SendsTo(s, <<"block">>, w)
  <2>1. <<"block">> \in Seq(Piece) BY DEF Piece
  <2> QED BY <1>1, <2>1, SendIs
<1> HIDE DEF w, r, h
<1>6. n - 1 \in Nat /\ n - 1 <= m /\ m - n \in Nat /\ m - (n - 1) = (m - n) + 1
  BY <1>2, <1>3
<1>7. /\ r \in HttpdConnData /\ r.left = n - 1 /\ Beside(w, r) /\ r.cgi = w.cgi
      /\ r.buff = w.buff /\ r.flags = w.flags /\ r.opened = w.opened /\ r.upload = w.upload
      /\ r.early = w.early /\ r.req = w.req /\ r.sent = w.sent /\ r.got = w.got
  BY <1>4, <1>5, <1>6 DEF SendsTo, HttpdConnData, Beside
<1>8. /\ r.left = n - 1 /\ Beside(s, r) /\ r.cgi = s.cgi /\ r.flags = s.flags
      /\ r.opened = s.opened /\ r.upload = s.upload /\ r.early = s.early
      /\ r.req = s.req /\ r.sent = s.sent /\ r.got = s.got /\ r.buff = <<"block">>
  <2>1. <<>> \o <<"block">> = <<"block">> OBVIOUS
  <2> QED BY <1>1, <1>5, <1>7, <2>1 DEF SendsTo, Same, Beside
<1>9. Free(r) BY <1>8 DEF Beside, Free
<1>10. Produced(r) = h \o Blocks(m - (n - 1))
  <2>1. s.got = h \o Blocks(m - n)
    <3>1. Produced(s) = s.got \o <<>> BY <1>1, FreeProduced
    <3>2. s.got \o <<>> = s.got BY <1>1, Fields
    <3> QED BY <1>2, <3>1, <3>2 DEF Filing, h
  <2>2. Produced(r) = r.got \o r.buff BY <1>7, <1>9, FreeProduced
  <2>3. h \in Seq(Piece) BY DEF h, Piece
  <2>4. PICK b, x : /\ b \in Seq(Piece) /\ x \in Seq(Piece) /\ b = Blocks(m - n) /\ x = <<"block">>
                    /\ b \o x = Blocks((m - n) + 1)
    <3>1. <<"block">> \in Seq(Piece) BY DEF Piece
    <3> QED BY <1>6, <3>1, BlocksAre
  <2>5. (h \o b) \o x = h \o (b \o x) BY <2>3, <2>4, ConcatAssociative
  <2> QED BY <1>6, <1>8, <2>1, <2>2, <2>4, <2>5
<1>11. Filing(r) BY <1>2, <1>6, <1>8, <1>10 DEF Filing, Beside, h
<1>12. Steady(r) BY <1>1, <1>7, <1>8, <1>9 DEF Steady, TxOK, Free
<1>13. r.buffLen < MAX_POST BY <1>8 DEF Beside, Resting, Kept
<1> QED BY <1>8, <1>11, <1>12, <1>13 DEF Resting, Kept, Phase, r

(* ... and its end.                                                        *)
LEMMA FileEnds ==
  ASSUME NEW s, Resting(s), Free(s), Filing(s), ~(s.left > 0)
  PROVE  LET r == FileBlock(s)
         IN  Kept(r) /\ r.req = s.req /\ r.sent = s.sent
<1> DEFINE x == Last(s.req)
           w == Send(s, x)
           y == [w EXCEPT !.opened = FALSE]
           r == FileBlock(s)
           h == <<"head">>
<1>1. s \in HttpdConnData /\ Steady(s) /\ s.buff = <<>> BY DEF Resting, Kept, Steady
<1>2. s.left = 0 BY <1>1, Fields
<1>3. x \in Seq(Piece)
  <2>1. <<>> \in Seq(Piece) /\ <<"block">> \in Seq(Piece) BY DEF Piece
  <2> QED BY <2>1 DEF Last
<1>4. r = httpdCgiIsDone(y) BY <1>2 DEF FileBlock, Last
<1> HIDE DEF x, r, h
<1>5. SendsTo(s, x, w) BY <1>1, <1>3, SendIs
<1> HIDE DEF w
<1>6. w \in HttpdConnData BY <1>5 DEF SendsTo
<1>7. /\ y \in HttpdConnData /\ Beside(w, y) /\ y.cgi = w.cgi /\ y.buff = w.buff
      /\ y.flags = w.flags /\ ~y.opened /\ y.left = w.left /\ y.upload = w.upload
      /\ y.early = w.early /\ y.req = w.req /\ y.sent = w.sent /\ y.got = w.got
  BY <1>6, CloseIs
<1> HIDE DEF y
<1>8. /\ Beside(s, y) /\ y.buff = x /\ y.flags = Keeps(y.req) \cup {"SENDINGBODY"}
      /\ ~y.opened /\ y.left = 0 /\ y.upload = s.upload /\ ~y.early /\ y.req = s.req
      /\ y.sent = s.sent /\ y.got = s.got
  <2>1. <<>> \o x = x BY <1>3
  <2> QED BY <1>1, <1>2, <1>5, <1>7, <2>1 DEF SendsTo, Same, Beside, Filing
<1>9. Free(y) BY <1>8 DEF Beside, Free
<1>10. /\ r \in HttpdConnData /\ Same(y, r) /\ r.cgi = "NULL" /\ Done(r)
       /\ ~y.req.keep => r.len = y.len /\ r.received = y.received /\ r.buffLen = y.buffLen
       /\ TxOK(r) /\ (r.buff # <<>> => Free(r))
       /\ Produced(r) = y.got \o (y.buff \o End(y.req))
  BY <1>4, <1>7, <1>8, <1>9, DoneIs
<1>11. s.req \in Forms \cup Files \cup FirmwareFiles /\ s.req.kind = "file" /\ s.req.body = 0
  BY <1>1, Fields, Requests DEF Filing
<1>12. Produced(r) = Answer(s.req)
  <2>1. s.got = h \o Blocks(s.req.blocks)
    <3>1. Produced(s) = s.got \o <<>> BY <1>1, FreeProduced
    <3>2. s.got \o <<>> = s.got BY <1>1, Fields
    <3>3. s.req.blocks - s.left = s.req.blocks BY <1>2, <1>11, Requests
    <3> QED BY <3>1, <3>2, <3>3 DEF Filing, h
  <2> QED BY <1>8, <1>10, <1>11, <2>1, AnswerIs DEF x, h
<1>13. r.req = s.req /\ r.sent = s.sent /\ Unused(r) BY <1>8, <1>10 DEF Same, Unused
<1>14. ~r.req.keep => r.len = r.req.body /\ r.received = r.req.body /\ r.buffLen = 0
  BY <1>8, <1>10, <1>11, <1>13 DEF Beside, Filing
<1>15. Answering(r)
  BY <1>10, <1>11, <1>12, <1>13, <1>14 DEF Answering, Filing
<1>16. Steady(r) BY <1>1, <1>8, <1>10 DEF Steady, Same
<1>17. r.buffLen < MAX_POST
  <2>1. r.buffLen = 0 BY <1>10, <1>14 DEF Done
  <2> QED BY <2>1, HttpdAssumption
<1> QED BY <1>13, <1>15, <1>16, <1>17 DEF Resting, Kept, Phase, r

(* An upload may be called back before its block is complete, because      *)
(* something was sent: from then on it is marked, for the block it is      *)
(* given it will be given once more.                                       *)
LEMMA CalledEarly ==
  ASSUME NEW s, Resting(s), Uploading(s)
  PROVE  LET r == UploadBlock([s EXCEPT !.early = @ \/ s.buffLen > 0])
         IN  Kept(r) /\ r.req = s.req /\ r.sent = s.sent
<1> DEFINE e == s.early \/ s.buffLen > 0
           t == [s EXCEPT !.early = e]
           r == UploadBlock(t)
<1>1. s \in HttpdConnData /\ Steady(s) /\ InBody(s) /\ Sized(s.req)
  BY DEF Resting, Kept, Steady, Uploading
<1>2. t = [s EXCEPT !.early = @ \/ s.buffLen > 0] BY <1>1 DEF HttpdConnData
<1>3. e \in BOOLEAN BY <1>1, Fields
<1>4. /\ t \in HttpdConnData /\ t.early = e /\ t.len = s.len /\ t.received = s.received
      /\ t.buffLen = s.buffLen /\ t.cgi = s.cgi /\ t.left = s.left /\ t.opened = s.opened
      /\ t.upload = s.upload /\ t.flags = s.flags /\ t.req = s.req /\ t.sent = s.sent
      /\ t.got = s.got /\ t.buff = s.buff /\ t.tx = s.tx /\ t.backlog = s.backlog
  BY <1>1, <1>3 DEF HttpdConnData
<1> HIDE DEF t
<1>5. PICK n \in Nat, b \in Nat, k \in Nat, x \in Nat :
        n = s.received /\ b = s.req.body /\ k = s.sent /\ x = s.buffLen
  BY <1>1, Fields, Requests
<1>6. n < b /\ k = HEAD + n /\ n <= b /\ n # b /\ x <= n
  BY <1>1, <1>5 DEF InBody, Pieces, HEAD
<1>7. ~e => ~s.early /\ x = 0 /\ n - x = n BY <1>5
<1>8. InBlock(t)
  <2>1. Silent(t) BY <1>1, <1>4 DEF InBody, Silent, Free
  <2>2. t.early \/ Good(t.req.image, t.upload, t.received - t.buffLen)
    BY <1>4, <1>5, <1>7 DEF Uploading
  <2> QED BY <1>1, <1>4, <1>5, <1>6, <2>1, <2>2 DEF InBlock, Uploading, InBody, Sized
<1>9. t.received # t.len BY <1>1, <1>4, <1>5, <1>6 DEF InBody
<1>10. Sane(t.upload) BY <1>1, <1>4 DEF Steady
<1> HIDE DEF r, e
<1>11. /\ Steady(r) /\ Silent(r) /\ r.len = t.len /\ r.received = t.received
       /\ r.buffLen = t.buffLen /\ r.cgi = t.cgi /\ r.left = t.left
       /\ r.opened = t.opened /\ r.early = t.early /\ r.flags = t.flags
       /\ r.req = t.req /\ r.sent = t.sent
       /\ t.early \/ Good(t.req.image, r.upload, t.received)
  BY <1>4, <1>8, <1>9, <1>10, UploadMore DEF r
<1>12. r.early \/ Good(r.req.image, r.upload, r.received - r.buffLen)
  <2>1. CASE e BY <1>4, <1>11, <2>1
  <2>2. CASE ~e
    <3>1. r.received - r.buffLen = n /\ t.received = n /\ ~t.early /\ r.req = t.req
      BY <1>4, <1>5, <1>7, <1>11, <2>2 DEF e
    <3> QED BY <1>11, <3>1
  <2> QED BY <2>1, <2>2
<1>13. InBody(r)
  <2>1. BuffSize(r) = BuffSize(s) BY <1>4, <1>11 DEF BuffSize
  <2> QED BY <1>1, <1>4, <1>11, <2>1 DEF InBody
<1>14. Uploading(r) BY <1>4, <1>11, <1>12, <1>13 DEF Uploading
<1>15. r.buffLen < MAX_POST BY <1>4, <1>11 DEF Resting, Kept
<1> QED BY <1>1, <1>2, <1>4, <1>11, <1>14, <1>15 DEF Kept, Phase, r, t

(* httpdContinue, when a buffer has been sent.                             *)
LEMMA ContinueKeeps ==
  ASSUME NEW s, Resting(s), s.tx = "arrived"
  PROVE  LET r == httpdContinue(Idle(s))
         IN  Resting(r) /\ r.req = s.req /\ r.sent = s.sent
<1> DEFINE t == Idle(s)
           r == httpdContinue(t)
<1>1. /\ t \in HttpdConnData /\ Alike(s, t) /\ t.buff = <<>> /\ t.backlog = s.backlog
      /\ (s.backlog = <<>> => Resting(t) /\ Free(t))
  BY IdleIs
<1>2. CASE s.backlog # <<>>
  <2>1. r = SendBacklog(t) BY <1>1, <1>2 DEF httpdContinue
  <2> QED BY <1>2, <2>1, BacklogKeeps DEF Alike
<1> HIDE DEF t
<1>3. CASE s.backlog = <<>>
  <2>1. Resting(t) /\ Free(t) /\ t.req = s.req /\ t.sent = s.sent BY <1>1, <1>3 DEF Alike
  <2>2. CASE "DISCONAFTERSENT" \in t.flags \/ t.cgi = "NULL"
    <3>1. r = t BY <1>1, <1>3, <2>2 DEF httpdContinue
    <3> QED BY <2>1, <3>1 DEF t
  <2>3. CASE ~("DISCONAFTERSENT" \in t.flags \/ t.cgi = "NULL")
    <3> DEFINE w == CallAgain(t)
    <3>1. r = httpdFlushSendBuffer(w) BY <1>1, <1>3, <2>3 DEF httpdContinue
    <3>2. Filing(t) \/ Uploading(t)
      BY <2>1, <2>3 DEF Resting, Kept, Phase, Receiving, Reading, Answering, Unused
    <3>3. Kept(w) /\ w.req = t.req /\ w.sent = t.sent
      <4>1. CASE Filing(t)
        <5>1. w = FileBlock(t) BY <4>1 DEF CallAgain, Filing
        <5> QED BY <2>1, <4>1, <5>1, BlockSent, FileEnds
      <4>2. CASE Uploading(t)
        <5>1. w = UploadBlock([t EXCEPT !.early = @ \/ t.buffLen > 0])
          BY <4>2 DEF CallAgain, Uploading
        <5> QED BY <2>1, <4>2, <5>1, CalledEarly
      <4> QED BY <3>2, <4>1, <4>2
    <3> HIDE DEF w, r
    <3>4. Steady(r) /\ Phase(r) /\ r.buff = <<>> /\ Alike(w, r)
      BY <3>1, <3>3, FlushSteady DEF Kept
    <3> QED BY <2>1, <3>3, <3>4 DEF Resting, Kept, Alike, r, t
  <2> QED BY <2>2, <2>3
<1> QED BY <1>2, <1>3

-----------------------------------------------------------------------------
(* The invariant of the connections.                                       *)

(* The upload before the first block.                                      *)
LEMMA UploadStartIs == UploadStart \in UploadState /\ Sane(UploadStart)
<1>1. fw1Pos \in Nat /\ Old \in Int /\ PAGELEN \in Nat \ {0} BY FlashLayout, CellValues
<1>2. <<>> \in Seq(Int) /\ Len(<<>>) = 0 OBVIOUS
<1>3. UploadStart \in UploadState BY <1>1, <1>2 DEF UploadStart, UploadState
<1>4. Len(UploadStart.page) < PAGELEN BY <1>1, <1>2 DEF UploadStart
<1> QED BY <1>3, <1>4 DEF Sane

(* What is asked on a connection not yet used.                             *)
LEMMA AnyRequestIs ==
  /\ AnyRequest \in Forms /\ AnyRequest.kind = "short" /\ AnyRequest.keep
  /\ AnyRequest.body = 0 /\ AnyRequest.blocks = 0
<1>1. MAX_POST \in Nat BY HttpdAssumption
<1>2. 0 \in 0..MAX_POST BY <1>1
<1>3. AnyRequest = [kind |-> "short", blocks |-> 0, tail |-> FALSE, image |-> NoImage,
                    body |-> 0, keep |-> TRUE]
  BY DEF AnyRequest, Form, Ask
<1> QED BY <1>2, <1>3 DEF Forms

(* Every request of a client is one a browser may send.                    *)
LEMMA RequestsAre ==
  ASSUME NEW c, NEW r \in Request(c) \cup {AnyRequest}
  PROVE  r \in Forms \cup Files \cup FirmwareFiles /\ Sized(r)
<1>1. CASE r = AnyRequest BY <1>1, AnyRequestIs DEF Sized
<1>2. CASE r \in Uploads BY <1>2, HttpdAssumption DEF Sized
<1>3. CASE r \in Pages
  <2>1. r \in Forms \cup Files BY <1>3, HttpdAssumption
  <2>2. r.kind # "upload" BY <2>1 DEF Forms, Files
  <2> QED BY <2>1, <2>2 DEF Sized
<1> QED BY <1>1, <1>2, <1>3 DEF Request

(* A new connection.                                                       *)
LEMMA FreshIs == Resting(Fresh)
<1>1. AnyRequest \in Forms \cup Files \cup FirmwareFiles BY AnyRequestIs
<1>2. Answer(AnyRequest) \in Seq(Piece) BY <1>1, AnswerIs
<1>3. HEAD \in Nat /\ <<>> \in Seq(Piece) /\ <<>> \in Seq(Seq(Piece)) /\ {} \in SUBSET Flags
  BY DEF HEAD
<1>4. UploadStart \in UploadState /\ Sane(UploadStart) BY UploadStartIs
<1> DEFINE a == Answer(AnyRequest)
<1> HIDE DEF a
<1>5. Fresh = [len |-> -1, received |-> 0, buffLen |-> 0, cgi |-> "NULL", left |-> 0,
               opened |-> FALSE, upload |-> UploadStart, early |-> FALSE, flags |-> {},
               buff |-> <<>>, backlog |-> <<>>, tx |-> "idle", flight |-> <<>>,
               req |-> AnyRequest, sent |-> HEAD, got |-> a]
  BY DEF Fresh, a
<1>6. Fresh \in HttpdConnData
  <2>1. a \in Seq(Piece) BY <1>2 DEF a
  <2> QED BY <1>1, <1>3, <1>4, <1>5, <2>1 DEF HttpdConnData
<1>7. /\ Fresh.len = -1 /\ Fresh.received = 0 /\ Fresh.buffLen = 0 /\ Fresh.cgi = "NULL"
      /\ Fresh.left = 0 /\ ~Fresh.opened /\ Fresh.upload = UploadStart /\ ~Fresh.early
      /\ Fresh.flags = {} /\ Fresh.buff = <<>> /\ Fresh.backlog = <<>> /\ Fresh.tx = "idle"
      /\ Fresh.req = AnyRequest /\ Fresh.sent = HEAD /\ Fresh.got = a
  BY <1>5
<1>8. Free(Fresh) BY <1>7 DEF Free
<1>9. Produced(Fresh) = Answer(AnyRequest)
  <2>1. Produced(Fresh) = Fresh.got \o Fresh.buff BY <1>6, <1>8, FreeProduced
  <2>2. a \o <<>> = a BY <1>2 DEF a
  <2> QED BY <1>7, <2>1, <2>2 DEF a
<1>10. Fresh.sent = Pieces(Fresh.req) BY <1>7, AnyRequestIs DEF Pieces, HEAD
<1>11. Answering(Fresh)
  BY <1>7, <1>8, <1>9, <1>10, AnyRequestIs DEF Answering, Unused, Done
<1>12. Steady(Fresh) BY <1>4, <1>6, <1>7 DEF Steady, TxOK
<1>13. Fresh.buffLen < MAX_POST BY <1>7, HttpdAssumption
<1> QED BY <1>7, <1>11, <1>12, <1>13, AnyRequestIs DEF Resting, Kept, Phase, Sized

(* The invariant holds at the start, ...                                   *)
LEMMA InitConnInv == Init => ConnInv
<1> SUFFICES ASSUME Init PROVE ConnInv
  OBVIOUS
<1>1. Fresh \in HttpdConnData BY FreshIs DEF Resting, Kept, Steady
<1>2. Fresh.req = AnyRequest BY DEF Fresh
<1>3. conn = [c \in Clients |-> Fresh] /\ socket = [c \in Clients |-> "closed"] BY DEF Init
<1> QED BY <1>1, <1>2, <1>3, FreshIs DEF ConnInv, ConnOK

(* A callback that changes one connection keeps the invariant if it does   *)
(* for this one: the others' are left alone.                               *)
LEMMA OneConn ==
  ASSUME ConnInv, NEW c \in Clients, NEW r \in HttpdConnData,
         conn' = [conn EXCEPT ![c] = r],
         NEW st \in {"closed", "open", "closing"}, socket' = [socket EXCEPT ![c] = st],
         Resting(r), r.req \in Request(c) \cup {AnyRequest}, st = "closed" => r = Fresh
  PROVE  ConnInv'
<1>1. conn \in [Clients -> HttpdConnData] /\ socket \in [Clients -> {"closed", "open", "closing"}]
  BY DEF ConnInv
<1>2. conn' \in [Clients -> HttpdConnData] /\ socket' \in [Clients -> {"closed", "open", "closing"}]
  BY <1>1
<1>3. conn'[c] = r /\ socket'[c] = st BY <1>1
<1>4. \A d \in Clients : d # c => conn'[d] = conn[d] /\ socket'[d] = socket[d] BY <1>1
<1>5. \A d \in Clients : ConnOK(d) BY DEF ConnInv
<1>6. \A d \in Clients : ConnOK(d)' BY <1>3, <1>4, <1>5 DEF ConnOK
<1> QED BY <1>2, <1>6 DEF ConnInv

(* A socket that stays as it is.                                           *)
LEMMA SameSocket ==
  ASSUME ConnInv, NEW c \in Clients, socket' = socket
  PROVE  socket[c] \in {"closed", "open", "closing"} /\ socket' = [socket EXCEPT ![c] = socket[c]]
BY DEF ConnInv

(* ... after a packet has come in, ...                                     *)
LEMMA RecvConn ==
  ASSUME ConnInv, NEW c \in Clients, NEW k \in 1..Pieces(conn[c].req), httpdRecvCb(c, k)
  PROVE  ConnInv'
<1> DEFINE s == conn[c]
           p == Packet(s, k)
           r == httpdFlushSendBuffer(p)
<1>1. Resting(s) /\ s.req \in Request(c) \cup {AnyRequest} BY DEF ConnInv, ConnOK
<1>2. /\ socket[c] = "open" /\ s.sent + k <= Pieces(s.req) /\ conn' = [conn EXCEPT ![c] = r]
      /\ socket' = socket
  BY DEF httpdRecvCb
<1>3. k \in Nat
  <2>1. s.req.body \in Nat BY <1>1, Fields, Requests DEF Resting, Kept, Steady
  <2>2. Pieces(s.req) \in Nat BY <2>1 DEF Pieces, HEAD
  <2> QED BY <2>2
<1>4. Kept(p) /\ p.req = s.req BY <1>1, <1>2, <1>3, PacketKeeps DEF Resting
<1> HIDE DEF p, s
<1>5. Steady(r) /\ Phase(r) /\ r.buff = <<>> /\ Alike(p, r) BY <1>4, FlushSteady DEF Kept
<1> HIDE DEF r
<1>6. Resting(r) /\ r.req = s.req /\ r \in HttpdConnData
  BY <1>4, <1>5 DEF Resting, Kept, Alike, Steady
<1> QED BY <1>1, <1>2, <1>6, SameSocket, OneConn DEF s

(* ... after a buffer has been sent, ...                                   *)
LEMMA SentConn ==
  ASSUME ConnInv, NEW c \in Clients, httpdSentCb(c)
  PROVE  ConnInv'
<1> DEFINE s == conn[c]
           r == httpdContinue(Idle(s))
           st == IF Disconnects(Idle(s)) THEN "closing" ELSE socket[c]
<1>1. Resting(s) /\ s.req \in Request(c) \cup {AnyRequest} BY DEF ConnInv, ConnOK
<1>2. /\ socket[c] = "open" /\ s.tx = "arrived" /\ conn' = [conn EXCEPT ![c] = r]
      /\ socket' = [socket EXCEPT ![c] = st]
  BY DEF httpdSentCb, Idle, ConnInv
<1> HIDE DEF s
<1>3. Resting(r) /\ r.req = s.req BY <1>1, <1>2, ContinueKeeps
<1>4. st \in {"open", "closing"} BY <1>2
<1>5. r \in HttpdConnData BY <1>3 DEF Resting, Kept, Steady
<1> HIDE DEF r, st
<1> QED BY <1>1, <1>2, <1>3, <1>4, <1>5, OneConn

(* A connection has a file open if and only if it has a handler.           *)
LEMMA UnusedIsClosed ==
  ASSUME NEW s, Resting(s)
  PROVE  /\ s.cgi = "NULL" => ~s.opened
         /\ s.cgi # "NULL" => s.opened
BY DEF Resting, Kept, Phase, Receiving, Reading, Uploading, Filing, Answering, Unused

(* A new connection has no file to close.                                  *)
LEMMA FreshClosed == [Fresh EXCEPT !.opened = FALSE] = Fresh
<1>1. Fresh.opened = FALSE BY DEF Fresh
<1>2. PICK s \in HttpdConnData : s = Fresh BY FreshIs DEF Resting, Kept, Steady
<1>3. [s EXCEPT !.opened = s.opened] = s BY DEF HttpdConnData
<1> QED BY <1>1, <1>2, <1>3

(* ... after a connection has been made, ...                               *)
LEMMA ConnectConn ==
  ASSUME ConnInv, NEW c \in Clients, httpdConnectCb(c)
  PROVE  ConnInv'
<1>1. socket[c] = "closed" /\ socket' = [socket EXCEPT ![c] = "open"]
      /\ conn' = [conn EXCEPT ![c] = [Fresh EXCEPT !.opened = conn[c].opened]]
  BY DEF httpdConnectCb
<1>2. conn[c] = Fresh BY <1>1 DEF ConnInv, ConnOK
<1>3. Fresh.opened = FALSE /\ Fresh.req = AnyRequest BY DEF Fresh
<1>4. conn' = [conn EXCEPT ![c] = Fresh] BY <1>1, <1>2, <1>3, FreshClosed
<1>5. Fresh \in HttpdConnData BY FreshIs DEF Resting, Kept, Steady
<1> QED BY <1>1, <1>3, <1>4, <1>5, FreshIs, OneConn

(* ... after one has been lost, ...                                        *)
LEMMA DisconConn ==
  ASSUME ConnInv, NEW c \in Clients, httpdDisconCb(c)
  PROVE  ConnInv'
<1> DEFINE s == conn[c]
<1>1. socket' = [socket EXCEPT ![c] = "closed"]
      /\ conn' = [conn EXCEPT ![c] = [Fresh EXCEPT !.opened = CleanUp(s).opened]]
  BY DEF httpdDisconCb
<1>2. Resting(s) /\ s \in HttpdConnData BY DEF ConnInv, ConnOK
<1> HIDE DEF s
<1>3. CleanUp(s).opened = FALSE
  <2>1. CASE s.cgi = "NULL"
    <3>1. s.opened \in BOOLEAN /\ ~s.opened BY <1>2, <2>1, Fields, UnusedIsClosed
    <3> QED BY <2>1, <3>1 DEF CleanUp
  <2>2. CASE s.cgi # "NULL" BY <1>2, <2>2 DEF CleanUp, HttpdConnData
  <2> QED BY <2>1, <2>2
<1>4. Fresh.req = AnyRequest BY DEF Fresh
<1>5. conn' = [conn EXCEPT ![c] = Fresh] BY <1>1, <1>3, FreshClosed
<1>6. Fresh \in HttpdConnData BY FreshIs DEF Resting, Kept, Steady
<1> QED BY <1>1, <1>4, <1>5, <1>6, FreshIs, OneConn

(* ... when what was sent has come to the browser, ...                     *)
LEMMA ArriveConn ==
  ASSUME ConnInv, NEW c \in Clients, Arrive(c)
  PROVE  ConnInv'
<1> DEFINE s == conn[c]
           g == s.got \o s.flight
           r == [s EXCEPT !.tx = "arrived", !.got = g]
<1>1. /\ Resting(s) /\ s \in HttpdConnData /\ s.req \in Request(c) \cup {AnyRequest}
      /\ s.buff = <<>> /\ Steady(s) /\ Phase(s)
  BY DEF ConnInv, ConnOK, Resting, Kept, Steady
<1>2. /\ socket[c] # "closed" /\ s.tx = "sending" /\ conn' = [conn EXCEPT ![c] = r]
      /\ socket' = socket
  <2>1. conn' = [conn EXCEPT ![c] = r] BY DEF Arrive
  <2>2. socket[c] # "closed" /\ s.tx = "sending" /\ socket' = socket BY DEF Arrive
  <2> QED BY <2>1, <2>2
<1> HIDE DEF s
<1>3. s.backlog = <<>> /\ s.got \in Seq(Piece) /\ s.flight \in Seq(Piece)
  BY <1>1, <1>2, Fields DEF Steady, TxOK
<1>4. g \in Seq(Piece) BY <1>3, Joined
<1> HIDE DEF g
<1>5. /\ r \in HttpdConnData /\ r.tx = "arrived" /\ r.got = g
      /\ r.len = s.len /\ r.received = s.received /\ r.buffLen = s.buffLen /\ r.cgi = s.cgi
      /\ r.left = s.left /\ r.opened = s.opened /\ r.upload = s.upload /\ r.early = s.early
      /\ r.flags = s.flags /\ r.req = s.req /\ r.sent = s.sent
      /\ r.buff = s.buff /\ r.backlog = s.backlog
  <2>1. r \in HttpdConnData BY <1>1, <1>4 DEF HttpdConnData
  <2>2. r.tx = "arrived" /\ r.got = g BY <1>1 DEF HttpdConnData
  <2>3. /\ r.len = s.len /\ r.received = s.received /\ r.buffLen = s.buffLen /\ r.cgi = s.cgi
        /\ r.left = s.left /\ r.opened = s.opened /\ r.upload = s.upload /\ r.early = s.early
    BY <1>1 DEF HttpdConnData
  <2>4. /\ r.flags = s.flags /\ r.req = s.req /\ r.sent = s.sent
        /\ r.buff = s.buff /\ r.backlog = s.backlog
    BY <1>1 DEF HttpdConnData
  <2> QED BY <2>1, <2>2, <2>3, <2>4
<1> HIDE DEF r
<1>6. Free(r) /\ TxOK(r) BY <1>3, <1>5 DEF Free, TxOK
<1>7. Produced(r) = Produced(s)
  <2>1. Waiting(s) = s.flight
    <3>1. s.flight \o <<>> = s.flight BY <1>3
    <3> QED BY <1>2, <1>3, <3>1 DEF Waiting
  <2>2. Produced(r) = g \o <<>> BY <1>1, <1>5, <1>6, FreeProduced
  <2> QED BY <1>1, <2>1, <2>2 DEF Produced, g
<1>8. Filing(s) \/ Answering(s)
  BY <1>1, <1>2 DEF Phase, Receiving, Reading, Uploading, InBody, Silent, Free
<1>9. ASSUME Filing(s) PROVE Phase(r)
  <2>1. Filing(r) BY <1>5, <1>7, <1>9 DEF Filing
  <2> QED BY <2>1 DEF Phase
<1>10. ASSUME Answering(s) PROVE Phase(r)
  <2>1. Unused(r) /\ Done(r) BY <1>5, <1>10 DEF Answering, Unused, Done
  <2>2. Answering(r) BY <1>5, <1>6, <1>7, <1>10, <2>1 DEF Answering
  <2> QED BY <2>2 DEF Phase
<1>11. Resting(r)
  <2>1. Phase(r) BY <1>8, <1>9, <1>10
  <2>2. Steady(r) BY <1>1, <1>5, <1>6 DEF Steady
  <2> QED BY <1>1, <1>5, <2>1, <2>2 DEF Resting, Kept
<1>12. r.req \in Request(c) \cup {AnyRequest} BY <1>1, <1>5
<1> QED BY <1>2, <1>5, <1>11, <1>12, SameSocket, OneConn

(* A browser that has the whole answer has it all.                         *)
LEMMA NothingWaits ==
  ASSUME NEW s \in HttpdConnData, TxOK(s), Waiting(s) = <<>>
  PROVE  Free(s)
<1>1. ASSUME s.backlog # <<>> PROVE FALSE
  <2>1. s.tx = "arrived" /\ Head(s.backlog) # <<>> /\ Len(s.backlog) = 1
    BY <1>1 DEF TxOK
  <2>2. PICK q \in Seq(Seq(Piece)) : q = s.backlog BY Fields
  <2>3. Head(q) \in Seq(Piece) BY <1>1, <2>2, HeadTailProperties
  <2>4. Waiting(s) = <<>> \o Head(q) BY <1>1, <2>1, <2>2 DEF Waiting
  <2>5. <<>> \o Head(q) = Head(q) BY <2>3
  <2> QED BY <2>1, <2>2, <2>4, <2>5
<1>2. ASSUME s.tx = "sending", s.backlog = <<>> PROVE FALSE
  <2>1. s.flight # <<>> /\ s.flight \in Seq(Piece) BY <1>2, Fields DEF TxOK
  <2>2. Waiting(s) = s.flight \o <<>> BY <1>2 DEF Waiting
  <2>3. s.flight \o <<>> = s.flight BY <2>1
  <2> QED BY <2>1, <2>2, <2>3
<1> QED BY <1>1, <1>2 DEF Free

(* What is added to a sequence without changing it is empty.               *)
LEMMA NothingAdded ==
  ASSUME NEW x \in Seq(Piece), NEW y \in Seq(Piece), NEW z \in Seq(Piece), (x \o y) \o z = x
  PROVE  y = <<>> /\ z = <<>>
<1>1. x \o y \in Seq(Piece) /\ Len(x \o y) = Len(x) + Len(y) BY Joined
<1>2. Len((x \o y) \o z) = Len(x \o y) + Len(z) BY <1>1, Joined
<1>3. Len(y) = 0 /\ Len(z) = 0
  <2>1. Len(x) \in Nat /\ Len(y) \in Nat /\ Len(z) \in Nat OBVIOUS
  <2> QED BY <1>1, <1>2, <2>1
<1>4. \A S : \A t \in Seq(S) : t # <<>> => Len(t) \in Nat \ {0} BY EmptySeq
<1> QED BY <1>3, <1>4

(* The output under way.                                                   *)
LEMMA WaitingType ==
  ASSUME NEW s \in HttpdConnData
  PROVE  Waiting(s) \in Seq(Piece)
<1>1. <<>> \in Seq(Piece) /\ s.flight \in Seq(Piece) BY Fields
<1>2. PICK q \in Seq(Seq(Piece)) : q = s.backlog BY Fields
<1>3. q # <<>> => Head(q) \in Seq(Piece) BY HeadTailProperties
<1> DEFINE x == IF s.tx = "sending" THEN s.flight ELSE <<>>
           y == IF s.backlog = <<>> THEN <<>> ELSE Head(s.backlog)
<1>4. x \in Seq(Piece) /\ y \in Seq(Piece) BY <1>1, <1>2, <1>3
<1>5. Waiting(s) = x \o y BY DEF Waiting
<1> HIDE DEF x, y
<1> QED BY <1>4, <1>5, Joined

(* A browser that has the whole answer: the handler is done and nothing is *)
(* under way.                                                              *)
LEMMA AnsweredIs ==
  ASSUME NEW s, Resting(s), s.req.keep, s.got = Answer(s.req)
  PROVE  Answering(s) /\ Free(s)
<1>1. s \in HttpdConnData /\ TxOK(s) /\ s.buff = <<>> /\ Phase(s) BY DEF Resting, Kept, Steady
<1>2. s.req \in Forms \cup Files \cup FirmwareFiles BY <1>1, Fields
<1>3. s.got # <<>> /\ s.got \in Seq(Piece) BY <1>2, AnswerIs
<1>4. Waiting(s) \in Seq(Piece) /\ s.buff \in Seq(Piece) BY <1>1, Fields, WaitingType
<1>5. ASSUME Filing(s) PROVE FALSE
  <2>1. PICK n \in Nat, m \in Nat : n = s.left /\ m = s.req.blocks BY <1>1, <1>2, Fields, Requests
  <2>2. n <= m /\ m - n \in Nat /\ m - n <= m BY <1>5, <2>1 DEF Filing
  <2>3. PICK h, b, e, l, t :
          /\ h \in Seq(Piece) /\ b \in Seq(Piece) /\ e \in Seq(Piece) /\ l \in Seq(Piece) /\ t \in Seq(Piece)
          /\ h = <<"head">> /\ b = Blocks(m) /\ e = Blocks(m - n) /\ l = Last(s.req) /\ t = End(s.req)
          /\ Len(b) = m /\ Len(e) = m - n /\ Len(t) = 1
    <3>1. <<"head">> \in Seq(Piece) /\ <<"block">> \in Seq(Piece) /\ <<"end">> \in Seq(Piece)
      BY DEF Piece
    <3>2. <<>> \in Seq(Piece) OBVIOUS
    <3>3. Last(s.req) \in Seq(Piece) BY <3>1, <3>2 DEF Last
    <3>4. End(s.req) \in Seq(Piece) /\ Len(End(s.req)) = 1 BY <3>1 DEF End
    <3> QED BY <2>1, <2>2, <3>1, <3>3, <3>4, BlocksAre
  <2>4. s.got = (h \o b) \o (l \o t) BY <1>2, <1>5, <2>1, <2>3, AnswerIs DEF Filing
  <2>5. (s.got \o Waiting(s)) \o s.buff = h \o e BY <1>5, <2>1, <2>3 DEF Filing, Produced
  <2>6. PICK x \in Nat, y \in Nat, L \in Nat, H \in Nat :
          x = Len(s.got) /\ y = Len(Waiting(s)) /\ L = Len(l) /\ H = Len(h)
    BY <1>3, <1>4, <2>3
  <2>7. x = (H + m) + (L + 1)
    <3>1. h \o b \in Seq(Piece) /\ Len(h \o b) = H + m BY <2>3, <2>6, Joined
    <3>2. l \o t \in Seq(Piece) /\ Len(l \o t) = L + 1
      <4>1. l \in Seq(Piece) /\ t \in Seq(Piece) BY <2>3
      <4>2. l \o t \in Seq(Piece) /\ Len(l \o t) = Len(l) + Len(t) BY <4>1, Joined
      <4> QED BY <2>3, <2>6, <4>2
    <3>3. Len((h \o b) \o (l \o t)) = Len(h \o b) + Len(l \o t) BY <3>1, <3>2, Joined
    <3> QED BY <2>4, <2>6, <3>1, <3>2, <3>3
  <2>8. x + y + 0 = H + (m - n)
    <3>1. s.got \o Waiting(s) \in Seq(Piece) /\ Len(s.got \o Waiting(s)) = x + y
      BY <1>3, <1>4, <2>6, Joined
    <3>2. Len((s.got \o Waiting(s)) \o s.buff) = Len(s.got \o Waiting(s)) + Len(s.buff)
      <4>1. PICK u, v : u \in Seq(Piece) /\ v \in Seq(Piece) /\ u = s.got \o Waiting(s) /\ v = s.buff
        BY <1>4, <3>1
      <4>2. Len(u \o v) = Len(u) + Len(v) BY <4>1, Joined
      <4> QED BY <4>1, <4>2
    <3>3. Len(s.buff) = 0 BY <1>1
    <3>4. Len(h \o e) = H + (m - n) BY <2>3, <2>6, Joined
    <3> QED BY <2>5, <3>1, <3>2, <3>3, <3>4
  <2> QED BY <2>1, <2>2, <2>6, <2>7, <2>8
<1>6. Answering(s)
  BY <1>1, <1>3, <1>5 DEF Phase, Receiving, Reading, Uploading, InBody, Silent
<1>7. CASE Produced(s) = Answer(s.req)
  <2>1. (s.got \o Waiting(s)) \o s.buff = s.got BY <1>7 DEF Produced
  <2>2. Waiting(s) = <<>> BY <1>3, <1>4, <2>1, NothingAdded
  <2> QED BY <1>1, <1>6, <2>2, NothingWaits
<1>8. CASE Produced(s) # Answer(s.req) BY <1>3, <1>6, <1>8 DEF Answering
<1> QED BY <1>7, <1>8

(* ... and when the browser asks again.                                    *)
LEMMA NextConn ==
  ASSUME ConnInv, NEW c \in Clients, NextRequest(c)
  PROVE  ConnInv'
<1> DEFINE s == conn[c]
<1>1. Resting(s) /\ s \in HttpdConnData BY DEF ConnInv, ConnOK
<1>2. PICK q \in Request(c) :
        conn' = [conn EXCEPT ![c] = [s EXCEPT !.req = q, !.sent = 0, !.got = <<>>,
                                              !.upload = UploadStart, !.early = FALSE]]
  BY DEF NextRequest
<1>3. socket' = socket /\ socket[c] = "open" /\ s.got = Answer(s.req) /\ s.req.keep
  BY DEF NextRequest, Answered
<1> DEFINE r == [s EXCEPT !.req = q, !.sent = 0, !.got = <<>>, !.upload = UploadStart,
                          !.early = FALSE]
<1> HIDE DEF s
<1>4. Answering(s) /\ Free(s) BY <1>1, <1>3, AnsweredIs
<1>5. q \in Forms \cup Files \cup FirmwareFiles /\ Sized(q) BY <1>2, RequestsAre
<1>6. <<>> \in Seq(Piece) OBVIOUS
<1>7. /\ r \in HttpdConnData
      /\ r.req = q /\ r.sent = 0 /\ r.got = <<>> /\ r.upload = UploadStart /\ ~r.early
      /\ r.len = s.len /\ r.received = s.received /\ r.buffLen = s.buffLen /\ r.cgi = s.cgi
      /\ r.left = s.left /\ r.opened = s.opened /\ r.flags = s.flags
      /\ r.buff = s.buff /\ r.backlog = s.backlog /\ r.tx = s.tx
  <2>1. UploadStart \in UploadState BY UploadStartIs
  <2>2. r \in HttpdConnData BY <1>1, <1>5, <1>6, <2>1 DEF HttpdConnData
  <2>3. r.req = q /\ r.sent = 0 /\ r.got = <<>> /\ r.upload = UploadStart
    BY <1>1 DEF HttpdConnData
  <2>4. ~r.early BY <1>1 DEF HttpdConnData
  <2>5. /\ r.len = s.len /\ r.received = s.received /\ r.buffLen = s.buffLen /\ r.cgi = s.cgi
        /\ r.left = s.left /\ r.opened = s.opened /\ r.flags = s.flags
    BY <1>1 DEF HttpdConnData
  <2>6. r.buff = s.buff /\ r.backlog = s.backlog /\ r.tx = s.tx
    BY <1>1 DEF HttpdConnData
  <2> QED BY <2>2, <2>3, <2>4, <2>5, <2>6
<1>8. conn' = [conn EXCEPT ![c] = r] BY <1>2
<1> HIDE DEF r
<1>9. Free(r) BY <1>4, <1>7 DEF Free
<1>10. s.buff = <<>> BY <1>1 DEF Resting
<1>11. Unused(r) /\ Silent(r) BY <1>4, <1>7, <1>9, <1>10 DEF Answering, Unused, Silent
<1>12. Receiving(r)
  BY <1>3, <1>4, <1>7, <1>11 DEF Receiving, Answering, Done, HEAD
<1>13. Steady(r) BY <1>7, <1>9, UploadStartIs DEF Steady, TxOK, Free
<1>14. r.buffLen < MAX_POST BY <1>1, <1>7 DEF Resting, Kept
<1>15. Resting(r) BY <1>5, <1>7, <1>10, <1>12, <1>13, <1>14 DEF Resting, Kept, Phase
<1>16. socket' = [socket EXCEPT ![c] = "open"]
  BY <1>3, SameSocket
<1> QED BY <1>7, <1>8, <1>15, <1>16, OneConn

(* It is an invariant of every step, whatever the pool.                    *)
LEMMA NextConnInv == ConnInv /\ [Next]_vars => ConnInv'
<1> SUFFICES ASSUME ConnInv, [Next]_vars PROVE ConnInv'
  OBVIOUS
<1>1. CASE UNCHANGED vars BY <1>1 DEF vars, ConnInv, ConnOK
<1> QED BY <1>1, RecvConn, SentConn, ConnectConn, DisconConn, ArriveConn, NextConn DEF Next

-----------------------------------------------------------------------------
(* The pool.                                                               *)

(* The pool at the start, ...                                              *)
LEMMA InitInv == Init => Inv
BY HttpdAssumption
   DEF Init, Inv, PoolTypes, SlotsAreLive, LiveHaveSlot, SlotsDiffer, Owned

(* ... when a connection takes a slot, ...                                 *)
LEMMA ConnectInv ==
  ASSUME Inv, NEW c \in Clients, httpdConnectCb(c) PROVE Inv'
<1>1. PICK i \in FreeSlots : connData' = [connData EXCEPT ![i] = c]
  BY DEF httpdConnectCb
<1>2. i \in Slots /\ connData[i] = None BY DEF FreeSlots
<1>3. socket[c] = "closed" /\ socket' = [socket EXCEPT ![c] = "open"]
  BY DEF httpdConnectCb
<1>4. \A j \in Slots : connData[j] # c
  BY <1>3, HttpdAssumption DEF Inv, SlotsAreLive, Owned
<1>5. PoolTypes' BY <1>1, <1>2, <1>3 DEF Inv, PoolTypes
<1>6. /\ connData'[i] = c /\ \A j \in Slots : j # i => connData'[j] = connData[j]
      /\ socket'[c] = "open" /\ \A d \in Clients : d # c => socket'[d] = socket[d]
  BY <1>1, <1>2, <1>3 DEF Inv, PoolTypes
<1>7. SlotsAreLive' BY <1>4, <1>6 DEF Inv, PoolTypes, SlotsAreLive, Owned
<1>8. LiveHaveSlot'
  BY <1>2, <1>6, HttpdAssumption DEF Inv, PoolTypes, LiveHaveSlot
<1>9. SlotsDiffer' BY <1>4, <1>6, HttpdAssumption DEF Inv, SlotsDiffer, Owned
<1> QED BY <1>5, <1>7, <1>8, <1>9 DEF Inv

(* ... and when it gives it back.                                          *)
LEMMA DisconnectInv ==
  ASSUME Inv, NEW c \in Clients, httpdDisconCb(c) PROVE Inv'
<1>1. /\ connData' = [i \in Slots |-> IF connData[i] = c THEN None ELSE connData[i]]
      /\ socket' = [socket EXCEPT ![c] = "closed"]
  BY DEF httpdDisconCb, httpdRetireConn
<1>2. PoolTypes' BY <1>1 DEF Inv, PoolTypes
<1>3. /\ \A i \in Slots : connData'[i] = IF connData[i] = c THEN None ELSE connData[i]
      /\ socket'[c] = "closed" /\ \A d \in Clients : d # c => socket'[d] = socket[d]
  BY <1>1 DEF Inv, PoolTypes
<1>4. SlotsAreLive' BY <1>3 DEF Inv, PoolTypes, SlotsAreLive, Owned
<1>5. LiveHaveSlot' BY <1>3 DEF Inv, LiveHaveSlot
<1>6. SlotsDiffer' BY <1>3, HttpdAssumption DEF Inv, SlotsDiffer, Owned
<1> QED BY <1>2, <1>4, <1>5, <1>6 DEF Inv

(* A sent callback may begin to close a connection, which keeps its slot.  *)
LEMMA SentInv ==
  ASSUME Inv, NEW c \in Clients, httpdSentCb(c) PROVE Inv'
<1>1. PICK state \in {"open", "closing"} :
        socket' = [socket EXCEPT ![c] = state] /\ connData' = connData
  BY DEF httpdSentCb
<1>2. socket[c] = "open" BY DEF httpdSentCb
<1>3. PoolTypes' BY <1>1 DEF Inv, PoolTypes
<1>4. \A d \in Clients : socket'[d] # "closed" <=> socket[d] # "closed"
  BY <1>1, <1>2 DEF Inv, PoolTypes
<1>5. SlotsAreLive' BY <1>1, <1>4 DEF Inv, PoolTypes, SlotsAreLive, Owned
<1>6. LiveHaveSlot' BY <1>1, <1>4 DEF Inv, LiveHaveSlot
<1>7. SlotsDiffer' BY <1>1 DEF Inv, SlotsDiffer, Owned
<1> QED BY <1>3, <1>5, <1>6, <1>7 DEF Inv

(* No other callback touches the pool.                                     *)
LEMMA NextInv == Inv /\ [Next]_vars => Inv'
<1> SUFFICES ASSUME Inv, [Next]_vars PROVE Inv'
  OBVIOUS
<1>1. ASSUME UNCHANGED <<connData, socket>> PROVE Inv'
  BY <1>1 DEF Inv, PoolTypes, SlotsAreLive, LiveHaveSlot, SlotsDiffer, Owned
<1>2. ASSUME NEW c \in Clients,
             NEW k \in 1..Pieces(conn[c].req), httpdRecvCb(c, k) PROVE Inv'
  BY <1>1, <1>2 DEF httpdRecvCb
<1>3. ASSUME NEW c \in Clients, Arrive(c) \/ NextRequest(c) PROVE Inv'
  BY <1>1, <1>3 DEF Arrive, NextRequest
<1>4. CASE UNCHANGED vars BY <1>1, <1>4 DEF vars
<1> QED BY <1>2, <1>3, <1>4, ConnectInv, DisconnectInv, SentInv DEF Next

(* Every connection the SDK reports on owns one slot, and a connection     *)
(* that is gone owns none (httpdConnectCb, httpdRetireConn).               *)
THEOREM PoolStaysExact == Spec => []PoolIsExact
<1>1. Inv => PoolIsExact
  <2> SUFFICES ASSUME Inv PROVE PoolIsExact
    OBVIOUS
  <2>1. {connData[i] : i \in Slots} \ {None} = {c \in Clients : socket[c] # "closed"}
    <3>1. ASSUME NEW i \in Slots, connData[i] # None
          PROVE  connData[i] \in Clients /\ socket[connData[i]] # "closed"
      BY <3>1 DEF Inv, PoolTypes, SlotsAreLive, Owned
    <3>2. ASSUME NEW c \in Clients, socket[c] # "closed"
          PROVE  c # None /\ \E i \in Slots : connData[i] = c
      BY <3>2, HttpdAssumption DEF Inv, LiveHaveSlot
    <3> QED BY <3>1, <3>2
  <2> QED BY <2>1 DEF Inv, SlotsDiffer, Owned, PoolIsExact
<1> QED BY <1>1, InitInv, NextInv, PTL DEF Spec

-----------------------------------------------------------------------------
(* The properties.                                                         *)

(* The invariant of the connections.                                       *)
LEMMA ConnInvHolds == Spec => []ConnInv
BY InitConnInv, NextConnInv, PTL DEF Spec

(* The numbers of a connection stay in their ranges.                       *)
LEMMA RestingTypes ==
  ASSUME NEW c \in Clients, NEW s, Resting(s), s.req \in Request(c) \cup {AnyRequest}
  PROVE  /\ s.len \in {-1, 0} \cup Sizes
         /\ s.received \in 0..(IF s.len = -1 THEN 0 ELSE s.len) /\ s.buffLen \in 0..MAX_POST - 1
         /\ s.left \in 0..s.req.blocks /\ Len(s.upload.page) \in 0..PAGELEN - 1 /\ s.buff = <<>>
         /\ s.sent \in 0..Pieces(s.req)
<1>1. /\ s \in HttpdConnData /\ Sane(s.upload) /\ s.buff = <<>> /\ s.buffLen < MAX_POST
      /\ Phase(s)
  BY DEF Resting, Kept, Steady
<1>2. PICK b \in Nat, n \in Nat, k \in Nat, x \in Nat, l \in Nat, m \in Nat, M \in Nat :
        /\ b = s.req.body /\ n = s.received /\ k = s.sent /\ x = s.buffLen
        /\ l = s.left /\ m = s.req.blocks /\ M = MAX_POST
  BY <1>1, Fields, Requests, HttpdAssumption
<1>3. b \in {0} \cup Sizes
  <2>1. CASE s.req = AnyRequest BY <1>2, <2>1, AnyRequestIs
  <2>2. CASE s.req \in Request(c)
    <3>1. s.req \in Pages \cup Uploads BY <2>2 DEF Request
    <3> QED BY <1>2, <3>1 DEF Sizes
  <2> QED BY <2>1, <2>2
<1>4. x \in 0..M - 1 BY <1>1, <1>2
<1>5. Len(s.upload.page) \in 0..PAGELEN - 1
  <2>1. PICK p \in Nat, P \in Nat : p = Len(s.upload.page) /\ P = PAGELEN
    BY <1>1, FlashLayout DEF Sane, UploadState
  <2>2. p < P BY <1>1, <2>1 DEF Sane
  <2> QED BY <2>1, <2>2
<1>6. l \in 0..m
  <2>1. l <= m BY <1>1, <1>2
     DEF Phase, Receiving, Reading, Uploading, Filing, Answering, Unused
  <2> QED BY <1>2, <2>1
<1>7. k \in 0..HEAD + b
  <2>1. CASE Receiving(s) BY <1>2, <2>1 DEF Receiving, HEAD
  <2>2. CASE InBody(s) BY <1>2, <2>2 DEF InBody, Pieces, HEAD
  <2>3. CASE s.sent = Pieces(s.req) BY <1>2, <2>3 DEF Pieces, HEAD
  <2> QED BY <1>1, <2>1, <2>2, <2>3 DEF Phase, Reading, Uploading, Filing, Answering
<1>8. s.len \in {-1, 0} \cup Sizes /\ n \in 0..(IF s.len = -1 THEN 0 ELSE s.len)
  <2>1. ASSUME s.len = -1, n = 0 PROVE n \in 0..(IF s.len = -1 THEN 0 ELSE s.len)
    BY <2>1
  <2>2. ASSUME s.len = b, n <= b PROVE n \in 0..(IF s.len = -1 THEN 0 ELSE s.len)
    BY <1>2, <2>2
  <2>3. CASE Receiving(s) BY <1>2, <2>1, <2>3 DEF Receiving
  <2>4. CASE InBody(s)
    <3>1. s.len = b /\ n <= b BY <1>2, <2>4 DEF InBody, Pieces, HEAD
    <3> QED BY <1>3, <2>2, <3>1
  <2>5. CASE Filing(s)
    <3>1. b = 0 BY <1>1, <1>2, <2>5, Fields, Requests DEF Filing
    <3>2. s.len = b /\ n <= b BY <1>2, <2>5, <3>1 DEF Filing
    <3> QED BY <1>3, <2>2, <3>2
  <2>6. CASE Answering(s)
    <3>1. CASE s.req.keep BY <1>2, <2>1, <2>6, <3>1 DEF Answering, Done
    <3>2. CASE ~s.req.keep
      <4>1. s.len = b /\ n <= b BY <1>2, <2>6, <3>2 DEF Answering
      <4> QED BY <1>3, <2>2, <4>1
    <3> QED BY <3>1, <3>2
  <2> QED BY <1>1, <2>3, <2>4, <2>5, <2>6 DEF Phase, Reading, Uploading
<1> QED BY <1>1, <1>2, <1>4, <1>5, <1>6, <1>7, <1>8 DEF Pieces

(* Every field of every connection keeps its type and its range: the post  *)
(* buffer is never full between two callbacks, the page of an upload       *)
(* neither (httpdRecvCb, cgiUploadFirmware).                               *)
THEOREM ConnectionTypes == Spec => []TypeOK
<1>1. Inv /\ ConnInv => TypeOK
  <2> SUFFICES ASSUME Inv, ConnInv PROVE TypeOK
    OBVIOUS
  <2>1. /\ connData \in [Slots -> Clients \cup {None}]
        /\ socket \in [Clients -> {"closed", "open", "closing"}]
        /\ conn \in [Clients -> HttpdConnData]
    BY DEF Inv, PoolTypes, ConnInv
  <2>2. \A c \in Clients : Resting(conn[c]) /\ conn[c].req \in Request(c) \cup {AnyRequest}
    BY DEF ConnInv, ConnOK
  <2> QED BY <2>1, <2>2, RestingTypes DEF TypeOK
<1>2. Spec => []Inv BY InitInv, NextInv, PTL DEF Spec
<1> QED BY <1>1, <1>2, ConnInvHolds, PTL

(* A file, or the state of an upload, is open exactly while the handler of *)
(* a connection needs it: none is left open when the answer has ended or   *)
(* the connection is lost, and none closed before (cgiEspFsHook,           *)
(* cgiUploadFirmware, httpdRetireConn).                                    *)
THEOREM OpenFilesAreUsed == Spec => []FilesAreClosed
<1>1. ConnInv => FilesAreClosed
  <2> SUFFICES ASSUME ConnInv, NEW c \in Clients
               PROVE  conn[c].opened <=> socket[c] # "closed" /\ conn[c].cgi # "NULL"
    BY DEF FilesAreClosed
  <2>1. Resting(conn[c]) /\ (socket[c] = "closed" => conn[c] = Fresh)
    BY DEF ConnInv, ConnOK
  <2>2. conn[c].cgi = "NULL" => ~conn[c].opened BY <2>1, UnusedIsClosed
  <2>3. conn[c].cgi # "NULL" => conn[c].opened BY <2>1, UnusedIsClosed
  <2>4. Fresh.cgi = "NULL" BY DEF Fresh
  <2> QED BY <2>1, <2>2, <2>3, <2>4
<1> QED BY <1>1, ConnInvHolds, PTL

(* Some blocks after some others.                                          *)
LEMMA BlocksJoined ==
  ASSUME NEW m \in Nat, NEW n \in Nat, NEW k \in Nat, m = k + n
  PROVE  Blocks(n) \in Seq(Piece) /\ Blocks(k) \o Blocks(n) = Blocks(m)
<1>1. \A j \in Nat : Blocks(j) \in Seq(Piece) /\ Len(Blocks(j)) = j /\ \A i \in 1..j : Blocks(j)[i] = "block"
  <2>1. "block" \in Piece BY DEF Piece
  <2> QED BY <2>1 DEF Blocks
<1>2. PICK x, y, z :
        /\ x \in Seq(Piece) /\ y \in Seq(Piece) /\ z \in Seq(Piece)
        /\ x = Blocks(k) /\ y = Blocks(n) /\ z = Blocks(m)
        /\ Len(x) = k /\ Len(y) = n /\ Len(z) = m
        /\ \A i \in 1..k : x[i] = "block"
        /\ \A i \in 1..n : y[i] = "block"
        /\ \A i \in 1..m : z[i] = "block"
  BY <1>1
<1>3. /\ x \o y \in Seq(Piece) /\ Len(x \o y) = k + n
      /\ \A i \in 1..k : (x \o y)[i] = x[i]
      /\ \A i \in 1..n : (x \o y)[k + i] = y[i]
  BY <1>2, Joined
<1>4. PICK w \in Seq(Piece) : /\ w = x \o y /\ Len(w) = m
                               /\ \A i \in 1..k : w[i] = x[i]
                               /\ \A j \in 1..n : w[k + j] = y[j]
  BY <1>3
<1>5. ASSUME NEW i \in 1..m PROVE w[i] = z[i]
  <2>1. CASE i <= k BY <1>2, <1>4, <2>1
  <2>2. CASE i > k
    <3>1. i - k \in 1..n /\ k + (i - k) = i BY <2>2
    <3>2. w[k + (i - k)] = "block" BY <1>2, <1>4, <3>1
    <3> QED BY <1>2, <3>1, <3>2
  <2> QED BY <2>1, <2>2
<1>6. w = z BY <1>2, <1>4, <1>5
<1> QED BY <1>2, <1>4, <1>6

(* A sequence is the begin of itself and what follows.                     *)
LEMMA BeginOf ==
  ASSUME NEW x \in Seq(Piece), NEW y \in Seq(Piece)
  PROVE  Len(x) <= Len(x \o y) /\ x = SubSeq(x \o y, 1, Len(x))
<1>1. x \o y \in Seq(Piece) /\ Len(x \o y) = Len(x) + Len(y)
      /\ \A i \in 1..Len(x) : (x \o y)[i] = x[i]
  BY Joined
<1>2. PICK z : z \in Seq(Piece) /\ z = x \o y BY <1>1
<1>3. PICK m \in Nat, n \in Nat : m = Len(x) /\ n = Len(y) OBVIOUS
<1>4. Len(z) = m + n /\ \A i \in 1..m : z[i] = x[i] BY <1>1, <1>2, <1>3
<1>5. SubSeq(z, 1, m) \in Seq(Piece) /\ Len(SubSeq(z, 1, m)) = m
      /\ \A i \in 1..m : SubSeq(z, 1, m)[i] = z[i]
  BY <1>2, <1>3, <1>4
<1>6. x = SubSeq(z, 1, m) BY <1>3, <1>4, <1>5
<1> QED BY <1>2, <1>3, <1>4, <1>6

(* Sequences of pieces may be joined in any order.                         *)
LEMMA Associates ==
  ASSUME NEW x \in Seq(Piece), NEW y \in Seq(Piece), NEW z \in Seq(Piece)
  PROVE  (x \o y) \o z = x \o (y \o z)
BY ConcatAssociative

(* What a browser has and what is under way to it is the begin of the      *)
(* answer.                                                                 *)
LEMMA RestingOrder ==
  ASSUME NEW s, Resting(s)
  PROVE  LET a == s.got \o Waiting(s)
         IN  /\ Len(s.backlog) <= 1
             /\ \/ Len(a) <= Len(Answer(s.req)) /\ a = SubSeq(Answer(s.req), 1, Len(a))
                \/ s.early
<1> DEFINE a == s.got \o Waiting(s)
           Begins(x) == Len(x) <= Len(Answer(s.req)) /\ x = SubSeq(Answer(s.req), 1, Len(x))
<1>1. /\ s \in HttpdConnData /\ TxOK(s) /\ Phase(s) /\ s.buff = <<>>
      /\ s.req \in Forms \cup Files \cup FirmwareFiles
  BY Fields DEF Resting, Kept, Steady
<1>2. Len(s.backlog) <= 1
  <2>1. CASE s.backlog = <<>>
    <3>1. Len(<<>>) = 0 OBVIOUS
    <3>2. Len(s.backlog) = Len(<<>>) BY <2>1, Zenon
    <3>3. \A n : n = 0 => n <= 1 OBVIOUS
    <3>4. Len(s.backlog) = 0 BY <3>1, <3>2, Zenon
    <3> QED BY <3>3, <3>4, Zenon
  <2>2. CASE s.backlog # <<>>
    <3>1. Len(s.backlog) = 1 BY <1>1, <2>2, Zenon DEF TxOK
    <3>2. \A n : n = 1 => n <= 1 OBVIOUS
    <3> QED BY <3>1, <3>2, Zenon
  <2> QED BY <2>1, <2>2
<1>3. a \in Seq(Piece) /\ Produced(s) = a
  <2>1. s.got \in Seq(Piece) /\ Waiting(s) \in Seq(Piece) BY <1>1, Fields, WaitingType
  <2>2. a \in Seq(Piece) BY <2>1, Joined
  <2>3. a \o <<>> = a
    <3> HIDE DEF a
    <3> QED BY <2>2
  <2> QED BY <1>1, <2>2, <2>3 DEF Produced
<1>4. Answer(s.req) \in Seq(Piece) BY <1>1, AnswerIs
<1>5. ASSUME NEW y \in Seq(Piece), Answer(s.req) = a \o y PROVE Begins(a)
  <2> HIDE DEF a
  <2> QED BY <1>3, <1>5, BeginOf
<1>6. CASE Silent(s)
  <2>1. s.got = <<>> /\ Waiting(s) = <<>> BY <1>1, <1>6, FreeProduced DEF Silent
  <2>2. a = <<>> BY <2>1
  <2>3. Answer(s.req) = <<>> \o Answer(s.req) BY <1>4
  <2>4. Begins(a) BY <1>4, <1>5, <2>2, <2>3
  <2> QED BY <1>2, <2>4
<1>7. CASE Filing(s)
  <2>1. PICK n \in Nat, m \in Nat : n = s.left /\ m = s.req.blocks BY <1>1, Fields, Requests
  <2>2. n <= m /\ m - n \in Nat BY <1>7, <2>1 DEF Filing
  <2>3. Answer(s.req) = (<<"head">> \o Blocks(m)) \o (Last(s.req) \o End(s.req))
    BY <1>1, <1>7, <2>1, AnswerIs DEF Filing
  <2>4. a = <<"head">> \o Blocks(m - n) BY <1>3, <1>7, <2>1 DEF Filing
  <2>5. PICK h, b, d, t :
          /\ h \in Seq(Piece) /\ b \in Seq(Piece) /\ d \in Seq(Piece) /\ t \in Seq(Piece)
          /\ h = <<"head">> /\ b = Blocks(m - n) /\ b \o d = Blocks(m)
          /\ t = Last(s.req) \o End(s.req)
    <3>1. <<"head">> \in Seq(Piece) BY DEF Piece
    <3>2. Last(s.req) \in Seq(Piece)
      <4>1. <<>> \in Seq(Piece) /\ <<"block">> \in Seq(Piece) BY DEF Piece
      <4> QED BY <4>1 DEF Last
    <3>3. End(s.req) \in Seq(Piece)
      <4>1. <<>> \in Seq(Piece) /\ <<"end">> \in Seq(Piece) BY DEF Piece
      <4> QED BY <4>1 DEF End
    <3>4. Last(s.req) \o End(s.req) \in Seq(Piece) BY <3>2, <3>3, Joined
    <3>5. Blocks(m - n) \in Seq(Piece) BY <2>2, BlocksAre
    <3>6. Blocks(n) \in Seq(Piece) /\ Blocks(m - n) \o Blocks(n) = Blocks(m)
      <4>1. PICK k \in Nat : k = m - n /\ m = k + n BY <2>1, <2>2
      <4>2. Blocks(n) \in Seq(Piece) /\ Blocks(k) \o Blocks(n) = Blocks(m)
        BY <2>1, <4>1, BlocksJoined
      <4> QED BY <4>1, <4>2
    <3> QED BY <3>1, <3>4, <3>5, <3>6
  <2>6. Answer(s.req) = (h \o b) \o (d \o t)
    <3>1. h \o (b \o d) = (h \o b) \o d
      <4>1. h \in Seq(Piece) /\ b \in Seq(Piece) /\ d \in Seq(Piece) BY <2>5
      <4> QED BY <4>1, Associates, Zenon
    <3>2. h \o b \in Seq(Piece) BY <2>5, Joined
    <3>3. PICK f : f \in Seq(Piece) /\ f = h \o b BY <3>2
    <3>4. (f \o d) \o t = f \o (d \o t)
      <4>1. f \in Seq(Piece) /\ d \in Seq(Piece) /\ t \in Seq(Piece) BY <2>5, <3>3
      <4> QED BY <4>1, Associates, Zenon
    <3> QED BY <2>3, <2>5, <3>1, <3>3, <3>4
  <2>7. d \o t \in Seq(Piece) BY <2>5, Joined
  <2>8. Begins(a) BY <1>5, <2>4, <2>5, <2>6, <2>7
  <2> QED BY <1>2, <2>8
<1>8. CASE Answering(s)
  <2>1. CASE Produced(s) = Answer(s.req)
    <3>1. Answer(s.req) = a \o <<>> /\ <<>> \in Seq(Piece)
      <4>1. <<>> \in Seq(Piece) OBVIOUS
      <4>2. Answer(s.req) \o <<>> = Answer(s.req) BY <1>4
      <4> QED BY <1>3, <2>1, <4>1, <4>2
    <3>2. Begins(a) BY <1>5, <3>1
    <3> QED BY <1>2, <3>2
  <2>2. CASE Produced(s) # Answer(s.req) BY <1>2, <1>8, <2>2 DEF Answering
  <2> QED BY <2>1, <2>2
<1> QED BY <1>1, <1>6, <1>7, <1>8 DEF Phase, Receiving, Reading, Uploading, InBody

(* What the browser has got, with what the socket and the backlog hold, is *)
(* always the begin of the answer to what it asked, and never more than    *)
(* one buffer waits (httpdFlushSendBuffer, httpdContinue): no piece is     *)
(* lost, doubled or out of order, except after an upload was called back   *)
(* in the middle of a block.                                               *)
THEOREM AnswersStayInOrder == Spec => []AnswerInOrder
<1>1. ConnInv => AnswerInOrder
  <2> SUFFICES ASSUME ConnInv PROVE AnswerInOrder
    OBVIOUS
  <2>1. \A c \in Clients : Resting(conn[c]) BY DEF ConnInv, ConnOK
  <2> QED BY <2>1, RestingOrder DEF AnswerInOrder
<1> QED BY <1>1, ConnInvHolds, PTL

(* Whatever the sizes of the packets, the post buffer, the page and the    *)
(* sector: no word in the flash is ever one the image does not have there, *)
(* and when a complete upload has been received the whole image is in its  *)
(* place (httpdRecvCb, cgiUploadFirmware), except after the handler was    *)
(* called back in the middle of a block.                                   *)
THEOREM UploadsStayExact == Spec => []UploadIsExact
<1>1. ConnInv => UploadIsExact
  <2> SUFFICES ASSUME ConnInv, NEW c \in Clients,
                      conn[c].req.kind = "upload", ~conn[c].early
               PROVE  LET s == conn[c]
                      IN  /\ NoWordIsWrong(s.req.image, s.upload.flash)
                          /\ s.sent = Pieces(s.req) /\ Complete(s.req.image) =>
                               ImageIsThere(s.req.image, s.upload.flash)
    BY DEF UploadIsExact
  <2> DEFINE s == conn[c]
             f == s.req.image
  <2>1. /\ s \in HttpdConnData /\ Phase(s) /\ Sized(s.req)
        /\ s.req \in Request(c) \cup {AnyRequest}
    BY DEF ConnInv, ConnOK, Resting, Kept, Steady
  <2>2. s.req.kind = "upload" /\ ~s.early OBVIOUS
  <2> HIDE DEF s
  <2>3. f \in Images /\ s.upload \in UploadState BY <2>1, Fields, Requests
  <2>4. PICK n \in Nat, k \in Nat, b \in Nat, x \in Nat :
          n = s.received /\ k = s.sent /\ b = s.req.body /\ x = s.buffLen
    BY <2>1, Fields, Requests
  <2>5. ASSUME s.upload = UploadStart PROVE Good(f, s.upload, 0) BY <2>5 DEF Good
  <2>6. CASE Receiving(s)
    <3>1. NoWordIsWrong(f, s.upload.flash)
      BY <2>3, <2>5, <2>6, GoodIsNeverWrong DEF Receiving
    <3>2. s.sent # Pieces(s.req) BY <2>4, <2>6 DEF Receiving, Pieces, HEAD
    <3> QED BY <3>1, <3>2 DEF s
  <2>7. CASE Reading(s)
    <3>1. NoWordIsWrong(f, s.upload.flash)
      BY <2>3, <2>5, <2>7, GoodIsNeverWrong DEF Reading
    <3>2. s.sent # Pieces(s.req) BY <2>4, <2>7 DEF Reading, InBody, Pieces, HEAD
    <3> QED BY <3>1, <3>2 DEF s
  <2>8. CASE Uploading(s)
    <3>1. n - x \in Nat BY <2>4, <2>8 DEF Uploading, InBody
    <3>2. Good(f, s.upload, n - x) BY <2>2, <2>4, <2>8 DEF Uploading
    <3>3. NoWordIsWrong(f, s.upload.flash) BY <2>3, <3>1, <3>2, GoodIsNeverWrong
    <3>4. s.sent # Pieces(s.req) BY <2>4, <2>8 DEF Uploading, InBody, Pieces, HEAD
    <3> QED BY <3>3, <3>4 DEF s
  <2>9. CASE Answering(s)
    <3>1. Good(f, s.upload, b) /\ b = f.size
      BY <2>1, <2>2, <2>4, <2>9 DEF Answering, Sized
    <3>2. NoWordIsWrong(f, s.upload.flash) BY <2>3, <2>4, <3>1, GoodIsNeverWrong
    <3>3. s.req \in Uploads
      <4>1. s.req # AnyRequest BY <2>2, AnyRequestIs
      <4>2. s.req \notin Pages
        <5>1. SUFFICES ASSUME s.req \in Forms \cup Files PROVE FALSE BY HttpdAssumption
        <5> QED BY <2>2, <5>1 DEF Forms, Files
      <4> QED BY <2>1, <4>1, <4>2 DEF Request
    <3>4. Complete(f) => Place(f) \subseteq Cells BY <3>3, ImagesFit
    <3>5. Complete(f) => ImageIsThere(f, s.upload.flash)
      BY <2>3, <3>1, <3>4, GoodAtEnd
    <3> QED BY <3>2, <3>5 DEF s
  <2>10. ~Filing(s) BY <2>2 DEF Filing
  <2> QED BY <2>1, <2>6, <2>7, <2>8, <2>9, <2>10 DEF Phase
<1> QED BY <1>1, ConnInvHolds, PTL

(* The server begins to close a connection only when the browser has the   *)
(* whole answer (httpdContinue and HFL_DISCONAFTERSENT), with the same     *)
(* exception.                                                              *)
THEOREM AnsweredBeforeClosed == Spec => ClosedAfterAnswer
<1> DEFINE Closes(c) == socket[c] = "open" /\ socket'[c] = "closing" =>
                          Answered(conn[c]) \/ conn[c].early
<1>1. ASSUME ConnInv, [Next]_vars PROVE [\A c \in Clients : Closes(c)]_vars
  <2> SUFFICES ASSUME NEW c \in Clients, socket[c] = "open", socket'[c] = "closing"
               PROVE  Answered(conn[c]) \/ conn[c].early
    OBVIOUS
  <2>1. socket \in [Clients -> {"closed", "open", "closing"}] BY <1>1 DEF ConnInv
  <2>2. httpdSentCb(c)
    <3>1. socket' # socket OBVIOUS
    <3>2. PICK d \in Clients : httpdConnectCb(d) \/ httpdSentCb(d) \/ httpdDisconCb(d)
      BY <1>1, <3>1 DEF Next, vars, httpdRecvCb, Arrive, NextRequest
    <3>3. ~httpdConnectCb(d) BY <2>1 DEF httpdConnectCb
    <3>4. ~httpdDisconCb(d) BY <2>1 DEF httpdDisconCb
    <3>5. httpdSentCb(d) BY <3>2, <3>3, <3>4
    <3>6. d = c BY <2>1, <3>5 DEF httpdSentCb
    <3> QED BY <3>5, <3>6
  <2> DEFINE s == conn[c]
  <2>3. s.tx = "arrived" /\ Disconnects(Idle(s))
    BY <2>1, <2>2 DEF httpdSentCb, Idle
  <2>4. Resting(s) BY <1>1 DEF ConnInv, ConnOK
  <2> HIDE DEF s
  <2>5. /\ s \in HttpdConnData /\ Phase(s) /\ s.buff = <<>>
    BY <2>4 DEF Resting, Kept, Steady
  <2>6. s.backlog = <<>> /\ "DISCONAFTERSENT" \in s.flags
    <3>1. Idle(s).backlog = s.backlog /\ Idle(s).flags = s.flags
      BY <2>3, <2>4, IdleIs DEF Alike
    <3> QED BY <2>3, <3>1 DEF Disconnects
  <2>7. Answering(s)
    BY <2>5, <2>6 DEF Phase, Receiving, Reading, Uploading, Filing, InBody, Keeps
  <2>8. Free(s) BY <2>3, <2>6 DEF Free
  <2>9. Produced(s) = s.got
    <3>1. Produced(s) = s.got \o <<>> BY <2>5, <2>8, FreeProduced
    <3>2. s.got \o <<>> = s.got BY <2>5, Fields
    <3> QED BY <3>1, <3>2
  <2> QED BY <2>7, <2>9 DEF Answering, Answered, s
<1> QED BY <1>1, ConnInvHolds, PTL DEF Spec, ClosedAfterAnswer
=============================================================================
