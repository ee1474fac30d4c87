------------------------------ MODULE CgiFlash ------------------------------
(***************************************************************************)
(* The handler of the firmware upload page                                 *)
(* (src/libesphttpd/util/cgiflash.c): it is called with the body of the    *)
(* request in blocks of the server's post buffer, finds the image for the  *)
(* half of the flash that is not running, and writes that in pages, each   *)
(* sector being erased when the first of its pages is written.             *)
(*                                                                         *)
(* The unit of lengths is a word.  What stands in a word of the body is    *)
(* its position, so that a word of the flash says where it came from; the  *)
(* header is the first word of a combined file.                            *)
(***************************************************************************)
EXTENDS Integers, Sequences

CONSTANTS PAGELEN,             \* words of a page
          SPI_FLASH_SEC_SIZE,  \* words of a sector
          fwSize               \* words of each half of the flash

ASSUME FlashAssumption ==
  /\ PAGELEN \in Nat \ {0} /\ SPI_FLASH_SEC_SIZE \in Nat \ {0} /\ fwSize \in Nat \ {0}
  /\ SPI_FLASH_SEC_SIZE % PAGELEN = 0 /\ fwSize % SPI_FLASH_SEC_SIZE = 0

OtaHeader == 1
fw1Pos == 0
fw2Pos == fwSize
Cells == 0..2 * fwSize - 1
Old == -1
Erased == 0
Mixed == -2

(* A file a user uploads: a combined file ("EHUG") with two images, a      *)
(* plain image, or something else.  right: its tag is the one of this      *)
(* device; force: the argument that overrules it; user1: the first half of *)
(* the flash is the one to be written; size: the words that are sent.      *)
Image(type, right, force, user1, len1, len2, size) ==
  [type |-> type, right |-> right, force |-> force, user1 |-> user1,
   len1 |-> len1, len2 |-> len2, size |-> size]
NoImage == Image("none", TRUE, FALSE, TRUE, 0, 0, 0)
Images ==
  [type : {"OTA", "BIN", "none"}, right : BOOLEAN, force : BOOLEAN, user1 : BOOLEAN,
   len1 : Nat, len2 : Nat, size : Nat]
-----------------------------------------------------------------------------
(* UploadState, and the flash since the upload began.                      *)
UploadStart ==
  [state |-> "START", len |-> 0, skip |-> 0, address |-> fw1Pos, page |-> <<>>,
   flash |-> [a \in Cells |-> Old]]

TooLarge(f) ==
  f.size > (IF f.type = "OTA" THEN 2 * fwSize + OtaHeader ELSE fwSize)

Rejected(f) ==
  \/ f.type \notin {"OTA", "BIN"}
  \/ f.type = "OTA" /\ ~f.right /\ ~f.force
  \/ TooLarge(f)

(* A step of the loop maps what is left of the block, and the state, to    *)
(* the same after it.                                                      *)
HeaderStep(f, p) ==
  IF Rejected(f) THEN [p EXCEPT !.u.state = "ERROR"]
  ELSE IF f.type = "BIN"
  THEN [p EXCEPT !.u = [@ EXCEPT !.state = "WRITE", !.len = f.size, !.address = fw1Pos]]
  ELSE [data |-> SubSeq(p.data, OtaHeader + 1, Len(p.data)),
        u |-> IF f.user1
              THEN [p.u EXCEPT !.state = "WRITE", !.len = f.len1, !.skip = f.len2,
                               !.address = fw1Pos]
              ELSE [p.u EXCEPT !.state = "SKIP", !.len = f.len2, !.skip = f.len1,
                               !.address = fw2Pos]]

SkipStep(p) ==
  IF p.u.skip > Len(p.data)
  THEN [data |-> <<>>, u |-> [p.u EXCEPT !.skip = @ - Len(p.data)]]
  ELSE [data |-> SubSeq(p.data, p.u.skip + 1, Len(p.data)),
        u |-> [p.u EXCEPT !.skip = 0, !.state = IF p.u.len > 0 THEN "WRITE" ELSE "DONE"]]

(* A word can only be written when its sector has been erased.             *)
spi_flash_erase_sector(flash, address) ==
  [a \in Cells |->
     IF a \div SPI_FLASH_SEC_SIZE = address \div SPI_FLASH_SEC_SIZE THEN Erased ELSE flash[a]]
spi_flash_write(flash, address, page) ==
  [a \in Cells |->
     IF a \notin address..address + Len(page) - 1 THEN flash[a]
     ELSE IF flash[a] = Erased THEN page[a - address + 1] ELSE Mixed]

(* The sector is erased with its first page.                               *)
MutantFlushPage(u, page) ==
  [u EXCEPT !.flash = spi_flash_write(spi_flash_erase_sector(@, u.address), u.address, page),
            !.address = @ + PAGELEN, !.page = <<>>]
FlushPage(u, page) ==
  [u EXCEPT !.flash = spi_flash_write(IF u.address % SPI_FLASH_SEC_SIZE = 0
                                      THEN spi_flash_erase_sector(@, u.address) ELSE @,
                                      u.address, page),
            !.address = @ + PAGELEN, !.page = <<>>]

(* The last page of an image may be a cut-off one; a page the block does   *)
(* not fill is kept for the next block.                                    *)
WriteStep(p) ==
  LET room == PAGELEN - Len(p.u.page)
      lenLeft == IF p.u.len < room THEN p.u.len ELSE room
  IN  IF Len(p.data) < lenLeft
      THEN [data |-> <<>>,
            u |-> [p.u EXCEPT !.page = @ \o p.data, !.len = @ - Len(p.data)]]
      ELSE LET page == p.u.page \o SubSeq(p.data, 1, lenLeft)
               w == [FlushPage(p.u, page) EXCEPT !.len = @ - lenLeft]
           IN  [data |-> SubSeq(p.data, lenLeft + 1, Len(p.data)),
                u |-> IF w.len > 0 THEN w
                      ELSE [w EXCEPT !.state = IF w.skip > 0 THEN "SKIP" ELSE "DONE"]]

Step(f, p) ==
  CASE p.u.state = "START" -> HeaderStep(f, p)
    [] p.u.state = "SKIP"  -> SkipStep(p)
    [] p.u.state = "WRITE" -> WriteStep(p)
    [] p.u.state \in {"DONE", "ERROR"} -> [p EXCEPT !.data = <<>>]

UploadState ==
  [state : {"START", "SKIP", "WRITE", "DONE", "ERROR"}, len : Nat, skip : Nat,
   address : Nat, page : Seq(Int), flash : [Cells -> Int]]
LoopState == [data : Seq(Int), u : UploadState]

(* A loop of k turns from x.                                               *)
Iterate(turn, x, k) ==
  LET after[n \in Nat] == IF n = 0 THEN x ELSE turn[after[n - 1]]
  IN  after[k]

(* The loop.  It ends when the block is used up, which takes at most one   *)
(* turn for each of its words and a few in which the state changes only.   *)
Turns(data) == Len(data) + 4

cgiUploadFirmware(f, u, data) ==
  Iterate([p \in LoopState |-> IF p.data = <<>> THEN p ELSE Step(f, p)],
          [data |-> data, u |-> u], Turns(data)).u
-----------------------------------------------------------------------------
(* What an upload should leave behind, said without a state: the words of  *)
(* the image for this half lie behind each other from the start of the     *)
(* half.                                                                   *)
Base(f) == IF f.type = "BIN" \/ f.user1 THEN fw1Pos ELSE fw2Pos
First(f) ==
  IF f.type = "BIN" THEN 0 ELSE IF f.user1 THEN OtaHeader ELSE OtaHeader + f.len1
Length(f) ==
  IF f.type = "BIN" THEN f.size ELSE IF f.user1 THEN f.len1 ELSE f.len2
Complete(f) ==
  /\ ~Rejected(f)
  /\ f.size > (IF f.type = "BIN" THEN 0 ELSE OtaHeader)
  /\ f.type = "BIN" \/ f.size >= OtaHeader + f.len1 + f.len2

Place(f) == Base(f)..Base(f) + Length(f) - 1
WordAt(f, a) == First(f) + a - Base(f) + 1

(* No word of the flash is ever wrong, whatever part of the body has       *)
(* arrived ...                                                             *)
NoWordIsWrong(f, flash) ==
  \A a \in Cells : flash[a] \notin {Old, Erased} => a \in Place(f) /\ flash[a] = WordAt(f, a)

(* ... and an image that is complete is there from end to end.             *)
ImageIsThere(f, flash) == \A a \in Place(f) : flash[a] = WordAt(f, a)
=============================================================================
