---------------------------- MODULE FlashWriter ----------------------------
(***************************************************************************)
(* The flash writer of rboot-api.c: bytes arrive in packets of any length, *)
(* flash is written in whole words and erased in whole sectors.  Addresses *)
(* count from the start of the ROM slot, which begins a sector.            *)
(***************************************************************************)
EXTENDS Integers, Sequences

CONSTANTS Word,        \* bytes of a flash word (4)
          SectorSize,  \* bytes of an erase sector (4096)
          SlotSize     \* bytes of a ROM slot

ASSUME FlashAssumption ==
    /\ Word \in Nat \ {0} /\ SectorSize \in Nat \ {0} /\ SlotSize \in Nat \ {0}
    /\ SectorSize % Word = 0 /\ SlotSize % SectorSize = 0

Erased  == 255
Garbled == 256   \* a byte written twice without an erase: the AND of both

(* rboot_write_status; "addr" is start_addr, "erased" is                   *)
(* last_sector_erased, "extra" the extra_count first bytes of extra_bytes. *)
rboot_write_init == [addr |-> 0, erased |-> -1, extra |-> <<>>]

EraseSectors(flash, first, last) ==
    [a \in DOMAIN flash |->
        IF a \div SectorSize \in first..last THEN Erased ELSE flash[a]]

spi_flash_write(flash, addr, bytes) ==
    [a \in DOMAIN flash |->
        IF a \notin addr .. addr + Len(bytes) - 1 THEN flash[a]
        ELSE IF flash[a] = Erased THEN bytes[a - addr + 1] ELSE Garbled]

(* How a call of rboot_write_flash may go: its buffer cannot be allocated, *)
(* the write of the words fails, or it succeeds.                           *)
Outcomes == {"ok", "no_ram", "bad_write"}

(* A plausible bug: the bytes of the last packet that do not fill a word   *)
(* are forgotten.                                                          *)
MutantForgetCarry(status, flash, data, outcome) ==
    LET len == Len(data) - (Len(data) % Word)
        last == (status.addr + len - 1) \div SectorSize
    IN  [ok |-> outcome = "ok" \/ data = <<>>,
         status |-> [status EXCEPT !.addr = @ + len,
                                   !.erased = IF last > @ THEN last ELSE @],
         flash |-> spi_flash_write(EraseSectors(flash, status.erased + 1, last),
                                   status.addr, SubSeq(data, 1, len))]

rboot_write_flash(status, flash, data, outcome) ==
    LET buffer == status.extra \o data
        len    == Len(buffer) - (Len(buffer) % Word)
        last   == (status.addr + len - 1) \div SectorSize
        erased == IF last > status.erased THEN last ELSE status.erased
        cleared == EraseSectors(flash, status.erased + 1, last)
        carry  == [status EXCEPT !.erased = erased,
                                 !.extra = SubSeq(buffer, len + 1, Len(buffer))]
    IN  CASE data = <<>> -> [ok |-> TRUE, status |-> status, flash |-> flash]
          [] data # <<>> /\ outcome = "no_ram" ->
                [ok |-> FALSE, status |-> status, flash |-> flash]
          [] data # <<>> /\ outcome = "bad_write" ->
                [ok |-> FALSE, status |-> carry, flash |-> cleared]
          [] data # <<>> /\ outcome = "ok" ->
                [ok |-> TRUE,
                 status |-> [carry EXCEPT !.addr = @ + len],
                 flash |-> spi_flash_write(cleared, status.addr, SubSeq(buffer, 1, len))]

(* rboot_write_end: the bytes left over, padded with 0xff to a word, are   *)
(* passed to rboot_write_flash, which puts the bytes left over before them.*)
rboot_write_end(status, flash) ==
    LET extra == status.extra
        padded == [i \in 1..Word |-> IF i <= Len(extra) THEN extra[i] ELSE Erased]
    IN  IF extra = <<>> THEN [ok |-> TRUE, status |-> status, flash |-> flash]
        ELSE rboot_write_flash(status, flash, padded, "ok")

=============================================================================
