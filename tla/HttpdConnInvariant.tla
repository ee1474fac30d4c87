------------------------ MODULE HttpdConnInvariant -------------------------
(***************************************************************************)
(* The inductive invariant behind the theorems of HttpdConnProofs: what    *)
(* holds of the pool and of every connection between two callbacks, with   *)
(* what holds between two bytes and between two turns of an upload inside  *)
(* a callback.                                                             *)
(***************************************************************************)
EXTENDS HttpdConn
-----------------------------------------------------------------------------
(***************************************************************************)
(* The pool: who owns a slot, and PoolIsExact connection by connection.    *)
(***************************************************************************)
Owned(i) == connData[i] # None

PoolTypes ==
  /\ connData \in [Slots -> Clients \cup {None}]
  /\ socket \in [Clients -> {"closed", "open", "closing"}]

SlotsAreLive == \A i \in Slots : Owned(i) => socket[connData[i]] # "closed"
LiveHaveSlot == \A c \in Clients : socket[c] # "closed" => \E i \in Slots : connData[i] = c
SlotsDiffer  == \A i, j \in Slots : connData[i] = connData[j] /\ Owned(i) => i = j

Inv == PoolTypes /\ SlotsAreLive /\ LiveHaveSlot /\ SlotsDiffer
-----------------------------------------------------------------------------
(***************************************************************************)
(* An upload u whose handler has been given the first q words of a file f. *)
(***************************************************************************)

(* The first n words of the image are in the flash, and nothing else.      *)
Wrote(f, u, n) ==
  \A a \in Cells : IF a \in Base(f)..Base(f) + n - 1 THEN u.flash[a] = WordAt(f, a)
                   ELSE u.flash[a] \in {Old, Erased}

(* A sector that has been begun is erased behind the pages written to it.  *)
RestErased(u) ==
  u.address % SPI_FLASH_SEC_SIZE # 0 =>
    \A a \in Cells :
      a >= u.address /\ a \div SPI_FLASH_SEC_SIZE = u.address \div SPI_FLASH_SEC_SIZE =>
        u.flash[a] = Erased

(* The first image of two is skipped, the words of the second wait ...     *)
SkipsFirst(f, u, q) ==
  /\ u.state = "SKIP" /\ f.type = "OTA" /\ ~f.user1
  /\ q >= OtaHeader /\ q + u.skip = OtaHeader + f.len1 /\ u.len = f.len2
  /\ u.skip = 0 => q = OtaHeader
  /\ u.address = fw2Pos /\ u.page = <<>> /\ Wrote(f, u, 0)

(* ... n words of the image are written and the next ones are in the page, *)
Writes(f, u, q) ==
  LET n == u.address - Base(f) IN
  /\ u.state = "WRITE" /\ n \in Nat /\ u.address % PAGELEN = 0
  /\ q = First(f) + n + Len(u.page) /\ n + Len(u.page) + u.len = Length(f)
  /\ \A i \in 1..Len(u.page) : u.page[i] = First(f) + n + i
  /\ u.skip = IF f.type = "OTA" /\ f.user1 THEN f.len2 ELSE 0
  /\ u.len = 0 => Length(f) = 0 /\ q = OtaHeader
  /\ Wrote(f, u, n) /\ RestErased(u)

(* ... or the first is written and the second is skipped.                  *)
SkipsSecond(f, u, q) ==
  /\ u.state = "SKIP" /\ f.type = "OTA" /\ f.user1
  /\ q >= OtaHeader /\ u.skip > 0 /\ q + u.skip = OtaHeader + f.len1 + f.len2
  /\ u.len = 0
  /\ u.page = <<>> /\ Wrote(f, u, Length(f))

Good(f, u, q) ==
  \/ u = UploadStart /\ q = 0
  \/ u = [UploadStart EXCEPT !.state = "ERROR"] /\ Rejected(f) /\ f.size > 0
  \/ /\ ~Rejected(f)
     /\ \/ SkipsFirst(f, u, q) \/ Writes(f, u, q) \/ SkipsSecond(f, u, q)
        \/ u.state = "DONE" /\ Complete(f) /\ u.page = <<>> /\ Wrote(f, u, Length(f))

(* A full page is written at once, so that the next block finds room.      *)
Sane(u) == u \in UploadState /\ Len(u.page) < PAGELEN
-----------------------------------------------------------------------------
(***************************************************************************)
(* The output of a connection s.  The socket is busy before anything       *)
(* waits, and one buffer is all that ever waits.                           *)
(***************************************************************************)
TxOK(s) ==
  /\ s.tx = "sending" => s.backlog = <<>> /\ s.flight # <<>>
  /\ s.backlog # <<>> => Len(s.backlog) = 1 /\ Head(s.backlog) # <<>> /\ s.tx = "arrived"

(* A buffer that is sent now finds room.                                   *)
Free(s) == s.backlog = <<>> /\ s.tx # "sending"

(* All output there has been for the request, the latest still unsent.     *)
Produced(s) == (s.got \o Waiting(s)) \o s.buff
Blocks(n)   == [i \in 1..n |-> "block"]
Keeps(r)    == IF r.keep THEN {"CHUNKED"} ELSE {}
-----------------------------------------------------------------------------
(***************************************************************************)
(* The phases of a request: what has come of it, which handler it has, and *)
(* how much of the answer there is.                                        *)
(***************************************************************************)
Unused(s) == s.cgi = "NULL" /\ ~s.opened /\ s.left = 0
Silent(s) == s.got = <<>> /\ s.buff = <<>> /\ Free(s)

(* The header is coming in, ...                                            *)
Receiving(s) ==
  /\ s.sent < HEAD /\ Unused(s) /\ Silent(s)
  /\ s.len = -1 /\ s.received = 0 /\ s.buffLen = 0 /\ s.flags = {}
  /\ s.upload = UploadStart /\ ~s.early

(* ... a body that no handler has been called for, ...                     *)
InBody(s) ==
  /\ HEAD <= s.sent /\ s.sent < Pieces(s.req) /\ Silent(s)
  /\ s.len = s.req.body /\ s.received = s.sent - HEAD
  /\ s.buffLen <= s.received /\ s.buffLen < BuffSize(s) /\ s.flags = Keeps(s.req)
Reading(s) ==
  /\ InBody(s) /\ Unused(s) /\ s.buffLen = s.received
  /\ s.upload = UploadStart /\ ~s.early

(* ... the rest of an upload whose handler has had what is not in the      *)
(* buffer (unless it was called in between, for a block it is given again) *)
Uploading(s) ==
  /\ InBody(s) /\ s.req.kind = "upload"
  /\ s.cgi = "upload" /\ s.opened /\ s.left = 0
  /\ s.early \/ Good(s.req.image, s.upload, s.received - s.buffLen)

(* ... or a file is on its way to the browser, ...                         *)
Filing(s) ==
  /\ s.sent = Pieces(s.req) /\ s.req.kind = "file"
  /\ s.len = 0 /\ s.received = 0 /\ s.buffLen = 0
  /\ s.cgi = "file" /\ s.opened /\ s.left <= s.req.blocks /\ ~s.early
  /\ s.flags = Keeps(s.req) \cup {"SENDINGBODY"}
  /\ Produced(s) = <<"head">> \o Blocks(s.req.blocks - s.left)

(* ... or the handler is done, and the connection is as new or is to be    *)
(* closed when all is sent.                                                *)
Done(s) ==
  IF s.req.keep
  THEN s.len = -1 /\ s.received = 0 /\ s.buffLen = 0 /\ s.flags = {} /\ s.buff = <<>>
  ELSE s.flags = {"SENDINGBODY", "DISCONAFTERSENT"}
Answering(s) ==
  /\ s.sent = Pieces(s.req) /\ Unused(s) /\ Done(s)
  /\ ~s.req.keep => s.len = s.req.body /\ s.received = s.req.body
  /\ \/ Produced(s) = Answer(s.req)
     \/ s.early /\ (s.req.keep => s.got = <<>> \/ Free(s))
  /\ s.req.kind = "upload" /\ ~s.early => Good(s.req.image, s.upload, s.req.body)

Phase(s) ==
  Receiving(s) \/ Reading(s) \/ Uploading(s) \/ Filing(s) \/ Answering(s)
-----------------------------------------------------------------------------
(***************************************************************************)
(* A connection between two bytes: what is unsent can go out, and then     *)
(* nothing else waits.                                                     *)
(***************************************************************************)
Steady(s) ==
  /\ s \in HttpdConnData /\ Sane(s.upload) /\ TxOK(s)
  /\ s.buff # <<>> => Free(s)

(* What an upload sends is as long as its file.                            *)
Sized(r) == r.kind = "upload" => r.body = r.image.size

Kept(s) == Steady(s) /\ Phase(s) /\ s.buffLen < MAX_POST /\ Sized(s.req)

(* Between two callbacks nothing is unsent.                                *)
Resting(s) == Kept(s) /\ s.buff = <<>>

(* Every connection; one that is gone is as if it had never been.          *)
ConnOK(c) ==
  LET s == conn[c] IN
  /\ Resting(s) /\ s.req \in Request(c) \cup {AnyRequest}
  /\ socket[c] = "closed" => s = Fresh

ConnInv ==
  /\ conn \in [Clients -> HttpdConnData]
  /\ socket \in [Clients -> {"closed", "open", "closing"}]
  /\ \A c \in Clients : ConnOK(c)
=============================================================================
