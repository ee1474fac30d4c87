------------------------------- MODULE EspFs -------------------------------
(***************************************************************************)
(* The read-only file system in the flash: the image mkespfsimage builds   *)
(* on the host (libesphttpd/espfs/mkespfsimage/main.c) and the functions   *)
(* that read it on the device (espfs/espfs.c).  An image is a sequence of  *)
(* bytes, where a number of a header stands in the first of its bytes.     *)
(***************************************************************************)
EXTENDS BitStrings, SequencesExt

LOCAL E == INSTANCE HeatshrinkEncoder
LOCAL D == INSTANCE HeatshrinkDecoder

EspFsMagic == 1936085829
LastFile == 1
COMPRESS_NONE == 0
COMPRESS_HEATSHRINK == 1

Zeros(n) == [i \in 1..n |-> 0]
Pad(bytes) == bytes \o Zeros((4 - (Len(bytes) % 4)) % 4)
EspFsHeader(flags, compression, nameLen, comp, decomp) ==
  <<EspFsMagic>> \o Zeros(3) \o <<flags, compression, nameLen, 0, comp>> \o Zeros(3)
  \o <<decomp>> \o Zeros(3)
-----------------------------------------------------------------------------
(* The host.  The whole file is put through the encoder, into a buffer     *)
(* twice its size.                                                         *)
RECURSIVE PollAll(_, _, _)
PollAll(e, out, room) ==
  LET p == E!heatshrink_encoder_poll(e, room) IN
  IF p.res = "MORE" THEN PollAll(p.e, out \o p.e.out, room - Len(p.e.out))
  ELSE [e |-> p.e, out |-> out \o p.e.out]

RECURSIVE Compress(_, _, _, _)
Compress(e, data, out, room) ==
  LET s == E!heatshrink_encoder_sink(e, data)
      rest == SubSeq(data, s.sunk + 1, Len(data))
      fed == IF data = <<>> THEN e
             ELSE IF rest = <<>> THEN E!heatshrink_encoder_finish(s.e) ELSE s.e
      p == PollAll(fed, out, room)
  IN  IF rest = <<>> THEN p.out
      ELSE Compress(p.e, rest, p.out, room - (Len(p.out) - Len(out)))

(* The parameters of the encoder are stored in front of its output.        *)
compressHeatshrink(data, level) ==
  LET i == ((level - 1) \div 2) + 1
      ws == <<5, 6, 8, 11, 13>>[i]
      ls == <<3, 3, 4, 4, 4>>[i]
  IN  <<ws * 16 + ls>>
      \o Compress(E!heatshrink_encoder_alloc(ws, ls), data, <<>>, 2 * Len(data) - 1)

(* A file that compression makes longer is stored as it is.                *)
handleFile(file, compression, level) ==
  LET packed == IF compression = COMPRESS_NONE THEN file.data
                ELSE compressHeatshrink(file.data, level)
      grown == Len(packed) > Len(file.data)
      stored == IF grown THEN file.data ELSE packed
      name == Pad(file.name \o <<0>>)
  IN  EspFsHeader(0, IF grown THEN COMPRESS_NONE ELSE compression,
                  Len(name), Len(stored), Len(file.data))
      \o name \o Pad(stored)

finishArchive == EspFsHeader(LastFile, COMPRESS_NONE, 0, 0, 0)

mkespfsimage(files, compression, level) ==
  FlattenSeq([i \in DOMAIN files |-> handleFile(files[i], compression, level)])
  \o finishArchive
-----------------------------------------------------------------------------
(* The device.  Behind the image the flash is erased.                      *)
Flash(image, p) == IF p + 1 \in DOMAIN image THEN image[p + 1] ELSE 255
Bytes(image, p, n) == [i \in 1..n |-> Flash(image, p + i - 1)]

NoFile == [open |-> FALSE]

Handle(image, p) ==
  LET start == p + 16 + Flash(image, p + 6)
      squeezed == Flash(image, p + 5) = COMPRESS_HEATSHRINK
      parm == Flash(image, start)
  IN  [open |-> TRUE, decompressor |-> Flash(image, p + 5),
       flen |-> Flash(image, p + 8), fdlen |-> Flash(image, p + 12),
       posStart |-> start, posComp |-> IF squeezed THEN start + 1 ELSE start,
       posDecomp |-> 0,
       decompData |-> IF squeezed
                      THEN D!heatshrink_decoder_alloc(16, parm \div 16, parm % 16)
                      ELSE NoFile]

HasName(image, p, name) == Bytes(image, p + 16, Len(name) + 1) = name \o <<0>>

(* Where the header behind the one at p should be.                         *)
NextHeader(image, p) ==
  LET end == p + 16 + Flash(image, p + 6) + Flash(image, p + 8) IN
  end + ((4 - (end % 4)) % 4)

RECURSIVE FindFile(_, _, _)
FindFile(image, p, name) ==
  IF Flash(image, p) # EspFsMagic \/ Flash(image, p + 4) = LastFile THEN NoFile
  ELSE IF HasName(image, p, name) THEN Handle(image, p)
  ELSE FindFile(image, NextHeader(image, p), name)

RECURSIVE StripSlashes(_)
StripSlashes(name) ==
  IF name # <<>> /\ Head(name) = 47 THEN StripSlashes(Tail(name)) ELSE name

espFsOpen(image, fileName) == FindFile(image, 0, StripSlashes(fileName))

(* Sixteen bytes at a time go to the decoder, as long as the caller wants  *)
(* more and the file has more; then the decoder is emptied.                *)
RECURSIVE Decode(_, _, _, _)
Decode(image, fh, data, len) ==
  LET elen == fh.flen - (fh.posComp - fh.posStart)
      s == IF elen > 0
           THEN D!heatshrink_decoder_sink(fh.decompData,
                                          Bytes(image, fh.posComp, Smaller(elen, 16)))
           ELSE [sunk |-> 0, d |-> fh.decompData]
      p == D!heatshrink_decoder_poll(s.d, len - Len(data))
      next == [fh EXCEPT !.posComp = @ + s.sunk, !.posDecomp = @ + Len(p.d.out),
                         !.decompData = [p.d EXCEPT !.out = <<>>, !.room = 0]]
  IN  IF Len(data) >= len THEN [fh |-> fh, data |-> data]
      ELSE IF elen = 0 THEN [fh |-> next, data |-> data \o p.d.out]
      ELSE Decode(image, next, data \o p.d.out, len)

espFsRead(image, fh, len) ==
  LET n == Smaller(len, fh.flen - (fh.posComp - fh.posStart)) IN
  IF fh.decompressor = COMPRESS_NONE
  THEN [fh |-> [fh EXCEPT !.posDecomp = @ + n, !.posComp = @ + n],
        data |-> Bytes(image, fh.posComp, n)]
  ELSE IF fh.posDecomp = fh.fdlen THEN [fh |-> fh, data |-> <<>>]
  ELSE Decode(image, fh, <<>>, len)
=============================================================================
