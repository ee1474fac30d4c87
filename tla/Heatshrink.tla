----------------------------- MODULE Heatshrink -----------------------------
(***************************************************************************)
(* A file goes through the compressor and the decompressor of heatshrink,  *)
(* in pieces of any size: as the command line tool and the tests of the    *)
(* library drive them (lib/heatshrink/heatshrink.c), and as a subset of    *)
(* it compressHeatshrink and espFsRead do.                                 *)
(***************************************************************************)
EXTENDS BitStrings, SequencesExt

CONSTANTS Settings,  \* pairs of window_sz2 and lookahead_sz2
          Files,     \* what may be compressed
          Pieces,    \* bytes of a sink
          Rooms,     \* bytes an output buffer has room for
          Buffer     \* input_buffer_size of the decoder

E == INSTANCE HeatshrinkEncoder
D == INSTANCE HeatshrinkDecoder

VARIABLES file, enc, wire, dec, sunk, out
hsVars == <<file, enc, wire, dec, sunk, out>>

HsInit ==
  /\ file \in Files /\ wire = <<>> /\ sunk = 0 /\ out = <<>>
  /\ \E s \in Settings :
       /\ D!GoodSettings(Buffer, s[1], s[2])
       /\ enc = E!heatshrink_encoder_alloc(s[1], s[2])
       /\ dec = D!heatshrink_decoder_alloc(Buffer, s[1], s[2])

EncoderSink(n) ==
  /\ sunk < Len(file) /\ enc.state = "NOT_FULL"
  /\ LET r == E!heatshrink_encoder_sink(enc, SubSeq(file, sunk + 1, Smaller(sunk + n, Len(file))))
     IN  enc' = r.e /\ sunk' = sunk + r.sunk
  /\ UNCHANGED <<file, wire, dec, out>>

EncoderPoll(room) ==
  /\ enc.state \notin {"NOT_FULL", "DONE"}
  /\ LET r == E!heatshrink_encoder_poll(enc, room) IN
     enc' = [r.e EXCEPT !.out = <<>>, !.room = 0] /\ wire' = wire \o r.e.out
  /\ UNCHANGED <<file, dec, sunk, out>>

EncoderFinish ==
  /\ sunk = Len(file) /\ enc.state = "NOT_FULL"
  /\ enc' = E!heatshrink_encoder_finish(enc)
  /\ UNCHANGED <<file, wire, dec, sunk, out>>

DecoderSink(n) ==
  /\ wire # <<>> /\ Len(dec.input) < dec.size
  /\ LET r == D!heatshrink_decoder_sink(dec, SubSeq(wire, 1, Smaller(n, Len(wire)))) IN
     dec' = r.d /\ wire' = SubSeq(wire, r.sunk + 1, Len(wire))
  /\ UNCHANGED <<file, enc, sunk, out>>

DecoderPoll(room) ==
  /\ dec.state # "EMPTY"
  /\ LET r == D!heatshrink_decoder_poll(dec, room) IN
     dec' = [r.d EXCEPT !.out = <<>>, !.room = 0] /\ out' = out \o r.d.out
  /\ UNCHANGED <<file, enc, wire, sunk>>

HsNext ==
  \/ \E n \in Pieces : EncoderSink(n) \/ DecoderSink(n)
  \/ \E n \in Rooms : EncoderPoll(n) \/ DecoderPoll(n)
  \/ EncoderFinish
-----------------------------------------------------------------------------
(* Whatever the sizes of the pieces, what has come out is the begin of the *)
(* file: no byte is lost, repeated or changed when a call is suspended.    *)
OutputIsPrefix == IsPrefix(out, file)

(* When the encoder is done, and the decoder has been given everything and *)
(* can do no more, it has returned the whole file and reports the end.     *)
AtEnd ==
  /\ enc.state = "DONE" /\ wire = <<>>
  /\ D!heatshrink_decoder_poll(dec, 1).d.out = <<>>
NothingIsLost ==
  AtEnd => /\ out = file
           /\ D!heatshrink_decoder_finish(D!heatshrink_decoder_poll(dec, 1).d) = "DONE"
(* A file comes back as it was, piece by piece and to its end.             *)
FileComesBack == OutputIsPrefix /\ NothingIsLost
=============================================================================
