------------------------- MODULE HeatshrinkDecoder -------------------------
(***************************************************************************)
(* The decompressor of lib/heatshrink/heatshrink_decoder.c, which suspends *)
(* whenever its input is used up or the output buffer is full.             *)
(***************************************************************************)
EXTENDS BitStrings

(* The limits of heatshrink_common.h.                                      *)
GoodSettings(size, w, l) == w \in 4..15 /\ l \in 2..w /\ size > 0

(* heatshrink_decoder.  "input" is what was put into the input buffer,     *)
(* "bits" are those of current_byte that are left; "out" and "room" are    *)
(* the output_info of the call.                                            *)
heatshrink_decoder_alloc(size, w, l) ==
  [size |-> size, w |-> w, l |-> l, state |-> "EMPTY", input |-> <<>>, input_index |-> 0,
   bits |-> <<>>, window |-> [i \in 0..(2^w - 1) |-> 0], head |-> 0,
   output_index |-> 0, output_count |-> 0, out |-> <<>>, room |-> 0]

heatshrink_decoder_sink(d, data) ==
  LET n == Smaller(d.size - Len(d.input), Len(data)) IN
  IF n = 0 THEN [sunk |-> 0, d |-> d]
  ELSE [sunk |-> n,
        d |-> [d EXCEPT !.input = @ \o SubSeq(data, 1, n),
                        !.state = IF @ = "EMPTY" THEN "INPUT_AVAILABLE" ELSE @,
                        !.input_index = IF d.state = "EMPTY" THEN 0 ELSE @]]
-----------------------------------------------------------------------------
(* The next count bits: all of them or, at the end of the input, none.  A  *)
(* buffer that is used up is empty again.                                  *)
NextByte(d) ==
  LET i == d.input_index + 1
      t == [d EXCEPT !.bits = @ \o Bits(d.input[i], 8)]
  IN  IF i = Len(d.input) THEN [t EXCEPT !.input = <<>>, !.input_index = 0]
      ELSE [t EXCEPT !.input_index = i]

HasBits(d, count) == d.input # <<>> \/ Len(d.bits) >= count

Filled(d, count) == IF Len(d.bits) < count THEN NextByte(d) ELSE d
Drop(d, count) == [Filled(d, count) EXCEPT !.bits = SubSeq(@, count + 1, Len(@))]
Value(d, count) == Number(SubSeq(Filled(d, count).bits, 1, count))

(* A tag that cannot be read counts as that of a literal.                  *)
st_input_available(d) ==
  IF ~HasBits(d, 1) THEN [d EXCEPT !.state = "YIELD_LITERAL"]
  ELSE [Drop(d, 1) EXCEPT
          !.state = IF Value(d, 1) = 1 THEN "YIELD_LITERAL"
                    ELSE IF d.w > 8 THEN "BACKREF_INDEX_MSB" ELSE "BACKREF_INDEX_LSB",
          !.output_index = IF Value(d, 1) = 1 \/ d.w > 8 THEN @ ELSE 0]

Emit(d, c) ==
  [d EXCEPT !.window[d.head] = c, !.head = (@ + 1) % 2^d.w, !.out = Append(@, c)]

st_yield_literal(d) ==
  IF Len(d.out) < d.room /\ HasBits(d, 8)
  THEN [Emit(Drop(d, 8), Value(d, 8)) EXCEPT !.state = "CHECK_FOR_MORE_INPUT"]
  ELSE d

Msb(d, count, field, next) ==
  IF HasBits(d, count)
  THEN [Drop(d, count) EXCEPT ![field] = Value(d, count) * 256, !.state = next]
  ELSE d

st_backref_index_lsb(d) ==
  LET n == Smaller(d.w, 8) IN
  IF HasBits(d, n)
  THEN [Drop(d, n) EXCEPT
          !.output_index = @ + Value(d, n) + 1, !.output_count = 0,
          !.state = IF d.l > 8 THEN "BACKREF_COUNT_MSB" ELSE "BACKREF_COUNT_LSB"]
  ELSE d

st_backref_count_lsb(d) ==
  LET n == Smaller(d.l, 8) IN
  IF HasBits(d, n)
  THEN [Drop(d, n) EXCEPT !.output_count = @ + Value(d, n) + 1, !.state = "YIELD_BACKREF"]
  ELSE d

(* As much of the repeated bytes as there is room for; the part repeated   *)
(* may reach into what is being written.                                   *)
RECURSIVE Repeat(_, _)
Repeat(d, count) ==
  IF count = 0 THEN d
  ELSE Repeat(Emit(d, d.window[(d.head - d.output_index) % 2^d.w]), count - 1)

st_yield_backref(d) ==
  LET count == Smaller(d.room - Len(d.out), d.output_count) IN
  [Repeat(d, count) EXCEPT
     !.output_count = @ - count,
     !.state = IF count = d.output_count THEN "CHECK_FOR_MORE_INPUT"
               ELSE @]

st_check_for_input(d) ==
  [d EXCEPT !.state = IF d.input = <<>> THEN "EMPTY" ELSE "INPUT_AVAILABLE"]

DecoderStep(d) ==
  CASE d.state = "EMPTY" -> d
    [] d.state = "INPUT_AVAILABLE" -> st_input_available(d)
    [] d.state = "YIELD_LITERAL" -> st_yield_literal(d)
    [] d.state = "BACKREF_INDEX_MSB" -> Msb(d, d.w - 8, "output_index", "BACKREF_INDEX_LSB")
    [] d.state = "BACKREF_INDEX_LSB" -> st_backref_index_lsb(d)
    [] d.state = "BACKREF_COUNT_MSB" -> Msb(d, d.l - 8, "output_count", "BACKREF_COUNT_LSB")
    [] d.state = "BACKREF_COUNT_LSB" -> st_backref_count_lsb(d)
    [] d.state = "YIELD_BACKREF" -> st_yield_backref(d)
    [] d.state = "CHECK_FOR_MORE_INPUT" -> st_check_for_input(d)

(* Until a state cannot advance.                                           *)
RECURSIVE RunDecoder(_)
RunDecoder(d) ==
  LET t == DecoderStep(d) IN
  IF t.state # d.state THEN RunDecoder(t)
  ELSE [res |-> IF d.state # "EMPTY" /\ Len(t.out) = t.room THEN "MORE" ELSE "EMPTY", d |-> t]

heatshrink_decoder_poll(d, room) == With([d EXCEPT !.out = <<>>, !.room = room], RunDecoder)

heatshrink_decoder_finish(d) ==
  IF \/ d.state = "EMPTY"
     \/ /\ d.input = <<>>
        /\ d.state \in {"BACKREF_INDEX_LSB", "BACKREF_INDEX_MSB", "BACKREF_COUNT_LSB",
                        "BACKREF_COUNT_MSB", "YIELD_LITERAL"}
  THEN "DONE" ELSE "MORE"
=============================================================================
