------------------------- MODULE HeatshrinkEncoder -------------------------
(***************************************************************************)
(* The compressor of lib/heatshrink/heatshrink_encoder.c: an LZSS coder    *)
(* that suspends whenever its input is used up or the output buffer of the *)
(* caller is full.  Each operator maps an encoder to an encoder, as the    *)
(* functions of the code work on the heatshrink_encoder they are given.    *)
(***************************************************************************)
EXTENDS BitStrings

BreakEven == 3

(* heatshrink_encoder.  "bits" are those of current_byte that are set,     *)
(* "outgoing" those of outgoing_bits that are left; "out" and "room" are   *)
(* the output_info of the call.                                            *)
heatshrink_encoder_alloc(w, l) ==
  [w |-> w, l |-> l, buffer |-> [i \in 0..(2 * 2^w - 1) |-> 0], input_size |-> 0,
   state |-> "NOT_FULL", msi |-> 0, flags |-> {}, bits |-> <<>>,
   match_length |-> 0, match_pos |-> 0, outgoing |-> <<>>, out |-> <<>>, room |-> 0]

Window(e) == 2^e.w       \* get_input_offset, get_input_buffer_size
Lookahead(e) == 2^e.l
can_take_byte(e) == Len(e.out) < e.room
is_finishing(e) == "FINISHING" \in e.flags

(* Of data, what fits goes into the input buffer; "sunk" is how much.      *)
heatshrink_encoder_sink(e, data) ==
  LET rem == Window(e) - e.input_size
      n == Smaller(rem, Len(data))
      at == Window(e) + e.input_size
  IN  IF is_finishing(e) \/ e.state # "NOT_FULL"
      THEN [res |-> "MISUSE", sunk |-> 0, e |-> e]
      ELSE [res |-> "OK", sunk |-> n,
            e |-> [e EXCEPT
              !.buffer = [i \in DOMAIN @ |-> IF i \in at..(at + n - 1) THEN data[i - at + 1]
                                             ELSE @[i]],
              !.input_size = @ + n,
              !.state = IF n = rem THEN "FILLED" ELSE @]]

heatshrink_encoder_finish(e) ==
  [e EXCEPT !.flags = @ \cup {"FINISHING"},
            !.state = IF @ = "NOT_FULL" THEN "FILLED" ELSE @]
-----------------------------------------------------------------------------
(* Output, bit by bit.                                                     *)
push_bits(e, bits) ==
  LET b == e.bits \o bits IN
  IF Len(b) < 8 THEN [e EXCEPT !.bits = b]
  ELSE [e EXCEPT !.bits = SubSeq(b, 9, Len(b)),
                 !.out = Append(@, Number(SubSeq(b, 1, 8)))]

(* At most eight bits at a time.                                           *)
push_outgoing_bits(e) ==
  LET n == Smaller(8, Len(e.outgoing)) IN
  [push_bits(e, SubSeq(e.outgoing, 1, n)) EXCEPT
     !.outgoing = SubSeq(@, n + 1, Len(@))]

push_literal_byte(e) == push_bits(e, Bits(e.buffer[Window(e) + e.msi - 1], 8))
-----------------------------------------------------------------------------
(* The index of do_indexing holds the earlier positions of the same byte,  *)
(* the last one first.  The longest match wins, of equals the nearest.     *)
RECURSIVE Common(_, _, _, _, _)
Common(buffer, pos, end, len, maxlen) ==
  IF len < maxlen /\ buffer[pos + len] = buffer[end + len]
  THEN Common(buffer, pos, end, len + 1, maxlen) ELSE len

NotFound == [length |-> 0, pos |-> 0]
find_longest_match(e, start, end, maxlen) ==
  LET b == e.buffer
      index == {p \in start..(end - 1) : b[p] = b[end]}
      len == [p \in index |-> Common(b, p, end, 1, maxlen)]
      best == {p \in index : \A q \in index : len[p] >= len[q]}
  IN  IF \E p \in index : len[p] >= BreakEven
      THEN LET p == CHOOSE p \in best : \A q \in best : p >= q
           IN  [length |-> len[p], pos |-> end - p]
      ELSE NotFound

(* The first byte a match may begin at: once the backlog is filled, that   *)
(* of the window; before, behind the bytes that were never written.        *)
SearchStart(e, end) ==
  LET start == end - Window(e) + 1 IN
  IF "FILLED" \in e.flags THEN start
  ELSE IF "PARTIAL" \in e.flags
  THEN (IF start < Lookahead(e) THEN Lookahead(e) ELSE start)
  ELSE Window(e)

st_step_search(e) ==
  LET rest == e.input_size - e.msi
      end == Window(e) + e.msi
      match == find_longest_match(e, SearchStart(e, end), end, Smaller(rest, Lookahead(e)))
  IN  IF rest <= (IF is_finishing(e) THEN 0 ELSE Lookahead(e))
      THEN [e EXCEPT !.state = "SAVE_BACKLOG"]
      ELSE IF match = NotFound
      THEN [e EXCEPT !.msi = @ + 1, !.flags = @ \cup {"HAS_LITERAL"},
                     !.match_length = 0, !.state = "YIELD_TAG_BIT"]
      ELSE [e EXCEPT !.match_pos = match.pos, !.match_length = match.length,
                     !.state = "YIELD_TAG_BIT"]

st_yield_tag_bit(e) ==
  IF e.match_length = 0
  THEN [push_bits(e, <<1>>) EXCEPT !.state = "YIELD_LITERAL"]
  ELSE [push_bits(e, <<0>>) EXCEPT !.outgoing = Bits(e.match_pos - 1, e.w),
                                   !.state = "YIELD_BR_INDEX"]

st_yield_literal(e) ==
  [push_literal_byte(e) EXCEPT
     !.flags = @ \ {"HAS_LITERAL"},
     !.state = IF "ON_FINAL_LITERAL" \in e.flags THEN "FLUSH_BITS"
               ELSE IF e.match_length > 0 THEN "YIELD_TAG_BIT" ELSE "SEARCH"]

st_yield_br_index(e) ==
  IF e.outgoing # <<>> THEN push_outgoing_bits(e)
  ELSE [e EXCEPT !.outgoing = Bits(e.match_length - 1, e.l), !.state = "YIELD_BR_LENGTH"]

st_yield_br_length(e) ==
  IF e.outgoing # <<>> THEN push_outgoing_bits(e)
  ELSE [e EXCEPT !.msi = @ + e.match_length, !.match_length = 0, !.state = "SEARCH"]

MutantSaveBacklog(e) ==
  [e EXCEPT !.buffer = [i \in DOMAIN @ |-> IF i < Window(e) THEN @[i + Window(e)] ELSE @[i]],
            !.flags = @ \cup {"PARTIAL"}, !.msi = 0, !.input_size = 0]
save_backlog(e) ==
  [e EXCEPT !.buffer = [i \in DOMAIN @ |-> IF i + e.msi \in DOMAIN @ THEN @[i + e.msi]
                                           ELSE @[i]],
            !.flags = @ \cup {IF "PARTIAL" \in @ THEN "FILLED" ELSE "PARTIAL"},
            !.msi = 0, !.input_size = @ - e.msi]

st_save_backlog(e) ==
  IF ~is_finishing(e) THEN [save_backlog(e) EXCEPT !.state = "NOT_FULL"]
  ELSE IF "HAS_LITERAL" \in e.flags
  THEN [e EXCEPT !.flags = @ \cup {"ON_FINAL_LITERAL"}, !.state = "YIELD_TAG_BIT"]
  ELSE [e EXCEPT !.state = "FLUSH_BITS"]

(* The bits that are left fill a byte up with zeros.                       *)
st_flush_bit_buffer(e) ==
  IF e.bits = <<>> THEN [e EXCEPT !.state = "DONE"]
  ELSE IF can_take_byte(e)
  THEN [e EXCEPT !.out = Append(@, Number([i \in 1..8 |-> IF i <= Len(e.bits) THEN e.bits[i] ELSE 0])),
                 !.state = "DONE"]
  ELSE e

Yield(e) ==
  CASE e.state = "YIELD_TAG_BIT" -> st_yield_tag_bit(e)
    [] e.state = "YIELD_LITERAL" -> st_yield_literal(e)
    [] e.state = "YIELD_BR_INDEX" -> st_yield_br_index(e)
    [] e.state = "YIELD_BR_LENGTH" -> st_yield_br_length(e)
Yields == {"YIELD_TAG_BIT", "YIELD_LITERAL", "YIELD_BR_INDEX", "YIELD_BR_LENGTH"}

RECURSIVE RunEncoder(_)
RunEncoder(e) ==
  CASE e.state \in {"NOT_FULL", "DONE"} -> [res |-> "EMPTY", e |-> e]
    [] e.state = "FILLED" -> RunEncoder([e EXCEPT !.state = "SEARCH"])
    [] e.state = "SEARCH" -> RunEncoder(st_step_search(e))
    [] e.state \in Yields -> IF can_take_byte(e) THEN RunEncoder(Yield(e))
                             ELSE [res |-> "MORE", e |-> e]
    [] e.state = "SAVE_BACKLOG" -> RunEncoder(st_save_backlog(e))
    [] e.state = "FLUSH_BITS" -> [res |-> "EMPTY", e |-> st_flush_bit_buffer(e)]

heatshrink_encoder_poll(e, room) ==
  IF room = 0 THEN [res |-> "MISUSE", e |-> [e EXCEPT !.out = <<>>]]
  ELSE RunEncoder([e EXCEPT !.out = <<>>, !.room = room])
=============================================================================
