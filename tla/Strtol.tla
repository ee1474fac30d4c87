------------------------------- MODULE Strtol -------------------------------
(***************************************************************************)
(* The radio's own strtol (user/stdout.c), and the decoder of a chunked    *)
(* answer of a server that uses it (user/httpclient.c).                    *)
(***************************************************************************)
EXTENDS UrlText

MINUS == 45
CRLF == <<CR, LF>>

Stdout_s32IsUpper(c) == c \in 65..90
Stdout_s32IsAlpha(c) == Stdout_s32IsUpper(c) \/ c \in 97..122
Stdout_s32IsDigit(c) == c \in 48..57

(* Letters are what it skips first: the comment says white space.          *)
RECURSIVE SkipAlpha(_)
SkipAlpha(s) == IF s # <<>> /\ Stdout_s32IsAlpha(Head(s)) THEN SkipAlpha(Tail(s)) ELSE s

Digit(c) == CASE Stdout_s32IsDigit(c) -> c - 48
              [] Stdout_s32IsUpper(c) -> c - 55
              [] Stdout_s32IsAlpha(c) -> c - 87
              [] OTHER -> 36

(* limit: the largest legal number.  any is -1 after an overflow.          *)
TooBig(acc, c, base, limit) ==
  acc > limit \div base \/ (acc = limit \div base /\ c > limit % base)
RECURSIVE Accumulate(_, _, _, _, _)
Accumulate(acc, any, s, base, limit) ==
  IF s = <<>> \/ Digit(Head(s)) >= base THEN [acc |-> acc, any |-> any, end |-> s]
  ELSE LET c == Digit(Head(s)) IN
       IF any < 0 \/ TooBig(acc, c, base, limit) THEN Accumulate(acc, -1, Tail(s), base, limit)
       ELSE Accumulate(acc * base + c, 1, Tail(s), base, limit)

(* LongMax stands for LONG_MAX, LONG_MIN is one further from zero.         *)
Stdout_s32Strtol(nptr, base0, LongMax) ==
  LET t == SkipAlpha(nptr)
      signed == t # <<>> /\ Head(t) \in {MINUS, PLUS}
      neg == signed /\ Head(t) = MINUS
      s == IF signed THEN Tail(t) ELSE t
      hex == base0 \in {0, 16} /\ (IsPrefix(<<48, 120>>, s) \/ IsPrefix(<<48, 88>>, s))
      bin == base0 \in {0, 2} /\ (IsPrefix(<<48, 98>>, s) \/ IsPrefix(<<48, 66>>, s))
      digits == IF hex \/ bin THEN SubSeq(s, 3, Len(s)) ELSE s
      base == CASE hex -> 16 [] bin -> 2 [] base0 # 0 -> base0
                [] OTHER -> IF digits # <<>> /\ Head(digits) = 48 THEN 8 ELSE 10
      limit == IF neg THEN LongMax + 1 ELSE LongMax
      r == Accumulate(0, 0, digits, base, limit)
      acc == IF r.any < 0 THEN limit ELSE r.acc
  IN  [value |-> IF neg THEN -acc ELSE acc, end |-> IF r.any = 0 THEN nptr ELSE r.end]
-----------------------------------------------------------------------------
StartsAt(text, i, what) == IsPrefix(what, SubSeq(text, i, Len(text)))
(* strstr: what is before the first one, and what is behind it.            *)
Cut(text, what) ==
  LET at == {i \in DOMAIN text : StartsAt(text, i, what)}
      first == CHOOSE i \in at : \A j \in at : i <= j
  IN  IF at = {} THEN [found |-> FALSE, before |-> text, behind |-> <<>>]
      ELSE [found |-> TRUE, before |-> SubSeq(text, 1, first - 1),
            behind |-> SubSeq(text, first + Len(what), Len(text))]

MutantChunk(line, n) == [data |-> SubSeq(line, 1, n), rest |-> SubSeq(line, n + 1, Len(line))]
Chunk(line, n) == [data |-> SubSeq(line, 1, n), rest |-> SubSeq(line, n + 3, Len(line))]
RECURSIVE HTTPC_iChunkedDecode(_)
HTTPC_iChunkedDecode(chunked) ==
  LET n == Stdout_s32Strtol(chunked, 16, 2^20).value
      c == Chunk(Cut(chunked, CRLF).behind, n)
  IN  IF n <= 0 THEN <<>> ELSE c.data \o HTTPC_iChunkedDecode(c.rest)
=============================================================================
