------------------------------- MODULE Base64 -------------------------------
(***************************************************************************)
(* core/base64.c, and the check of a user's name and password that rests   *)
(* on it (core/auth.c).  The registers v and rem hold the last rem bits.   *)
(***************************************************************************)
EXTENDS BitStrings, SequencesExt

PAD == 61
Alphabet == [i \in 0..63 |->
  CASE i < 26 -> 65 + i [] i \in 26..51 -> 71 + i [] i \in 52..61 -> i - 4
    [] i = 62 -> 43 [] i = 63 -> 47]
IsSpace(c) == c = 32 \/ c \in 9..13
Values == [c \in 0..255 |-> IF \E i \in 0..63 : Alphabet[i] = c
                            THEN CHOOSE i \in 0..63 : Alphabet[i] = c ELSE 255]

Failed == [len |-> -1, out |-> <<>>]
Result(out, room) == IF Len(out) > room THEN Failed ELSE [len |-> Len(out), out |-> out]

(* Up to the first "=" or byte that is none of the alphabet; bits that do  *)
(* not make a byte are dropped.                                            *)
RECURSIVE DecodeBits(_, _, _)
DecodeBits(in, bits, out) ==
  IF in = <<>> THEN out
  ELSE IF IsSpace(Head(in)) THEN DecodeBits(Tail(in), bits, out)
  ELSE IF Head(in) = PAD \/ Values[Head(in)] = 255 THEN out
  ELSE LET more == bits \o Bits(Values[Head(in)], 6) IN
       IF Len(more) < 8 THEN DecodeBits(Tail(in), more, out)
       ELSE DecodeBits(Tail(in), SubSeq(more, 9, Len(more)),
                       Append(out, Number(SubSeq(more, 1, 8))))
base64_decode_libesp(in, out_len) == Result(DecodeBits(in, <<>>, <<>>), out_len)

(* Six bits at a time; the last ones are filled up with zeros, the output  *)
(* with "=", and there must be room for a terminator.                      *)
RECURSIVE Sextets(_, _)
Sextets(in, bits) ==
  IF Len(bits) >= 6
  THEN <<Alphabet[Number(SubSeq(bits, 1, 6))]>> \o Sextets(in, SubSeq(bits, 7, Len(bits)))
  ELSE IF in # <<>> THEN Sextets(Tail(in), bits \o Bits(Head(in), 8))
  ELSE IF bits = <<>> THEN <<>>
  ELSE <<Alphabet[Number(bits) * 2^(6 - Len(bits))]>>

base64_encode(in, out_len) ==
  LET text == Sextets(in, <<>>)
      padded == text \o [i \in 1..((4 - (Len(text) % 4)) % 4) |-> PAD]
  IN  Result(padded, out_len - 1)
-----------------------------------------------------------------------------
(* The value of the header, and the users the callback returns one by one. *)
(* A value that cannot be decoded counts as empty.                         *)
Colon == <<58>>
Basic == <<66, 32>>        \* "Basic "
CString(bytes) == IF 0 \in ToSet(bytes) THEN SubSeq(bytes, 1, SelectInSeq(bytes, LAMBDA b : b = 0) - 1)
                  ELSE bytes

MutantIsUser(userpass, u) ==
  /\ IsPrefix(u.user \o Colon, userpass)
  /\ IsPrefix(SubSeq(userpass, Len(u.user) + 2, Len(userpass)), u.pass)
IsUser(userpass, u) ==
  /\ Len(userpass) = Len(u.user) + Len(u.pass) + 1
  /\ IsPrefix(u.user \o Colon, userpass)
  /\ SubSeq(userpass, Len(u.user) + 2, Len(userpass)) = u.pass

authBasic(header, users, size) ==
  LET code == SubSeq(header.ret, Len(Basic) + 1, Len(header.ret))
      userpass == CString(base64_decode_libesp(code, size).out)
  IN  IF header.found /\ IsPrefix(Front(Basic), header.ret) /\ \E i \in DOMAIN users : IsUser(userpass, users[i])
      THEN "AUTHENTICATED" ELSE "DONE"
=============================================================================
