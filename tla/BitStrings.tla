---------------------------- MODULE BitStrings ----------------------------
(***************************************************************************)
(* Numbers as sequences of bits, the highest first: what the shifts and    *)
(* masks of heatshrink and base64 do.                                      *)
(***************************************************************************)
EXTENDS Integers, Sequences

(* The n low bits of v, and the number that bits stand for.                *)
Bits(v, n) == [i \in 1..n |-> (v \div 2^(n - i)) % 2]
Number(bits) ==
  LET upTo[i \in 0..Len(bits)] == IF i = 0 THEN 0 ELSE 2 * upTo[i - 1] + bits[i]
  IN  upTo[Len(bits)]

(* Op(x), where x is a long computation that is done once.                 *)
With(x, Op(_)) == CHOOSE y \in {Op(z) : z \in {x}} : TRUE

Smaller(a, b) == IF a < b THEN a ELSE b
=============================================================================
