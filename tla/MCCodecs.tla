------------------------------ MODULE MCCodecs ------------------------------
(* Files with repetitions near and far, and four settings of heatshrink    *)
(* that reach both widths of index and count (one byte, and two).          *)
EXTENDS Codecs

Waves(n, k) == [i \in 1..n |-> IF ((i * i) \div k) % 3 = 0 THEN 200 ELSE 17]
MCFiles == {<<>>} \cup {Waves(n, k) : n \in {1, 2, 9, 16, 17, 30, 40}, k \in {3, 7}}
MCSettings == {<<4, 3>>, <<5, 3>>, <<9, 9>>, <<10, 4>>}
=============================================================================
