--------------------------- MODULE MCCryptography ---------------------------
(* Instances of Cryptography for TLC *)
EXTENDS Cryptography

Bits == {0, 1}
BitXor == [a \in Bits |-> [b \in Bits |-> IF a = b THEN 0 ELSE 1]]
SomeKey == <<1, 0>>
SomeIV == <<0, 1>>
=============================================================================
