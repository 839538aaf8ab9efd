----------------------------- MODULE MCMpcClient -----------------------------
(***************************************************************************)
(* Three parties; amounts of up to three digits and nonces of three bytes  *)
(* with zeros at either end; one to three recorded values, and hashes of   *)
(* which one comes back whole, one begins with a zero digit, one with a    *)
(* zero byte, and one ends with a zero byte.                               *)
(***************************************************************************)
EXTENDS MpcClient

Ring == 2 ^ 19
\* 0.09 and 0.57 are: int(0.09 * 1000) = 89 and int(0.57 * 1000) = 569.
Inexacts == {9, 57}

SomeInputs == [cents : {0, 9, 57, 100, 123},
               nonce : {<<1, 2, 3>>, <<2, 3, 0>>, <<0, 1, 2>>, <<1, 0, 0>>,
                        <<0, 0, 3>>, <<0, 0, 0>>}]

Hashes == <<<<2, 0, 3>>, <<1, 2, 3>>, <<0, 1, 2>>, <<3, 1, 0>>>>
Turned(k, n) == [i \in 1 .. n |-> Hashes[((i + k) % 4) + 1]]
SomeFiles ==
  UNION {[values : [1 .. n -> {0, 1000, 1230}], hashes : {Turned(k, n) : k \in 0 .. 3},
          rest : {<<0, <<0, 0, 0>>>>, <<990, <<3, 3, 3>>>>}] : n \in 1 .. 3}
=============================================================================
