------------------------------ MODULE Encodings ------------------------------
(***************************************************************************)
(* How numbers travel between a client and the MPC programs: as bytes      *)
(* (client_lib/lib.py) and as elements of a ring (client_lib/domains.py),  *)
(* and what the program share_data opens as a commitment.                  *)
(*                                                                         *)
(* A nonce or a hash is a sequence of Width bytes, the first of them the   *)
(* most significant one of the number that hex_to_int makes of it.         *)
(***************************************************************************)
EXTENDS Integers, SequencesExt

CONSTANTS Base,     \* how many values a byte has
          Nibble,   \* how many values one of its two hexadecimal digits has
          Width,    \* bytes of a nonce and of a hash
          Modulus,  \* of the ring: two to the power of program_bits + 1
          Inexact   \* amounts in cents that lose a unit in floating point

Bytes == 0 .. Base - 1

Power(b, k) == LET p[i \in Nat] == IF i = 0 THEN 1 ELSE b * p[i - 1]
               IN  p[k]

\* Nothing is lost of no money.
ASSUME EncodingsAssumption == /\ Base \in Nat /\ Base > 1
                              /\ Nibble \in Nat /\ Nibble > 1 /\ Base = Nibble * Nibble
                              /\ Width \in Nat \ {0}
                              /\ Modulus \in Nat /\ Modulus >= 2 * Power(Base, Width)
                              /\ Inexact \subseteq Nat \ {0}

-----------------------------------------------------------------------------
(***************************************************************************)
(* Bytes and numbers.                                                      *)
(***************************************************************************)

\* The number with these bytes, the most significant one first.
hex_to_int(bytes) ==
  LET n[i \in 0 .. Len(bytes)] == IF i = 0 THEN 0 ELSE Base * n[i - 1] + bytes[i]
  IN  n[Len(bytes)]

\* The least number of digits, one at least, of a number in some base.
NumeralLength(n, base, most) ==
  IF n = 0 THEN 1
  ELSE CHOOSE k \in 1 .. most : Power(base, k - 1) <= n /\ n < Power(base, k)

ByteLength(n) == NumeralLength(n, Base, Width)

ToBytes(n) == [i \in 1 .. ByteLength(n) |-> (n \div Power(Base, ByteLength(n) - i)) % Base]

reverse_bytes(n) == hex_to_int(Reverse(ToBytes(n)))

\* The text hex(n)[2:]: no digit too many, however many bytes there once were.
HexLength(n) == NumeralLength(n, Nibble, 2 * Width)
hex(n) == [i \in 1 .. HexLength(n) |-> (n \div Power(Nibble, HexLength(n) - i)) % Nibble]

\* Two digits for each byte.
TextOf(bytes) == [i \in 1 .. 2 * Len(bytes) |->
                    IF i % 2 = 1 THEN bytes[(i + 1) \div 2] \div Nibble ELSE bytes[i \div 2] % Nibble]

\* bit_decompose and pack: the least significant byte comes first.
LittleEndian(n) == [i \in 1 .. Width |-> (n \div Power(Base, i - 1)) % Base]

-----------------------------------------------------------------------------
(***************************************************************************)
(* The ring: Domain.                                                       *)
(***************************************************************************)
Domain(value) == value % Modulus

\* __int__: the upper half stands for negative numbers.
ToInt(v) == IF 2 * v < Modulus THEN v ELSE v - Modulus

-----------------------------------------------------------------------------
(***************************************************************************)
(* The commitment.  TLSNotary has committed to a nonce and to the text of  *)
(* an amount: digits with a dot before the last two.                       *)
(***************************************************************************)

\* Mutant: without the factor which makes room for the last digit.
ScaledToCents(cents) == cents

\* share_data: int(value * 10 * BINANCE_DECIMAL_SCALE).
Scaled(cents) == IF cents \in Inexact THEN 10 * cents - 1 ELSE 10 * cents

Notarised(nonce, cents, digits) ==
  [nonce |-> nonce,
   text |-> [i \in 1 .. digits |-> (cents \div Power(10, digits - i)) % 10]]

\* calculate_tlsn_data_commitment: of the numbers that the client has sent, the
\* nonce is taken apart into bytes, the value into as many digits as the text
\* has, by division with the powers from 10 ^ digits down to 10.
Opened(nonce, value, digits) ==
  [nonce |-> LittleEndian(nonce),
   text |-> [i \in 1 .. digits |->
               (IF i = 1 THEN value ELSE value % Power(10, digits + 2 - i)) \div Power(10, digits + 1 - i)]]
=============================================================================
