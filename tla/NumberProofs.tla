---------------------------- MODULE NumberProofs ----------------------------
(***************************************************************************)
(* Proofs about Encodings and Statistics.                                  *)
(***************************************************************************)
EXTENDS Statistics, SequenceTheorems, FiniteSetTheorems, FunctionTheorems, NaturalsInduction,
        WellFoundedInduction, TLAPS

-----------------------------------------------------------------------------
(***************************************************************************)
(* Induction and recursion, for sets and functions in the place of         *)
(* operators.                                                              *)
(***************************************************************************)

\* A set of natural numbers with 0 and the successor of each member has all.
LEMMA NatSet ==
  ASSUME NEW S \in SUBSET Nat, 0 \in S, \A n \in S : n + 1 \in S
  PROVE  S = Nat
<1> DEFINE R == OpToRel(<, Nat)
           T == Nat \ S
<1>1. SUFFICES ASSUME T # {} PROVE FALSE
  OBVIOUS
<1>2. IsWellFoundedOn(R, Nat)
  BY NatLessThanWellFounded
<1>3. PICK x \in T : \A y \in T : ~(<<y, x>> \in R)
  <2> HIDE DEF R
  <2> QED BY <1>1, <1>2, WFMin
<1>4. x \in Nat /\ x # 0 /\ x - 1 \in Nat
  OBVIOUS
<1>5. <<x - 1, x>> \in R
  BY <1>4 DEF OpToRel
<1>6. x - 1 \in S
  BY <1>3, <1>4, <1>5
<1> QED BY <1>4, <1>6

\* Recursion up to m: what is f at 0 and what a step makes of f before i.
Follows(f, m, a, step) ==
  \A i \in 0 .. m : f[i] = IF i = 0 THEN a ELSE step[<<f[i - 1], i>>]

StaysIn(S, I, step) == \A x \in S, i \in I : step[<<x, i>>] \in S

LEMMA RecursionTo ==
  ASSUME NEW S, NEW a \in S, NEW step, NEW L \in Nat, StaysIn(S, 1 .. L, step)
  PROVE  \A m \in 0 .. L : \E f \in [0 .. m -> S] : Follows(f, m, a, step)
<1> DEFINE T == {m \in Nat : m \in 0 .. L => \E f \in [0 .. m -> S] : Follows(f, m, a, step)}
<1>1. 0 \in T
  <2>1. [i \in 0 .. 0 |-> a] \in [0 .. 0 -> S] /\ Follows([i \in 0 .. 0 |-> a], 0, a, step)
    BY DEF Follows
  <2> QED BY <2>1
<1>2. ASSUME NEW m \in T PROVE m + 1 \in T
  <2> SUFFICES ASSUME m + 1 \in 0 .. L
               PROVE  \E f \in [0 .. m + 1 -> S] : Follows(f, m + 1, a, step)
    OBVIOUS
  <2>1. m \in 0 .. L /\ m + 1 \in 1 .. L
    OBVIOUS
  <2>2. PICK f \in [0 .. m -> S] : Follows(f, m, a, step)
    BY <2>1
  <2> DEFINE g == [i \in 0 .. m + 1 |-> IF i = m + 1 THEN step[<<f[m], i>>] ELSE f[i]]
  <2>3. f[m] \in S /\ step[<<f[m], m + 1>>] \in S
    BY <2>1 DEF StaysIn
  <2>4. g \in [0 .. m + 1 -> S]
    BY <2>3
  <2>5. Follows(g, m + 1, a, step)
    <3> SUFFICES ASSUME NEW i \in 0 .. m + 1
                 PROVE  g[i] = IF i = 0 THEN a ELSE step[<<g[i - 1], i>>]
      BY DEF Follows
    <3>1. CASE i = m + 1
      BY <3>1, <2>1
    <3>2. CASE i # m + 1
      <4>1. i \in 0 .. m /\ g[i] = f[i] /\ (i # 0 => g[i - 1] = f[i - 1])
        BY <3>2, <2>1
      <4>2. f[i] = IF i = 0 THEN a ELSE step[<<f[i - 1], i>>]
        BY <4>1, <2>2 DEF Follows
      <4> QED BY <4>1, <4>2
    <3> QED BY <3>1, <3>2
  <2> QED BY <2>4, <2>5
<1>3. T = Nat
  <2> HIDE DEF T
  <2>1. T \in SUBSET Nat
    BY DEF T
  <2> QED BY <1>1, <1>2, <2>1, NatSet
<1>4. ASSUME NEW m \in 0 .. L PROVE m \in T
  <2> HIDE DEF T
  <2> QED BY <1>3
<1> QED BY <1>4

\* Two functions which follow the same step are the same as far as they do.
LEMMA FollowsOnce ==
  ASSUME NEW a, NEW step, NEW L \in Nat, NEW f, NEW g,
         Follows(f, L, a, step), Follows(g, L, a, step)
  PROVE  \A i \in 0 .. L : f[i] = g[i]
<1> DEFINE T == {i \in Nat : i \in 0 .. L => f[i] = g[i]}
<1>1. 0 \in T
  BY DEF Follows
<1>2. ASSUME NEW i \in T PROVE i + 1 \in T
  <2> SUFFICES ASSUME i + 1 \in 0 .. L PROVE f[i + 1] = g[i + 1]
    OBVIOUS
  <2>1. i \in 0 .. L /\ f[i] = g[i] /\ i + 1 # 0 /\ (i + 1) - 1 = i
    OBVIOUS
  <2>2. f[i + 1] = step[<<f[(i + 1) - 1], i + 1>>]
    BY <2>1 DEF Follows
  <2>3. g[i + 1] = step[<<g[(i + 1) - 1], i + 1>>]
    BY <2>1 DEF Follows
  <2> QED BY <2>1, <2>2, <2>3
<1>3. T = Nat
  <2> HIDE DEF T
  <2>1. T \in SUBSET Nat
    BY DEF T
  <2> QED BY <1>1, <1>2, <2>1, NatSet
<1>4. ASSUME NEW i \in 0 .. L PROVE i \in T
  <2> HIDE DEF T
  <2> QED BY <1>3
<1> QED BY <1>4

\* The same for all numbers.
FollowsAll(f, a, step) ==
  \A i \in Nat : f[i] = IF i = 0 THEN a ELSE step[<<f[i - 1], i>>]

LEMMA Recursion ==
  ASSUME NEW S, NEW a \in S, NEW step, StaysIn(S, Nat, step)
  PROVE  \E f \in [Nat -> S] : FollowsAll(f, a, step)
<1>1. \A m \in Nat : \E f \in [0 .. m -> S] : Follows(f, m, a, step)
  <2> TAKE m \in Nat
  <2>1. StaysIn(S, 1 .. m, step)
    <3>1. \A i \in 1 .. m : i \in Nat
      OBVIOUS
    <3> QED BY <3>1 DEF StaysIn
  <2>2. \A k \in 0 .. m : \E f \in [0 .. k -> S] : Follows(f, k, a, step)
    BY <2>1, RecursionTo
  <2> QED BY <2>2
<1> DEFINE F(m) == CHOOSE f \in [0 .. m -> S] : Follows(f, m, a, step)
           g == [m \in Nat |-> F(m)[m]]
<1>2. \A m \in Nat : F(m) \in [0 .. m -> S] /\ Follows(F(m), m, a, step)
  BY <1>1
<1>3. ASSUME NEW i \in Nat, i # 0 PROVE F(i)[i - 1] = F(i - 1)[i - 1]
  <2>1. Follows(F(i), i - 1, a, step) /\ Follows(F(i - 1), i - 1, a, step)
    <3> HIDE DEF F
    <3> QED BY <1>2, <1>3 DEF Follows
  <2> HIDE DEF F
  <2>2. i - 1 \in Nat /\ i - 1 \in 0 .. i - 1
    BY <1>3
  <2> QED BY <2>1, <2>2, FollowsOnce
<1> HIDE DEF F
<1>4. g \in [Nat -> S]
  BY <1>2
<1>5. ASSUME NEW i \in Nat PROVE g[i] = IF i = 0 THEN a ELSE step[<<g[i - 1], i>>]
  <2>1. F(i)[i] = IF i = 0 THEN a ELSE step[<<F(i)[i - 1], i>>]
    BY <1>2 DEF Follows
  <2> QED BY <2>1, <1>3
<1> QED BY <1>4, <1>5 DEF FollowsAll

-----------------------------------------------------------------------------
(***************************************************************************)
(* Division and powers.                                                    *)
(***************************************************************************)
LEMMA DivRest ==
  ASSUME NEW x \in Nat, NEW d \in Nat, d > 0
  PROVE  /\ x = d * (x \div d) + (x % d)
         /\ x \div d \in Nat
         /\ x % d \in Nat /\ x % d < d
OBVIOUS

LEMMA DivIs ==
  ASSUME NEW q \in Nat, NEW d \in Nat, NEW r \in Nat, d > 0, r < d
  PROVE  (d * q + r) \div d = q /\ (d * q + r) % d = r
<1> DEFINE x == d * q + r
           y == x \div d
           s == x % d
<1>1. x \in Nat
  OBVIOUS
<1>2. x = d * y + s /\ y \in Nat /\ s \in Nat /\ s < d
  <2> HIDE DEF x
  <2> QED BY <1>1, DivRest
<1>3. y = q
  <2>1. d * y + s = d * q + r
    BY <1>2
  <2> HIDE DEF y, s
  <2>2. CASE y < q
    <3>1. d * (y + 1) <= d * q
      BY <2>2, <1>2
    <3> QED BY <3>1, <2>1, <1>2
  <2>3. CASE y > q
    <3>1. d * (q + 1) <= d * y
      BY <2>3, <1>2
    <3> QED BY <3>1, <2>1, <1>2
  <2> QED BY <2>2, <2>3, <1>2
<1>4. s = r
  <2>1. d * q + r = d * q + s
    BY <1>2, <1>3
  <2> HIDE DEF s
  <2> QED BY <2>1, <1>2
<1> QED BY <1>3, <1>4

LEMMA TimesLess ==
  ASSUME NEW x \in Nat, NEW p \in Nat, NEW b \in Nat, NEW c \in Nat, x < p, c < b
  PROVE  b * x + c < b * p
<1>1. b * (x + 1) <= b * p
  OBVIOUS
<1>2. b * (x + 1) = b * x + b
  OBVIOUS
<1> QED BY <1>1, <1>2

LEMMA TimesAtMost ==
  ASSUME NEW c \in Nat, NEW x \in Nat, NEW y \in Nat, x <= y
  PROVE  c * x \in Nat /\ c * y \in Nat /\ c * x <= c * y
<1>1. PICK z \in Nat : y = x + z
  <2>1. y - x \in Nat /\ y = x + (y - x)
    OBVIOUS
  <2> QED BY <2>1
<1>2. c * (x + z) = c * x + c * z /\ c * x \in Nat /\ c * z \in Nat
  OBVIOUS
<1> QED BY <1>1, <1>2

LEMMA DivDiv ==
  ASSUME NEW x \in Nat, NEW b \in Nat, NEW q \in Nat, b > 0, q > 0
  PROVE  x \div (b * q) = (x \div b) \div q
<1> DEFINE y == x \div b
           s == x % b
           z == y \div q
           t == y % q
<1>1. x = b * y + s /\ y \in Nat /\ s \in Nat /\ s < b
  BY DivRest
<1>2. y = q * z + t /\ z \in Nat /\ t \in Nat /\ t < q
  <2> HIDE DEF y
  <2> QED BY <1>1, DivRest
<1> HIDE DEF y, s, z, t
<1>3. b * q \in Nat /\ b * q > 0
  OBVIOUS
<1>4. x = (b * q) * z + (b * t + s)
  <2>1. b * (q * z + t) = (b * q) * z + b * t
    BY <1>2
  <2> QED BY <1>1, <1>2, <2>1
<1>5. b * t + s \in Nat /\ b * t + s < b * q
  <2>1. b * (t + 1) <= b * q
    BY <1>2
  <2> QED BY <2>1, <1>1, <1>2
<1>6. x \div (b * q) = z
  <2> DEFINE d == b * q
             r == b * t + s
  <2>1. d \in Nat /\ d > 0 /\ r \in Nat /\ r < d /\ x = d * z + r
    BY <1>3, <1>4, <1>5
  <2> HIDE DEF d, r
  <2>2. x \div d = z
    BY <2>1, <1>2, DivIs
  <2> QED BY <2>2 DEF d
<1> QED BY <1>6 DEF z, y

LEMMA ModDiv ==
  ASSUME NEW x \in Nat, NEW b \in Nat, NEW q \in Nat, b > 0, q > 0
  PROVE  (x % (b * q)) \div q = (x \div q) % b
<1> DEFINE d == b * q
           z == x \div d
           w == x % d
           u == w \div q
           v == w % q
<1>1. d \in Nat /\ d > 0
  OBVIOUS
<1>2. x = d * z + w /\ z \in Nat /\ w \in Nat /\ w < d
  <2> HIDE DEF d
  <2> QED BY <1>1, DivRest
<1>3. w = q * u + v /\ u \in Nat /\ v \in Nat /\ v < q
  <2> HIDE DEF w
  <2> QED BY <1>2, DivRest
<1> HIDE DEF z, w, u, v
<1>4. u < b
  <2>1. CASE u >= b
    <3>1. q * u >= b * q
      BY <2>1, <1>3
    <3> QED BY <3>1, <1>2, <1>3
  <2> QED BY <2>1, <1>3
<1>5. x = q * (b * z + u) + v
  <2>1. (b * q) * z = q * (b * z)
    BY <1>2
  <2>2. q * (b * z + u) = q * (b * z) + q * u
    BY <1>2, <1>3
  <2> QED BY <2>1, <2>2, <1>2, <1>3
<1>6. b * z + u \in Nat
  BY <1>2, <1>3
<1>7. x \div q = b * z + u
  <2> DEFINE k == b * z + u
  <2>1. k \in Nat /\ x = q * k + v
    BY <1>5, <1>6
  <2> HIDE DEF k
  <2>2. x \div q = k
    BY <2>1, <1>3, DivIs
  <2> QED BY <2>2 DEF k
<1>8. (b * z + u) % b = u
  BY <1>2, <1>3, <1>4, DivIs
<1> QED BY <1>7, <1>8 DEF u, w

LEMMA PowerIs ==
  ASSUME NEW b \in Nat
  PROVE  /\ Power(b, 0) = 1
         /\ \A k \in Nat : Power(b, k) \in Nat /\ Power(b, k + 1) = b * Power(b, k)
<1> DEFINE step == [x \in Nat \X Nat |-> b * x[1]]
           p == CHOOSE p : p = [i \in Nat |-> IF i = 0 THEN 1 ELSE b * p[i - 1]]
<1>1. PICK f \in [Nat -> Nat] : FollowsAll(f, 1, step)
  <2>1. StaysIn(Nat, Nat, step)
    BY DEF StaysIn
  <2>2. 1 \in Nat
    OBVIOUS
  <2> HIDE DEF step
  <2> QED BY <2>1, <2>2, Recursion, Zenon
<1>2. ASSUME NEW i \in Nat PROVE f[i] = IF i = 0 THEN 1 ELSE b * f[i - 1]
  <2>1. CASE i = 0
    BY <2>1, <1>1 DEF FollowsAll
  <2>2. CASE i # 0
    <3>1. i - 1 \in Nat /\ f[i - 1] \in Nat
      BY <2>2
    <3>2. step[<<f[i - 1], i>>] = b * f[i - 1]
      BY <3>1
    <3> QED BY <2>2, <3>2, <1>1 DEF FollowsAll
  <2> QED BY <2>1, <2>2
<1>3. f = [i \in Nat |-> IF i = 0 THEN 1 ELSE b * f[i - 1]]
  BY <1>2
<1>4. p = [i \in Nat |-> IF i = 0 THEN 1 ELSE b * p[i - 1]]
  BY <1>3
<1>5. \A k : Power(b, k) = p[k]
  BY DEF Power
<1> HIDE DEF p
<1>6. p[0] = 1
  BY <1>4
<1>7. ASSUME NEW k \in Nat PROVE p[k + 1] = b * p[k]
  BY <1>4
<1> DEFINE T == {k \in Nat : p[k] \in Nat}
<1>8. T = Nat
  <2>1. 0 \in T
    BY <1>6
  <2>2. ASSUME NEW k \in T PROVE k + 1 \in T
    BY <1>7
  <2>3. T \in SUBSET Nat
    OBVIOUS
  <2> HIDE DEF T
  <2> QED BY <2>1, <2>2, <2>3, NatSet
<1>9. \A k \in Nat : p[k] \in Nat
  BY <1>8
<1> QED BY <1>5, <1>6, <1>7, <1>9

-----------------------------------------------------------------------------
(***************************************************************************)
(* Bytes and numbers.                                                      *)
(***************************************************************************)
Places(bytes, n) ==
  /\ n \in [0 .. Len(bytes) -> Nat] /\ n[0] = 0
  /\ \A i \in 1 .. Len(bytes) : n[i] = Base * n[i - 1] + bytes[i]

LEMMA HexIs ==
  ASSUME NEW bytes \in Seq(Bytes)
  PROVE  \E n : Places(bytes, n) /\ hex_to_int(bytes) = n[Len(bytes)]
<1> DEFINE L == Len(bytes)
           step == [x \in Nat \X (1 .. L) |-> Base * x[1] + bytes[x[2]]]
           n == CHOOSE n : n = [i \in 0 .. L |-> IF i = 0 THEN 0 ELSE Base * n[i - 1] + bytes[i]]
<1>1. L \in Nat /\ \A i \in 1 .. L : bytes[i] \in Nat
  <2>1. L \in Nat /\ \A i \in 1 .. L : bytes[i] \in Bytes
    OBVIOUS
  <2> QED BY <2>1, EncodingsAssumption DEF Bytes
<1>2. PICK f \in [0 .. L -> Nat] : Follows(f, L, 0, step)
  <2>1. StaysIn(Nat, 1 .. L, step)
    BY <1>1, EncodingsAssumption DEF StaysIn
  <2>2. 0 \in Nat /\ L \in 0 .. L
    BY <1>1
  <2> HIDE DEF step, L
  <2>3. \A m \in 0 .. L : \E f \in [0 .. m -> Nat] : Follows(f, m, 0, step)
    BY <2>1, <2>2, <1>1, RecursionTo, Zenon
  <2> QED BY <2>2, <2>3
<1>3. ASSUME NEW i \in 1 .. L PROVE f[i] = Base * f[i - 1] + bytes[i]
  <2>1. i \in 0 .. L /\ i # 0 /\ f[i - 1] \in Nat
    BY <1>1
  <2>2. step[<<f[i - 1], i>>] = Base * f[i - 1] + bytes[i]
    BY <2>1
  <2> QED BY <2>1, <2>2, <1>2 DEF Follows
<1>4. f[0] = 0
  <2>1. 0 \in 0 .. L
    BY <1>1
  <2> QED BY <2>1, <1>2 DEF Follows
<1>5. f = [i \in 0 .. L |-> IF i = 0 THEN 0 ELSE Base * f[i - 1] + bytes[i]]
  BY <1>3, <1>4
<1>6. n = [i \in 0 .. L |-> IF i = 0 THEN 0 ELSE Base * n[i - 1] + bytes[i]]
  BY <1>5
<1>7. hex_to_int(bytes) = n[L]
  BY DEF hex_to_int
<1> HIDE DEF n
<1>8. n[0] = 0 /\ \A i \in 1 .. L : n[i] = Base * n[i - 1] + bytes[i]
  BY <1>1, <1>6
<1>9. n \in [0 .. L -> Nat]
  <2> DEFINE T == {i \in Nat : i \in 0 .. L => n[i] \in Nat}
  <2>1. 0 \in T
    BY <1>8
  <2>2. ASSUME NEW i \in T PROVE i + 1 \in T
    <3> SUFFICES ASSUME i + 1 \in 0 .. L PROVE n[i + 1] \in Nat
      OBVIOUS
    <3>1. n[i] \in Nat /\ i + 1 \in 1 .. L /\ (i + 1) - 1 = i
      BY <1>1
    <3>2. n[i + 1] = Base * n[(i + 1) - 1] + bytes[i + 1]
      BY <3>1, <1>8
    <3> QED BY <3>1, <3>2, <1>1, EncodingsAssumption
  <2>3. T = Nat
    <3>1. T \in SUBSET Nat
      OBVIOUS
    <3> HIDE DEF T
    <3> QED BY <2>1, <2>2, <3>1, NatSet
  <2>4. ASSUME NEW i \in 0 .. L PROVE n[i] \in Nat
    <3>1. i \in T
      <4> HIDE DEF T
      <4> QED BY <2>3
    <3> QED BY <3>1
  <2> QED BY <2>4, <1>6
<1> QED BY <1>7, <1>8, <1>9 DEF Places

LEMMA PowerIsPositive ==
  ASSUME NEW b \in Nat, b > 0
  PROVE  \A k \in Nat : Power(b, k) > 0
<1> DEFINE T == {k \in Nat : Power(b, k) > 0}
<1>1. /\ Power(b, 0) = 1
      /\ \A k \in Nat : Power(b, k) \in Nat /\ Power(b, k + 1) = b * Power(b, k)
  BY PowerIs
<1>2. 0 \in T
  BY <1>1
<1>3. ASSUME NEW k \in T PROVE k + 1 \in T
  <2> DEFINE x == Power(b, k)
  <2>1. x \in Nat /\ x > 0 /\ Power(b, k + 1) = b * x
    BY <1>1
  <2> HIDE DEF x
  <2>2. b * x > 0
    BY <2>1
  <2> QED BY <2>1, <2>2
<1>4. T = Nat
  <2>1. T \in SUBSET Nat
    OBVIOUS
  <2> HIDE DEF T
  <2> QED BY <1>2, <1>3, <2>1, NatSet
<1>5. ASSUME NEW k \in Nat PROVE k \in T
  <2> HIDE DEF T
  <2> QED BY <1>4
<1> QED BY <1>5

LEMMA PowersOfBase ==
  ASSUME NEW k \in Nat
  PROVE  /\ Power(Base, 0) = 1
         /\ Power(Base, k) \in Nat /\ Power(Base, k) > 0
         /\ Power(Base, k + 1) = Base * Power(Base, k)
<1>1. Base \in Nat /\ Base > 0
  BY EncodingsAssumption
<1>2. /\ Power(Base, 0) = 1
      /\ \A j \in Nat : Power(Base, j) \in Nat /\ Power(Base, j + 1) = Base * Power(Base, j)
  BY <1>1, PowerIs
<1>3. Power(Base, k) > 0
  BY <1>1, <1>2, PowerIsPositive
<1> QED BY <1>2, <1>3

\* The bytes are the digits of the number that is made of them.
LEMMA HexDigits ==
  ASSUME NEW bytes \in Seq(Bytes)
  PROVE  /\ hex_to_int(bytes) \in Nat /\ hex_to_int(bytes) < Power(Base, Len(bytes))
         /\ \A i \in 1 .. Len(bytes) :
              (hex_to_int(bytes) \div Power(Base, Len(bytes) - i)) % Base = bytes[i]
<1> DEFINE L == Len(bytes)
           P(k) == Power(Base, k)
<1>1. L \in Nat /\ Base \in Nat /\ Base > 0
      /\ \A i \in 1 .. L : bytes[i] \in Nat /\ bytes[i] < Base
  <2>1. L \in Nat /\ \A i \in 1 .. L : bytes[i] \in Bytes
    OBVIOUS
  <2> QED BY <2>1, EncodingsAssumption DEF Bytes
<1>2. P(0) = 1 /\ \A k \in Nat : P(k) \in Nat /\ P(k) > 0 /\ P(k + 1) = Base * P(k)
  BY PowersOfBase
<1>3. PICK n : Places(bytes, n) /\ hex_to_int(bytes) = n[L]
  BY HexIs
<1> HIDE DEF P
<1> DEFINE Right(m) == n[m] < P(m) /\ \A i \in 1 .. m : (n[m] \div P(m - i)) % Base = bytes[i]
           T == {m \in Nat : m \in 0 .. L => Right(m)}
<1>4. 0 \in T
  BY <1>2, <1>3 DEF Places
<1>5. ASSUME NEW m \in T PROVE m + 1 \in T
  <2> SUFFICES ASSUME m + 1 \in 0 .. L PROVE Right(m + 1)
    OBVIOUS
  <2>1. m \in 0 .. L /\ m + 1 \in 1 .. L /\ Right(m) /\ (m + 1) - 1 = m
    BY <1>1
  <2>2. n[m] \in Nat /\ n[m + 1] = Base * n[m] + bytes[m + 1]
    BY <2>1, <1>3 DEF Places
  <2> DEFINE x == n[m]
             c == bytes[m + 1]
  <2>3. x \in Nat /\ c \in Nat /\ c < Base /\ n[m + 1] = Base * x + c
    BY <2>1, <2>2, <1>1
  <2>4. n[m + 1] < P(m + 1)
    <3>1. m \in Nat
      OBVIOUS
    <3>2. P(m) \in Nat /\ P(m + 1) = Base * P(m)
      BY <3>1, <1>2
    <3>3. x < P(m)
      BY <2>1
    <3>4. Base * x + c < Base * P(m)
      <4> HIDE DEF x, c
      <4> QED BY <3>2, <3>3, <2>3, <1>1, TimesLess
    <3> QED BY <3>2, <3>4, <2>3
  <2>5. n[m + 1] \div Base = x /\ n[m + 1] % Base = c
    <3>1. (Base * x + c) \div Base = x /\ (Base * x + c) % Base = c
      <4> HIDE DEF x, c
      <4> QED BY <2>3, <1>1, DivIs
    <3> QED BY <3>1, <2>3
  <2>6. ASSUME NEW i \in 1 .. m + 1
        PROVE  (n[m + 1] \div P(m + 1 - i)) % Base = bytes[i]
    <3>1. CASE i = m + 1
      <4>1. P(m + 1 - i) = 1
        BY <3>1, <1>2
      <4>2. n[m + 1] \in Nat
        BY <2>3, <1>1
      <4>3. n[m + 1] \div P(m + 1 - i) = n[m + 1]
        BY <4>1, <4>2
      <4> QED BY <4>3, <2>5, <3>1
    <3>2. CASE i # m + 1
      <4>1. i \in 1 .. m /\ m - i \in Nat /\ m + 1 - i = (m - i) + 1
        BY <3>2
      <4>2. P(m - i) \in Nat /\ P(m - i) > 0 /\ P(m + 1 - i) = Base * P(m - i)
        BY <4>1, <1>2
      <4>3. n[m + 1] \div (Base * P(m - i)) = (n[m + 1] \div Base) \div P(m - i)
        <5>1. n[m + 1] \in Nat
          BY <2>3, <1>1
        <5> QED BY <5>1, <4>2, <1>1, DivDiv
      <4>4. (n[m] \div P(m - i)) % Base = bytes[i]
        BY <2>1, <4>1
      <4> QED BY <4>2, <4>3, <4>4, <2>5
    <3> QED BY <3>1, <3>2
  <2> QED BY <2>4, <2>6
<1>6. T = Nat
  <2>1. T \in SUBSET Nat
    OBVIOUS
  <2> HIDE DEF T
  <2> QED BY <1>4, <1>5, <2>1, NatSet
<1>7. Right(L)
  <2>1. L \in T
    <3> HIDE DEF T
    <3> QED BY <1>1, <1>6
  <2>2. L \in 0 .. L
    BY <1>1
  <2> QED BY <2>1, <2>2
<1>8. n[L] \in Nat
  <2>1. L \in 0 .. L
    BY <1>1
  <2> QED BY <2>1, <1>3 DEF Places
<1> QED BY <1>3, <1>7, <1>8 DEF P

LEMMA PowersGrowIn ==
  ASSUME NEW b \in Nat, b > 0, NEW j \in Nat, NEW k \in Nat, j <= k
  PROVE  Power(b, j) <= Power(b, k)
<1> DEFINE P(i) == Power(b, i)
           T == {d \in Nat : P(j) <= P(j + d)}
<1>1. \A i \in Nat : P(i) \in Nat /\ P(i) > 0 /\ P(i + 1) = b * P(i)
  BY PowerIs, PowerIsPositive
<1> HIDE DEF P
<1>2. 0 \in T
  BY <1>1
<1>3. ASSUME NEW d \in T PROVE d + 1 \in T
  <2>1. j + d \in Nat /\ j + (d + 1) = (j + d) + 1
    OBVIOUS
  <2> DEFINE x == P(j + d)
  <2>2. x \in Nat /\ P(j) \in Nat /\ P(j) <= x /\ P(j + (d + 1)) = b * x
    BY <1>1, <2>1
  <2> HIDE DEF x
  <2>3. x <= b * x
    BY <2>2
  <2>4. b * x \in Nat
    BY <2>2
  <2> QED BY <2>2, <2>3, <2>4
<1>4. T = Nat
  <2>1. T \in SUBSET Nat
    OBVIOUS
  <2> HIDE DEF T
  <2> QED BY <1>2, <1>3, <2>1, NatSet
<1>5. k - j \in T
  <2> HIDE DEF T
  <2> QED BY <1>4
<1>6. j + (k - j) = k
  OBVIOUS
<1> QED BY <1>5, <1>6 DEF P

LEMMA PowersGrow ==
  ASSUME NEW j \in Nat, NEW k \in Nat, j <= k
  PROVE  Power(Base, j) <= Power(Base, k)
BY EncodingsAssumption, PowersGrowIn

\* A number has a length in any base.
LEMMA LengthIn ==
  ASSUME NEW b \in Nat, NEW most \in Nat, NEW n \in Nat, n > 0, n < Power(b, most)
  PROVE  /\ NumeralLength(n, b, most) \in 1 .. most
         /\ Power(b, NumeralLength(n, b, most) - 1) <= n
         /\ n < Power(b, NumeralLength(n, b, most))
<1> DEFINE P(i) == Power(b, i)
           Fits(k) == P(k - 1) <= n /\ n < P(k)
           T == {m \in Nat : P(m) <= n \/ \E k \in 1 .. m : Fits(k)}
           length == NumeralLength(n, b, most)
<1>1. P(0) = 1 /\ \A i \in Nat : P(i) \in Nat
  BY PowerIs
<1> HIDE DEF P
<1>2. 0 \in T
  BY <1>1
<1>3. ASSUME NEW m \in T PROVE m + 1 \in T
  <2>1. CASE P(m) <= n
    <3>1. (m + 1) - 1 = m /\ m + 1 \in 1 .. m + 1 /\ m + 1 \in Nat
      OBVIOUS
    <3>2. P(m + 1) <= n \/ Fits(m + 1)
      BY <2>1, <3>1, <1>1
    <3> HIDE DEF Fits
    <3> QED BY <3>1, <3>2
  <2>2. CASE \E k \in 1 .. m : Fits(k)
    <3> HIDE DEF Fits
    <3>1. \A k \in 1 .. m : k \in 1 .. m + 1
      OBVIOUS
    <3> QED BY <2>2, <3>1
  <2> QED BY <2>1, <2>2
<1>4. T = Nat
  <2>1. T \in SUBSET Nat
    OBVIOUS
  <2> HIDE DEF T
  <2> QED BY <1>2, <1>3, <2>1, NatSet
<1>5. most \in T
  <2> HIDE DEF T
  <2> QED BY <1>4
<1>6. \E k \in 1 .. most : Fits(k)
  <2>1. ~(P(most) <= n)
    BY <1>1 DEF P
  <2> QED BY <1>5, <2>1
<1>7. length = CHOOSE k \in 1 .. most : Fits(k)
  BY DEF NumeralLength, P
<1>8. length \in 1 .. most /\ Fits(length)
  <2> HIDE DEF Fits, length
  <2> QED BY <1>6, <1>7
<1> QED BY <1>8 DEF P

LEMMA LengthOf ==
  ASSUME NEW n \in Nat, n > 0, n < Power(Base, Width)
  PROVE  /\ ByteLength(n) \in 1 .. Width
         /\ Power(Base, ByteLength(n) - 1) <= n /\ n < Power(Base, ByteLength(n))
BY EncodingsAssumption, LengthIn DEF ByteLength

\* A quotient of two that are near to each other is a digit and not zero.
LEMMA FirstDigit ==
  ASSUME NEW n \in Nat, NEW p \in Nat, NEW b \in Nat, p > 0, b > 0, p <= n, n < b * p
  PROVE  (n \div p) % b # 0
<1> DEFINE q == n \div p
           r == n % p
<1>1. n = p * q + r /\ q \in Nat /\ r \in Nat /\ r < p
  BY DivRest
<1> HIDE DEF q, r
<1>2. q > 0
  BY <1>1
<1>3. q < b
  <2>1. CASE q >= b
    <3>1. p * q >= p * b
      BY <2>1, <1>1
    <3>2. p * b = b * p
      OBVIOUS
    <3> QED BY <3>1, <3>2, <1>1
  <2> QED BY <2>1, <1>1
<1>4. q % b = q
  BY <1>1, <1>3
<1> QED BY <1>2, <1>4 DEF q

LEMMA SmallQuotient ==
  ASSUME NEW n \in Nat, NEW p \in Nat, n < p
  PROVE  n \div p = 0
<1>1. (p * 0 + n) \div p = 0
  BY DivIs
<1>2. p * 0 + n = n
  OBVIOUS
<1> QED BY <1>1, <1>2

\* The bytes of a number are those it is made of, but for leading zeros.
LEMMA BytesOf ==
  ASSUME NEW bytes \in Seq(Bytes), Len(bytes) = Width,
         NEW n, n = hex_to_int(bytes), n > 0, NEW k, k = ByteLength(n)
  PROVE  /\ n \in Nat /\ k \in 1 .. Width
         /\ ToBytes(n) = [i \in 1 .. k |-> bytes[Width - k + i]]
         /\ bytes[Width - k + 1] # 0
         /\ k = Width <=> bytes[1] # 0
<1> DEFINE P(i) == Power(Base, i)
<1>1. Width \in Nat /\ Width > 0 /\ Base \in Nat /\ Base > 0
  BY EncodingsAssumption
<1>2. P(0) = 1 /\ \A i \in Nat : P(i) \in Nat /\ P(i) > 0 /\ P(i + 1) = Base * P(i)
  BY PowersOfBase
<1>3. /\ n \in Nat /\ n < P(Width)
      /\ \A i \in 1 .. Width : (n \div P(Width - i)) % Base = bytes[i]
  BY HexDigits
<1>4. k \in 1 .. Width /\ P(k - 1) <= n /\ n < P(k)
  BY <1>3, LengthOf
<1>5. ToBytes(n) = [i \in 1 .. k |-> (n \div P(k - i)) % Base]
  BY DEF ToBytes
<1>6. \A j, i \in Nat : j <= i => P(j) <= P(i)
  BY PowersGrow
<1> HIDE DEF P
<1>7. ASSUME NEW i \in 1 .. k PROVE (n \div P(k - i)) % Base = bytes[Width - k + i]
  <2>1. Width - k + i \in 1 .. Width /\ Width - (Width - k + i) = k - i
    BY <1>1, <1>4
  <2> QED BY <2>1, <1>3
<1>8. k - 1 \in Nat /\ (k - 1) + 1 = k /\ 1 \in 1 .. k
  BY <1>1, <1>4
<1>9. (n \div P(k - 1)) % Base # 0
  <2>1. P(k - 1) \in Nat /\ P(k - 1) > 0 /\ P(k) = Base * P(k - 1)
    BY <1>2, <1>8
  <2> QED BY <2>1, <1>1, <1>3, <1>4, FirstDigit
<1>10. bytes[Width - k + 1] # 0
  BY <1>7, <1>8, <1>9
<1>11. ASSUME k # Width PROVE bytes[1] = 0
  <2>1. k \in Nat /\ Width - 1 \in Nat /\ k <= Width - 1 /\ 1 \in 1 .. Width
    BY <1>1, <1>4, <1>11
  <2>2. n < P(Width - 1) /\ P(Width - 1) \in Nat
    <3>1. P(k) \in Nat /\ P(Width - 1) \in Nat /\ P(k) <= P(Width - 1)
      BY <2>1, <1>2, <1>6
    <3>2. n \in Nat /\ n < P(k)
      BY <1>3, <1>4
    <3> QED BY <3>1, <3>2
  <2>3. n \div P(Width - 1) = 0
    BY <2>2, <1>3, SmallQuotient
  <2>4. 0 % Base = 0
    BY <1>1
  <2> QED BY <2>1, <2>3, <2>4, <1>3
<1>12. k = Width => bytes[1] # 0
  <2>1. k = Width => Width - k + 1 = 1
    BY <1>1
  <2> QED BY <2>1, <1>10
<1>13. [i \in 1 .. k |-> (n \div P(k - i)) % Base] = [i \in 1 .. k |-> bytes[Width - k + i]]
  BY <1>7
<1> QED BY <1>3, <1>4, <1>5, <1>10, <1>11, <1>12, <1>13

LEMMA BytesOfZero ==
  /\ ByteLength(0) = 1 /\ ToBytes(0) = [i \in 1 .. 1 |-> 0]
<1>1. ByteLength(0) = 1
  BY DEF ByteLength, NumeralLength
<1>2. Power(Base, 1 - 1) = 1
  BY PowersOfBase
<1>3. ASSUME NEW i \in 1 .. 1 PROVE (0 \div Power(Base, 1 - i)) % Base = 0
  <2>1. i = 1
    OBVIOUS
  <2> QED BY <1>2, <2>1, EncodingsAssumption
<1> QED BY <1>1, <1>3 DEF ToBytes

\* Bytes in the reverse order.
LEMMA Turned ==
  ASSUME NEW k \in Nat, NEW b \in [1 .. k -> Bytes]
  PROVE  /\ Reverse(b) \in Seq(Bytes) /\ Len(Reverse(b)) = k
         /\ \A i \in 1 .. k : Reverse(b)[i] = b[k + 1 - i]
<1>1. b \in Seq(Bytes) /\ Len(b) = k
  BY LenProperties, IsASeq
<1>2. Reverse(b) = [i \in 1 .. k |-> b[(k - i) + 1]]
  BY <1>1 DEF Reverse
<1>3. \A i \in 1 .. k : (k - i) + 1 \in 1 .. k /\ (k - i) + 1 = k + 1 - i
  OBVIOUS
<1>4. Reverse(b) \in [1 .. k -> Bytes]
  BY <1>2, <1>3
<1> QED BY <1>2, <1>3, <1>4, LenProperties, IsASeq

\* The number with the reversed bytes has them with the least significant first.
LEMMA ReversedNumber ==
  ASSUME NEW k \in 1 .. Width, NEW b \in [1 .. k -> Bytes]
  PROVE  /\ hex_to_int(Reverse(b)) \in Nat /\ hex_to_int(Reverse(b)) < Power(Base, k)
         /\ LittleEndian(hex_to_int(Reverse(b)))
              = [i \in 1 .. Width |-> IF i <= k THEN b[i] ELSE 0]
<1> DEFINE r == hex_to_int(Reverse(b))
           P(i) == Power(Base, i)
<1>1. Width \in Nat /\ k \in Nat /\ k > 0 /\ k <= Width /\ Base \in Nat /\ Base > 0
  BY EncodingsAssumption
<1>2. /\ Reverse(b) \in Seq(Bytes) /\ Len(Reverse(b)) = k
      /\ \A i \in 1 .. k : Reverse(b)[i] = b[k + 1 - i]
  BY <1>1, Turned
<1>3. /\ r \in Nat /\ r < P(k)
      /\ \A i \in 1 .. k : (r \div P(k - i)) % Base = Reverse(b)[i]
  BY <1>2, HexDigits
<1>4. \A i \in Nat : P(i) \in Nat
  BY PowersOfBase
<1>5. \A j, i \in Nat : j <= i => P(j) <= P(i)
  BY PowersGrow
<1>6. LittleEndian(r) = [i \in 1 .. Width |-> (r \div P(i - 1)) % Base]
  BY DEF LittleEndian
<1> HIDE DEF r, P
<1>7. ASSUME NEW i \in 1 .. Width
      PROVE  (r \div P(i - 1)) % Base = IF i <= k THEN b[i] ELSE 0
  <2>1. CASE i <= k
    <3>1. k + 1 - i \in 1 .. k /\ k - (k + 1 - i) = i - 1 /\ k + 1 - (k + 1 - i) = i
      BY <1>1, <2>1
    <3>2. (r \div P(i - 1)) % Base = Reverse(b)[k + 1 - i]
      BY <1>3, <3>1
    <3>3. Reverse(b)[k + 1 - i] = b[k + 1 - (k + 1 - i)]
      BY <1>2, <3>1
    <3> QED BY <2>1, <3>1, <3>2, <3>3
  <2>2. CASE ~(i <= k)
    <3>1. i - 1 \in Nat /\ k <= i - 1
      BY <1>1, <2>2
    <3>2. P(k) \in Nat /\ P(i - 1) \in Nat /\ P(k) <= P(i - 1)
      BY <1>1, <1>4, <1>5, <3>1
    <3>3. r \in Nat /\ r < P(i - 1)
      BY <3>2, <1>3
    <3>4. r \div P(i - 1) = 0
      BY <3>2, <3>3, SmallQuotient
    <3>5. 0 % Base = 0
      BY <1>1
    <3> QED BY <2>2, <3>4, <3>5
  <2> QED BY <2>1, <2>2
<1>8. LittleEndian(r) = [i \in 1 .. Width |-> IF i <= k THEN b[i] ELSE 0]
  BY <1>6, <1>7
<1> QED BY <1>3, <1>8 DEF r, P

LEMMA BytesAre ==
  ASSUME NEW bytes \in Seq(Bytes), Len(bytes) = Width, NEW n, n = hex_to_int(bytes)
  PROVE  ByteLength(n) \in 1 .. Width /\ ToBytes(n) \in [1 .. ByteLength(n) -> Bytes]
<1> DEFINE k == ByteLength(n)
           b == ToBytes(n)
<1>1. Width \in Nat /\ Width > 0 /\ Base \in Nat /\ Base > 0
  BY EncodingsAssumption
<1>2. n \in Nat
  BY HexDigits
<1>3. CASE n = 0
  <2>1. 0 \in Bytes
    BY <1>1 DEF Bytes
  <2>2. k = 1 /\ b = [i \in 1 .. 1 |-> 0]
    BY <1>3, BytesOfZero
  <2> HIDE DEF k, b
  <2>3. 1 \in 1 .. Width /\ [i \in 1 .. 1 |-> 0] \in [1 .. 1 -> Bytes]
    BY <2>1, <1>1
  <2> QED BY <2>2, <2>3 DEF k, b
<1>4. CASE n # 0
  <2>1. k \in 1 .. Width /\ b = [i \in 1 .. k |-> bytes[Width - k + i]]
    BY <1>2, <1>4, BytesOf
  <2>2. \A i \in 1 .. k : Width - k + i \in 1 .. Width
    BY <2>1, <1>1
  <2>3. \A i \in 1 .. Width : bytes[i] \in Bytes
    OBVIOUS
  <2> HIDE DEF k, b
  <2> QED BY <2>1, <2>2, <2>3 DEF k, b
<1> QED BY <1>3, <1>4

\* What reaches the program of a nonce.
LEMMA NonceArrives ==
  ASSUME NEW nonce \in [1 .. Width -> Bytes]
  PROVE  /\ hex_to_int(nonce) \in Nat
         /\ reverse_bytes(hex_to_int(nonce)) \in Nat
         /\ 2 * reverse_bytes(hex_to_int(nonce)) < Modulus
         /\ LittleEndian(reverse_bytes(hex_to_int(nonce))) = nonce
              <=> nonce[1] # 0 \/ hex_to_int(nonce) = 0
<1> DEFINE n == hex_to_int(nonce)
           k == ByteLength(n)
           b == ToBytes(n)
<1>1. Width \in Nat /\ Width > 0 /\ Base \in Nat /\ Base > 0
  BY EncodingsAssumption
<1>2. nonce \in Seq(Bytes) /\ Len(nonce) = Width
  BY <1>1, LenProperties, IsASeq
<1>3. n \in Nat /\ \A i \in 1 .. Width : (n \div Power(Base, Width - i)) % Base = nonce[i]
  BY <1>2, HexDigits
<1>4. k \in 1 .. Width /\ b \in [1 .. k -> Bytes]
  BY <1>2, BytesAre
<1> DEFINE r == hex_to_int(Reverse(b))
<1>5. reverse_bytes(n) = r
  BY DEF reverse_bytes
<1>6. /\ r \in Nat /\ r < Power(Base, k)
      /\ LittleEndian(r) = [i \in 1 .. Width |-> IF i <= k THEN b[i] ELSE 0]
  BY <1>4, ReversedNumber
<1>7. 2 * r < Modulus
  <2>1. Power(Base, k) \in Nat /\ Power(Base, Width) \in Nat /\ Power(Base, k) <= Power(Base, Width)
    BY <1>1, <1>4, PowersOfBase, PowersGrow
  <2> HIDE DEF r, k
  <2> QED BY <2>1, <1>6, EncodingsAssumption
<1>8. LittleEndian(r) = nonce <=> nonce[1] # 0 \/ n = 0
  <2>1. CASE n = 0
    <3>1. ASSUME NEW i \in 1 .. Width PROVE nonce[i] = 0
      <4>1. Width - i \in Nat
        BY <1>1
      <4>2. Power(Base, Width - i) \in Nat /\ Power(Base, Width - i) > 0
        BY <4>1, PowersOfBase
      <4>3. 0 \div Power(Base, Width - i) = 0
        BY <4>2, SmallQuotient
      <4>4. 0 % Base = 0
        BY <1>1
      <4> QED BY <4>3, <4>4, <1>3, <2>1
    <3>2. k = 1 /\ b = [i \in 1 .. 1 |-> 0]
      BY <2>1, BytesOfZero
    <3>3. \A i \in 1 .. Width : (IF i <= k THEN b[i] ELSE 0) = 0
      BY <3>2
    <3> HIDE DEF n, k, b, r
    <3>4. LittleEndian(r) = nonce
      BY <3>1, <3>3, <1>6
    <3> QED BY <2>1, <3>4
  <2>2. CASE n # 0
    <3>1. /\ b = [i \in 1 .. k |-> nonce[Width - k + i]]
          /\ nonce[Width - k + 1] # 0
          /\ k = Width <=> nonce[1] # 0
      BY <2>2, <1>2, <1>3, BytesOf
    <3>2. 1 \in 1 .. k /\ 1 \in 1 .. Width /\ 1 <= k
      BY <1>1, <1>4
    <3> HIDE DEF n, k, b, r
    <3>3. CASE k = Width
      <4>1. \A i \in 1 .. Width : i <= k /\ Width - k + i = i
        BY <1>1, <3>3
      <4>2. LittleEndian(r) = nonce
        BY <4>1, <3>1, <3>3, <1>6
      <4> QED BY <4>2, <3>1, <3>3
    <3>4. CASE k # Width
      <4>1. LittleEndian(r)[1] = nonce[Width - k + 1]
        BY <3>1, <3>2, <1>6
      <4>2. nonce[1] = 0
        BY <3>1, <3>4
      <4> QED BY <4>1, <4>2, <3>1, <2>2
    <3> QED BY <3>3, <3>4
  <2> QED BY <2>1, <2>2
<1> QED BY <1>3, <1>5, <1>6, <1>7, <1>8

-----------------------------------------------------------------------------
(***************************************************************************)
(* Amounts and their text.                                                 *)
(***************************************************************************)

LEMMA Tens ==
  ASSUME NEW k \in Nat
  PROVE  /\ Power(10, 0) = 1
         /\ Power(10, k) \in Nat /\ Power(10, k) > 0
         /\ Power(10, k + 1) = 10 * Power(10, k)
<1>1. /\ Power(10, 0) = 1
      /\ \A j \in Nat : Power(10, j) \in Nat /\ Power(10, j + 1) = 10 * Power(10, j)
  BY PowerIs
<1>2. Power(10, k) > 0
  BY PowerIsPositive
<1> QED BY <1>1, <1>2

\* The digits that the program takes of a value are those of the amount with
\* one place less.
LEMMA DigitsOf ==
  ASSUME NEW digits \in Nat, NEW value \in Nat, value < Power(10, digits + 1), NEW i \in 1 .. digits
  PROVE  (IF i = 1 THEN value ELSE value % Power(10, digits + 2 - i)) \div Power(10, digits + 1 - i)
           = ((value \div 10) \div Power(10, digits - i)) % 10
<1> DEFINE q == Power(10, digits + 1 - i)
           p == Power(10, digits - i)
           w == Power(10, digits + 2 - i)
<1>1. /\ digits - i \in Nat /\ digits + 1 - i \in Nat /\ digits + 2 - i \in Nat
      /\ digits + 1 - i = (digits - i) + 1 /\ digits + 2 - i = (digits + 1 - i) + 1
  OBVIOUS
<1>2. q \in Nat /\ q > 0 /\ p \in Nat /\ p > 0 /\ q = 10 * p /\ w = 10 * q
  BY <1>1, Tens
<1>3. value \div (10 * p) = (value \div 10) \div p
  <2> HIDE DEF p
  <2> QED BY <1>2, DivDiv
<1>4. (value % (10 * q)) \div q = (value \div q) % 10
  <2> DEFINE b == 10
  <2>1. b \in Nat /\ b > 0
    OBVIOUS
  <2> HIDE DEF q, b
  <2>2. (value % (b * q)) \div q = (value \div q) % b
    BY <1>2, <2>1, ModDiv
  <2> QED BY <2>2 DEF b
<1>5. CASE i = 1
  <2>1. digits + 2 - i = digits + 1
    BY <1>5
  <2>2. value < 10 * q
    BY <2>1, <1>2
  <2> DEFINE u == value \div q
             v == value % q
  <2> HIDE DEF q
  <2>3. value = q * u + v /\ u \in Nat /\ v \in Nat
    BY <1>2, DivRest
  <2> HIDE DEF u, v
  <2>4. u < 10
    <3>1. CASE u >= 10
      <4>1. q * u >= q * 10
        BY <3>1, <2>3, <1>2
      <4> QED BY <4>1, <2>2, <2>3, <1>2
    <3> QED BY <3>1, <2>3
  <2>5. u % 10 = u
    BY <2>3, <2>4
  <2> QED BY <1>5, <2>5, <1>2, <1>3 DEF u, q
<1>6. CASE i # 1
  BY <1>6, <1>2, <1>3, <1>4
<1> QED BY <1>5, <1>6

\* The text that the program takes apart is the one that has been notarised
\* unless a unit was lost.
LEMMA TextArrives ==
  ASSUME NEW nonce, NEW number, NEW digits \in Nat, digits > 0,
         NEW cents \in Nat, cents < Power(10, digits)
  PROVE  /\ Scaled(cents) \in Nat /\ Scaled(cents) < Power(10, digits + 1)
         /\ Opened(number, Scaled(cents), digits).text = Notarised(nonce, cents, digits).text
              <=> cents \notin Inexact
<1> DEFINE value == Scaled(cents)
           Digit(n, i) == (n \div Power(10, digits - i)) % 10
<1>1. value \in Nat /\ (cents \notin Inexact => value = 10 * cents)
                    /\ (cents \in Inexact => cents > 0 /\ value = 10 * cents - 1)
  BY EncodingsAssumption DEF Scaled
<1>2. Power(10, digits) \in Nat /\ Power(10, digits + 1) = 10 * Power(10, digits)
  BY Tens
<1>3. value < Power(10, digits + 1)
  <2> HIDE DEF value
  <2> QED BY <1>1, <1>2
<1>4. \A i \in 1 .. digits :
        (IF i = 1 THEN value ELSE value % Power(10, digits + 2 - i)) \div Power(10, digits + 1 - i)
          = Digit(value \div 10, i)
  <2> HIDE DEF value
  <2> QED BY <1>1, <1>3, DigitsOf
<1>5. Opened(number, value, digits).text = [i \in 1 .. digits |-> Digit(value \div 10, i)]
  <2>1. Opened(number, value, digits).text =
          [i \in 1 .. digits |->
             (IF i = 1 THEN value ELSE value % Power(10, digits + 2 - i)) \div Power(10, digits + 1 - i)]
    BY DEF Opened
  <2> HIDE DEF Digit, value
  <2> QED BY <2>1, <1>4
<1>6. Notarised(nonce, cents, digits).text = [i \in 1 .. digits |-> Digit(cents, i)]
  BY DEF Notarised
<1>7. CASE cents \notin Inexact
  <2>1. value \div 10 = cents
    <3> HIDE DEF value
    <3> QED BY <1>1, <1>7
  <2> QED BY <2>1, <1>1, <1>3, <1>5, <1>6, <1>7
<1>8. CASE cents \in Inexact
  <2>1. value \div 10 = cents - 1 /\ cents > 0
    <3> HIDE DEF value
    <3> QED BY <1>1, <1>8
  <2>2. Power(10, digits - digits) = 1 /\ digits \in 1 .. digits
    BY Tens
  <2>3. Digit(cents, digits) = cents % 10 /\ Digit(value \div 10, digits) = (cents - 1) % 10
    BY <2>1, <2>2
  <2>4. cents % 10 # (cents - 1) % 10
    BY <2>1
  <2> HIDE DEF Digit, value
  <2>5. Opened(number, value, digits).text # Notarised(nonce, cents, digits).text
    BY <2>2, <2>3, <2>4, <1>5, <1>6
  <2> QED BY <2>5, <1>1, <1>3, <1>8 DEF value
<1> QED BY <1>7, <1>8

-----------------------------------------------------------------------------
(***************************************************************************)
(* Sums.                                                                   *)
(***************************************************************************)
SumsUpTo(s, sum) ==
  /\ sum \in [0 .. Len(s) -> Int] /\ sum[0] = 0
  /\ \A i \in 1 .. Len(s) : sum[i] = sum[i - 1] + s[i]

LEMMA TotalIs ==
  ASSUME NEW s \in Seq(Int)
  PROVE  \E sum : SumsUpTo(s, sum) /\ Total(s) = sum[Len(s)]
<1> DEFINE L == Len(s)
           step == [x \in Int \X (1 .. L) |-> x[1] + s[x[2]]]
           n == CHOOSE n : n = [i \in 0 .. L |-> IF i = 0 THEN 0 ELSE n[i - 1] + s[i]]
<1>1. L \in Nat /\ 0 \in 0 .. L /\ L \in 0 .. L /\ \A i \in 1 .. L : s[i] \in Int
  OBVIOUS
<1>2. PICK f \in [0 .. L -> Int] : Follows(f, L, 0, step)
  <2>1. StaysIn(Int, 1 .. L, step)
    BY <1>1 DEF StaysIn
  <2>2. 0 \in Int
    OBVIOUS
  <2> HIDE DEF step, L
  <2>3. \A m \in 0 .. L : \E f \in [0 .. m -> Int] : Follows(f, m, 0, step)
    BY <2>1, <2>2, <1>1, RecursionTo, Zenon
  <2> QED BY <1>1, <2>3
<1>3. ASSUME NEW i \in 1 .. L PROVE f[i] = f[i - 1] + s[i]
  <2>1. i \in 0 .. L /\ i # 0 /\ i - 1 \in 0 .. L
    BY <1>1
  <2>0. f[i - 1] \in Int
    BY <2>1
  <2>2. step[<<f[i - 1], i>>] = f[i - 1] + s[i]
    BY <2>0
  <2> QED BY <2>1, <2>2, <1>2 DEF Follows
<1>4. f[0] = 0
  BY <1>1, <1>2 DEF Follows
<1>5. f = [i \in 0 .. L |-> IF i = 0 THEN 0 ELSE f[i - 1] + s[i]]
  BY <1>3, <1>4
<1>6. n = [i \in 0 .. L |-> IF i = 0 THEN 0 ELSE n[i - 1] + s[i]]
  BY <1>5
<1>7. Total(s) = n[L]
  BY DEF Total
<1> HIDE DEF n
<1>8. n[0] = 0 /\ \A i \in 1 .. L : n[i] = n[i - 1] + s[i]
  BY <1>1, <1>6
<1>9. n \in [0 .. L -> Int]
  <2> DEFINE T == {i \in Nat : i \in 0 .. L => n[i] \in Int}
  <2>1. 0 \in T
    BY <1>8
  <2>2. ASSUME NEW i \in T PROVE i + 1 \in T
    <3> SUFFICES ASSUME i + 1 \in 0 .. L PROVE n[i + 1] \in Int
      OBVIOUS
    <3>1. n[i] \in Int /\ i + 1 \in 1 .. L /\ (i + 1) - 1 = i
      BY <1>1
    <3>2. n[i + 1] = n[(i + 1) - 1] + s[i + 1]
      BY <3>1, <1>8
    <3> QED BY <3>1, <3>2, <1>1
  <2>3. T = Nat
    <3>1. T \in SUBSET Nat
      OBVIOUS
    <3> HIDE DEF T
    <3> QED BY <2>1, <2>2, <3>1, NatSet
  <2>4. ASSUME NEW i \in 0 .. L PROVE n[i] \in Int
    <3>1. i \in T
      <4> HIDE DEF T
      <4> QED BY <2>3
    <3> QED BY <3>1
  <2> QED BY <2>4, <1>6
<1> QED BY <1>7, <1>8, <1>9 DEF SumsUpTo

LEMMA SeqOfLength ==
  ASSUME NEW S, NEW n \in Nat, NEW s \in [1 .. n -> S]
  PROVE  s \in Seq(S) /\ Len(s) = n /\ DOMAIN s = 1 .. n
BY LenProperties, IsASeq

Start(s, n) == [i \in 1 .. n |-> s[i]]

LEMMA TotalOfNone ==
  ASSUME NEW s \in [1 .. 0 -> Int]
  PROVE  Total(s) = 0
<1>1. s \in Seq(Int) /\ Len(s) = 0
  BY SeqOfLength
<1> QED BY <1>1, TotalIs DEF SumsUpTo

LEMMA TotalSplits ==
  ASSUME NEW n \in Nat, NEW s \in [1 .. n + 1 -> Int]
  PROVE  /\ Start(s, n) \in [1 .. n -> Int] /\ s[n + 1] \in Int
         /\ Total(Start(s, n)) \in Int /\ Total(s) = Total(Start(s, n)) + s[n + 1]
<1> DEFINE t == Start(s, n)
<1>1. t \in [1 .. n -> Int] /\ s[n + 1] \in Int /\ \A i \in 1 .. n : t[i] = s[i]
  BY DEF Start
<1>2. s \in Seq(Int) /\ Len(s) = n + 1 /\ t \in Seq(Int) /\ Len(t) = n
  BY <1>1, SeqOfLength
<1> HIDE DEF t
<1>3. PICK f : SumsUpTo(s, f) /\ Total(s) = f[n + 1]
  BY <1>2, TotalIs
<1>4. PICK g : SumsUpTo(t, g) /\ Total(t) = g[n]
  BY <1>2, TotalIs
<1> DEFINE T == {i \in Nat : i \in 0 .. n => f[i] = g[i]}
<1>5. 0 \in T
  BY <1>3, <1>4 DEF SumsUpTo
<1>6. ASSUME NEW i \in T PROVE i + 1 \in T
  <2> SUFFICES ASSUME i + 1 \in 0 .. n PROVE f[i + 1] = g[i + 1]
    OBVIOUS
  <2>1. f[i] = g[i] /\ i + 1 \in 1 .. n /\ i + 1 \in 1 .. n + 1 /\ (i + 1) - 1 = i
    OBVIOUS
  <2>2. f[i + 1] = f[(i + 1) - 1] + s[i + 1]
    BY <2>1, <1>2, <1>3 DEF SumsUpTo
  <2>3. g[i + 1] = g[(i + 1) - 1] + t[i + 1]
    BY <2>1, <1>2, <1>4 DEF SumsUpTo
  <2> QED BY <2>1, <2>2, <2>3, <1>1
<1>7. T = Nat
  <2>1. T \in SUBSET Nat
    OBVIOUS
  <2> HIDE DEF T
  <2> QED BY <1>5, <1>6, <2>1, NatSet
<1>8. f[n] = g[n]
  <2>1. n \in T
    <3> HIDE DEF T
    <3> QED BY <1>7
  <2> QED BY <2>1
<1>9. g[n] \in Int
  BY <1>2, <1>4 DEF SumsUpTo
<1>10. f[n + 1] = f[n] + s[n + 1]
  <2>1. n + 1 \in 1 .. n + 1 /\ (n + 1) - 1 = n
    OBVIOUS
  <2>2. f[n + 1] = f[(n + 1) - 1] + s[n + 1]
    BY <2>1, <1>2, <1>3 DEF SumsUpTo
  <2> QED BY <2>1, <2>2
<1> QED BY <1>1, <1>3, <1>4, <1>8, <1>9, <1>10 DEF t

LEMMA TotalIsInt ==
  ASSUME NEW n \in Nat, NEW s \in [1 .. n -> Int]
  PROVE  Total(s) \in Int
<1>1. CASE n = 0
  <2>1. s \in [1 .. 0 -> Int]
    BY <1>1
  <2>2. Total(s) = 0
    BY <2>1, TotalOfNone, Zenon
  <2> QED BY <2>2
<1>2. CASE n # 0
  <2>1. n - 1 \in Nat /\ (n - 1) + 1 = n
    BY <1>2
  <2>2. s \in [1 .. (n - 1) + 1 -> Int]
    BY <2>1
  <2>3. s[(n - 1) + 1] \in Int /\ Total(Start(s, n - 1)) \in Int
        /\ Total(s) = Total(Start(s, n - 1)) + s[(n - 1) + 1]
    BY <2>1, <2>2, TotalSplits
  <2> QED BY <2>3
<1> QED BY <1>1, <1>2

LEMMA TotalOfSums ==
  ASSUME NEW n \in Nat, NEW s \in [1 .. n -> Int], NEW t \in [1 .. n -> Int]
  PROVE  Total([i \in 1 .. n |-> s[i] + t[i]]) = Total(s) + Total(t)
<1> DEFINE Both(m, a, b) == [i \in 1 .. m |-> a[i] + b[i]]
           Adds(m) == \A a \in [1 .. m -> Int] : \A b \in [1 .. m -> Int] :
                        Total(Both(m, a, b)) = Total(a) + Total(b)
           T == {m \in Nat : Adds(m)}
<1>1. 0 \in T
  <2> SUFFICES ASSUME NEW a \in [1 .. 0 -> Int], NEW b \in [1 .. 0 -> Int]
               PROVE  Total(Both(0, a, b)) = Total(a) + Total(b)
    OBVIOUS
  <2>1. Both(0, a, b) \in [1 .. 0 -> Int]
    OBVIOUS
  <2> HIDE DEF Both
  <2>2. Total(a) = 0 /\ Total(b) = 0 /\ Total(Both(0, a, b)) = 0
    BY <2>1, TotalOfNone
  <2> QED BY <2>2
<1>2. ASSUME NEW m \in T PROVE m + 1 \in T
  <2> SUFFICES Adds(m + 1)
    <3> HIDE DEF Adds
    <3> QED OBVIOUS
  <2> SUFFICES ASSUME NEW a \in [1 .. m + 1 -> Int], NEW b \in [1 .. m + 1 -> Int]
               PROVE  Total(Both(m + 1, a, b)) = Total(a) + Total(b)
    <3> HIDE DEF Both
    <3> QED BY Zenon
  <2> DEFINE c == Both(m + 1, a, b)
  <2>1. /\ c \in [1 .. m + 1 -> Int] /\ c[m + 1] = a[m + 1] + b[m + 1]
        /\ \A i \in 1 .. m : a[i] \in Int /\ b[i] \in Int
    OBVIOUS
  <2>2. Start(c, m) = Both(m, Start(a, m), Start(b, m))
    BY DEF Start
  <2>3. Total(Both(m, Start(a, m), Start(b, m))) = Total(Start(a, m)) + Total(Start(b, m))
    <3>1. Start(a, m) \in [1 .. m -> Int] /\ Start(b, m) \in [1 .. m -> Int]
      BY <2>1 DEF Start
    <3> HIDE DEF Both
    <3> QED BY <3>1
  <2> HIDE DEF c, Both
  <2>4. /\ Total(a) = Total(Start(a, m)) + a[m + 1] /\ Total(Start(a, m)) \in Int /\ a[m + 1] \in Int
        /\ Total(b) = Total(Start(b, m)) + b[m + 1] /\ Total(Start(b, m)) \in Int /\ b[m + 1] \in Int
        /\ Total(c) = Total(Start(c, m)) + c[m + 1]
    BY <2>1, TotalSplits
  <2>5. Total(c) = Total(a) + Total(b)
    BY <2>1, <2>2, <2>3, <2>4
  <2> QED BY <2>5 DEF c
<1>3. T = Nat
  <2>1. T \in SUBSET Nat
    OBVIOUS
  <2> HIDE DEF T
  <2> QED BY <1>1, <1>2, <2>1, NatSet
<1>4. n \in T
  <2> HIDE DEF T
  <2> QED BY <1>3
<1> QED BY <1>4

\* What is left of a sequence of n + 1 without its k-th member.
Without(s, k, n) == [i \in 1 .. n |-> IF i < k THEN s[i] ELSE s[i + 1]]

LEMMA TotalWithout ==
  ASSUME NEW n \in Nat, NEW s \in [1 .. n + 1 -> Int], NEW k \in 1 .. n + 1
  PROVE  /\ Without(s, k, n) \in [1 .. n -> Int] /\ s[k] \in Int
         /\ Total(s) = Total(Without(s, k, n)) + s[k]
<1> DEFINE T == {m \in Nat : \A a \in [1 .. m + 1 -> Int] : \A j \in 1 .. m + 1 :
                               Total(a) = Total(Without(a, j, m)) + a[j]}
<1>0. ASSUME NEW m \in Nat, NEW a \in [1 .. m + 1 -> Int], NEW j \in 1 .. m + 1
      PROVE  Without(a, j, m) \in [1 .. m -> Int] /\ a[j] \in Int
  BY DEF Without
<1>1. ASSUME NEW m \in Nat, NEW a \in [1 .. m + 1 -> Int]
      PROVE  Total(a) = Total(Without(a, m + 1, m)) + a[m + 1]
  <2>1. Without(a, m + 1, m) = Start(a, m)
    BY DEF Without, Start
  <2> QED BY <2>1, TotalSplits
<1>2. 0 \in T
  <2>1. \A j \in 1 .. 0 + 1 : j = 0 + 1
    OBVIOUS
  <2> QED BY <2>1, <1>1
<1>3. ASSUME NEW m \in T PROVE m + 1 \in T
  <2> SUFFICES ASSUME NEW a \in [1 .. (m + 1) + 1 -> Int], NEW j \in 1 .. (m + 1) + 1
               PROVE  Total(a) = Total(Without(a, j, m + 1)) + a[j]
    OBVIOUS
  <2>1. CASE j = (m + 1) + 1
    <3>1. m + 1 \in Nat
      OBVIOUS
    <3>2. Total(a) = Total(Without(a, (m + 1) + 1, m + 1)) + a[(m + 1) + 1]
      BY <3>1, <1>1
    <3> QED BY <3>2, <2>1
  <2>2. CASE j # (m + 1) + 1
    <3> DEFINE b == Start(a, m + 1)
               w == Without(a, j, m + 1)
    <3>1. j \in 1 .. m + 1 /\ m + 1 \in Nat
      BY <2>2
    <3>2. /\ b \in [1 .. m + 1 -> Int] /\ a[(m + 1) + 1] \in Int
          /\ Total(b) \in Int /\ Total(a) = Total(b) + a[(m + 1) + 1]
      BY <3>1, TotalSplits
    <3>3. w \in [1 .. m + 1 -> Int]
      BY <3>1, <1>0
    <3>4. w[m + 1] = a[(m + 1) + 1] /\ b[j] = a[j]
      BY <3>1 DEF Without, Start
    <3>5. Start(w, m) = Without(b, j, m)
      <4>1. ASSUME NEW i \in 1 .. m
            PROVE  w[i] = IF i < j THEN b[i] ELSE b[i + 1]
        BY <3>1 DEF Without, Start
      <4> HIDE DEF w, b
      <4> QED BY <4>1 DEF Start, Without
    <3>6. Total(b) = Total(Without(b, j, m)) + b[j] /\ b[j] \in Int
      <4> HIDE DEF b
      <4> QED BY <3>1, <3>2
    <3>7. Total(w) = Total(Start(w, m)) + w[m + 1] /\ Total(Start(w, m)) \in Int
      <4> HIDE DEF w
      <4> QED BY <3>3, TotalSplits
    <3> HIDE DEF b, w
    <3>8. Total(a) = Total(w) + a[j]
      BY <3>2, <3>4, <3>5, <3>6, <3>7
    <3> QED BY <3>8 DEF w
  <2> QED BY <2>1, <2>2
<1>4. T = Nat
  <2>1. T \in SUBSET Nat
    OBVIOUS
  <2> HIDE DEF T
  <2> QED BY <1>2, <1>3, <2>1, NatSet
<1>5. n \in T
  <2> HIDE DEF T
  <2> QED BY <1>4
<1> QED BY <1>0, <1>5

\* A sequence of n in the order of a permutation.
Ordered(s, p, n) == [i \in 1 .. n |-> s[p[i]]]

\* All but one of the numbers of a permutation, in its order.
LEMMA PermutationWithout ==
  ASSUME NEW n \in Nat, NEW p \in Bijection(1 .. n + 1, 1 .. n + 1), NEW k \in 1 .. n + 1,
         p[k] = n + 1
  PROVE  Without(p, k, n) \in Bijection(1 .. n, 1 .. n)
<1> DEFINE q == Without(p, k, n)
<1>1. /\ p \in [1 .. n + 1 -> 1 .. n + 1]
      /\ \A i, j \in 1 .. n + 1 : p[i] = p[j] => i = j
      /\ \A v \in 1 .. n + 1 : \E i \in 1 .. n + 1 : p[i] = v
  BY DEF Bijection, Injection, Surjection, IsInjective
<1>2. \A i \in 1 .. n : q[i] = IF i < k THEN p[i] ELSE p[i + 1]
  BY DEF Without
<1>3. ASSUME NEW i \in 1 .. n PROVE q[i] \in 1 .. n
  <2> DEFINE j == IF i < k THEN i ELSE i + 1
  <2>1. j \in 1 .. n + 1 /\ j # k /\ q[i] = p[j]
    BY <1>2
  <2> HIDE DEF j
  <2>2. p[j] # n + 1 /\ p[j] \in 1 .. n + 1
    BY <2>1, <1>1
  <2> QED BY <2>1, <2>2
<1>4. ASSUME NEW i \in 1 .. n, NEW j \in 1 .. n, q[i] = q[j] PROVE i = j
  <2> DEFINE a == IF i < k THEN i ELSE i + 1
             b == IF j < k THEN j ELSE j + 1
  <2>1. a \in 1 .. n + 1 /\ b \in 1 .. n + 1 /\ q[i] = p[a] /\ q[j] = p[b]
    BY <1>2
  <2>2. a = b
    <3> HIDE DEF a, b
    <3> QED BY <2>1, <1>1, <1>4
  <2> QED BY <2>2
<1>5. ASSUME NEW v \in 1 .. n PROVE \E i \in 1 .. n : q[i] = v
  <2>1. v \in 1 .. n + 1 /\ v # n + 1
    OBVIOUS
  <2>2. PICK i \in 1 .. n + 1 : p[i] = v
    BY <2>1, <1>1
  <2>3. i # k
    BY <2>1, <2>2
  <2>4. CASE i < k
    <3>1. i \in 1 .. n /\ q[i] = v
      BY <2>2, <2>4, <1>2
    <3> QED BY <3>1
  <2>5. CASE i > k
    <3>1. i - 1 \in 1 .. n /\ ~(i - 1 < k) /\ (i - 1) + 1 = i
      BY <2>5
    <3>2. q[i - 1] = v
      BY <3>1, <2>2, <1>2
    <3> QED BY <3>1, <3>2
  <2> QED BY <2>3, <2>4, <2>5
<1>6. q \in [1 .. n -> 1 .. n]
  <2>1. q = [i \in 1 .. n |-> q[i]]
    BY DEF Without
  <2> HIDE DEF q
  <2> QED BY <2>1, <1>3
<1> HIDE DEF q
<1>7. q \in Bijection(1 .. n, 1 .. n)
  BY <1>4, <1>5, <1>6 DEF Bijection, Injection, Surjection, IsInjective
<1> QED BY <1>7 DEF q

\* The sum does not depend on the order.
LEMMA TotalPermuted ==
  ASSUME NEW n \in Nat, NEW s \in [1 .. n -> Int], NEW p \in Bijection(1 .. n, 1 .. n)
  PROVE  Total(Ordered(s, p, n)) = Total(s)
<1> DEFINE T == {m \in Nat : \A a \in [1 .. m -> Int] : \A r \in Bijection(1 .. m, 1 .. m) :
                               Total(Ordered(a, r, m)) = Total(a)}
<1>1. 0 \in T
  <2> SUFFICES ASSUME NEW a \in [1 .. 0 -> Int], NEW r
               PROVE  Total(Ordered(a, r, 0)) = Total(a)
    OBVIOUS
  <2>1. Ordered(a, r, 0) \in [1 .. 0 -> Int]
    BY DEF Ordered
  <2>2. Total(a) = 0 /\ Total(Ordered(a, r, 0)) = 0
    BY <2>1, TotalOfNone
  <2> QED BY <2>2
<1>2. ASSUME NEW m \in T PROVE m + 1 \in T
  <2> SUFFICES ASSUME NEW a \in [1 .. m + 1 -> Int], NEW r \in Bijection(1 .. m + 1, 1 .. m + 1)
               PROVE  Total(Ordered(a, r, m + 1)) = Total(a)
    OBVIOUS
  <2> DEFINE c == Ordered(a, r, m + 1)
  <2>1. /\ r \in [1 .. m + 1 -> 1 .. m + 1]
        /\ \A v \in 1 .. m + 1 : \E i \in 1 .. m + 1 : r[i] = v
    BY DEF Bijection, Injection, Surjection
  <2>2. PICK k \in 1 .. m + 1 : r[k] = m + 1
    <3>1. m + 1 \in 1 .. m + 1
      OBVIOUS
    <3> QED BY <3>1, <2>1
  <2> DEFINE q == Without(r, k, m)
             b == Start(a, m)
  <2>3. q \in Bijection(1 .. m, 1 .. m)
    BY <2>2, PermutationWithout
  <2>4. c \in [1 .. m + 1 -> Int] /\ c[k] = a[m + 1]
    BY <2>1, <2>2 DEF Ordered
  <2>5. /\ b \in [1 .. m -> Int] /\ a[m + 1] \in Int
        /\ Total(b) \in Int /\ Total(a) = Total(b) + a[m + 1]
    BY TotalSplits
  <2>6. Without(c, k, m) = Ordered(b, q, m)
    <3>1. q \in [1 .. m -> 1 .. m]
      BY <2>3 DEF Bijection, Injection
    <3>2. \A i \in 1 .. m : q[i] = IF i < k THEN r[i] ELSE r[i + 1]
      BY DEF Without
    <3>3. \A j \in 1 .. m : b[j] = a[j]
      BY DEF Start
    <3>4. \A i \in 1 .. m + 1 : c[i] = a[r[i]]
      BY DEF Ordered
    <3> HIDE DEF q, b, c
    <3>5. ASSUME NEW i \in 1 .. m
          PROVE  (IF i < k THEN c[i] ELSE c[i + 1]) = b[q[i]]
      <4>1. i \in 1 .. m + 1 /\ i + 1 \in 1 .. m + 1 /\ q[i] \in 1 .. m
        BY <3>1
      <4> QED BY <4>1, <3>2, <3>3, <3>4
    <3> QED BY <3>5 DEF Without, Ordered
  <2>7. Total(Ordered(b, q, m)) = Total(b)
    <3> HIDE DEF q, b
    <3> QED BY <2>3, <2>5
  <2>8. Total(c) = Total(Without(c, k, m)) + c[k]
    <3> HIDE DEF c
    <3> QED BY <2>4, TotalWithout
  <2> HIDE DEF c, b, q
  <2>9. Total(c) = Total(a)
    BY <2>4, <2>5, <2>6, <2>7, <2>8
  <2> QED BY <2>9 DEF c
<1>3. T = Nat
  <2>1. T \in SUBSET Nat
    OBVIOUS
  <2> HIDE DEF T
  <2> QED BY <1>1, <1>2, <2>1, NatSet
<1>4. n \in T
  <2> HIDE DEF T
  <2> QED BY <1>3
<1> QED BY <1>4

-----------------------------------------------------------------------------
(***************************************************************************)
(* Sorting.                                                                *)
(***************************************************************************)
LEMMA MaximumExists ==
  ASSUME NEW n \in Nat, NEW s \in [1 .. n + 1 -> Int]
  PROVE  \E k \in 1 .. n + 1 : \A i \in 1 .. n + 1 : s[i] <= s[k]
<1> DEFINE T == {m \in Nat : m <= n => \E k \in 1 .. m + 1 : \A i \in 1 .. m + 1 : s[i] <= s[k]}
<1>1. 0 \in T
  <2>1. 1 \in 1 .. 0 + 1 /\ \A i \in 1 .. 0 + 1 : i = 1
    OBVIOUS
  <2>2. s[1] \in Int
    OBVIOUS
  <2>3. \A i \in 1 .. 0 + 1 : s[i] <= s[1]
    BY <2>1, <2>2
  <2> QED BY <2>1, <2>3
<1>2. ASSUME NEW m \in T PROVE m + 1 \in T
  <2> SUFFICES ASSUME m + 1 <= n
               PROVE  \E k \in 1 .. (m + 1) + 1 : \A i \in 1 .. (m + 1) + 1 : s[i] <= s[k]
    OBVIOUS
  <2>1. PICK k \in 1 .. m + 1 : \A i \in 1 .. m + 1 : s[i] <= s[k]
    OBVIOUS
  <2> DEFINE l == (m + 1) + 1
  <2>2. /\ l \in 1 .. l /\ k \in 1 .. l /\ \A i \in 1 .. l : i \in 1 .. m + 1 \/ i = l
        /\ s[l] \in Int /\ s[k] \in Int /\ \A i \in 1 .. m + 1 : s[i] \in Int
    OBVIOUS
  <2> HIDE DEF l
  <2>3. CASE s[k] <= s[l]
    <3>1. \A i \in 1 .. l : s[i] <= s[l]
      BY <2>1, <2>2, <2>3
    <3>2. \E j \in 1 .. l : \A i \in 1 .. l : s[i] <= s[j]
      BY <2>2, <3>1
    <3> QED BY <3>2 DEF l
  <2>4. CASE ~(s[k] <= s[l])
    <3>1. \A i \in 1 .. l : s[i] <= s[k]
      BY <2>1, <2>2, <2>4
    <3>2. \E j \in 1 .. l : \A i \in 1 .. l : s[i] <= s[j]
      BY <2>2, <3>1
    <3> QED BY <3>2 DEF l
  <2> QED BY <2>3, <2>4
<1>3. T = Nat
  <2>1. T \in SUBSET Nat
    OBVIOUS
  <2> HIDE DEF T
  <2> QED BY <1>1, <1>2, <2>1, NatSet
<1>4. n \in T
  <2> HIDE DEF T
  <2> QED BY <1>3
<1> QED BY <1>4

\* A permutation of n numbers, with k put in at the end and the others moved.
With(q, k, n) ==
  [i \in 1 .. n + 1 |-> IF i = n + 1 THEN k ELSE IF q[i] < k THEN q[i] ELSE q[i] + 1]

LEMMA PermutationWith ==
  ASSUME NEW n \in Nat, NEW q \in Bijection(1 .. n, 1 .. n), NEW k \in 1 .. n + 1
  PROVE  With(q, k, n) \in Bijection(1 .. n + 1, 1 .. n + 1)
<1> DEFINE p == With(q, k, n)
<1>1. /\ q \in [1 .. n -> 1 .. n]
      /\ \A i, j \in 1 .. n : q[i] = q[j] => i = j
      /\ \A v \in 1 .. n : \E i \in 1 .. n : q[i] = v
  BY DEF Bijection, Injection, Surjection, IsInjective
<1>2. /\ p[n + 1] = k
      /\ \A i \in 1 .. n : p[i] = IF q[i] < k THEN q[i] ELSE q[i] + 1
  BY DEF With
<1>3. /\ n + 1 \in 1 .. n + 1 /\ \A i \in 1 .. n + 1 : i \in 1 .. n \/ i = n + 1
      /\ \A i \in 1 .. n : i \in 1 .. n + 1
  OBVIOUS
<1>4. ASSUME NEW i \in 1 .. n PROVE p[i] \in 1 .. n + 1 /\ p[i] # k
  <2>1. q[i] \in 1 .. n /\ p[i] = IF q[i] < k THEN q[i] ELSE q[i] + 1
    BY <1>1, <1>2
  <2> HIDE DEF p
  <2> QED BY <2>1
<1>5. p \in [1 .. n + 1 -> 1 .. n + 1]
  <2>1. p = [i \in 1 .. n + 1 |-> p[i]]
    BY DEF With
  <2> HIDE DEF p
  <2> QED BY <2>1, <1>2, <1>3, <1>4
<1>6. ASSUME NEW i \in 1 .. n + 1, NEW j \in 1 .. n + 1, p[i] = p[j] PROVE i = j
  <2> HIDE DEF p
  <2>1. CASE i \in 1 .. n /\ j \in 1 .. n
    <3>1. q[i] \in 1 .. n /\ q[j] \in 1 .. n
      BY <1>1, <2>1
    <3>2. q[i] = q[j]
      BY <3>1, <2>1, <1>2, <1>6
    <3> QED BY <3>2, <2>1, <1>1
  <2>2. CASE i = n + 1 \/ j = n + 1
    BY <2>2, <1>2, <1>3, <1>4, <1>6
  <2> QED BY <2>1, <2>2, <1>3
<1>7. ASSUME NEW v \in 1 .. n + 1 PROVE \E i \in 1 .. n + 1 : p[i] = v
  <2> HIDE DEF p
  <2>1. CASE v = k
    BY <2>1, <1>2, <1>3
  <2>2. CASE v < k
    <3>1. v \in 1 .. n
      BY <2>2
    <3>2. PICK i \in 1 .. n : q[i] = v
      BY <3>1, <1>1
    <3>3. p[i] = v
      BY <3>2, <2>2, <1>2
    <3> QED BY <3>3, <1>3
  <2>3. CASE v > k
    <3>1. v - 1 \in 1 .. n /\ ~(v - 1 < k) /\ (v - 1) + 1 = v
      BY <2>3
    <3>2. PICK i \in 1 .. n : q[i] = v - 1
      BY <3>1, <1>1
    <3>3. p[i] = v
      BY <3>1, <3>2, <1>2
    <3> QED BY <3>3, <1>3
  <2> QED BY <2>1, <2>2, <2>3
<1> HIDE DEF p
<1>8. p \in Bijection(1 .. n + 1, 1 .. n + 1)
  BY <1>5, <1>6, <1>7 DEF Bijection, Injection, Surjection, IsInjective
<1> QED BY <1>8 DEF p

Rises(d, n) == \A i, j \in 1 .. n : i <= j => d[i] <= d[j]

\* Every sequence of numbers can be sorted.
LEMMA SortingExists ==
  ASSUME NEW n \in Nat, NEW s \in [1 .. n -> Int]
  PROVE  \E p \in Bijection(1 .. n, 1 .. n) : Rises(Ordered(s, p, n), n)
<1> DEFINE T == {m \in Nat : \A a \in [1 .. m -> Int] : \E r \in Bijection(1 .. m, 1 .. m) :
                               Rises(Ordered(a, r, m), m)}
<1>1. 0 \in T
  <2> SUFFICES ASSUME NEW a \in [1 .. 0 -> Int]
               PROVE  \E r \in Bijection(1 .. 0, 1 .. 0) : Rises(Ordered(a, r, 0), 0)
    OBVIOUS
  <2>1. [i \in 1 .. 0 |-> i] \in Bijection(1 .. 0, 1 .. 0)
    BY DEF Bijection, Injection, Surjection, IsInjective
  <2>2. \A d : Rises(d, 0)
    BY DEF Rises
  <2> QED BY <2>1, <2>2
<1>2. ASSUME NEW m \in T PROVE m + 1 \in T
  <2> SUFFICES ASSUME NEW a \in [1 .. m + 1 -> Int]
               PROVE  \E r \in Bijection(1 .. m + 1, 1 .. m + 1) : Rises(Ordered(a, r, m + 1), m + 1)
    OBVIOUS
  <2>1. PICK k \in 1 .. m + 1 : \A i \in 1 .. m + 1 : a[i] <= a[k]
    BY MaximumExists
  <2> DEFINE b == Without(a, k, m)
  <2>2. b \in [1 .. m -> Int]
    BY TotalWithout
  <2>3. PICK q \in Bijection(1 .. m, 1 .. m) : Rises(Ordered(b, q, m), m)
    <3> HIDE DEF b
    <3> QED BY <2>2
  <2> DEFINE r == With(q, k, m)
  <2>4. r \in Bijection(1 .. m + 1, 1 .. m + 1)
    BY PermutationWith
  <2>5. q \in [1 .. m -> 1 .. m] /\ r \in [1 .. m + 1 -> 1 .. m + 1]
    BY <2>3, <2>4 DEF Bijection, Injection
  <2>6. /\ r[m + 1] = k
        /\ \A i \in 1 .. m : r[i] = IF q[i] < k THEN q[i] ELSE q[i] + 1
    BY DEF With
  <2>7. \A j \in 1 .. m : b[j] = IF j < k THEN a[j] ELSE a[j + 1]
    BY DEF Without
  <2> HIDE DEF r, b
  <2>8. ASSUME NEW i \in 1 .. m PROVE a[r[i]] = b[q[i]]
    <3>1. q[i] \in 1 .. m
      BY <2>5
    <3> QED BY <3>1, <2>6, <2>7
  <2>9. ASSUME NEW i \in 1 .. m, NEW j \in 1 .. m, i <= j PROVE b[q[i]] <= b[q[j]]
    BY <2>3, <2>9 DEF Rises, Ordered
  <2>10. ASSUME NEW i \in 1 .. m + 1, NEW j \in 1 .. m + 1, i <= j PROVE a[r[i]] <= a[r[j]]
    <3>1. CASE j \in 1 .. m
      <4>1. i \in 1 .. m
        BY <3>1, <2>10
      <4> QED BY <4>1, <3>1, <2>8, <2>9, <2>10
    <3>2. CASE j = m + 1
      <4>1. r[i] \in 1 .. m + 1
        BY <2>5
      <4> QED BY <4>1, <3>2, <2>1, <2>6
    <3>3. j \in 1 .. m \/ j = m + 1
      OBVIOUS
    <3> QED BY <3>1, <3>2, <3>3
  <2>11. Rises(Ordered(a, r, m + 1), m + 1)
    BY <2>10 DEF Rises, Ordered
  <2> QED BY <2>4, <2>11
<1>3. T = Nat
  <2>1. T \in SUBSET Nat
    OBVIOUS
  <2> HIDE DEF T
  <2> QED BY <1>1, <1>2, <2>1, NatSet
<1>4. n \in T
  <2> HIDE DEF T
  <2> QED BY <1>3
<1> QED BY <1>4

-----------------------------------------------------------------------------
(***************************************************************************)
(* The sum of all differences, and what the program computes in its place. *)
(***************************************************************************)
Row(s, n, a) == [j \in 1 .. n |-> Abs(a - s[j])]
Rows(s, n) == [i \in 1 .. n |-> Total(Row(s, n, s[i]))]

LEMMA RowsAre ==
  ASSUME NEW n \in Nat, NEW s \in [1 .. n -> Int]
  PROVE  /\ \A a \in Int : Row(s, n, a) \in [1 .. n -> Int] /\ Total(Row(s, n, a)) \in Int
         /\ Rows(s, n) \in [1 .. n -> Int]
         /\ Differences(s) = Total(Rows(s, n)) /\ Differences(s) \in Int
<1>1. ASSUME NEW a \in Int PROVE Row(s, n, a) \in [1 .. n -> Int] /\ Total(Row(s, n, a)) \in Int
  <2>1. Row(s, n, a) \in [1 .. n -> Int]
    <3>1. ASSUME NEW j \in 1 .. n PROVE Abs(a - s[j]) \in Int
      <4>1. s[j] \in Int
        OBVIOUS
      <4> QED BY <4>1 DEF Abs
    <3> QED BY <3>1 DEF Row
  <2> QED BY <2>1, TotalIsInt
<1>2. Rows(s, n) \in [1 .. n -> Int]
  BY <1>1 DEF Rows
<1>3. DOMAIN s = 1 .. n
  OBVIOUS
<1>4. Differences(s) = Total(Rows(s, n))
  BY <1>3 DEF Differences, Rows, Row
<1> QED BY <1>1, <1>2, <1>4, TotalIsInt

\* The differences do not depend on the order.
LEMMA DifferencesPermuted ==
  ASSUME NEW n \in Nat, NEW s \in [1 .. n -> Int], NEW p \in Bijection(1 .. n, 1 .. n)
  PROVE  Differences(Ordered(s, p, n)) = Differences(s)
<1> DEFINE d == Ordered(s, p, n)
<1>1. p \in [1 .. n -> 1 .. n]
  BY DEF Bijection, Injection
<1>2. d \in [1 .. n -> Int] /\ \A i \in 1 .. n : d[i] = s[p[i]]
  BY <1>1 DEF Ordered
<1> HIDE DEF d
<1>3. ASSUME NEW a \in Int PROVE Total(Row(d, n, a)) = Total(Row(s, n, a))
  <2> DEFINE w == Row(s, n, a)
  <2>1. w \in [1 .. n -> Int]
    BY RowsAre
  <2>2. Row(d, n, a) = Ordered(w, p, n)
    BY <1>1, <1>2 DEF Row, Ordered
  <2> HIDE DEF w
  <2>3. Total(Ordered(w, p, n)) = Total(w)
    BY <2>1, TotalPermuted
  <2> QED BY <2>2, <2>3 DEF w
<1> DEFINE t == Rows(s, n)
<1>4. t \in [1 .. n -> Int]
  BY RowsAre
<1>5. Rows(d, n) = Ordered(t, p, n)
  <2>1. ASSUME NEW i \in 1 .. n PROVE Total(Row(d, n, d[i])) = t[p[i]]
    <3>1. p[i] \in 1 .. n /\ d[i] = s[p[i]] /\ d[i] \in Int
      BY <1>1, <1>2
    <3>2. t[p[i]] = Total(Row(s, n, s[p[i]]))
      BY <3>1 DEF Rows
    <3> HIDE DEF t
    <3> QED BY <3>1, <3>2, <1>3
  <2> HIDE DEF t
  <2> QED BY <2>1 DEF Rows, Ordered
<1>6. Total(Ordered(t, p, n)) = Total(t)
  <2> HIDE DEF t
  <2> QED BY <1>4, TotalPermuted
<1>7. Differences(d) = Total(Rows(d, n)) /\ Differences(s) = Total(t)
  BY <1>2, RowsAre
<1>8. Differences(d) = Differences(s)
  BY <1>5, <1>6, <1>7
<1> QED BY <1>8 DEF d

LEMMA TotalOfGaps ==
  ASSUME NEW n \in Nat, NEW s \in [1 .. n -> Int], NEW c \in Int
  PROVE  Total([i \in 1 .. n |-> c - s[i]]) = n * c - Total(s)
<1> DEFINE Gaps(m, a) == [i \in 1 .. m |-> c - a[i]]
           Gap(m) == \A a \in [1 .. m -> Int] : Total(Gaps(m, a)) = m * c - Total(a)
           T == {m \in Nat : Gap(m)}
<1>1. 0 \in T
  <2> SUFFICES ASSUME NEW a \in [1 .. 0 -> Int] PROVE Total(Gaps(0, a)) = 0 * c - Total(a)
    OBVIOUS
  <2>1. Gaps(0, a) \in [1 .. 0 -> Int]
    OBVIOUS
  <2> HIDE DEF Gaps
  <2>2. Total(a) = 0 /\ Total(Gaps(0, a)) = 0
    BY <2>1, TotalOfNone
  <2> QED BY <2>2
<1>2. ASSUME NEW m \in T PROVE m + 1 \in T
  <2> SUFFICES Gap(m + 1)
    <3> HIDE DEF Gap
    <3> QED OBVIOUS
  <2> SUFFICES ASSUME NEW a \in [1 .. m + 1 -> Int]
               PROVE  Total(Gaps(m + 1, a)) = (m + 1) * c - Total(a)
    <3> HIDE DEF Gaps
    <3> QED BY Zenon
  <2> DEFINE g == Gaps(m + 1, a)
             b == Start(a, m)
  <2>1. /\ g \in [1 .. m + 1 -> Int] /\ g[m + 1] = c - a[m + 1]
        /\ \A i \in 1 .. m : a[i] \in Int
    OBVIOUS
  <2>2. Start(g, m) = Gaps(m, b)
    BY DEF Start
  <2>3. b \in [1 .. m -> Int]
    BY <2>1 DEF Start
  <2>4. Total(Gaps(m, b)) = m * c - Total(b)
    <3> HIDE DEF Gaps, b
    <3> QED BY <2>3
  <2> HIDE DEF g, Gaps, b
  <2>5. /\ Total(a) = Total(b) + a[m + 1] /\ Total(b) \in Int /\ a[m + 1] \in Int
        /\ Total(g) = Total(Start(g, m)) + g[m + 1]
    BY <2>1, TotalSplits DEF b
  <2>6. (m + 1) * c = m * c + c
    OBVIOUS
  <2>7. Total(g) = (m + 1) * c - Total(a)
    BY <2>1, <2>2, <2>4, <2>5, <2>6
  <2> QED BY <2>7 DEF g
<1>3. T = Nat
  <2>1. T \in SUBSET Nat
    OBVIOUS
  <2> HIDE DEF T
  <2> QED BY <1>1, <1>2, <2>1, NatSet
<1>4. n \in T
  <2> HIDE DEF T
  <2> QED BY <1>3
<1> QED BY <1>4

LEMMA AreaSplits ==
  ASSUME NEW n \in Nat, NEW d \in [1 .. n + 1 -> Int]
  PROVE  /\ Area(Start(d, n)) \in Int
         /\ Area(d) = Area(Start(d, n)) + (2 * n + 1) * d[n + 1]
<1> DEFINE e == Start(d, n)
           w == [i \in 1 .. n + 1 |-> (2 * i - 1) * d[i]]
<1>1. e \in [1 .. n -> Int] /\ d[n + 1] \in Int /\ \A i \in 1 .. n : e[i] = d[i]
  BY DEF Start
<1>2. Len(d) = n + 1 /\ Len(e) = n
  BY <1>1, SeqOfLength
<1>3. w \in [1 .. n + 1 -> Int] /\ w[n + 1] = (2 * n + 1) * d[n + 1]
  <2>1. \A i \in 1 .. n + 1 : (2 * i - 1) * d[i] \in Int
    OBVIOUS
  <2>2. 2 * (n + 1) - 1 = 2 * n + 1
    OBVIOUS
  <2> QED BY <2>1, <2>2
<1>4. Start(w, n) = [i \in 1 .. n |-> (2 * i - 1) * e[i]]
  <2>1. \A i \in 1 .. n : w[i] = (2 * i - 1) * e[i]
    BY <1>1
  <2> HIDE DEF w, e
  <2> QED BY <2>1 DEF Start
<1>5. Total(w) = Total(Start(w, n)) + w[n + 1] /\ Total(Start(w, n)) \in Int
  <2> HIDE DEF w
  <2> QED BY <1>3, TotalSplits
<1>6. Area(d) = Total(w) /\ Area(e) = Total(Start(w, n))
  <2>1. Area(d) = Total(w)
    BY <1>2 DEF Area
  <2>2. Area(e) = Total([i \in 1 .. n |-> (2 * i - 1) * e[i]])
    <3> HIDE DEF e
    <3> QED BY <1>2 DEF Area
  <2> QED BY <2>1, <2>2, <1>4
<1> HIDE DEF w
<1> QED BY <1>3, <1>5, <1>6

\* Sums of values up to V, and sums weighted as in an area.
LEMMA SumsAreBounded ==
  ASSUME NEW V \in Nat, NEW n \in Nat, NEW s \in [1 .. n -> 0 .. V]
  PROVE  /\ Total(s) \in Nat /\ Total(s) <= n * V
         /\ Area(s) \in Nat /\ Area(s) <= (n * n) * V
<1> DEFINE Within(m) == \A d \in [1 .. m -> 0 .. V] :
                          /\ Total(d) \in Nat /\ Total(d) <= m * V
                          /\ Area(d) \in Nat /\ Area(d) <= (m * m) * V
           T == {m \in Nat : Within(m)}
<1>1. 0 \in T
  <2>1. ASSUME NEW d \in [1 .. 0 -> 0 .. V] PROVE Total(d) = 0 /\ Area(d) = 0
    <3>1. d \in [1 .. 0 -> Int]
      OBVIOUS
    <3>2. Len(d) = 0
      BY <3>1, SeqOfLength
    <3>3. [i \in 1 .. 0 |-> (2 * i - 1) * d[i]] \in [1 .. 0 -> Int]
      OBVIOUS
    <3>4. Area(d) = Total([i \in 1 .. 0 |-> (2 * i - 1) * d[i]])
      BY <3>2 DEF Area
    <3>5. Total(d) = 0
      BY <3>1, TotalOfNone, Zenon
    <3>6. Total([i \in 1 .. 0 |-> (2 * i - 1) * d[i]]) = 0
      BY <3>3, TotalOfNone, Zenon
    <3> QED BY <3>4, <3>5, <3>6
  <2>2. 0 <= 0 * V /\ 0 <= (0 * 0) * V
    OBVIOUS
  <2> QED BY <2>1, <2>2
<1>2. ASSUME NEW m \in Nat, Within(m) PROVE Within(m + 1)
  <2> SUFFICES ASSUME NEW d \in [1 .. m + 1 -> 0 .. V]
               PROVE  /\ Total(d) \in Nat /\ Total(d) <= (m + 1) * V
                      /\ Area(d) \in Nat /\ Area(d) <= ((m + 1) * (m + 1)) * V
    OBVIOUS
  <2> DEFINE e == Start(d, m)
             x == d[m + 1]
             t == Total(e)
             a == Area(e)
  <2>1. e \in [1 .. m -> 0 .. V] /\ x \in Nat /\ x <= V /\ d \in [1 .. m + 1 -> Int]
    BY DEF Start
  <2>2. t \in Nat /\ t <= m * V /\ a \in Nat /\ a <= (m * m) * V
    <3> HIDE DEF e
    <3> QED BY <2>1, <1>2
  <2>3. Total(d) = t + x
    BY <2>1, TotalSplits
  <2>4. Area(d) = a + (2 * m + 1) * x
    BY <2>1, AreaSplits
  <2> HIDE DEF e, x, t, a
  <2>5. (m + 1) * V = m * V + V
    OBVIOUS
  <2>6. ((m + 1) * (m + 1)) * V = (m * m) * V + (2 * m + 1) * V
    <3>1. (m + 1) * (m + 1) = m * m + (2 * m + 1)
      OBVIOUS
    <3>2. m * m \in Nat /\ 2 * m + 1 \in Nat
      OBVIOUS
    <3> QED BY <3>1, <3>2
  <2>7. (2 * m + 1) * x \in Nat /\ (2 * m + 1) * x <= (2 * m + 1) * V
    <3> DEFINE c == 2 * m + 1
    <3>1. c \in Nat
      OBVIOUS
    <3> HIDE DEF c
    <3>2. c * x \in Nat /\ c * x <= c * V
      BY <2>1, <3>1, TimesAtMost
    <3> QED BY <3>2 DEF c
  <2>8. (m * m) * V \in Nat /\ m * V \in Nat /\ (2 * m + 1) * V \in Nat
    OBVIOUS
  <2>9. Total(d) \in Nat /\ Total(d) <= (m + 1) * V
    BY <2>1, <2>2, <2>3, <2>5, <2>8
  <2>10. Area(d) \in Nat /\ Area(d) <= ((m + 1) * (m + 1)) * V
    BY <2>2, <2>4, <2>6, <2>7, <2>8
  <2> QED BY <2>9, <2>10
<1>3. T = Nat
  <2>1. T \in SUBSET Nat
    OBVIOUS
  <2>2. \A m \in T : m + 1 \in T
    <3> HIDE DEF Within
    <3> QED BY <1>2
  <2> HIDE DEF T
  <2> QED BY <1>1, <2>1, <2>2, NatSet
<1>4. Within(n)
  <2>1. n \in T
    <3> HIDE DEF T
    <3> QED BY <1>3
  <2> HIDE DEF Within
  <2> QED BY <2>1
<1> QED BY <1>4

LEMMA AbsOfGap ==
  ASSUME NEW a \in Int, NEW b \in Int, a <= b
  PROVE  Abs(a - b) = b - a /\ Abs(b - a) = b - a
BY DEF Abs

\* One value more, none of the others larger.
LEMMA DifferencesGrow ==
  ASSUME NEW n \in Nat, NEW d \in [1 .. n + 1 -> Int], Rises(d, n + 1)
  PROVE  Differences(d) = Differences(Start(d, n)) + 2 * (n * d[n + 1] - Total(Start(d, n)))
<1> DEFINE e == Start(d, n)
           x == d[n + 1]
           gaps == [i \in 1 .. n |-> x - e[i]]
           r == Rows(d, n + 1)
           t == Rows(e, n)
<1>1. e \in [1 .. n -> Int] /\ x \in Int /\ \A i \in 1 .. n : e[i] = d[i] /\ e[i] \in Int
  BY DEF Start
<1>2. ASSUME NEW i \in 1 .. n PROVE Abs(e[i] - x) = x - e[i] /\ Abs(x - e[i]) = x - e[i]
  <2>1. e[i] <= x
    <3>1. i \in 1 .. n + 1 /\ n + 1 \in 1 .. n + 1 /\ i <= n + 1
      OBVIOUS
    <3> QED BY <3>1, <1>1 DEF Rises
  <2> HIDE DEF e, x
  <2> QED BY <2>1, <1>1, AbsOfGap
<1>3. Total(gaps) = n * x - Total(e) /\ gaps \in [1 .. n -> Int]
  <2> HIDE DEF e, x
  <2>1. \A i \in 1 .. n : x - e[i] \in Int
    BY <1>1
  <2> QED BY <2>1, <1>1, TotalOfGaps
<1>4. ASSUME NEW a \in Int
      PROVE  Total(Row(d, n + 1, a)) = Total(Row(e, n, a)) + Abs(a - x)
  <2> DEFINE w == Row(d, n + 1, a)
  <2>1. w \in [1 .. n + 1 -> Int]
    <3>1. n + 1 \in Nat
      OBVIOUS
    <3> QED BY <3>1, RowsAre
  <2>2. Start(w, n) = Row(e, n, a)
    <3>1. \A i \in 1 .. n : w[i] = Abs(a - e[i])
      BY <1>1 DEF Row
    <3> HIDE DEF w, e
    <3> QED BY <3>1 DEF Start, Row
  <2>3. w[n + 1] = Abs(a - x)
    BY DEF Row
  <2> HIDE DEF w, e, x
  <2>4. Total(w) = Total(Start(w, n)) + w[n + 1]
    BY <2>1, TotalSplits
  <2> QED BY <2>2, <2>3, <2>4 DEF w
<1>5. /\ r \in [1 .. n + 1 -> Int] /\ Differences(d) = Total(r)
      /\ t \in [1 .. n -> Int] /\ Differences(e) = Total(t)
  <2> HIDE DEF e
  <2> QED BY <1>1, RowsAre
<1>6. Start(r, n) = [i \in 1 .. n |-> t[i] + gaps[i]]
  <2>1. ASSUME NEW i \in 1 .. n PROVE r[i] = t[i] + gaps[i]
    <3>1. r[i] = Total(Row(d, n + 1, e[i]))
      BY <1>1 DEF Rows
    <3>2. t[i] = Total(Row(e, n, e[i]))
      BY DEF Rows
    <3>3. gaps[i] = x - e[i]
      OBVIOUS
    <3> HIDE DEF r, t, gaps, e, x
    <3> QED BY <3>1, <3>2, <3>3, <1>1, <1>2, <1>4
  <2> HIDE DEF r, t, gaps
  <2> QED BY <2>1 DEF Start
<1>7. r[n + 1] = Total(gaps)
  <2>1. r[n + 1] = Total(Row(d, n + 1, x))
    BY DEF Rows
  <2>2. Row(e, n, x) = gaps
    <3> HIDE DEF e, x
    <3> QED BY <1>2 DEF Row
  <2>3. Abs(x - x) = 0
    <3> HIDE DEF x
    <3> QED BY <1>1 DEF Abs
  <2>4. Total(gaps) \in Int
    <3> HIDE DEF gaps
    <3> QED BY <1>3, TotalIsInt
  <2> HIDE DEF r, gaps, e, x
  <2> QED BY <2>1, <2>2, <2>3, <2>4, <1>1, <1>4
<1>8. Total([i \in 1 .. n |-> t[i] + gaps[i]]) = Total(t) + Total(gaps)
  <2> HIDE DEF t, gaps
  <2> QED BY <1>3, <1>5, TotalOfSums
<1>9. Total(r) = Total(Start(r, n)) + r[n + 1]
  <2> HIDE DEF r
  <2> QED BY <1>5, TotalSplits
<1>10. Total(t) \in Int /\ Total(gaps) \in Int
  <2> HIDE DEF t, gaps
  <2> QED BY <1>3, <1>5, TotalIsInt
<1> HIDE DEF r, t, gaps
<1>11. Differences(d) = Differences(e) + 2 * Total(gaps)
  BY <1>5, <1>6, <1>7, <1>8, <1>9, <1>10
<1> QED BY <1>3, <1>11

\* Of sorted values: the program's area, and all differences.
LEMMA AreaIsOfDifferences ==
  ASSUME NEW n \in Nat, NEW d \in [1 .. n -> Int], Rises(d, n)
  PROVE  /\ Area(d) \in Int /\ Total(d) \in Int
         /\ Differences(d) = 2 * (Area(d) - n * Total(d))
<1> DEFINE Same(m) == \A a \in [1 .. m -> Int] :
             Rises(a, m) => Area(a) \in Int /\ Differences(a) = 2 * (Area(a) - m * Total(a))
           T == {m \in Nat : Same(m)}
<1>1. 0 \in T
  <2> SUFFICES ASSUME NEW a \in [1 .. 0 -> Int]
               PROVE  Area(a) \in Int /\ Differences(a) = 2 * (Area(a) - 0 * Total(a))
    OBVIOUS
  <2>1. Len(a) = 0
    BY SeqOfLength
  <2>2. [i \in 1 .. Len(a) |-> (2 * i - 1) * a[i]] \in [1 .. 0 -> Int]
    BY <2>1
  <2>3. Area(a) = 0
    BY <2>2, TotalOfNone DEF Area
  <2>4. Rows(a, 0) \in [1 .. 0 -> Int] /\ Differences(a) = Total(Rows(a, 0))
    BY RowsAre
  <2>5. Differences(a) = 0 /\ Total(a) = 0
    BY <2>4, TotalOfNone
  <2> QED BY <2>3, <2>5
<1>2. ASSUME NEW m \in T PROVE m + 1 \in T
  <2> SUFFICES Same(m + 1)
    <3> HIDE DEF Same
    <3> QED OBVIOUS
  <2> SUFFICES ASSUME NEW a \in [1 .. m + 1 -> Int], Rises(a, m + 1)
               PROVE  Area(a) \in Int /\ Differences(a) = 2 * (Area(a) - (m + 1) * Total(a))
    BY Zenon
  <2> DEFINE e == Start(a, m)
             x == a[m + 1]
             A == Area(e)
             S == Total(e)
  <2>1. /\ e \in [1 .. m -> Int] /\ x \in Int /\ S \in Int
        /\ Total(a) = S + x
    BY TotalSplits
  <2>2. A \in Int /\ Area(a) = A + (2 * m + 1) * x
    BY AreaSplits
  <2>3. Rises(e, m)
    <3>1. \A i \in 1 .. m : e[i] = a[i] /\ i \in 1 .. m + 1
      BY DEF Start
    <3> HIDE DEF e
    <3> QED BY <3>1 DEF Rises
  <2>4. Differences(e) = 2 * (A - m * S)
    <3> HIDE DEF e
    <3> QED BY <2>1, <2>3
  <2>5. Differences(a) = Differences(e) + 2 * (m * x - S)
    BY DifferencesGrow
  <2> HIDE DEF e, x, A, S
  <2>6. /\ (m + 1) * (S + x) = m * S + S + m * x + x
        /\ (2 * m + 1) * x = 2 * (m * x) + x
        /\ m * S \in Int /\ m * x \in Int
    BY <2>1
  <2>7. Area(a) \in Int
    BY <2>1, <2>2, <2>6
  <2>8. Differences(a) = 2 * (Area(a) - (m + 1) * Total(a))
    BY <2>1, <2>2, <2>4, <2>5, <2>6
  <2> QED BY <2>7, <2>8
<1>3. T = Nat
  <2>1. T \in SUBSET Nat
    OBVIOUS
  <2> HIDE DEF T
  <2> QED BY <1>1, <1>2, <2>1, NatSet
<1>4. n \in T
  <2> HIDE DEF T
  <2> QED BY <1>3
<1> QED BY <1>4, TotalIsInt

-----------------------------------------------------------------------------
(***************************************************************************)
(* The results of a query.                                                 *)
(***************************************************************************)
LEMMA SortedIs ==
  ASSUME NEW n \in Nat, NEW s \in [1 .. n -> Int], NEW client_values,
         \A i \in 1 .. n : client_values[i] = s[i]
  PROVE  \E p \in Bijection(1 .. n, 1 .. n) :
           /\ Sorted(client_values, n) = Ordered(s, p, n)
           /\ Rises(Sorted(client_values, n), n)
<1> DEFINE Orders == {Ordered(client_values, p, n) : p \in Bijection(1 .. n, 1 .. n)}
           data == CHOOSE data \in Orders : Rises(data, n)
<1>1. ASSUME NEW p \in Bijection(1 .. n, 1 .. n)
      PROVE  Ordered(client_values, p, n) = Ordered(s, p, n)
  <2>1. p \in [1 .. n -> 1 .. n]
    BY DEF Bijection, Injection
  <2> QED BY <2>1 DEF Ordered
<1>2. PICK p \in Bijection(1 .. n, 1 .. n) : Rises(Ordered(s, p, n), n)
  BY SortingExists
<1>3. data \in Orders /\ Rises(data, n)
  <2>1. Ordered(client_values, p, n) \in Orders
    OBVIOUS
  <2>2. Rises(Ordered(client_values, p, n), n)
    BY <1>1, <1>2
  <2> HIDE DEF Orders
  <2>3. \E d \in Orders : Rises(d, n)
    BY <2>1, <2>2
  <2> QED BY <2>3
<1>4. Sorted(client_values, n) = data
  BY DEF Sorted, Rises, Ordered
<1> HIDE DEF data
<1>5. PICK q \in Bijection(1 .. n, 1 .. n) : data = Ordered(client_values, q, n)
  BY <1>3
<1> QED BY <1>1, <1>3, <1>4, <1>5

\* What is known of the outputs: the sorted values' figures, then the commitments.
Figures(outputs, client_values, n) ==
  LET data == Sorted(client_values, n)
  IN  /\ outputs[1] = n /\ outputs[2] = data[n]
      /\ outputs[3] = Total(data) /\ outputs[5] = Area(data)

FollowedBy(outputs, coms, M) ==
  DOMAIN outputs = 1 .. 5 + M /\ \A i \in 1 .. M : outputs[i + 5] = coms[i - 1]

ArrayOf(coms, M) == DOMAIN coms = 0 .. M - 1

LEMMA OutputsAre ==
  ASSUME NEW n \in Nat, NEW client_values, NEW M \in Nat, NEW coms,
         NEW outputs \in Outputs(client_values, coms, n), ArrayOf(coms, M)
  PROVE  Figures(outputs, client_values, n) /\ FollowedBy(outputs, coms, M)
<1> DEFINE data == Sorted(client_values, n)
           c == [i \in 1 .. Cardinality(DOMAIN coms) |-> coms[i - 1]]
<1>1. Cardinality(DOMAIN coms) = M
  <2>1. Cardinality(0 .. M - 1) = IF 0 > M - 1 THEN 0 ELSE (M - 1) - 0 + 1
    BY FS_Interval
  <2> QED BY <2>1 DEF ArrayOf
<1>2. PICK median : outputs = <<n, data[n], Total(data), median, Area(data)>> \o c
  BY DEF Outputs
<1> DEFINE a == data[n]
           b == Total(data)
           e == Area(data)
           five == <<n, a, b, median, e>>
           S == {n, a, b, median, e} \cup {c[i] : i \in 1 .. M}
<1>3. c \in Seq(S) /\ Len(c) = M /\ \A i \in 1 .. M : c[i] = coms[i - 1]
  <2>1. c = [i \in 1 .. M |-> coms[i - 1]]
    BY <1>1
  <2> HIDE DEF c
  <2>2. c \in [1 .. M -> S]
    BY <2>1
  <2>3. c \in Seq(S) /\ Len(c) = M
    <3> HIDE DEF S
    <3> QED BY <2>2, SeqOfLength
  <2> QED BY <2>1, <2>3
<1>4. outputs = five \o c
  BY <1>2
<1> HIDE DEF a, b, c, e
<1>5. five \in Seq(S) /\ Len(five) = 5
  OBVIOUS
<1>6. five[1] = n /\ five[2] = a /\ five[3] = b /\ five[5] = e
  OBVIOUS
<1> HIDE DEF five, S
<1>7. /\ DOMAIN outputs = 1 .. 5 + M
      /\ \A i \in 1 .. 5 + M : outputs[i] = IF i <= 5 THEN five[i] ELSE c[i - 5]
  <2>1. /\ five \o c \in Seq(S) /\ Len(five \o c) = Len(five) + Len(c)
        /\ \A i \in 1 .. Len(five) + Len(c) :
             (five \o c)[i] = IF i <= Len(five) THEN five[i] ELSE c[i - Len(five)]
    BY <1>3, <1>5, ConcatProperties
  <2>2. DOMAIN (five \o c) = 1 .. Len(five \o c)
    BY <2>1
  <2> QED BY <2>1, <2>2, <1>3, <1>4, <1>5
<1>8. outputs[1] = n /\ outputs[2] = a /\ outputs[3] = b /\ outputs[5] = e
  BY <1>6, <1>7
<1>9. ASSUME NEW i \in 1 .. M PROVE outputs[i + 5] = coms[i - 1]
  <2>1. i + 5 \in 1 .. 5 + M /\ ~(i + 5 <= 5) /\ (i + 5) - 5 = i
    OBVIOUS
  <2> QED BY <2>1, <1>3, <1>7
<1> QED BY <1>7, <1>8, <1>9 DEF a, b, e, Figures, FollowedBy

\* The figures of a query are those of the values.
Holds(client_values, values, n) ==
  values \in [1 .. n -> Int] /\ \A i \in 1 .. n : client_values[i] = values[i]

LEMMA FiguresAreTrue ==
  ASSUME NEW n \in Nat, NEW values, NEW client_values, Holds(client_values, values, n),
         NEW outputs, Figures(outputs, client_values, n)
  PROVE  IF Total(values) # 0 THEN ResultsOf(StatsResults(outputs), values)
         ELSE StatsResults(outputs).gini_coefficient = [num |-> -1, den |-> 1]
<1> DEFINE data == Sorted(client_values, n)
<1>1. /\ values \in [1 .. n -> Int] /\ \A i \in 1 .. n : client_values[i] = values[i]
      /\ outputs[1] = n /\ outputs[2] = data[n] /\ outputs[3] = Total(data) /\ outputs[5] = Area(data)
  BY DEF Holds, Figures
<1>2. data = Sorted(client_values, n)
  OBVIOUS
<1> HIDE DEF data
<1> DEFINE T == Total(values)
           A == Area(data)
           results == StatsResults(outputs)
<1>3. PICK p \in Bijection(1 .. n, 1 .. n) :
        data = Ordered(values, p, n) /\ Rises(data, n)
  BY <1>1, <1>2, SortedIs
<1>4. p \in [1 .. n -> 1 .. n] /\ \A v \in 1 .. n : \E i \in 1 .. n : p[i] = v
  BY DEF Bijection, Injection, Surjection
<1>5. data \in [1 .. n -> Int] /\ \A i \in 1 .. n : data[i] = values[p[i]]
  BY <1>1, <1>3, <1>4 DEF Ordered
<1>6. Total(data) = T /\ T \in Int
  BY <1>1, <1>3, TotalPermuted, TotalIsInt
<1>7. Differences(data) = Differences(values)
  BY <1>1, <1>3, DifferencesPermuted
<1>8. A \in Int /\ Differences(values) = 2 * (A - n * T)
  BY <1>1, <1>3, <1>5, <1>6, <1>7, AreaIsOfDifferences
<1>9. Len(values) = n /\ DOMAIN values = 1 .. n
  BY <1>1, SeqOfLength
<1> DEFINE gini == safe_div(A, n * T)
<1>10. /\ results.num_data_providers = n /\ results.max = data[n]
      /\ results.mean = safe_div(T, n)
      /\ results.gini_coefficient = [num |-> gini.num - gini.den, den |-> gini.den]
  BY <1>1, <1>6 DEF StatsResults
<1>11. CASE T = 0
  <2>1. n * T = 0
    BY <1>11
  <2>2. gini = [num |-> 0, den |-> 1]
    BY <2>1 DEF safe_div
  <2> QED BY <1>10, <1>11, <2>2
<1>12. CASE T # 0
  <2>1. n > 0
    <3>1. n = 0 => values \in [1 .. 0 -> Int]
      BY <1>1
    <3>2. n = 0 => T = 0
      BY <3>1, TotalOfNone, Zenon
    <3> QED BY <3>2, <1>12
  <2>2. n * T # 0
    BY <2>1, <1>6, <1>12
  <2>3. gini = [num |-> A, den |-> n * T]
    BY <2>2 DEF safe_div
  <2>4. results.gini_coefficient.num = A - n * T /\ results.gini_coefficient.den = n * T
    BY <2>3, <1>10
  <2>5. results.mean.num = T /\ results.mean.den = n
    BY <2>1, <1>10 DEF safe_div
  <2>6. results.max \in ToSet(values) /\ \A i \in 1 .. n : values[i] <= results.max
    <3>1. n \in 1 .. n /\ p[n] \in 1 .. n
      BY <2>1, <1>4
    <3>2. results.max = values[p[n]]
      BY <3>1, <1>5, <1>10
    <3>3. ASSUME NEW i \in 1 .. n PROVE values[i] <= results.max
      <4>1. PICK j \in 1 .. n : p[j] = i
        BY <1>4
      <4>2. j \in 1 .. n /\ j <= n /\ data[j] = values[p[j]]
        BY <1>5
      <4>3. data[j] <= data[n]
        BY <3>1, <4>2, <1>3 DEF Rises
      <4> QED BY <4>1, <4>2, <4>3, <1>10
    <3> QED BY <3>1, <3>2, <3>3, <1>9 DEF ToSet
  <2>7. results.gini_coefficient.num * 2 * Len(values) * Total(values)
          = results.gini_coefficient.den * Differences(values)
    <3> DEFINE g == results.gini_coefficient.num
               h == results.gini_coefficient.den
               D == Differences(values)
    <3>1. g = A - n * T /\ h = n * T /\ D = 2 * (A - n * T) /\ Len(values) = n
          /\ A \in Int /\ T \in Int
      BY <2>4, <1>6, <1>8, <1>9
    <3> HIDE DEF g, h, D, A, T
    <3>2. n * T \in Int
      BY <3>1
    <3>3. g \in Int /\ h \in Int /\ D = 2 * g
      BY <3>1, <3>2
    <3>4. g * 2 * n * T = (2 * g) * (n * T)
      BY <3>1, <3>3
    <3>5. (2 * g) * (n * T) = (n * T) * (2 * g)
      BY <3>2, <3>3
    <3>6. g * 2 * Len(values) * T = h * D
      BY <3>1, <3>3, <3>4, <3>5
    <3> QED BY <3>6 DEF g, h, D, T
  <2> HIDE DEF results
  <2>8. ResultsOf(results, values)
    BY <2>4, <2>5, <2>6, <2>7, <1>9, <1>10 DEF ResultsOf
  <2> QED BY <2>8, <1>12 DEF results
<1> QED BY <1>11, <1>12

\* How large they can be.
LEMMA FiguresAreBounded ==
  ASSUME NEW V \in Nat, NEW n \in Nat, n > 0, NEW values \in [1 .. n -> 0 .. V],
         NEW client_values, Holds(client_values, values, n),
         NEW outputs, Figures(outputs, client_values, n)
  PROVE  /\ outputs[1] = n
         /\ outputs[2] \in Nat /\ outputs[2] <= V
         /\ outputs[3] \in Nat /\ outputs[3] <= n * V
         /\ outputs[5] \in Nat /\ outputs[5] <= (n * n) * V
<1> DEFINE data == Sorted(client_values, n)
<1>1. /\ values \in [1 .. n -> Int] /\ \A i \in 1 .. n : client_values[i] = values[i]
      /\ outputs[1] = n /\ outputs[2] = data[n] /\ outputs[3] = Total(data) /\ outputs[5] = Area(data)
  BY DEF Holds, Figures
<1>2. PICK p \in Bijection(1 .. n, 1 .. n) : data = Ordered(values, p, n)
  BY <1>1, SortedIs
<1>3. p \in [1 .. n -> 1 .. n]
  BY DEF Bijection, Injection
<1> HIDE DEF data
<1>4. data \in [1 .. n -> 0 .. V]
  BY <1>2, <1>3 DEF Ordered
<1>5. data[n] \in Nat /\ data[n] <= V
  BY <1>4
<1> QED BY <1>1, <1>4, <1>5, SumsAreBounded

\* A hash of which the last byte is not zero comes back as it was.
LEMMA HashArrives ==
  ASSUME NEW hash \in [1 .. Width -> Bytes], hash[Width] # 0
  PROVE  /\ reverse_bytes(hex_to_int(Reverse(hash))) = hex_to_int(hash)
         /\ hex_to_int(hash) # 0
<1> DEFINE b == Reverse(hash)
           n == hex_to_int(b)
           k == ByteLength(n)
<1>1. Width \in Nat /\ Width > 0 /\ Base \in Nat /\ Base > 0 /\ 1 \in 1 .. Width /\ Width \in 1 .. Width
  BY EncodingsAssumption
<1>2. /\ b \in Seq(Bytes) /\ Len(b) = Width
      /\ \A i \in 1 .. Width : b[i] = hash[Width + 1 - i]
  BY <1>1, Turned
<1>3. hash \in Seq(Bytes) /\ Len(hash) = Width
  BY <1>1, SeqOfLength
<1>4. b[1] # 0
  BY <1>1, <1>2
<1>5. ASSUME NEW bytes \in Seq(Bytes), Len(bytes) = Width, NEW i \in 1 .. Width, bytes[i] # 0
      PROVE  hex_to_int(bytes) \in Nat /\ hex_to_int(bytes) # 0
  <2>1. /\ hex_to_int(bytes) \in Nat
        /\ (hex_to_int(bytes) \div Power(Base, Width - i)) % Base = bytes[i]
    BY <1>5, HexDigits
  <2>2. Width - i \in Nat
    BY <1>1
  <2>3. Power(Base, Width - i) \in Nat /\ Power(Base, Width - i) > 0
    BY <2>2, PowersOfBase
  <2>4. 0 \div Power(Base, Width - i) = 0
    BY <2>3, SmallQuotient
  <2>5. 0 % Base = 0
    BY <1>1
  <2> QED BY <2>1, <2>4, <2>5, <1>5
<1>6. n \in Nat /\ n # 0 /\ hex_to_int(hash) # 0
  BY <1>1, <1>2, <1>3, <1>4, <1>5
<1>7. k = Width /\ ToBytes(n) = [i \in 1 .. k |-> b[Width - k + i]]
  <2> HIDE DEF b
  <2> QED BY <1>2, <1>4, <1>6, BytesOf
<1>8. Reverse(ToBytes(n)) = hash
  <2>1. ToBytes(n) = [i \in 1 .. Width |-> b[i]]
    <3>1. \A i \in 1 .. Width : Width - Width + i = i
      BY <1>1
    <3> HIDE DEF b, n, k
    <3> QED BY <3>1, <1>7
  <2> DEFINE c == [i \in 1 .. Width |-> b[i]]
  <2>2. c \in [1 .. Width -> Bytes]
    <3> HIDE DEF b
    <3> QED BY <1>2
  <2>3. Len(c) = Width
    <3> HIDE DEF c
    <3> QED BY <2>2, <1>1, SeqOfLength
  <2>4. \A i \in 1 .. Width : (Width - i) + 1 \in 1 .. Width /\ Width + 1 - ((Width - i) + 1) = i
    BY <1>1
  <2>5. Reverse(c) = [i \in 1 .. Width |-> c[(Width - i) + 1]]
    <3> HIDE DEF c
    <3> QED BY <2>3 DEF Reverse
  <2>6. \A i \in 1 .. Width : c[(Width - i) + 1] = hash[i]
    <3> HIDE DEF b
    <3> QED BY <2>4, <1>2
  <2> HIDE DEF c, b, n
  <2>7. Reverse(c) = hash
    BY <2>5, <2>6
  <2> QED BY <2>1, <2>7 DEF c
<1> QED BY <1>6, <1>8 DEF reverse_bytes

-----------------------------------------------------------------------------
(***************************************************************************)
(* The text of a number.                                                   *)
(***************************************************************************)
LEMMA PowersOfNibble ==
  /\ Power(Nibble, 0) = 1
  /\ \A k \in Nat : /\ Power(Nibble, k) \in Nat /\ Power(Nibble, k) > 0
                    /\ Power(Nibble, k + 1) = Nibble * Power(Nibble, k)
                    /\ Power(Nibble, 2 * k) = Power(Base, k)
                    /\ Power(Nibble, 2 * k + 1) = Nibble * Power(Base, k)
<1> DEFINE Q(k) == Power(Nibble, k)
           P(k) == Power(Base, k)
           T == {k \in Nat : Q(2 * k) = P(k)}
<1>1. Nibble \in Nat /\ Nibble > 0 /\ Base = Nibble * Nibble
  BY EncodingsAssumption
<1>2. Q(0) = 1 /\ \A k \in Nat : Q(k) \in Nat /\ Q(k) > 0 /\ Q(k + 1) = Nibble * Q(k)
  BY <1>1, PowerIs, PowerIsPositive
<1>3. P(0) = 1 /\ \A k \in Nat : P(k) \in Nat /\ P(k + 1) = Base * P(k)
  BY PowersOfBase
<1> HIDE DEF P, Q
<1>4. 0 \in T
  BY <1>2, <1>3
<1>5. ASSUME NEW k \in T PROVE k + 1 \in T
  <2>1. 2 * k \in Nat /\ 2 * k + 1 \in Nat /\ 2 * (k + 1) = (2 * k + 1) + 1
    OBVIOUS
  <2> DEFINE x == P(k)
  <2>2. x \in Nat /\ Q(2 * k) = x /\ P(k + 1) = Base * x
    BY <1>3
  <2>3. Q(2 * k + 1) = Nibble * x /\ Q(2 * (k + 1)) = Nibble * (Nibble * x)
    BY <2>1, <2>2, <1>2
  <2> HIDE DEF x
  <2>4. Nibble * (Nibble * x) = Base * x
    BY <2>2, <1>1
  <2> QED BY <2>2, <2>3, <2>4
<1>6. T = Nat
  <2>1. T \in SUBSET Nat
    OBVIOUS
  <2> HIDE DEF T
  <2> QED BY <1>4, <1>5, <2>1, NatSet
<1>7. ASSUME NEW k \in Nat PROVE Q(2 * k) = P(k) /\ Q(2 * k + 1) = Nibble * P(k)
  <2>1. k \in T
    <3> HIDE DEF T
    <3> QED BY <1>6
  <2>2. 2 * k \in Nat
    OBVIOUS
  <2> QED BY <2>1, <2>2, <1>2
<1> QED BY <1>2, <1>7 DEF P, Q

\* The two digits of a byte within a larger number.
LEMMA DigitsOfByte ==
  ASSUME NEW x \in Nat, NEW b \in Nat, b > 0
  PROVE  (x % (b * b)) % b = x % b /\ (x \div b) % b = (x % (b * b)) \div b
<1> DEFINE d == b * b
           q == x \div d
           r == x % d
           t == r \div b
           u == r % b
<1>1. d \in Nat /\ d > 0
  OBVIOUS
<1>2. x = d * q + r /\ q \in Nat /\ r \in Nat
  <2> HIDE DEF d
  <2> QED BY <1>1, DivRest
<1>3. r = b * t + u /\ t \in Nat /\ u \in Nat /\ u < b
  <2> HIDE DEF r
  <2> QED BY <1>2, DivRest
<1> HIDE DEF q, r, t, u
<1>4. x = b * (b * q + t) + u /\ b * q + t \in Nat
  <2>1. (b * b) * q = b * (b * q)
    BY <1>2
  <2>2. b * (b * q + t) = b * (b * q) + b * t
    BY <1>2, <1>3
  <2> QED BY <2>1, <2>2, <1>2, <1>3
<1>5. x % b = u
  <2> DEFINE k == b * q + t
  <2>1. k \in Nat /\ x = b * k + u
    BY <1>4
  <2> HIDE DEF k
  <2> QED BY <2>1, <1>3, DivIs
<1>6. (x \div b) % b = (x % (b * b)) \div b
  BY ModDiv
<1> QED BY <1>5, <1>6 DEF u, r

\* A number has all 2 * Width digits unless it is too small for the first one.
LEMMA FullLength ==
  ASSUME NEW n \in Nat, n < Power(Base, Width)
  PROVE  /\ HexLength(n) \in Nat
         /\ HexLength(n) = 2 * Width <=> Nibble * Power(Base, Width - 1) <= n
<1> DEFINE Q(k) == Power(Nibble, k)
           L == HexLength(n)
           M == 2 * Width
<1>1. /\ Width \in Nat /\ Width > 0 /\ Nibble \in Nat /\ Nibble > 0
      /\ Width - 1 \in Nat /\ M \in Nat /\ M > 1 /\ 2 * (Width - 1) + 1 = M - 1
  BY EncodingsAssumption
<1>2. /\ \A k \in Nat : Q(k) \in Nat /\ Q(k) > 0
      /\ Q(M) = Power(Base, Width) /\ Q(M - 1) = Nibble * Power(Base, Width - 1)
  BY <1>1, PowersOfNibble
<1>3. \A j, k \in Nat : j <= k => Q(j) <= Q(k)
  BY <1>1, PowersGrowIn
<1> HIDE DEF Q
<1>4. CASE n = 0
  <2>1. L = 1
    BY <1>4 DEF HexLength, NumeralLength
  <2>2. M - 1 \in Nat /\ Q(M - 1) > 0
    BY <1>1, <1>2
  <2> HIDE DEF L, M
  <2> QED BY <2>1, <2>2, <1>1, <1>2, <1>4 DEF L, M
<1>5. CASE n # 0
  <2>1. n > 0 /\ n < Q(M)
    BY <1>2, <1>5
  <2>2. L \in 1 .. M /\ Q(L - 1) <= n /\ n < Q(L)
    <3> HIDE DEF M
    <3>1. L = NumeralLength(n, Nibble, M)
      BY DEF HexLength, M
    <3> QED BY <3>1, <2>1, <1>1, LengthIn DEF Q
  <2> HIDE DEF L, M
  <2>3. L \in Nat /\ L - 1 \in Nat /\ M - 1 \in Nat
    BY <2>2, <1>1
  <2>4. CASE L = M
    BY <2>2, <2>4, <1>2 DEF L, M
  <2>5. CASE L # M
    <3>1. L <= M - 1
      BY <2>2, <2>5, <1>1
    <3>2. Q(L) <= Q(M - 1) /\ Q(L) \in Nat /\ Q(M - 1) \in Nat
      BY <2>3, <3>1, <1>2, <1>3
    <3>3. ~(Q(M - 1) <= n)
      BY <3>2, <2>2
    <3> QED BY <3>3, <2>3, <2>5, <1>2 DEF L, M
  <2> QED BY <2>3, <2>4, <2>5 DEF L, M
<1> QED BY <1>4, <1>5

\* The first byte tells whether a number is large enough.
LEMMA FirstByte ==
  ASSUME NEW bytes \in Seq(Bytes), Len(bytes) = Width
  PROVE  bytes[1] >= Nibble <=> Nibble * Power(Base, Width - 1) <= hex_to_int(bytes)
<1> DEFINE n == hex_to_int(bytes)
           p == Power(Base, Width - 1)
           q == n \div p
           r == n % p
<1>1. /\ Width \in Nat /\ Width > 0 /\ Base \in Nat /\ Base > 0 /\ Nibble \in Nat
      /\ Width - 1 \in Nat /\ (Width - 1) + 1 = Width /\ 1 \in 1 .. Width
  BY EncodingsAssumption
<1>2. p \in Nat /\ p > 0 /\ Power(Base, Width) = Base * p
  BY <1>1, PowersOfBase
<1>3. n \in Nat /\ n < Base * p /\ q % Base = bytes[1]
  BY <1>1, <1>2, HexDigits
<1> HIDE DEF n, p
<1>4. n = p * q + r /\ q \in Nat /\ r \in Nat /\ r < p
  BY <1>2, <1>3, DivRest
<1> HIDE DEF q, r
<1>5. q < Base
  <2>1. CASE q >= Base
    <3>1. p * q >= p * Base
      BY <2>1, <1>1, <1>2, <1>4
    <3>2. p * Base = Base * p
      BY <1>1, <1>2
    <3> QED BY <3>1, <3>2, <1>1, <1>2, <1>3, <1>4
  <2> QED BY <2>1, <1>1, <1>4
<1>6. q = bytes[1]
  BY <1>1, <1>3, <1>4, <1>5
<1>7. CASE q >= Nibble
  <2>1. Nibble * p <= p * q
    <3>1. p * Nibble <= p * q
      BY <1>1, <1>2, <1>4, <1>7
    <3>2. p * Nibble = Nibble * p
      BY <1>1, <1>2
    <3> QED BY <3>1, <3>2
  <2>2. p * q \in Nat /\ Nibble * p \in Nat
    BY <1>1, <1>2, <1>4
  <2> QED BY <2>1, <2>2, <1>4, <1>6, <1>7 DEF n, p
<1>8. CASE q < Nibble
  <2>1. p * (q + 1) <= p * Nibble
    BY <1>1, <1>2, <1>4, <1>8
  <2>2. p * (q + 1) = p * q + p /\ p * Nibble = Nibble * p /\ p * q \in Nat /\ Nibble * p \in Nat
    BY <1>1, <1>2, <1>4
  <2>3. n < Nibble * p
    BY <2>1, <2>2, <1>2, <1>4
  <2>4. ~(q >= Nibble)
    BY <1>1, <1>4, <1>8
  <2> QED BY <2>2, <2>3, <2>4, <1>3, <1>6 DEF n, p
<1> QED BY <1>1, <1>4, <1>7, <1>8

\* A number whose first digit is not zero has the text of its bytes.
LEMMA FullText ==
  ASSUME NEW bytes \in Seq(Bytes), Len(bytes) = Width, HexLength(hex_to_int(bytes)) = 2 * Width
  PROVE  hex(hex_to_int(bytes)) = TextOf(bytes)
<1> DEFINE n == hex_to_int(bytes)
           M == 2 * Width
           digit(i) == (n \div Power(Nibble, M - i)) % Nibble
           half(i) == IF i % 2 = 1 THEN bytes[(i + 1) \div 2] \div Nibble ELSE bytes[i \div 2] % Nibble
<1>1. Width \in Nat /\ Width > 0 /\ Nibble \in Nat /\ Nibble > 0 /\ Base = Nibble * Nibble /\ M \in Nat
  BY EncodingsAssumption
<1>2. n \in Nat /\ \A m \in 1 .. Width : (n \div Power(Base, Width - m)) % Base = bytes[m]
  BY HexDigits
<1>3. hex(n) = [i \in 1 .. M |-> digit(i)]
  BY DEF hex
<1>4. TextOf(bytes) = [i \in 1 .. M |-> half(i)]
  BY DEF TextOf
<1>5. ASSUME NEW i \in 1 .. M PROVE digit(i) = half(i)
  <2>1. PICK m \in 1 .. Width : i = 2 * m \/ i = 2 * m - 1
    <3>1. i % 2 = 0 \/ i % 2 = 1
      BY <1>1
    <3>2. CASE i % 2 = 0
      <4>1. i \div 2 \in 1 .. Width /\ i = 2 * (i \div 2)
        BY <3>2, <1>1
      <4> QED BY <4>1
    <3>3. CASE i % 2 = 1
      <4>1. (i + 1) \div 2 \in 1 .. Width /\ i = 2 * ((i + 1) \div 2) - 1
        BY <3>3, <1>1
      <4> QED BY <4>1
    <3> QED BY <3>1, <3>2, <3>3
  <2> DEFINE k == Width - m
             p == Power(Base, k)
             x == n \div p
  <2>2. k \in Nat /\ p \in Nat /\ p > 0
    <3>1. k \in Nat
      BY <1>1
    <3> HIDE DEF k
    <3> QED BY <3>1, PowersOfBase
  <2>3. Power(Nibble, 2 * k) = p /\ Power(Nibble, 2 * k + 1) = Nibble * p
    BY <2>2, PowersOfNibble
  <2>4. x % Base = bytes[m]
    BY <1>2
  <2>5. x \in Nat
    <3> HIDE DEF n, p
    <3> QED BY <2>2, <1>2, DivRest
  <2>6. x % Nibble = bytes[m] % Nibble /\ (x \div Nibble) % Nibble = bytes[m] \div Nibble
    <3> HIDE DEF x
    <3>1. x % (Nibble * Nibble) = bytes[m]
      BY <2>4, <1>1
    <3> QED BY <3>1, <2>5, <1>1, DigitsOfByte
  <2>7. CASE i = 2 * m
    <3>1. M - i = 2 * k /\ i % 2 # 1 /\ i \div 2 = m
      BY <2>7, <1>1
    <3>2. digit(i) = x % Nibble
      BY <3>1, <2>3
    <3> HIDE DEF digit, x
    <3> QED BY <3>1, <3>2, <2>6
  <2>8. CASE i = 2 * m - 1
    <3>1. M - i = 2 * k + 1 /\ i % 2 = 1 /\ (i + 1) \div 2 = m
      BY <2>8, <1>1
    <3>2. n \div (Nibble * p) = x \div Nibble
      <4> HIDE DEF n, p
      <4>1. Nibble * p = p * Nibble
        BY <2>2, <1>1
      <4>2. n \div (p * Nibble) = (n \div p) \div Nibble
        BY <2>2, <1>1, <1>2, DivDiv
      <4> QED BY <4>1, <4>2
    <3>3. digit(i) = (x \div Nibble) % Nibble
      <4> HIDE DEF n, x, p
      <4> QED BY <3>1, <3>2, <2>3
    <3> HIDE DEF digit, x
    <3> QED BY <3>1, <3>3, <2>6
  <2> QED BY <2>1, <2>7, <2>8
<1> HIDE DEF digit, half, n, M
<1>6. hex(n) = TextOf(bytes)
  BY <1>3, <1>4, <1>5
<1> QED BY <1>6 DEF n

\* What ends with a zero byte is one byte shorter at least when it has come back.
LEMMA LastByteLost ==
  ASSUME NEW hash \in [1 .. Width -> Bytes], hash[Width] = 0
  PROVE  LET n == reverse_bytes(hex_to_int(Reverse(hash)))
         IN  n \in Nat /\ n < Nibble * Power(Base, Width - 1)
<1> DEFINE b == Reverse(hash)
           v == hex_to_int(b)
           k == ByteLength(v)
           c == ToBytes(v)
           n == hex_to_int(Reverse(c))
<1>1. /\ Width \in Nat /\ Width > 0 /\ Base \in Nat /\ Base > 0 /\ Nibble \in Nat /\ Nibble > 0
      /\ Width - 1 \in Nat /\ 1 \in 1 .. Width
  BY EncodingsAssumption
<1>2. b \in Seq(Bytes) /\ Len(b) = Width /\ b[1] = 0
  <2>1. b \in Seq(Bytes) /\ Len(b) = Width /\ b[1] = hash[Width + 1 - 1]
    BY <1>1, Turned
  <2>2. Width + 1 - 1 = Width
    BY <1>1
  <2> QED BY <2>1, <2>2
<1>3. k \in 1 .. Width /\ c \in [1 .. k -> Bytes]
  <2> HIDE DEF b
  <2> QED BY <1>2, BytesAre
<1>4. n \in Nat /\ n < Power(Base, k)
  <2> HIDE DEF c, k
  <2> QED BY <1>3, ReversedNumber
<1>5. \A i \in Nat : Power(Base, i) \in Nat /\ Power(Base, i) > 0
  BY PowersOfBase
<1>6. CASE v = 0
  <2>1. k = 1 /\ c = [i \in 1 .. 1 |-> 0]
    BY <1>6, BytesOfZero
  <2>2. n = 0
    <3> DEFINE zero == [i \in 1 .. 1 |-> 0]
               r == Reverse(zero)
    <3>1. 0 \in Bytes
      BY <1>1 DEF Bytes
    <3>2. zero \in [1 .. 1 -> Bytes] /\ zero[1] = 0
      BY <3>1
    <3> HIDE DEF zero
    <3>3. r \in Seq(Bytes) /\ Len(r) = 1 /\ r[1] = zero[1 + 1 - 1]
      <4>1. \A j \in Nat : \A d \in [1 .. j -> Bytes] :
              /\ Reverse(d) \in Seq(Bytes) /\ Len(Reverse(d)) = j
              /\ \A i \in 1 .. j : Reverse(d)[i] = d[j + 1 - i]
        BY Turned
      <4>2. 1 \in Nat /\ 1 \in 1 .. 1
        OBVIOUS
      <4> QED BY <4>1, <4>2, <3>2
    <3> HIDE DEF r
    <3> DEFINE z == hex_to_int(r)
    <3>4. /\ z \in Nat /\ z < Power(Base, 1) /\ (z \div Power(Base, 1 - 1)) % Base = r[1]
      BY <3>3, HexDigits
    <3>5. Power(Base, 1 - 1) = 1 /\ Power(Base, 1) = Base
      <4>1. Power(Base, 0) = 1 /\ Power(Base, 0 + 1) = Base * Power(Base, 0)
        BY PowersOfBase
      <4> QED BY <4>1, <1>1
    <3> HIDE DEF z
    <3>6. z = 0
      <4>1. z \div 1 = z
        BY <3>4
      <4>2. z % Base = z
        BY <3>4, <3>5, <1>1
      <4> QED BY <4>1, <4>2, <3>2, <3>3, <3>4, <3>5
    <3>7. n = z
      BY <2>1 DEF z, r, zero
    <3> QED BY <3>6, <3>7
  <2>3. Power(Base, Width - 1) \in Nat /\ Power(Base, Width - 1) > 0
    BY <1>1, <1>5
  <2> HIDE DEF n
  <2> QED BY <2>2, <2>3, <1>1 DEF n, reverse_bytes
<1>7. CASE v # 0
  <2>1. v \in Nat
    <3> HIDE DEF b
    <3> QED BY <1>2, HexDigits
  <2>2. k # Width
    <3> HIDE DEF b
    <3>1. v > 0
      BY <2>1, <1>7
    <3> QED BY <3>1, <1>2, BytesOf
  <2>3. k \in Nat /\ k <= Width - 1
    BY <2>2, <1>1, <1>3
  <2>4. Power(Base, k) \in Nat /\ Power(Base, k) <= Power(Base, Width - 1)
    <3> HIDE DEF k
    <3> QED BY <2>3, <1>1, <1>5, PowersGrow
  <2> DEFINE p == Power(Base, Width - 1)
  <2>5. p \in Nat
    BY <1>1, <1>5
  <2> HIDE DEF n, k, p
  <2>6. p <= Nibble * p
    BY <2>5, <1>1
  <2>7. Nibble * p \in Nat
    BY <2>5, <1>1
  <2>8. n < Nibble * p
    BY <2>4, <2>5, <2>6, <2>7, <1>4 DEF p
  <2> QED BY <2>8, <1>4 DEF n, p, reverse_bytes
<1> QED BY <1>6, <1>7

\* Its text comes back if and only if it has two digits for each byte, and the
\* last of these counts when it is turned around.
LEMMA TextComesBack ==
  ASSUME NEW hash \in [1 .. Width -> Bytes], NEW text,
         text = hex(reverse_bytes(hex_to_int(Reverse(hash))))
  PROVE  (text # EMPTY_COMMITMENT /\ text = TextOf(hash))
           <=> (hash[1] >= Nibble /\ hash[Width] # 0)
<1> DEFINE n == reverse_bytes(hex_to_int(Reverse(hash)))
           p == Nibble * Power(Base, Width - 1)
<1>1. Width \in Nat /\ Width > 0 /\ 2 * Width \in Nat /\ 2 * Width > 1
  BY EncodingsAssumption
<1>2. hash \in Seq(Bytes) /\ Len(hash) = Width
  BY <1>1, SeqOfLength
<1>3. /\ Len(TextOf(hash)) = 2 * Width
      /\ HexLength(n) \in Nat => Len(hex(n)) = HexLength(n)
  BY <1>1, <1>2 DEF TextOf, hex
<1>4. Len(EMPTY_COMMITMENT) = 1
  BY DEF EMPTY_COMMITMENT
<1>5. n \in Nat /\ n < Power(Base, Width)
  <2> DEFINE b == Reverse(hash)
             v == hex_to_int(b)
             k == ByteLength(v)
  <2>1. b \in Seq(Bytes) /\ Len(b) = Width
    BY <1>1, Turned
  <2>2. k \in 1 .. Width /\ ToBytes(v) \in [1 .. k -> Bytes]
    <3> HIDE DEF b
    <3> QED BY <2>1, BytesAre
  <2>3. n \in Nat /\ n < Power(Base, k)
    <3> DEFINE c == ToBytes(v)
    <3>1. n = hex_to_int(Reverse(c))
      BY DEF reverse_bytes
    <3> HIDE DEF c, k, n
    <3> QED BY <3>1, <2>2, ReversedNumber DEF c
  <2>4. k \in Nat /\ k <= Width
    BY <2>2, <1>1
  <2> HIDE DEF k, n
  <2>5. Power(Base, k) \in Nat /\ Power(Base, Width) \in Nat /\ Power(Base, k) <= Power(Base, Width)
    BY <2>4, <1>1, PowersOfBase, PowersGrow
  <2> QED BY <2>3, <2>5
<1>6. HexLength(n) \in Nat /\ (HexLength(n) = 2 * Width <=> p <= n)
  <2> HIDE DEF n
  <2> QED BY <1>5, FullLength
<1>7. CASE hash[Width] = 0
  <2>1. n < p
    BY <1>7, LastByteLost
  <2>2. p \in Nat
    <3>1. Width - 1 \in Nat /\ Nibble \in Nat
      BY EncodingsAssumption
    <3>2. Power(Base, Width - 1) \in Nat
      BY <3>1, PowersOfBase
    <3> QED BY <3>1, <3>2
  <2> HIDE DEF n, p
  <2>3. HexLength(n) # 2 * Width
    BY <2>1, <2>2, <1>5, <1>6
  <2>4. Len(text) # Len(TextOf(hash))
    BY <2>3, <1>3, <1>6 DEF n
  <2> QED BY <2>4, <1>7
<1>8. CASE hash[Width] # 0
  <2>1. n = hex_to_int(hash)
    BY <1>8, HashArrives
  <2>2. hash[1] >= Nibble <=> HexLength(n) = 2 * Width
    <3> HIDE DEF n
    <3>1. hash[1] >= Nibble <=> p <= n
      BY <2>1, <1>2, FirstByte
    <3> QED BY <3>1, <1>6
  <2>3. ASSUME HexLength(n) = 2 * Width PROVE text # EMPTY_COMMITMENT /\ text = TextOf(hash)
    <3>1. text = TextOf(hash)
      <4> HIDE DEF n
      <4>1. hex(n) = TextOf(hash)
        BY <2>1, <2>3, <1>2, FullText
      <4> QED BY <4>1 DEF n
    <3>2. Len(text) # Len(EMPTY_COMMITMENT)
      BY <3>1, <1>1, <1>3, <1>4
    <3> QED BY <3>1, <3>2
  <2>4. ASSUME HexLength(n) # 2 * Width PROVE text # TextOf(hash)
    <3> HIDE DEF n
    <3>1. Len(text) # Len(TextOf(hash))
      BY <2>4, <1>3, <1>6 DEF n
    <3> QED BY <3>1
  <2> QED BY <2>2, <2>3, <2>4, <1>8
<1> QED BY <1>7, <1>8
=============================================================================
