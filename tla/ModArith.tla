------------------------------ MODULE ModArith ------------------------------
(***************************************************************************)
(* Lemmas on the remainder modulo a positive number, for positions in a    *)
(* ring: the slot of stream position x in a ring of N slots is x % N.      *)
(***************************************************************************)
EXTENDS Integers, TLAPS

\* A multiple of N strictly between -N and N is zero.
LEMMA SmallMultiple ==
    ASSUME NEW N \in Nat \ {0}, NEW q \in Int, -N < N * q, N * q < N
    PROVE  q = 0
<1>1. CASE q >= 1
  <2>1. N * q >= N
    BY <1>1, SMT
  <2> QED BY <2>1
<1>2. CASE q <= -1
  <2>1. N * q <= -N
    BY <1>2, SMT
  <2> QED BY <2>1
<1> QED BY <1>1, <1>2

\* A slot is a number below N.
LEMMA ModRange ==
    ASSUME NEW N \in Nat \ {0}, NEW x \in Int
    PROVE  (x % N) \in 0 .. N - 1
BY SMT

\* Division with remainder.
LEMMA ModDiv ==
    ASSUME NEW N \in Nat \ {0}, NEW x \in Int
    PROVE  x \div N \in Int /\ x = N * (x \div N) + (x % N)
BY SMT

\* The remainder is the only number below N that differs from x by a multiple.
LEMMA ModUnique ==
    ASSUME NEW N \in Nat \ {0}, NEW x \in Int, NEW q \in Int,
           NEW r \in 0 .. N - 1, x = N * q + r
    PROVE  (x % N) = r
<1> DEFINE p == x \div N
<1>1. p \in Int /\ x = N * p + (x % N)
  BY ModDiv
<1>2. (x % N) \in 0 .. N - 1
  BY ModRange
<1>3. N * (p - q) = N * p - N * q
  BY <1>1, SMT
<1>4. p - q = 0
  <2> HIDE DEF p
  <2>1. -N < N * (p - q) /\ N * (p - q) < N
    BY <1>1, <1>2, <1>3
  <2> QED BY <2>1, <1>1, SmallMultiple
<1> QED BY <1>1, <1>3, <1>4

\* Positions less than N apart have different slots.
LEMMA ModInjective ==
    ASSUME NEW N \in Nat \ {0}, NEW x \in Int, NEW y \in Int,
           x <= y, y < x + N, (x % N) = (y % N)
    PROVE  x = y
<1> DEFINE p == x \div N
           q == y \div N
<1>1. p \in Int /\ x = N * p + (x % N)
  BY ModDiv
<1>2. q \in Int /\ y = N * q + (y % N)
  BY ModDiv
<1>3. (x % N) \in 0 .. N - 1
  BY ModRange
<1>4. N * (q - p) = N * q - N * p
  BY <1>1, <1>2, SMT
<1>5. q - p = 0
  <2> HIDE DEF p, q
  <2>1. -N < N * (q - p) /\ N * (q - p) < N
    BY <1>1, <1>2, <1>3, <1>4
  <2> QED BY <2>1, <1>1, <1>2, SmallMultiple
<1> QED BY <1>1, <1>2, <1>3, <1>5

\* Advancing a slot by n is advancing its position by n.
LEMMA ModAdd ==
    ASSUME NEW N \in Nat \ {0}, NEW x \in Int, NEW n \in Int
    PROVE  ((x % N) + n) % N = (x + n) % N
<1> DEFINE p == x \div N
           y == x + n
           q == y \div N
<1>1. p \in Int /\ x = N * p + (x % N)
  BY ModDiv
<1>2. q \in Int /\ y = N * q + (y % N)
  BY ModDiv
<1>3. (y % N) \in 0 .. N - 1 /\ (x % N) \in 0 .. N - 1
  BY ModRange
<1>4. N * (q - p) = N * q - N * p
  BY <1>1, <1>2, SMT
<1>5. (x % N) + n = N * (q - p) + (y % N)
  BY <1>1, <1>2, <1>3, <1>4
<1>6. (x % N) + n \in Int /\ q - p \in Int
  BY <1>1, <1>2, <1>3
<1> HIDE DEF p, q, y
<1>7. ((x % N) + n) % N = (y % N)
  BY <1>3, <1>5, <1>6, ModUnique
<1> QED BY <1>7 DEF y

\* The distance of two slots, masked, is the distance of their positions.
LEMMA ModDistance ==
    ASSUME NEW N \in Nat \ {0}, NEW x \in Int, NEW y \in Int,
           x <= y, y < x + N
    PROVE  ((y % N) - (x % N)) % N = y - x
<1> DEFINE p == x \div N
           q == y \div N
<1>1. p \in Int /\ x = N * p + (x % N)
  BY ModDiv
<1>2. q \in Int /\ y = N * q + (y % N)
  BY ModDiv
<1>3. (x % N) \in 0 .. N - 1 /\ (y % N) \in 0 .. N - 1
  BY ModRange
<1> HIDE DEF p, q
<1>4. N * (p - q) = N * p - N * q
  BY <1>1, <1>2, SMT
<1>5. (y % N) - (x % N) = N * (p - q) + (y - x)
  BY <1>1, <1>2, <1>3, <1>4
<1>6. (y % N) - (x % N) \in Int /\ p - q \in Int /\ y - x \in 0 .. N - 1
  BY <1>1, <1>2, <1>3
<1> QED BY <1>5, <1>6, ModUnique
=============================================================================
