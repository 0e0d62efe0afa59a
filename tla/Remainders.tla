----------------------------- MODULE Remainders -----------------------------
(***************************************************************************)
(* The arithmetic behind slot numbers, which are remainders by the         *)
(* capacity, and behind fixed-width integers, where wrapping is one.       *)
(***************************************************************************)
EXTENDS Integers, TLAPS

(* A remainder is below the modulus, and a small number is its own.        *)
LEMMA Remainder ==
    ASSUME NEW x \in Nat, NEW u \in Nat, u > 0
    PROVE  x % u \in Nat /\ x % u < u /\ (x < u => x % u = x)
<1>1. x % u \in Nat /\ x % u < u
    OBVIOUS
<1>2. ASSUME x < u PROVE x % u = x
  <2> DEFINE q == x \div u
             m == x % u
  <2>1. x = u * q + m /\ q \in Int /\ m \in Int /\ 0 <= m /\ m < u
      OBVIOUS
  <2>2. q >= 0
      OBVIOUS
  <2> HIDE DEF q, m
  <2>3. CASE q >= 1
    <3>1. u * q = u + u * (q - 1) /\ u * (q - 1) >= 0
        BY <2>1, <2>3
    <3>2. u * q \in Int /\ u * (q - 1) \in Int
        BY <2>1
    <3> QED
        BY <3>1, <3>2, <2>1, <1>2
  <2>4. CASE q = 0
      BY <2>1, <2>4 DEF m
  <2> QED
      BY <2>1, <2>2, <2>3, <2>4
<1> QED
    BY <1>1, <1>2

(* Two numbers less than the modulus apart have different remainders: two  *)
(* indices of a ring that are live at once are in different slots.         *)
LEMMA RemaindersDistinct ==
    ASSUME NEW u \in Nat, u > 0, NEW i \in Nat, NEW j \in Nat, i < j, j - i < u
    PROVE  i % u # j % u
<1> DEFINE qi == i \div u
           qj == j \div u
           ri == i % u
           rj == j % u
<1>1. i = u * qi + ri /\ qi \in Int /\ ri \in Int
    OBVIOUS
<1>2. j = u * qj + rj /\ qj \in Int /\ rj \in Int
    OBVIOUS
<1> HIDE DEF qi, qj, ri, rj
<1> SUFFICES ASSUME ri = rj PROVE FALSE
    BY DEF ri, rj
<1> DEFINE d == qj - qi
<1>3. d \in Int /\ u * d = u * qj - u * qi
    BY <1>1, <1>2
<1>4. u * d = j - i
    BY <1>1, <1>2, <1>3
<1> HIDE DEF d
<1>5. CASE d <= 0
  <2>1. u * d <= 0
      BY <1>5, <1>3
  <2> QED
      BY <2>1, <1>4
<1>6. CASE d >= 1
  <2>1. u * d >= u
      BY <1>6, <1>3
  <2> QED
      BY <2>1, <1>4
<1> QED
    BY <1>3, <1>5, <1>6

(* Numbers in blocks of u: the number determines the block and the place.  *)
LEMMA BlocksDistinct ==
    ASSUME NEW u \in Nat, u > 0, NEW r \in Nat, NEW s \in Nat,
           NEW a \in Nat, a < u, NEW b \in Nat, b < u, r * u + a = s * u + b
    PROVE  r = s /\ a = b
<1> DEFINE d == r - s
<1>1. d \in Int /\ d * u = r * u - s * u /\ r * u \in Int /\ s * u \in Int
    OBVIOUS
<1>2. d * u = b - a
    BY <1>1
<1>3. r = s + d
    OBVIOUS
<1> HIDE DEF d
<1>4. CASE d >= 1
  <2>1. d * u >= u
      BY <1>4, <1>1
  <2> QED
      BY <2>1, <1>2
<1>5. CASE d <= -1
  <2>1. d * u <= -u
      BY <1>5, <1>1
  <2> QED
      BY <2>1, <1>2
<1>6. CASE d = 0
    BY <1>6, <1>2, <1>3
<1> QED
    BY <1>1, <1>4, <1>5, <1>6
=============================================================================
