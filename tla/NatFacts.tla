------------------------------ MODULE NatFacts ------------------------------
(***************************************************************************)
(* Facts about natural numbers that the proofs of the project cite: the    *)
(* least element of a set, induction in its set form (which the provers    *)
(* can apply, unlike the form with a predicate), and division.             *)
(***************************************************************************)
EXTENDS Integers, WellFoundedInduction, TLAPS

\* Every nonempty set of naturals has a least element.
LEMMA LeastNat ==
    ASSUME NEW S \in SUBSET Nat, S # {}
    PROVE  \E n \in S : \A m \in S : n <= m
<1> DEFINE R == OpToRel(<, Nat)
<1>1. IsWellFoundedOn(R, Nat)
  BY NatLessThanWellFounded, Zenon
<1>2. R = {ss \in Nat \X Nat : ss[1] < ss[2]}
  BY Zenon DEF OpToRel
<1> HIDE DEF R
<1>3. PICK n \in S : \A y \in S : ~(<<y, n>> \in R)
  BY Zenon, <1>1, WFMin
<1>4. \A y \in Nat : y < n => <<y, n>> \in R
  <2> TAKE y \in Nat
  <2> HAVE y < n
  <2>1. <<y, n>> \in Nat \X Nat
    OBVIOUS
  <2>2. <<y, n>>[1] < <<y, n>>[2]
    OBVIOUS
  <2> QED BY <1>2, <2>1, <2>2, Zenon
<1>5. \A y \in S : y \in Nat
  OBVIOUS
<1>6. \A y \in S : ~(y < n)
  BY <1>3, <1>4, <1>5, Zenon
<1> QED BY <1>6

\* Induction: a set with 0 that is closed under successor has every natural.
LEMMA NatInd ==
    ASSUME NEW S, 0 \in S, \A n \in Nat : n \in S => n + 1 \in S
    PROVE  Nat \subseteq S
<1> SUFFICES ASSUME Nat \ S # {}
             PROVE  FALSE
  OBVIOUS
<1>1. PICK n \in Nat \ S : \A m \in Nat \ S : n <= m
  BY Zenon, LeastNat
<1>2. n # 0 /\ n - 1 \in Nat
  OBVIOUS
<1>3. n - 1 \in S
  BY <1>1, <1>2
<1>4. (n - 1) + 1 \in S
  BY <1>2, <1>3
<1> QED
  BY <1>1, <1>4

-----------------------------------------------------------------------------
(* Division *)

\* Rounding down: a quotient times its divisor is at most the dividend (the
\* place-value shifts of pow.rs).
LEMMA DivMulLe ==
    ASSUME NEW a \in Nat, NEW b \in Nat, b > 0
    PROVE  /\ a \div b \in Nat
           /\ (a \div b) * b <= a
           /\ a < ((a \div b) + 1) * b
  OBVIOUS

\* A remainder is below the modulus and at most the number itself (256-bit
\* wrapping in pow.rs).
LEMMA ModLe ==
    ASSUME NEW a \in Nat, NEW b \in Nat, b > 0
    PROVE  a % b \in 0 .. (b - 1) /\ a % b <= a
  OBVIOUS

\* A right shift never increases a number.
LEMMA DivLe ==
    ASSUME NEW a \in Nat, NEW b \in Nat, b > 0
    PROVE  a \div b <= a
  OBVIOUS

\* A left shift that loses nothing is undone by the right shift.
LEMMA MulDiv ==
    ASSUME NEW a \in Nat, NEW b \in Nat, b > 0
    PROVE  (a * b) \div b = a
  OBVIOUS

\* Two right shifts are one.
LEMMA DivDiv ==
    ASSUME NEW a \in Nat, NEW b \in Nat, b > 0, NEW c \in Nat, c > 0
    PROVE  (a \div b) \div c = a \div (b * c)
  OBVIOUS

\* The quotient of a number below c * b is below c.
LEMMA DivLt ==
    ASSUME NEW a \in Nat, NEW b \in Nat, b > 0, NEW c \in Nat, a < c * b
    PROVE  a \div b < c
  OBVIOUS

\* Division is monotone.
LEMMA DivMono ==
    ASSUME NEW a \in Nat, NEW b \in Nat, NEW c \in Nat, c > 0, a <= b
    PROVE  a \div c <= b \div c
  OBVIOUS

\* Multiplication is monotone.
LEMMA MulMono ==
    ASSUME NEW a \in Nat, NEW b \in Nat, NEW c \in Nat, a <= b
    PROVE  a * c <= b * c
  OBVIOUS

-----------------------------------------------------------------------------
(* Tables of place values: P[n] = B^n for n up to N *)

IsPlaceTable(P, B, N) ==
    /\ B \in Nat /\ B > 1 /\ N \in Nat
    /\ P \in [0 .. N -> Nat]
    /\ P[0] = 1
    /\ \A n \in 0 .. N - 1 : P[n + 1] = B * P[n]

\* Place values are positive.
LEMMA PlacePositive ==
    ASSUME NEW P, NEW B, NEW N, IsPlaceTable(P, B, N)
    PROVE  \A n \in 0 .. N : P[n] \in Nat /\ P[n] > 0
<1> USE DEF IsPlaceTable
<1> DEFINE S == {n \in Nat : n <= N => P[n] > 0}
<1>1. 0 \in S
  OBVIOUS
<1>2. \A n \in Nat : n \in S => n + 1 \in S
  <2> SUFFICES ASSUME NEW n \in Nat, n \in S, n + 1 <= N
               PROVE  P[n + 1] > 0
    OBVIOUS
  <2>1. n \in 0 .. N - 1 /\ P[n] > 0
    OBVIOUS
  <2>2. P[n + 1] = B * P[n] /\ P[n] \in Nat
    BY <2>1
  <2> QED
    BY <2>1, <2>2
<1>3. Nat \subseteq S
  <2> HIDE DEF S
  <2> QED BY Zenon, <1>1, <1>2, NatInd
<1> QED
  BY <1>3

\* Place values multiply.
LEMMA PlaceAdd ==
    ASSUME NEW P, NEW B, NEW N, IsPlaceTable(P, B, N)
    PROVE  \A a \in Nat, b \in Nat : a + b <= N => P[a + b] = P[a] * P[b]
<1> USE DEF IsPlaceTable
<1> SUFFICES ASSUME NEW a \in Nat
             PROVE  \A b \in Nat : a + b <= N => P[a + b] = P[a] * P[b]
  BY Zenon
<1> DEFINE S == {b \in Nat : a + b <= N => P[a + b] = P[a] * P[b]}
<1>1. 0 \in S
  BY PlacePositive
<1>2. \A b \in Nat : b \in S => b + 1 \in S
  <2> SUFFICES ASSUME NEW b \in Nat, b \in S, a + (b + 1) <= N
               PROVE  P[a + (b + 1)] = P[a] * P[b + 1]
    OBVIOUS
  <2>1. /\ a \in 0 .. N /\ b \in 0 .. N - 1 /\ b \in 0 .. N
        /\ a + b \in 0 .. N - 1 /\ a + (b + 1) = (a + b) + 1 /\ a + b <= N
    OBVIOUS
  <2>2. P[(a + b) + 1] = B * P[a + b] /\ P[b + 1] = B * P[b]
    BY <2>1
  <2>3. P[a + b] = P[a] * P[b]
    BY <2>1
  <2>4. P[a] \in Nat /\ P[b] \in Nat /\ B \in Nat
    BY <2>1
  <2>5. B * (P[a] * P[b]) = P[a] * (B * P[b])
    BY <2>4
  <2> QED
    BY <2>1, <2>2, <2>3, <2>5
<1>3. Nat \subseteq S
  <2> HIDE DEF S
  <2> QED BY Zenon, <1>1, <1>2, NatInd
<1> QED
  BY <1>3

\* Place values grow.
LEMMA PlaceMono ==
    ASSUME NEW P, NEW B, NEW N, IsPlaceTable(P, B, N)
    PROVE  \A a \in Nat, b \in Nat : a <= b /\ b <= N => P[a] <= P[b]
<1> SUFFICES ASSUME NEW a \in Nat, NEW b \in Nat, a <= b, b <= N
             PROVE  P[a] <= P[b]
  OBVIOUS
<1>0. N \in Nat
  BY DEF IsPlaceTable
<1>1. b - a \in Nat /\ a + (b - a) = b /\ a \in 0 .. N /\ b - a \in 0 .. N
  BY <1>0
<1>2. P[b] = P[a] * P[b - a]
  BY <1>1, PlaceAdd
<1>3. P[a] \in Nat /\ P[b - a] \in Nat /\ P[b - a] > 0
  BY <1>1, PlacePositive
<1> QED
  BY <1>2, <1>3

\* A number below the last place value has a number of places.
LEMMA PlaceCount ==
    ASSUME NEW P, NEW B, NEW N, IsPlaceTable(P, B, N), NEW t \in Nat, t < P[N]
    PROVE  \E k \in 0 .. N : t < P[k] /\ (k > 0 => P[k - 1] <= t)
<1> DEFINE S == {n \in 0 .. N : t < P[n]}
<1>0. N \in Nat
  BY DEF IsPlaceTable
<1>1. S \in SUBSET Nat /\ N \in S
  BY <1>0
<1>2. PICK n \in S : \A m \in S : n <= m
  <2> HIDE DEF S
  <2> QED BY <1>1, LeastNat
<1>3. n > 0 => P[n - 1] <= t
  <2> SUFFICES ASSUME n > 0, ~(P[n - 1] <= t)
               PROVE  FALSE
    OBVIOUS
  <2>1. n - 1 \in 0 .. N /\ n - 1 \notin S
    BY <1>0, <1>2
  <2>2. P[n - 1] \in Nat
    BY <2>1, PlacePositive
  <2> QED
    BY <2>1, <2>2
<1> QED
  BY <1>2, <1>3

\* There is only one such number of places.
LEMMA PlaceUnique ==
    ASSUME NEW P, NEW B, NEW N, IsPlaceTable(P, B, N), NEW t \in Nat,
           NEW k \in 1 .. N, P[k - 1] <= t, t < P[k],
           NEW n \in 0 .. N, t < P[n], n > 0 => P[n - 1] <= t
    PROVE  n = k
<1>0. N \in Nat /\ (\A i \in 0 .. N : P[i] \in Nat)
  BY PlacePositive DEF IsPlaceTable
<1>1. ~(n < k)
  <2> SUFFICES ASSUME n < k
               PROVE  FALSE
    OBVIOUS
  <2>1. n \in 0 .. N /\ k - 1 \in 0 .. N /\ n <= k - 1
    BY <1>0
  <2>2. P[n] <= P[k - 1]
    BY <1>0, <2>1, PlaceMono
  <2> QED
    BY <1>0, <2>1, <2>2
<1>2. ~(n > k)
  <2> SUFFICES ASSUME n > k
               PROVE  FALSE
    OBVIOUS
  <2>1. k \in 0 .. N /\ n - 1 \in 0 .. N /\ k <= n - 1 /\ n > 0
    BY <1>0
  <2>2. P[k] <= P[n - 1]
    BY <1>0, <2>1, PlaceMono
  <2> QED
    BY <1>0, <2>1, <2>2
<1> QED
  BY <1>0, <1>1, <1>2
=============================================================================
