-------------------------- MODULE DifficultyProofs --------------------------
(***************************************************************************)
(* Theorems about compact targets and the adjustments of Difficulty, for   *)
(* every byte size, every width, every limit and every chain of header     *)
(* times.                                                                  *)
(***************************************************************************)
EXTENDS Difficulty, NatFacts


-----------------------------------------------------------------------------
(* Place values *)

\* The table of place values of a U256 in bytes.
LEMMA PowTable == IsPlaceTable(Pow, Base, Size)
  BY BaseAssumption, SizeAssumption, PowAssumption, Zenon DEF IsPlaceTable

\* Place values are positive (Pow[n] is 256^n, the shifts of U256 in pow.rs).
LEMMA PowPositive == \A n \in 0 .. Size : Pow[n] \in Nat /\ Pow[n] > 0
  BY PowTable, PlacePositive

\* Place values multiply.
LEMMA PowAdd ==
    \A a \in Nat, b \in Nat : a + b <= Size => Pow[a + b] = Pow[a] * Pow[b]
  BY PowTable, PlaceAdd

\* Place values grow.
LEMMA PowMono ==
    \A a \in Nat, b \in Nat : a <= b /\ b <= Size => Pow[a] <= Pow[b]
  BY PowTable, PlaceMono

\* A number below the width has a byte count (NumBytes, from U256::bits).
LEMMA NumBytesSpec ==
    ASSUME NEW t \in Target
    PROVE  /\ NumBytes(t) \in 0 .. Size
           /\ t < Pow[NumBytes(t)]
           /\ NumBytes(t) > 0 => Pow[NumBytes(t) - 1] <= t
<1>1. t \in Nat /\ t < Pow[Size]
  BY PowPositive, SizeAssumption DEF Target
<1>2. \E k \in 0 .. Size : t < Pow[k] /\ (k > 0 => Pow[k - 1] <= t)
  BY <1>1, PowTable, PlaceCount
<1> QED
  BY <1>2, Zenon DEF NumBytes

-----------------------------------------------------------------------------
(* Rounding of the compact form *)

\* A shift of fewer bytes than the width is not masked.
LEMMA ShiftUnmasked ==
    ASSUME NEW n \in Nat, n < Size
    PROVE  n % Size = n
  BY SizeAssumption

\* Target::from_compact never yields more than the mantissa at its place.
LEMMA FromCompactBound ==
    ASSUME NEW s \in Nat, NEW m \in Nat, s < Size + 3
    PROVE  LET v == from_compact([size |-> s, mant |-> m])
           IN  /\ v \in Nat
               /\ s <= 3 => v <= m \div Pow[3 - s]
               /\ s > 3 => v <= m * Pow[s - 3]
<1> DEFINE c == [size |-> s, mant |-> m]
           mant == IF s <= 3 THEN m \div Pow[3 - s] ELSE m
           expt == IF s <= 3 THEN 0 ELSE s - 3
<1>1. from_compact(c) = IF mant >= SignBit THEN 0 ELSE (mant * Pow[expt % Size]) % Pow[Size]
  BY DEF from_compact, ShlBytes
<1>2. expt \in 0 .. Size /\ expt < Size /\ expt % Size = expt
  BY SizeAssumption, ShiftUnmasked
<1>3. mant \in Nat
  <2>1. s <= 3 => 3 - s \in 0 .. Size
    BY SizeAssumption
  <2> QED
    BY <2>1, PowPositive, DivMulLe
<1>4. mant * Pow[expt] \in Nat
  BY <1>2, <1>3, PowPositive
<1>5. /\ (mant * Pow[expt]) % Pow[Size] \in Nat
      /\ (mant * Pow[expt]) % Pow[Size] <= mant * Pow[expt]
  <2>1. Pow[Size] \in Nat /\ Pow[Size] > 0
    BY PowPositive, SizeAssumption
  <2> HIDE DEF mant, expt
  <2> QED
    BY <1>4, <2>1, ModLe
<1>6. from_compact(c) \in Nat /\ from_compact(c) <= mant * Pow[expt]
  <2> HIDE DEF mant, expt, c
  <2> QED BY <1>1, <1>2, <1>4, <1>5
<1>7. s <= 3 => mant * Pow[expt] = m \div Pow[3 - s]
  BY <1>3, PowAssumption
<1>8. s > 3 => mant * Pow[expt] = m * Pow[s - 3]
  OBVIOUS
<1> QED
  BY <1>6, <1>7, <1>8

\* Target::to_compact_lossy rounds down: the target that a header carries is
\* at most the one that was encoded.
THEOREM CompactRoundsDown ==
    ASSUME NEW t \in Target
    PROVE  Attainable(t) \in Nat /\ Attainable(t) <= t
<1> DEFINE n == NumBytes(t)
           m == Mantissa(t, n)
<1>0. t \in Nat
  BY PowPositive, SizeAssumption DEF Target
<1>1. n \in 0 .. Size
  BY NumBytesSpec
<1>2. to_compact_lossy(t) = IF m >= SignBit THEN [size |-> n + 1, mant |-> m \div Base]
                                            ELSE [size |-> n, mant |-> m]
  BY DEF to_compact_lossy
<1>b. Base \in Nat /\ Base > 0
  BY BaseAssumption
<1> HIDE DEF n, m
<1>3. CASE n <= 3
  <2> DEFINE p == Pow[3 - n]
  <2>1. p \in Nat /\ p > 0
    BY <1>1, <1>3, PowPositive, SizeAssumption
  <2>2. m = t * p
    BY <1>3 DEF m, Mantissa
  <2>3. m \in Nat /\ m \div p = t
    BY <1>0, <2>1, <2>2, MulDiv
  <2>4. CASE ~(m >= SignBit)
    <3>1. to_compact_lossy(t) = [size |-> n, mant |-> m]
      BY <1>2, <2>4
    <3>2. n \in Nat /\ n < Size + 3
      BY <1>1, SizeAssumption
    <3> QED
      BY <1>3, <2>3, <3>1, <3>2, FromCompactBound DEF Attainable
  <2>5. CASE m >= SignBit /\ n < 3
    <3>1. to_compact_lossy(t) = [size |-> n + 1, mant |-> m \div Base]
      BY <1>2, <2>5
    <3>2. n + 1 \in Nat /\ n + 1 < Size + 3 /\ n + 1 <= 3
      BY <1>1, <2>5, SizeAssumption
    <3>3. p = Base * Pow[2 - n] /\ Pow[2 - n] \in Nat /\ Pow[2 - n] > 0
      <4>1. 2 - n \in 0 .. Size - 1 /\ (2 - n) + 1 = 3 - n /\ 2 - n \in 0 .. Size
        BY <1>1, <2>5, SizeAssumption
      <4> QED
        BY <4>1, PowPositive, PowAssumption
    <3>4. m \div Base \in Nat /\ (m \div Base) \div Pow[2 - n] = t
      BY <1>b, <2>3, <3>3, DivDiv, DivMulLe
    <3>5. 3 - (n + 1) = 2 - n
      BY <1>1
    <3> QED
      BY <3>1, <3>2, <3>4, <3>5, FromCompactBound DEF Attainable
  <2>6. CASE m >= SignBit /\ n = 3
    <3>1. to_compact_lossy(t) = [size |-> 4, mant |-> m \div Base]
      BY <1>2, <2>6
    <3>2. Pow[4 - 3] = Base /\ m = t
      <4>1. Pow[0 + 1] = Base * Pow[0]
        BY PowAssumption, SizeAssumption
      <4> QED
        BY <1>0, <1>b, <2>2, <2>6, <4>1, PowAssumption
    <3>3. m \div Base \in Nat /\ (m \div Base) * Base <= t
      BY <1>0, <1>b, <3>2, DivMulLe
    <3>4. 4 \in Nat /\ 4 < Size + 3
      BY SizeAssumption
    <3>5. /\ from_compact([size |-> 4, mant |-> m \div Base]) \in Nat
          /\ from_compact([size |-> 4, mant |-> m \div Base]) <= (m \div Base) * Pow[4 - 3]
      BY <3>3, <3>4, FromCompactBound
    <3> QED
      BY <1>0, <1>b, <3>1, <3>2, <3>3, <3>5 DEF Attainable
  <2> QED
    BY <1>1, <1>3, <2>4, <2>5, <2>6
<1>4. CASE n > 3
  <2> DEFINE p == Pow[n - 3]
  <2>1. p \in Nat /\ p > 0
    BY <1>1, <1>4, PowPositive, SizeAssumption
  <2>2. m = t \div p
    BY <1>1, <1>4, SizeAssumption, ShiftUnmasked DEF m, Mantissa, ShrBytes
  <2>3. m \in Nat /\ m * p <= t
    BY <1>0, <2>1, <2>2, DivMulLe
  <2>4. CASE ~(m >= SignBit)
    <3>1. to_compact_lossy(t) = [size |-> n, mant |-> m]
      BY <1>2, <2>4
    <3>2. n \in Nat /\ n < Size + 3
      BY <1>1, SizeAssumption
    <3>3. /\ from_compact([size |-> n, mant |-> m]) \in Nat
          /\ from_compact([size |-> n, mant |-> m]) <= m * p
      BY <1>4, <2>3, <3>2, FromCompactBound
    <3> QED
      BY <1>0, <2>1, <2>3, <3>1, <3>3 DEF Attainable
  <2>5. CASE m >= SignBit
    <3> DEFINE q == m \div Base
    <3>1. to_compact_lossy(t) = [size |-> n + 1, mant |-> q]
      BY <1>2, <2>5
    <3>2. n + 1 \in Nat /\ n + 1 < Size + 3 /\ n + 1 > 3
      BY <1>1, <1>4, SizeAssumption
    <3>3. Pow[(n + 1) - 3] = Base * p
      <4>1. n - 3 \in 0 .. Size - 1 /\ (n - 3) + 1 = (n + 1) - 3
        BY <1>1, <1>4, SizeAssumption
      <4> QED
        BY <4>1, PowAssumption
    <3>4. q \in Nat /\ q * Base <= m
      BY <1>b, <2>3, DivMulLe
    <3> HIDE DEF q, p
    <3>5. (q * Base) * p <= m * p
      BY <1>b, <2>1, <2>3, <3>4, MulMono
    <3>6. q * (Base * p) = (q * Base) * p
      BY <1>b, <2>1, <3>4
    <3>7. /\ from_compact([size |-> n + 1, mant |-> q]) \in Nat
          /\ from_compact([size |-> n + 1, mant |-> q]) <= q * (Base * p)
      BY <3>2, <3>3, <3>4, FromCompactBound
    <3> QED
      BY <1>0, <1>b, <2>1, <2>3, <3>1, <3>4, <3>5, <3>6, <3>7 DEF Attainable
  <2> QED
    BY <2>4, <2>5
<1> QED
  BY <1>1, <1>3, <1>4

\* The byte count is the only number of places that fits exactly.
LEMMA NumBytesUnique ==
    ASSUME NEW t \in Target, NEW k \in 1 .. Size, Pow[k - 1] <= t, t < Pow[k]
    PROVE  NumBytes(t) = k
<1>1. t \in Nat
  BY PowPositive, SizeAssumption DEF Target
<1> QED
  BY <1>1, NumBytesSpec, PowTable, PlaceUnique

\* The sign bit is half of the mantissa's range (0x0080_0000).
LEMMA SignBitFacts ==
    /\ SignBit \in Nat /\ SignBit > 0 /\ 2 * SignBit = Pow[3]
    /\ SignBit = (Pow[2] \div 2) * Base
    /\ Pow[2] \div 2 \in Nat /\ Pow[1] <= Pow[2] \div 2
    /\ Pow[2] <= SignBit /\ Pow[1] = Base
<1>1. PICK h \in Nat : Base = 2 * h /\ h > 0
  <2>1. Base = 2 * (Base \div 2) /\ Base \div 2 \in Nat /\ Base \div 2 > 0
    BY BaseAssumption
  <2> QED
    BY <2>1
<1>2. Pow[0 + 1] = Base * Pow[0] /\ Pow[1 + 1] = Base * Pow[1] /\ Pow[2 + 1] = Base * Pow[2]
  BY PowAssumption, SizeAssumption
<1>3. Pow[1] = 2 * h /\ Pow[2] = 2 * (h * (2 * h)) /\ Pow[3] = 2 * ((h * (2 * h)) * (2 * h))
  BY <1>1, <1>2, PowAssumption
<1>4. Pow[2] \div 2 = h * (2 * h) /\ SignBit = (h * (2 * h)) * (2 * h)
  <2> DEFINE x == h * (2 * h)
             y == (h * (2 * h)) * (2 * h)
  <2>1. x \in Nat /\ y \in Nat
    BY <1>1
  <2> HIDE DEF x, y
  <2>2. (2 * x) \div 2 = x /\ (2 * y) \div 2 = y
    BY <2>1
  <2> QED
    BY <1>3, <2>2 DEF x, y, SignBit
<1> QED
  BY <1>1, <1>3, <1>4

\* The mantissa has three bytes, and its top byte is not zero.
LEMMA MantissaRange ==
    ASSUME NEW t \in Target
    PROVE  /\ Mantissa(t, NumBytes(t)) \in 0 .. Pow[3] - 1
           /\ NumBytes(t) > 3 => Pow[2] <= Mantissa(t, NumBytes(t))
<1> DEFINE n == NumBytes(t)
<1>0. t \in Nat
  BY PowPositive, SizeAssumption DEF Target
<1>1. n \in 0 .. Size /\ t < Pow[n] /\ (n > 0 => Pow[n - 1] <= t)
  BY NumBytesSpec
<1> HIDE DEF n
<1>2. CASE n <= 3
  <2>1. n \in Nat /\ 3 - n \in Nat /\ n + (3 - n) = 3 /\ n \in 0 .. Size /\ 3 - n \in 0 .. Size
    BY <1>1, <1>2, SizeAssumption
  <2>2. Pow[3] = Pow[n] * Pow[3 - n]
    BY <2>1, PowAdd, SizeAssumption
  <2>3. Pow[n] \in Nat /\ Pow[3 - n] \in Nat /\ Pow[3 - n] > 0
    BY <2>1, PowPositive
  <2>4. Mantissa(t, n) = t * Pow[3 - n]
    BY <1>2 DEF Mantissa
  <2>5. t * Pow[3 - n] \in Nat /\ t * Pow[3 - n] < Pow[n] * Pow[3 - n]
    BY <1>0, <1>1, <2>3
  <2>6. Pow[3] \in Nat /\ Mantissa(t, n) \in 0 .. Pow[3] - 1
    BY <2>2, <2>3, <2>4, <2>5
  <2>7. ~(n > 3)
    BY <1>1, <1>2
  <2> QED
    BY <2>6, <2>7 DEF n
<1>3. CASE n > 3
  <2> DEFINE p == Pow[n - 3]
  <2>1. /\ n - 3 \in Nat /\ 3 + (n - 3) = n /\ 2 + (n - 3) = n - 1
        /\ n - 3 \in 0 .. Size /\ 3 \in 0 .. Size /\ 2 \in 0 .. Size
    BY <1>1, <1>3, SizeAssumption
  <2>2. Pow[n] = Pow[3] * p /\ Pow[n - 1] = Pow[2] * p
    <3>1. Pow[3 + (n - 3)] = Pow[3] * Pow[n - 3]
      BY <1>1, <2>1, PowAdd
    <3>2. Pow[2 + (n - 3)] = Pow[2] * Pow[n - 3]
      <4>1. 2 \in Nat /\ n - 3 \in Nat /\ 2 + (n - 3) <= Size
        BY <1>1, <2>1, SizeAssumption
      <4> QED
        BY <4>1, PowAdd, Zenon
    <3> QED
      BY <2>1, <3>1, <3>2
  <2>3. p \in Nat /\ p > 0 /\ Pow[3] \in Nat /\ Pow[2] \in Nat
    BY <2>1, PowPositive
  <2>4. Mantissa(t, n) = t \div p
    BY <1>1, <1>3, SizeAssumption, ShiftUnmasked DEF Mantissa, ShrBytes
  <2> HIDE DEF p
  <2>5. t \div p \in Nat /\ t \div p < Pow[3]
    BY <1>0, <1>1, <2>2, <2>3, DivLt, DivMulLe
  <2>6. Pow[2] <= t \div p
    <3> SUFFICES ASSUME (t \div p) + 1 <= Pow[2]
                 PROVE  FALSE
      BY <2>3, <2>5
    <3>1. ((t \div p) + 1) * p <= Pow[2] * p
      BY <2>3, <2>5, MulMono
    <3>2. t < ((t \div p) + 1) * p
      BY <1>0, <2>3, DivMulLe
    <3> QED
      BY <1>0, <1>1, <1>3, <2>2, <2>3, <2>5, <3>1, <3>2
  <2> QED
    BY <2>3, <2>4, <2>5, <2>6 DEF n
<1> QED
  BY <1>1, <1>2, <1>3

\* to_compact_lossy packs a three-byte mantissa and an exponent byte: the two
\* parts of the u32 never overlap.
LEMMA ToCompactType ==
    ASSUME NEW t \in Target
    PROVE  to_compact_lossy(t) \in CompactTargets
<1> DEFINE n == NumBytes(t)
           m == Mantissa(t, n)
<1>1. n \in 0 .. Size /\ m \in 0 .. Pow[3] - 1
  BY NumBytesSpec, MantissaRange
<1>2. to_compact_lossy(t) = IF m >= SignBit THEN [size |-> n + 1, mant |-> m \div Base]
                                            ELSE [size |-> n, mant |-> m]
  BY DEF to_compact_lossy
<1> HIDE DEF n, m
<1>3. Pow[3] \in Nat /\ m \in Nat /\ m \div Base \in Nat /\ m \div Base <= m
  BY <1>1, PowPositive, SizeAssumption, BaseAssumption, DivLe, DivMulLe
<1>4. n \in 0 .. MaxExp /\ n + 1 \in 0 .. MaxExp /\ m \div Base \in 0 .. Pow[3] - 1
  BY <1>1, <1>3, SizeAssumption, MaxExpAssumption
<1> QED
  BY <1>1, <1>2, <1>4 DEF CompactTargets

\* A wrapping result that fits is the result itself.
LEMMA ModFits ==
    ASSUME NEW a \in Nat, NEW b \in Nat, a < b
    PROVE  a % b = a
  OBVIOUS

\* from_compact of a mantissa without the sign bit, when nothing is shifted out.
LEMMA FromCompactExact ==
    ASSUME NEW s \in Nat, NEW m \in Nat, s > 3, s < Size + 3,
           m < SignBit, m * Pow[s - 3] < Pow[Size]
    PROVE  from_compact([size |-> s, mant |-> m]) = m * Pow[s - 3]
<1>1. (s - 3) % Size = s - 3 /\ s - 3 \in 0 .. Size
  BY SizeAssumption, ShiftUnmasked
<1>2. m * Pow[s - 3] \in Nat /\ Pow[Size] \in Nat
  BY <1>1, PowPositive, SizeAssumption
<1>3. (m * Pow[s - 3]) % Pow[Size] = m * Pow[s - 3]
  BY <1>2, ModFits
<1>4. ~(m >= SignBit)
  BY SignBitFacts
<1> QED
  BY <1>1, <1>3, <1>4 DEF from_compact, ShlBytes

\* The same for a number of up to three bytes, which is kept exactly.
LEMMA FromCompactSmall ==
    ASSUME NEW s \in Nat, NEW m \in Nat, s <= 3,
           NEW t \in Target, m \div Pow[3 - s] = t, t < SignBit
    PROVE  from_compact([size |-> s, mant |-> m]) = t
<1>1. t \in Nat /\ t < Pow[Size] /\ Pow[Size] \in Nat
  BY PowPositive, SizeAssumption DEF Target
<1>2. 0 % Size = 0 /\ Pow[0] = 1
  BY SizeAssumption, PowAssumption
<1>3. (t * 1) % Pow[Size] = t
  BY <1>1, ModFits
<1>4. ~(t >= SignBit)
  BY <1>1, SignBitFacts
<1> QED
  BY <1>2, <1>3, <1>4 DEF from_compact, ShlBytes

\* Encoding is stable: what to_compact_lossy returns decodes to a target that
\* encodes to the same u32.
THEOREM CompactCanonical ==
    ASSUME NEW t \in Target
    PROVE  Canonical(to_compact_lossy(t))
<1> DEFINE n == NumBytes(t)
           m == Mantissa(t, n)
           c == to_compact_lossy(t)
           v == from_compact(c)
<1>0. t \in Nat /\ t < Pow[Size]
  BY PowPositive, SizeAssumption DEF Target
<1>1. /\ n \in 0 .. Size /\ t < Pow[n] /\ (n > 0 => Pow[n - 1] <= t)
      /\ m \in 0 .. Pow[3] - 1
  BY NumBytesSpec, MantissaRange
<1>2. c = IF m >= SignBit THEN [size |-> n + 1, mant |-> m \div Base]
                          ELSE [size |-> n, mant |-> m]
  BY DEF to_compact_lossy
<1>3. m \in Nat /\ Base \in Nat /\ Base > 0 /\ SignBit \in Nat
  BY <1>1, PowPositive, SizeAssumption, BaseAssumption, SignBitFacts
<1>4. v \in Nat /\ v <= t
  BY CompactRoundsDown DEF Attainable
<1>5. v \in Target
  BY <1>0, <1>4, PowPositive, SizeAssumption DEF Target
<1>6. SUFFICES to_compact_lossy(v) = c
  BY DEF Canonical
<1> HIDE DEF n, m, v, c
<1>7. CASE n <= 3 /\ (n = 3 => ~(m >= SignBit))
  <2> DEFINE p == Pow[3 - n]
  <2>1. p \in Nat /\ p > 0
    BY <1>1, <1>7, PowPositive, SizeAssumption
  <2>2. m = t * p
    BY <1>7 DEF m, Mantissa
  <2>3. m \div p = t /\ t <= m
    BY <1>0, <2>1, <2>2, MulDiv
  <2>4. v = t
    <3>1. CASE ~(m >= SignBit)
      <4>1. c = [size |-> n, mant |-> m] /\ t < SignBit /\ n \in Nat
        BY <1>0, <1>1, <1>2, <1>3, <2>3, <3>1
      <4> QED
        BY <1>3, <1>7, <2>3, <4>1, FromCompactSmall DEF v
    <3>2. CASE m >= SignBit
      <4>1. n < 3 /\ n \in Nat /\ n + 1 \in Nat /\ n + 1 <= 3
        BY <1>1, <1>7, <3>2
      <4>2. c = [size |-> n + 1, mant |-> m \div Base]
        BY <1>2, <3>2
      <4>3. t < SignBit
        <5>1. Pow[n] <= Pow[2]
          BY <4>1, PowMono, SizeAssumption
        <5>2. Pow[n] \in Nat /\ Pow[2] \in Nat
          BY <1>1, PowPositive, SizeAssumption
        <5> QED
          BY <1>0, <1>1, <1>3, <5>1, <5>2, SignBitFacts
      <4>4. 2 - n \in 0 .. Size - 1 /\ (2 - n) + 1 = 3 - n /\ 2 - n \in 0 .. Size
        BY <1>1, <4>1, SizeAssumption
      <4>5. p = Base * Pow[2 - n] /\ Pow[2 - n] \in Nat /\ Pow[2 - n] > 0
        BY <4>4, PowPositive, PowAssumption
      <4>6. m \div Base \in Nat /\ (m \div Base) \div Pow[2 - n] = t
        BY <1>3, <2>3, <4>5, DivDiv, DivMulLe
      <4>7. 3 - (n + 1) = 2 - n
        BY <4>1
      <4> QED
        BY <4>1, <4>2, <4>3, <4>6, <4>7, FromCompactSmall DEF v
    <3> QED
      BY <3>1, <3>2
  <2> QED
    BY <2>4 DEF c
<1>8. CASE n >= 3 /\ ~(n <= 3 /\ (n = 3 => ~(m >= SignBit)))
  <2> DEFINE p == Pow[n - 3]
  <2>1. n - 3 \in Nat /\ n - 3 \in 0 .. Size /\ n \in 1 .. Size /\ n > 2
    BY <1>1, <1>8, SizeAssumption
  <2>2. p \in Nat /\ p > 0
    BY <2>1, PowPositive
  <2>3. m = t \div p
    <3>1. CASE n = 3
      <4>1. m = t * Pow[0] /\ p = 1
        BY <3>1, PowAssumption DEF m, Mantissa
      <4> QED
        BY <1>0, <4>1, PowAssumption
    <3>2. CASE n > 3
      BY <1>1, <3>2, SizeAssumption, ShiftUnmasked DEF m, Mantissa, ShrBytes
    <3> QED
      BY <1>1, <1>8, <3>1, <3>2
  <2>4. /\ Pow[n] = Pow[3] * p /\ Pow[n - 1] = Pow[2] * p
        /\ Pow[3] \in Nat /\ Pow[2] \in Nat /\ Pow[1] \in Nat
    <3>1. 3 + (n - 3) = n /\ 3 + (n - 3) <= Size /\ 2 + (n - 3) = n - 1 /\ 2 + (n - 3) <= Size
      BY <2>1, SizeAssumption
    <3>2. Pow[3 + (n - 3)] = Pow[3] * p
      BY <2>1, <3>1, PowAdd, Zenon
    <3>3. Pow[2 + (n - 3)] = Pow[2] * p
      BY <2>1, <3>1, PowAdd, Zenon
    <3> QED
      BY <3>1, <3>2, <3>3, PowPositive, SizeAssumption
  <2>5. Mantissa(v, n) = v \div p
    <3>1. CASE n = 3
      <4>1. Mantissa(v, n) = v * Pow[0] /\ p = 1
        BY <3>1, PowAssumption DEF Mantissa
      <4> QED
        BY <1>4, <4>1, PowAssumption
    <3>2. CASE n > 3
      BY <1>1, <3>2, SizeAssumption, ShiftUnmasked DEF Mantissa, ShrBytes
    <3> QED
      BY <1>1, <1>8, <3>1, <3>2
  <2>6. v < Pow[n]
    BY <1>0, <1>1, <1>4, <2>2, <2>4
  <2>7. CASE ~(m >= SignBit)
    <3>1. n > 3 /\ n \in Nat /\ n < Size + 3 /\ c = [size |-> n, mant |-> m] /\ m < SignBit
      BY <1>1, <1>2, <1>3, <1>8, <2>7, SizeAssumption
    <3>2. m * p <= t
      BY <1>0, <2>2, <2>3, DivMulLe
    <3>3. m * p < Pow[Size]
      BY <1>0, <1>3, <2>2, <3>2, PowPositive, SizeAssumption
    <3>4. v = m * p
      BY <1>3, <3>1, <3>3, FromCompactExact DEF v
    <3>5. Pow[2] <= m
      BY <3>1, MantissaRange DEF m, n
    <3>6. Pow[n - 1] <= v
      BY <1>3, <2>2, <2>4, <3>4, <3>5, MulMono
    <3>7. NumBytes(v) = n
      BY <1>5, <2>1, <2>6, <3>6, NumBytesUnique
    <3>8. v \div p = m
      BY <1>3, <2>2, <3>4, MulDiv
    <3> QED
      BY <2>5, <2>7, <3>1, <3>7, <3>8 DEF to_compact_lossy
  <2>8. CASE m >= SignBit
    <3> DEFINE q == m \div Base
               h == Pow[2] \div 2
    <3>1. n + 1 > 3 /\ n + 1 \in Nat /\ n + 1 < Size + 3 /\ c = [size |-> n + 1, mant |-> q]
      BY <1>1, <1>2, <1>8, <2>8, SizeAssumption
    <3>2. Pow[(n + 1) - 3] = Base * p
      <4>1. n - 3 \in 0 .. Size - 1 /\ (n - 3) + 1 = (n + 1) - 3
        BY <1>1, <1>8, SizeAssumption
      <4> QED
        BY <4>1, PowAssumption
    <3>3. q \in Nat /\ q * Base <= m /\ m < (q + 1) * Base
      BY <1>3, DivMulLe
    <3>4. h \in Nat /\ SignBit = h * Base /\ Base <= h
      BY SignBitFacts
    <3> HIDE DEF q, h, p
    <3>5. h <= q
      <4> SUFFICES ASSUME q + 1 <= h
                   PROVE  FALSE
        BY <3>3, <3>4
      <4>1. (q + 1) * Base <= h * Base
        BY <1>3, <3>3, <3>4, MulMono
      <4> QED
        BY <1>3, <2>8, <3>3, <3>4, <4>1
    <3>6. q < SignBit
      <4>1. m < 2 * SignBit /\ 2 <= Base
        BY <1>1, <1>3, SignBitFacts, BaseAssumption
      <4>2. q * 2 <= q * Base
        BY <1>3, <3>3, <4>1
      <4> QED
        BY <1>3, <3>3, <4>1, <4>2
    <3>7. q * (Base * p) = (q * Base) * p /\ (q * Base) * p <= m * p /\ m * p <= t
      BY <1>0, <1>3, <2>2, <2>3, <3>3, MulMono, DivMulLe
    <3>8. v = q * (Base * p)
      <4>1. q * Pow[(n + 1) - 3] < Pow[Size]
        BY <1>0, <1>3, <2>2, <3>2, <3>3, <3>7, PowPositive, SizeAssumption
      <4> QED
        BY <3>1, <3>2, <3>3, <3>6, <4>1, FromCompactExact DEF v
    <3>9. Pow[n - 1] <= v
      <4>1. Pow[2] <= SignBit /\ SignBit <= q * Base
        BY <1>3, <3>3, <3>4, <3>5, SignBitFacts, MulMono
      <4>2. Pow[2] * p <= SignBit * p /\ SignBit * p <= (q * Base) * p
        BY <1>3, <2>2, <2>4, <3>3, <4>1, MulMono
      <4> QED
        BY <1>3, <2>2, <2>4, <3>3, <3>7, <3>8, <4>2
    <3>10. NumBytes(v) = n
      BY <1>5, <2>1, <2>6, <3>9, NumBytesUnique
    <3>11. v \div p = q * Base
      BY <1>3, <2>2, <3>3, <3>7, <3>8, MulDiv
    <3>12. q * Base >= SignBit
      BY <1>3, <3>3, <3>4, <3>5, MulMono
    <3>13. (q * Base) \div Base = q
      BY <1>3, <3>3, MulDiv
    <3> QED
      BY <2>5, <3>1, <3>10, <3>11, <3>12, <3>13 DEF to_compact_lossy
  <2> QED
    BY <2>7, <2>8
<1> QED
  BY <1>1, <1>7, <1>8

-----------------------------------------------------------------------------
(* One adjustment *)

\* from_compact yields a number.
LEMMA FromCompactNat ==
    ASSUME NEW c \in CompactTargets
    PROVE  from_compact(c) \in Nat
<1> DEFINE mant == IF c.size <= 3 THEN c.mant \div Pow[3 - c.size] ELSE c.mant
           expt == IF c.size <= 3 THEN 0 ELSE c.size - 3
<1>0. c.size \in Nat /\ c.mant \in Nat
  BY PowPositive, SizeAssumption, MaxExpAssumption DEF CompactTargets
<1>1. from_compact(c) = IF mant >= SignBit THEN 0 ELSE (mant * Pow[expt % Size]) % Pow[Size]
  BY DEF from_compact, ShlBytes
<1>2. mant \in Nat
  <2>1. c.size <= 3 => 3 - c.size \in 0 .. Size
    BY <1>0, SizeAssumption
  <2> QED
    BY <1>0, <2>1, PowPositive, DivMulLe
<1>3. expt % Size \in 0 .. Size
  BY <1>0, SizeAssumption
<1> HIDE DEF mant, expt
<1>4. mant * Pow[expt % Size] \in Nat /\ Pow[Size] \in Nat /\ Pow[Size] > 0
  BY <1>2, <1>3, PowPositive, SizeAssumption
<1>5. (mant * Pow[expt % Size]) % Pow[Size] \in Nat
  BY <1>4, ModLe
<1> QED
  BY <1>1, <1>5

\* The modulated timespan is at most four times the expected one and never
\* negative, whatever the header times say.
LEMMA ModulatedRange ==
    ASSUME NEW ts \in Int, NEW h \in Nat
    PROVE  /\ pow_target_timespan(h) \in {EpochTimespan, DigishieldTimespan}
           /\ modulated_timespan(ts, h) \in Nat
           /\ modulated_timespan(ts, h) <= 4 * pow_target_timespan(h)
<1> DEFINE T == pow_target_timespan(h)
<1>1. T \in {EpochTimespan, DigishieldTimespan} /\ T \in Nat /\ T > 0
  BY TimespanAssumption DEF pow_target_timespan
<1>2. DecreaseLimit(h) \in {16, 8, 4}
  <2>1. h <= EarlyEnd \/ (h > EarlyEnd /\ h <= MidEnd) \/ h > MidEnd
    BY HeightAssumption
  <2> QED
    BY <2>1 DEF DecreaseLimit
<1>3. TruncDiv(ts - T, 8) \in Int
  BY <1>1 DEF TruncDiv
<1>4. modulated_timespan(ts, h) =
        IF is_digishield_activated(h)
          THEN Clamp(T + TruncDiv(ts - T, 8), T - (T \div 4), T + (T \div 2))
          ELSE Clamp(ts, T \div DecreaseLimit(h), 4 * T)
  BY DEF modulated_timespan
<1> HIDE DEF T
<1>5. CASE is_digishield_activated(h)
  BY <1>1, <1>3, <1>4, <1>5 DEF Clamp, T
<1>6. CASE ~is_digishield_activated(h)
  <2>1. T \div DecreaseLimit(h) \in Nat /\ T \div DecreaseLimit(h) <= 4 * T
    BY <1>1, <1>2
  <2> HIDE DEF DecreaseLimit
  <2> QED
    BY <1>1, <1>4, <1>6, <2>1 DEF Clamp, T
<1> QED
  BY <1>5, <1>6

\* The limit of the network is a number of the width.
LEMMA LimitFits ==
    MaxAttainable \in Nat /\ MaxAttainable < Pow[Size] /\ Pow[Size] \in Nat /\ Pow[Size] > 0
  BY MaxAttainableAssumption, PowPositive, SizeAssumption DEF Target

\* At every height the largest product of target and timespan fits the width.
LEMMA HeadroomAt ==
    ASSUME NEW h \in Nat, ~NoRetargeting
    PROVE  MaxAttainable * (4 * pow_target_timespan(h)) < Pow[Size]
  BY HeadroomAssumption DEF pow_target_timespan

\* What from_next_work_required_dogecoin returns is either the bits it was
\* given, on a network that does not retarget, or the encoding of some target
\* within the network's limit.
LEMMA NextBits ==
    ASSUME NEW c \in CompactTargets, NEW ts \in Int, NEW h \in Nat
    PROVE  LET next == from_next_work_required_dogecoin(c, ts, h)
           IN  \/ NoRetargeting /\ next = c
               \/ \E t \in Target : t <= MaxAttainable /\ next = to_compact_lossy(t)
<1> DEFINE t == from_compact(c)
           hi == max_transition_threshold_dogecoin(t, h)
           re == Scaled(t, ts, h)
<1>0. MaxAttainable \in Nat /\ MaxAttainable < Pow[Size] /\ Pow[Size] \in Nat /\ Pow[Size] > 0
  BY LimitFits
<1>1. t \in Nat
  BY FromCompactNat
<1> HIDE DEF t
<1>2. hi \in Nat /\ hi <= MaxAttainable
  <2>1. (t + (t \div 2)) % Pow[Size] \in Nat /\ (4 * t) % Pow[Size] \in Nat
    BY <1>0, <1>1, ModLe
  <2> QED
    BY <1>0, <2>1 DEF max_transition_threshold_dogecoin, max_transition_threshold_unchecked, MinOf
<1>3. re \in Nat
  <2> DEFINE mt == modulated_timespan(ts, h)
             T == pow_target_timespan(h)
  <2>1. mt \in Nat /\ T \in Nat /\ T > 0
    BY ModulatedRange, TimespanAssumption, Zenon
  <2>2. re = ((t * mt) % Pow[Size]) \div T
    BY DEF Scaled
  <2> HIDE DEF mt, T
  <2>3. (t * mt) % Pow[Size] \in Nat
    BY <1>0, <1>1, <2>1, ModLe
  <2> QED
    BY <2>1, <2>2, <2>3, DivMulLe
<1>4. from_next_work_required_dogecoin(c, ts, h) =
        IF NoRetargeting THEN c
        ELSE IF re >= hi THEN to_compact_lossy(hi) ELSE to_compact_lossy(re)
  BY DEF from_next_work_required_dogecoin, t
<1> HIDE DEF hi, re
<1>5. hi \in Target /\ (~(re >= hi) => re \in Target /\ re <= MaxAttainable)
  BY <1>0, <1>2, <1>3 DEF Target
<1> QED
  BY <1>2, <1>4, <1>5, Zenon

-----------------------------------------------------------------------------
(* Invariance *)

\* Bits are well formed, within the network's limit, and canonical.
IInv == TypeOK /\ TargetAttainable /\ CanonicalBits

\* The invariant holds of the bits a walk starts from.
LEMMA InitIInv == Init => IInv
  BY StartBitsAssumption DEF Init, IInv, TypeOK, TargetAttainable, CanonicalBits

\* Every adjustment keeps the invariant: the limit is applied before the
\* encoding, the encoding rounds down, and it is stable.
LEMMA NextIInv == IInv /\ [Next]_vars => IInv'
<1> SUFFICES ASSUME IInv, [Next]_vars
             PROVE  IInv'
  OBVIOUS
<1>1. CASE UNCHANGED vars
  BY <1>1 DEF IInv, TypeOK, TargetAttainable, CanonicalBits, vars
<1>2. ASSUME NEW ts \in Int, NEW h \in 0 .. MaxHeight,
             bits' = from_next_work_required_dogecoin(bits, ts, h),
             height' = h, boundary' \in Times
      PROVE  IInv'
  <2>1. bits \in CompactTargets /\ h \in Nat
    BY HeightAssumption DEF IInv, TypeOK
  <2>2. \/ bits' = bits
        \/ \E t \in Target : t <= MaxAttainable /\ bits' = to_compact_lossy(t)
    BY <1>2, <2>1, NextBits
  <2>3. /\ bits' \in CompactTargets
        /\ from_compact(bits') <= MaxAttainable
        /\ Canonical(bits')
    <3>1. CASE bits' = bits
      BY <3>1 DEF IInv, TypeOK, TargetAttainable, CanonicalBits
    <3>2. ASSUME NEW t \in Target, t <= MaxAttainable, bits' = to_compact_lossy(t)
          PROVE  <2>3!1 /\ <2>3!2 /\ <2>3!3
      <4>1. Attainable(t) \in Nat /\ Attainable(t) <= t /\ t \in Nat /\ MaxAttainable \in Nat
        BY CompactRoundsDown, LimitFits, PowPositive, SizeAssumption DEF Target
      <4>2. from_compact(bits') <= MaxAttainable
        BY <3>2, <4>1 DEF Attainable
      <4> QED
        BY <3>2, <4>2, ToCompactType, CompactCanonical
    <3> QED
      BY <2>2, <3>1, <3>2
  <2> QED
    BY <1>2, <2>3 DEF IInv, TypeOK, TargetAttainable, CanonicalBits
<1>3. ASSUME NEW time \in Times, NEW h \in 0 .. MaxHeight, Adjust(time, h)
      PROVE  IInv'
  <2> DEFINE ts == time - boundary
  <2>1. ts \in Int
    BY TimesAssumption DEF IInv, TypeOK
  <2>2. bits' = from_next_work_required_dogecoin(bits, ts, h) /\ height' = h /\ boundary' \in Times
    BY <1>3 DEF Adjust, from_header_difficulty_adjustment_dogecoin
  <2> HIDE DEF ts
  <2> QED
    BY <1>2, <2>1, <2>2
<1>4. ASSUME NEW ts \in SlowTimespans, NEW h \in 0 .. MaxHeight, AdjustSlow(ts, h)
      PROVE  IInv'
  <2>1. ts \in Int /\ boundary' \in Times
    BY <1>4, SlowAssumption DEF AdjustSlow, IInv, TypeOK
  <2> QED
    BY <1>2, <1>4, <2>1 DEF AdjustSlow
<1> QED
  BY <1>1, <1>3, <1>4 DEF Next, SlowNext

\* Along every chain of adjustments the bits are a well-formed u32.
THEOREM TypeCorrect == Spec => []TypeOK
<1>1. IInv => TypeOK
  BY DEF IInv
<1> QED
  BY InitIInv, NextIInv, <1>1, PTL DEF Spec

\* Along every chain of adjustments from_next_work_required_dogecoin keeps the
\* target within Params::max_attainable_target.
THEOREM TargetStaysAttainable == Spec => []TargetAttainable
<1>1. IInv => TargetAttainable
  BY DEF IInv
<1> QED
  BY InitIInv, NextIInv, <1>1, PTL DEF Spec

\* Along every chain of adjustments the bits are the canonical encoding of
\* their target.
THEOREM BitsStayCanonical == Spec => []CanonicalBits
<1>1. IInv => CanonicalBits
  BY DEF IInv
<1> QED
  BY InitIInv, NextIInv, <1>1, PTL DEF Spec

\* No adjustment along a chain wraps around in the 256-bit product of target
\* and timespan.
THEOREM ProductNeverWraps == Spec => []ProductFits
<1>1. IInv => ProductFits
  <2> SUFFICES ASSUME IInv, ~NoRetargeting, NEW ts \in Timespans, NEW h \in height .. MaxHeight
               PROVE  from_compact(bits) * modulated_timespan(ts, h) < Pow[Size]
    BY DEF ProductFits
  <2> DEFINE t == from_compact(bits)
             mt == modulated_timespan(ts, h)
             T == pow_target_timespan(h)
  <2>1. ts \in Int /\ h \in Nat
    BY TimesAssumption, HeightAssumption DEF IInv, TypeOK, Timespans
  <2>2. mt \in Nat /\ mt <= 4 * T /\ T \in Nat
    BY <2>1, ModulatedRange, TimespanAssumption, Zenon
  <2>3. MaxAttainable * (4 * T) < Pow[Size]
    BY <2>1, HeadroomAt
  <2>4. t \in Nat /\ t <= MaxAttainable /\ MaxAttainable \in Nat /\ Pow[Size] \in Nat
    BY FromCompactNat, MaxAttainableAssumption, PowPositive, SizeAssumption
       DEF IInv, TypeOK, TargetAttainable, Target
  <2> HIDE DEF t, mt, T
  <2>5. t * mt <= MaxAttainable * mt /\ MaxAttainable * mt <= MaxAttainable * (4 * T)
    BY <2>2, <2>4
  <2> QED
    BY <2>2, <2>3, <2>4, <2>5 DEF t, mt
<1> QED
  BY InitIInv, NextIInv, <1>1, PTL DEF Spec

\* The bits that from_next_work_required_dogecoin computes stay of their type,
\* within the limit, canonical and small enough to be multiplied, for every
\* radix, width, limit, set of times and length of the chain.
THEOREM AdjustmentsSound == Spec => []BitsSound
  BY TypeCorrect, TargetStaysAttainable, BitsStayCanonical, ProductNeverWraps, PTL DEF BitsSound

-----------------------------------------------------------------------------
(* Monotonicity *)

\* The compact form keeps the leading bytes of a target: it clears the bytes
\* below some place, which is the lower the smaller the target is.
LEMMA AttainableShape ==
    ASSUME NEW t \in Target
    PROVE  \E e \in 0 .. Size :
              /\ Attainable(t) = (t \div Pow[e]) * Pow[e]
              /\ t < SignBit * Pow[e]
              /\ e > 0 => (Pow[2] \div 2) * Pow[e] <= t
<1> DEFINE n == NumBytes(t)
           m == Mantissa(t, n)
           c == to_compact_lossy(t)
           v == from_compact(c)
           Shape(e) == /\ v = (t \div Pow[e]) * Pow[e]
                       /\ t < SignBit * Pow[e]
                       /\ e > 0 => (Pow[2] \div 2) * Pow[e] <= t
<1>0. t \in Nat /\ t < Pow[Size] /\ Pow[Size] \in Nat
  BY PowPositive, SizeAssumption DEF Target
<1>1. /\ n \in 0 .. Size /\ t < Pow[n] /\ (n > 0 => Pow[n - 1] <= t)
      /\ m \in 0 .. Pow[3] - 1
  BY NumBytesSpec, MantissaRange
<1>2. c = IF m >= SignBit THEN [size |-> n + 1, mant |-> m \div Base]
                          ELSE [size |-> n, mant |-> m]
  BY DEF to_compact_lossy
<1>3. /\ m \in Nat /\ Base \in Nat /\ Base > 0 /\ SignBit \in Nat
      /\ Pow[2] \in Nat /\ Pow[3] \in Nat /\ Pow[0] = 1
  BY <1>1, PowPositive, PowAssumption, SizeAssumption, BaseAssumption, SignBitFacts
<1>4. SUFFICES \E e \in 0 .. Size : Shape(e)
  BY DEF Attainable
<1> HIDE DEF n, m, v, c
<1>5. ASSUME t < SignBit, n <= 3, v = t
      PROVE  \E e \in 0 .. Size : Shape(e)
  <2>1. Shape(0)
    BY <1>0, <1>3, <1>5
  <2> QED
    BY <2>1, SizeAssumption
<1>6. CASE n <= 3 /\ ~(m >= SignBit)
  <2> DEFINE p == Pow[3 - n]
  <2>1. p \in Nat /\ p > 0
    BY <1>1, <1>6, PowPositive, SizeAssumption
  <2>2. m = t * p
    BY <1>6 DEF m, Mantissa
  <2>3. m \div p = t /\ t <= m
    BY <1>0, <2>1, <2>2, MulDiv
  <2>4. c = [size |-> n, mant |-> m] /\ t < SignBit /\ n \in Nat
    BY <1>0, <1>1, <1>2, <1>3, <1>6, <2>3
  <2>5. v = t
    BY <1>3, <1>6, <2>3, <2>4, FromCompactSmall DEF v
  <2> QED
    BY <1>5, <1>6, <2>4, <2>5
<1>7. CASE n < 3 /\ m >= SignBit
  <2> DEFINE p == Pow[3 - n]
             r == Pow[2 - n]
  <2>1. /\ 2 - n \in 0 .. Size - 1 /\ (2 - n) + 1 = 3 - n /\ 2 - n \in 0 .. Size
        /\ n \in Nat /\ n + 1 \in Nat /\ n + 1 <= 3 /\ 3 - (n + 1) = 2 - n
    BY <1>1, <1>7, SizeAssumption
  <2>2. p = Base * r /\ r \in Nat /\ r > 0 /\ p \in Nat /\ p > 0
    BY <2>1, <1>3, PowPositive, PowAssumption
  <2>3. m = t * p
    BY <1>7, <2>1 DEF m, Mantissa
  <2>4. m \div p = t
    BY <1>0, <2>2, <2>3, MulDiv
  <2>5. m \div Base \in Nat /\ (m \div Base) \div r = t
    BY <1>3, <2>2, <2>4, DivDiv, DivMulLe
  <2>6. t < SignBit
    <3>1. Pow[n] <= Pow[2] /\ Pow[n] \in Nat
      BY <1>1, <1>7, <2>1, PowMono, PowPositive, SizeAssumption
    <3> QED
      BY <1>0, <1>1, <1>3, <3>1, SignBitFacts
  <2>7. c = [size |-> n + 1, mant |-> m \div Base]
    BY <1>2, <1>7
  <2>8. v = t
    BY <2>1, <2>5, <2>6, <2>7, FromCompactSmall DEF v
  <2> QED
    BY <1>5, <1>7, <2>1, <2>6, <2>8
<1>8. CASE n >= 3 /\ (n = 3 => m >= SignBit)
  <2> DEFINE p == Pow[n - 3]
  <2>1. n - 3 \in Nat /\ n - 3 \in 0 .. Size /\ n \in 1 .. Size /\ n > 2
    BY <1>1, <1>8, SizeAssumption
  <2>2. p \in Nat /\ p > 0
    BY <2>1, PowPositive
  <2>3. m = t \div p
    <3>1. CASE n = 3
      <4>1. m = t * Pow[0] /\ p = 1
        BY <3>1, PowAssumption DEF m, Mantissa
      <4> QED
        BY <1>0, <4>1, PowAssumption
    <3>2. CASE n > 3
      BY <1>1, <3>2, SizeAssumption, ShiftUnmasked DEF m, Mantissa, ShrBytes
    <3> QED
      BY <1>1, <1>8, <3>1, <3>2
  <2>4. m * p <= t /\ t < (m + 1) * p
    BY <1>0, <2>2, <2>3, DivMulLe
  <2>5. CASE ~(m >= SignBit)
    <3>1. n > 3 /\ n \in Nat /\ n < Size + 3 /\ c = [size |-> n, mant |-> m] /\ m < SignBit
      BY <1>1, <1>2, <1>3, <1>8, <2>5, SizeAssumption
    <3>2. m * p < Pow[Size]
      BY <1>0, <1>3, <2>2, <2>4
    <3>3. v = m * p
      BY <1>3, <3>1, <3>2, FromCompactExact DEF v
    <3>4. Pow[2] <= m
      BY <3>1, MantissaRange DEF m, n
    <3>5. t < SignBit * p
      <4>1. (m + 1) * p <= SignBit * p
        BY <1>3, <2>2, <3>1, MulMono
      <4> QED
        BY <1>0, <1>3, <2>2, <2>4, <4>1
    <3>6. (Pow[2] \div 2) * p <= t
      <4>1. Pow[2] \div 2 \in Nat /\ Pow[2] \div 2 <= m
        BY <1>3, <3>4
      <4>2. (Pow[2] \div 2) * p <= m * p
        BY <1>3, <2>2, <4>1, MulMono
      <4> QED
        BY <1>0, <1>3, <2>2, <2>4, <4>1, <4>2
    <3>7. Shape(n - 3)
      BY <2>3, <3>3, <3>5, <3>6
    <3> QED
      BY <2>1, <3>7
  <2>6. CASE m >= SignBit
    <3> DEFINE q == m \div Base
               h == Pow[2] \div 2
               r == Base * p
    <3>1. /\ n + 1 > 3 /\ n + 1 \in Nat /\ n + 1 < Size + 3
          /\ c = [size |-> n + 1, mant |-> q]
      BY <1>1, <1>2, <1>8, <2>6, SizeAssumption
    <3>2. /\ Pow[(n + 1) - 3] = r /\ Pow[n - 2] = r /\ n - 2 \in 0 .. Size
          /\ r \in Nat /\ r > 0
      <4>1. n - 3 \in 0 .. Size - 1 /\ (n - 3) + 1 = (n + 1) - 3 /\ (n - 3) + 1 = n - 2
        BY <1>1, <1>8, SizeAssumption
      <4>2. n - 2 \in 0 .. Size
        BY <1>1, <1>8, SizeAssumption
      <4>3. Pow[(n - 3) + 1] = r
        BY <4>1, PowAssumption
      <4> QED
        BY <1>3, <2>2, <4>1, <4>2, <4>3
    <3>3. q = t \div r /\ q \in Nat /\ q * r <= t /\ t < (q + 1) * r
      <4>1. p * Base = r
        BY <1>3, <2>2
      <4>2. q = t \div r
        BY <1>0, <1>3, <2>2, <2>3, <4>1, DivDiv
      <4> QED
        BY <1>0, <3>2, <4>2, DivMulLe
    <3>4. h \in Nat /\ SignBit = h * Base
      BY SignBitFacts
    <3>5. q < SignBit
      <4>1. m < 2 * SignBit /\ 2 <= Base /\ q * Base <= m
        BY <1>1, <1>3, SignBitFacts, BaseAssumption, DivMulLe
      <4>2. q * 2 <= q * Base
        BY <1>3, <3>3, <4>1
      <4> HIDE DEF q
      <4> QED
        BY <1>3, <3>3, <4>1, <4>2
    <3> HIDE DEF q, h, r, p
    <3>6. v = q * r
      <4>1. q * Pow[(n + 1) - 3] < Pow[Size]
        BY <1>0, <3>2, <3>3
      <4> QED
        BY <3>1, <3>2, <3>3, <3>5, <4>1, FromCompactExact DEF v
    <3>7. t < SignBit * r
      <4>1. (q + 1) * r <= SignBit * r
        BY <1>3, <3>2, <3>3, <3>5, MulMono
      <4> QED
        BY <1>0, <1>3, <3>2, <3>3, <4>1
    <3>8. h * r <= t
      <4>1. h * r = SignBit * p
        BY <1>3, <2>2, <3>4 DEF r
      <4>2. SignBit * p <= m * p
        BY <1>3, <2>2, <2>6, MulMono
      <4> QED
        BY <1>0, <1>3, <2>2, <2>4, <4>1, <4>2
    <3>9. Shape(n - 2)
      BY <3>2, <3>3, <3>6, <3>7, <3>8 DEF h
    <3> QED
      BY <3>2, <3>9
  <2> QED
    BY <2>5, <2>6
<1> QED
  BY <1>1, <1>3, <1>6, <1>7, <1>8

\* The compact form keeps the order of targets, also between targets whose
\* encodings have different sizes.
THEOREM AttainableMonotone ==
    ASSUME NEW s \in Target, NEW t \in Target, s <= t
    PROVE  Attainable(s) <= Attainable(t)
<1> DEFINE h == Pow[2] \div 2
<1>0. s \in Nat /\ t \in Nat
  BY PowPositive, SizeAssumption DEF Target
<1>1. PICK d \in 0 .. Size : /\ Attainable(s) = (s \div Pow[d]) * Pow[d]
                             /\ s < SignBit * Pow[d]
                             /\ d > 0 => h * Pow[d] <= s
  BY AttainableShape
<1>2. PICK e \in 0 .. Size : /\ Attainable(t) = (t \div Pow[e]) * Pow[e]
                             /\ t < SignBit * Pow[e]
                             /\ e > 0 => h * Pow[e] <= t
  BY AttainableShape
<1>3. /\ Pow[d] \in Nat /\ Pow[d] > 0 /\ Pow[e] \in Nat /\ Pow[e] > 0
      /\ d \in Nat /\ e \in Nat
  BY <1>1, <1>2, PowPositive, SizeAssumption
<1>4. h \in Nat /\ SignBit = h * Base /\ SignBit \in Nat /\ Base \in Nat
  BY SignBitFacts, BaseAssumption
<1>5. /\ Attainable(s) \in Nat /\ Attainable(s) <= s
      /\ Attainable(t) \in Nat /\ Attainable(t) <= t
  BY CompactRoundsDown
<1> HIDE DEF h
\* The boundary between two places: what is encoded at place a is below what
\* is encoded at a higher place b.
<1>6. ASSUME NEW a \in 0 .. Size, NEW b \in 0 .. Size, a < b
      PROVE  SignBit * Pow[a] <= h * Pow[b]
  <2>1. a \in 0 .. Size - 1 /\ a + 1 \in Nat /\ a + 1 <= b /\ b <= Size /\ b \in Nat
    BY <1>6, SizeAssumption
  <2>2. Pow[a + 1] = Base * Pow[a] /\ Pow[a + 1] <= Pow[b]
    BY <2>1, PowAssumption, PowMono
  <2>3. Pow[a] \in Nat /\ Pow[b] \in Nat
    BY <1>6, PowPositive
  <2>4. SignBit * Pow[a] = h * (Base * Pow[a])
    BY <1>4, <2>3
  <2>5. (Base * Pow[a]) * h <= Pow[b] * h
    BY <1>4, <2>2, <2>3, MulMono
  <2> QED
    BY <1>4, <2>3, <2>4, <2>5
<1>7. CASE d = e
  <2>1. s \div Pow[d] <= t \div Pow[d] /\ s \div Pow[d] \in Nat /\ t \div Pow[d] \in Nat
    BY <1>0, <1>3, DivMono, DivMulLe
  <2> QED
    BY <1>1, <1>2, <1>3, <1>7, <2>1, MulMono
<1>8. CASE d < e
  <2>1. SignBit * Pow[d] <= h * Pow[e] /\ h * Pow[e] <= t
    BY <1>1, <1>2, <1>3, <1>6, <1>8
  <2>2. h <= t \div Pow[e] /\ t \div Pow[e] \in Nat
    BY <1>0, <1>2, <1>3, <1>4, <2>1, DivMulLe, DivMono, MulDiv
  <2>3. h * Pow[e] <= Attainable(t)
    BY <1>2, <1>3, <1>4, <2>2, MulMono
  <2> QED
    BY <1>0, <1>1, <1>3, <1>4, <1>5, <2>1, <2>3
<1>9. CASE e < d
  <2>1. SignBit * Pow[e] <= h * Pow[d] /\ h * Pow[d] <= s
    BY <1>1, <1>2, <1>3, <1>6, <1>9
  <2> QED
    BY <1>0, <1>2, <1>3, <1>4, <2>1
<1> QED
  BY <1>3, <1>7, <1>8, <1>9

\* A longer timespan stays longer through the division by eight, which
\* truncates towards zero, and through the clamps.
LEMMA ModulatedMonotone ==
    ASSUME NEW s \in Int, NEW u \in Int, s <= u, NEW h \in Nat
    PROVE  modulated_timespan(s, h) <= modulated_timespan(u, h)
<1> DEFINE T == pow_target_timespan(h)
           lo == T \div DecreaseLimit(h)
<1>1. T \in Nat
  BY TimespanAssumption DEF pow_target_timespan
<1>2. DecreaseLimit(h) \in {16, 8, 4}
  <2>1. h <= EarlyEnd \/ (h > EarlyEnd /\ h <= MidEnd) \/ h > MidEnd
    BY HeightAssumption
  <2> QED
    BY <2>1 DEF DecreaseLimit
<1>3. \A ts \in Int : modulated_timespan(ts, h) =
        IF is_digishield_activated(h)
          THEN Clamp(T + TruncDiv(ts - T, 8), T - (T \div 4), T + (T \div 2))
          ELSE Clamp(ts, lo, 4 * T)
  BY DEF modulated_timespan
<1>4. lo \in Nat /\ lo <= 4 * T
  BY <1>1, <1>2
<1> HIDE DEF T, lo
<1>5. /\ TruncDiv(s - T, 8) \in Int /\ TruncDiv(u - T, 8) \in Int
      /\ TruncDiv(s - T, 8) <= TruncDiv(u - T, 8)
  BY <1>1 DEF TruncDiv
<1>6. CASE is_digishield_activated(h)
  <2> DEFINE a == T + TruncDiv(s - T, 8)
             b == T + TruncDiv(u - T, 8)
             l == T - (T \div 4)
             k == T + (T \div 2)
  <2>1. a \in Int /\ b \in Int /\ a <= b /\ l \in Int /\ k \in Int /\ l <= k
    BY <1>1, <1>5
  <2>2. modulated_timespan(s, h) = Clamp(a, l, k) /\ modulated_timespan(u, h) = Clamp(b, l, k)
    BY <1>3, <1>6
  <2> HIDE DEF a, b, l, k
  <2> QED
    BY <2>1, <2>2 DEF Clamp
<1>7. CASE ~is_digishield_activated(h)
  BY <1>1, <1>3, <1>4, <1>7 DEF Clamp
<1> QED
  BY <1>6, <1>7

\* The target scaled by a longer timespan is no smaller, as long as the product
\* of target and timespan stays within 256 bits.
LEMMA ScaledMonotone ==
    ASSUME NEW t \in Nat, t <= MaxAttainable, ~NoRetargeting,
           NEW s \in Int, NEW u \in Int, s <= u, NEW h \in Nat
    PROVE  /\ Scaled(t, s, h) \in Nat /\ Scaled(t, u, h) \in Nat
           /\ Scaled(t, s, h) <= Scaled(t, u, h)
<1> DEFINE T == pow_target_timespan(h)
           ms == modulated_timespan(s, h)
           mu == modulated_timespan(u, h)
<1>1. /\ ms \in Nat /\ mu \in Nat /\ ms <= mu /\ mu <= 4 * T
      /\ T \in Nat /\ T > 0
  BY ModulatedRange, ModulatedMonotone, TimespanAssumption, Zenon
<1>2. MaxAttainable * (4 * T) < Pow[Size]
  BY HeadroomAt
<1>3. MaxAttainable \in Nat /\ Pow[Size] \in Nat /\ Pow[Size] > 0
  BY LimitFits
<1>4. /\ Scaled(t, s, h) = ((t * ms) % Pow[Size]) \div T
      /\ Scaled(t, u, h) = ((t * mu) % Pow[Size]) \div T
  BY DEF Scaled
<1> HIDE DEF T, ms, mu
<1>5. /\ t * ms \in Nat /\ t * mu \in Nat
      /\ t * ms <= t * mu
      /\ t * mu <= t * (4 * T) /\ t * (4 * T) <= MaxAttainable * (4 * T)
  BY <1>1, <1>3
<1>6. t * mu < Pow[Size]
  BY <1>1, <1>2, <1>3, <1>5
<1>7. t * ms < Pow[Size]
  BY <1>3, <1>5, <1>6
<1>8. /\ Scaled(t, s, h) = (t * ms) \div T
      /\ Scaled(t, u, h) = (t * mu) \div T
  BY <1>3, <1>4, <1>5, <1>6, <1>7, ModFits
<1> QED
  BY <1>1, <1>5, <1>8, DivMono, DivMulLe

\* Whatever bits a chain of adjustments has reached, a longer timespan gives no
\* smaller target.
LEMMA AdjustmentMonotone == IInv => RetargetMonotone
<1> SUFFICES ASSUME IInv, NEW h \in height .. MaxHeight,
                    NEW s \in Timespans, NEW u \in Timespans, s <= u
             PROVE  from_compact(from_next_work_required_dogecoin(bits, s, h))
                        <= from_compact(from_next_work_required_dogecoin(bits, u, h))
  BY DEF RetargetMonotone
<1> DEFINE t == from_compact(bits)
           hi == max_transition_threshold_dogecoin(t, h)
           rs == Scaled(t, s, h)
           ru == Scaled(t, u, h)
<1>1. s \in Int /\ u \in Int /\ h \in Nat
  BY TimesAssumption, HeightAssumption DEF IInv, TypeOK, Timespans
<1>2. t \in Nat /\ t <= MaxAttainable
  BY FromCompactNat DEF IInv, TypeOK, TargetAttainable
<1>3. MaxAttainable \in Nat /\ MaxAttainable < Pow[Size] /\ Pow[Size] \in Nat /\ Pow[Size] > 0
  BY LimitFits
<1>4. CASE NoRetargeting
  <2>1. /\ from_next_work_required_dogecoin(bits, s, h) = bits
        /\ from_next_work_required_dogecoin(bits, u, h) = bits
    BY <1>4 DEF from_next_work_required_dogecoin
  <2> QED
    BY <1>2, <2>1
<1>5. CASE ~NoRetargeting
  <2>1. rs \in Nat /\ ru \in Nat /\ rs <= ru
    BY <1>1, <1>2, <1>5, ScaledMonotone
  <2>2. /\ from_next_work_required_dogecoin(bits, s, h) =
             IF rs >= hi THEN to_compact_lossy(hi) ELSE to_compact_lossy(rs)
        /\ from_next_work_required_dogecoin(bits, u, h) =
             IF ru >= hi THEN to_compact_lossy(hi) ELSE to_compact_lossy(ru)
    BY <1>5 DEF from_next_work_required_dogecoin
  <2> HIDE DEF t
  <2>3. hi \in Nat /\ hi <= MaxAttainable
    <3>1. (t + (t \div 2)) % Pow[Size] \in Nat /\ (4 * t) % Pow[Size] \in Nat
      BY <1>2, <1>3, ModLe
    <3> QED
      BY <1>3, <3>1 DEF max_transition_threshold_dogecoin, max_transition_threshold_unchecked, MinOf
  <2> HIDE DEF hi, rs, ru
  <2>4. PICK a \in Target, b \in Target :
          /\ a <= b
          /\ from_next_work_required_dogecoin(bits, s, h) = to_compact_lossy(a)
          /\ from_next_work_required_dogecoin(bits, u, h) = to_compact_lossy(b)
    <3>1. hi \in Target /\ (~(rs >= hi) => rs \in Target) /\ (~(ru >= hi) => ru \in Target)
      BY <1>3, <2>1, <2>3 DEF Target
    <3>2. CASE rs >= hi
      BY <2>1, <2>2, <2>3, <3>1, <3>2
    <3>3. CASE ~(rs >= hi) /\ ru >= hi
      BY <2>1, <2>2, <2>3, <3>1, <3>3
    <3>4. CASE ~(ru >= hi)
      BY <2>1, <2>2, <2>3, <3>1, <3>4
    <3> QED
      BY <3>2, <3>3, <3>4
  <2> QED
    BY <2>4, AttainableMonotone DEF Attainable
<1> QED
  BY <1>4, <1>5

\* Along every chain of adjustments a slower epoch never makes mining harder:
\* the target from_next_work_required_dogecoin computes is monotone in the
\* timespan, for every radix, width, limit and set of times.
THEOREM RetargetsMonotone == Spec => []RetargetMonotone
  BY InitIInv, NextIInv, AdjustmentMonotone, PTL DEF Spec

-----------------------------------------------------------------------------
(* Thresholds *)

\* A canonical target of more than three bytes is a multiple of four: its last
\* byte is zero.
LEMMA CanonicalMultiple ==
    ASSUME NEW t \in Target, Attainable(t) = t, t >= Pow[3], Base % 4 = 0
    PROVE  \E w \in Nat : t = 4 * w
<1>0. t \in Nat /\ Pow[3] \in Nat /\ Pow[0] = 1
  BY PowPositive, PowAssumption, SizeAssumption DEF Target
<1>1. PICK e \in 0 .. Size : t = (t \div Pow[e]) * Pow[e] /\ t < SignBit * Pow[e]
  BY AttainableShape
<1>2. e # 0
  BY <1>0, <1>1, SignBitFacts
<1>3. e - 1 \in 0 .. Size - 1 /\ (e - 1) + 1 = e /\ e - 1 \in 0 .. Size
  BY <1>1, <1>2, SizeAssumption
<1>4. Pow[e] = Base * Pow[e - 1] /\ Pow[e - 1] \in Nat /\ Pow[e] \in Nat /\ Pow[e] > 0
  BY <1>1, <1>3, PowAssumption, PowPositive
<1>5. PICK b \in Nat : Base = 4 * b
  <2>1. Base = 4 * (Base \div 4) /\ Base \div 4 \in Nat
    BY BaseAssumption
  <2> QED
    BY <2>1
<1> DEFINE k == t \div Pow[e]
<1>6. k \in Nat
  BY <1>0, <1>4, DivMulLe
<1> HIDE DEF k
<1>7. t = k * ((4 * b) * Pow[e - 1])
  BY <1>1, <1>4, <1>5 DEF k
<1>8. t = 4 * (k * (b * Pow[e - 1])) /\ k * (b * Pow[e - 1]) \in Nat
  BY <1>4, <1>5, <1>6, <1>7
<1> QED
  BY <1>8

\* The scaled target is no smaller than the lower threshold.  Under Digishield
\* the target has to be a multiple of four, or the quotient may be one below;
\* before it the planned timespan has to be a multiple of the three limits.
LEMMA ScaledAboveThreshold ==
    ASSUME NEW t \in Nat, t <= MaxAttainable, ~NoRetargeting, NEW w \in Nat, t = 4 * w,
           NEW ts \in Int, NEW h \in Nat, EpochTimespan % 16 = 0
    PROVE  /\ min_transition_threshold_dogecoin(t, h) \in Nat
           /\ min_transition_threshold_dogecoin(t, h) <= t
           /\ min_transition_threshold_dogecoin(t, h) <= Scaled(t, ts, h)
<1> DEFINE T == pow_target_timespan(h)
           mt == modulated_timespan(ts, h)
           lo == min_transition_threshold_dogecoin(t, h)
           d == DecreaseLimit(h)
<1>1. mt \in Nat /\ mt <= 4 * T /\ T \in Nat /\ T > 0
  BY ModulatedRange, TimespanAssumption, Zenon
<1>2. d \in {16, 8, 4}
  <2>1. h <= EarlyEnd \/ (h > EarlyEnd /\ h <= MidEnd) \/ h > MidEnd
    BY HeightAssumption
  <2> QED
    BY <2>1 DEF DecreaseLimit
<1>3. /\ MaxAttainable \in Nat /\ Pow[Size] \in Nat /\ Pow[Size] > 0
      /\ MaxAttainable * (4 * T) < Pow[Size]
  BY LimitFits, HeadroomAt
<1>4. Scaled(t, ts, h) = ((t * mt) % Pow[Size]) \div T
  BY DEF Scaled
<1>5. mt = IF is_digishield_activated(h)
             THEN Clamp(T + TruncDiv(ts - T, 8), T - (T \div 4), T + (T \div 2))
             ELSE Clamp(ts, T \div d, 4 * T)
  BY DEF modulated_timespan
<1>6. lo = IF is_digishield_activated(h) THEN t - (t \div 4) ELSE t \div d
  BY DEF min_transition_threshold_dogecoin
<1>7. ~is_digishield_activated(h) => T = EpochTimespan
  BY DEF pow_target_timespan
<1> HIDE DEF T, mt, lo, d
<1>8. Scaled(t, ts, h) = (t * mt) \div T /\ t * mt \in Nat
  <2>1. t * mt <= t * (4 * T) /\ t * (4 * T) <= MaxAttainable * (4 * T) /\ t * mt \in Nat
    BY <1>1, <1>3
  <2>2. t * mt < Pow[Size]
    BY <1>1, <1>3, <2>1
  <2> QED
    BY <1>3, <1>4, <2>1, <2>2, ModFits
<1>9. lo \in Nat /\ lo <= t
  BY <1>2, <1>6
<1>10. lo * T <= t * mt
  <2>1. CASE is_digishield_activated(h)
    <3> DEFINE j == T \div 4
    <3>1. j \in Nat /\ 4 * j <= T
      BY <1>1
    <3>2. T - j <= mt
      <4>1. TruncDiv(ts - T, 8) \in Int
        BY <1>1 DEF TruncDiv
      <4> QED
        BY <1>1, <1>5, <2>1, <4>1 DEF Clamp
    <3> HIDE DEF j
    <3>3. lo = 3 * w
      BY <1>6, <2>1
    <3>4. w * (4 * j) <= w * T
      BY <1>1, <3>1
    <3>5. t * (T - j) = 4 * (w * T) - w * (4 * j)
      BY <1>1, <3>1
    <3>6. t * (T - j) <= t * mt
      BY <1>1, <3>1, <3>2
    <3>7. lo * T = 3 * (w * T) /\ w * T \in Nat /\ w * (4 * j) \in Nat
      BY <1>1, <3>1, <3>3
    <3> QED
      BY <1>8, <3>4, <3>5, <3>6, <3>7
  <2>2. CASE ~is_digishield_activated(h)
    <3> DEFINE j == T \div d
               q == t \div d
    <3>1. j \in Nat /\ T = d * j
      BY <1>1, <1>2, <1>7, <2>2, TimespanAssumption
    <3>2. j <= mt
      BY <1>1, <1>2, <1>5, <2>2, <3>1 DEF Clamp
    <3>3. q \in Nat /\ q * d <= t /\ lo = q /\ d \in Nat
      BY <1>2, <1>6, <2>2, DivMulLe
    <3> HIDE DEF j, q
    <3>4. lo * T = (q * d) * j
      BY <3>1, <3>3
    <3>5. (q * d) * j <= t * j
      BY <3>1, <3>3, MulMono
    <3>6. t * j <= t * mt
      BY <1>1, <3>1, <3>2
    <3> QED
      BY <1>1, <1>8, <1>9, <3>1, <3>3, <3>4, <3>5, <3>6
  <2> QED
    BY <2>1, <2>2
<1>11. (lo * T) \div T = lo
  BY <1>1, <1>9, MulDiv
<1>12. lo <= (t * mt) \div T
  BY <1>1, <1>8, <1>9, <1>10, <1>11, DivMono
<1> QED
  BY <1>8, <1>9, <1>12 DEF lo

\* One adjustment of canonical bits stays within the thresholds of their target.
LEMMA AdjustmentWithin ==
    ASSUME NEW c \in CompactTargets, from_compact(c) <= MaxAttainable, Canonical(c),
           ~NoRetargeting, NEW ts \in Int, NEW h \in Nat,
           Base % 4 = 0, EpochTimespan % 16 = 0
    PROVE  LET t == from_compact(c)
               u == from_compact(from_next_work_required_dogecoin(c, ts, h))
           IN  /\ u <= max_transition_threshold_dogecoin(t, h)
               /\ t >= Pow[3] => u >= Attainable(min_transition_threshold_dogecoin(t, h))
<1> DEFINE t == from_compact(c)
           hi == max_transition_threshold_dogecoin(t, h)
           lo == min_transition_threshold_dogecoin(t, h)
           re == Scaled(t, ts, h)
           u == from_compact(from_next_work_required_dogecoin(c, ts, h))
           a == IF re >= hi THEN hi ELSE re
<1>1. t \in Nat /\ t <= MaxAttainable
  BY FromCompactNat
<1>2. /\ MaxAttainable \in Nat /\ MaxAttainable < Pow[Size]
      /\ Pow[Size] \in Nat /\ Pow[Size] > 0
  BY LimitFits
<1>3. Attainable(t) = t
  BY DEF Canonical, Attainable
<1>4. u = Attainable(a)
  BY DEF from_next_work_required_dogecoin, Attainable
<1> HIDE DEF t, u
<1>5. t \in Target
  BY <1>1, <1>2 DEF Target
<1>6. 4 * t < Pow[Size]
  <2>1. MaxAttainable * (4 * EpochTimespan) < Pow[Size]
    BY HeadroomAssumption
  <2>2. 4 * MaxAttainable <= MaxAttainable * (4 * EpochTimespan)
    BY <1>2, TimespanAssumption
  <2> QED
    BY <1>1, <1>2, <2>1, <2>2, TimespanAssumption
<1>7. hi \in Nat /\ hi <= MaxAttainable /\ t <= hi
  <2>1. (t + (t \div 2)) % Pow[Size] = t + (t \div 2) /\ (4 * t) % Pow[Size] = 4 * t
    BY <1>1, <1>2, <1>6, ModFits
  <2> QED
    BY <1>1, <1>2, <2>1 DEF max_transition_threshold_dogecoin, max_transition_threshold_unchecked, MinOf
<1>8. re \in Nat
  <2>1. ts <= ts
    OBVIOUS
  <2> QED
    BY <1>1, <2>1, ScaledMonotone, Zenon
<1> HIDE DEF hi, lo, re
<1>9. a \in Target /\ a \in Nat /\ a <= hi
  BY <1>2, <1>7, <1>8 DEF Target
<1> HIDE DEF a
<1>10. u <= hi
  BY <1>4, <1>7, <1>9, CompactRoundsDown
<1>11. ASSUME t >= Pow[3]
       PROVE  Attainable(lo) <= u
  <2>1. PICK w \in Nat : t = 4 * w
    BY <1>3, <1>5, <1>11, CanonicalMultiple
  <2>2. lo \in Nat /\ lo <= t /\ lo <= re
    BY <1>1, <2>1, ScaledAboveThreshold, Zenon DEF lo, re
  <2>3. lo \in Target /\ lo <= a
    BY <1>1, <1>2, <1>7, <1>8, <2>2 DEF Target, a
  <2> QED
    BY <1>4, <1>9, <2>3, AttainableMonotone
<1>12. /\ u \in Nat
       /\ t >= Pow[3] => Attainable(lo) \in Nat
  <2>1. u \in Nat
    BY <1>4, <1>9, CompactRoundsDown
  <2>2. ASSUME t >= Pow[3]
        PROVE  Attainable(lo) \in Nat
    <3>1. PICK w \in Nat : t = 4 * w
      BY <1>3, <1>5, <2>2, CanonicalMultiple
    <3>2. lo \in Nat /\ lo <= t
      BY <1>1, <3>1, ScaledAboveThreshold, Zenon DEF lo
    <3>3. lo \in Target
      BY <1>1, <1>2, <3>2 DEF Target
    <3> QED
      BY <3>3, CompactRoundsDown
  <2> QED
    BY <2>1, <2>2
<1> QED
  BY <1>10, <1>11, <1>12 DEF t, u, hi, lo
=============================================================================
