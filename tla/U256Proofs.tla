----------------------------- MODULE U256Proofs -----------------------------
(***************************************************************************)
(* Proofs about the half-word arithmetic of U256, for quarters of any      *)
(* size: addition, subtraction, increment and the multiplication by a      *)
(* quarter are exact.  Then the bitwise long division, for every width and *)
(* every pair of numbers: the loop keeps dividend = ret * divisor +        *)
(* sub_copy, and when the shift reaches zero what is left is below the     *)
(* divisor.                                                                *)
(***************************************************************************)
EXTENDS U256, NatFacts, TLAPS

\* A half has at least two values.
LEMMA HalfPositive == Half \in Nat /\ Half > 1
<1>1. ASSUME NEW q \in Nat, q > 1 PROVE q * q \in Nat /\ q * q > 1
  <2>1. 2 * q <= q * q
    BY <1>1, MulMono
  <2> QED BY <1>1, <2>1
<1> QED BY <1>1, QuarterAssumption DEF Half

\* u128::overflowing_add: the sum of two halves with its carry.
LEMMA AddHalf ==
    ASSUME NEW u \in Halves, NEW v \in Nat, v <= Half
    PROVE  /\ Add(u, v).over \in BOOLEAN
           /\ u + v < 2 * Half => Add(u, v).val \in Halves
           /\ Add(u, v).over => Add(u, v).val = u + v - Half /\ u + v >= Half
           /\ ~Add(u, v).over => Add(u, v).val = u + v
  BY HalfPositive DEF Add, Halves

\* Carries 0 or 1 out of the low and of the high halves describe the result
\* of overflowing_add.
LEMMA AddCarries ==
    ASSUME NEW x \in U256, NEW y \in U256
    PROVE  LET s == overflowing_add(x, y)
           IN  \E c \in {0, 1}, d \in {0, 1} :
                  /\ s.val = <<x[1] + y[1] + c - d * Half, x[2] + y[2] - c * Half>>
                  /\ s.val \in U256
                  /\ s.over \in BOOLEAN
                  /\ s.over <=> d = 1
<1> DEFINE high == Add(x[1], y[1])
           low == Add(x[2], y[2])
           carried == Add(high.val, 1)
           s == overflowing_add(x, y)
<1>1. Half \in Nat /\ Half > 1
  BY HalfPositive
<1>2. x[1] \in Halves /\ x[2] \in Halves /\ y[1] \in Halves /\ y[2] \in Halves
  BY DEF U256
<1>3. \A h \in Halves : h \in Nat /\ h < Half
  BY <1>1 DEF Halves
<1>4. /\ high.over \in BOOLEAN /\ high.val \in Halves
      /\ high.over => high.val = x[1] + y[1] - Half
      /\ ~high.over => high.val = x[1] + y[1]
  BY <1>1, <1>2, <1>3, AddHalf
<1>5. /\ low.over \in BOOLEAN /\ low.val \in Halves
      /\ low.over => low.val = x[2] + y[2] - Half
      /\ ~low.over => low.val = x[2] + y[2]
  BY <1>1, <1>2, <1>3, AddHalf
<1>6. /\ carried.over \in BOOLEAN /\ carried.val \in Halves
      /\ carried.over => carried.val = high.val + 1 - Half /\ high.val + 1 >= Half
      /\ ~carried.over => carried.val = high.val + 1
  <2> HIDE DEF high
  <2> QED BY <1>1, <1>3, <1>4, AddHalf
<1>7. ~(high.over /\ carried.over)
  <2> HIDE DEF high, carried
  <2> QED BY <1>1, <1>2, <1>3, <1>4, <1>6
<1>8. CASE low.over
  <2>1. s.val = <<carried.val, low.val>> /\ s.over \in BOOLEAN /\ (s.over <=> high.over \/ carried.over)
    BY <1>4, <1>6, <1>8 DEF overflowing_add
  <2>2. low.val = x[2] + y[2] - 1 * Half
    BY <1>1, <1>2, <1>3, <1>5, <1>8
  <2>3. CASE high.over \/ carried.over
    <3>1. carried.val = x[1] + y[1] + 1 - 1 * Half
      <4> HIDE DEF high, carried
      <4> QED BY <1>1, <1>2, <1>3, <1>4, <1>6, <1>7, <2>3
    <3>2. s.val \in U256 /\ s.over
      BY <1>5, <1>6, <2>1, <2>3 DEF U256
    <3> HIDE DEF high, low, carried
    <3> QED BY <2>1, <2>2, <3>1, <3>2
  <2>4. CASE ~(high.over \/ carried.over)
    <3>1. carried.val = x[1] + y[1] + 1 - 0 * Half
      <4> HIDE DEF high, carried
      <4> QED BY <1>1, <1>2, <1>3, <1>4, <1>6, <2>4
    <3>2. s.val \in U256 /\ ~s.over
      BY <1>5, <1>6, <2>1, <2>4 DEF U256
    <3> HIDE DEF high, low, carried
    <3> QED BY <2>1, <2>2, <3>1, <3>2
  <2> QED BY <2>3, <2>4
<1>9. CASE ~low.over
  <2>1. s.val = <<high.val, low.val>> /\ s.over \in BOOLEAN /\ (s.over <=> high.over)
    BY <1>4, <1>9 DEF overflowing_add
  <2>2. low.val = x[2] + y[2] - 0 * Half
    BY <1>1, <1>2, <1>3, <1>5, <1>9
  <2>3. s.val \in U256
    BY <1>4, <1>5, <2>1 DEF U256
  <2>4. \E d \in {0, 1} : high.val = x[1] + y[1] + 0 - d * Half /\ (s.over <=> d = 1)
    <3> HIDE DEF high, low
    <3>1. CASE high.over
      <4>1. high.val = x[1] + y[1] + 0 - 1 * Half
        BY <1>1, <1>2, <1>3, <1>4, <3>1
      <4> QED BY <2>1, <3>1, <4>1, <1>4
    <3>2. CASE ~high.over
      <4>1. high.val = x[1] + y[1] + 0 - 0 * Half
        BY <1>1, <1>2, <1>3, <1>4, <3>2
      <4> QED BY <2>1, <3>2, <4>1, <1>4
    <3> QED BY <3>1, <3>2
  <2> HIDE DEF high, low, carried
  <2> QED BY <2>1, <2>2, <2>3, <2>4
<1> QED BY <1>5, <1>8, <1>9

\* overflowing_add is exact: the sum with its overflow flag as next digit.
LEMMA AddExact ==
    ASSUME NEW x \in U256, NEW y \in U256
    PROVE  LET s == overflowing_add(x, y)
           IN  /\ s.val \in U256 /\ s.over \in BOOLEAN
               /\ Val(s.val) + Flag(s.over) * Full = Val(x) + Val(y)
<1> DEFINE s == overflowing_add(x, y)
<1>1. Half \in Nat
  BY HalfPositive
<1>2. x[1] \in Nat /\ x[2] \in Nat /\ y[1] \in Nat /\ y[2] \in Nat
  BY <1>1 DEF U256, Halves
<1>3. PICK c \in {0, 1}, d \in {0, 1} :
          /\ s.val = <<x[1] + y[1] + c - d * Half, x[2] + y[2] - c * Half>>
          /\ s.val \in U256
          /\ s.over \in BOOLEAN
          /\ s.over <=> d = 1
  BY AddCarries
<1>4. Flag(s.over) = d
  BY <1>3 DEF Flag
<1>6. s.val[1] = x[1] + y[1] + c - d * Half /\ s.val[2] = x[2] + y[2] - c * Half
  BY <1>3
<1>7. Val(s.val) + Flag(s.over) * Full = Val(x) + Val(y)
  <2> HIDE DEF s
  <2>1. (x[1] + y[1] + c - d * Half) * Half + (x[2] + y[2] - c * Half) + d * (Half * Half)
           = (x[1] * Half + x[2]) + (y[1] * Half + y[2])
    <3> DEFINE x1 == x[1]  x2 == x[2]  y1 == y[1]  y2 == y[2]  h == Half
    <3>1. x1 \in Nat /\ x2 \in Nat /\ y1 \in Nat /\ y2 \in Nat /\ h \in Nat
      BY <1>1, <1>2
    <3> HIDE DEF x1, x2, y1, y2, h
    <3>2. (x1 + y1 + c - d * h) * h + (x2 + y2 - c * h) + d * (h * h)
             = (x1 * h + x2) + (y1 * h + y2)
      BY <3>1
    <3> QED BY <3>2 DEF x1, x2, y1, y2, h
  <2>2. Val(s.val) = (x[1] + y[1] + c - d * Half) * Half + (x[2] + y[2] - c * Half)
    BY <1>6, Zenon DEF Val
  <2> QED BY <1>4, <2>1, <2>2, Zenon DEF Val, Full
<1> QED BY <1>3, <1>7

\* A pair stands for a number below Full, the complement for the complement.
LEMMA ValRange ==
    ASSUME NEW x \in U256
    PROVE  /\ Val(x) \in Nat /\ Full \in Nat /\ Val(x) < Full
           /\ not(x) \in U256 /\ Val(not(x)) = Full - 1 - Val(x)
<1> DEFINE x1 == x[1]  x2 == x[2]  h == Half
<1>1. x1 \in 0 .. h - 1 /\ x2 \in 0 .. h - 1 /\ h \in Nat /\ h > 1
  BY HalfPositive DEF U256, Halves
<1>2. not(x) = <<h - 1 - x1, h - 1 - x2>> /\ not(x) \in U256
  BY <1>1 DEF not, U256, Halves
<1>3. Val(x) = x1 * h + x2 /\ Full = h * h /\ Val(not(x)) = (h - 1 - x1) * h + (h - 1 - x2)
  BY <1>2 DEF Val, Full
<1> HIDE DEF x1, x2, h
<1>4. x1 * h \in Nat /\ h * h \in Nat /\ x1 * h <= h * h - h
  <2>1. x1 * h <= (h - 1) * h
    BY <1>1, MulMono
  <2> QED BY <1>1, <2>1
<1>5. (h - 1 - x1) * h + (h - 1 - x2) = h * h - 1 - (x1 * h + x2)
  BY <1>1
<1> QED BY <1>1, <1>2, <1>3, <1>4, <1>5

\* The derived order is the order of the numbers.
LEMMA GreaterVal ==
    ASSUME NEW x \in U256, NEW y \in U256
    PROVE  Greater(x, y) <=> Val(x) > Val(y)
<1> DEFINE x1 == x[1]  x2 == x[2]  y1 == y[1]  y2 == y[2]  h == Half
<1>1. /\ x1 \in 0 .. h - 1 /\ x2 \in 0 .. h - 1 /\ y1 \in 0 .. h - 1 /\ y2 \in 0 .. h - 1
      /\ h \in Nat /\ h > 1
  BY HalfPositive DEF U256, Halves
<1>2. Val(x) = x1 * h + x2 /\ Val(y) = y1 * h + y2
  BY DEF Val
<1>3. Greater(x, y) <=> x1 > y1 \/ (x1 = y1 /\ x2 > y2)
  BY DEF Greater
<1> HIDE DEF x1, x2, y1, y2, h
<1>4. CASE x1 > y1
  <2>1. (y1 + 1) * h <= x1 * h
    BY <1>1, <1>4, MulMono
  <2>2. (y1 + 1) * h = y1 * h + h
    BY <1>1
  <2> QED BY <1>1, <1>2, <1>3, <1>4, <2>1, <2>2
<1>5. CASE x1 < y1
  <2>1. (x1 + 1) * h <= y1 * h
    BY <1>1, <1>5, MulMono
  <2>2. (x1 + 1) * h = x1 * h + h
    BY <1>1
  <2> QED BY <1>1, <1>2, <1>3, <1>5, <2>1, <2>2
<1>6. CASE x1 = y1
  <2>1. x1 * h \in Nat
    BY <1>1
  <2> QED BY <1>1, <1>2, <1>3, <1>6, <2>1
<1> QED BY <1>1, <1>4, <1>5, <1>6

\* overflowing_sub is exact: two's complement, and the comparison as borrow.
LEMMA SubExact ==
    ASSUME NEW x \in U256, NEW y \in U256
    PROVE  /\ overflowing_sub(x, y).val \in U256
           /\ overflowing_sub(x, y).over \in BOOLEAN
           /\ Val(overflowing_sub(x, y).val) - Flag(overflowing_sub(x, y).over) * Full
                = Val(x) - Val(y)
<1> DEFINE a == overflowing_add(x, not(y))
           b == overflowing_add(a.val, ONE)
           F == Full
<1>1. ONE \in U256 /\ Val(ONE) = 1
  BY HalfPositive DEF ONE, U256, Halves, Val
<1>2. a.val \in U256 /\ a.over \in BOOLEAN /\ Val(a.val) + Flag(a.over) * F = Val(x) + Val(not(y))
  BY ValRange, AddExact
<1>3. b.val \in U256 /\ b.over \in BOOLEAN /\ Val(b.val) + Flag(b.over) * F = Val(a.val) + Val(ONE)
  BY <1>1, <1>2, AddExact
<1>4. overflowing_sub(x, y) = [val |-> b.val, over |-> Greater(y, x)]
  BY DEF overflowing_sub, wrapping_add
<1>5. Greater(y, x) <=> Val(y) > Val(x)
  BY GreaterVal
<1>6. Greater(y, x) \in BOOLEAN
  BY DEF Greater
<1>7. /\ Val(x) \in Nat /\ Val(y) \in Nat /\ F \in Nat /\ Val(x) < F /\ Val(y) < F
      /\ Val(b.val) \in Nat /\ Val(b.val) < F /\ Val(not(y)) = F - 1 - Val(y)
      /\ Val(a.val) \in Nat /\ Val(a.val) < F
  BY <1>2, <1>3, ValRange
<1> DEFINE vx == Val(x)  vy == Val(y)  va == Val(a.val)  vb == Val(b.val)
           fa == Flag(a.over)  fb == Flag(b.over)  fs == Flag(Greater(y, x))
<1>8. fa \in {0, 1} /\ fb \in {0, 1} /\ fs \in {0, 1} /\ (fs = 1 <=> vy > vx)
  BY <1>5 DEF Flag
<1>9. va + fa * F = vx + (F - 1 - vy) /\ vb + fb * F = va + 1
  BY <1>1, <1>2, <1>3, <1>7
<1>10. vx \in Nat /\ vy \in Nat /\ F \in Nat /\ vx < F /\ vy < F /\ vb \in Nat /\ vb < F /\ va \in Nat
  BY <1>7
<1>11. vb - fs * F = vx - vy
  <2> HIDE DEF vx, vy, va, vb, fa, fb, fs, F, a, b
  <2>1. fa * F \in {0, F} /\ fb * F \in {0, F} /\ fs * F = IF fs = 1 THEN F ELSE 0
    BY <1>8, <1>10
  <2> QED BY <1>8, <1>9, <1>10, <2>1
<1> QED BY <1>3, <1>4, <1>6, <1>11

\* A number with quotient c and remainder v.
LEMMA ModUnique ==
    ASSUME NEW c \in Nat, NEW F \in Nat, NEW v \in Nat, v < F
    PROVE  (c * F + v) % F = v /\ (c * F + v >= F <=> c # 0)
<1>1. (c * F + v) % F = v
  OBVIOUS
<1>2. CASE c = 0
  BY <1>1, <1>2
<1>3. CASE c # 0
  <2>1. 1 * F <= c * F
    BY <1>3, MulMono
  <2> QED BY <1>1, <1>3, <2>1
<1> QED BY <1>2, <1>3

\* wrapping_inc is the increment modulo 2^256.
LEMMA IncExact ==
    ASSUME NEW x \in U256
    PROVE  wrapping_inc(x) \in U256 /\ Val(wrapping_inc(x)) = (Val(x) + 1) % Full
<1> DEFINE x1 == x[1]  x2 == x[2]  h == Half
<1>1. x1 \in 0 .. h - 1 /\ x2 \in 0 .. h - 1 /\ h \in Nat /\ h > 1
  BY HalfPositive DEF U256, Halves
<1>2. Val(x) = x1 * h + x2 /\ Full = h * h
  BY DEF Val, Full
<1>3. x1 * h \in Nat /\ h * h \in Nat
  <2> HIDE DEF x1, x2, h
  <2> QED BY <1>1
<1>4. CASE x2 < h - 1
  <2>1. wrapping_inc(x) = <<x1, x2 + 1>>
    BY <1>1, <1>4 DEF wrapping_inc, Add
  <2>2. wrapping_inc(x) \in U256
    BY <1>1, <1>4, <2>1 DEF U256, Halves
  <2>3. Val(wrapping_inc(x)) = Val(x) + 1
    <3>1. Val(wrapping_inc(x)) = x1 * h + (x2 + 1)
      BY <2>1 DEF Val
    <3> HIDE DEF x1, x2, h
    <3> QED BY <1>1, <1>2, <1>3, <3>1
  <2>4. Val(wrapping_inc(x)) \in Nat /\ Full \in Nat /\ Val(wrapping_inc(x)) < Full
    BY <2>2, ValRange
  <2> QED BY <2>2, <2>3, <2>4
<1>5. CASE x2 = h - 1 /\ x1 < h - 1
  <2>1. wrapping_inc(x) = <<x1 + 1, 0>>
    BY <1>1, <1>5 DEF wrapping_inc, Add
  <2>2. wrapping_inc(x) \in U256
    BY <1>1, <1>5, <2>1 DEF U256, Halves
  <2>3. Val(wrapping_inc(x)) = Val(x) + 1
    <3>1. Val(wrapping_inc(x)) = (x1 + 1) * h + 0
      BY <2>1 DEF Val
    <3> HIDE DEF x1, x2, h
    <3>2. (x1 + 1) * h + 0 = x1 * h + (h - 1) + 1
      BY <1>1
    <3> QED BY <1>1, <1>2, <1>3, <1>5, <3>1, <3>2
  <2>4. Val(wrapping_inc(x)) \in Nat /\ Full \in Nat /\ Val(wrapping_inc(x)) < Full
    BY <2>2, ValRange
  <2> QED BY <2>2, <2>3, <2>4
<1>6. CASE x2 = h - 1 /\ x1 = h - 1
  <2>1. wrapping_inc(x) = <<0, 0>>
    BY <1>1, <1>6 DEF wrapping_inc, Add
  <2>2. wrapping_inc(x) \in U256 /\ Val(wrapping_inc(x)) = 0
    BY <1>1, <2>1 DEF U256, Halves, Val
  <2>3. Val(x) + 1 = 1 * Full + 0 /\ Full \in Nat /\ Full > 0
    <3> HIDE DEF x1, x2, h
    <3>1. (h - 1) * h + (h - 1) + 1 = h * h
      BY <1>1
    <3>2. 1 * h <= h * h
      BY <1>1, MulMono
    <3> QED BY <1>1, <1>2, <1>3, <1>6, <3>1, <3>2
  <2>4. (1 * Full + 0) % Full = 0
    BY <2>3, ModUnique
  <2> QED BY <2>2, <2>3, <2>4
<1> QED BY <1>1, <1>4, <1>5, <1>6

\* One turn of the loop of mul_u64: "This will not overflow" (its comment);
\* the carry is a quarter again.
LEMMA MulStepExact ==
    ASSUME NEW c \in 0 .. Quarter - 1, NEW w \in 0 .. Quarter - 1, NEW r \in 0 .. Quarter - 1
    PROVE  LET s == MulStep(c, w, r)
           IN  /\ s.word \in 0 .. Quarter - 1
               /\ s.carry \in 0 .. Quarter - 1
               /\ c + r * w = s.carry * Quarter + s.word
               /\ c + r * w < Half
<1> DEFINE q == Quarter
           n == c + r * w
<1>1. q \in Nat /\ q > 1 /\ c \in 0 .. q - 1 /\ w \in 0 .. q - 1 /\ r \in 0 .. q - 1
  BY QuarterAssumption
<1>2. r * w \in Nat /\ n \in Nat /\ n < q * q
  <2> HIDE DEF q
  <2>1. r * w \in Nat
    BY <1>1
  <2>2. r * w <= (q - 1) * w
    BY <1>1, MulMono
  <2>3. (q - 1) * w = w * (q - 1) /\ w * (q - 1) <= (q - 1) * (q - 1)
    BY <1>1, MulMono
  <2>4. (q - 1) * (q - 1) = q * q - 2 * q + 1
    BY <1>1
  <2> QED BY <1>1, <2>1, <2>2, <2>3, <2>4
<1>3. MulStep(c, w, r).word = n % q /\ MulStep(c, w, r).carry = n \div q
  BY DEF MulStep
<1>4. /\ n % q \in 0 .. q - 1 /\ n \div q \in Nat /\ n \div q < q
      /\ n = (n \div q) * q + (n % q)
  <2> HIDE DEF q, n
  <2>1. n \div q < q
    BY <1>1, <1>2, DivLt
  <2> QED BY <1>1, <1>2, <2>1
<1> HIDE DEF q, n
<1> QED BY <1>1, <1>2, <1>3, <1>4 DEF Half, q, n

\* The four quarters of a number.
LEMMA Quarters ==
    ASSUME NEW h \in Halves
    PROVE  /\ h % Quarter \in 0 .. Quarter - 1
           /\ h \div Quarter \in 0 .. Quarter - 1
           /\ h = (h \div Quarter) * Quarter + (h % Quarter)
<1>1. Quarter \in Nat /\ Quarter > 1 /\ h \in Nat /\ h < Quarter * Quarter
  BY QuarterAssumption, HalfPositive DEF Halves, Half
<1>2. h \div Quarter < Quarter
  BY <1>1, DivLt
<1> QED BY <1>1, <1>2

\* Digits below q make a number below q * q.
LEMMA TwoDigits ==
    ASSUME NEW q \in Nat, NEW a \in 0 .. q - 1, NEW b \in 0 .. q - 1
    PROVE  a + b * q \in 0 .. q * q - 1
<1>1. b * q <= (q - 1) * q
  BY MulMono
<1>2. b * q \in Nat /\ (q - 1) * q = q * q - q
  OBVIOUS
<1> QED BY <1>1, <1>2

\* mul_u64 is exact: the product with the last carry as its next digit.
LEMMA MulExact ==
    ASSUME NEW x \in U256, NEW r \in 0 .. Quarter - 1
    PROVE  /\ mul_u64(x, r).val \in U256
           /\ mul_u64(x, r).over \in BOOLEAN
           /\ Val(mul_u64(x, r).val) = (Val(x) * r) % Full
           /\ mul_u64(x, r).over <=> Val(x) * r >= Full
<1> DEFINE q == Quarter
           ha == x[2] % Quarter  hb == x[2] \div Quarter
           hc == x[1] % Quarter  hd == x[1] \div Quarter
           w0 == MulStep(0, ha, r)
           w1 == MulStep(w0.carry, hb, r)
           w2 == MulStep(w1.carry, hc, r)
           w3 == MulStep(w2.carry, hd, r)
           m == mul_u64(x, r)
<1>1. q \in Nat /\ q > 1 /\ r \in 0 .. q - 1 /\ 0 \in 0 .. q - 1
  BY QuarterAssumption
<1>2. x[1] \in Halves /\ x[2] \in Halves
  BY DEF U256
<1>3. /\ ha \in 0 .. q - 1 /\ hb \in 0 .. q - 1 /\ hc \in 0 .. q - 1 /\ hd \in 0 .. q - 1
      /\ x[2] = hb * q + ha /\ x[1] = hd * q + hc
  BY <1>2, Quarters
<1>4. /\ m.val = <<w2.word + w3.word * q, w0.word + w1.word * q>>
      /\ m.over = (w3.carry # 0)
  BY Zenon DEF mul_u64
<1>0. \A c, w \in 0 .. q - 1 :
          /\ MulStep(c, w, r).word \in 0 .. q - 1
          /\ MulStep(c, w, r).carry \in 0 .. q - 1
          /\ c + r * w = MulStep(c, w, r).carry * q + MulStep(c, w, r).word
  BY MulStepExact
<1> HIDE DEF ha, hb, hc, hd, m
<1>5. w0.word \in 0 .. q - 1 /\ w0.carry \in 0 .. q - 1 /\ 0 + r * ha = w0.carry * q + w0.word
  BY <1>0, <1>1, <1>3, Zenon
<1> HIDE DEF w0
<1>6. w1.word \in 0 .. q - 1 /\ w1.carry \in 0 .. q - 1
      /\ w0.carry + r * hb = w1.carry * q + w1.word
  BY <1>0, <1>3, <1>5, Zenon
<1> HIDE DEF w1
<1>7. w2.word \in 0 .. q - 1 /\ w2.carry \in 0 .. q - 1
      /\ w1.carry + r * hc = w2.carry * q + w2.word
  BY <1>0, <1>3, <1>6, Zenon
<1> HIDE DEF w2
<1>8. w3.word \in 0 .. q - 1 /\ w3.carry \in 0 .. q - 1
      /\ w2.carry + r * hd = w3.carry * q + w3.word
  BY <1>0, <1>3, <1>7, Zenon
<1> HIDE DEF w3
<1>9. m.val \in U256 /\ m.over \in BOOLEAN
  <2>1. /\ w2.word + w3.word * q \in 0 .. q * q - 1
        /\ w0.word + w1.word * q \in 0 .. q * q - 1
    BY Zenon, <1>1, <1>5, <1>6, <1>7, <1>8, TwoDigits
  <2> QED BY <1>4, <2>1 DEF U256, Halves, Half
<1>10. Val(m.val) = (w2.word + w3.word * q) * (q * q) + (w0.word + w1.word * q)
  BY <1>4 DEF Val, Half
<1>11. Val(x) = (hd * q + hc) * (q * q) + (hb * q + ha)
  BY <1>3, Zenon DEF Val, Half
<1>12. Full = (q * q) * (q * q)
  BY DEF Full, Half
<1> DEFINE a0 == w0.word  a1 == w1.word  a2 == w2.word  a3 == w3.word
           c0 == w0.carry  c1 == w1.carry  c2 == w2.carry  c3 == w3.carry
<1>13. /\ a0 \in Nat /\ a1 \in Nat /\ a2 \in Nat /\ a3 \in Nat
       /\ c0 \in Nat /\ c1 \in Nat /\ c2 \in Nat /\ c3 \in Nat
       /\ ha \in Nat /\ hb \in Nat /\ hc \in Nat /\ hd \in Nat /\ r \in Nat /\ q \in Nat
  BY <1>1, <1>3, <1>5, <1>6, <1>7, <1>8
<1>14. /\ a0 = r * ha - c0 * q
       /\ a1 = c0 + r * hb - c1 * q
       /\ a2 = c1 + r * hc - c2 * q
       /\ a3 = c2 + r * hd - c3 * q
  <2>1. 0 + r * ha = c0 * q + a0 /\ c0 + r * hb = c1 * q + a1
        /\ c1 + r * hc = c2 * q + a2 /\ c2 + r * hd = c3 * q + a3
    BY <1>5, <1>6, <1>7, <1>8
  <2> HIDE DEF a0, a1, a2, a3, c0, c1, c2, c3, q
  <2>2. /\ r * ha \in Nat /\ r * hb \in Nat /\ r * hc \in Nat /\ r * hd \in Nat
        /\ c0 * q \in Nat /\ c1 * q \in Nat /\ c2 * q \in Nat /\ c3 * q \in Nat
    BY <1>13
  <2> QED BY <1>13, <2>1, <2>2
<1>15. Val(x) * r = c3 * Full + Val(m.val)
  <2>1. ((hd * q + hc) * (q * q) + (hb * q + ha)) * r
           = c3 * ((q * q) * (q * q))
             + (((c1 + r * hc - c2 * q) + (c2 + r * hd - c3 * q) * q) * (q * q)
                + ((r * ha - c0 * q) + (c0 + r * hb - c1 * q) * q))
    <3> HIDE DEF a0, a1, a2, a3, c0, c1, c2, c3, q
    <3> QED BY <1>13
  <2> HIDE DEF q
  <2> QED BY <1>10, <1>11, <1>12, <1>14, <2>1, Zenon DEF a0, a1, a2, a3
<1>16. Val(m.val) \in Nat /\ Val(m.val) < Full /\ Full \in Nat
  BY <1>9, ValRange
<1>17. (c3 * Full + Val(m.val)) % Full = Val(m.val) /\ (c3 * Full + Val(m.val) >= Full <=> c3 # 0)
  BY <1>13, <1>16, ModUnique
<1> QED BY Zenon, <1>4, <1>9, <1>15, <1>17 DEF m

-----------------------------------------------------------------------------
(* The result of a call stays what the call computed *)

IInv ==
    /\ lhs \in U256 /\ rhs \in U256
    /\ op = "add" => out = overflowing_add(lhs, rhs)
    /\ op = "sub" => out = overflowing_sub(lhs, rhs)
    /\ op = "inc" => out = wrapping_inc(lhs)
    /\ op = "mul_u64" => arg = low_u64(rhs) /\ out = mul_u64(lhs, low_u64(rhs))

\* No operation has run in the initial states.
LEMMA InitIInv == OperInit => IInv
  BY OperandAssumption DEF OperInit, IInv

\* Every call leaves its operands and keeps its result until it returns.
LEMMA NextIInv == IInv /\ [OperNext]_operVars => IInv'
<1> SUFFICES ASSUME IInv, [OperNext]_operVars
             PROVE  IInv'
  OBVIOUS
<1>1. CASE Binary
  BY <1>1 DEF Binary, Call, IInv
<1>2. CASE Unary
  BY <1>2 DEF Unary, Call, IInv
<1>3. CASE Parse
  BY <1>3 DEF Parse, Call, IInv
<1>4. CASE Return
  BY <1>4 DEF Return, IInv
<1>5. CASE UNCHANGED operVars
  BY <1>5 DEF operVars, IInv
<1> QED BY <1>1, <1>2, <1>3, <1>4, <1>5 DEF OperNext

\* The invariant gives exact sums, differences and increments.
LEMMA IInvAddSub == IInv => AddSubExact
<1> SUFFICES ASSUME IInv
             PROVE  AddSubExact
  OBVIOUS
<1>1. ASSUME op = "add" PROVE Val(out.val) + Flag(out.over) * Full = L + R
  BY <1>1, AddExact, Zenon DEF IInv, L, R
<1>2. ASSUME op = "sub" PROVE Val(out.val) - Flag(out.over) * Full = L - R
  BY <1>2, SubExact, Zenon DEF IInv, L, R
<1>3. ASSUME op = "inc" PROVE Val(out) = (L + 1) % Full
  BY <1>3, IncExact, Zenon DEF IInv, L
<1> QED BY <1>1, <1>2, <1>3 DEF AddSubExact

\* The invariant gives exact products.
LEMMA IInvMul == IInv => MulU64Exact
<1> SUFFICES ASSUME IInv, op = "mul_u64"
             PROVE  Val(out.val) = (L * arg) % Full /\ (out.over <=> L * arg >= Full)
  BY DEF MulU64Exact
<1>1. arg \in 0 .. Quarter - 1
  BY Quarters DEF IInv, low_u64, U256
<1> QED BY <1>1, MulExact DEF IInv, L

\* overflowing_add, overflowing_sub and wrapping_inc are exact for halves of
\* any size: the wrapped value with the overflow flag as its next digit is the
\* sum or the difference of the numbers.
THEOREM AdditionIsExact == OperSpec => []AddSubExact
  BY NextIInv, InitIInv, IInvAddSub, PTL DEF OperSpec

\* mul_u64 gives the product modulo 2^256 for quarters of any size, and flags
\* it exactly when it wrapped.
THEOREM MultiplicationByQuarterIsExact == OperSpec => []MulU64Exact
  BY NextIInv, InitIInv, IInvMul, PTL DEF OperSpec

\* No carry between the words of a U256 is lost, for quarters of any size.
THEOREM CarriesAreExact == OperSpec => []CarriesExact
  BY AdditionIsExact, MultiplicationByQuarterIsExact, PTL DEF CarriesExact

-----------------------------------------------------------------------------
(* The bitwise long division *)

\* The table of bit values of a U256 (wrapping_shl in pow.rs).
LEMMA Pow2Table == IsPlaceTable(Pow2, 2, Width)
<1>1. 2 \in Nat /\ 2 > 1
  OBVIOUS
<1>2. Width \in Nat
  BY WidthAssumption
<1> QED
  BY <1>1, <1>2, Pow2Assumption, Zenon DEF IsPlaceTable

\* Bit values are positive.
LEMMA Pow2Positive == \A n \in 0 .. Width : Pow2[n] \in Nat /\ Pow2[n] > 0
  BY Pow2Table, PlacePositive

\* U256 is the natural numbers below Pow2[Width], and holds the ten of
\* fmt_decimal.
LEMMA WordsRange ==
    /\ \A x \in Words : x \in Nat /\ x < Pow2[Width]
    /\ \A x \in Nat : x < Pow2[Width] => x \in Words
    /\ {0, 1, 10} \subseteq Words
<1>1. Width \in 0 .. Width /\ Width \in Nat /\ 4 <= Width
  BY WidthAssumption
<1>2. Pow2[Width] \in Nat /\ Pow2[Width] > 0
  BY <1>1, Pow2Positive
<1>3. Pow2[1] = 2 /\ Pow2[2] = 4 /\ Pow2[3] = 8 /\ Pow2[4] = 16
  BY <1>1, Pow2Assumption
<1>4. Pow2[4] <= Pow2[Width]
  BY <1>1, Pow2Table, PlaceMono
<1> QED
  BY <1>2, <1>3, <1>4 DEF Words

\* U256::bits is the number of bits of a number.
LEMMA BitsSpec ==
    ASSUME NEW x \in Words
    PROVE  /\ BitLen(x) \in 0 .. Width
           /\ x < Pow2[BitLen(x)]
           /\ BitLen(x) > 0 => Pow2[BitLen(x) - 1] <= x
<1>1. x \in Nat /\ x < Pow2[Width]
  BY WordsRange
<1>2. \E k \in 0 .. Width : x < Pow2[k] /\ (k > 0 => Pow2[k - 1] <= x)
  BY <1>1, Pow2Table, PlaceCount
<1> QED
  BY <1>2, Zenon DEF BitLen

\* The divisor shifted to the length of the dividend keeps all its bits, and
\* twice of it is above the dividend (first lines of U256::div_rem).
LEMMA FirstShift ==
    ASSUME NEW a \in Words, NEW b \in Words, b > 0, BitLen(b) <= BitLen(a)
    PROVE  LET n == BitLen(a) - BitLen(b)
           IN  /\ n \in 0 .. Width
               /\ Shl(b, n) = b * Pow2[n]
               /\ Shl(b, n) \in Words
               /\ a < 2 * Shl(b, n)
<1> DEFINE ba == BitLen(a)
           bb == BitLen(b)
           n == ba - bb
<1>1. a \in Nat /\ b \in Nat
  BY WordsRange
<1>2. ba \in 0 .. Width /\ bb \in 0 .. Width /\ a < Pow2[ba] /\ b < Pow2[bb]
  BY BitsSpec
<1>3. bb > 0
  <2> SUFFICES ASSUME bb = 0 PROVE FALSE
    BY <1>2
  <2> QED
    BY <1>1, <1>2, Pow2Assumption
<1>4. Pow2[bb - 1] <= b
  BY <1>3, BitsSpec
<1> HIDE DEF ba, bb
<1>5. n \in 0 .. Width /\ n \in Nat /\ bb \in Nat /\ bb - 1 \in Nat /\ Width \in Nat
      /\ n + bb = ba /\ bb + n = ba /\ ba <= Width /\ (bb - 1) + n = ba - 1
      /\ ba - 1 \in 0 .. Width - 1 /\ (ba - 1) + 1 = ba
  BY <1>2, <1>3, WidthAssumption DEF ba, bb
<1>6. Pow2[ba] = Pow2[bb] * Pow2[n] /\ Pow2[ba - 1] = Pow2[bb - 1] * Pow2[n]
  <2>1. bb + n <= Width /\ (bb - 1) + n <= Width
    BY <1>5
  <2> QED
    BY <1>5, <2>1, Pow2Table, PlaceAdd
<1>7. Pow2[ba] = 2 * Pow2[ba - 1]
  BY Zenon, <1>5, Pow2Assumption
<1>8. /\ Pow2[n] \in Nat /\ Pow2[n] > 0 /\ Pow2[ba] \in Nat /\ Pow2[bb] \in Nat
      /\ Pow2[bb - 1] \in Nat /\ Pow2[Width] \in Nat /\ Pow2[ba - 1] \in Nat
  <2>1. bb - 1 \in 0 .. Width /\ ba - 1 \in 0 .. Width /\ ba \in 0 .. Width
        /\ bb \in 0 .. Width /\ Width \in 0 .. Width
    BY <1>2, <1>5
  <2> QED
    BY <1>5, <2>1, Pow2Positive
<1>9. Pow2[ba] <= Pow2[Width]
  BY <1>2, <1>5, Pow2Table, PlaceMono
<1>10. b * Pow2[n] < Pow2[bb] * Pow2[n]
  <2> HIDE DEF n
  <2> QED BY <1>1, <1>2, <1>8
<1>11. Pow2[bb - 1] * Pow2[n] <= b * Pow2[n]
  <2> HIDE DEF n
  <2> QED BY <1>1, <1>4, <1>8
<1>12. b * Pow2[n] \in Nat
  BY <1>1, <1>8
<1>13. b * Pow2[n] < Pow2[Width]
  BY <1>6, <1>8, <1>9, <1>10, <1>12
<1>14. Shl(b, n) = b * Pow2[n]
  BY <1>8, <1>12, <1>13 DEF Shl
<1>15. a < 2 * (b * Pow2[n])
  BY <1>1, <1>2, <1>6, <1>7, <1>8, <1>11, <1>12
<1> QED
  BY <1>5, <1>12, <1>13, <1>14, <1>15, WordsRange DEF ba, bb

-----------------------------------------------------------------------------
(* The inductive invariant *)

\* What the three properties need beside them: the divisor is never zero, and
\* it is ten while a number is printed.
Divisors ==
    /\ divisor > 0
    /\ pc \in {"fmt", "digit"} => divisor = 10

DivIInv == DivTypeOK /\ DivisionLoop /\ DivisionCorrect /\ Divisors

\* The locals before any call satisfy the invariant.
LEMMA DivInitIInv == DivInit => DivIInv
<1> SUFFICES ASSUME DivInit PROVE DivIInv
  OBVIOUS
<1>1. DivTypeOK
  <2>1. 0 \in 0 .. Width
    BY WidthAssumption
  <2>2. << >> \in Seq(0 .. 9)
    OBVIOUS
  <2> QED
    BY <2>1, <2>2, WordsRange DEF DivInit, DivTypeOK
<1> QED
  BY <1>1 DEF DivInit, DivIInv, DivisionLoop, DivisionCorrect, Divisors

\* The entry of div_rem establishes the loop invariant, or the result at once
\* when the dividend is shorter than the divisor.
LEMMA DivBeginIInv ==
    ASSUME NEW a \in Words, NEW b \in Words, b > 0,
           NEW loop, NEW result,
           \/ loop = "div" /\ result = "quotient"
           \/ loop = "fmt" /\ result = "digit" /\ b = 10,
           Begin(a, b, loop, result),
           number' \in Words, buf' \in Seq(0 .. 9)
    PROVE  DivIInv'
<1>0. a \in Nat /\ b \in Nat /\ {0, 1, 10} \subseteq Words
  BY WordsRange
<1>1. CASE BitLen(a) < BitLen(b)
  <2>1. pc' = result /\ shift_copy' = b /\ shift' = 0 /\ dividend' = a
        /\ divisor' = b /\ sub_copy' = a /\ ret' = 0
    BY <1>1 DEF Begin
  <2>2. a < b
    <3>1. BitLen(a) \in 0 .. Width /\ a < Pow2[BitLen(a)]
      BY BitsSpec
    <3>2. BitLen(b) \in 0 .. Width /\ (BitLen(b) > 0 => Pow2[BitLen(b) - 1] <= b)
      BY BitsSpec
    <3>3. BitLen(a) \in Nat /\ BitLen(b) - 1 \in Nat /\ BitLen(a) <= BitLen(b) - 1
          /\ BitLen(b) - 1 <= Width /\ BitLen(b) > 0 /\ BitLen(b) - 1 \in 0 .. Width
      BY <1>1, <3>1, <3>2, WidthAssumption
    <3>4. Pow2[BitLen(a)] <= Pow2[BitLen(b) - 1]
      BY <3>3, Pow2Table, PlaceMono
    <3>5. Pow2[BitLen(a)] \in Nat /\ Pow2[BitLen(b) - 1] \in Nat
      BY <3>1, <3>3, Pow2Positive
    <3> QED
      BY <1>0, <3>1, <3>2, <3>3, <3>4, <3>5
  <2>3. DivTypeOK'
    <3>1. 0 \in 0 .. Width
      BY WidthAssumption
    <3> QED
      BY <1>0, <2>1, <3>1 DEF DivTypeOK
  <2>4. DivisionLoop' /\ Divisors'
    BY <2>1 DEF DivisionLoop, Divisors
  <2>5. DivisionCorrect'
    BY <1>0, <2>1, <2>2 DEF DivisionCorrect
  <2> QED
    BY <2>3, <2>4, <2>5 DEF DivIInv
<1>2. CASE ~(BitLen(a) < BitLen(b))
  <2> DEFINE n == BitLen(a) - BitLen(b)
  <2>1. pc' = loop /\ shift' = n /\ shift_copy' = Shl(b, n) /\ dividend' = a
        /\ divisor' = b /\ sub_copy' = a /\ ret' = 0
    BY <1>2 DEF Begin
  <2>2. BitLen(b) <= BitLen(a)
    BY <1>2, BitsSpec
  <2>3. n \in 0 .. Width /\ Shl(b, n) = b * Pow2[n] /\ Shl(b, n) \in Words /\ a < 2 * Shl(b, n)
    BY <2>2, FirstShift
  <2> HIDE DEF n
  <2>4. DivTypeOK'
    BY <1>0, <2>1, <2>3 DEF DivTypeOK
  <2>5. DivisionLoop'
    BY <1>0, <2>1, <2>3 DEF DivisionLoop
  <2>6. DivisionCorrect' /\ Divisors'
    BY <2>1 DEF DivisionCorrect, Divisors
  <2> QED
    BY <2>4, <2>5, <2>6 DEF DivIInv
<1> QED
  BY <1>1, <1>2

\* One pass of the loop of div_rem keeps the invariant; the last one leaves
\* a remainder below the divisor.
LEMMA DivIterateIInv ==
    ASSUME DivIInv, NEW loop, NEW result,
           \/ loop = "div" /\ result = "quotient"
           \/ loop = "fmt" /\ result = "digit",
           Iterate(loop, result)
    PROVE  DivIInv'
<1> DEFINE fits == sub_copy >= shift_copy
<1>1. /\ pc = loop
      /\ ret' = IF fits THEN ret + Pow2[shift] ELSE ret
      /\ sub_copy' = IF fits THEN sub_copy - shift_copy ELSE sub_copy
      /\ shift_copy' = shift_copy \div 2
      /\ dividend' = dividend /\ divisor' = divisor /\ number' = number /\ buf' = buf
  BY DEF Iterate
<1>2. \/ shift = 0 /\ pc' = result /\ shift' = 0
      \/ shift # 0 /\ pc' = pc /\ shift' = shift - 1
  BY DEF Iterate
<1>3. /\ {dividend, divisor, number, sub_copy, shift_copy, ret} \subseteq Words
      /\ shift \in 0 .. Width /\ buf \in Seq(0 .. 9)
      /\ divisor > 0 /\ (loop = "fmt" => divisor = 10)
      /\ dividend = ret * divisor + sub_copy
      /\ shift_copy = divisor * Pow2[shift]
      /\ sub_copy < 2 * shift_copy
  BY <1>1 DEF DivIInv, DivTypeOK, Divisors, DivisionLoop
<1>4. /\ dividend \in Nat /\ divisor \in Nat /\ sub_copy \in Nat
      /\ shift_copy \in Nat /\ ret \in Nat
      /\ Pow2[shift] \in Nat /\ Pow2[shift] > 0
      /\ dividend < Pow2[Width] /\ shift_copy < Pow2[Width] /\ sub_copy < Pow2[Width]
      /\ Width \in Nat /\ Pow2[Width] \in Nat
  <2>1. Width \in 0 .. Width /\ Width \in Nat
    BY WidthAssumption
  <2> QED
    BY Zenon, <1>3, <2>1, WordsRange, Pow2Positive
<1>5. /\ ret' \in Nat /\ sub_copy' \in Nat /\ shift_copy' \in Nat
      /\ sub_copy' <= sub_copy /\ shift_copy' <= shift_copy /\ sub_copy' < shift_copy
  <2>1. shift_copy \div 2 \in Nat /\ shift_copy \div 2 <= shift_copy
    BY <1>4
  <2>2. ret + Pow2[shift] \in Nat /\ (fits => sub_copy - shift_copy \in Nat)
    BY <1>4
  <2>0. sub_copy < 2 * shift_copy
    BY <1>3
  <2>3. CASE fits
    <3>1. ret' = ret + Pow2[shift] /\ sub_copy' = sub_copy - shift_copy /\ shift_copy' = shift_copy \div 2
      BY <1>1, <2>3
    <3>2. sub_copy - shift_copy < shift_copy /\ sub_copy - shift_copy <= sub_copy
      BY <1>4, <2>0
    <3> QED
      BY <2>1, <2>2, <2>3, <3>1, <3>2
  <2>4. CASE ~fits
    BY <1>1, <1>4, <2>1, <2>4
  <2> QED
    BY <2>3, <2>4
<1>6. dividend = ret' * divisor + sub_copy'
  <2>1. CASE fits
    <3>1. (ret + Pow2[shift]) * divisor = ret * divisor + divisor * Pow2[shift]
      BY <1>4
    <3>2. ret * divisor \in Nat /\ divisor * Pow2[shift] \in Nat
      BY <1>4
    <3>3. ret' * divisor = ret * divisor + shift_copy
      BY <1>1, <1>3, <2>1, <3>1
    <3>4. sub_copy' = sub_copy - shift_copy
      BY <1>1, <2>1
    <3> QED
      BY SMTT(30), <1>3, <1>4, <3>2, <3>3, <3>4
  <2>2. CASE ~fits
    BY <1>1, <1>3, <2>2
  <2> QED
    BY <2>1, <2>2
<1>7. ret' <= dividend
  <2>1. ret' * divisor >= ret' /\ ret' * divisor \in Nat
    <3> SUFFICES ASSUME NEW x \in Nat, NEW y \in Nat, y > 0
                 PROVE  x * y >= x /\ x * y \in Nat
      BY Zenon, <1>3, <1>4, <1>5
    <3> QED OBVIOUS
  <2> DEFINE p == ret' * divisor
  <2>2. dividend = p + sub_copy' /\ p \in Nat /\ p >= ret'
    BY <1>6, <2>1
  <2>3. ret' \in Nat /\ sub_copy' \in Nat
    BY <1>5
  <2> SUFFICES ASSUME NEW q \in Nat, NEW r \in Nat, NEW s \in Nat, q >= r
               PROVE  r <= q + s
    BY <2>2, <2>3
  <2> QED
    OBVIOUS
<1>8. {ret', sub_copy', shift_copy'} \subseteq Words
  BY <1>4, <1>5, <1>7, WordsRange
<1>9. CASE shift = 0
  <2>1. pc' = result /\ shift' = 0
    BY <1>2, <1>9
  <2>2. shift_copy = divisor
    BY <1>3, <1>4, <1>9, Pow2Assumption
  <2>3. DivTypeOK'
    BY <1>1, <1>3, <1>8, <1>9, <2>1 DEF DivTypeOK
  <2>4. DivisionLoop' /\ Divisors'
    BY SMTT(30), <1>1, <1>3, <2>1 DEF DivisionLoop, Divisors
  <2>5. DivisionCorrect'
    BY <1>1, <1>5, <1>6, <2>2 DEF DivisionCorrect
  <2> QED
    BY <2>3, <2>4, <2>5 DEF DivIInv
<1>10. CASE shift # 0
  <2>1. pc' = pc /\ shift' = shift - 1
    BY <1>2, <1>10
  <2>2. shift - 1 \in 0 .. Width - 1 /\ (shift - 1) + 1 = shift /\ shift - 1 \in 0 .. Width
    BY <1>3, <1>4, <1>10
  <2>3. Pow2[shift] = 2 * Pow2[shift - 1] /\ Pow2[shift - 1] \in Nat
    BY <2>2, Pow2Assumption
  <2>4. divisor * Pow2[shift] = 2 * (divisor * Pow2[shift - 1])
    BY <1>4, <2>3
  <2>5. divisor * Pow2[shift - 1] \in Nat
    BY <1>4, <2>3
  <2>6. shift_copy' = divisor * Pow2[shift - 1] /\ shift_copy = 2 * shift_copy'
    BY <1>1, <1>3, <2>4, <2>5
  <2>7. DivTypeOK'
    BY <1>1, <1>3, <1>8, <2>1, <2>2 DEF DivTypeOK, DivIInv
  <2>8. DivisionLoop'
    BY <1>1, <1>5, <1>6, <2>1, <2>6 DEF DivisionLoop
  <2>9. DivisionCorrect' /\ Divisors'
    BY <1>1, <1>3, <2>1 DEF DivisionCorrect, Divisors
  <2> QED
    BY <2>7, <2>8, <2>9 DEF DivIInv
<1> QED
  BY <1>9, <1>10

\* Returning from a call clears its locals.
LEMMA DivReturnIInv == DivEnd => DivIInv'
<1> SUFFICES ASSUME DivEnd PROVE DivIInv'
  OBVIOUS
<1>1. 0 \in 0 .. Width
  BY WidthAssumption
<1>2. << >> \in Seq(0 .. 9)
  OBVIOUS
<1>3. DivTypeOK'
  BY <1>1, <1>2, WordsRange DEF DivEnd, DivTypeOK
<1> QED
  BY <1>3 DEF DivEnd, DivIInv, DivisionLoop, DivisionCorrect, Divisors

\* Every step of div_rem and fmt_decimal keeps the invariant.
LEMMA DivNextIInv == DivIInv /\ [DivNext]_DivVars => DivIInv'
<1> SUFFICES ASSUME DivIInv, [DivNext]_DivVars PROVE DivIInv'
  OBVIOUS
<1>0. {0, 1, 10} \subseteq Words /\ << >> \in Seq(0 .. 9) /\ number \in Words /\ buf \in Seq(0 .. 9)
  BY WordsRange DEF DivIInv, DivTypeOK
<1>1. ASSUME NEW a \in Words, NEW b \in Words, DivRem(a, b) PROVE DivIInv'
  <2>1. b > 0 /\ Begin(a, b, "div", "quotient") /\ number' = number /\ buf' = buf
    BY <1>1 DEF DivRem
  <2> QED
    BY <1>0, <2>1, DivBeginIInv
<1>2. CASE DivLoop
  BY <1>2, DivIterateIInv DEF DivLoop
<1>3. CASE DivReturn
  BY <1>3, DivReturnIInv DEF DivReturn
<1>4. ASSUME NEW x \in Words, FmtDecimal(x) PROVE DivIInv'
  <2>1. Begin(x, 10, "fmt", "digit") /\ number' \in Words /\ buf' \in Seq(0 .. 9)
    BY <1>0, <1>4 DEF FmtDecimal
  <2> QED
    BY <1>0, <2>1, DivBeginIInv
<1>5. CASE FmtLoop
  BY <1>5, DivIterateIInv DEF FmtLoop
<1>6. CASE FmtDigit
  <2>1. divisor = 10 /\ sub_copy < 10 /\ sub_copy \in Nat /\ ret \in Words
    BY <1>6, WordsRange DEF FmtDigit, DivIInv, Divisors, DivisionCorrect, DivTypeOK
  <2>2. <<sub_copy>> \in Seq(0 .. 9)
    BY <2>1
  <2>3. buf' \in Seq(0 .. 9)
    <3>1. buf' = <<sub_copy>> \o buf
      BY <1>6 DEF FmtDigit
    <3> QED
      BY <1>0, <2>2, <3>1
  <2>4. number' \in Words
    BY <1>0, <1>6 DEF FmtDigit
  <2>5. CASE ret = 0
    <3>1. pc' = "printed" /\ UNCHANGED dvars
      BY <1>6, <2>5 DEF FmtDigit
    <3>2. DivTypeOK'
      BY <2>3, <2>4, <3>1 DEF DivIInv, DivTypeOK, dvars
    <3> QED
      BY <3>1, <3>2 DEF DivIInv, DivisionLoop, DivisionCorrect, Divisors, dvars
  <2>6. CASE ret # 0
    <3>1. Begin(ret, 10, "fmt", "digit")
      BY <1>6, <2>6 DEF FmtDigit
    <3> QED
      BY <1>0, <2>1, <2>3, <2>4, <3>1, DivBeginIInv
  <2> QED
    BY <2>5, <2>6
<1>7. CASE FmtReturn
  BY <1>7, DivReturnIInv DEF FmtReturn
<1>8. CASE UNCHANGED DivVars
  BY <1>8 DEF DivVars, dvars, DivIInv, DivTypeOK, DivisionLoop, DivisionCorrect, Divisors
<1> QED
  BY <1>1, <1>2, <1>3, <1>4, <1>5, <1>6, <1>7, <1>8 DEF DivNext

-----------------------------------------------------------------------------
\* U256::div_rem and fmt_decimal stay within 256 bits, for every width: no
\* shift, no quotient and no remainder leaves the type.
THEOREM TypeCorrect == DivSpec => []DivTypeOK
  BY DivInitIInv, DivNextIInv, PTL DEF DivSpec, DivIInv

\* The loop invariant of U256::div_rem holds of every division.
THEOREM DivisionLoopInvariant == DivSpec => []DivisionLoop
  BY DivInitIInv, DivNextIInv, PTL DEF DivSpec, DivIInv

\* U256::div_rem returns the quotient and the remainder of Euclid, for every
\* width, dividend and divisor other than zero.
THEOREM DivisionIsEuclidean == DivSpec => []DivisionCorrect
  BY DivInitIInv, DivNextIInv, PTL DEF DivSpec, DivIInv

\* U256::div_rem is right while it runs and when it returns, for every width,
\* dividend and divisor other than zero.
THEOREM DivisionIsSound == DivSpec => []DivisionSound
  BY TypeCorrect, DivisionLoopInvariant, DivisionIsEuclidean, PTL DEF DivisionSound
=============================================================================
