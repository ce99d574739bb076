------------------------- MODULE HeaderChainProofs --------------------------
(***************************************************************************)
(* Theorems about the two chains of HeaderChain: the adjustments of the    *)
(* Dogecoin chain beside a client of the Bitcoin chain, and that client,   *)
(* for every interval of adjustment and every set of headers.              *)
(***************************************************************************)
EXTENDS HeaderChain, DifficultyProofs

-----------------------------------------------------------------------------
(* The Dogecoin chain *)

\* The same invariant beside a client that follows the Bitcoin chain.
WalkIInv == network = "dogecoin" => IInv

\* The two chains start apart.
LEMMA InitWalk == AllInit => WalkIInv
<1>1. AllInit => network = "bitcoin" \/ Init
  BY Zenon DEF AllInit
<1> QED
  BY <1>1, InitIInv DEF WalkIInv

\* Steps of the client leave the Dogecoin walk alone.
LEMMA NextWalk == WalkIInv /\ [AllNext]_allVars => WalkIInv'
<1> SUFFICES ASSUME WalkIInv, [AllNext]_allVars, network' = "dogecoin"
             PROVE  IInv'
  BY DEF WalkIInv
<1>1. network = "dogecoin" /\ [Next]_vars
  BY DEF AllNext, Walk, FollowHeaders, allVars
<1> QED
  BY <1>1, NextIInv DEF WalkIInv

\* The same beside a client that follows the Bitcoin chain, on the behaviours
\* that walk the Dogecoin chain.
THEOREM DogecoinStaysMonotone == AllInit /\ [][AllNext]_allVars => []DogecoinMonotone
<1>1. WalkIInv => DogecoinMonotone
  BY AdjustmentMonotone DEF WalkIInv, DogecoinMonotone
<1> QED
  BY InitWalk, NextWalk, <1>1, PTL

\* No adjustment that from_next_work_required_dogecoin or
\* from_header_difficulty_adjustment_dogecoin makes leaves the thresholds of
\* the previous target, for every width, limit and set of times, when the radix
\* is a multiple of four (256 in the code) and the planned timespan before
\* Digishield one of sixteen (14400 seconds).
THEOREM AdjustmentsBounded ==
    ASSUME Base % 4 = 0, EpochTimespan % 16 = 0
    PROVE  AllInit /\ [][AllNext]_allVars => AdjustmentsWithinThresholds
<1>1. WalkIInv /\ [AllNext]_allVars => [StepWithinThresholds]_vars
  <2> SUFFICES ASSUME WalkIInv, [AllNext]_allVars, ~(UNCHANGED vars)
               PROVE  StepWithinThresholds
    OBVIOUS
  <2>1. IInv /\ Next
    BY DEF WalkIInv, AllNext, Walk, FollowHeaders, allVars
  <2> DEFINE Adjusted == \E ts \in Int, h \in Nat :
                bits' = from_next_work_required_dogecoin(bits, ts, h) /\ height' = h
  <2>2. Adjusted
    <3>1. ASSUME NEW time \in Times, NEW h \in 0 .. MaxHeight, Adjust(time, h)
          PROVE  Adjusted
      <4>1. time - boundary \in Int /\ h \in Nat
        BY <2>1, TimesAssumption, HeightAssumption DEF IInv, TypeOK
      <4> QED
        BY <3>1, <4>1 DEF Adjust, from_header_difficulty_adjustment_dogecoin
    <3>2. ASSUME NEW ts \in SlowTimespans, NEW h \in 0 .. MaxHeight, AdjustSlow(ts, h)
          PROVE  Adjusted
      <4>1. ts \in Int /\ h \in Nat
        BY SlowAssumption, HeightAssumption
      <4> QED
        BY <3>2, <4>1 DEF AdjustSlow
    <3> QED
      BY <2>1, <3>1, <3>2 DEF Next, SlowNext
  <2>3. bits \in CompactTargets /\ from_compact(bits) <= MaxAttainable /\ Canonical(bits)
    BY <2>1 DEF IInv, TypeOK, TargetAttainable, CanonicalBits
  <2>4. PICK ts \in Int, h \in Nat :
          bits' = from_next_work_required_dogecoin(bits, ts, h) /\ height' = h
    BY <2>2
  <2> QED
    BY <2>3, <2>4, AdjustmentWithin DEF StepWithinThresholds
<1> QED
  BY InitWalk, NextWalk, <1>1, PTL DEF AdjustmentsWithinThresholds

-----------------------------------------------------------------------------
(* Following Bitcoin headers *)

\* A target a header may have: within the limit, and one the compact form gives.
Good(t) == t \in Nat /\ t <= MaxAttainable /\ Attainable(t) = t

\* A target within the limit is a 256-bit number.
LEMMA WithinLimit ==
    ASSUME NEW t \in Nat, t <= MaxAttainable
    PROVE  t \in Target
  BY LimitFits DEF Target

\* The compact form of a target within the limit is a good target.
LEMMA AttainableGood ==
    ASSUME NEW t \in Nat, t <= MaxAttainable
    PROVE  Good(Attainable(t)) /\ Attainable(t) <= t
<1>1. Attainable(t) \in Nat /\ Attainable(t) <= t
  BY WithinLimit, CompactRoundsDown
<1>2. Attainable(Attainable(t)) = Attainable(t)
  BY WithinLimit, CompactCanonical DEF Canonical, Attainable
<1> QED
  BY <1>1, <1>2, LimitFits DEF Good

\* The timespan of Bitcoin's adjustment is between a fourth and four times the
\* planned one.
LEMMA ClampedSpan ==
    ASSUME NEW span \in Nat, EpochTimespan % 4 = 0
    PROVE  LET s == Clamp(span, EpochTimespan \div 4, 4 * EpochTimespan)
           IN  /\ s \in Nat /\ s <= 4 * EpochTimespan /\ EpochTimespan <= 4 * s
               /\ span <= EpochTimespan => s <= EpochTimespan
               /\ span >= EpochTimespan => s >= EpochTimespan
<1>1. EpochTimespan \div 4 \in Nat /\ 4 * (EpochTimespan \div 4) = EpochTimespan
  BY TimespanAssumption
<1> DEFINE q == EpochTimespan \div 4
<1> HIDE DEF q
<1>2. q \in Nat /\ 4 * q = EpochTimespan
  BY <1>1 DEF q
<1> QED
  BY <1>2, TimespanAssumption DEF Clamp, q

\* A product with a factor at most the divisor, or at least a fourth of it, or at
\* least the divisor, divided.
LEMMA ScaledQuotient ==
    ASSUME NEW t \in Nat, NEW s \in Nat, NEW T \in Nat, T > 0
    PROVE  /\ (t * s) \div T \in Nat
           /\ s <= T => (t * s) \div T <= t
           /\ s >= T => (t * s) \div T >= t
           /\ T <= 4 * s => (t * s) \div T >= t \div 4
<1>1. (t * s) \div T \in Nat
  BY DivMulLe
<1>2. ASSUME s <= T PROVE (t * s) \div T <= t
  <2>1. t * s <= t * T
    BY <1>2, MulMono
  <2>2. (t * s) \div T <= (t * T) \div T
    BY <2>1, DivMono
  <2> QED
    BY <2>2, MulDiv
<1>3. ASSUME s >= T PROVE (t * s) \div T >= t
  <2>1. t * T <= t * s
    BY <1>3, MulMono
  <2>2. (t * T) \div T <= (t * s) \div T
    BY <2>1, DivMono
  <2> QED
    BY <2>2, MulDiv
<1>4. ASSUME T <= 4 * s PROVE (t * s) \div T >= t \div 4
  <2> DEFINE q == t \div 4
  <2>1. q \in Nat /\ 4 * q <= t
    OBVIOUS
  <2> HIDE DEF q
  <2>2. q * T <= q * (4 * s)
    BY <1>4, <2>1, MulMono
  <2>3. (4 * q) * s <= t * s
    BY <2>1, MulMono
  <2>4. q * (4 * s) = (4 * q) * s
    BY <2>1
  <2>5. q * T <= t * s
    BY <2>1, <2>2, <2>3, <2>4
  <2>6. (q * T) \div T <= (t * s) \div T
    BY <2>1, <2>5, DivMono
  <2>7. (q * T) \div T = q
    BY <2>1, MulDiv
  <2> QED
    BY <2>6, <2>7 DEF q
<1> QED
  BY <1>1, <1>2, <1>3, <1>4

\* The largest target after t, when four times t fits the width.
LEMMA MaxThreshold ==
    ASSUME NEW t \in Nat, t <= MaxAttainable, ~NoRetargeting
    PROVE  /\ max_transition_threshold(t) \in Nat
           /\ max_transition_threshold(t) <= MaxAttainable
           /\ t <= max_transition_threshold(t)
<1> DEFINE X == MaxAttainable * (4 * EpochTimespan)
<1>1. X < Pow[Size] /\ X \in Nat /\ 4 * MaxAttainable <= X
  <2>1. X < Pow[Size]
    BY HeadroomAssumption
  <2>2. 4 * MaxAttainable <= (4 * EpochTimespan) * MaxAttainable
    BY LimitFits, TimespanAssumption, MulMono
  <2> QED
    BY <2>1, <2>2, LimitFits, TimespanAssumption
<1> HIDE DEF X
<1>2. 4 * t < Pow[Size]
  BY <1>1, LimitFits
<1>3. (4 * t) % Pow[Size] = 4 * t
  BY <1>2, LimitFits, ModFits
<1> QED
  BY <1>3, LimitFits DEF max_transition_threshold, max_transition_threshold_unchecked, MinOf

\* One Bitcoin adjustment: the new target is good, within the thresholds, and
\* on the side of the old one that the timespan says.
LEMMA BitcoinStep ==
    ASSUME NEW c, Good(from_compact(c)), ~NoRetargeting, NEW span \in Nat, EpochTimespan % 4 = 0
    PROVE  LET t == from_compact(c)
               u == from_compact(from_next_work_required(c, span))
           IN  /\ Good(u) /\ u <= max_transition_threshold(t)
               /\ u >= Attainable(min_transition_threshold(t))
               /\ span <= EpochTimespan => u <= t
               /\ span >= EpochTimespan => u >= t
<1> DEFINE t == from_compact(c)
           s == Clamp(span, EpochTimespan \div 4, 4 * EpochTimespan)
           hi == max_transition_threshold(t)
           q == (t * s) \div EpochTimespan
           r == MinOf(q, hi)
           u == from_compact(from_next_work_required(c, span))
<1>1. t \in Nat /\ t <= MaxAttainable /\ Attainable(t) = t
  BY DEF Good
<1>2. /\ s \in Nat /\ s <= 4 * EpochTimespan /\ EpochTimespan <= 4 * s
      /\ span <= EpochTimespan => s <= EpochTimespan
      /\ span >= EpochTimespan => s >= EpochTimespan
  BY ClampedSpan
<1>3. hi \in Nat /\ hi <= MaxAttainable /\ t <= hi
  BY <1>1, MaxThreshold
<1>4. (t * s) % Pow[Size] = t * s
  <2> HIDE DEF t, s
  <2>1. MaxAttainable * (4 * EpochTimespan) < Pow[Size]
    BY HeadroomAssumption
  <2>2. t * s <= MaxAttainable * s
    BY <1>1, <1>2, LimitFits, MulMono
  <2>3. MaxAttainable * s <= MaxAttainable * (4 * EpochTimespan)
    BY <1>2, LimitFits, TimespanAssumption, MulMono
  <2>4. t * s \in Nat /\ MaxAttainable * s \in Nat /\ MaxAttainable * (4 * EpochTimespan) \in Nat
    BY <1>1, <1>2, LimitFits, TimespanAssumption
  <2>5. t * s < Pow[Size]
    BY <2>1, <2>2, <2>3, <2>4, LimitFits
  <2> QED
    BY <2>4, <2>5, LimitFits, ModFits
<1>5. u = Attainable(r)
  BY <1>4 DEF from_next_work_required, Attainable
<1>6. /\ q \in Nat
      /\ s <= EpochTimespan => q <= t
      /\ s >= EpochTimespan => q >= t
      /\ q >= t \div 4
  <2> HIDE DEF t, s
  <2> QED
    BY <1>1, <1>2, TimespanAssumption, ScaledQuotient
<1>7. t \div 4 \in Nat /\ t \div 4 <= t
  BY <1>1
<1> HIDE DEF t, s, hi, q, u
<1>8. /\ r \in Nat /\ r <= hi /\ r <= MaxAttainable /\ r >= t \div 4
      /\ span <= EpochTimespan => r <= t
      /\ span >= EpochTimespan => r >= t
  BY <1>1, <1>2, <1>3, <1>6, <1>7, LimitFits DEF MinOf
<1> HIDE DEF r
<1>9. Good(u) /\ u <= r /\ u \in Nat
  BY <1>5, <1>8, AttainableGood DEF Good
<1>10. u >= Attainable(t \div 4)
  <2>1. t \div 4 \in Target /\ r \in Target
    BY <1>1, <1>7, <1>8, LimitFits, WithinLimit
  <2> QED
    BY <1>5, <1>8, <2>1, AttainableMonotone, Zenon
<1>11. span >= EpochTimespan => u >= t
  <2>1. t \in Target /\ r \in Target
    BY <1>1, <1>8, WithinLimit
  <2> QED
    BY <1>1, <1>5, <1>8, <2>1, AttainableMonotone
<1> QED
  BY <1>1, <1>3, <1>8, <1>9, <1>10, <1>11, LimitFits DEF t, hi, u, min_transition_threshold

\* The complement divided by x + 1, and one more, is the quotient of the width
\* by x + 1.
LEMMA InverseExact ==
    ASSUME NEW P \in Nat, NEW x \in Nat, x > 0, x < P
    PROVE  LET w == ((P - 1 - x) \div (x + 1)) + 1
           IN  w \in Nat /\ w > 0 /\ w * (x + 1) <= P /\ (w + 1) * (x + 1) > P
<1> DEFINE a == P - 1 - x
           b == x + 1
           q == a \div b
<1>1. a \in Nat /\ b \in Nat /\ b > 0 /\ a + b = P
  OBVIOUS
<1> HIDE DEF a, b
<1>2. q \in Nat /\ q * b <= a /\ a < (q + 1) * b
  BY <1>1, DivMulLe
<1> HIDE DEF q
<1>3. (q + 1) * b = q * b + b /\ (q + 1 + 1) * b = (q + 1) * b + b
  BY <1>1, <1>2
<1>4. (q + 1) * b <= P /\ (q + 1 + 1) * b > P
  BY <1>1, <1>2, <1>3
<1> QED
  BY <1>2, <1>4 DEF a, b, q

\* A quotient by the difficulty's target.
LEMMA QuotientExact ==
    ASSUME NEW a \in Nat, NEW b \in Nat, b > 0
    PROVE  (a \div b) * b <= a /\ ((a \div b) + 1) * b > a
  BY DivMulLe

\* U256::inverse between its special cases, and at the largest number.
LEMMA InverseQuotient ==
    ASSUME NEW x \in Nat, x > 1, x < Pow[Size], Pow[Size] \in Nat
    PROVE  WorkOf(x) = ((Pow[Size] - 1 - x) \div (x + 1)) + 1
<1>1. CASE x = Pow[Size] - 1
  <2>1. Pow[Size] - 1 - x = 0 /\ x + 1 \in Nat /\ x + 1 > 0
    BY <1>1
  <2>2. 0 \div (x + 1) = 0
    BY <2>1
  <2>3. ((Pow[Size] - 1 - x) \div (x + 1)) + 1 = 1
    BY <2>1, <2>2
  <2>4. WorkOf(x) = 1
    BY <1>1 DEF WorkOf
  <2> QED
    BY <2>3, <2>4
<1>2. CASE x # Pow[Size] - 1
  BY <1>2 DEF WorkOf
<1> QED
  BY <1>1, <1>2

\* Work and difficulty of a target within the limit are exact, and work is never
\* zero.
LEMMA WorkIsExact ==
    ASSUME NEW t \in Nat, t <= MaxAttainable
    PROVE  WorkExact(t) /\ to_work(t) \in Nat /\ to_work(t) > 0
<1> DEFINE P == Pow[Size]
<1>1. P \in Nat /\ t < P /\ P > 3
  <2>1. Pow[1] = Base * Pow[0] /\ Pow[2] = Base * Pow[1] /\ Pow[0] = 1
    BY PowAssumption, SizeAssumption
  <2>2. Pow[2] <= Pow[Size] /\ Pow[2] \in Nat
    BY PowMono, PowPositive, SizeAssumption
  <2>3. Pow[2] >= 4
    BY <2>1, BaseAssumption
  <2> QED
    BY <2>2, <2>3, LimitFits
<1> DEFINE w == to_work(t)
           v == to_target(w)
           d == difficulty(t)
<1>2. CASE t = 0
  BY <1>1, <1>2 DEF WorkExact, to_work, WorkOf
<1>3. t > 0 /\ d < MaxDifficulty => d * t <= MaxAttainable /\ (d + 1) * t > MaxAttainable
  <2> SUFFICES ASSUME t > 0, d < MaxDifficulty
               PROVE  d * t <= MaxAttainable /\ (d + 1) * t > MaxAttainable
    OBVIOUS
  <2>1. d = MaxAttainable \div t
    BY WorkAssumption DEF difficulty, MinOf
  <2> HIDE DEF d
  <2> QED
    BY <2>1, LimitFits, QuotientExact
<1>4. CASE t = 1
  <2>1. w = P - 1 /\ P - 1 > 1
    BY <1>1, <1>4 DEF to_work, WorkOf
  <2>2. v = 1
    BY <1>1, <2>1 DEF to_target, WorkOf
  <2> HIDE DEF w, v, P
  <2>3. w \in Nat /\ w > 0 /\ (w + 1) * (t + 1) > P
    BY <1>1, <1>4, <2>1
  <2> QED
    BY <1>3, <1>4, <2>2, <2>3 DEF WorkExact, w, v, d, P
<1>5. CASE t > 1
  <2>1. w = ((P - 1 - t) \div (t + 1)) + 1
    BY <1>1, <1>5, InverseQuotient DEF to_work
  <2>2. w \in Nat /\ w > 0 /\ w * (t + 1) <= P /\ (w + 1) * (t + 1) > P
    BY <1>1, <1>5, <2>1, InverseExact
  <2> HIDE DEF w
  <2>3. w < P
    <3>1. w * 2 <= w * (t + 1)
      BY <1>5, <2>2, MulMono
    <3>2. w * 2 <= P
      BY <1>1, <2>2, <3>1
    <3> QED
      BY <1>1, <2>2, <3>2
  \* The limit is below half the width, so the work of no target is one.
  <2>4. w > 1
    <3> SUFFICES ASSUME w = 1 PROVE FALSE
      BY <2>2
    <3>1. 2 * (t + 1) > P
      BY <2>2
    <3> QED
      BY <1>1, <3>1, LimitAssumption, LimitFits
  <2>5. v = ((P - 1 - w) \div (w + 1)) + 1
    BY <1>1, <2>2, <2>3, <2>4, InverseQuotient DEF to_target
  <2>6. v \in Nat /\ v * (w + 1) <= P
    BY <1>1, <2>2, <2>3, <2>5, InverseExact
  <2> HIDE DEF v
  <2>7. v <= t
    <3> SUFFICES ASSUME v >= t + 1 PROVE FALSE
      BY <1>1, <2>6
    <3>1. (t + 1) * (w + 1) <= v * (w + 1)
      BY <2>2, <2>6, MulMono
    <3>2. (w + 1) * (t + 1) = (t + 1) * (w + 1)
      BY <2>2
    <3> QED
      BY <1>1, <2>2, <2>6, <3>1, <3>2
  <2> QED
    BY <1>3, <2>2, <2>7 DEF WorkExact, w, v, d
<1> QED
  BY <1>2, <1>4, <1>5

\* Less work at an easier target.
LEMMA WorkMonotone ==
    ASSUME NEW t \in Nat, t <= MaxAttainable
    PROVE  to_work(MaxAttainable) <= to_work(t)
<1> DEFINE P == Pow[Size]
           M == MaxAttainable
           w == to_work(t)
           m == to_work(M)
<1>1. /\ w \in Nat /\ w > 0 /\ m \in Nat /\ m > 0 /\ P \in Nat /\ M \in Nat /\ M < P
      /\ WorkExact(t) /\ WorkExact(M)
  BY WorkIsExact, LimitFits
<1>2. CASE t <= 1
  <2>1. w = P - 1
    BY <1>2 DEF to_work, WorkOf
  <2>2. m <= P - 1
    <3>1. CASE M <= 1
      BY <1>1, <3>1 DEF to_work, WorkOf
    <3>2. CASE M > 1
      <4>1. m * (M + 1) <= P
        BY <3>2, <1>1 DEF WorkExact
      <4> HIDE DEF m, M, P
      <4>2. m * 2 <= m * (M + 1)
        BY <1>1, <3>2, MulMono
      <4>3. m * 2 <= P
        BY <1>1, <4>1, <4>2
      <4> QED
        BY <1>1, <4>3
    <3> QED
      BY <3>1, <3>2, LimitFits
  <2> QED
    BY <2>1, <2>2
<1>3. CASE t > 1
  <2>1. M > 1 /\ m * (M + 1) <= P /\ (w + 1) * (t + 1) > P
    BY <1>3, <1>1 DEF WorkExact
  <2> HIDE DEF m, w, M, P
  <2>2. t <= M
    BY DEF M
  <2> SUFFICES ASSUME m >= w + 1 PROVE FALSE
    BY <1>1 DEF m, w, M
  <2>3. (w + 1) * (t + 1) <= m * (t + 1)
    BY <1>1, MulMono
  <2>4. m * (t + 1) <= m * (M + 1)
    BY <1>1, <2>2, MulMono
  <2>5. (w + 1) * (t + 1) \in Nat /\ m * (t + 1) \in Nat /\ m * (M + 1) \in Nat
    BY <1>1
  <2> QED
    BY <1>1, <2>1, <2>3, <2>4, <2>5
<1> QED
  BY <1>2, <1>3

Header == [time : Times, bits : CompactTargets, hash : Nat]

TargetOf(header) == from_compact(header.bits)

\* The target u may come after the first i headers.
StepSound(hs, i, u) ==
    EpochStep(i, TargetOf(hs[i]), u) /\ EpochFollowsTime(hs, i, TargetOf(hs[i]), u)

\* While as many headers as there are, each with work bound, fit the width, the
\* total did not wrap: it is between as many times the least work and as many
\* times the bound, and counts the last header.
WorkCounted(hs, total) ==
    \A bound \in Nat :
        /\ Len(hs) * bound < Pow[Size]
        /\ \A i \in 1 .. Len(hs) : to_work(TargetOf(hs[i])) <= bound
        => /\ total <= Len(hs) * bound
           /\ total >= Len(hs) * to_work(MaxAttainable)
           /\ Len(hs) > 0 => total >= to_work(TargetOf(hs[Len(hs)]))

\* What every header of a chain, every two in a row, the targets that may come
\* next and the total satisfy.
ChainSound(hs, next, total) ==
    /\ hs \in Seq(Header) /\ total \in Nat
    /\ \A i \in 1 .. Len(hs) : Good(TargetOf(hs[i])) /\ hs[i].hash <= TargetOf(hs[i])
    /\ \A t \in next : Good(t)
    /\ \A i \in 1 .. Len(hs) - 1 : StepSound(hs, i, TargetOf(hs[i + 1]))
    /\ Len(hs) > 0 => \A t \in next : StepSound(hs, Len(hs), t)
    /\ WorkCounted(hs, total)

ChainIInv == ChainSound(headers, required, work)

\* The bits a chain starts from have good targets.
LEMMA StartGood ==
    ASSUME NEW c \in StartBits
    PROVE  Good(from_compact(c))
<1>1. c \in CompactTargets /\ from_compact(c) <= MaxAttainable /\ to_compact_lossy(from_compact(c)) = c
  BY StartBitsAssumption DEF Canonical
<1> QED
  BY <1>1, FromCompactNat DEF Good, Attainable

\* A client without headers.
LEMMA EmptyChain ==
    ASSUME NEW next, \A t \in next : Good(t)
    PROVE  ChainSound(<< >>, next, 0)
<1> DEFINE hs == << >>
<1>1. hs \in Seq(Header) /\ Len(hs) = 0
  OBVIOUS
<1> HIDE DEF hs
<1>2. 0 * to_work(MaxAttainable) = 0
  BY WorkIsExact, LimitFits
<1>3. WorkCounted(hs, 0)
  <2> SUFFICES ASSUME NEW bound \in Nat
               PROVE  0 <= Len(hs) * bound /\ 0 >= Len(hs) * to_work(MaxAttainable)
    BY <1>1 DEF WorkCounted
  <2> QED
    BY <1>1, <1>2
<1>4. ChainSound(hs, next, 0)
  BY <1>1, <1>3 DEF ChainSound
<1> QED
  BY <1>4 DEF hs

\* Both chains start without headers.
LEMMA InitChain == AllInit => ChainIInv
<1> SUFFICES ASSUME AllInit PROVE ChainIInv
  OBVIOUS
<1>1. CASE network = "dogecoin" /\ Init /\ headers = << >> /\ required = {} /\ work = 0 /\ verdict = "New"
  BY <1>1, EmptyChain DEF ChainIInv
<1>2. CASE ChainInit
  BY <1>2, EmptyChain, StartGood DEF ChainInit, ChainIInv
<1> QED
  BY <1>1, <1>2 DEF AllInit

\* After an accepted header the next target is good and comes after it soundly:
\* the same target within an epoch, an adjusted one at its end.
LEMMA NextTargetSound ==
    ASSUME EpochTimespan % 4 = 0, NEW hs \in Seq(Header), Len(hs) > 0, Good(TargetOf(hs[Len(hs)])),
           NEW spans \in TimeDifferences(hs[Len(hs)].time, EpochStart(hs).time),
           NEW u \in NextTargets(hs, spans)
    PROVE  LET n == Len(hs)
               t == TargetOf(hs[n])
           IN  Good(u) /\ EpochStep(n, t, u) /\ EpochFollowsTime(hs, n, t, u)
<1> DEFINE n == Len(hs)
           c == hs[n].bits
           t == from_compact(c)
<1>1. n \in Nat /\ n > 0 /\ n \in 1 .. n /\ \A i \in 1 .. n : hs[i] \in Header
  OBVIOUS
<1>2. TargetOf(hs[n]) = t /\ Good(t)
  BY DEF TargetOf
<1>3. t \in Nat /\ t <= MaxAttainable /\ Attainable(t) = t
  BY SMTT(30), <1>2 DEF Good
<1>4. ASSUME u = t, n % Interval # 0 \/ NoRetargeting
      PROVE  Good(u) /\ EpochStep(n, t, u) /\ EpochFollowsTime(hs, n, t, u)
  <2>1. t \div 4 \in Nat /\ t \div 4 <= t
    BY <1>3
  <2>2. Attainable(t \div 4) <= t /\ Attainable(t \div 4) \in Nat
    BY <1>3, <2>1, LimitFits, AttainableGood DEF Good
  <2> QED
    BY <1>2, <1>3, <1>4, <2>2, MaxThreshold DEF EpochStep, EpochFollowsTime, min_transition_threshold
<1>5. CASE n % Interval # 0
  <2>1. u = t
    BY <1>5 DEF NextTargets
  <2> QED
    BY <1>2, <1>4, <1>5, <2>1
<1>6. CASE n % Interval = 0
  <2>1. PICK span \in spans : u = from_compact(from_next_work_required(c, span))
    BY <1>6 DEF NextTargets, from_header_difficulty_adjustment
  <2>2. CASE NoRetargeting
    <3>1. u = t
      BY <2>1, <2>2 DEF from_next_work_required
    <3> QED
      BY <1>2, <1>4, <2>2, <3>1
  <2>3. CASE ~NoRetargeting
    <3>1. (n - 1) % Interval = Interval - 1 /\ n >= Interval
      <4> DEFINE k == n \div Interval
      <4>1. k \in Nat /\ n = k * Interval
        BY <1>1, <1>6, IntervalAssumption
      <4> HIDE DEF k
      <4>2. k > 0
        BY <1>1, <4>1, IntervalAssumption
      <4>3. n - 1 = (k - 1) * Interval + (Interval - 1)
        BY <4>1, <4>2, IntervalAssumption
      <4>4. ((k - 1) * Interval + (Interval - 1)) % Interval = Interval - 1
        <5> DEFINE j == k - 1
        <5>1. j \in Nat
          BY <4>1, <4>2
        <5> HIDE DEF j
        <5>2. (j * Interval + (Interval - 1)) % Interval = Interval - 1
          BY <5>1, IntervalAssumption
        <5> QED
          BY <5>2 DEF j
      <4>5. n >= Interval
        BY <4>1, <4>2, IntervalAssumption
      <4> QED
        BY <4>3, <4>4, <4>5
    <3>2. EpochStart(hs) = hs[n - Interval + 1] /\ n - Interval + 1 \in 1 .. n
      BY <1>1, <3>1, IntervalAssumption DEF EpochStart
    <3> DEFINE end == hs[n].time
               start == hs[n - Interval + 1].time
    <3>3. end \in Nat /\ start \in Nat /\ end < TimeWrap /\ start < TimeWrap
      <4>1. hs[n] \in Header /\ hs[n - Interval + 1] \in Header
        BY <1>1, <3>2
      <4>2. end \in Times /\ start \in Times
        BY SMTT(30), <4>1 DEF Header
      <4> QED
        BY <4>2, TimesAssumption, TimeWrapAssumption, Zenon
    <3>4. span \in Nat /\ (end >= start => span = end - start)
      BY SMTT(30), <2>1, <3>2, <3>3, TimeWrapAssumption DEF TimeDifferences
    <3>5. /\ Good(u) /\ u <= max_transition_threshold(t)
          /\ u >= Attainable(min_transition_threshold(t))
          /\ span <= EpochTimespan => u <= t
          /\ span >= EpochTimespan => u >= t
      BY <1>2, <2>1, <2>3, <3>4, BitcoinStep
    <3>6. EpochStep(n, t, u)
      BY <1>6, <2>3, <3>5 DEF EpochStep
    <3>7. end - start >= 0 => (u > t => end - start > EpochTimespan) /\ (u < t => end - start < EpochTimespan)
      <4> HIDE DEF end, start, t
      <4>1. u \in Nat /\ (span <= EpochTimespan => u <= t) /\ (span >= EpochTimespan => u >= t)
        BY SMTT(30), <3>5 DEF Good
      <4> QED
        BY <1>3, <3>3, <3>4, <4>1, TimespanAssumption
    <3>8. EpochFollowsTime(hs, n, t, u)
      BY <3>7 DEF EpochFollowsTime
    <3> QED
      BY <1>2, <3>5, <3>6, <3>8
  <2> QED
    BY <2>2, <2>3
<1> QED
  BY <1>5, <1>6

\* Room for one more is room for as many as there are.
LEMMA RoomForLess ==
    ASSUME NEW n \in Nat, NEW bound \in Nat, NEW P \in Nat, (n + 1) * bound < P
    PROVE  n * bound < P
<1> DEFINE A == n * bound
<1>1. A \in Nat /\ (n + 1) * bound = A + bound
  OBVIOUS
<1> HIDE DEF A
<1>2. A < P
  BY <1>1
<1> QED
  BY <1>2 DEF A

\* Adding the work w of one more header, within the bound, to a total that did
\* not wrap.
LEMMA TotalStep ==
    ASSUME NEW n \in Nat, NEW bound \in Nat, NEW P \in Nat, (n + 1) * bound < P,
           NEW total \in Nat, NEW w \in Nat, NEW m \in Nat, m <= w, w <= bound,
           total <= n * bound, total >= n * m
    PROVE  /\ total + w < P /\ total + w \in Nat
           /\ total + w <= (n + 1) * bound /\ total + w >= (n + 1) * m /\ total + w >= w
<1> DEFINE A == n * bound
           M == n * m
<1>1. A \in Nat /\ (n + 1) * bound = A + bound
  OBVIOUS
<1>2. M \in Nat /\ (n + 1) * m = M + m
  OBVIOUS
<1>3. total <= A /\ total >= M
  OBVIOUS
<1> HIDE DEF A, M
<1> QED
  BY <1>1, <1>2, <1>3

\* Adding a header that meets a target its predecessors require.
LEMMA AppendSound ==
    ASSUME EpochTimespan % 4 = 0,
           NEW hs, NEW next, NEW total, ChainSound(hs, next, total),
           NEW header \in Header, TargetOf(header) \in next, header.hash <= TargetOf(header),
           NEW spans \in TimeDifferences(header.time, EpochStart(Append(hs, header)).time)
    PROVE  ChainSound(Append(hs, header), NextTargets(Append(hs, header), spans),
                      AddWork(total, to_work(TargetOf(header))))
<1> DEFINE hs2 == Append(hs, header)
           n == Len(hs)
           w == to_work(TargetOf(header))
           m == to_work(MaxAttainable)
           P == Pow[Size]
<1>1. hs \in Seq(Header) /\ n \in Nat /\ total \in Nat
  BY DEF ChainSound
<1>2. /\ hs2 \in Seq(Header) /\ Len(hs2) = n + 1 /\ hs2[n + 1] = header
      /\ \A i \in 1 .. n : hs2[i] = hs[i]
  BY <1>1
<1>3. Good(TargetOf(header))
  BY DEF ChainSound
<1>4. w \in Nat /\ w > 0 /\ m \in Nat /\ m <= w /\ P \in Nat /\ P > 0
  BY SMTT(30), <1>3, WorkIsExact, WorkMonotone, LimitFits, PowPositive, SizeAssumption DEF Good
<1>5. spans \in TimeDifferences(hs2[Len(hs2)].time, EpochStart(hs2).time)
  BY SMTT(30), <1>2
<1> HIDE DEF hs2
<1>6. \A i \in 1 .. n + 1 : Good(TargetOf(hs2[i])) /\ hs2[i].hash <= TargetOf(hs2[i])
  <2> SUFFICES ASSUME NEW i \in 1 .. n + 1
               PROVE  Good(TargetOf(hs2[i])) /\ hs2[i].hash <= TargetOf(hs2[i])
    OBVIOUS
  <2>1. CASE i = n + 1
    BY SMTT(30), <1>2, <1>3, <2>1
  <2>2. CASE i \in 1 .. n
    BY SMTT(30), <1>2, <2>2 DEF ChainSound
  <2> QED
    BY <1>1, <2>1, <2>2
<1>7. \A t \in NextTargets(hs2, spans) : Good(t) /\ StepSound(hs2, n + 1, t)
  <2> SUFFICES ASSUME NEW t \in NextTargets(hs2, spans)
               PROVE  Good(t) /\ StepSound(hs2, n + 1, t)
    OBVIOUS
  <2>1. Len(hs2) > 0 /\ Good(TargetOf(hs2[Len(hs2)]))
    BY <1>1, <1>2, <1>3
  <2> QED
    BY SMTT(30), <1>2, <1>5, <2>1, NextTargetSound DEF StepSound
<1>8. ASSUME NEW i \in 1 .. n, NEW u, StepSound(hs, i, u)
      PROVE  StepSound(hs2, i, u)
  <2>1. hs2[i] = hs[i]
    BY SMTT(30), <1>2
  <2>2. CASE i % Interval = 0
    <3>1. i - Interval + 1 \in 1 .. n
      <4>1. i >= Interval
        BY SMTT(30), <2>2, IntervalAssumption
      <4> QED
        BY <1>1, <4>1, IntervalAssumption
    <3>2. hs2[i - Interval + 1] = hs[i - Interval + 1]
      BY SMTT(30), <1>2, <3>1
    <3> QED
      BY <1>8, <2>1, <3>2 DEF StepSound, EpochFollowsTime
  <2>3. CASE i % Interval # 0
    BY SMTT(30), <1>8, <2>1, <2>3 DEF StepSound, EpochFollowsTime
  <2> QED
    BY <2>2, <2>3
<1>9. \A i \in 1 .. n : StepSound(hs2, i, TargetOf(hs2[i + 1]))
  <2> SUFFICES ASSUME NEW i \in 1 .. n
               PROVE  StepSound(hs2, i, TargetOf(hs2[i + 1]))
    BY SMTT(30)
  <2>1. CASE i = n
    <3>1. StepSound(hs, n, TargetOf(header))
      BY SMTT(30), <1>1, <2>1 DEF ChainSound
    <3> QED
      BY SMTT(30), <1>2, <1>8, <2>1, <3>1
  <2>2. CASE i \in 1 .. n - 1
    <3>1. StepSound(hs, i, TargetOf(hs[i + 1]))
      BY <2>2 DEF ChainSound
    <3>2. i + 1 \in 1 .. n
      BY SMTT(30), <1>1, <2>2
    <3>3. hs2[i + 1] = hs[i + 1]
      BY SMTT(30), <1>2, <3>2
    <3> QED
      BY ZenonT(30), <1>8, <3>1, <3>3
  <2> QED
    BY SMTT(30), <1>1, <2>1, <2>2
<1>10. WorkCounted(hs2, AddWork(total, w))
  <2> SUFFICES ASSUME NEW bound \in Nat, (n + 1) * bound < P,
                      \A i \in 1 .. n + 1 : to_work(TargetOf(hs2[i])) <= bound
               PROVE  /\ AddWork(total, w) <= (n + 1) * bound
                      /\ AddWork(total, w) >= (n + 1) * m
                      /\ AddWork(total, w) >= w
    BY ZenonT(30), <1>1, <1>2 DEF WorkCounted
  <2>1. w <= bound
    <3>1. n + 1 \in 1 .. n + 1
      BY <1>1
    <3>2. to_work(TargetOf(hs2[n + 1])) <= bound
      <4> HIDE DEF n
      <4> QED
        BY <3>1, Zenon
    <3> QED
      BY <1>2, <3>2, Zenon
  <2>2. \A i \in 1 .. n : to_work(TargetOf(hs[i])) <= bound
    BY SMTT(30), <1>1, <1>2
  <2>3. n * bound < P
    BY SMTT(30), <1>1, <1>4, RoomForLess
  <2>4. total <= n * bound /\ total >= n * m
    BY SMTT(30), <2>2, <2>3 DEF ChainSound, WorkCounted
  <2> HIDE DEF w, m, P, n
  <2>5. /\ total + w < P /\ total + w \in Nat
        /\ total + w <= (n + 1) * bound /\ total + w >= (n + 1) * m /\ total + w >= w
    <3>1. n \in Nat /\ P \in Nat /\ total \in Nat /\ w \in Nat /\ m \in Nat /\ m <= w
      BY SMTT(30), <1>1, <1>4
    <3> QED
      BY ZenonT(30), <2>1, <2>4, <3>1, TotalStep
  <2>6. AddWork(total, w) = total + w
    BY <1>4, <2>5, ModFits DEF AddWork, P
  <2> QED
    BY SMTT(30), <2>5, <2>6
<1>11. AddWork(total, w) \in Nat
  <2> HIDE DEF w
  <2> QED
    BY <1>1, <1>4 DEF AddWork
<1> HIDE DEF w
<1>12. ChainSound(hs2, NextTargets(hs2, spans), AddWork(total, w))
  <2>1. Len(hs2) - 1 = n /\ Len(hs2) = n + 1
    BY <1>1, <1>2
  <2>2. /\ \A i \in 1 .. Len(hs2) : Good(TargetOf(hs2[i])) /\ hs2[i].hash <= TargetOf(hs2[i])
        /\ \A i \in 1 .. Len(hs2) - 1 : StepSound(hs2, i, TargetOf(hs2[i + 1]))
        /\ \A t \in NextTargets(hs2, spans) : Good(t) /\ StepSound(hs2, Len(hs2), t)
    BY <1>6, <1>7, <1>9, <2>1, Zenon
  <2> QED
    BY ZenonT(30), <1>2, <1>10, <1>11, <2>2 DEF ChainSound
<1> QED
  BY <1>12 DEF hs2, w

\* Every step keeps the chain sound.
LEMMA NextChain == EpochTimespan % 4 = 0 /\ ChainIInv /\ [AllNext]_allVars => ChainIInv'
<1> SUFFICES ASSUME EpochTimespan % 4 = 0, ChainIInv, [AllNext]_allVars
             PROVE  ChainIInv'
  OBVIOUS
<1>1. CASE UNCHANGED chainVars
  BY <1>1 DEF ChainIInv, chainVars
<1>2. CASE FollowHeaders
  <2>1. CASE ChainNext
    <3>1. PICK t \in required :
             \E time \in Times, c \in OfferedBits(t), hash \in OfferedHashes(t) :
                 Follow([time |-> time, bits |-> c, hash |-> hash], t)
      BY <2>1 DEF ChainNext
    <3>2. PICK time \in Times, c \in OfferedBits(t), hash \in OfferedHashes(t) :
             Follow([time |-> time, bits |-> c, hash |-> hash], t)
      BY <3>1
    <3> DEFINE header == [time |-> time, bits |-> c, hash |-> hash]
    <3>3. CASE verdict' # "Ok"
      BY <3>2, <3>3 DEF Follow, ChainIInv
    <3>4. CASE verdict' = "Ok"
      <4>1. Good(t)
        BY DEF ChainIInv, ChainSound
      <4>2. hash \in Nat
        BY <4>1 DEF OfferedHashes, Good
      <4>3. c \in CompactTargets
        BY DEF OfferedBits
      <4>4. header \in Header /\ TargetOf(header) = from_compact(header.bits)
        BY <4>2, <4>3 DEF Header, TargetOf
      <4> HIDE DEF header
      <4>5. Follow(header, t)
        BY <3>2 DEF header
      <4>6. TargetOf(header) = t /\ header.hash <= t
        BY <3>4, <4>4, <4>5 DEF Follow, validate_pow, is_met_by
      <4>7. PICK spans \in TimeDifferences(header.time, EpochStart(headers').time) :
               required' = NextTargets(headers', spans)
        BY <3>4, <4>5 DEF Follow
      <4>8. headers' = Append(headers, header) /\ work' = AddWork(work, to_work(TargetOf(header)))
        BY <3>4, <4>4, <4>5 DEF Follow
      <4> QED
        BY <4>4, <4>6, <4>7, <4>8, AppendSound DEF ChainIInv
    <3> QED
      BY <3>3, <3>4
  <2>2. CASE StartOver
    BY SMTT(30), <2>2, EmptyChain, StartGood DEF StartOver, ChainIInv
  <2> QED
    BY <1>2, <2>1, <2>2 DEF FollowHeaders
<1> QED
  BY <1>1, <1>2 DEF AllNext, Walk, allVars, chainVars

\* A sound chain satisfies HeadersSound.
LEMMA ChainIsSound == ChainIInv => HeadersSound
<1> SUFFICES ASSUME ChainIInv PROVE HeadersSound
  OBVIOUS
<1> DEFINE n == Len(headers)
           ts == [i \in DOMAIN headers |-> from_compact(headers[i].bits)]
<1>1. headers \in Seq(Header) /\ n \in Nat /\ DOMAIN headers = 1 .. n /\ work \in Nat
  BY DEF ChainIInv, ChainSound
<1>2. \A i \in 1 .. n : /\ TargetOf(headers[i]) = from_compact(headers[i].bits)
                        /\ Good(TargetOf(headers[i])) /\ headers[i].hash <= TargetOf(headers[i])
  BY DEF ChainIInv, ChainSound, TargetOf
<1>3. \A t \in required : t <= MaxAttainable /\ Attainable(t) = t
  BY DEF ChainIInv, ChainSound, Good
<1>4. \A i \in DOMAIN headers : \A t \in {from_compact(headers[i].bits)} : headers[i].hash <= t /\ WorkExact(t)
  BY <1>1, <1>2, WorkIsExact DEF Good
<1>5. \A i \in 1 .. Len(Targets) - 1 :
         EpochStep(i, Targets[i], Targets[i + 1]) /\ EpochFollowsTime(headers, i, Targets[i], Targets[i + 1])
  <2>1. ts \in Seq(Nat) /\ Len(ts) = n /\ \A i \in 1 .. n : ts[i] = TargetOf(headers[i])
    <3>1. \A i \in 1 .. n : from_compact(headers[i].bits) \in Nat
      BY <1>2 DEF Good
    <3> QED
      BY <1>1, <1>2, <3>1
  <2> HIDE DEF ts
  <2>2. \A i \in 1 .. n - 1 : StepSound(headers, i, TargetOf(headers[i + 1]))
    BY DEF ChainIInv, ChainSound
  <2>3. CASE required = {}
    <3>1. Targets = ts
      BY <2>3 DEF Targets, ts
    <3> QED
      BY <1>1, <2>1, <2>2, <3>1 DEF StepSound
  <2>4. CASE required # {}
    <3> DEFINE next == CHOOSE t \in required : TRUE
    <3>1. next \in required
      BY <2>4
    <3>2. Targets = Append(ts, next)
      BY <2>4 DEF Targets, ts
    <3> HIDE DEF next
    <3>3. next \in Nat
      BY <3>1 DEF ChainIInv, ChainSound, Good
    <3> HIDE DEF n
    <3>4. Len(Targets) = n + 1 /\ Targets[n + 1] = next /\ \A i \in 1 .. n : Targets[i] = ts[i]
      BY <1>1, <2>1, <3>2, <3>3
    <3>5. Len(Targets) - 1 = n /\ \A i \in 1 .. n : Targets[i] = TargetOf(headers[i])
      BY <1>1, <2>1, <3>4
    <3> SUFFICES ASSUME NEW i \in 1 .. n
                 PROVE  StepSound(headers, i, Targets[i + 1])
      BY <3>5, Zenon DEF StepSound
    <3>6. CASE i = n
      <4>1. Len(headers) > 0
        BY <1>1, <3>6 DEF n
      <4>2. StepSound(headers, Len(headers), next)
        BY <3>1, <4>1 DEF ChainIInv, ChainSound
      <4> QED
        BY <3>4, <3>6, <4>2 DEF n
    <3>7. CASE i \in 1 .. n - 1
      <4>1. i + 1 \in 1 .. n
        BY <1>1, <3>7
      <4> QED
        BY <2>1, <2>2, <3>4, <3>7, <4>1, Zenon
    <3> QED
      BY <1>1, <3>6, <3>7
  <2> QED
    BY <2>3, <2>4
<1>6. ASSUME WorkFits
      PROVE  /\ work >= n * to_work(MaxAttainable)
             /\ headers # << >> => SubWork(work, to_work(from_compact(headers[n].bits))) < work
  <2> DEFINE P == Pow[Size]
             bound == (P - 1) \div n
             w == to_work(from_compact(headers[n].bits))
  <2>1. P \in Nat /\ P > 0
    BY PowPositive, SizeAssumption
  <2>2. CASE n = 0
    <3>1. headers = << >>
      BY <1>1, <2>2
    <3>2. to_work(MaxAttainable) \in Nat
      BY WorkIsExact, LimitFits
    <3> QED
      BY <1>1, <2>2, <3>1, <3>2
  <2>3. CASE n > 0
    <3>1. bound \in Nat /\ n * bound <= P - 1 /\ \A x \in Nat : n * x < P => x <= bound
      <4>1. P - 1 \in Nat
        BY <2>1
      <4>2. \A x \in Nat : n * x < P => x <= bound
        <5> SUFFICES ASSUME NEW x \in Nat, n * x < P
                     PROVE  x <= bound
          OBVIOUS
        <5>1. (n * x) \div n = x
          BY <1>1, <2>3, MulDiv
        <5>2. n * x \in Nat /\ n * x <= P - 1
          BY <1>1, <2>1
        <5> QED
          BY <1>1, <2>3, <4>1, <5>1, <5>2, DivMono
      <4> HIDE DEF P, n
      <4>3. bound \in Nat
        BY <1>1, <2>3, <4>1
      <4>4. bound * n <= P - 1
        BY <1>1, <2>3, <4>1, DivMulLe
      <4> QED
        BY <1>1, <4>2, <4>3, <4>4
    <3>2. \A i \in 1 .. n : to_work(TargetOf(headers[i])) \in Nat /\ to_work(TargetOf(headers[i])) > 0
      BY <1>2, WorkIsExact DEF Good
    <3>3. \A i \in 1 .. n : to_work(TargetOf(headers[i])) <= bound
      <4>1. \A i \in 1 .. n : n * to_work(TargetOf(headers[i])) < P
        BY <1>1, <1>2, <1>6 DEF WorkFits
      <4> QED
        BY <3>1, <3>2, <4>1, Zenon
    <3> HIDE DEF bound
    <3>4. n * bound < P
      <4> DEFINE A == n * bound
      <4>1. A \in Nat /\ A <= P - 1
        BY <1>1, <3>1
      <4> HIDE DEF A, P
      <4>2. A < P
        BY <2>1, <4>1
      <4> QED
        BY <4>2 DEF A
    <3>5. work <= n * bound /\ work >= n * to_work(MaxAttainable) /\ work >= to_work(TargetOf(headers[n]))
      BY <2>3, <3>1, <3>3, <3>4 DEF ChainIInv, ChainSound, WorkCounted
    <3>6. w \in Nat /\ w > 0 /\ work >= w /\ work < P
      <4>1. n \in 1 .. n
        BY <1>1, <2>3
      <4>2. w = to_work(TargetOf(headers[n]))
        BY <1>2, <4>1
      <4> DEFINE A == n * bound
      <4>3. A \in Nat
        BY <1>1, <3>1
      <4>4. A < P /\ work <= A
        BY <3>4, <3>5
      <4> HIDE DEF A, P
      <4>5. work < P
        BY <1>1, <2>1, <4>3, <4>4
      <4> HIDE DEF w
      <4> QED
        BY <3>2, <3>5, <4>1, <4>2, <4>5
    <3> HIDE DEF w, P
    <3>7. work - w \in Nat /\ work - w < P /\ work - w < work
      BY <1>1, <2>1, <3>6
    <3>8. SubWork(work, w) = work - w
      BY <2>1, <3>7, ModFits DEF SubWork, P
    <3> QED
      BY <3>5, <3>7, <3>8 DEF w
  <2> QED
    BY <1>1, <2>2, <2>3
<1> QED
  BY <1>3, <1>4, <1>5, <1>6 DEF HeadersSound

\* Following headers is sound (Header::validate_pow,
\* CompactTarget::from_next_work_required, Target::to_work): on every network
\* whose planned epoch is a multiple of four seconds, for every width of target,
\* every interval of adjustment and any times the miners choose, each accepted
\* header meets the target its predecessors require, that target moves by no
\* more than a factor of four and only in the direction the epoch's timespan
\* says, and the total work counts every header while it fits 256 bits.
THEOREM HeadersAreSound ==
    EpochTimespan % 4 = 0 => (AllInit /\ [][AllNext]_allVars => []HeadersSound)
<1> SUFFICES ASSUME EpochTimespan % 4 = 0
             PROVE  AllInit /\ [][AllNext]_allVars => []HeadersSound
  OBVIOUS
<1>1. ChainIInv /\ [AllNext]_allVars => ChainIInv'
  BY NextChain
<1> QED
  BY InitChain, <1>1, ChainIsSound, PTL
=============================================================================
