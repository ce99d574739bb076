----------------------------- MODULE Difficulty -----------------------------
(***************************************************************************)
(* The 256-bit proof-of-work target, its 32-bit compact encoding, and      *)
(* Dogecoin's difficulty adjustment along a chain of headers               *)
(* (bitcoin/src/pow.rs, bitcoin/src/dogecoin/params.rs).                   *)
(*                                                                         *)
(* A target is a natural number below Pow[Size]; a compact target is the   *)
(* u32 split into its exponent byte `size` and its three-byte mantissa     *)
(* `mant`.  The code works with bytes of eight bits and 32-byte numbers;   *)
(* both are parameters here: Pow[n] is the place value of byte n.  The     *)
(* table is a constant, with the recurrence that defines it as its         *)
(* assumption, because the provers know nothing of exponentiation.         *)
(*                                                                         *)
(* A caller walks a header chain and, at every adjustment, hands two       *)
(* headers to from_header_difficulty_adjustment_dogecoin: the one at the   *)
(* last epoch boundary and the current one.  Dogecoin's intervals overlap: *)
(* the current header of one adjustment is the boundary of the next.       *)
(* Header times are chosen by miners, so the net timespan may be negative. *)
(***************************************************************************)
EXTENDS Integers

-----------------------------------------------------------------------------
(* Compact targets *)

CONSTANTS
    Base,       \* the values of a byte (256)
    Size,       \* the bytes of a U256 (32)
    MaxExp,     \* the largest exponent byte (255)
    Pow         \* place values: Pow[n] = Base^n

ASSUME BaseAssumption == Base \in Nat /\ Base > 1 /\ Base % 2 = 0
ASSUME SizeAssumption == Size \in Nat /\ Size > 3
ASSUME MaxExpAssumption == MaxExp \in Nat /\ MaxExp > Size
ASSUME PowAssumption ==
    /\ Pow \in [0 .. Size -> Nat]
    /\ Pow[0] = 1
    /\ \A n \in 0 .. Size - 1 : Pow[n + 1] = Base * Pow[n]

Target == 0 .. Pow[Size] - 1

CompactTargets == [size : 0 .. MaxExp, mant : 0 .. Pow[3] - 1]

\* 0x0080_0000, the sign bit of the mantissa.
SignBit == Pow[3] \div 2

\* U256 << (8 * n): wrapping_shl masks the shift to the width of the type and
\* drops the bits that are shifted out.
ShlBytes(x, n) == (x * Pow[n % Size]) % Pow[Size]

ShrBytes(x, n) == x \div Pow[n % Size]

\* (U256::bits() + 7) / 8.
NumBytes(t) ==
    CHOOSE n \in 0 .. Size : t < Pow[n] /\ (n > 0 => Pow[n - 1] <= t)

from_compact(c) ==
    LET mant == IF c.size <= 3 THEN c.mant \div Pow[3 - c.size] ELSE c.mant
        expt == IF c.size <= 3 THEN 0 ELSE c.size - 3
    IN  IF mant >= SignBit THEN 0 ELSE ShlBytes(mant, expt)

\* The byte-sized mantissa before the sign bit is looked at.
Mantissa(t, size) ==
    IF size <= 3 THEN t * Pow[3 - size] ELSE ShrBytes(t, size - 3)

\* Mutant: tests the sign bit with a strict comparison.
to_compact_lossy_StrictSign(t) ==
    LET size == NumBytes(t)
        compact == Mantissa(t, size)
    IN  IF compact > SignBit
          THEN [size |-> size + 1, mant |-> compact \div Base]
          ELSE [size |-> size, mant |-> compact]

to_compact_lossy(t) ==
    LET size == NumBytes(t)
        compact == Mantissa(t, size)
    IN  IF compact >= SignBit
          THEN [size |-> size + 1, mant |-> compact \div Base]
          ELSE [size |-> size, mant |-> compact]

\* The target a block header can really carry for t: t after the round trip
\* through the compact form.
Attainable(t) == from_compact(to_compact_lossy(t))

Canonical(c) == to_compact_lossy(from_compact(c)) = c

-----------------------------------------------------------------------------
(* Adjustments *)

CONSTANTS
    MaxAttainable,      \* Params::max_attainable_target
    NoRetargeting,      \* Params::no_pow_retargeting
    DigishieldHeight,   \* Params::digishield_activation_height (145000)
    EarlyEnd,           \* 5000, last height with a 16-fold decrease
    MidEnd,             \* 10000, last height with an 8-fold decrease
    EpochTimespan,      \* FOUR_HOURS
    DigishieldTimespan, \* ONE_MINUTE (ONE_SECOND on regtest)
    Times,              \* header times
    SlowTimespans,      \* timespans of epochs mined far slower than expected
    MaxHeight,          \* bound on the height of the chain
    StartBits           \* bits the walk may start from

ASSUME MaxAttainableAssumption == MaxAttainable \in Target
ASSUME NoRetargetingAssumption == NoRetargeting \in BOOLEAN
ASSUME HeightAssumption ==
    /\ {DigishieldHeight, EarlyEnd, MidEnd, MaxHeight} \subseteq Nat
    /\ EarlyEnd < MidEnd
ASSUME TimespanAssumption ==
    /\ EpochTimespan \in Nat /\ EpochTimespan > 0
    /\ DigishieldTimespan \in Nat /\ DigishieldTimespan > 0
ASSUME TimesAssumption == Times \subseteq Nat
ASSUME SlowAssumption ==
    /\ SlowTimespans \subseteq Nat
    /\ \A s \in SlowTimespans : s >= 5 * EpochTimespan /\ s >= 5 * DigishieldTimespan
\* The parameters leave headroom for the product of target and timespan: on
\* mainnet and testnet the limit is below 2^236 and a timespan below 2^16.
\* Regtest, whose limit is just below 2^255, never retargets.
ASSUME HeadroomAssumption ==
    ~NoRetargeting =>
        /\ MaxAttainable * (4 * EpochTimespan) < Pow[Size]
        /\ MaxAttainable * (4 * DigishieldTimespan) < Pow[Size]
ASSUME StartBitsAssumption ==
    \A c \in StartBits :
        c \in CompactTargets /\ from_compact(c) <= MaxAttainable /\ Canonical(c)

VARIABLES
    bits,       \* CompactTarget of the current header
    height,     \* height at which bits was computed
    boundary    \* time of the header at the last epoch boundary

vars == <<bits, height, boundary>>

-----------------------------------------------------------------------------
(* Params *)

is_digishield_activated(h) == h >= DigishieldHeight

pow_target_timespan(h) ==
    IF is_digishield_activated(h) THEN DigishieldTimespan ELSE EpochTimespan

-----------------------------------------------------------------------------
(* Transition thresholds *)

MinOf(a, b) == IF a <= b THEN a ELSE b

\* The largest decrease before Digishield, as a divisor: x >> 4, >> 3, >> 2.
DecreaseLimit(h) ==
    CASE h <= EarlyEnd -> 16
      [] h > EarlyEnd /\ h <= MidEnd -> 8
      [] h > MidEnd -> 4

min_transition_threshold_dogecoin(t, h) ==
    IF is_digishield_activated(h) THEN t - (t \div 4) ELSE t \div DecreaseLimit(h)

\* Both sums are 256-bit numbers: the shift drops its high bits and the
\* addition wraps in a release build.
max_transition_threshold_unchecked(t) == (4 * t) % Pow[Size]

max_transition_threshold_dogecoin(t, h) ==
    IF is_digishield_activated(h)
      THEN MinOf((t + (t \div 2)) % Pow[Size], MaxAttainable)
      ELSE MinOf(max_transition_threshold_unchecked(t), MaxAttainable)

-----------------------------------------------------------------------------
(* Retargeting *)

\* Division of signed integers in Rust: towards zero.
TruncDiv(a, b) == IF a < 0 THEN -((-a) \div b) ELSE a \div b

Clamp(x, lo, hi) == IF x < lo THEN lo ELSE IF x > hi THEN hi ELSE x

\* Mutant: the timespan becomes unsigned before it is clamped.
modulated_timespan_Unsigned(timespan, h) ==
    LET T == pow_target_timespan(h)
    IN  IF is_digishield_activated(h)
          THEN Clamp(T + TruncDiv(timespan - T, 8), T - (T \div 4), T + (T \div 2))
          ELSE Clamp(timespan % (1024 * T), T \div DecreaseLimit(h), 4 * T)

\* Mutant: Digishield may halve the target.
modulated_timespan_Halving(timespan, h) ==
    LET T == pow_target_timespan(h)
    IN  IF is_digishield_activated(h)
          THEN Clamp(T + TruncDiv(timespan - T, 8), T - (T \div 2), T + (T \div 2))
          ELSE Clamp(timespan, T \div DecreaseLimit(h), 4 * T)

\* Mutant: Digishield never eases the difficulty.
modulated_timespan_NoEasing(timespan, h) ==
    LET T == pow_target_timespan(h)
    IN  IF is_digishield_activated(h)
          THEN Clamp(T + TruncDiv(timespan - T, 8), T - (T \div 4), T)
          ELSE Clamp(timespan, T \div DecreaseLimit(h), 4 * T)

\* Mutant: the clamp leaves the earliest range one height late.
modulated_timespan_LateSwitch(timespan, h) ==
    LET T == pow_target_timespan(h)
        divisor == IF h <= EarlyEnd + 1 THEN 16 ELSE DecreaseLimit(h)
    IN  IF is_digishield_activated(h)
          THEN Clamp(T + TruncDiv(timespan - T, 8), T - (T \div 4), T + (T \div 2))
          ELSE Clamp(timespan, T \div divisor, 4 * T)

modulated_timespan(timespan, h) ==
    LET T == pow_target_timespan(h)
    IN  IF is_digishield_activated(h)
          THEN Clamp(T + TruncDiv(timespan - T, 8), T - (T \div 4), T + (T \div 2))
          ELSE Clamp(timespan, T \div DecreaseLimit(h), 4 * T)

\* Target * timespan / expected timespan, in 256-bit arithmetic.
Scaled(t, timespan, h) ==
    ((t * modulated_timespan(timespan, h)) % Pow[Size]) \div pow_target_timespan(h)

from_next_work_required_dogecoin(last, timespan, h) ==
    LET prev_target == from_compact(last)
        maximum_retarget == max_transition_threshold_dogecoin(prev_target, h)
        retarget == Scaled(prev_target, timespan, h)
    IN  IF NoRetargeting THEN last
        ELSE IF retarget >= maximum_retarget THEN to_compact_lossy(maximum_retarget)
        ELSE to_compact_lossy(retarget)

from_header_difficulty_adjustment_dogecoin(start, time, last, h) ==
    from_next_work_required_dogecoin(last, time - start, h)

-----------------------------------------------------------------------------
(* The chain *)

Init ==
    /\ bits \in StartBits
    /\ height \in 0 .. MaxHeight
    /\ boundary \in Times

\* One difficulty adjustment, at height h, with a current header of the given
\* time.
Adjust(time, h) ==
    /\ h \in height .. MaxHeight
    /\ bits' = from_header_difficulty_adjustment_dogecoin(boundary, time, bits, h)
    /\ height' = h
    /\ boundary' = time

\* The same for a caller that gives the timespan itself, of an epoch mined far
\* slower than expected.
AdjustSlow(timespan, h) ==
    /\ h \in height .. MaxHeight
    /\ bits' = from_next_work_required_dogecoin(bits, timespan, h)
    /\ height' = h
    /\ UNCHANGED boundary

SlowNext == \E timespan \in SlowTimespans, h \in 0 .. MaxHeight : AdjustSlow(timespan, h)

Next == SlowNext \/ \E time \in Times, h \in 0 .. MaxHeight : Adjust(time, h)

Spec == Init /\ [][Next]_vars

\* Blocks keep coming, which is an assumption on the miners, not on this code.
FairSpec == Spec /\ WF_vars(SlowNext)

-----------------------------------------------------------------------------
(* Properties *)

Timespans == {e - s : e \in Times, s \in Times}

TypeOK ==
    /\ bits \in CompactTargets
    /\ height \in 0 .. MaxHeight
    /\ boundary \in Times

\* However many adjustments were made, and whatever the header times, the
\* target of the chain is at most max_attainable_target: the limit is applied
\* before the conversion to the compact form, which may only round down.
TargetAttainable == from_compact(bits) <= MaxAttainable

\* The product of target and modulated timespan in
\* from_next_work_required_dogecoin never leaves 256 bits: no adjustment of a
\* target reached by adjustments wraps around to a small one.
ProductFits ==
    ~NoRetargeting =>
        \A ts \in Timespans, h \in height .. MaxHeight :
            from_compact(bits) * modulated_timespan(ts, h) < Pow[Size]

\* The bits of the chain are the ones the target itself encodes to, so a
\* recomputed header field can be compared with the received one bit by bit.
CanonicalBits == Canonical(bits)

\* What every step of the walk preserves: the target is of its type, within
\* the limit, canonical, and can be multiplied.
BitsSound == TypeOK /\ TargetAttainable /\ CanonicalBits /\ ProductFits

\* A slower epoch never makes mining harder: the target is monotone in the
\* timespan, through the truncating division, the clamps and both roundings.
RetargetMonotone ==
    \A h \in height .. MaxHeight :
        LET next == [ts \in Timespans |->
                       from_compact(from_next_work_required_dogecoin(bits, ts, h))]
        IN  \A s \in Timespans, u \in Timespans : s <= u => next[s] <= next[u]

\* One adjustment stays within the transition thresholds of the previous
\* target, the lower one rounded to an attainable target as the compact form
\* requires.  (A target below three bytes has no slack for rounding; there the
\* computed quotient may be one below the threshold.)
StepWithinThresholds ==
    LET t == from_compact(bits)
        u == from_compact(bits')
    IN  ~NoRetargeting =>
            /\ u <= max_transition_threshold_dogecoin(t, height')
            /\ t >= Pow[3] => u >= Attainable(min_transition_threshold_dogecoin(t, height'))

\* No step of from_next_work_required_dogecoin leaves the thresholds of the
\* target it started from.
AdjustmentsWithinThresholds == [][StepWithinThresholds]_vars

\* Difficulty recovers: while epochs stay slow, a target above one rises to
\* the easiest one and the rounding of the compact form never stalls it.
RecoversToEasiest ==
    <>[][SlowNext]_vars /\ <>[](from_compact(bits) > 1)
        => <>[](bits = to_compact_lossy(MaxAttainable))
=============================================================================
