-------------------------------- MODULE U256 --------------------------------
(***************************************************************************)
(* The 256-bit arithmetic of bitcoin/src/pow.rs on its representation: a   *)
(* U256 is a pair of 128-bit halves, and multiplication works on 64-bit    *)
(* quarters.  Every operation is checked against the arithmetic of the     *)
(* natural numbers the pairs stand for.                                    *)
(*                                                                         *)
(* The bitwise long division U256::div_rem and the decimal printer built   *)
(* on it, U256::fmt_decimal, take one step per loop iteration.  There a    *)
(* U256 is a natural number below Pow2[Width]: the loops use the halves    *)
(* only through the operations above.                                      *)
(***************************************************************************)
EXTENDS Integers, Sequences

CONSTANTS
    QuarterBits,    \* bits of a quarter (64)
    Quarter,        \* 2 ^ QuarterBits
    MantissaBits,   \* significant bits of a float (53)
    Bias,           \* exponent bias of a float (1023)
    Lhs, Rhs,       \* bound: operands that are tried
    Digits          \* bound: length of the hexadecimal numbers that are tried

ASSUME QuarterAssumption == Quarter \in Nat /\ Quarter > 1
ASSUME FloatAssumption ==
    /\ Quarter = 2 ^ QuarterBits
    /\ MantissaBits \in 2 .. 2 * QuarterBits - 1

Half == Quarter * Quarter
HalfBits == 2 * QuarterBits
FullBits == 4 * QuarterBits

Halves == 0 .. Half - 1
U256 == Halves \X Halves

\* The number a pair stands for.
Val(x) == x[1] * Half + x[2]
Full == Half * Half
OfVal(n) == <<n \div Half, n % Half>>

ZERO == <<0, 0>>
ONE == <<0, 1>>
MAX == <<Half - 1, Half - 1>>

\* u128::overflowing_add.
Add(x, y) == IF x + y < Half THEN [val |-> x + y, over |-> FALSE]
             ELSE [val |-> x + y - Half, over |-> TRUE]

overflowing_add(x, y) ==
    LET high == Add(x[1], y[1])
        low == Add(x[2], y[2])
        carried == Add(high.val, 1)
    IN  IF low.over THEN [val |-> <<carried.val, low.val>>, over |-> high.over \/ carried.over]
        ELSE [val |-> <<high.val, low.val>>, over |-> high.over]

wrapping_add(x, y) == overflowing_add(x, y).val

not(x) == <<Half - 1 - x[1], Half - 1 - x[2]>>

\* The derived order compares the high halves first.
Greater(x, y) == x[1] > y[1] \/ (x[1] = y[1] /\ x[2] > y[2])

overflowing_sub(x, y) ==
    [val |-> wrapping_add(wrapping_add(x, not(y)), ONE), over |-> Greater(y, x)]

wrapping_inc(x) ==
    LET low == Add(x[2], 1).val
    IN  <<IF low = 0 THEN Add(x[1], 1).val ELSE x[1], low>>

\* Mutant: the carry is not taken into the next quarter.
MulStep_NoCarry(carry, word, rhs) ==
    [word |-> (rhs * word) % Quarter, carry |-> (rhs * word) \div Quarter]

\* One turn of the loop of mul_u64: the low bits stay, the high bits carry.
MulStep(carry, word, rhs) ==
    LET n == carry + rhs * word IN [word |-> n % Quarter, carry |-> n \div Quarter]

mul_u64(x, rhs) ==
    LET w0 == MulStep(0, x[2] % Quarter, rhs)
        w1 == MulStep(w0.carry, x[2] \div Quarter, rhs)
        w2 == MulStep(w1.carry, x[1] % Quarter, rhs)
        w3 == MulStep(w2.carry, x[1] \div Quarter, rhs)
    IN  [val |-> <<w2.word + w3.word * Quarter, w0.word + w1.word * Quarter>>,
         over |-> w3.carry # 0]

\* Mutant: the low half is not moved into the high half.
wrapping_shl_NoSpill(x, rhs) ==
    LET shift == rhs % FullBits
        bit_shift == shift % HalfBits
    IN  IF shift >= HalfBits THEN <<(x[2] * 2 ^ bit_shift) % Half, 0>>
        ELSE <<(x[1] * 2 ^ bit_shift) % Half, (x[2] * 2 ^ bit_shift) % Half>>

wrapping_shl(x, rhs) ==
    LET shift == rhs % FullBits
        bit_shift == shift % HalfBits
    IN  IF shift >= HalfBits THEN <<(x[2] * 2 ^ bit_shift) % Half, 0>>
        ELSE <<((x[1] * 2 ^ bit_shift) % Half)
                   + (IF bit_shift > 0 THEN x[2] \div 2 ^ (HalfBits - bit_shift) ELSE 0),
               (x[2] * 2 ^ bit_shift) % Half>>

wrapping_shr(x, rhs) ==
    LET shift == rhs % FullBits
        bit_shift == shift % HalfBits
    IN  IF shift >= HalfBits THEN <<0, x[1] \div 2 ^ bit_shift>>
        ELSE <<x[1] \div 2 ^ bit_shift,
               x[2] \div 2 ^ bit_shift
                   + (IF bit_shift > 0 THEN (x[1] * 2 ^ (HalfBits - bit_shift)) % Half ELSE 0)>>

low_u64(x) == x[2] % Quarter

\* The three low quarters of y are multiplied and shifted into place; the
\* overflow of their products is dropped.  The product of the highest quarter
\* is added as it is.
overflowing_mul(x, y) ==
    LET product(i) == mul_u64(x, low_u64(wrapping_shr(y, QuarterBits * i)))
        part(i) == wrapping_shl(product(i).val, QuarterBits * i)
        low == wrapping_add(wrapping_add(wrapping_add(ZERO, part(0)), part(1)), part(2))
        sum == overflowing_add(low, product(3).val)
    IN  [val |-> sum.val, over |-> product(3).over \/ sum.over]

BitsOf(n) == CHOOSE b \in 0 .. HalfBits : n < 2 ^ b /\ (b > 0 => n >= 2 ^ (b - 1))

bit_length(x) == IF x[1] > 0 THEN HalfBits + BitsOf(x[1]) ELSE BitsOf(x[2])

\* Division is the state machine at the end.
inverse(x) ==
    IF x \in {ZERO, ONE} THEN MAX ELSE IF x = MAX THEN ONE
    ELSE wrapping_inc(OfVal(Val(not(x)) \div Val(wrapping_inc(x))))

saturating_to_u128(x) == IF Greater(x, <<0, Half - 1>>) THEN Half - 1 ELSE x[2]

-----------------------------------------------------------------------------
(* Conversions: a byte is a quarter digit, two of them make a half *)

ToDigits(h) == <<h \div Quarter, h % Quarter>>
OfDigits(d) == d[1] * Quarter + d[2]
Reversed(d) == [i \in DOMAIN d |-> d[Len(d) + 1 - i]]

to_be_bytes(x) == ToDigits(x[1]) \o ToDigits(x[2])

to_le_bytes(x) == Reversed(ToDigits(x[2])) \o Reversed(ToDigits(x[1]))
from_be_bytes(a) == <<OfDigits(SubSeq(a, 1, 2)), OfDigits(SubSeq(a, 3, 4))>>
from_le_bytes(a) ==
    <<OfDigits(Reversed(SubSeq(a, 3, 4))), OfDigits(Reversed(SubSeq(a, 1, 2)))>>

\* u128::from_str_radix over digits: -1 when there is no digit or it
\* overflows.
Horner[d \in Seq(0 .. Quarter - 1)] ==
    IF d = << >> THEN 0 ELSE Horner[SubSeq(d, 1, Len(d) - 1)] * Quarter + d[Len(d)]

hex_u128(d) == IF d = << >> \/ Horner[d] >= Half THEN -1 ELSE Horner[d]

\* The last digits make the low half; the empty sequence is an error.
from_hex_internal(d) ==
    LET split == Len(d) - 2
        high == IF Len(d) <= 2 THEN 0 ELSE hex_u128(SubSeq(d, 1, split))
        low == hex_u128(IF Len(d) <= 2 THEN d ELSE SubSeq(d, split + 1, Len(d)))
    IN  IF high = -1 \/ low = -1 THEN << >> ELSE <<high, low>>

\* Mutant: dropped bits are rounded away from the even neighbour.
to_f64_HalfUp(x) ==
    LET leading_zeroes == FullBits - bit_length(x)
        left_aligned == wrapping_shl(x, leading_zeroes)
        middle_aligned == wrapping_shr(left_aligned, HalfBits - MantissaBits)
        mantissa == middle_aligned[1] + middle_aligned[2] \div 2 ^ (HalfBits - 1)
        exponent == IF x = ZERO THEN 0 ELSE Bias - 1 + (FullBits - 1) - leading_zeroes
    IN  exponent * 2 ^ (MantissaBits - 1) + mantissa

\* The bits of the float nearest to x, ties to the even mantissa.  The bits
\* below the mantissa are collected in dropped_bits, whose highest decides and
\* whose others only matter for being zero or not.
to_f64(x) ==
    LET leading_zeroes == FullBits - bit_length(x)
        left_aligned == wrapping_shl(x, leading_zeroes)
        spare == HalfBits - MantissaBits
        middle_aligned == wrapping_shr(left_aligned, spare)
        top == middle_aligned[2] \div 2 ^ (HalfBits - 1)
        rest == middle_aligned[2] % 2 ^ (HalfBits - 1) # 0 \/ left_aligned[2] % 2 ^ spare # 0
        dropped_bits == top * 2 ^ (HalfBits - 1) + (IF rest THEN 1 ELSE 0)
        even == IF middle_aligned[1] % 2 = 0 THEN 1 ELSE 0
        mantissa == middle_aligned[1] + (dropped_bits - top * even) \div 2 ^ (HalfBits - 1)
        exponent == IF x = ZERO THEN 0 ELSE Bias - 1 + (FullBits - 1) - leading_zeroes
    IN  exponent * 2 ^ (MantissaBits - 1) + mantissa

-----------------------------------------------------------------------------
(* One call at a time, with its operands and its result *)

ASSUME OperandAssumption == Lhs \subseteq U256 /\ Rhs \subseteq U256

VARIABLES lhs, rhs, op, arg, out

operVars == <<lhs, rhs, op, arg, out>>

OperInit ==
    /\ lhs \in Lhs /\ rhs \in Rhs
    /\ op = "idle" /\ arg = 0 /\ out = << >>

Call(name, a, result) ==
    /\ op = "idle"
    /\ op' = name /\ arg' = a /\ out' = result
    /\ UNCHANGED <<lhs, rhs>>

Return ==
    /\ op # "idle"
    /\ op' = "idle" /\ arg' = 0 /\ out' = << >>
    /\ UNCHANGED <<lhs, rhs>>

Binary ==
    \/ Call("add", 0, overflowing_add(lhs, rhs))
    \/ Call("sub", 0, overflowing_sub(lhs, rhs))
    \/ Call("mul", 0, overflowing_mul(lhs, rhs))
    \/ Call("mul_u64", low_u64(rhs), mul_u64(lhs, low_u64(rhs)))

\* Operations of one number; rhs plays no part and stays zero.
Unary ==
    /\ rhs = ZERO
    /\ \/ \E n \in 0 .. FullBits - 1 : Call("shl", n, wrapping_shl(lhs, n))
       \/ \E n \in 0 .. FullBits - 1 : Call("shr", n, wrapping_shr(lhs, n))
       \/ Call("inc", 0, wrapping_inc(lhs))
       \/ Call("inverse", 0, inverse(lhs))
       \/ Call("bits", 0, <<bit_length(lhs), saturating_to_u128(lhs)>>)
       \/ Call("bytes", 0, <<to_be_bytes(lhs), to_le_bytes(lhs)>>)
       \/ Call("to_f64", 0, <<to_f64(lhs)>>)

Parse ==
    /\ op = "idle" /\ lhs = ZERO /\ rhs = ZERO
    /\ \E n \in 0 .. Digits : \E d \in [1 .. n -> 0 .. Quarter - 1] :
          Call("from_hex", 0, <<d, from_hex_internal(d)>>)

OperNext == Binary \/ Unary \/ Parse \/ Return

OperSpec == OperInit /\ [][OperNext]_operVars

-----------------------------------------------------------------------------
(* Properties *)

L == Val(lhs)
R == Val(rhs)
Flag(b) == IF b THEN 1 ELSE 0

\* Every result is a pair of halves again.
OperTyped ==
    /\ op \in {"add", "sub", "mul", "mul_u64"} => out.val \in U256 /\ out.over \in BOOLEAN
    /\ op \in {"shl", "shr", "inc", "inverse"} => out \in U256

\* overflowing_add and overflowing_sub lose nothing: the wrapped value with
\* the overflow flag as its next digit is the exact sum or difference.
AddSubExact ==
    /\ op = "add" => Val(out.val) + Flag(out.over) * Full = L + R
    /\ op = "sub" => Val(out.val) - Flag(out.over) * Full = L - R
    /\ op = "inc" => Val(out) = (L + 1) % Full

\* mul_u64 gives the product modulo 2^256 and says exactly when it wrapped.
MulU64Exact ==
    op = "mul_u64" =>
        /\ Val(out.val) = (L * arg) % Full
        /\ out.over <=> L * arg >= Full

\* No carry between words is lost: sums, differences and products by 64-bit
\* numbers, with their overflow flags, are those of the natural numbers.
CarriesExact == AddSubExact /\ MulU64Exact

\* overflowing_mul gives the wrapped product when the right operand is below
\* 2^192, as those of its callers are.
MulExactBelow ==
    op = "mul" /\ R < Half * Quarter => Val(out.val) = (L * R) % Full

\* Shifts across the border of the halves are multiplication and division by
\* a power of two.
ShiftsExact ==
    /\ op = "shl" => Val(out) = (L * 2 ^ arg) % Full
    /\ op = "shr" => Val(out) = L \div 2 ^ arg

\* inverse is 2^256 / (x + 1), computed without a 257-bit number; 0 and 1 give
\* the greatest number.
InverseExact ==
    op = "inverse" => Val(out) = IF L <= 1 THEN Full - 1 ELSE Full \div (L + 1)

\* bits is the least number of bits that holds the number, and saturating
\* keeps numbers of one half.
BitsExact ==
    op = "bits" =>
        /\ L < 2 ^ out[1] /\ (out[1] > 0 => L >= 2 ^ (out[1] - 1))
        /\ out[2] = IF L < Half THEN L ELSE Half - 1

\* Products, shifts, the inverse and the bit length are the ones of the
\* natural numbers, and results stay pairs of halves.
OperatorsExact == OperTyped /\ MulExactBelow /\ ShiftsExact /\ InverseExact /\ BitsExact

\* Big-endian and little-endian bytes are each other's reverse, and both are
\* read back.
BytesRoundTrip ==
    op = "bytes" =>
        /\ Reversed(out[1]) = out[2]
        /\ from_be_bytes(out[1]) = lhs
        /\ from_le_bytes(out[2]) = lhs

\* A number is parsed to its value, and refused when it has no digit or needs
\* more than 256 bits.
HexExact ==
    op = "from_hex" =>
        IF out[1] = << >> \/ Horner[out[1]] >= Full THEN out[2] = << >>
        ELSE out[2] # << >> /\ Val(out[2]) = Horner[out[1]]

\* 2 ^ (Bias + MantissaBits - 1) times the value of a normal float.
FloatVal(w) ==
    LET M == 2 ^ (MantissaBits - 1) IN (M + (w % M)) * 2 ^ (w \div M)

\* to_f64 rounds to the nearest float: the number lies between the middle to
\* the float below and the middle to the float above, and on a middle only if
\* the float is the even one.
FloatNearest ==
    op = "to_f64" =>
        LET x == 2 * L * 2 ^ (Bias + MantissaBits - 1)
            below == FloatVal(out[1]) + FloatVal(out[1] - 1)
            above == FloatVal(out[1]) + FloatVal(out[1] + 1)
        IN  IF L = 0 THEN out[1] = 0
            ELSE /\ below <= x /\ x <= above
                 /\ x \in {below, above} => out[1] % 2 = 0

\* Bytes in both orders, hexadecimal strings and floats stand for the number
\* they were made from or give.
ConversionsExact == BytesRoundTrip /\ HexExact /\ FloatNearest

\* "If an overflow would have occurred then the wrapped value is returned"
\* (documentation of overflowing_mul).
MulWrapped == op = "mul" => Val(out.val) = (L * R) % Full

-----------------------------------------------------------------------------
(* Division, bit by bit *)

CONSTANTS
    Width,      \* bits of a U256 (256)
    Pow2,       \* Pow2[n] = 2^n
    DIGITS      \* size of the decimal buffer (78)

ASSUME WidthAssumption == Width \in Nat /\ Width > 3
ASSUME Pow2Assumption ==
    /\ Pow2 \in [0 .. Width -> Nat]
    /\ Pow2[0] = 1
    /\ \A n \in 0 .. Width - 1 : Pow2[n + 1] = 2 * Pow2[n]
ASSUME DigitsAssumption == DIGITS \in Nat /\ DIGITS > 0

VARIABLES
    pc,             \* "idle", the loop of div_rem, or its result
    dividend, divisor,
    sub_copy,       \* what is left to divide
    shift_copy,     \* the divisor at its current shift
    ret,            \* the quotient so far
    shift,
    number,         \* the number being printed
    buf             \* digits of the decimal printer, most significant first

dvars == <<dividend, divisor, sub_copy, shift_copy, ret, shift>>
DivVars == <<pc, dvars, number, buf>>

Words == 0 .. Pow2[Width] - 1

\* The least number of bits that represents x.
BitLen(x) == CHOOSE n \in 0 .. Width : x < Pow2[n] /\ (n > 0 => Pow2[n - 1] <= x)

\* Wrapping shift left by fewer than Width bits.
Shl(x, n) == (x * Pow2[n]) % Pow2[Width]

-----------------------------------------------------------------------------
DivInit ==
    /\ pc = "idle"
    /\ dividend = 0 /\ divisor = 1
    /\ sub_copy = 0 /\ shift_copy = 0 /\ ret = 0 /\ shift = 0
    /\ number = 0 /\ buf = << >>

\* A call has returned: its locals are gone.
DivEnd ==
    /\ pc' = "idle"
    /\ dividend' = 0 /\ divisor' = 1
    /\ sub_copy' = 0 /\ shift_copy' = 0 /\ ret' = 0 /\ shift' = 0
    /\ number' = 0 /\ buf' = << >>

\* Entry of div_rem for a divisor other than zero.
Begin(a, b, loop, result) ==
    /\ dividend' = a /\ divisor' = b
    /\ sub_copy' = a
    /\ ret' = 0
    /\ IF BitLen(a) < BitLen(b)
         THEN pc' = result /\ shift_copy' = b /\ shift' = 0
         ELSE /\ pc' = loop
              /\ shift' = BitLen(a) - BitLen(b)
              /\ shift_copy' = Shl(b, BitLen(a) - BitLen(b))

\* Mutant: the quotient bit is set only when the remainder is larger.
Iterate_Strict(loop, result) ==
    /\ pc = loop
    /\ LET fits == sub_copy > shift_copy
       IN  /\ ret' = IF fits THEN ret + Pow2[shift] ELSE ret
           /\ sub_copy' = IF fits THEN sub_copy - shift_copy ELSE sub_copy
    /\ shift_copy' = shift_copy \div 2
    /\ IF shift = 0 THEN pc' = result /\ shift' = 0 ELSE pc' = pc /\ shift' = shift - 1
    /\ UNCHANGED <<dividend, divisor, number, buf>>

\* Mutant: the shift count is not decremented.
Iterate_SameShift(loop, result) ==
    /\ pc = loop
    /\ LET fits == sub_copy >= shift_copy
       IN  /\ ret' = ret
           /\ sub_copy' = IF fits THEN sub_copy - shift_copy ELSE sub_copy
    /\ shift_copy' = shift_copy \div 2
    /\ IF shift = 0 THEN pc' = result /\ shift' = 0 ELSE pc' = pc /\ shift' = shift
    /\ UNCHANGED <<dividend, divisor, number, buf>>

\* One pass of the loop.  The bit `shift` of ret is clear, so |= is addition.
Iterate(loop, result) ==
    /\ pc = loop
    /\ LET fits == sub_copy >= shift_copy
       IN  /\ ret' = IF fits THEN ret + Pow2[shift] ELSE ret
           /\ sub_copy' = IF fits THEN sub_copy - shift_copy ELSE sub_copy
    /\ shift_copy' = shift_copy \div 2
    /\ IF shift = 0 THEN pc' = result /\ shift' = 0 ELSE pc' = pc /\ shift' = shift - 1
    /\ UNCHANGED <<dividend, divisor, number, buf>>

-----------------------------------------------------------------------------
DivRem(a, b) == pc = "idle" /\ b > 0 /\ Begin(a, b, "div", "quotient") /\ UNCHANGED <<number, buf>>

DivLoop == Iterate("div", "quotient")

\* The caller has read quotient and remainder.
DivReturn == pc = "quotient" /\ DivEnd

\* Display of a number other than zero: fmt_decimal divides by ten until
\* nothing is left.
FmtDecimal(x) ==
    /\ pc = "idle" /\ x > 0
    /\ number' = x /\ buf' = << >>
    /\ Begin(x, 10, "fmt", "digit")

FmtLoop == Iterate("fmt", "digit")

\* Mutant: one digit too many, a do-while loop turned into one that tests
\* what was divided instead of what is left.
FmtDigit_LeadingZero ==
    /\ pc = "digit"
    /\ buf' = <<sub_copy>> \o buf
    /\ UNCHANGED number
    /\ IF dividend = 0
         THEN pc' = "printed" /\ UNCHANGED dvars
         ELSE Begin(ret, 10, "fmt", "digit")

FmtDigit ==
    /\ pc = "digit"
    /\ buf' = <<sub_copy>> \o buf
    /\ UNCHANGED number
    /\ IF ret = 0
         THEN pc' = "printed" /\ UNCHANGED dvars
         ELSE Begin(ret, 10, "fmt", "digit")

FmtReturn == pc = "printed" /\ DivEnd

DivNext ==
    \/ \E a \in Words, b \in Words : DivRem(a, b)
    \/ DivLoop
    \/ DivReturn
    \/ \E x \in Words : FmtDecimal(x)
    \/ FmtLoop
    \/ FmtDigit
    \/ FmtReturn

DivSpec == DivInit /\ [][DivNext]_DivVars

-----------------------------------------------------------------------------
(* Properties *)

DivTypeOK ==
    /\ pc \in {"idle", "div", "quotient", "fmt", "digit", "printed"}
    /\ {dividend, divisor, number, sub_copy, shift_copy, ret} \subseteq Words
    /\ shift \in 0 .. Width
    /\ buf \in Seq(0 .. 9)

\* The loop of div_rem keeps dividend = quotient * divisor + rest, with the
\* rest below twice the shifted divisor and the shifted divisor exact: nothing
\* is ever shifted out of 256 bits.
DivisionLoop ==
    pc \in {"div", "fmt"} =>
        /\ dividend = ret * divisor + sub_copy
        /\ shift_copy = divisor * Pow2[shift]
        /\ sub_copy < 2 * shift_copy

\* When div_rem returns, quotient and remainder are the ones of Euclid.
DivisionCorrect ==
    pc \in {"quotient", "digit"} =>
        /\ dividend = ret * divisor + sub_copy
        /\ sub_copy < divisor

\* A division is right while it runs and when it returns.
DivisionSound == DivTypeOK /\ DivisionLoop /\ DivisionCorrect

\* The value of a sequence of decimal digits.
DecimalValue[s \in Seq(0 .. 9)] ==
    IF s = << >> THEN 0 ELSE 10 * DecimalValue[SubSeq(s, 1, Len(s) - 1)] + s[Len(s)]

\* What fmt_decimal prints reads back as the number, without a leading zero,
\* and it writes at most DIGITS digits, so that its index never goes below
\* zero.
DecimalCorrect ==
    /\ Len(buf) <= DIGITS
    /\ pc = "printed" => DecimalValue[buf] = number /\ buf # << >> /\ buf[1] # 0

\* Every division and every printed number is finished.
LoopsTerminate == (pc \in {"div", "fmt"}) ~> (pc \in {"quotient", "printed"})
=============================================================================
