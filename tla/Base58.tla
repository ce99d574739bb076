------------------------------- MODULE Base58 -------------------------------
(***************************************************************************)
(* Base58 and base58check (base58/src/{lib,error}.rs), and hexadecimal text*)
(* as the hex crate reads and writes it (external).                        *)
(*                                                                         *)
(* A base58 text is a sequence of character codes, data a sequence of      *)
(* bytes; a hexadecimal digit is 0 to 15, and any other number stands for  *)
(* another character.  Digest stands for the hash functions (the hashes    *)
(* crate as base58 uses it): a fixed number of bytes that depend on every  *)
(* byte of the input.                                                      *)
(***************************************************************************)
EXTENDS Integers, Sequences, SequencesExt, TLC

-----------------------------------------------------------------------------
(* Hexadecimal text *)

\* as_hex: two digits a byte, the high one first.
to_hex(bytes) ==
    [i \in 1..(2 * Len(bytes)) |->
        IF i % 2 = 1 THEN bytes[(i + 1) \div 2] \div 16 ELSE bytes[i \div 2] % 16]

\* FromHex: an even number of digits.
is_hex(text) == \A i \in DOMAIN text : text[i] \in 0..15
from_hex(text) ==
    IF Len(text) % 2 = 1 \/ ~is_hex(text) THEN << >>
    ELSE <<[i \in 1..(Len(text) \div 2) |-> 16 * text[2 * i - 1] + text[2 * i]]>>

-----------------------------------------------------------------------------
(* Base58 *)

Bytes == 0..255
Zeroes(n) == [i \in 1..n |-> 0]

RECURSIVE MixFrom(_, _, _)
MixFrom(s, i, j) ==
    IF i > j THEN 1
    ELSE IF i = j THEN s[i] * 251 + 3
    ELSE LET m == (i + j) \div 2
         IN (MixFrom(s, i, m) * 7919 + MixFrom(s, m + 1, j) * 31 + j - i) % 65521
Digest(salt, s, n) ==
    LET mix == (MixFrom(s, 1, Len(s)) * 17 + Len(s) + salt * 4099) % 65521
    IN [i \in 1..n |-> ((mix * (2 * i + 1)) \div 7 + i * i) % 256]
sha256d(s) == Digest(1, s, 4)

\* The alphabet: the digits without 0, the letters without I, O and l.
BASE58_CHARS ==
    [d \in 0..57 |-> CASE d < 9 -> 49 + d
                       [] d \in 9..16 -> 56 + d
                       [] d \in 17..21 -> 57 + d
                       [] d \in 22..32 -> 58 + d
                       [] d \in 33..43 -> 64 + d
                       [] OTHER -> 65 + d]

\* The table of digits by character, without the characters that have none.
BASE58_DIGITS ==
    LET Row(from, to, first) == [c \in from..to |-> c - from + first]
    IN Row(49, 57, 0) @@ Row(65, 72, 9) @@ Row(74, 78, 17)
        @@ Row(80, 90, 22) @@ Row(97, 107, 33) @@ Row(109, 122, 44)

Base58Errors == {"Decode", "IncorrectChecksum", "TooShort"}
Data(bytes) == [err |-> "none", data |-> bytes]
DataErr(e) == [err |-> e]

\* One digit into a number: ds, the least significant digit first, times m
\* plus carry in base b, and what is carried out of it.
RECURSIVE MulAdd(_, _, _, _)
MulAdd(ds, m, carry, b) ==
    IF ds = << >> THEN [ds |-> << >>, carry |-> carry]
    ELSE LET new == Head(ds) * m + carry
             rest == MulAdd(Tail(ds), m, new \div b, b)
         IN [ds |-> <<new % b>> \o rest.ds, carry |-> rest.carry]

\* The loop over the characters; scratch is kept least significant byte first.
\* A carry out of scratch is the failed assertion.
RECURSIVE FillScratch(_, _)
FillScratch(text, scratch) ==
    IF text = << >> THEN Data(scratch)
    ELSE IF Head(text) \notin DOMAIN BASE58_DIGITS THEN DataErr("Decode")
    ELSE LET step == MulAdd(scratch, 58, BASE58_DIGITS[Head(text)], 256)
         IN IF step.carry # 0 THEN DataErr("Panic") ELSE FillScratch(Tail(text), step.ds)

\* The elements of s from the first one that is not x on; and how many are before.
LeadingCount(s, x) ==
    LET rest == {i \in DOMAIN s : s[i] # x}
    IN IF rest = {} THEN Len(s) ELSE (CHOOSE i \in rest : \A j \in rest : i <= j) - 1
SkipLeading(s, x) == SubSeq(s, LeadingCount(s, x) + 1, Len(s))

base58_decode(text) ==
    LET done == FillScratch(text, Zeroes(1 + (Len(text) * 11) \div 15))
    IN IF done.err # "none" THEN done
       ELSE Data(Zeroes(LeadingCount(text, BASE58_CHARS[0])) \o SkipLeading(Reverse(done.data), 0))

decode_check(text) ==
    LET ret == base58_decode(text)
        check_start == Len(ret.data) - 4
        data == SubSeq(ret.data, 1, check_start)
    IN IF ret.err # "none" THEN ret
       ELSE IF Len(ret.data) < 4 THEN DataErr("TooShort")
       ELSE IF sha256d(data) # SubSeq(ret.data, check_start + 1, Len(ret.data))
       THEN DataErr("IncorrectChecksum")
       ELSE Data(data)

\* What is left of a carry, digit by digit.
RECURSIVE CarryDigits(_)
CarryDigits(carry) ==
    IF carry = 0 THEN << >> ELSE <<carry % 58>> \o CarryDigits(carry \div 58)

RECURSIVE Digits58(_, _)
Digits58(data, ret) ==
    IF data = << >> THEN ret
    ELSE LET step == MulAdd(ret, 256, Head(data), 58)
         IN Digits58(Tail(data), step.ds \o CarryDigits(step.carry))

\* format_iter, which encode, encode_check and encode_check_to_fmt share; the
\* digits, first on the stack and then on the heap, are one sequence.
format_iter(data) ==
    LET ret == Digits58(data, << >>) \o Zeroes(LeadingCount(data, 0))
    IN [i \in DOMAIN ret |-> BASE58_CHARS[Reverse(ret)[i]]]
encode_check(data) == format_iter(data \o sha256d(data))
=============================================================================
