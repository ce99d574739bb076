------------------------------- MODULE Amount -------------------------------
(***************************************************************************)
(* Amounts (units/src/amount.rs): denominations, the text an amount is     *)
(* printed as, and the parsers that read it back; and a user who prints    *)
(* amounts and reads them back, or types one character by character.       *)
(*                                                                         *)
(* A text is a sequence of characters, a denomination being one of them.   *)
(* Denominations keep their precision; the largest u64 is smaller.         *)
(***************************************************************************)
EXTENDS Integers, Sequences, SequencesExt, FiniteSetsExt

CONSTANTS
    U64MAX,                     \* u64::MAX (2^64 - 1)
    INPUT_STRING_LEN_LIMIT      \* characters of the longest text that is parsed (50)

ASSUME AmountAssumption ==
    /\ U64MAX \in 200000003 .. 214748363 /\ U64MAX % 2 = 1
    /\ INPUT_STRING_LEN_LIMIT \in Nat

I64MAX == U64MAX \div 2
I64MIN == -I64MAX - 1

Ok(v) == [err |-> "", val |-> v]
Err(e) == [err |-> e]

-----------------------------------------------------------------------------
(* Denominations *)

\* The number of decimal places more than a satoshi.
precision ==
    [Bitcoin |-> -8, CentiBitcoin |-> -6, MilliBitcoin |-> -5, MicroBitcoin |-> -2,
     NanoBitcoin |-> 1, PicoBitcoin |-> 4, Bit |-> -2, Satoshi |-> 0, MilliSatoshi |-> 3]

Denominations == DOMAIN precision

as_str ==
    [Bitcoin |-> "BTC", CentiBitcoin |-> "cBTC", MilliBitcoin |-> "mBTC", MicroBitcoin |-> "uBTC",
     NanoBitcoin |-> "nBTC", PicoBitcoin |-> "pBTC", Bit |-> "bits", Satoshi |-> "satoshi",
     MilliSatoshi |-> "msat"]

\* The forms that are read as a denomination.
forms ==
    [Bitcoin |-> {"BTC", "btc"}, CentiBitcoin |-> {"cBTC", "cbtc"},
     MilliBitcoin |-> {"mBTC", "mbtc"}, MicroBitcoin |-> {"uBTC", "ubtc"},
     NanoBitcoin |-> {"nBTC", "nbtc"}, PicoBitcoin |-> {"pBTC", "pbtc"},
     Bit |-> {"bit", "bits", "BIT", "BITS"},
     Satoshi |-> {"SATOSHI", "satoshi", "SATOSHIS", "satoshis", "SAT", "sat", "SATS", "sats"},
     MilliSatoshi |-> {"mSAT", "msat", "mSATs", "msats"}]

CONFUSING_FORMS ==
    {"Msat", "Msats", "MSAT", "MSATS", "MSat", "MSats", "MBTC", "Mbtc", "PBTC"}

Words == CONFUSING_FORMS \cup UNION {forms[d] : d \in Denominations}

ParseDenomination(s) ==
    IF Len(s) = 1 /\ s[1] \in CONFUSING_FORMS THEN Err("PossiblyConfusing")
    ELSE IF \E d \in Denominations : Len(s) = 1 /\ s[1] \in forms[d]
         THEN Ok(CHOOSE d \in Denominations : s[1] \in forms[d])
         ELSE Err("Unknown")

-----------------------------------------------------------------------------
(* Parsing *)

DigitOf == [c \in {"0", "1", "2", "3", "4", "5", "6", "7", "8", "9"} |->
               CHOOSE n \in 0 .. 9 : ToString(n) = c]
Digits == DOMAIN DigitOf
Letters == {"x"} \cup Words

\* Position of the first occurrence of c, counted from 0; Len(s) when there is none.
find(s, c) == IF Contains(s, c) THEN SelectInSeq(s, LAMBDA x : x = c) - 1 ELSE Len(s)

NonZeros(s, from, to) == {i \in from .. to - 1 : s[i + 1] # "0"}

\* The position of a digit that is too precise, or -1.  Of the digits before
\* the point the last one that is not zero is found.
is_too_precise(s, last_n) ==
    LET point == find(s, ".")
        before == NonZeros(s, point - last_n, point)
        after == NonZeros(s, point + 1, Len(s))
    IN  CASE last_n >= point -> 0
          [] last_n < point /\ before # {} -> Max(before)
          [] last_n < point /\ before = {} /\ after # {} -> Min(after)
          [] OTHER -> -1

\* s.parse::<i64>() = Ok(0): digits that are all zero, after at most one sign.
ParsesToZero(s) ==
    LET digits == IF s # << >> /\ Head(s) \in {"+", "-"} THEN Tail(s) ELSE s
    IN  digits # << >> /\ \A i \in DOMAIN digits : digits[i] = "0"

\* One turn of the loop over the characters; decimals is -1 before the point.
ParseChar(st, c, max_decimals) ==
    LET digit == c \in Digits
        overflow == digit /\ 10 * st.value + DigitOf[c] > U64MAX
    IN  CASE st.err # "" -> st
          [] overflow -> [st EXCEPT !.err = "Overflow"]
          [] digit /\ ~overflow /\ st.decimals = -1 ->
                [st EXCEPT !.value = 10 * @ + DigitOf[c]]
          [] digit /\ ~overflow /\ st.decimals \in 0 .. max_decimals - 1 ->
                [st EXCEPT !.value = 10 * @ + DigitOf[c], !.decimals = @ + 1]
          [] digit /\ ~overflow /\ st.decimals >= max_decimals -> [st EXCEPT !.err = "TooPrecise"]
          [] c = "." /\ st.decimals = -1 -> [st EXCEPT !.decimals = 0]
          [] OTHER -> [st EXCEPT !.err = "InvalidCharacter"]

\* Mutant: an overflow of the shift is not noticed.
Shifted_NoCheck(value, n) == Ok(IF value > U64MAX \div 10 ^ n THEN value ELSE value * 10 ^ n)

\* value shifted left by n decimals.
Shifted(value, n) == IF value > U64MAX \div 10 ^ n THEN Err("Overflow") ELSE Ok(value * 10 ^ n)

ParseDigits(s, max_decimals) ==
    LET st == FoldLeft(LAMBDA a, c : ParseChar(a, c, max_decimals),
                       [value |-> 0, decimals |-> -1, err |-> ""], s)
    IN  IF st.err # "" THEN Err(st.err)
        ELSE Shifted(st.value, max_decimals - (IF st.decimals = -1 THEN 0 ELSE st.decimals))

\* The magnitude; the caller looks at the sign itself.
parse_signed_to_satoshi(text, denom) ==
    LET s == IF text # << >> /\ text[1] = "-" THEN Tail(text) ELSE text
        precision_diff == -precision[denom]
    IN  CASE text = << >> -> Err("MissingDigits")
          [] Len(text) > INPUT_STRING_LEN_LIMIT -> Err("InputTooLarge")
          [] Len(text) = 1 /\ s = << >> -> Err("MissingDigits")
          [] s # << >> /\ Len(text) <= INPUT_STRING_LEN_LIMIT /\ precision_diff > 0 ->
                ParseDigits(s, precision_diff)
          [] OTHER ->
                IF is_too_precise(s, -precision_diff) # -1
                THEN IF ParsesToZero(s) THEN Ok(0) ELSE Err("TooPrecise")
                ELSE ParseDigits(SubSeq(s, 1, find(s, ".") + precision_diff), 0)

IsNegative(text) == text # << >> /\ text[1] = "-"

\* Which end of the range was passed (OutOfRangeError::is_greater_than_max).
convert(e, text) ==
    IF e = "Overflow" THEN Err(IF IsNegative(text) THEN "BelowMin" ELSE "AboveMax") ELSE Err(e)

\* Amount::from_str_in
from_str_in(text, denom) ==
    LET p == parse_signed_to_satoshi(text, denom)
    IN  CASE p.err # "" -> convert(p.err, text)
          [] p.err = "" /\ IsNegative(text) -> Err("BelowMin")
          [] OTHER -> p

\* SignedAmount::from_str_in
signed_from_str_in(text, denom) ==
    LET p == parse_signed_to_satoshi(text, denom)
    IN  CASE p.err # "" -> convert(p.err, text)
          [] p.err = "" /\ ~IsNegative(text) /\ p.val > I64MAX -> Err("AboveMax")
          [] p.err = "" /\ IsNegative(text) /\ p.val > -I64MIN -> Err("BelowMin")
          [] OTHER -> Ok(IF IsNegative(text) THEN -p.val ELSE p.val)

\* OutOfRangeError, and the other reasons to refuse a number (ParseAmountError).
OutOfRangeErrors == {"AboveMax", "BelowMin"}
ParseAmountErrors == OutOfRangeErrors \cup {"TooPrecise", "MissingDigits", "InputTooLarge", "InvalidCharacter"}

\* The amount before the first space, or before the first letter.
split_amount_and_denomination(text) ==
    LET letters == {i \in DOMAIN text : text[i] \in Letters}
        i == IF Contains(text, " ") THEN find(text, " ") ELSE Min(letters) - 1
        j == IF Contains(text, " ") THEN i + 1 ELSE i
        d == ParseDenomination(SubSeq(text, j + 1, Len(text)))
    IN  IF ~Contains(text, " ") /\ letters = {} THEN Err("MissingDenomination")
        ELSE IF d.err # "" THEN d ELSE Ok(<<SubSeq(text, 1, i), d.val>>)

from_str_with_denomination(text) ==
    LET split == split_amount_and_denomination(text)
    IN  IF split.err # "" THEN split ELSE from_str_in(split.val[1], split.val[2])

signed_from_str_with_denomination(text) ==
    LET split == split_amount_and_denomination(text)
    IN  IF split.err # "" THEN split ELSE signed_from_str_in(split.val[1], split.val[2])

\* from_float_in: the float is printed as a decimal text, which is parsed.
from_float_in(text, denom) ==
    IF IsNegative(text) /\ \E i \in DOMAIN text : text[i] \notin {"-", "0", "."}
    THEN Err("BelowMin") ELSE from_str_in(text, denom)

-----------------------------------------------------------------------------
(* Formatting *)

dec_width(num) == CHOOSE w \in 1 .. 9 : num < 10 ^ w /\ (w = 1 \/ num >= 10 ^ (w - 1))
Decimal(num, width) == [i \in 1 .. width |-> ToString((num \div 10 ^ (width - i)) % 10)]
repeat_char(c, count) == [i \in 1 .. count |-> c]

\* Characters of a text: a denomination has several.
WordLen(w) == IF w = "satoshi" THEN 7 ELSE IF w = "BTC" THEN 3 ELSE 4
Width(text) ==
    FoldLeft(LAMBDA n, c : n + (IF c \in Words THEN WordLen(c) ELSE 1), 0, text)

\* FormatOptions: no width is 0, no precision is -1.
DefaultOptions == [align |-> "Right", width |-> 0, precision |-> -1, sign_plus |-> FALSE,
                   zero_pad |-> FALSE]

\* The digits before and after the point, without trailing zeros, and the
\* zeros that follow each.
Normalized(satoshi, denom, wanted) ==
    LET p == precision[denom]
        after == satoshi % 10 ^ (-p)
        zeros == CHOOSE z \in 0 .. -p : after % 10 ^ z = 0 /\ (after \div 10 ^ z) % 10 # 0
    IN  IF p >= 0
        THEN [before |-> satoshi, exp |-> IF satoshi > 0 THEN p ELSE 0,
              after |-> 0, decimals |-> 0, trailing |-> wanted]
        ELSE LET decimals == IF after = 0 THEN 0 ELSE -p - zeros
             IN  [before |-> satoshi \div 10 ^ (-p), exp |-> 0,
                  after |-> IF after = 0 THEN 0 ELSE after \div 10 ^ zeros,
                  decimals |-> decimals,
                  trailing |-> IF wanted > decimals THEN wanted - decimals ELSE 0]

\* Left and right padding of a number of num_width characters.
Padding(num_width, options) ==
    LET room == options.width - num_width
    IN  CASE room <= 0 -> <<0, 0>>
          [] room > 0 /\ (options.zero_pad \/ options.align = "Right") -> <<room, 0>>
          [] room > 0 /\ ~options.zero_pad /\ options.align = "Left" -> <<0, room>>
          [] OTHER -> <<room \div 2, (room + 1) \div 2>>

fmt_satoshi_in(satoshi, negative, denom, show_denom, options) ==
    LET n == Normalized(satoshi, denom, Max({0, options.precision}))
        total_decimals == n.decimals + n.trailing
        num_width == (IF total_decimals > 0 THEN 1 + total_decimals ELSE 0)
                       + dec_width(n.before) + n.exp
                       + (IF options.sign_plus \/ negative THEN 1 ELSE 0)
                       + (IF show_denom THEN WordLen(as_str[denom]) + 1 ELSE 0)
        pad == Padding(num_width, options)
    IN  (IF options.zero_pad THEN << >> ELSE repeat_char(" ", pad[1]))
          \o (IF negative THEN <<"-">> ELSE IF options.sign_plus THEN <<"+">> ELSE << >>)
          \o (IF options.zero_pad THEN repeat_char("0", pad[1]) ELSE << >>)
          \o Decimal(n.before, dec_width(n.before)) \o repeat_char("0", n.exp)
          \o (IF total_decimals > 0 THEN <<".">> ELSE << >>)
          \o Decimal(n.after, n.decimals) \o repeat_char("0", n.trailing)
          \o (IF show_denom THEN <<" ", as_str[denom]>> ELSE << >>)
          \o repeat_char(" ", pad[2])

ONE_BTC == 10 ^ 8

\* Display for Amount: eight decimals unless the amount is whole or f says otherwise.
DisplayAmount(satoshi, options) ==
    fmt_satoshi_in(satoshi, FALSE, "Bitcoin", TRUE,
                   IF options.precision = -1 /\ satoshi % ONE_BTC # 0
                   THEN [options EXCEPT !.precision = 8] ELSE options)

unsigned_abs(n) == IF n < 0 THEN -n ELSE n

\* SignedAmount prints its magnitude; display_dynamic chooses the denomination.
to_string_in(sat, denom) == fmt_satoshi_in(unsigned_abs(sat), sat < 0, denom, FALSE, DefaultOptions)
to_string_with_denomination(sat, denom) == to_string_in(sat, denom) \o <<" ", as_str[denom]>>
DisplayDynamic(sat, options) ==
    fmt_satoshi_in(unsigned_abs(sat), sat < 0, IF unsigned_abs(sat) >= ONE_BTC THEN "Bitcoin" ELSE "Satoshi", TRUE,
                   options)

-----------------------------------------------------------------------------
(* Arithmetic.  The operators of core::ops panic where these give None.    *)

None == Err("None")
InU64(v) == IF v \in 0 .. U64MAX THEN Ok(v) ELSE None
InI64(v) == IF v \in I64MIN .. I64MAX THEN Ok(v) ELSE None

checked_add(a, b) == InU64(a + b)
checked_sub(a, b) == InU64(a - b)
checked_mul(a, b) == IF a # 0 /\ b > U64MAX \div a THEN None ELSE Ok(a * b)
checked_div(a, b) == IF b = 0 THEN None ELSE Ok(a \div b)
checked_rem(a, b) == IF b = 0 THEN None ELSE Ok(a % b)

signed_checked_add(a, b) == InI64(a + b)
signed_checked_sub(a, b) == InI64(a - b)
checked_abs(a) == InI64(unsigned_abs(a))
signum(a) == IF a > 0 THEN 1 ELSE IF a < 0 THEN -1 ELSE 0

\* Division rounds towards zero; the smallest amount by -1 is out of range.
signed_checked_div(a, b) ==
    IF b = 0 THEN None ELSE InI64(signum(a) * signum(b) * (unsigned_abs(a) \div unsigned_abs(b)))
signed_checked_rem(a, b) ==
    IF b = 0 \/ (a = I64MIN /\ b = -1) THEN None ELSE Ok(signum(a) * (unsigned_abs(a) % unsigned_abs(b)))

positive_sub(a, b) == IF a < 0 \/ b < 0 \/ b > a THEN None ELSE signed_checked_sub(a, b)

to_signed(a) == IF a > I64MAX THEN Err("AboveMax") ELSE Ok(a)
to_unsigned(a) == IF a < 0 THEN Err("BelowMin") ELSE Ok(a)

\* The operators +, -, *, / and %, and Sum.
expect(r) == IF r.err # "" THEN Err("Panic") ELSE r

\* CheckedSum: the first amount, or zero, and checked additions.
checked_sum(amounts) ==
    FoldLeft(LAMBDA acc, a : IF acc.err = "" THEN checked_add(acc.val, a) ELSE acc, Ok(0), amounts)
signed_checked_sum(amounts) ==
    FoldLeft(LAMBDA acc, a : IF acc.err = "" THEN signed_checked_add(acc.val, a) ELSE acc, Ok(0), amounts)

-----------------------------------------------------------------------------
(* A user who prints and types amounts *)

CONSTANTS
    Printed,        \* bound: amounts that are printed, in satoshi
    Styles,         \* bound: format options
    Alphabet,       \* bound: characters and words that are typed
    MaxTyped        \* bound: characters typed

VARIABLES
    text,           \* the text on the screen
    origin          \* what was printed, or << >> for a typed text

textVars == <<text, origin>>

TextInit == text = << >> /\ origin = << >>

\* Display of a SignedAmount in a denomination, with the options of a formatter.
PrintAmount(sat, denom, show_denom, options) ==
    /\ text = << >>
    /\ text' = fmt_satoshi_in(unsigned_abs(sat), sat < 0, denom, show_denom, options)
    /\ origin' = <<[sat |-> sat, denom |-> denom, shown |-> show_denom, options |-> options]>>

\* Display for Amount and display_dynamic choose denomination and decimals.
PrintDefault(sat, options) ==
    /\ text = << >>
    /\ \/ sat >= 0 /\ text' = DisplayAmount(sat, options)
       \/ text' = DisplayDynamic(sat, options)
    /\ origin' = <<[sat |-> sat, denom |-> "Satoshi", shown |-> TRUE, options |-> options]>>

Type(c) ==
    /\ origin = << >> /\ Len(text) < MaxTyped
    /\ text' = Append(text, c)
    /\ UNCHANGED origin

TextNext ==
    \/ \E sat \in Printed, d \in Denominations, show \in BOOLEAN, o \in Styles : PrintAmount(sat, d, show, o)
    \/ \E sat \in Printed, o \in Styles : PrintDefault(sat, o)
    \/ \E c \in Alphabet : Type(c)

-----------------------------------------------------------------------------
(* Properties *)

Read(t, o) == IF o.shown THEN signed_from_str_with_denomination(t) ELSE signed_from_str_in(t, o.denom)

\* First half of AmountTextsExact: an amount that was printed reads back as the same amount, whatever its
\* denomination, width and precision, unless the options added blanks or a plus
\* sign, or made the text too long or longer than the decimals of the unit; zero
\* with decimals in a unit smaller than a satoshi is the only other exception.  The text is as wide as was asked for.
PrintedReadsBack ==
    \A o \in {origin[i] : i \in DOMAIN origin} :
        /\ Width(text) >= o.options.width
        /\ \/ Read(text, o) = Ok(o.sat)
           \/ Len(text) > INPUT_STRING_LEN_LIMIT
           \/ o.options.sign_plus
           \/ precision[o.denom] < 0 /\ o.options.precision > -precision[o.denom]
           \/ text[1] = " " \/ text[Len(text)] = " "
           \/ o.sat = 0 /\ precision[o.denom] > 0 /\ Contains(text, ".")

Number(t) == IF IsNegative(t) THEN Tail(t) ELSE t
WellFormed(t) ==
    LET s == Number(t)
    IN  /\ \E i \in DOMAIN s : s[i] \in Digits
        /\ \A i \in DOMAIN s : s[i] \in Digits \cup {"."}
        /\ Cardinality({i \in DOMAIN s : s[i] = "."}) <= 1
Decimals(s) == IF Contains(s, ".") THEN Len(s) - 1 - find(s, ".") ELSE 0
Significand(s) == FoldLeft(LAMBDA n, c : IF c = "." THEN n ELSE 10 * n + DigitOf[c], 0, s)
\* satoshis * 10^precision = significand / 10^decimals, without large products.
Denotes(sat, s, denom) ==
    LET k == -precision[denom] - Decimals(s)
    IN  IF k >= 0 THEN sat % 10 ^ k = 0 /\ sat \div 10 ^ k = Significand(s)
        ELSE Significand(s) % 10 ^ (-k) = 0 /\ Significand(s) \div 10 ^ (-k) = sat

\* Second half: a typed amount is read exactly or refused, never rounded: a nonzero result is
\* the value of a well-formed numeral, a zero has no other digit, a numeral that
\* is not too long, has no excess decimals and is in range is accepted, and an
\* error says on which side of the range it is.
ReadsExactly ==
    origin = << >> =>
        \A denom \in Denominations : \A r \in {signed_from_str_in(text, denom)},
                                        u \in {from_str_in(text, denom)} :
            /\ r.err = "" => /\ r.val = 0 => \A i \in DOMAIN text : text[i] \notin Digits \ {"0"}
                             /\ r.val # 0 => WellFormed(text) /\ Denotes(unsigned_abs(r.val), Number(text), denom)
            /\ r.err # "" => r.err \in ParseAmountErrors
            /\ r.err = "AboveMax" => ~IsNegative(text)
            /\ r.err = "BelowMin" => IsNegative(text)
            /\ u.err = "" => ~IsNegative(text) /\ (r = u \/ u.val > I64MAX)
            /\ /\ WellFormed(text) /\ Len(text) <= INPUT_STRING_LEN_LIMIT
               /\ Decimals(text) <= Max({0, -precision[denom]})
               => r.err \in {"", "TooPrecise", "AboveMax", "BelowMin"}
            /\ r.err = "TooPrecise" /\ WellFormed(text) =>
                  Decimals(text) > -precision[denom]

\* What a user reads is what the library computes with: printing an amount and
\* parsing the text gives the amount back, and parsing a typed text never rounds
\* (fmt_satoshi_in, parse_signed_to_satoshi and the callers of both).
TextsExact == PrintedReadsBack /\ ReadsExactly
=============================================================================
