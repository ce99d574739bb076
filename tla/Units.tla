------------------------------- MODULE Units --------------------------------
(***************************************************************************)
(* Weights and fee rates (units/src/weight.rs, units/src/fee_rate.rs), and *)
(* the coins a wallet collects with them (effective_value in               *)
(* bitcoin/src/blockdata/transaction.rs); and the three uses of the crate  *)
(* beside each other: one session prints and types amounts, chooses coins  *)
(* at a fee rate, or waits for the locks of a transaction.                 *)
(***************************************************************************)
EXTENDS Amount, LockTime

CONSTANTS
    Rates,          \* bound: fee rates, in satoshi per 1000 weight units
    Weights,        \* bound: satisfaction weights
    Amounts,        \* bound: values of coins
    MaxCoins        \* bound: coins of a transaction

VARIABLES
    rate,           \* the fee rate paid
    coins           \* the coins chosen so far, each with its effective value

feeVars == <<rate, coins>>

-----------------------------------------------------------------------------
(* Weights *)

WITNESS_SCALE_FACTOR == 4

from_kwu(kwu) == checked_mul(kwu, 1000)
from_vb(vb) == checked_mul(vb, WITNESS_SCALE_FACTOR)
scale_by_witness_factor(w) == checked_mul(w, WITNESS_SCALE_FACTOR)
to_vbytes_floor(w) == w \div WITNESS_SCALE_FACTOR
to_vbytes_ceil(w) == (w + WITNESS_SCALE_FACTOR - 1) \div WITNESS_SCALE_FACTOR

\* TxIn::BASE_WEIGHT: an outpoint and a sequence.
BASE_WEIGHT == WITNESS_SCALE_FACTOR * (36 + 4)

-----------------------------------------------------------------------------
(* Fee rates *)

PerVb == 1000 \div WITNESS_SCALE_FACTOR

from_sat_per_vb(sat_vb) == checked_mul(sat_vb, PerVb)
to_sat_per_vb_floor(r) == r \div PerVb
to_sat_per_vb_ceil(r) == (r + (PerVb - 1)) \div PerVb

\* Mutant: the fee is rounded down.
checked_mul_by_weight_Floor(r, w) ==
    LET sats == checked_mul(r, w)
    IN  IF sats.err # "" THEN sats ELSE Ok(sats.val \div 1000)

\* The fee is rounded up.
checked_mul_by_weight(r, w) ==
    LET sats == checked_mul(r, w)
    IN  IF sats.err # "" \/ checked_add(sats.val, 999).err # "" THEN None
        ELSE Ok((sats.val + 999) \div 1000)

fee_wu(r, w) == checked_mul_by_weight(r, w)
fee_vb(r, vb) == IF from_vb(vb).err # "" THEN None ELSE fee_wu(r, from_vb(vb).val)

\* Amount / Weight, where the multiplication does not overflow.
RateOf(fee, w) ==
    LET sats == checked_mul(fee, 1000)
    IN  IF sats.err # "" \/ w = 0 THEN None ELSE Ok(sats.val \div w)

effective_value(r, satisfaction_weight, value) ==
    LET weight == checked_add(satisfaction_weight, BASE_WEIGHT)
        fee == checked_mul_by_weight(r, weight.val)
    IN  IF weight.err # "" \/ fee.err # "" \/ to_signed(value).err # "" \/ to_signed(fee.val).err # ""
        THEN None
        ELSE signed_checked_sub(value, fee.val)

-----------------------------------------------------------------------------
FeeInit == rate \in Rates /\ coins = << >>

\* A coin whose effective value cannot be told is left out.
Choose(value, satisfaction_weight) ==
    /\ Len(coins) < MaxCoins
    /\ effective_value(rate, satisfaction_weight, value).err = ""
    /\ coins' = Append(coins, [value |-> value, weight |-> satisfaction_weight,
                               effective |-> effective_value(rate, satisfaction_weight, value).val])
    /\ UNCHANGED rate

FeeNext == \E v \in Amounts, w \in Weights : Choose(v, w)

-----------------------------------------------------------------------------
(* Properties *)

CoinField(f) == [i \in DOMAIN coins |-> coins[i][f]]
TotalWeight == FoldLeft(LAMBDA n, c : n + c.weight + BASE_WEIGHT, 0, coins)

\* First part of FeesCover, what effective_value promises a wallet: when the effective values add up to
\* something, the coins are worth that much after the fee of all their inputs
\* together; rounding never makes the inputs cheaper one by one.
EffectiveValuesCover ==
    LET effective == signed_checked_sum(CoinField("effective"))
        value == checked_sum(CoinField("value"))
        fee == fee_wu(rate, TotalWeight)
    IN  effective.err = "" /\ value.err = "" /\ fee.err = "" =>
            effective.val + fee.val <= value.val

\* Second part: a computed fee is the smallest amount that pays the rate: the rate of the
\* fee is at least the one asked for, that of one satoshi less is not; a fee by
\* virtual bytes covers the fee by weight; checked sums do not depend on the
\* order for unsigned amounts, and never give two answers for signed ones.
FeesExact ==
    \A w \in {TotalWeight} : \A fee \in {fee_wu(rate, w)} :
        /\ fee.err = "" /\ w > 0 /\ RateOf(fee.val, w).err = "" =>
              /\ RateOf(fee.val, w).val >= rate
              /\ fee.val > 0 => RateOf(fee.val - 1, w).val < rate
        /\ fee.err = "" /\ fee_vb(rate, to_vbytes_ceil(w)).err = "" =>
              fee_vb(rate, to_vbytes_ceil(w)).val >= fee.val
        /\ expect(checked_sum(CoinField("value"))) = expect(checked_sum(Reverse(CoinField("value"))))
        /\ \A a \in {signed_checked_sum(CoinField("effective"))},
              b \in {signed_checked_sum(Reverse(CoinField("effective")))} :
              a.err = "" /\ b.err = "" => a = b

\* Third part: division and remainder of signed amounts are defined together and
\* fit each other, and positive_sub is the subtraction of unsigned amounts.
SignedArithmetic ==
    \A a \in ToSet(CoinField("effective")) \cup {I64MIN}, b \in {-7, -1, 0, 2} :
        /\ signed_checked_div(a, b).err = signed_checked_rem(a, b).err
        /\ signed_checked_div(a, b).err = "" =>
              LET q == signed_checked_div(a, b).val
                  r == signed_checked_rem(a, b).val
              IN  a = q * b + r /\ unsigned_abs(r) < unsigned_abs(b) /\ signum(r) \in {0, signum(a)}
        /\ positive_sub(a, b).err = "" <=> a >= 0 /\ b >= 0 /\ checked_sub(a, b).err = ""
        /\ checked_abs(a).err = "" => to_unsigned(checked_abs(a).val).err = ""

\* The fee a wallet computes always pays the rate it asked for, whether it is
\* computed at once, input by input or by virtual size
\* (FeeRate::checked_mul_by_weight, effective_value, CheckedSum).
FeesPay == EffectiveValuesCover /\ FeesExact /\ SignedArithmetic

-----------------------------------------------------------------------------
(* The three sessions *)

VARIABLE task       \* "text", "fees" or "locks"

unitVars == <<task, text, origin, rate, coins, tip, coin, tx, asked>>

UnitsInit ==
    /\ task \in {"text", "fees", "locks"}
    /\ TextInit
    /\ IF task = "locks" THEN LockInit ELSE LockIdle
    /\ IF task = "fees" THEN FeeInit ELSE rate = 0 /\ coins = << >>

UnitsNext ==
    \/ task = "text" /\ TextNext /\ UNCHANGED <<task, rate, coins, tip, coin, tx, asked>>
    \/ task = "fees" /\ FeeNext /\ UNCHANGED <<task, text, origin, tip, coin, tx, asked>>
    \/ task = "locks" /\ LockNext /\ UNCHANGED <<task, text, origin, rate, coins>>

\* The properties of the first two sessions, each for the behaviours that exercise it
\* (of the third: LockTime!LocksConsistent).

\* Printing an amount and parsing the text gives the amount back, and parsing a
\* typed text never rounds (Amount!TextsExact: fmt_satoshi_in and
\* parse_signed_to_satoshi of units/src/amount.rs).
AmountTextsExact == task = "text" => TextsExact

\* The fee a wallet computes pays the rate it asked for (FeesPay:
\* FeeRate::checked_mul_by_weight, effective_value and the checked sums).
FeesCover == task = "fees" => FeesPay
=============================================================================
