----------------------------- MODULE ScriptInt -----------------------------
(***************************************************************************)
(* Script numbers (bitcoin/src/blockdata/script/mod.rs): little-endian     *)
(* signed magnitudes whose sign is the top bit of the last byte, written   *)
(* as short as possible, readable as numbers up to four bytes.             *)
(*                                                                         *)
(* A byte is a digit below Base.  The source's Base is 256; TLC also       *)
(* checks Base = 4, in which numbers of more than four bytes, that can     *)
(* be written and not read back, are within its integers.                  *)
(***************************************************************************)
EXTENDS Integers, Sequences, SequencesExt

CONSTANT Base                   \* one more than the largest byte

Sign == Base \div 2             \* the top bit of a byte: 0x80

NumOk(n) == [err |-> "none", num |-> n]
NumErr(e) == [err |-> e, num |-> 0]

\* The loop of write_scriptint: all the bytes of a positive magnitude.
Magnitude[abs \in Nat] ==
    IF abs < Base THEN <<abs>> ELSE <<abs % Base>> \o Magnitude[abs \div Base]

write_scriptint(n) ==
    IF n = 0 THEN << >>
    ELSE LET bytes == Magnitude[IF n < 0 THEN -n ELSE n]
             sign == IF n < 0 THEN Sign ELSE 0
             top == Last(bytes)
         IN IF top >= Sign THEN bytes \o <<sign>>
                           ELSE Front(bytes) \o <<top + sign>>

\* The value of bytes, the last one's sign bit included.
LittleEndian(v) == FoldRight(LAMBDA b, acc : b + Base * acc, v, 0)

scriptint_parse(v) ==
    LET top == Last(v)
    IN IF top >= Sign THEN - LittleEndian(Front(v) \o <<top - Sign>>)
                      ELSE LittleEndian(v)

read_scriptint(v) ==
    IF v = << >> THEN NumOk(0)
    ELSE IF Len(v) > 4 THEN NumErr("NumericOverflow")
    ELSE IF /\ Last(v) % Sign = 0
            /\ Len(v) = 1 \/ v[Len(v) - 1] < Sign
         THEN NumErr("NonMinimalPush")
    ELSE NumOk(scriptint_parse(v))

read_scriptint_non_minimal(v) ==
    IF v = << >> THEN NumOk(0)
    ELSE IF Len(v) > 4 THEN NumErr("NumericOverflow")
    ELSE NumOk(scriptint_parse(v))

read_scriptbool(v) ==
    v # << >> /\ ~(Last(v) % Sign = 0 /\ \A i \in 1..(Len(v) - 1) : v[i] = 0)

(***************************************************************************)
(* The properties.                                                         *)
(***************************************************************************)

\* A number that write_scriptint wrote in at most four bytes is what
\* read_scriptint reads; a longer one is refused as an overflow, never read
\* as another number.
WrittenIsRead(n) ==
    \A bytes \in {write_scriptint(n)} :
        read_scriptint(bytes) = IF Len(bytes) <= 4 THEN NumOk(n)
                                ELSE NumErr("NumericOverflow")

\* read_scriptint accepts exactly one spelling of a number, the one that
\* write_scriptint writes; the lenient reader and the boolean reader give
\* every spelling the same value.
ReadIsCanonical(v) ==
    /\ \A r \in {read_scriptint(v)}, lenient \in {read_scriptint_non_minimal(v)} :
        /\ (r.err = "none") <=> (Len(v) <= 4 /\ write_scriptint(lenient.num) = v)
        /\ r.err = "none" => r = lenient
        /\ (r.err = "NumericOverflow") <=> (lenient.err = "NumericOverflow")
    /\ v # << >> => (read_scriptbool(v) <=> scriptint_parse(v) # 0)
=============================================================================
