---------------------------- MODULE Transaction -----------------------------
(***************************************************************************)
(* Consensus encoding (bitcoin/src/consensus/encode.rs): integers,         *)
(* variable length integers, byte strings, vectors, and the reader the     *)
(* decoders of all types share; and transactions                           *)
(* (bitcoin/src/blockdata/transaction.rs): the two serializations and the  *)
(* rule that chooses between them, the identifiers, the sizes, and the     *)
(* weight predicted before a transaction is signed.                        *)
(*                                                                         *)
(* A byte is a digit of base Base.  The wide forms of a variable length    *)
(* integer take 2, 3 and 4 bytes where the code's take 2, 4 and 8; a fixed *)
(* width field whose value decides nothing takes one byte.  A witness is   *)
(* the list of its elements; Witness shows that the packed form in the     *)
(* code behaves as that list.                                              *)
(***************************************************************************)
EXTENDS Integers, Sequences, SequencesExt

-----------------------------------------------------------------------------
(* Encoding *)

CONSTANTS
    Base,           \* values of a byte
    MAX_VEC_SIZE    \* largest vector that is decoded

ASSUME BaseAssumption == Base \in Nat /\ Base > 4 /\ MAX_VEC_SIZE \in Nat

\* First byte of a number that does not fit one byte (0xFD; 0xFE and 0xFF follow).
Marker == Base - 3

-----------------------------------------------------------------------------
(* Numbers *)

to_le_bytes(n, width) == [i \in 1 .. width |-> (n \div Base ^ (i - 1)) % Base]
from_le_bytes(s) == FoldRight(LAMBDA b, n : b + n * Base, s, 0)

VarInt(n) ==
    CASE n < Marker -> <<n>>
      [] n >= Marker /\ n < Base ^ 2 -> <<Marker>> \o to_le_bytes(n, 2)
      [] n >= Base ^ 2 /\ n < Base ^ 3 -> <<Marker + 1>> \o to_le_bytes(n, 3)
      [] OTHER -> <<Marker + 2>> \o to_le_bytes(n, 4)

VarIntSize(n) ==
    CASE n < Marker -> 1
      [] n >= Marker /\ n < Base ^ 2 -> 3
      [] n >= Base ^ 2 /\ n < Base ^ 3 -> 4
      [] OTHER -> 5

\* Mutant: a wide form may hold a number the next shorter one ends with.
Minimal_OffByOne(form, x) == IF form = 1 THEN x >= Marker - 1 ELSE x >= Base ^ form - 1

\* Whether the number x needs the wide form: 1 for 0xFD, 2 for 0xFE, 3 for 0xFF.
Minimal(form, x) == IF form = 1 THEN x >= Marker ELSE x >= Base ^ form

WriteBytes(s) == VarInt(Len(s)) \o s
WriteVec(s, Item(_)) == FoldLeft(LAMBDA out, e : out \o Item(e), VarInt(Len(s)), s)

-----------------------------------------------------------------------------
(* Decoding.  A decoder is a list of things to do, the first one first, on *)
(* a list of values: <<"byte">>, <<"word">> and <<"version">> read a field *)
(* and append it, the others look at the last values and replace          *)
(* themselves by what follows from them.                                   *)

Readers == {"byte", "word", "version"}

\* What one step of a decoder does: the next things to do, the values, and
\* an error or "".
Goes(next, values) == [todo |-> next, values |-> values, err |-> ""]
Fails(err) == [todo |-> << >>, values |-> << >>, err |-> err]

\* The last n values, and the others.
Top(values) == values[Len(values)]
LastOf(values, n) == SubSeq(values, Len(values) - n + 1, Len(values))
Without(values, n) == SubSeq(values, 1, Len(values) - n)

\* The last n values become one.
Built(values, n, v) == Goes(<< >>, Append(Without(values, n), v))

Vec(item) == <<<<"VarInt">>, <<"Items", item>>>>

VarIntNames == {"VarInt", "Form", "Wide"}

OfVarInt(do, values) ==
    CASE do[1] = "VarInt" -> Goes(<<<<"byte">>, <<"Form">>>>, values)
      [] do[1] = "Form" ->
            IF Top(values) < Marker THEN Goes(<< >>, values)
            ELSE LET form == Top(values) - Marker + 1
                 IN  Goes([i \in 1 .. form + 1 |-> <<"byte">>] \o <<<<"Wide", form>>>>, values)
      [] do[1] = "Wide" ->
            LET x == from_le_bytes(LastOf(values, do[2] + 1))
            IN  IF Minimal(do[2], x) THEN Built(values, do[2] + 2, x) ELSE Fails("NonMinimalVarInt")

VecNames == {"Items", "Loop", "Close"}

\* As many items as the number read last, in one value.
OfVec(do, values) ==
    CASE do[1] = "Items" ->
            Goes(<<<<"Loop", do[2], Top(values)>>, <<"Close", Top(values)>>>>, values)
      [] do[1] = "Loop" ->
            IF do[3] = 0 THEN Goes(<< >>, values)
            ELSE Goes(<<do[2], <<"Loop", do[2], do[3] - 1>>>>, values)
      [] do[1] = "Close" -> Built(values, do[2] + 1, LastOf(values, do[2]))

\* Byte strings are read in chunks that must all be there.
OfBytes(do, values) == Goes(Vec(<<"word">>), values)

-----------------------------------------------------------------------------
(* Transactions *)

\* Bytes of the fixed width fields: 36, 4, 8, 4 and 4 in the code.
OutPointSize == 2
SequenceSize == 1
AmountSize == 1
LockTimeSize == 1
VersionSize == 1

SEGWIT_MARKER == 0
SEGWIT_FLAG == 1

SumOf(s, F(_)) == FoldLeft(LAMBDA n, e : n + F(e), 0, s)

-----------------------------------------------------------------------------
(* The encoder *)

EncodeOutPoint(o) == <<o.txid, o.vout>>
EncodeTxIn(i) == EncodeOutPoint(i.previous_output) \o WriteBytes(i.script_sig) \o <<i.sequence>>
EncodeTxOut(o) == <<o.value>> \o WriteBytes(o.script_pubkey)
EncodeWitness(w) == WriteVec(w, WriteBytes)

\* Mutant: a transaction without inputs has the old serialization.
uses_segwit_serialization_NoInputs(tx) == \E i \in DOMAIN tx.input : tx.input[i].witness # << >>

uses_segwit_serialization(tx) ==
    \/ \E i \in DOMAIN tx.input : tx.input[i].witness # << >>
    \/ tx.input = << >>

EncodeTransaction(tx) ==
    <<tx.version>>
        \o (IF uses_segwit_serialization(tx) THEN <<SEGWIT_MARKER, SEGWIT_FLAG>> ELSE << >>)
        \o WriteVec(tx.input, EncodeTxIn) \o WriteVec(tx.output, EncodeTxOut)
        \o (IF uses_segwit_serialization(tx)
            THEN FoldLeft(LAMBDA s, i : s \o EncodeWitness(i.witness), << >>, tx.input)
            ELSE << >>)
        \o <<tx.lock_time>>

\* What compute_txid hashes; compute_wtxid hashes the whole encoding.
TxidPreimage(tx) ==
    <<tx.version>> \o WriteVec(tx.input, EncodeTxIn) \o WriteVec(tx.output, EncodeTxOut)
        \o <<tx.lock_time>>

-----------------------------------------------------------------------------
(* Decoding *)

\* Marker and flag were there, and no witness is.
AllEmpty(input, witnesses) == input # << >> /\ \A i \in DOMAIN witnesses : witnesses[i] = << >>

InOutNames == {"TxIn", "MakeTxIn", "TxOut", "MakeTxOut"}

\* An input is read without its witness.
OfInOut(do, values) ==
    CASE do[1] = "TxIn" -> Goes(<<<<"word">>, <<"word">>, <<"Bytes">>, <<"word">>, <<"MakeTxIn">>>>, values)
      [] do[1] = "MakeTxIn" ->
            LET v == LastOf(values, 4)
            IN  Built(values, 4, [previous_output |-> [txid |-> v[1], vout |-> v[2]],
                                  script_sig |-> v[3], sequence |-> v[4], witness |-> << >>])
      [] do[1] = "TxOut" -> Goes(<<<<"word">>, <<"Bytes">>, <<"MakeTxOut">>>>, values)
      [] do[1] = "MakeTxOut" ->
            LET v == LastOf(values, 2) IN Built(values, 2, [value |-> v[1], script_pubkey |-> v[2]])

WitnessNames == {"Witness", "Elements", "Element", "ElementBytes"}

\* The elements are bounded by the bytes they and their lengths take together;
\* at is the number of bytes read so far.
OfWitness(do, values, at) ==
    CASE do[1] = "Witness" -> Goes(<<<<"VarInt">>, <<"Elements">>>>, values)
      [] do[1] = "Elements" ->
            IF Top(values) > MAX_VEC_SIZE THEN Fails("OversizedVectorAllocation")
            ELSE Goes(<<<<"Items", <<"Element", at>>>>>>, values)
      [] do[1] = "Element" -> Goes(<<<<"VarInt">>, <<"ElementBytes", do[2]>>>>, values)
      [] do[1] = "ElementBytes" ->
            IF at - do[2] + Top(values) > MAX_VEC_SIZE THEN Fails("OversizedVectorAllocation")
            ELSE Goes(<<<<"Items", <<"word">>>>>>, values)

TransactionNames ==
    {"Transaction", "Inputs", "MakeLegacy", "Flag", "Witnesses", "Witnessed", "MakeWitnessed"}

\* No inputs where they are expected is the marker of the new serialization.
OfTransaction(do, values) ==
    LET v == LastOf(values, 4)
    IN  CASE do[1] = "Transaction" -> Goes(<<<<"word">>>> \o Vec(<<"TxIn">>) \o <<<<"Inputs">>>>, values)
          [] do[1] = "Inputs" ->
                IF Top(values) = << >> THEN Goes(<<<<"byte">>, <<"Flag">>>>, values)
                ELSE Goes(Vec(<<"TxOut">>) \o <<<<"word">>, <<"MakeLegacy">>>>, values)
          [] do[1] = "MakeLegacy" ->
                Built(values, 4, [version |-> v[1], input |-> v[2], output |-> v[3], lock_time |-> v[4]])
          [] do[1] = "Flag" ->
                IF Top(values) # SEGWIT_FLAG THEN Fails("UnsupportedSegwitFlag")
                ELSE Goes(Vec(<<"TxIn">>) \o Vec(<<"TxOut">>) \o <<<<"Witnesses">>>>,
                          Without(values, 2))
          [] do[1] = "Witnesses" ->
                LET n == Len(LastOf(values, 2)[1])
                IN  Goes(<<<<"Loop", <<"Witness">>, n>>, <<"Close", n>>, <<"Witnessed">>>>,
                         Append(values, n))
          [] do[1] = "Witnessed" ->
                IF AllEmpty(LastOf(values, 3)[1], Top(values)) THEN Fails("ParseFailed")
                ELSE Goes(<<<<"word">>, <<"MakeWitnessed">>>>, values)
          [] do[1] = "MakeWitnessed" ->
                LET input == [i \in DOMAIN v[1] |-> [v[1][i] EXCEPT !.witness = v[3][i]]]
                IN  Built(values, 5, [version |-> LastOf(values, 5)[1], input |-> input,
                                      output |-> v[2], lock_time |-> v[4]])

-----------------------------------------------------------------------------
(* Sizes *)

WitnessSize(w) == VarIntSize(Len(w)) + SumOf(w, LAMBDA e : VarIntSize(Len(e)) + Len(e))
TxInBaseSize(i) == OutPointSize + VarIntSize(Len(i.script_sig)) + Len(i.script_sig) + SequenceSize
TxInTotalSize(i) == TxInBaseSize(i) + WitnessSize(i.witness)
legacy_weight(i) == 4 * TxInBaseSize(i)
segwit_weight(i) == 4 * TxInBaseSize(i) + WitnessSize(i.witness)
TxOutSize(o) == AmountSize + VarIntSize(Len(o.script_pubkey)) + Len(o.script_pubkey)

base_size(tx) ==
    VersionSize + VarIntSize(Len(tx.input)) + SumOf(tx.input, TxInBaseSize)
        + VarIntSize(Len(tx.output)) + SumOf(tx.output, TxOutSize) + LockTimeSize

\* Mutant: inputs without a witness are counted without its length byte.
total_size_NoEmpty(tx) ==
    VersionSize + (IF uses_segwit_serialization(tx) THEN 2 ELSE 0)
        + VarIntSize(Len(tx.input))
        + SumOf(tx.input, LAMBDA i : IF i.witness # << >> THEN TxInTotalSize(i) ELSE TxInBaseSize(i))
        + VarIntSize(Len(tx.output)) + SumOf(tx.output, TxOutSize) + LockTimeSize

total_size(tx) ==
    VersionSize + (IF uses_segwit_serialization(tx) THEN 2 ELSE 0)
        + VarIntSize(Len(tx.input))
        + SumOf(tx.input, LAMBDA i : IF uses_segwit_serialization(tx) THEN TxInTotalSize(i)
                                     ELSE TxInBaseSize(i))
        + VarIntSize(Len(tx.output)) + SumOf(tx.output, TxOutSize) + LockTimeSize

weight(tx) == base_size(tx) * 3 + total_size(tx)
vsize(tx) == (weight(tx) + 3) \div 4

-----------------------------------------------------------------------------
(* Prediction *)

\* InputWeightPrediction::new of a script length and witness element lengths.
InputPrediction(script_len, element_lens) ==
    [script_size |-> script_len + VarIntSize(script_len),
     witness_size |-> IF element_lens = << >> THEN 0
                      ELSE SumOf(element_lens, LAMBDA n : n + VarIntSize(n))
                             + VarIntSize(Len(element_lens))]

predict_weight_internal(input_count, partial, with_witnesses, output_count, scripts_size) ==
    4 * (VersionSize + VarIntSize(input_count) + VarIntSize(output_count)
           + AmountSize * output_count + scripts_size + LockTimeSize)
      + partial + input_count * 4 * (OutPointSize + SequenceSize)
      + (IF with_witnesses = 0 THEN 0 ELSE input_count - with_witnesses + 2)

predict_weight(predictions, script_lens) ==
    predict_weight_internal(
        Len(predictions), SumOf(predictions, LAMBDA p : p.script_size * 4 + p.witness_size),
        SumOf(predictions, LAMBDA p : IF p.witness_size > 0 THEN 1 ELSE 0),
        Len(script_lens), SumOf(script_lens, LAMBDA n : n + VarIntSize(n)))

\* The prediction for a transaction whose lengths are known.
PredictedWeight(tx) ==
    predict_weight([i \in DOMAIN tx.input |->
                       InputPrediction(Len(tx.input[i].script_sig),
                                       [e \in DOMAIN tx.input[i].witness |-> Len(tx.input[i].witness[e])])],
                   [o \in DOMAIN tx.output |-> Len(tx.output[o].script_pubkey)])
=============================================================================
