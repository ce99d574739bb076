------------------------------ MODULE Filters ------------------------------
(***************************************************************************)
(* Block filters (bitcoin/src/bip158.rs): a writer collects the scripts of *)
(* a block, maps their hashes to a range, and writes the sorted gaps as    *)
(* Golomb-Rice codes to a bit stream; a reader decodes the gaps and merges *)
(* them with the sorted hashes of a query.  SipHash (module Hashing) is a  *)
(* function of the state, so that collisions are among the cases; words    *)
(* have WordBits bits, hashes HashBits, and P and M are scaled.            *)
(***************************************************************************)
EXTENDS Integers, Sequences, SequencesExt, FiniteSetsExt, Bitwise

CONSTANTS
    WordBits,           \* 64, scaled
    HashBits,           \* 64, scaled
    P, M,               \* the parameters of BIP-158, scaled
    Empty, OpReturn,    \* the empty script and one that is_op_return
    Scripts,            \* scripts, the two above among them
    FilterBlocks,       \* blocks: sequences of [input, output], with the scripts
                        \* of the coins spent (<< >> when unknown) as inputs
    SipKeys             \* hash functions of the block hashes: [Scripts -> 0..2^HashBits-1]

ASSUME FiltersAssumption ==
    /\ WordBits \in 8..15 /\ HashBits \in 1..15 /\ P \in 1..WordBits /\ M \in Nat
    /\ Empty \in Scripts /\ OpReturn \in Scripts

VARIABLES
    fblock,             \* the block being filtered
    sip,                \* the hash function of its hash
    elements,           \* GcsFilterWriter::elements
    stage,              \* the next call of new_script_filter: outputs, inputs, finish; or done
    content             \* BlockFilter::content: the number of elements, and the bytes

filter_vars == <<fblock, sip, elements, stage, content>>

(***************************************************************************)
(* Bit streams.                                                            *)
(***************************************************************************)
BitWriter == [buffer |-> 0, offset |-> 0, out |-> << >>]

bit_flush(w) ==
    IF w.offset > 0 THEN [buffer |-> 0, offset |-> 0, out |-> Append(w.out, w.buffer)] ELSE w

\* The bits of `data` that go into the byte at `offset`, `nbits` being left.
Placed(data, nbits, offset) ==
    (((data * 2 ^ (WordBits - nbits)) % 2 ^ WordBits) \div 2 ^ (WordBits - 8 + offset)) % 256

RECURSIVE bit_write(_, _, _)
bit_write(w, data, nbits) ==
    IF nbits = 0 THEN w
    ELSE LET bits == Min({8 - w.offset, nbits})
             next == [w EXCEPT !.buffer = @ | Placed(data, nbits, w.offset), !.offset = @ + bits]
         IN bit_write(IF next.offset = 8 THEN bit_flush(next) ELSE next, data, nbits - bits)

\* BitStreamReader::new, and read: the reader, the value, and whether it ran dry.
BitReader(bytes) == [buffer |-> 0, offset |-> 8, rest |-> bytes, data |-> 0, eof |-> FALSE]

RECURSIVE BitRead(_, _)
BitRead(r, nbits) ==
    IF nbits = 0 THEN r
    ELSE IF r.offset = 8
    THEN IF r.rest = << >> THEN [r EXCEPT !.eof = TRUE]
         ELSE BitRead([r EXCEPT !.buffer = Head(r.rest), !.rest = Tail(r.rest), !.offset = 0], nbits)
    ELSE LET bits == Min({8 - r.offset, nbits})
         IN BitRead([r EXCEPT !.data = ((@ * 2 ^ bits) % 2 ^ WordBits)
                                       | (((r.buffer * 2 ^ r.offset) % 256) \div 2 ^ (8 - bits)),
                              !.offset = @ + bits], nbits - bits)
bit_read(r, nbits) == BitRead([r EXCEPT !.data = 0], nbits)

(***************************************************************************)
(* Golomb-Rice codes.                                                      *)
(***************************************************************************)
RECURSIVE Unary(_, _)
Unary(w, q) ==
    IF q = 0 THEN w
    ELSE LET nbits == Min({q, WordBits}) IN Unary(bit_write(w, 2 ^ WordBits - 1, nbits), q - nbits)

\* Mutant: the unary part is written without the zero that ends it.
golomb_rice_encode_NoStop(w, n) == bit_write(Unary(w, n \div 2 ^ P), n, P)

golomb_rice_encode(w, n) == bit_write(bit_write(Unary(w, n \div 2 ^ P), 0, 1), n, P)

RECURSIVE CountOnes(_, _)
CountOnes(r, q) ==
    IF r.eof \/ r.data = 0 THEN [r |-> r, q |-> q] ELSE CountOnes(bit_read(r, 1), q + 1)

\* The reader behind the code and its value.
Remainder(c) == IF c.r.eof THEN [r |-> c.r, n |-> 0]
                ELSE LET r == bit_read(c.r, P) IN [r |-> r, n |-> c.q * 2 ^ P + r.data]
golomb_rice_decode(r) == Remainder(CountOnes(bit_read(r, 1), 0))

map_to_range(h, nm) == (h * nm) \div 2 ^ HashBits

(***************************************************************************)
(* Writing a filter: the calls of new_script_filter, by a caller of        *)
(* BlockFilterWriter who calls add_input_scripts again when a coin is not  *)
(* found.                                                                  *)
(***************************************************************************)
gcs_hash(s) == sip[s]

Mapped(queried, n) ==
    SortSeq([i \in DOMAIN queried |-> map_to_range(gcs_hash(queried[i]), n * M)], <)

FilterInit ==
    /\ fblock \in FilterBlocks /\ sip \in SipKeys
    /\ elements = {} /\ stage = "outputs" /\ content = << >>

add_element(set, s) == IF s = Empty THEN set ELSE set \cup {s}

AddAll(scripts) == elements \cup {s \in scripts : add_element({}, s) # {}}

OutputScripts == UNION {Range(fblock[t].output) : t \in DOMAIN fblock}

add_output_scripts ==
    /\ stage = "outputs"
    /\ elements' = AddAll({s \in OutputScripts : s # OpReturn})
    /\ stage' = "inputs"
    /\ UNCHANGED <<fblock, sip, content>>

\* The scripts of the coins spent, without the coinbase.
SpentScripts == FlattenSeq([t \in 1..Max({Len(fblock) - 1, 0}) |-> fblock[t + 1].input])

\* script_for_coin answers for the first `found` coins, and fails for the next.
add_input_scripts ==
    /\ stage = "inputs"
    /\ \E found \in 0..Len(SpentScripts) :
        /\ elements' = AddAll({SpentScripts[i] : i \in 1..found})
        /\ stage' = IF found = Len(SpentScripts) THEN "finish" ELSE "inputs"
    /\ UNCHANGED <<fblock, sip, content>>

AddElement ==
    /\ stage = "finish"
    /\ \E s \in Scripts : elements' = add_element(elements, s)
    /\ UNCHANGED <<fblock, sip, stage, content>>

RECURSIVE WriteGaps(_, _, _)
WriteGaps(w, mapped, last) ==
    IF mapped = << >> THEN bit_flush(w).out
    ELSE WriteGaps(golomb_rice_encode(w, Head(mapped) - last), Tail(mapped), Head(mapped))

finish ==
    /\ stage = "finish"
    /\ \E mapped \in {Mapped(SetToSeq(elements), Cardinality(elements))} :
        content' = [n |-> <<Len(mapped)>>, bytes |-> WriteGaps(BitWriter, mapped, 0)]
    /\ stage' = "done"
    /\ UNCHANGED <<fblock, sip, elements>>

FilterNext == add_output_scripts \/ add_input_scripts \/ AddElement \/ finish

(***************************************************************************)
(* Reading a filter: one pass over the gaps and the sorted query.          *)
(***************************************************************************)
Found(b) == [err |-> "", found |-> b]
IoErr == [err |-> "Io"]

\* `d` is the last code read, `data` the sum of the codes, `left` those not read.
RECURSIVE MatchAny(_, _, _, _)
MatchAny(mapped, d, data, left) ==
    IF d.r.eof THEN IoErr
    ELSE IF mapped = << >> THEN Found(FALSE)
    ELSE IF data = Head(mapped) THEN Found(TRUE)
    ELSE IF data > Head(mapped) THEN MatchAny(Tail(mapped), d, data, left)
    ELSE IF left = 0 THEN Found(FALSE)
    ELSE \* the next code
         LET next == golomb_rice_decode(d.r) IN MatchAny(mapped, next, data + next.n, left - 1)

RECURSIVE MatchAll(_, _, _, _)
MatchAll(mapped, d, data, left) ==
    IF d.r.eof THEN IoErr
    ELSE IF mapped = << >> THEN Found(TRUE)
    ELSE IF data = Head(mapped) THEN MatchAll(Tail(mapped), d, data, left)
    ELSE IF data > Head(mapped) \/ left = 0 THEN Found(FALSE)
    ELSE LET next == golomb_rice_decode(d.r) IN MatchAll(mapped, next, data + next.n, left - 1)

\* A content whose number of elements cannot be read counts as an empty filter.
n_elements(c) == IF c.n = << >> THEN 0 ELSE c.n[1]

match_any(c, query) ==
    IF query = << >> THEN Found(TRUE)
    ELSE IF n_elements(c) = 0 THEN Found(FALSE)
    ELSE LET first == golomb_rice_decode(BitReader(c.bytes))
         IN MatchAny(Mapped(query, n_elements(c)), first, first.n, n_elements(c) - 1)

match_all(c, query) ==
    IF query = << >> THEN Found(TRUE)
    ELSE IF n_elements(c) = 0 THEN Found(FALSE)
    ELSE LET first == golomb_rice_decode(BitReader(c.bytes))
             sorted == Mapped(query, n_elements(c))
             dedup == SetToSortSeq(Range(sorted), <)
         IN MatchAll(dedup, first, first.n, n_elements(c) - 1)

(***************************************************************************)
(* Properties.                                                             *)
(***************************************************************************)
Queries == UNION {[1..n -> Scripts] : n \in 0..2}
InRange(s) == map_to_range(sip[s], Cardinality(elements) * M)
Values == {InRange(s) : s \in elements}

\* The scripts a wallet may ask for: those the block pays or spends.
Relevant == ((OutputScripts \ {OpReturn})
             \cup UNION {Range(fblock[t].input) : t \in 2..Len(fblock)}) \ {Empty}

\* What is left of a filter when only some of its bytes arrive.
CutShort == {[content EXCEPT !.bytes = SubSeq(@, 1, k)] : k \in 0..(Len(content.bytes) - 1)}

\* A finished block filter (bip158.rs) has no false negatives: match_any finds every
\* script the block pays (other than OP_RETURN) or spends, and match_all finds them
\* together, also after script_for_coin failed part way and add_input_scripts was
\* called again.  Both answer exactly whether the hashes of a query fall on values of
\* the filter, whatever collides and however the codes lie in the bytes; and a filter
\* that lost bytes at its end never turns an answer around: the reader gives the same
\* answer or an error.
FiltersComplete ==
    stage = "done" =>
        /\ \A s \in Relevant : match_any(content, <<s>>) = Found(TRUE)
        /\ match_all(content, SetToSeq(Relevant)) = Found(TRUE)
        /\ \A q \in Queries :
            /\ match_any(content, q)
                = Found(q = << >> \/ \E i \in DOMAIN q : InRange(q[i]) \in Values)
            /\ match_all(content, q) = Found(\A i \in DOMAIN q : InRange(q[i]) \in Values)
            /\ \A c \in CutShort :
                /\ match_any(c, q) \in {match_any(content, q), IoErr}
                /\ match_all(c, q) \in {match_all(content, q), IoErr}

=============================================================================
