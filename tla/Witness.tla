------------------------------ MODULE Witness ------------------------------
(***************************************************************************)
(* The segregated witness (bitcoin/src/blockdata/witness.rs): the elements *)
(* with their length prefixes in one vector, followed by an index area     *)
(* with the position of each element.  Pushing moves the index area,       *)
(* decoding builds it at the front and rotates it to the end.              *)
(*                                                                         *)
(* Bytes are digits of base Base; positions take IndexWidth of them.       *)
(***************************************************************************)
EXTENDS Transaction

CONSTANTS
    IndexWidth,     \* bytes of a position (4)
    InitialSpace,   \* bytes allocated before the elements are read (128)
    AnnexPrefix,    \* TAPROOT_ANNEX_PREFIX (0x50)
    ControlSize,    \* TAPROOT_CONTROL_BASE_SIZE (33)
    Elements,       \* bound: elements
    MaxElements     \* bound: elements of a witness

ASSUME WitnessAssumption == AnnexPrefix < Base /\ IndexWidth = 2

VARIABLES
    content, witness_elements, indices_start,
    call            \* the last operation and its elements

witnessVars == <<content, witness_elements, indices_start, call>>

Witness == [content |-> content, witness_elements |-> witness_elements,
            indices_start |-> indices_start]

EmptyWitness == [content |-> << >>, witness_elements |-> 0, indices_start |-> 0]

-----------------------------------------------------------------------------
(* Bytes *)

\* slice[from .. to), counted from 0, and a copy into it.
Slice(s, from, to) == SubSeq(s, from + 1, to)
Write(s, from, bytes) ==
    [i \in DOMAIN s |-> IF i > from /\ i <= from + Len(bytes) THEN bytes[i - from] ELSE s[i]]
Zeros(n) == [i \in 1 .. n |-> 0]
rotate_left(s, n) == Slice(s, n, Len(s)) \o Slice(s, 0, n)
rotate_right(s, n) == rotate_left(s, Len(s) - n)

\* The length at the front of s, -1 when s ends in it or a shorter form exists.
VarIntDecode(s) ==
    LET form == s[1] - Marker + 1
        x == from_le_bytes(SubSeq(s, 2, form + 2))
    IN  CASE s = << >> -> -1
          [] s # << >> /\ s[1] < Marker -> s[1]
          [] s # << >> /\ s[1] >= Marker /\ Len(s) >= form + 2 /\ Minimal(form, x) -> x
          [] OTHER -> -1

encode_cursor(bytes, start_of_indices, index, value) ==
    Write(bytes, start_of_indices + index * IndexWidth, <<value % Base, value \div Base>>)

\* -1 stands for None.
decode_cursor(bytes, start_of_indices, index) ==
    LET start == start_of_indices + index * IndexWidth
    IN  IF start + IndexWidth > Len(bytes) THEN -1
        ELSE bytes[start + 1] + bytes[start + 2] * Base

\* Doubles the length until it exceeds the required one.
resize_if_needed(s, required_len) ==
    IF required_len < Len(s) THEN s
    ELSE LET start == IF Len(s) = 0 THEN 1 ELSE Len(s)
             k == CHOOSE n \in 0 .. required_len + 1 :
                     /\ start * 2 ^ n > required_len
                     /\ \A m \in 0 .. n - 1 : start * 2 ^ m <= required_len
         IN  s \o Zeros(start * 2 ^ k - Len(s))

-----------------------------------------------------------------------------
(* Reading *)

element_at(w, index) ==
    LET len == VarIntDecode(Slice(w.content, index, Len(w.content)))
        start == index + VarIntSize(len)
    IN  Slice(w.content, start, start + len)

\* No byte string.
None == <<-1>>

nth(w, index) ==
    LET pos == decode_cursor(w.content, w.indices_start, index)
    IN  IF pos = -1 THEN None ELSE element_at(w, pos)

last(w) == IF w.witness_elements = 0 THEN None ELSE nth(w, w.witness_elements - 1)
second_to_last(w) == IF w.witness_elements <= 1 THEN None ELSE nth(w, w.witness_elements - 2)
third_to_last(w) == IF w.witness_elements <= 2 THEN None ELSE nth(w, w.witness_elements - 3)

\* Iter yields nth until there is no position left.
to_vec(w) ==
    LET n == CHOOSE k \in 0 .. Len(w.content) :
                nth(w, k) = None /\ \A j \in 0 .. k - 1 : nth(w, j) # None
    IN  [i \in 1 .. n |-> nth(w, i - 1)]

\* Mutant: the length prefixes are not counted.
size_NoPrefix(w) ==
    VarIntSize(w.witness_elements) + FoldLeft(LAMBDA n, e : n + Len(e), 0, to_vec(w))

size(w) ==
    VarIntSize(w.witness_elements)
        + FoldLeft(LAMBDA n, e : n + VarIntSize(Len(e)) + Len(e), 0, to_vec(w))

consensus_encode(w) ==
    VarInt(w.witness_elements)
        \o Slice(w.content, 0, Len(w.content) - w.witness_elements * IndexWidth)

-----------------------------------------------------------------------------
(* Writing *)

from_slice(es) ==
    LET len(i) == VarIntSize(Len(es[i])) + Len(es[i])
        before(i) == FoldLeft(LAMBDA n, j : n + len(j), 0, [j \in 1 .. i - 1 |-> j])
        content_size == before(Len(es) + 1)
        body == FoldLeft(LAMBDA s, e : s \o VarInt(Len(e)) \o e, << >>, es)
    IN  [content |-> FoldLeft(LAMBDA s, i : encode_cursor(s, content_size, i - 1, before(i)),
                              body \o Zeros(Len(es) * IndexWidth), [i \in DOMAIN es |-> i]),
         witness_elements |-> Len(es), indices_start |-> content_size]

\* Mutant: the position of the new element is not written.
push_slice_NoIndex(w, e) ==
    LET prefix == VarInt(Len(e))
        total == Len(prefix) + Len(e)
        grown == w.content \o Zeros(total + IndexWidth)
        rotated == Slice(grown, 0, w.indices_start)
                     \o rotate_right(Slice(grown, w.indices_start, Len(grown)), total)
    IN  [content |-> Write(rotated, w.indices_start, prefix \o e),
         witness_elements |-> w.witness_elements + 1, indices_start |-> w.indices_start + total]

\* The vector grows, the index area is rotated behind the room of the new
\* element, and the new position and the element are written.
push_slice(w, e) ==
    LET previous_content_end == w.indices_start
        prefix == VarInt(Len(e))
        new_item_total_len == Len(prefix) + Len(e)
        resized == w.content \o Zeros(new_item_total_len + IndexWidth)
        rotated == Slice(resized, 0, previous_content_end)
                     \o rotate_right(Slice(resized, previous_content_end, Len(resized)),
                                     new_item_total_len)
        start == w.indices_start + new_item_total_len
        indexed == encode_cursor(rotated, start, w.witness_elements, previous_content_end)
    IN  [content |-> Write(indexed, previous_content_end, prefix \o e),
         witness_elements |-> w.witness_elements + 1, indices_start |-> start]

\* One turn of the loop of consensus_decode: the position and the element are
\* written at the cursor.
DecodeElement(st, i, space) ==
    LET len == VarIntDecode(st.rest)
        prefix == VarInt(len)
        required_len == st.cursor + len + Len(prefix)
        room == resize_if_needed(encode_cursor(st.content, 0, i, st.cursor - space), required_len)
    IN  CASE st.err # "" -> st
          [] len = -1 -> [st EXCEPT !.err = "Unreadable"]
          [] required_len > MAX_VEC_SIZE + space -> [st EXCEPT !.err = "OversizedVectorAllocation"]
          [] Len(st.rest) < Len(prefix) + len -> [st EXCEPT !.err = "Unreadable"]
          [] OTHER -> [st EXCEPT !.content = Write(room, st.cursor,
                                                   Slice(st.rest, 0, Len(prefix) + len)),
                                 !.cursor = required_len,
                                 !.rest = Slice(@, Len(prefix) + len, Len(@))]

\* Mutant: the space beyond the cursor is not cut off.
Rotated_NoTruncate(st, n) ==
    [content |-> rotate_left(st.content, n * IndexWidth),
     witness_elements |-> n, indices_start |-> st.cursor - n * IndexWidth]

\* The end of consensus_decode: the index space moves to the end.
Rotated(st, n) ==
    [content |-> rotate_left(Slice(st.content, 0, st.cursor), n * IndexWidth),
     witness_elements |-> n, indices_start |-> st.cursor - n * IndexWidth]

consensus_decode(stream) ==
    LET n == VarIntDecode(stream)
        space == n * IndexWidth
        first == [content |-> Zeros(space + InitialSpace), cursor |-> space, err |-> "",
                  rest |-> Slice(stream, VarIntSize(n), Len(stream))]
        st == FoldLeft(LAMBDA s, i : DecodeElement(s, i - 1, space), first, [i \in 1 .. n |-> i])
    IN  CASE n = -1 -> [err |-> "Unreadable"]
          [] n > MAX_VEC_SIZE -> [err |-> "OversizedVectorAllocation"]
          [] n = 0 -> [err |-> "", val |-> EmptyWitness, rest |-> Slice(stream, 1, Len(stream))]
          [] st.err # "" -> [err |-> st.err]
          [] OTHER -> [err |-> "", val |-> Rotated(st, n), rest |-> st.rest]

-----------------------------------------------------------------------------
Become(w, name, arg) ==
    /\ content' = w.content /\ witness_elements' = w.witness_elements
    /\ indices_start' = w.indices_start
    /\ call' = [name |-> name, arg |-> arg]

WitnessInit ==
    /\ content = << >> /\ witness_elements = 0 /\ indices_start = 0
    /\ call = [name |-> "new", arg |-> << >>]

Push(e) ==
    /\ witness_elements < MaxElements
    /\ Become(push_slice(Witness, e), "push", <<e>>)

Clear == Become(EmptyWitness, "clear", << >>)

\* from_slice and decoding make a witness: no other exists before.
FromSlice(es) ==
    /\ call.name = "new"
    /\ Become(from_slice(es), "from_slice", es)

\* The first k bytes of the encoding of es are decoded.
Decode(es, k) ==
    /\ call.name = "new"
    /\ \E d \in {consensus_decode(SubSeq(consensus_encode(from_slice(es)), 1, k))} :
          IF d.err = "" THEN Become(d.val, "decode", es)
          ELSE Become(Witness, "error", << >>)

WitnessNext ==
    \/ \E e \in Elements : Push(e)
    \/ Clear
    \/ \E n \in 0 .. MaxElements : \E es \in [1 .. n -> Elements] : FromSlice(es)
    \/ /\ call.name = "new"
       /\ \E n \in 0 .. MaxElements : \E es \in [1 .. n -> Elements] :
          \E k \in 0 .. size(from_slice(es)) : Decode(es, k)

-----------------------------------------------------------------------------
(* Taproot spends *)

Annexed(w) == last(w) \notin {None, << >>} /\ last(w)[1] = AnnexPrefix

Spend(script, control, annex) ==
    [leaf_script |-> script, control_block |-> control, annex |-> annex]

\* Mutant: any last element with the prefix is an annex.
from_witness_AnyAnnex(w) ==
    IF Annexed(w) THEN Spend(third_to_last(w), second_to_last(w), last(w))
    ELSE Spend(second_to_last(w), last(w), None)

\* P2TrSpend::from_witness; no spend, and a key spend, have no leaf script.
from_witness(w) ==
    LET n == w.witness_elements
    IN  CASE n <= 1 -> Spend(None, None, None)
          [] n = 2 /\ Annexed(w) -> Spend(None, None, last(w))
          [] n >= 3 /\ Annexed(w) -> Spend(third_to_last(w), second_to_last(w), last(w))
          [] OTHER -> Spend(second_to_last(w), last(w), None)

\* taproot_leaf_script gives nothing for a control block that is too short or
\* whose leaf version, its first byte without the parity bit, is the prefix.
taproot_leaf_script(w) ==
    LET s == from_witness(w)
    IN  IF /\ s.control_block # None
           /\ Len(s.control_block) >= ControlSize
           /\ s.control_block[1] - (s.control_block[1] % 2) # AnnexPrefix
          THEN s.leaf_script ELSE None

-----------------------------------------------------------------------------
(* Properties *)

\* Bytes and positions are in range: encode_cursor's value "must always fit".
TypeOK ==
    /\ \A i \in DOMAIN content : content[i] \in 0 .. Base - 1
    /\ witness_elements \in 0 .. MaxElements
    /\ indices_start + witness_elements * IndexWidth = Len(content)

\* The vector with its index area behaves as the array of byte strings it
\* stands for: push adds one element and keeps the others, decode and
\* from_slice give the elements, an incomplete encoding gives nothing.
Stack == INSTANCE WitnessStack WITH stack <- to_vec(Witness)
ImplementsStack == Stack!Spec

\* The representation is canonical: however a witness came about, it is equal
\* to the one from_slice makes of its elements (Eq and Hash are derived).
Canonical == TypeOK /\ Witness = from_slice(to_vec(Witness))

\* Encoding and decoding are inverse to each other, size is the length of the
\* encoding, and no proper prefix of it is accepted.
EncodeRoundTrip ==
    \A bytes \in {consensus_encode(Witness)} : \A d \in {consensus_decode(bytes)} :
        /\ Len(bytes) = size(Witness)
        /\ IF indices_start <= MAX_VEC_SIZE THEN d.err = "" /\ d.val = Witness /\ d.rest = << >>
           ELSE d.err = "OversizedVectorAllocation"
        /\ \A k \in 0 .. Len(bytes) - 1 : consensus_decode(SubSeq(bytes, 1, k)).err # ""

\* BIP 341: a last element of two or more that starts with the prefix is the
\* annex and leaves the stack; of what remains, one element is a key spend,
\* more are a script spend with the control block last.  A leaf script comes
\* with a control block whose leaf version cannot be taken for an annex.
AnnexRules ==
    \A es \in {to_vec(Witness)}, s \in {from_witness(Witness)} :
        LET annexed == Len(es) >= 2 /\ es[Len(es)] # << >> /\ es[Len(es)][1] = AnnexPrefix
            rest == IF annexed THEN SubSeq(es, 1, Len(es) - 1) ELSE es
        IN  /\ s.annex = IF annexed THEN es[Len(es)] ELSE None
            /\ s.control_block = IF Len(rest) >= 2 THEN rest[Len(rest)] ELSE None
            /\ s.leaf_script = IF Len(rest) >= 2 THEN rest[Len(rest) - 1] ELSE None
            /\ taproot_leaf_script(Witness) # None =>
                  Len(rest) >= 2 /\ rest[Len(rest)][1] # AnnexPrefix
=============================================================================
