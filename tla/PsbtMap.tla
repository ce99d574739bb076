------------------------------ MODULE PsbtMap ------------------------------
(***************************************************************************)
(* Partially signed transactions as data (bitcoin/src/psbt): the maps of   *)
(* the transaction, of each input and of each output, how they are merged  *)
(* (combine) and how they travel as raw key-value pairs.                   *)
(*                                                                         *)
(* An optional field is the empty sequence or a sequence of one value, a   *)
(* map is a function.  A raw key is the field its type stands for and the  *)
(* key data, the empty sequence when there is none.                        *)
(***************************************************************************)
EXTENDS Integers, Sequences, FiniteSets, FiniteSetsExt, Functions

CONSTANT HashOf(_)      \* hash of a preimage

None == << >>
Some(v) == <<v>>

\* Fields in the order in which get_pairs writes them, and which are maps.
InputFields == <<"non_witness_utxo", "witness_utxo", "partial_sigs", "sighash_type",
                 "redeem_script", "witness_script", "bip32_derivation", "final_script_sig",
                 "final_script_witness", "ripemd160_preimages", "sha256_preimages",
                 "hash160_preimages", "hash256_preimages", "tap_key_sig", "tap_script_sigs",
                 "tap_scripts", "tap_key_origins", "tap_internal_key", "tap_merkle_root",
                 "proprietary", "unknown">>
OutputFields == <<"redeem_script", "witness_script", "bip32_derivation", "tap_internal_key",
                  "tap_tree", "tap_key_origins", "proprietary", "unknown">>
GlobalFields == <<"unsigned_tx", "xpub", "version", "proprietary", "unknown">>
Preimages == {"ripemd160_preimages", "sha256_preimages", "hash160_preimages", "hash256_preimages"}
Maps == Preimages \cup {"partial_sigs", "bip32_derivation", "tap_script_sigs", "tap_scripts",
                        "tap_key_origins", "xpub", "proprietary", "unknown"}

EmptyMap == [k \in {} |-> None]
Blank(fields) == [f \in Range(fields) |-> IF f \in Maps THEN EmptyMap ELSE None]
Input == Blank(InputFields)
Output == Blank(OutputFields)
Global == Blank(GlobalFields)

-----------------------------------------------------------------------------
(* combine *)

\* The macro combine!: an absent field is taken from the other.
CombineOption(mine, theirs) == IF mine = None THEN theirs ELSE mine

\* BTreeMap::extend: all keys of both, the other's value for a common key.
Extend(mine, theirs) ==
    [k \in DOMAIN mine \cup DOMAIN theirs |->
        IF k \in DOMAIN theirs THEN theirs[k] ELSE mine[k]]

\* Input::combine.  Setting a witness UTXO clears the non-witness one; the
\* sighash type is not touched.
CombineInput(mine, theirs) ==
    LET set_witness == mine["witness_utxo"] = None /\ theirs["witness_utxo"] # None
    IN  [f \in DOMAIN mine |->
            CASE f \in Maps -> Extend(mine[f], theirs[f])
              [] f = "sighash_type" -> mine[f]
              [] f = "non_witness_utxo" /\ set_witness -> None
              [] OTHER -> CombineOption(mine[f], theirs[f])]

\* Output::combine.
CombineOutput(mine, theirs) ==
    [f \in DOMAIN mine |->
        IF f \in Maps THEN Extend(mine[f], theirs[f])
        ELSE CombineOption(mine[f], theirs[f])]

\* The last elements of path, from the given index on.
From(path, index) == SubSeq(path, index + 1, Len(path))

\* Mutant: the other's key source always wins.
MergeKeySource_Take(theirs, mine) == "take"

\* What combine does with a key source when the xpub already has one: keep,
\* take the other's, or fail.  derivation1 is the other's.  Subtracting the
\* longer length from the shorter one panics.
MergeKeySource(theirs, mine) ==
    LET derivation1 == theirs.path  derivation2 == mine.path
        len1 == Len(derivation1)  len2 == Len(derivation2)
    IN  CASE theirs = mine -> "keep"
          [] len1 < len2 /\ derivation1 = From(derivation2, len2 - len1) -> "keep"
          [] len1 < len2 /\ derivation1 # From(derivation2, len2 - len1) -> "panic"
          [] theirs # mine /\ len1 >= len2 /\ derivation2 = From(derivation1, len1 - len2) -> "take"
          [] OTHER -> "CombineInconsistentKeySources"

\* One turn of the loop over the other's xpubs.  The keys are distinct, so no
\* turn sees what another one did.
MergeXpub(self, other, xpub) ==
    IF xpub \in DOMAIN self.xpub THEN MergeKeySource(other.xpub[xpub], self.xpub[xpub])
    ELSE "take"

\* The xpubs whose turn fails; the loop ends with the first in the order of
\* the map.  Xpubs are numbers here.
Conflicts(self, other) ==
    {x \in DOMAIN other.xpub : MergeXpub(self, other, x) \notin {"keep", "take"}}

TakenXpubs(self, other) ==
    {x \in DOMAIN other.xpub : /\ MergeXpub(self, other, x) = "take"
                               /\ \A c \in Conflicts(self, other) : x < c}

\* Version and xpubs of the other copy, merged before anything else.
CombineGlobal(self, other) ==
    [self EXCEPT !.version = IF other.version > @ THEN other.version ELSE @,
                 !.xpub = Extend(@, [x \in TakenXpubs(self, other) |-> other.xpub[x]])]

\* Psbt::combine: the maps of the two are merged, unless they are for
\* different transactions or a key source conflicts; what was merged before a
\* conflict stays.
combine(self, other) ==
    CASE self.unsigned_tx # other.unsigned_tx ->
            [res |-> "UnexpectedUnsignedTx", psbt |-> self]
      [] self.unsigned_tx = other.unsigned_tx /\ Conflicts(self, other) # {} ->
            [res |-> MergeXpub(self, other, Min(Conflicts(self, other))),
             psbt |-> CombineGlobal(self, other)]
      [] OTHER ->
            [res |-> "Ok",
             psbt |-> [CombineGlobal(self, other) EXCEPT
                !.proprietary = Extend(@, other.proprietary),
                !.unknown = Extend(@, other.unknown),
                !.inputs = [i \in DOMAIN @ |-> CombineInput(@[i], other.inputs[i])],
                !.outputs = [i \in DOMAIN @ |-> CombineOutput(@[i], other.outputs[i])]]]

-----------------------------------------------------------------------------
(* Raw pairs *)

Pair(type, key, value) == <<type, key, value>>

\* The keys of a BTreeMap in the order of its iterator; which order it is does
\* not matter.
InOrder(S) == CHOOSE keys \in Bijection(1 .. Cardinality(S), S) : TRUE

\* Pairs of one field: impl_psbt_get_pair!.
FieldPairs(map, f) ==
    IF f \in Maps
      THEN LET keys == InOrder(DOMAIN map[f])
           IN  [i \in DOMAIN keys |-> Pair(f, Some(keys[i]), map[f][keys[i]])]
      ELSE [i \in DOMAIN map[f] |-> Pair(f, None, map[f][i])]

\* The pairs of the first n fields, for every n.
PairsUpTo(map, fields) ==
    LET pairs[n \in 0 .. Len(fields)] ==
            IF n = 0 THEN << >> ELSE pairs[n - 1] \o FieldPairs(map, fields[n])
    IN  pairs

\* get_pairs: the pairs of a map, field by field.
get_pairs(map, fields) == PairsUpTo(map, fields)[Len(fields)]

\* The value of a field once a pair is in.
WithPair(map, type, key, value) ==
    [map EXCEPT ![type] = IF type \in Maps THEN Extend(@, [k \in {key[1]} |-> value])
                          ELSE Some(value)]

\* Mutant: a pair replaces an optional value that is already there.
insert_pair_Replace(st, p) ==
    LET type == p[1]  key == p[2]
    IN  IF type \in Maps /\ key[1] \in DOMAIN st.map[type] THEN [st EXCEPT !.err = "DuplicateKey"]
        ELSE [st EXCEPT !.map = WithPair(@, type, key, p[3])]

\* insert_pair: a key must be there for a map and not for an option, and must
\* be new; a preimage must have the hash it is filed under.
insert_pair(st, p) ==
    LET type == p[1]  key == p[2]  value == p[3]
        valid == (type \in Maps) = (key # None)
        present == IF type \in Maps THEN key[1] \in DOMAIN st.map[type] ELSE st.map[type] # None
    IN  IF st.err # "none" THEN st
        ELSE CASE ~valid -> [st EXCEPT !.err = "InvalidKey"]
               [] valid /\ present -> [st EXCEPT !.err = "DuplicateKey"]
               [] valid /\ ~present /\ type \in Preimages /\ HashOf(value) # key[1] ->
                     [st EXCEPT !.err = "InvalidPreimageHashPair"]
               [] OTHER -> [st EXCEPT !.map = WithPair(@, type, key, value)]

\* The map after the first n pairs, for every n.
DecodeUpTo(pairs, empty) ==
    LET after[n \in 0 .. Len(pairs)] ==
            IF n = 0 THEN [map |-> empty, err |-> "none"] ELSE insert_pair(after[n - 1], pairs[n])
    IN  after

\* impl_psbtmap_decoding!: pairs are inserted until the separator.
DecodeMap(pairs, empty) == DecodeUpTo(pairs, empty)[Len(pairs)]

\* Psbt::get_pairs: the version is written only when it is not zero.
GlobalPairs(p) ==
    LET map == [f \in DOMAIN Global |->
                  CASE f = "unsigned_tx" -> Some(p.unsigned_tx)
                    [] f = "version" -> IF p.version > 0 THEN Some(p.version) ELSE None
                    [] OTHER -> p[f]]
    IN  get_pairs(map, GlobalFields)

serialize(p) ==
    <<GlobalPairs(p)>>
        \o [i \in DOMAIN p.inputs |-> get_pairs(p.inputs[i], InputFields)]
        \o [i \in DOMAIN p.outputs |-> get_pairs(p.outputs[i], OutputFields)]

\* unsigned_tx_checks.
unsigned_tx_checks(tx) ==
    CASE \E i \in DOMAIN tx.input : tx.input[i].script_sig # None -> "UnsignedTxHasScriptSigs"
      [] \E i \in DOMAIN tx.input : tx.input[i].witness # None -> "UnsignedTxHasScriptWitnesses"
      [] OTHER -> "none"

\* decode_global: a version other than 0 is refused, and the transaction must be there.
DecodeGlobal(pairs) ==
    LET d == DecodeMap(pairs, Global)
    IN  CASE d.err = "none" /\ d.map["version"] \notin {None, Some(0)} -> [d EXCEPT !.err = "Version"]
          [] d.err = "none" /\ d.map["version"] \in {None, Some(0)} /\ d.map["unsigned_tx"] = None ->
                [d EXCEPT !.err = "MustHaveUnsignedTx"]
          [] OTHER -> d

\* The maps that follow the global one, of the inputs and of the outputs.
DecodeRest(stream, tx) ==
    [i \in 2 .. 1 + Len(tx.input) + Len(tx.output) |->
        IF i <= 1 + Len(tx.input) THEN DecodeMap(stream[i], Input) ELSE DecodeMap(stream[i], Output)]

FromMaps(global, tx, decoded) ==
    [unsigned_tx |-> tx, version |-> 0, xpub |-> global["xpub"],
     proprietary |-> global["proprietary"], unknown |-> global["unknown"],
     inputs |-> [i \in 1 .. Len(tx.input) |-> decoded[i + 1].map],
     outputs |-> [i \in 1 .. Len(tx.output) |-> decoded[i + 1 + Len(tx.input)].map]]

\* deserialize_from_reader of a stream of maps: the global map says how many
\* input and output maps follow.
deserialize(stream) ==
    LET global == IF stream = << >> THEN [map |-> Global, err |-> "ConsensusEncoding"]
                  ELSE DecodeGlobal(stream[1])
        tx == global.map["unsigned_tx"][1]
        decoded == DecodeRest(stream, tx)
    IN  IF global.err # "none" THEN [err |-> global.err]
        ELSE CASE unsigned_tx_checks(tx) # "none" -> [err |-> unsigned_tx_checks(tx)]
               [] unsigned_tx_checks(tx) = "none" /\ Len(stream) < 1 + Len(tx.input) + Len(tx.output) ->
                     [err |-> "ConsensusEncoding"]
               [] OTHER ->
                     IF \E i \in DOMAIN decoded : decoded[i].err # "none" THEN [err |-> "map"]
                     ELSE [err |-> "none", psbt |-> FromMaps(global.map, tx, decoded)]

\* from_unsigned_tx; << >> stands for an error.
from_unsigned_tx(tx) ==
    IF unsigned_tx_checks(tx) # "none" THEN << >>
    ELSE Some([unsigned_tx |-> tx, version |-> 0, xpub |-> EmptyMap,
               proprietary |-> EmptyMap, unknown |-> EmptyMap,
               inputs |-> [i \in DOMAIN tx.input |-> Input],
               outputs |-> [i \in DOMAIN tx.output |-> Output]])
=============================================================================
