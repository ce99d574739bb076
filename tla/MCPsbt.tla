------------------------------- MODULE MCPsbt -------------------------------
(***************************************************************************)
(* Transactions that two parties sign: one spends a nested witness script  *)
(* with a key of each, one a taproot output and a legacy one, one a        *)
(* taproot output whose merkle root not every copy knows, and one carries  *)
(* key sources of extended keys.                                           *)
(***************************************************************************)
EXTENDS Psbt, TLC

MCHash(v) == v

TxIn(n) == [vout |-> n, script_sig |-> None, witness |-> None]
Out(spk, value) == [spk |-> spk, value |-> value]
Origin(keys) == [k \in keys |-> "source"]

NoScripts == [redeem |-> "none", witness |-> "none", root |-> None]
WithLeaf == [NoScripts EXCEPT !.root = Some("root")]

SpentBy == [witness_utxo |-> Some(Out("p2sh", 9)), bip32_derivation |-> Origin({1, 2})]
Redeem == [redeem_script |-> Some("p2wsh"), sha256_preimages |-> <<1>>]
Full ==
    [non_witness_utxo |-> Some([output |-> <<Out("p2sh", 9)>>]),
     bip32_derivation |-> Origin({1, 2}),
     witness_script |-> Some("multisig"), sighash_type |-> Some("None"), unknown |-> <<5>>]

\* One witness script nested in a script hash, to be signed by both parties.
ScriptJob ==
    [tx |-> [input |-> <<TxIn(1)>>, output |-> <<6>>],
     prevouts |-> <<Out("p2sh", 9)>>,
     scripts |-> <<[redeem |-> "p2wsh", witness |-> "multisig", root |-> None]>>,
     updates |-> <<<<{SpentBy, Redeem}>>, <<{Redeem, Full}>>>>,
     sources |-> << >>,
     needed |-> <<{1, 2}>>,
     raisers |-> {}]

TapOrigins(value) ==
    [witness_utxo |-> Some(Out("p2tr", value)),
     tap_internal_key |-> Some(1), tap_key_origins |-> (1 :> {}) @@ (2 :> {"leaf"})]
TapRoot == [tap_merkle_root |-> WithLeaf.root]
TapInput == TapOrigins(500) @@ TapRoot
BareInput ==
    [non_witness_utxo |-> Some([output |-> <<Out("p2wpkh", 1), Out("bare", 502)>>]),
     bip32_derivation |-> Origin({1})]

\* A taproot output with a key and a leaf, and a legacy one; together they are
\* worth more than MAX.
TapJob ==
    [tx |-> [input |-> <<TxIn(1), TxIn(2)>>, output |-> <<1>>],
     prevouts |-> <<Out("p2tr", 500), Out("bare", 502)>>,
     scripts |-> <<WithLeaf, NoScripts>>,
     updates |-> <<<<{TapInput}, {BareInput}>>, <<{TapInput}, {BareInput}>>>>,
     sources |-> << >>,
     needed |-> <<{1, 2}, {1}>>,
     raisers |-> {}]

\* A taproot output with a key and a leaf alone.  A party may know the keys
\* before it learns of the root.
TapSpendJob ==
    [tx |-> [input |-> <<TxIn(1)>>, output |-> <<5>>],
     prevouts |-> <<Out("p2tr", 7)>>,
     scripts |-> <<WithLeaf>>,
     updates |-> <<<<{TapOrigins(7), TapRoot}>>, <<{TapOrigins(7), TapRoot}>>>>,
     sources |-> << >>,
     needed |-> <<{1, 2}>>,
     raisers |-> {}]

\* Key sources of xpubs of which one path is the end of another.
SuffixJob ==
    [ScriptJob EXCEPT
        !.updates = <<<<{}>>, <<{}>>>>,
        !.sources = <<{[fp |-> 1, path |-> <<7>>], [fp |-> 2, path |-> <<8, 7>>], [fp |-> 3, path |-> <<6, 8, 7>>]},
                      {[fp |-> 1, path |-> << >>], [fp |-> 1, path |-> <<5>>]}>>]

\* Key sources of which neither path is the end of the other.
PathJob ==
    [SuffixJob EXCEPT !.sources = <<{[fp |-> 1, path |-> <<7>>], [fp |-> 2, path |-> <<8, 6>>]}>>]

\* The sources of the second of two xpubs conflict, and a party raises the version.
ConflictJob ==
    [SuffixJob EXCEPT
        !.sources = <<{[fp |-> 1, path |-> <<7>>]},
                      {[fp |-> 1, path |-> <<7>>], [fp |-> 1, path |-> <<9>>]}>>,
        !.raisers = {1}]

MCKeys == (1 :> {1}) @@ (2 :> {2})
MCJobs == <<ScriptJob, TapJob, TapSpendJob, SuffixJob, ConflictJob>>
MCPathJobs == <<PathJob>>
=============================================================================
