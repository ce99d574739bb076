------------------------------ MODULE MCCodecs ------------------------------
(***************************************************************************)
(* The consensus encodings of all types, and the packed witness that a     *)
(* transaction's decoder builds: either a value is received, or a witness  *)
(* is worked on.                                                           *)
(*                                                                         *)
(* Streams are long enough for two inputs or outputs and witnesses with two*)
(* elements, a merged mined header, a block of two transactions, and small *)
(* messages; an encoder sends larger values of each type.  Witness elements*)
(* are with and without annex prefix, empty, and of one and three byte     *)
(* length prefixes.                                                        *)
(***************************************************************************)
EXTENDS Message, Witness

WireIdle ==
    /\ type = "Witness"
    /\ sent = << >> /\ stream = << >> /\ mem = << >> /\ values = << >> /\ err = "" /\ todo = << >>

Init == (WireInit \/ WireIdle) /\ WitnessInit

Next ==
    \/ WireNext /\ UNCHANGED witnessVars
    \/ type = "Witness" /\ WitnessNext /\ UNCHANGED wireVars

Spec == Init /\ [][Next]_<<wireVars, witnessVars>>

\* Decoding and encoding are inverse to each other: no two byte strings decode to
\* one value, and whatever an encoder writes is read back as the same value
\* (consensus_encode and consensus_decode of the types modelled), but for the zeros
\* that fill the last byte of a partial merkle tree's bits.
WireExact == DecodedIsCanonical /\ EncodedIsAccepted

\* Every length the library computes is the length of the bytes: of a frame's
\* payload (RawNetworkMessage) and of the encodings (total_size, base_size,
\* weight, VarInt::size).
LengthsExact == MessageFramed /\ SizesExact

\* A witness is equal to any other with the same elements, is read back from its
\* bytes, and its annex, leaf script and control block are the ones of BIP 341
\* (witness.rs: push_slice, consensus_decode, from_slice, P2TrSpend::from_witness).
WitnessExact == Canonical /\ EncodeRoundTrip /\ AnnexRules

-----------------------------------------------------------------------------
(* Values of the constants *)

MCElements == {<< >>, <<4>>, <<5, 2>>, <<1, 4, 1, 1, 1, 1, 5>>, <<4, 1, 1, 1, 1, 1, 2>>}

MCNumberBytes ==
    [t \in Types |-> CASE t = "VarInt" -> 0 .. Base - 1
                      [] t = "AddrV2Messages" -> 0 .. 4
                      [] t = "Message" -> 0 .. 2
                      [] t = "Bits" -> 0 .. Base - 1
                      [] OTHER -> 0 .. 3]
MCMaxStream == [VarInt |-> 5, Transaction |-> 17, Header |-> 24, Block |-> 18, Headers |-> 15,
                AddrV2Messages |-> 7, Indexes |-> 7, PrefilledTransactions |-> 10, Bits |-> 4, Message |-> 9]

Input(n, script, w) ==
    [previous_output |-> [txid |-> n, vout |-> n + 1], script_sig |-> script, sequence |-> n + 2,
     witness |-> w]
Ins == {Input(1, << >>, << >>), Input(2, <<1, 0, 2>>, << >>), Input(3, << >>, <<<< >>, <<4>>>>)}
Outs == {[value |-> 5, script_pubkey |-> << >>], [value |-> 0, script_pubkey |-> <<1, 2>>]}
Upto(S, n) == UNION {[1 .. k -> S] : k \in 0 .. n}
Txs == [version : {2}, input : Upto(Ins, 3), output : Upto(Outs, 2), lock_time : {3}]

Pure(v) == [version |-> v, prev_blockhash |-> 5, merkle_root |-> 4, time |-> 3, bits |-> 2, nonce |-> 1]
SomeTxs == {tx \in Txs : Len(tx.input) < 2 /\ Len(tx.output) = 1 /\ tx.output[1].value = 5}
AuxPows == [coinbase_tx : SomeTxs, parent_hash : {2}, coinbase_branch : {<< >>, <<3, 1>>},
            coinbase_index : {0}, blockchain_branch : {<< >>, <<1, 5, 2>>}, blockchain_index : {1},
            parent_block_header : {Pure(1), Pure(3)}]
Plain == [pure_header |-> Pure(1), aux_pow |-> << >>]
MergedMined == {[pure_header |-> Pure(3), aux_pow |-> <<a>>] : a \in AuxPows}
SomeMergedMined == {h \in MergedMined : h.aux_pow[1].coinbase_branch = << >>
                                          /\ h.aux_pow[1].blockchain_branch = << >>}
SomeBlocks == {[header |-> h, txdata |-> t] : h \in {Plain}, t \in Upto(SomeTxs, 1)}
Blocks_ == SomeBlocks \cup {[header |-> h, txdata |-> t] : h \in MergedMined, t \in Upto(SomeTxs, 1)}
IndexLists == {<< >>, <<0>>, <<2, 3, 9>>, <<4, 40>>, <<LargestNumber - 1>>}
Addrs == {<<1, 4, <<"Ipv4", <<2>>>>, 5>>, <<1, 40, <<"Ipv6", <<1, 3>>>>, 5>>,
          <<2, 0, <<"Cjdns", <<CJDNS, 1>>>>, 5>>, <<3, 0, <<"TorV3", <<1, 2, 3>>>>, 4>>,
          <<3, 0, <<"Unknown", 5, <<1, 2, 3, 4>>>>, 4>>}
\* Up to two bytes of bits, of which no byte is too large.
BitLists == {bits \in Upto(BOOLEAN, 2 * ByteBits) : \A b \in Range(EncodeBits(bits)) : b < Base}
Prefills == Upto([idx : {0, 7}, tx : SomeTxs], 2)

Of(command, fields) == NewMessage(3, command, LettersOf(command), fields)
Invs == {<<"Transaction", 2>>, <<"Block", 0>>, <<"Unknown", 3, 1>>}
Fields ==
    [verack |-> {<< >>}, ping |-> {<<4>>}, version |-> {<<1, 2, 3, 4, 5, 0, <<1, 2, 3>>, 2, 1>>},
     getheaders |-> {<<1, <<2, 3>>, 4>>}, filterload |-> {<<<<1>>, 2, 3, 2>>},
     cfilter |-> {<<1, 2, <<3, 4>>>>}, cfheaders |-> {<<1, 2, 3, <<3, 4>>>>},
     reject |-> {<<<<1>>, 4, << >>, 3>>}, sendcmpct |-> {<<0, 1>>},
     addrv2 |-> {<<<<CHOOSE a \in Addrs : TRUE>>>>}, addr |-> {<<<<1, 2>>>>},
     merkleblock |-> {<<Pure(1), 3, <<1, 2>>, bits>> : bits \in BitLists}, filteradd |-> {<<<<1, 2, 3, 4>>>>},
     getcfilters |-> {<<1, 2, 3>>}, cfcheckpt |-> {<<1, 2, <<3>>>>},
     getblocktxn |-> {<<1, <<2, 3, 9>>>>},
     inv |-> {<<i>> : i \in Upto(Invs, 2) \cup {<<<<"Transaction", 2>>, <<"Error">>>>}},
     tx |-> {<<tx>> : tx \in SomeTxs}, block |-> {<<b>> : b \in SomeBlocks},
     blocktxn |-> {<<1, t>> : t \in Upto(SomeTxs, 2)},
     cmpctblock |-> {<<Pure(1), 2, <<3, 4>>, p>> : p \in Upto([idx : {0, 7}, tx : SomeTxs], 1)},
     headers |-> {<<h>> : h \in {<< >>, <<Plain>>, <<Plain, Plain>>} \cup {<<m>> : m \in SomeMergedMined}}]
Messages == UNION {{Of(c, f) : f \in Fields[c]} : c \in DOMAIN Fields}

MCValues ==
    [VarInt |-> 0 .. LargestNumber, Transaction |-> Txs, Header |-> {Plain} \cup MergedMined,
     Block |-> Blocks_, Headers |-> Upto({Plain} \cup SomeMergedMined, 2),
     AddrV2Messages |-> Upto(Addrs, 2), Indexes |-> IndexLists,
     PrefilledTransactions |-> Prefills, Bits |-> BitLists, Message |-> Messages]

\* An entry without a hash before another.
MCOddValues == [t \in Types |-> {Of("inv", <<<<<<"Error">>, <<"Block", 1>>>>>>)}]
=============================================================================
