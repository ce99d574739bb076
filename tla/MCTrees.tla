------------------------------ MODULE MCTrees -------------------------------
(***************************************************************************)
(* The uses of merkle trees beside each other: proofs of merged mining,    *)
(* partial merkle trees, the relay of compact blocks, and the script trees *)
(* of taproot outputs.  They share no state.                               *)
(*                                                                         *)
(* Merged mining: two auxiliary blocks and the tree over them; coinbase    *)
(* scripts of up to two segments, each a root with or without header and   *)
(* with the right, wrong, incomplete or no size and nonce.                 *)
(*                                                                         *)
(* Partial merkle trees: blocks of up to nine transactions for the proofs  *)
(* that are built, and of up to three for the trees that are received.     *)
(*                                                                         *)
(* Compact blocks: up to four transactions, with and without witnesses,    *)
(* and copies of them whose witness was changed or removed.                *)
(*                                                                         *)
(* Taproot: four scripts and a hidden node.  The order of the hashes mixes *)
(* leaves and branches: it is no order of size.                            *)
(***************************************************************************)
EXTENDS AuxPow, CompactBlocks, Taproot

VARIABLE tree   \* the kind of tree of this behaviour

Kinds == {"auxpow", "merkle", "relay", "taproot"}

AuxIdle == txdata = << >> /\ chain = 0 /\ accepted = {} /\ verdict = "none"
MerkleIdle ==
    /\ txids = <<Txid(1)>> /\ wanted = << >> /\ pmt = NoTree /\ stage = "block"
    /\ matches = << >> /\ indexes = << >> /\ result = ""
RelayIdle ==
    /\ block = << >> /\ compact = NoCompact /\ pool = {} /\ slots = << >> /\ asked = << >>
    /\ relay = "block"

Init ==
    /\ tree \in Kinds
    /\ IF tree = "auxpow" THEN AuxInit ELSE AuxIdle
    /\ IF tree = "merkle" THEN MerkleInit ELSE MerkleIdle
    /\ IF tree = "relay" THEN RelayInit ELSE RelayIdle
    /\ BuilderInit

AuxStep == tree = "auxpow" /\ AuxNext /\ UNCHANGED <<tree, merkleVars, relayVars, builderVars>>
MerkleStep == tree = "merkle" /\ MerkleNext /\ UNCHANGED <<tree, auxVars, relayVars, builderVars>>
RelayStep == tree = "relay" /\ RelayNext /\ UNCHANGED <<tree, auxVars, merkleVars, builderVars>>
BuilderStep == tree = "taproot" /\ BuilderNext /\ UNCHANGED <<tree, auxVars, merkleVars, relayVars>>

\* The loop of with_huffman_tree.
HuffmanStep ==
    /\ tree = "taproot" /\ (HuffmanCombine \/ HuffmanDone)
    /\ UNCHANGED <<tree, auxVars, merkleVars, relayVars>>

Next == AuxStep \/ MerkleStep \/ RelayStep \/ BuilderStep

vars == <<tree, auxVars, merkleVars, relayVars, builderVars>>

\* with_huffman_tree is one call: its loop is not interrupted.
Spec == Init /\ [][Next]_vars /\ WF_vars(HuffmanStep)

-----------------------------------------------------------------------------
(* Values of the constants *)

MCAuxHashes == {Leaf(1), Leaf(2), HashPair(Leaf(1), Leaf(2))}
MCSiblings == {Leaf(1), Leaf(2)}
MCRoots == {Leaf(1), HashPair(Leaf(1), Leaf(2)), HashPair(Leaf(2), Leaf(1))}
MCIndexes == {-1, 0, 1}
MCPow2 == [n \in 0 .. MaxBranch |-> 2 ^ n]

MCSegments ==
    {h \o <<RootBytes(r)>> \o t :
        h \in {<< >>, <<MERGED_MINING_HEADER>>}, r \in MCRoots,
        t \in {<< >>, <<Word(2)>>, <<Word(1), Word(0)>>, <<Word(2), Word(0)>>,
               <<Word(2), Word(1)>>}}

\* A second root, with its size and nonce.
MCSecond ==
    {h \o <<RootBytes(r), Word(n), Word(0)>> :
        h \in {<< >>, <<MERGED_MINING_HEADER>>}, r \in {Leaf(1), HashPair(Leaf(1), Leaf(2))}, n \in {1, 2}}

MCPrefixes == {<< >>, <<Word(7)>>, <<Word(7), Word(7)>>}

MCScripts == {p \o s : p \in MCPrefixes, s \in MCSegments}
             \cup {s \o t : s \in MCSegments, t \in MCSecond}
             \cup {<< >>, <<MERGED_MINING_HEADER>>}

MCTx(s, i) == [script_sig |-> s, input |-> i]

MCParentBlocks ==
    {<<MCTx(s, TRUE)>> : s \in MCScripts}
    \cup {<<MCTx(<<MERGED_MINING_HEADER, RootBytes(Leaf(1)), Word(1), Word(0)>>, TRUE),
            MCTx(<<RootBytes(Leaf(2)), Word(1), Word(0)>>, TRUE)>>,
          <<MCTx(<< >>, FALSE)>>}

\* A transaction that spends outputs, and a coinbase with its commitments.
MCSpend(id, w) == [base |-> [id |-> id, is_coinbase |-> FALSE, outputs |-> << >>], witness |-> w]
MCReserved == [len |-> 32, value |-> 0]
MCSig(v) == [len |-> 2, value |-> v]
MCPay == [pay |-> TRUE]
MCCommit(txs) ==
    [commitment |-> compute_witness_commitment(
        witness_root(<<MCSpend(0, << >>)>> \o txs), MCReserved)]
MCCoinbase(outs, w) == [base |-> [id |-> 0, is_coinbase |-> TRUE, outputs |-> outs], witness |-> w]

MCLists == {<< >>, <<MCSpend(1, <<MCSig(1)>>)>>, <<MCSpend(1, << >>), MCSpend(2, << >>)>>,
            <<MCSpend(1, <<MCSig(1)>>), MCSpend(2, << >>)>>,
            <<MCSpend(1, << >>), MCSpend(2, <<MCSig(1)>>), MCSpend(3, <<MCSig(1)>>)>>}

\* Blocks with their commitment, with an older commitment before it, with a
\* wrong one after it, without any, and without a coinbase.
MCSent ==
    {<<MCCoinbase(<<MCPay, MCCommit(txs)>>, <<MCReserved>>)>> \o txs : txs \in MCLists}
    \cup {<<MCCoinbase(<<MCCommit(<< >>), MCCommit(txs)>>, <<MCReserved>>)>> \o txs : txs \in MCLists}
    \cup {<<MCCoinbase(<<MCPay>>, w)>> \o txs : txs \in MCLists, w \in {<< >>, <<MCSig(0)>>}}
    \cup {<<MCSpend(4, <<MCReserved>>)>> \o txs : txs \in MCLists}

MCOthers == {MCSpend(1, << >>), MCSpend(1, <<MCSig(2)>>), MCSpend(2, << >>)}

\* Transactions 1 and 12 have the same short id while neither has a witness.
MCPools == {S \cup T : S \in SUBSET {MCSpend(1, <<MCSig(1)>>), MCSpend(2, << >>), MCSpend(3, <<MCSig(1)>>)},
                       T \in {{}, {MCSpend(1, <<MCSig(2)>>)}, {MCSpend(12, << >>), MCSpend(2, <<MCSig(1)>>)}}}
MCPrefills == SeqOf(0 .. 3, 2) \cup {<<1, 2, 3>>}

\* Two scripts, each as a tapscript and in a later leaf version.
MCLeafScripts == [l \in Leaves |-> [script |-> (l + 1) \div 2,
                                   version |-> IF l % 2 = 1 THEN 192 ELSE 194]]

MCKey(h) == (h * 5) % 7
MCHashLess(a, b) == MCKey(a) < MCKey(b) \/ (MCKey(a) = MCKey(b) /\ a < b)
=============================================================================
