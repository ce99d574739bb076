------------------------------- MODULE AuxPow -------------------------------
(***************************************************************************)
(* Merged mining (bitcoin/src/dogecoin/auxpow.rs).  The work of a parent   *)
(* block counts for an auxiliary block when the parent's coinbase commits  *)
(* to it: a merkle branch leads from the auxiliary block hash to a root    *)
(* that the coinbase script holds, and another from the coinbase to the    *)
(* parent's merkle root.  AuxPow::check verifies both.                     *)
(*                                                                         *)
(* Hashes are terms, as SHA256d is injective.  A coinbase script is a      *)
(* sequence of items with their width in bytes: the merged mining header,  *)
(* roots, and 4-byte little-endian words.                                  *)
(***************************************************************************)
EXTENDS Integers, Sequences, FiniteSets

CONSTANTS
    WordSize,           \* number of values of a u32
    Pow2,               \* powers of two up to 2^MaxBranch
    Multiplier, Increment,  \* of the linear congruential generator
    RootWidth,          \* bytes of a root (32)
    LegacyLimit,        \* greatest position of a root without header (20)
    MaxBranch,          \* longest branch of the chain merkle tree (30)
    ParentBlocks,             \* bound: transactions of parent blocks
    AuxHashes,          \* bound: auxiliary block hashes
    ChainIds,           \* bound: chain ids
    Siblings,           \* bound: hashes of branches
    Indexes,            \* bound: indexes that are tried
    MaxAccepted         \* bound: accepted proofs of a parent block

ASSUME RootAssumption ==
    /\ {RootWidth, LegacyLimit} \subseteq Nat
    /\ LegacyLimit < RootWidth

ASSUME BranchAssumption ==
    /\ MaxBranch \in Nat \ {0}
    /\ Pow2 \in [0 .. MaxBranch -> Nat] /\ Pow2[0] = 1
    /\ \A n \in 0 .. MaxBranch - 1 : Pow2[n + 1] = 2 * Pow2[n]

\* A word is wider than an index, and the multiplier is odd (1103515245).
ASSUME WordAssumption ==
    /\ {WordSize, Multiplier, Increment} \subseteq Nat
    /\ Pow2[MaxBranch] < WordSize /\ WordSize % Pow2[MaxBranch] = 0
    /\ Multiplier % 2 = 1

ASSUME ChainAssumption == ChainIds \subseteq Int

VARIABLES
    txdata,     \* transactions of the parent block, the coinbase first
    chain,      \* chain id in the version of the parent's header
    accepted,   \* what check accepted for this parent block
    verdict     \* result of the last check

auxVars == <<txdata, chain, accepted, verdict>>

-----------------------------------------------------------------------------
(* Hashes and branches *)

Leaf(x) == [leaf |-> x]
ParentTxid(tx) == [tx |-> tx]
HashPair(l, r) == [left |-> l, right |-> r]

\* The hash and the (signed) index after n turns of the loop, for every n: the
\* lowest bit of the index says on which side the sibling is.
MerkleUpTo(hash, branch, index) ==
    LET at[n \in 0 .. Len(branch)] ==
            IF n = 0 THEN [hash |-> hash, index |-> index]
            ELSE [hash |-> IF at[n - 1].index % 2 = 1 THEN HashPair(branch[n], at[n - 1].hash)
                           ELSE HashPair(at[n - 1].hash, branch[n]),
                  index |-> at[n - 1].index \div 2]
    IN  at

compute_merkle_root(hash, branch, index) == MerkleUpTo(hash, branch, index)[Len(branch)].hash

-----------------------------------------------------------------------------
(* The coinbase script *)

MERGED_MINING_HEADER == [kind |-> "header", width |-> 4, value |-> WordSize - 1]
RootBytes(r) == [kind |-> "root", width |-> RootWidth, value |-> WordSize - 1, root |-> r]
Word(v) == [kind |-> "word", width |-> 4, value |-> v]

IsItem(x) ==
    \/ x = MERGED_MINING_HEADER
    \/ "root" \in DOMAIN x /\ x = RootBytes(x.root)
    \/ "value" \in DOMAIN x /\ x.value \in 0 .. WordSize - 1 /\ x = Word(x.value)

\* The inputs of the transactions of a parent block are scripts of items.
ASSUME ParentAssumption ==
    \A block \in ParentBlocks :
        /\ Len(block) \in Nat \ {0} /\ DOMAIN block = 1 .. Len(block)
        /\ \A i \in DOMAIN block :
              LET script == block[i].script_sig
              IN  /\ Len(script) \in Nat /\ DOMAIN script = 1 .. Len(script)
                  /\ \A k \in DOMAIN script : IsItem(script[k])

\* The bytes of the first n items, for every n.
WidthUpTo(script) ==
    LET bytes[n \in 0 .. Len(script)] == IF n = 0 THEN 0 ELSE bytes[n - 1] + script[n].width
    IN  bytes

\* Bytes in front of item i, and bytes of the whole script.
Offset(script, i) == WidthUpTo(script)[i - 1]

\* Items equal to needle; find_bytes returns the offset of the first.
Occurrences(script, needle) == {i \in DOMAIN script : script[i] = needle}
find_bytes(script, needle) ==
    CHOOSE i \in Occurrences(script, needle) : \A j \in Occurrences(script, needle) : i <= j

\* Mutant: the chain id is left out.
get_expected_index_NoChain(nonce, chain_id, merkle_height) ==
    ((nonce * Multiplier + Increment) % WordSize) % Pow2[merkle_height]

get_expected_index(nonce, chain_id, merkle_height) ==
    LET a == (nonce * Multiplier + Increment) % WordSize
        b == (a + chain_id) % WordSize
        c == (b * Multiplier + Increment) % WordSize
    IN  c % Pow2[merkle_height]

\* Mutant: several headers are accepted, the root after any of them.
HeaderError_Multiple(script, root) ==
    LET r == find_bytes(script, RootBytes(root))
        headers == Occurrences(script, MERGED_MINING_HEADER)
    IN  IF headers # {}
          THEN IF r - 1 \notin headers THEN "HeaderNotAdjacent" ELSE "none"
          ELSE IF Offset(script, r) > LegacyLimit THEN "LegacyRootTooFar" ELSE "none"

\* Where the root may be in the script.
HeaderError(script, root) ==
    LET r == find_bytes(script, RootBytes(root))
        headers == Occurrences(script, MERGED_MINING_HEADER)
        header == find_bytes(script, MERGED_MINING_HEADER)
    IN  IF headers # {}
          THEN IF \E h \in headers : h > header THEN "MultipleHeaders"
               ELSE IF header + 1 # r THEN "HeaderNotAdjacent" ELSE "none"
          ELSE IF Offset(script, r) > LegacyLimit THEN "LegacyRootTooFar" ELSE "none"

\* The size and the nonce are the two words after the root.
check_merged_mining_coinbase_script(auxpow, script, root, chain_id) ==
    LET r == find_bytes(script, RootBytes(root))
        merkle_height == Len(auxpow.blockchain_branch)
    IN  IF Occurrences(script, RootBytes(root)) = {} THEN "MissingMerkleRoot"
        ELSE IF HeaderError(script, root) # "none" THEN HeaderError(script, root)
        ELSE IF Offset(script, Len(script) + 1) - Offset(script, r + 1) < 8
               THEN "MissingMerkleSizeAndNonce"
        ELSE IF script[r + 1].value # Pow2[merkle_height] THEN "MerkleSizeMismatch"
        ELSE IF auxpow.blockchain_index #
                  get_expected_index(script[r + 2].value, chain_id, merkle_height)
               THEN "InvalidChainIndex"
        ELSE "Ok"

-----------------------------------------------------------------------------
(* The parent block *)

\* Root of the one or two transactions of the parent block.
ParentRoot ==
    IF Len(txdata) = 1 THEN ParentTxid(txdata[1])
    ELSE HashPair(ParentTxid(txdata[1]), ParentTxid(txdata[2]))

\* Mutant: any transaction of the parent may commit.
check_AnyIndex(auxpow, aux_block_hash, chain_id, strict_chain_id) ==
    LET root == compute_merkle_root(aux_block_hash, auxpow.blockchain_branch,
                                    auxpow.blockchain_index)
    IN  IF strict_chain_id /\ chain = chain_id THEN "ParentHasSameChainId"
        ELSE IF compute_merkle_root(ParentTxid(auxpow.coinbase_tx), auxpow.coinbase_branch,
                                    auxpow.coinbase_index) # ParentRoot
               THEN "InvalidCoinbaseMerkleProof"
        ELSE IF ~auxpow.coinbase_tx.input THEN "CoinbaseHasNoInputs"
        ELSE check_merged_mining_coinbase_script(
                 auxpow, auxpow.coinbase_tx.script_sig, root, chain_id)

\* AuxPow::check: the first condition that fails is the verdict.
check(auxpow, aux_block_hash, chain_id, strict_chain_id) ==
    LET root == compute_merkle_root(aux_block_hash, auxpow.blockchain_branch,
                                    auxpow.blockchain_index)
    IN  IF auxpow.coinbase_index # 0 THEN "AuxPowNotFromCoinbase"
        ELSE IF strict_chain_id /\ chain = chain_id THEN "ParentHasSameChainId"
        ELSE IF Len(auxpow.blockchain_branch) > MaxBranch THEN "ChainMerkleBranchTooLong"
        ELSE IF compute_merkle_root(ParentTxid(auxpow.coinbase_tx), auxpow.coinbase_branch,
                                    auxpow.coinbase_index) # ParentRoot
               THEN "InvalidCoinbaseMerkleProof"
        ELSE IF ~auxpow.coinbase_tx.input THEN "CoinbaseHasNoInputs"
        ELSE check_merged_mining_coinbase_script(
                 auxpow, auxpow.coinbase_tx.script_sig, root, chain_id)

AuxInit ==
    /\ txdata \in ParentBlocks
    /\ chain \in ChainIds
    /\ accepted = {} /\ verdict = "none"

\* A proof is checked for one of the chains; the parent block stays.
Check(auxpow, aux_block_hash, chain_id, strict_chain_id) ==
    /\ verdict = "none" /\ Cardinality(accepted) < MaxAccepted
    /\ verdict' = check(auxpow, aux_block_hash, chain_id, strict_chain_id)
    /\ accepted' = IF verdict' # "Ok" THEN accepted
                   ELSE accepted \cup {[chain_id |-> chain_id, hash |-> aux_block_hash,
                                        strict |-> strict_chain_id, auxpow |-> auxpow]}
    /\ UNCHANGED <<txdata, chain>>

\* Proofs about the parent block: its transactions, with the branches its
\* tree has and others.
CoinbaseParts ==
    {[coinbase_tx |-> txdata[i], coinbase_branch |-> b, coinbase_index |-> i - 1] :
        i \in DOMAIN txdata,
        b \in {<< >>} \cup {<<ParentTxid(txdata[j])>> : j \in DOMAIN txdata}}

\* Branches: those that are short enough, and one that is too long.
Branches ==
    UNION {[1 .. n -> Siblings] : n \in 0 .. MaxBranch}
        \cup {[i \in 1 .. MaxBranch + 1 |-> CHOOSE s \in Siblings : TRUE]}

NextProof ==
    \E c \in CoinbaseParts, branch \in Branches, index \in Indexes,
       h \in AuxHashes, id \in ChainIds, strict \in BOOLEAN :
        Check([coinbase_tx |-> c.coinbase_tx, coinbase_branch |-> c.coinbase_branch,
               coinbase_index |-> c.coinbase_index,
               blockchain_branch |-> branch, blockchain_index |-> index], h, id, strict)

\* The caller takes the verdict, and drops the parent block after enough.
Verdict ==
    /\ verdict # "none"
    /\ verdict' = "none"
    /\ accepted' = IF Cardinality(accepted) = MaxAccepted THEN {} ELSE accepted
    /\ UNCHANGED <<txdata, chain>>

AuxNext == (verdict = "none" /\ NextProof) \/ Verdict

AuxSpec == AuxInit /\ [][AuxNext]_auxVars

-----------------------------------------------------------------------------
(* Properties *)

\* The work of a parent block counts at most once per chain: two proofs that
\* check accepts for the same parent and chain id are for the same block, and
\* at the same place of the chain merkle tree.
OneBlockPerChain ==
    \A a, b \in accepted :
        a.chain_id = b.chain_id =>
            /\ a.hash = b.hash
            /\ a.auxpow.blockchain_index = b.auxpow.blockchain_index
            /\ Len(a.auxpow.blockchain_branch) = Len(b.auxpow.blockchain_branch)

\* Chains whose ids differ modulo the size of the tree have different slots,
\* whatever nonce the parent's miner chose.
DistinctSlots ==
    \A a, b \in accepted :
        (a.chain_id - b.chain_id) % Pow2[Len(a.auxpow.blockchain_branch)] # 0 =>
            a.auxpow.blockchain_index # b.auxpow.blockchain_index

\* An accepted proof comes from the parent's coinbase, which has its root
\* next to the header, or, without header, at its start; no strictly checked
\* chain has the parent's id.
CoinbaseCommits ==
    \A a \in accepted :
        LET script == txdata[1].script_sig
            root == compute_merkle_root(a.hash, a.auxpow.blockchain_branch,
                                        a.auxpow.blockchain_index)
        IN  /\ a.auxpow.coinbase_tx = txdata[1]
            /\ \E i \in DOMAIN script :
                  /\ script[i] = RootBytes(root)
                  /\ \/ i > 1 /\ script[i - 1] = MERGED_MINING_HEADER
                     \/ Offset(script, i) <= LegacyLimit
            /\ a.strict => a.chain_id # chain

\* What AuxPow::check accepts: one block per chain and parent, in distinct
\* slots, committed to by the parent's coinbase.
MergedMiningSound == OneBlockPerChain /\ DistinctSlots /\ CoinbaseCommits
=============================================================================
