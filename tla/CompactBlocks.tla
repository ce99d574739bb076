---------------------------- MODULE CompactBlocks ----------------------------
(***************************************************************************)
(* Compact blocks (bitcoin/src/bip152.rs) and the checks of a block        *)
(* (bitcoin/src/blockdata/block.rs).  A node announces a block by its      *)
(* header, short ids of its transactions and some transactions in full.    *)
(* The peer fills in what its own pool of transactions has, asks for the   *)
(* rest by position, and accepts what it rebuilt when the header's merkle  *)
(* root and the coinbase's witness commitment agree with it.               *)
(*                                                                         *)
(* A transaction is its base (what the txid commits to) and the witness of *)
(* its inputs.  An output of a coinbase is a witness commitment or not.    *)
(* The library has no receiver: Fill is the peer that BIP152 describes.    *)
(***************************************************************************)
EXTENDS MerkleTree

CONSTANTS
    U16Size,        \* number of values of a u16
    ShortSpace,     \* number of short ids
    Sent,           \* bound: blocks that are announced
    Pools,          \* bound: pools of the receiver
    Others,         \* bound: transactions of blocks received in full
    Nonces,         \* bound: nonces of an announcement
    Prefills,       \* bound: lists of positions to prefill
    MaxFull         \* bound: transactions of a block received in full

VARIABLES
    block,          \* the sender's transactions; its header commits to their root
    compact,        \* the HeaderAndShortIds that was sent
    pool,           \* transactions the receiver knows
    slots,          \* the receiver's block: an optional transaction per position
    asked,          \* the BlockTransactionsRequest on the wire
    relay           \* "block", "announced", "asked", "rebuilt", "accepted", "rejected",
                    \* or the error of from_block

relayVars == <<block, compact, pool, slots, asked, relay>>

-----------------------------------------------------------------------------
(* Hashes of transactions *)

compute_txid(tx) == Txid(tx.base)
compute_wtxid(tx) ==
    IF tx.witness = << >> THEN Txid(tx.base) ELSE [wtxid |-> tx.base, witness |-> tx.witness]
ZeroHash == Txid("zeros")

\* Block::witness_root: the first hash is replaced by zeroes.
witness_root(txs) ==
    calculate_root([i \in DOMAIN txs |-> IF i = 1 THEN ZeroHash ELSE compute_wtxid(txs[i])])

compute_witness_commitment(root, reserved) == [root |-> root, reserved |-> reserved]

BlockMerkleRoot(txs) == calculate_root([i \in DOMAIN txs |-> compute_txid(txs[i])])

\* Block::check_merkle_root, against the header of the sender's block.
check_merkle_root(txs) == txs # << >> /\ BlockMerkleRoot(txs) = BlockMerkleRoot(block)

\* The last output of the coinbase that starts with the magic bytes.
CommitmentPositions(tx) == {i \in DOMAIN tx.base.outputs : "commitment" \in DOMAIN tx.base.outputs[i]}
Commitment(tx) ==
    tx.base.outputs[CHOOSE i \in CommitmentPositions(tx) :
                       \A j \in CommitmentPositions(tx) : j <= i].commitment

\* Mutant: a block without a commitment passes.
check_witness_commitment_Optional(txs) ==
    \/ \A i \in DOMAIN txs : txs[i].witness = << >>
    \/ CommitmentPositions(txs[1]) = {}
    \/ /\ Len(txs[1].witness) = 1
       /\ Commitment(txs[1]) = compute_witness_commitment(witness_root(txs), txs[1].witness[1])

\* Block::check_witness_commitment: nothing to check when no transaction has
\* a witness; the reserved value is the one witness element of the coinbase.
check_witness_commitment(txs) ==
    \/ \A i \in DOMAIN txs : txs[i].witness = << >>
    \/ /\ txs # << >> /\ txs[1].base.is_coinbase
       /\ CommitmentPositions(txs[1]) # {}
       /\ Len(txs[1].witness) = 1 /\ txs[1].witness[1].len = 32
       /\ Commitment(txs[1]) = compute_witness_commitment(witness_root(txs), txs[1].witness[1])

-----------------------------------------------------------------------------
(* Announcements *)

\* ShortId: six bytes of SipHash over the id, under keys from header and nonce.
with_siphash_keys(hash, nonce) ==
    ((IF "wtxid" \in DOMAIN hash THEN hash.wtxid.id + 7 ELSE hash.txid.id) * (nonce + 1))
    % ShortSpace

\* What a short id is computed from, by version.
IdOf(tx, version) == IF version = 1 THEN compute_txid(tx) ELSE compute_wtxid(tx)

\* Positions in order are sent as distances to the position after the last
\* one, and read back.
Differences(ps) == [i \in DOMAIN ps |-> ps[i] - (IF i = 1 THEN 0 ELSE ps[i - 1] + 1)]
Positions(ds) == [i \in DOMAIN ds |-> FoldLeft(LAMBDA n, d : n + d + 1, -1, SubSeq(ds, 1, i))]

\* HeaderAndShortIds::from_block.  The loop over the transactions takes the
\* positions of prefill in increasing order; what is left over is an error.
\* The room for short ids is a subtraction that fails for a list longer than
\* the block.  Version 1 strips the witnesses.
from_block(nonce, version, prefill) ==
    LET filled == {0} \cup ToSet(prefill)
        at == SetToSortSeq(filled, <)
        rest == SetToSortSeq((DOMAIN block) \ {p + 1 : p \in filled}, <)
        stripped(tx) == IF version = 1 THEN [tx EXCEPT !.witness = << >>] ELSE tx
    IN  CASE version \notin {1, 2} -> [err |-> "UnknownVersion"]
          [] Len(prefill) > Len(block) -> [err |-> "panic"]
          [] \/ \E i \in 1 .. Len(prefill) - 1 : prefill[i] >= prefill[i + 1]
             \/ \E i \in DOMAIN prefill : prefill[i] >= Len(block) -> [err |-> "InvalidPrefill"]
          [] OTHER ->
                [err |-> "", nonce |-> nonce, version |-> version,
                 prefilled_txs |->
                    [i \in DOMAIN at |-> [idx |-> Differences(at)[i] % U16Size,
                                          tx |-> stripped(block[at[i] + 1])]],
                 short_ids |->
                    [i \in DOMAIN rest |->
                        with_siphash_keys(IdOf(block[rest[i]], version), nonce)]]

\* BlockTransactions::from_request: the first position out of range is an
\* error.
from_request(indexes_asked) ==
    IF \E i \in DOMAIN indexes_asked : indexes_asked[i] >= Len(block)
      THEN [err |-> "TxIndexOutOfRange"]
      ELSE [err |-> "", transactions |-> [i \in DOMAIN indexes_asked |-> block[indexes_asked[i] + 1]]]

-----------------------------------------------------------------------------
(* The relay of a block *)

NoCompact == [err |-> ""]

RelayInit ==
    /\ block \in Sent
    /\ compact = NoCompact /\ pool = {} /\ slots = << >> /\ asked = << >> /\ relay = "block"

Announce(nonce, version, prefill) ==
    /\ relay = "block"
    /\ \E c \in {from_block(nonce, version, prefill)} :
          /\ compact' = c
          /\ relay' = IF c.err = "" THEN "announced" ELSE c.err
    /\ UNCHANGED <<block, pool, slots, asked>>

\* Transactions of the pool with the short id of the k-th position that was
\* not prefilled.
Candidates(known, k) ==
    {tx \in known : with_siphash_keys(IdOf(tx, compact.version), compact.nonce) = compact.short_ids[k]}

\* The receiver puts prefilled transactions at their positions and every
\* transaction that alone has a short id at the others.
Fill(known) ==
    LET n == Len(compact.prefilled_txs) + Len(compact.short_ids)
        at == Positions([i \in DOMAIN compact.prefilled_txs |-> compact.prefilled_txs[i].idx])
        others == SetToSortSeq((1 .. n) \ {p + 1 : p \in ToSet(at)}, <)
    IN  [p \in 1 .. n |->
            IF p - 1 \in ToSet(at)
              THEN <<compact.prefilled_txs[CHOOSE i \in DOMAIN at : at[i] = p - 1].tx>>
              ELSE \* the position among those that have a short id
                   LET found == Candidates(known, CHOOSE k \in DOMAIN others : others[k] = p)
                   IN  IF Cardinality(found) = 1 THEN <<CHOOSE tx \in found : TRUE>> ELSE << >>]

\* The receiver asks for the positions it cannot fill.
Ask(known) ==
    /\ relay = "announced"
    /\ pool' = known
    /\ slots' = Fill(known)
    /\ asked' = Differences(SetToSortSeq({p - 1 : p \in {q \in DOMAIN slots' : slots'[q] = << >>}}, <))
    /\ relay' = "asked"
    /\ UNCHANGED <<block, compact>>

\* The sender answers the request it decodes, and the receiver fills in the
\* answer by the order of its own missing positions.
Answer ==
    /\ relay = "asked"
    /\ \E r \in {from_request(Positions(asked))} :
          /\ r.err = ""
          /\ LET missing == SetToSortSeq({q \in DOMAIN slots : slots[q] = << >>}, <)
             IN  slots' = [p \in DOMAIN slots |->
                    IF slots[p] # << >> THEN slots[p]
                    ELSE <<r.transactions[CHOOSE k \in DOMAIN missing : missing[k] = p]>>]
    /\ relay' = "rebuilt"
    /\ UNCHANGED <<block, compact, pool, asked>>

\* A block message that claims the sender's header.
ReceiveFull(txs) ==
    /\ relay = "block"
    /\ slots' = [i \in DOMAIN txs |-> <<txs[i]>>]
    /\ relay' = "rebuilt"
    /\ UNCHANGED <<block, compact, pool, asked>>

Rebuilt == [p \in DOMAIN slots |-> slots[p][1]]

\* The receiver's checks.
CheckBlock ==
    /\ relay = "rebuilt"
    /\ relay' = IF check_merkle_root(Rebuilt) /\ check_witness_commitment(Rebuilt)
                  THEN "accepted" ELSE "rejected"
    /\ UNCHANGED <<block, compact, pool, slots, asked>>

\* The receiver forgets this copy of the block.
Forget ==
    /\ relay \notin {"block", "announced", "asked", "rebuilt"}
    /\ compact' = NoCompact /\ pool' = {} /\ slots' = << >> /\ asked' = << >> /\ relay' = "block"
    /\ UNCHANGED block

RelayNext ==
    \/ relay = "block" /\ \E nonce \in Nonces, version \in 0 .. 3, prefill \in Prefills :
          Announce(nonce, version, prefill)
    \/ \E known \in Pools : Ask(known)
    \/ Answer
    \/ relay = "block" /\ \E txs \in SeqOf(ToSet(block) \cup Others, MaxFull) : ReceiveFull(txs)
    \/ CheckBlock
    \/ Forget

-----------------------------------------------------------------------------
(* Properties *)

Bare(txs) == [i \in DOMAIN txs |-> [txs[i] EXCEPT !.witness = << >>]]
Distinct(txs) == \A i, j \in DOMAIN txs : compute_txid(txs[i]) = compute_txid(txs[j]) => i = j

\* No two transactions known to the receiver or in the block share a short id.
NoCollisions ==
    \A a, b \in pool \cup ToSet(block) :
        LET id(tx) == IdOf(tx, compact.version)
        IN  with_siphash_keys(id(a), compact.nonce) = with_siphash_keys(id(b), compact.nonce)
                => id(a) = id(b)

\* A list of transactions that passes check_merkle_root and
\* check_witness_commitment under the header of a block, and repeats none, is
\* the block, or the block without any witness.
AcceptedIsBlock ==
    relay = "accepted" /\ Distinct(Rebuilt) => Rebuilt \in {block, Bare(block)}

\* A block announced by short ids arrives: without collisions the receiver
\* rebuilds it and its checks accept it, in version 2 with every witness.
\* Whatever the receiver knows, its request can be encoded and answered.
AnnouncedArrives ==
    /\ relay = "asked" =>
          /\ \A i \in DOMAIN asked : asked[i] >= 0
          /\ from_request(Positions(asked)).err = ""
          /\ Len(slots) = Len(block)
    /\ relay \in {"accepted", "rejected"} /\ compact # NoCompact /\ NoCollisions =>
          /\ Bare(Rebuilt) = Bare(block)
          /\ compact.version = 2 => Rebuilt = block /\ (check_witness_commitment(block) => relay = "accepted")

\* What a receiver accepts is what was mined, by announcement or in full.
BlocksArrive == AcceptedIsBlock /\ AnnouncedArrives
=============================================================================
