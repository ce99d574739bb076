----------------------------- MODULE MerkleTree -----------------------------
(***************************************************************************)
(* Merkle roots (bitcoin/src/merkle_tree/mod.rs) and partial merkle trees  *)
(* (merkle_tree/block.rs): a full node builds a proof that some of a       *)
(* block's transactions are in it, the proof travels in its byte form, and *)
(* a light client extracts the transactions it proves.                     *)
(*                                                                         *)
(* A hash is a term: a txid, or the parent of two hashes (SHA256d is       *)
(* injective).  Positions count from 0 as in the code.                     *)
(***************************************************************************)
EXTENDS Integers, Sequences, FiniteSets, SequencesExt

CONSTANTS
    MaxTx,          \* bound: transactions of a block
    MaxReceived,    \* bound: transactions of a block for which any tree is received
    TxLimit,        \* Weight::MAX_BLOCK / Weight::MIN_TRANSACTION
    ByteBits        \* bits of a byte

VARIABLES
    txids,          \* txids of the block; its header commits to their root
    wanted,         \* the predicate of from_block_with_predicate, by position;
                    \* empty while no proof was built
    pmt,            \* the PartialMerkleTree
    stage,          \* "block", "built", "received", "extracted"
    matches, indexes, result

merkleVars == <<txids, wanted, pmt, stage, matches, indexes, result>>

Txid(x) == [txid |-> x]
parent_hash(l, r) == [left |-> l, right |-> r]

-----------------------------------------------------------------------------
(* Merkle roots *)

\* Mutant: the last of an odd level moves up unhashed.
Level_Promote(hs) ==
    [i \in 1 .. (Len(hs) + 1) \div 2 |->
        IF 2 * i <= Len(hs) THEN parent_hash(hs[2 * i - 1], hs[2 * i]) ELSE hs[Len(hs)]]

\* One level: neighbours are hashed, the last of an odd level with itself.
\* The code overwrites the front of the slice while it reads the rest of it:
\* entry idx is written after entries 2 idx and 2 idx + 1 were read.
Level(hs) ==
    [i \in 1 .. (Len(hs) + 1) \div 2 |->
        parent_hash(hs[2 * i - 1], hs[IF 2 * i <= Len(hs) THEN 2 * i ELSE Len(hs)])]

RECURSIVE merkle_root_r(_)
merkle_root_r(hs) == IF Len(hs) = 1 THEN hs[1] ELSE merkle_root_r(Level(hs))

calculate_root_inline(hs) == IF Len(hs) = 1 THEN hs[1] ELSE merkle_root_r(hs)

\* The iterator version hashes the first level while it copies.
RECURSIVE CopyLevel(_)
CopyLevel(hs) ==
    IF hs = << >> THEN << >>
    ELSE LET h2 == IF Len(hs) > 1 THEN hs[2] ELSE hs[1]
         IN  <<parent_hash(hs[1], h2)>> \o CopyLevel(SubSeq(hs, 3, Len(hs)))

calculate_root(hs) == IF Len(hs) = 1 THEN hs[1] ELSE merkle_root_r(CopyLevel(hs))

-----------------------------------------------------------------------------
(* Partial merkle trees *)

calc_tree_width(n, height) == (n + 2 ^ height - 1) \div 2 ^ height

calc_tree_height(n) == CHOOSE h \in 0 .. n :
    calc_tree_width(n, h) <= 1 /\ \A g \in 0 .. h - 1 : calc_tree_width(n, g) > 1

RECURSIVE calc_hash(_, _, _)
calc_hash(ids, height, pos) ==
    IF height = 0 THEN ids[pos + 1]
    ELSE LET left == calc_hash(ids, height - 1, pos * 2)
         IN  parent_hash(left,
                 IF pos * 2 + 1 < calc_tree_width(Len(ids), height - 1)
                   THEN calc_hash(ids, height - 1, pos * 2 + 1) ELSE left)

RECURSIVE traverse_and_build(_, _, _, _)
traverse_and_build(ids, ms, height, pos) ==
    LET parent_of_match ==
            \E p \in pos * 2 ^ height .. (pos + 1) * 2 ^ height - 1 : p < Len(ids) /\ ms[p + 1]
    IN  IF height = 0 \/ ~parent_of_match
          THEN [bits |-> <<parent_of_match>>, hashes |-> <<calc_hash(ids, height, pos)>>]
          ELSE LET l == traverse_and_build(ids, ms, height - 1, pos * 2)
                   r == IF pos * 2 + 1 < calc_tree_width(Len(ids), height - 1)
                          THEN traverse_and_build(ids, ms, height - 1, pos * 2 + 1)
                          ELSE [bits |-> << >>, hashes |-> << >>]
               IN  [bits |-> <<TRUE>> \o l.bits \o r.bits, hashes |-> l.hashes \o r.hashes]

from_txids(ids, ms) ==
    LET t == traverse_and_build(ids, ms, calc_tree_height(Len(ids)), 0)
    IN  [num_transactions |-> Len(ids), bits |-> t.bits, hashes |-> t.hashes]

\* Mutant: an incomplete last byte is dropped.
Transmitted_Truncated(t) ==
    [t EXCEPT !.bits = SubSeq(@, 1, (Len(@) \div ByteBits) * ByteBits)]

\* Consensus encoding and decoding: bits travel in whole bytes.
Transmitted(t) ==
    LET n == ((Len(t.bits) + ByteBits - 1) \div ByteBits) * ByteBits
    IN  [t EXCEPT !.bits = [i \in 1 .. n |-> IF i <= Len(@) THEN @[i] ELSE FALSE]]

\* Mutant: equal siblings are accepted.
Joined_Identical(st, left, paired) == [st EXCEPT !.hash = parent_hash(left, @)]

\* The end of traverse_and_extract for a node with children: siblings that
\* are equal are refused.
Joined(st, left, paired) ==
    IF paired /\ left = st.hash THEN [st EXCEPT !.err = "IdenticalHashesFound"]
    ELSE [st EXCEPT !.hash = parent_hash(left, @)]

RECURSIVE traverse_and_extract(_, _, _, _)
traverse_and_extract(t, height, pos, st) ==
    IF st.bits_used >= Len(t.bits) THEN [st EXCEPT !.err = "BitsArrayOverflow"]
    ELSE
    LET parent_of_match == t.bits[st.bits_used + 1]
        read == [st EXCEPT !.bits_used = @ + 1]
    IN  IF height = 0 \/ ~parent_of_match
          THEN IF read.hash_used >= Len(t.hashes)
                 THEN [read EXCEPT !.err = "HashesArrayOverflow"]
                 ELSE LET h == t.hashes[read.hash_used + 1]
                          hit == height = 0 /\ parent_of_match
                      IN  [read EXCEPT !.hash_used = @ + 1, !.hash = h,
                              !.matches = IF hit THEN Append(@, h) ELSE @,
                              !.indexes = IF hit THEN Append(@, pos) ELSE @]
          ELSE LET l == traverse_and_extract(t, height - 1, pos * 2, read)
                   paired == pos * 2 + 1 < calc_tree_width(t.num_transactions, height - 1)
               IN  IF l.err # "" THEN l
                   ELSE LET r == IF paired
                                   THEN traverse_and_extract(t, height - 1, pos * 2 + 1, l)
                                   ELSE l
                        IN  IF r.err # "" THEN r ELSE Joined(r, l.hash, paired)

\* MerkleBlockError.
MerkleBlockErrors == {"MerkleRootMismatch", "NoTransactions", "TooManyTransactions", "TooManyHashes",
           "NotEnoughBits", "NotAllBitsConsumed", "NotAllHashesConsumed",
           "BitsArrayOverflow", "HashesArrayOverflow", "IdenticalHashesFound"}

Bytes(n) == (n + ByteBits - 1) \div ByteBits

Unread == [bits_used |-> 0, hash_used |-> 0, matches |-> << >>, indexes |-> << >>,
           hash |-> Txid(0), err |-> ""]

\* Mutant: leftover hashes are not noticed.
extract_matches_Leftover(t) ==
    IF t.num_transactions = 0 THEN [Unread EXCEPT !.err = "NoTransactions"]
    ELSE traverse_and_extract(t, calc_tree_height(t.num_transactions), 0, Unread)

\* PartialMerkleTree::extract_matches.  On an error matches and indexes keep
\* what was found before it.
extract_matches(t) ==
    LET st == traverse_and_extract(t, calc_tree_height(t.num_transactions), 0, Unread)
    IN  CASE t.num_transactions = 0 -> [Unread EXCEPT !.err = "NoTransactions"]
          [] t.num_transactions > TxLimit -> [Unread EXCEPT !.err = "TooManyTransactions"]
          [] Len(t.hashes) > t.num_transactions -> [Unread EXCEPT !.err = "TooManyHashes"]
          [] Len(t.bits) < Len(t.hashes) -> [Unread EXCEPT !.err = "NotEnoughBits"]
          [] st.err # "" -> st
          [] Bytes(st.bits_used) # Bytes(Len(t.bits)) -> [st EXCEPT !.err = "NotAllBitsConsumed"]
          [] st.hash_used # Len(t.hashes) -> [st EXCEPT !.err = "NotAllHashesConsumed"]
          [] OTHER -> st

-----------------------------------------------------------------------------
(* A block, a proof of some of its transactions, and its reader *)

Root == calculate_root(txids)
Height == calc_tree_height(Len(txids))

NoTree == [num_transactions |-> 0, bits |-> << >>, hashes |-> << >>]

\* Blocks: transactions are distinct, so that they may be numbered in order.
MerkleInit ==
    /\ txids \in {[i \in 1 .. n |-> Txid(i)] : n \in 1 .. MaxTx}
    /\ wanted = << >>
    /\ pmt = NoTree /\ stage = "block"
    /\ matches = << >> /\ indexes = << >> /\ result = ""

from_block_with_predicate(ms) ==
    /\ stage = "block"
    /\ wanted' = ms
    /\ pmt' = from_txids(txids, ms)
    /\ stage' = "built"
    /\ UNCHANGED <<txids, matches, indexes, result>>

\* The merkle block is encoded by its sender and decoded by its reader.
Transmit ==
    /\ stage = "built"
    /\ pmt' = Transmitted(pmt)
    /\ stage' = "received"
    /\ UNCHANGED <<txids, wanted, matches, indexes, result>>

\* Any tree the decoder can produce that is made of hashes of the block and
\* as high as the block's tree.
BlockNodes == UNION {{calc_hash(txids, h, p) : p \in 0 .. calc_tree_width(Len(txids), h) - 1} :
                     h \in 0 .. Height}

Receive(n, bs, hs) ==
    /\ stage = "block"
    /\ pmt' = [num_transactions |-> n, bits |-> bs, hashes |-> hs]
    /\ stage' = "received"
    /\ UNCHANGED <<txids, wanted, matches, indexes, result>>

\* MerkleBlock::extract_matches.
Extract ==
    /\ stage = "received"
    /\ LET st == extract_matches(pmt)
       IN  /\ matches' = st.matches /\ indexes' = st.indexes
           /\ result' = IF st.err # "" THEN st.err
                        ELSE IF st.hash = Root THEN "Ok" ELSE "MerkleRootMismatch"
    /\ stage' = "extracted"
    /\ UNCHANGED <<txids, wanted, pmt>>

\* The next block.
NextBlock ==
    /\ stage = "extracted"
    /\ stage' = "block"
    /\ wanted' = << >>
    /\ pmt' = NoTree /\ matches' = << >> /\ indexes' = << >> /\ result' = ""
    /\ UNCHANGED txids

SameHeight == {n \in 1 .. 2 ^ Height : calc_tree_height(n) = Height}

MerkleNext ==
    \/ stage = "block" /\ \E ms \in [DOMAIN txids -> BOOLEAN] : from_block_with_predicate(ms)
    \/ Transmit
    \/ stage = "block" /\ Len(txids) <= MaxReceived
       /\ \E n \in SameHeight \cup {0, TxLimit + 1} :
             \E bs \in UNION {[1 .. k * ByteBits -> BOOLEAN] : k \in 0 .. 2},
                hs \in SeqOf(BlockNodes, IF n \in SameHeight THEN MaxReceived ELSE 1)
                       \cup [1 .. MaxReceived + 1 -> ToSet(txids)] :
                Receive(n, bs, hs)
    \/ Extract
    \/ NextBlock

-----------------------------------------------------------------------------
(* Properties *)

\* Every match has a position, on the error paths of extract_matches too.
ProofTyped ==
    /\ stage \in {"block", "built", "received", "extracted"}
    /\ pmt.num_transactions \in 0 .. 2 ^ MaxTx
    /\ \A i \in DOMAIN pmt.bits : pmt.bits[i] \in BOOLEAN
    /\ result \in MerkleBlockErrors \cup {"", "Ok"}
    /\ Len(matches) = Len(indexes)

\* The three ways of computing a root agree: the one that hashes in place,
\* the one that hashes an iterator, and the one by height and position.
RootsAgree ==
    /\ calculate_root_inline(txids) = Root
    /\ calc_hash(txids, Height, 0) = Root

\* Positions of the wanted transactions, in order.
WantedPositions == SelectSeq([i \in DOMAIN txids |-> i - 1], LAMBDA p : wanted[p + 1])

\* The size guaranteed in the comment on PartialMerkleTree: a proof has at
\* most one hash per transaction, and at most one more than the number of
\* matches times the height.
HashesBounded ==
    stage = "built" =>
        /\ Len(pmt.hashes) <= Len(txids)
        /\ Len(pmt.hashes) <= 1 + Cardinality({i \in DOMAIN wanted : wanted[i]}) * Height

\* A proof that was built is small and accepted, and gives back exactly the
\* wanted transactions with their positions, through the padding of its bits:
\* its builder and its reader agree with the two ways to compute a root.
ProofComplete ==
    /\ RootsAgree
    /\ HashesBounded
    /\ stage = "extracted" /\ wanted # << >> =>
          /\ result = "Ok"
          /\ indexes = WantedPositions
          /\ matches = [i \in DOMAIN WantedPositions |-> txids[WantedPositions[i] + 1]]

\* The transactions below a hash; a node whose children are equal is the
\* last of an odd level.
RECURSIVE Below(_)
Below(h) ==
    IF "txid" \in DOMAIN h THEN <<h>>
    ELSE IF h.left = h.right THEN Below(h.left)
    ELSE Below(h.left) \o Below(h.right)

\* An accepted tree accounts for the whole block: the transactions below its
\* hashes, in their order, are the transactions of the block.  Nothing is
\* skipped, repeated or left over.
ProofCoversBlock ==
    stage = "extracted" /\ result = "Ok" /\ pmt.num_transactions > 0 =>
        FlattenSeq([i \in DOMAIN pmt.hashes |-> Below(pmt.hashes[i])]) = txids

\* Whatever tree is received for a block of this height, an accepted one
\* proves only transactions of the block, each at its own position, and
\* accounts for the whole block.
ProofSound ==
    /\ ProofTyped /\ ProofCoversBlock
    /\ stage = "extracted" /\ result = "Ok" =>
          \A i \in DOMAIN matches :
              indexes[i] < Len(txids) /\ matches[i] = txids[indexes[i] + 1]
=============================================================================
