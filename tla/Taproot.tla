------------------------------ MODULE Taproot -------------------------------
(***************************************************************************)
(* Script trees of taproot outputs (bitcoin/src/taproot): the node infos   *)
(* that are combined into a tree, the merkle branches of their leaves, the *)
(* control block that proves a script, and its byte form; and              *)
(* TaprootBuilder: a tree is built by adding leaves and hidden nodes in    *)
(* depth-first order, or as a Huffman tree from weights, and is then turned*)
(* into spending information, into a TapTree, or into its serde form.      *)
(*                                                                         *)
(* A hash is a natural number; the tagged hashes are injective: a leaf     *)
(* (script and version) hashes to itself, a branch to Pair of its ordered  *)
(* children, a number above every leaf and every hidden hash.              *)
(***************************************************************************)
EXTENDS Integers, Sequences, SequencesExt

-----------------------------------------------------------------------------
(* Nodes and control blocks *)

CONSTANTS
    Leaves,             \* (script, leaf version) pairs, numbers from 1
    Hidden,             \* hashes of hidden nodes, numbers too
    LeafScripts,        \* the script and the version of every leaf
    HashLess(_, _),     \* the byte order of two hashes
    MAX_NODE_COUNT,     \* TAPROOT_CONTROL_MAX_NODE_COUNT (128)
    ByteSize,           \* values of a byte of a hash; two bytes hold a hash
    XOnlyKeys           \* the bytes that are x-only public keys

ASSUME AtomsAssumption ==
    Leaves \subseteq Nat \ {0} /\ Hidden \subseteq Nat \ {0} /\ Leaves \cap Hidden = {}
ASSUME MaxAssumption == MAX_NODE_COUNT \in Nat /\ MAX_NODE_COUNT > 0
ASSUME LeafAssumption ==
    /\ DOMAIN LeafScripts = Leaves
    /\ \A l, m \in Leaves : LeafScripts[l] = LeafScripts[m] => l = m

Atoms == Leaves \cup Hidden
MaxAtom == CHOOSE m \in Atoms : \A a \in Atoms : a <= m
Pair(a, b) ==
    LET lo == IF a < b THEN a ELSE b
        hi == IF a < b THEN b ELSE a
    IN  MaxAtom + 1 + 2 * ((hi * (hi + 1)) \div 2 + lo) + (IF a <= b THEN 0 ELSE 1)

\* TapNodeHash::from_node_hashes: the smaller hash is hashed first.
from_node_hashes(a, b) == IF HashLess(a, b) THEN Pair(a, b) ELSE Pair(b, a)

-----------------------------------------------------------------------------
(* Node infos.  A leaf node is its leaf and its merkle branch.  NoNode      *)
(* stands for None, and FailedNode for a combination that is too deep.      *)

Node(h, ls, hid) == [hash |-> h, leaves |-> ls, has_hidden_nodes |-> hid]
NoNode == Node(0, << >>, FALSE)
FailedNode == Node(0, << >>, TRUE)

new_leaf(l) == Node(l, << [leaf |-> l, merkle_branch |-> << >>] >>, FALSE)
new_hidden_node(h) == Node(h, << >>, TRUE)

\* Mutant: the leaves of the first child are lost.
combine_OneSide(a, b) ==
    LET push(ls, h) == [i \in DOMAIN ls |-> [ls[i] EXCEPT !.merkle_branch = Append(@, h)]]
    IN  Node(from_node_hashes(a.hash, b.hash), push(b.leaves, a.hash),
             a.has_hidden_nodes \/ b.has_hidden_nodes)

\* NodeInfo::combine: every leaf gains the sibling's hash as hashing partner,
\* and the leaves of the child hashed first come first.
combine(a, b) ==
    IF \E l \in ToSet(a.leaves) \cup ToSet(b.leaves) : Len(l.merkle_branch) >= MAX_NODE_COUNT
      THEN FailedNode
      ELSE LET x == IF HashLess(a.hash, b.hash) THEN a ELSE b
               y == IF HashLess(a.hash, b.hash) THEN b ELSE a
               push(ls, h) ==
                   [i \in DOMAIN ls |-> [ls[i] EXCEPT !.merkle_branch = Append(@, h)]]
           IN  Node(from_node_hashes(a.hash, b.hash),
                    push(x.leaves, y.hash) \o push(y.leaves, x.hash),
                    a.has_hidden_nodes \/ b.has_hidden_nodes)

-----------------------------------------------------------------------------
(* Spending information.  The output key is the internal key tweaked by the *)
(* merkle root: one key per pair of them.  The parity of the output key is  *)
(* a function of the key.                                                   *)

output_key(internal_key, root) == <<internal_key, root>>
parity(key) == (key[1] + key[2]) % 2

\* TaprootSpendInfo::new_key_spend (root 0: no merkle root) and, for a root
\* node, from_node_info: the branches of every script of the tree.
new_key_spend(internal_key, root) ==
    [internal_key |-> internal_key, merkle_root |-> root,
     output_key |-> output_key(internal_key, root),
     script_map |-> << >>]

from_node_info(internal_key, node) ==
    LET scripts == {l.leaf : l \in ToSet(node.leaves)}
    IN  [new_key_spend(internal_key, node.hash) EXCEPT !.script_map =
            [s \in scripts |->
                {l.merkle_branch : l \in {m \in ToSet(node.leaves) : m.leaf = s}}]]

\* TaprootSpendInfo::control_block for a script of the tree.
control_block(info, s) ==
    [leaf_version |-> LeafScripts[s].version, output_key_parity |-> parity(info.output_key),
     internal_key |-> info.internal_key,
     merkle_branch |-> CHOOSE b \in info.script_map[s] :
                           \A c \in info.script_map[s] : Len(b) <= Len(c)]

\* TapNodeHash::from_script: 0 for a script that is in no tree.
from_script(script, version) ==
    LET known == {l \in Leaves : LeafScripts[l] = [script |-> script, version |-> version]}
    IN  IF known = {} THEN 0 ELSE CHOOSE l \in known : TRUE

\* ControlBlock::verify_taproot_commitment.
verify_taproot_commitment(cb, key, script) ==
    LET root == FoldLeft(from_node_hashes, from_script(script, cb.leaf_version),
                         cb.merkle_branch)
    IN  /\ output_key(cb.internal_key, root) = key
        /\ parity(key) = cb.output_key_parity

-----------------------------------------------------------------------------
(* The byte form of a control block: version and parity share the first     *)
(* byte, an internal key takes one byte here and a hash takes two.          *)

TAPROOT_LEAF_TAPSCRIPT == 192
TAPROOT_ANNEX_PREFIX == 80
BASE_SIZE == 2
NODE_SIZE == 2

\* LeafVersion::from_consensus and FutureLeafVersion::from_consensus: even,
\* and not the prefix of an annex.  to_consensus gives the number back.
ValidVersion(v) == v = TAPROOT_LEAF_TAPSCRIPT \/ (v # TAPROOT_ANNEX_PREFIX /\ v % 2 = 0)

\* ControlBlock::encode.
EncodeControl(cb) ==
    <<cb.output_key_parity + cb.leaf_version, cb.internal_key>>
    \o FlattenSeq([i \in DOMAIN cb.merkle_branch |->
           <<cb.merkle_branch[i] \div ByteSize, cb.merkle_branch[i] % ByteSize>>])

size(cb) == BASE_SIZE + NODE_SIZE * Len(cb.merkle_branch)

\* TaprootMerkleBranch::decode, on the bytes after the base.
DecodeBranch(sl) ==
    CASE Len(sl) % NODE_SIZE # 0 -> [err |-> "InvalidMerkleBranchSize"]
      [] Len(sl) > NODE_SIZE * MAX_NODE_COUNT -> [err |-> "InvalidMerkleTreeDepth"]
      [] OTHER -> [err |-> "", nodes |-> [i \in 1 .. Len(sl) \div NODE_SIZE |->
                                             sl[2 * i - 1] * ByteSize + sl[2 * i]]]

\* ControlBlock::decode: size, version, key and branch, in this order.
DecodeControl(sl) ==
    IF Len(sl) < BASE_SIZE \/ (Len(sl) - BASE_SIZE) % NODE_SIZE # 0
      THEN [err |-> "InvalidControlBlockSize"]
      ELSE LET version == sl[1] - (sl[1] % 2)
               branch == DecodeBranch(SubSeq(sl, BASE_SIZE + 1, Len(sl)))
           IN  CASE ~ValidVersion(version) -> [err |-> "InvalidTaprootLeafVersion"]
                 [] sl[2] \notin XOnlyKeys -> [err |-> "InvalidInternalKey"]
                 [] branch.err # "" -> branch
                 [] OTHER -> [err |-> "", control |->
                       [leaf_version |-> version, output_key_parity |-> sl[1] % 2,
                        internal_key |-> sl[2], merkle_branch |-> branch.nodes]]

-----------------------------------------------------------------------------
(* The builder *)

CONSTANTS
    InternalKey,    \* the internal key, a number
    MaxU32,         \* u32::MAX, where weights saturate
    Weights,        \* weights given to the Huffman construction
    WalkLeaves,     \* bound: scripts added by hand
    MaxNodes,       \* bound: nodes added by hand
    MaxHuffman      \* bound: scripts of a Huffman tree

VARIABLES
    branch,     \* the builder: level d of the tree is branch[d + 1], or NoNode
    heap,       \* node_weights of with_huffman_tree, while it runs
    given,      \* every node given to the builder: [depth, node, weight]
    info,       \* the TaprootSpendInfo of finalize
    err         \* why the last call consumed the builder

builderVars == <<branch, heap, given, info, err>>

NoInfo == [internal_key |-> 0]
BuilderErrors == {"", "InvalidMerkleTreeDepth", "NodeNotInDfsOrder", "OverCompleteTree",
                  "EmptyTree"}

-----------------------------------------------------------------------------
(* TaprootBuilder::insert on a branch b.                                    *)

Err(e) == [err |-> e, branch |-> << >>]

\* The node that reaches each level: the given one at its depth, and above it
\* the combination with the left sibling popped from the level below.
Carried(b, node, depth) ==
    LET carry[d \in 0 .. depth] ==
            IF d = depth THEN node
            ELSE IF carry[d + 1] = FailedNode THEN FailedNode
            ELSE combine(carry[d + 1], b[d + 2])
    IN  carry

\* The level at which the loop stops: the deepest level without a left
\* sibling, or -1 when every level has one.
StopLevel(b, depth) ==
    IF Len(b) < depth + 1 THEN depth
    ELSE LET free == {d \in 0 .. depth : b[d + 1] = NoNode}
         IN  IF free = {} THEN -1 ELSE Max(free)

\* Mutant: the levels above a new leaf are not filled with None.
insert_NoFill(b, node, depth) ==
    IF depth > MAX_NODE_COUNT THEN Err("InvalidMerkleTreeDepth")
    ELSE IF depth + 1 < Len(b) THEN Err("NodeNotInDfsOrder")
    ELSE LET stop == StopLevel(b, depth)
             carry == Carried(b, node, depth)
         IN  IF stop = -1 THEN Err("OverCompleteTree")
             ELSE [err |-> "",
                   branch |-> SubSeq(b, 1, IF stop < Len(b) THEN stop ELSE Len(b))
                              \o <<carry[stop]>>]

insert(b, node, depth) ==
    IF depth > MAX_NODE_COUNT THEN Err("InvalidMerkleTreeDepth")
    ELSE IF depth + 1 < Len(b) THEN Err("NodeNotInDfsOrder")
    ELSE LET stop == StopLevel(b, depth)
             carry == Carried(b, node, depth)
         IN  IF \E d \in Max({stop, 0}) .. depth : carry[d] = FailedNode
               THEN Err("InvalidMerkleTreeDepth")
             ELSE IF stop = -1 THEN Err("OverCompleteTree")
             ELSE [err |-> "",
                   branch |-> [i \in 1 .. stop |-> IF i <= Len(b) THEN b[i] ELSE NoNode]
                              \o <<carry[stop]>>]

\* Mutant: depths counted from one.
Serialize_OneBased(node) ==
    [i \in DOMAIN node.leaves |->
        [depth |-> Len(node.leaves[i].merkle_branch) + 1, leaf |-> node.leaves[i].leaf]]

\* The serde form of a node info: depth and leaf of every leaf, in order; and
\* its reader, which adds them to a new builder.
Serialize(node) ==
    [i \in DOMAIN node.leaves |->
        [depth |-> Len(node.leaves[i].merkle_branch), leaf |-> node.leaves[i].leaf]]

Deserialize(elems) ==
    FoldLeft(LAMBDA acc, e : IF acc.err # "" THEN acc
                             ELSE insert(acc.branch, new_leaf(e.leaf), e.depth),
             [err |-> "", branch |-> << >>], elems)

-----------------------------------------------------------------------------
(* Calls *)

BuilderInit ==
    /\ branch = << >> /\ heap = << >> /\ given = << >>
    /\ info = NoInfo /\ err = ""

Building == info = NoInfo /\ err = "" /\ heap = << >>

\* insert consumes the builder: an error loses it.
Insert(node, depth) ==
    /\ Building /\ Len(given) < MaxNodes
    /\ LET r == insert(branch, node, depth)
       IN  branch' = r.branch /\ err' = r.err
    /\ given' = Append(given, [depth |-> depth, node |-> node, weight |-> 0])
    /\ UNCHANGED <<heap, info>>

add_leaf(depth, l) == Insert(new_leaf(l), depth)
add_hidden_node(depth, h) == Insert(new_hidden_node(h), depth)

is_finalizable == Len(branch) = 1 /\ branch[1] # NoNode

\* finalize hands an unfinished builder back unchanged.
finalize ==
    /\ Building /\ Len(branch) <= 1
    /\ info' = IF branch = << >> THEN new_key_spend(InternalKey, 0)
               ELSE from_node_info(InternalKey, branch[1])
    /\ branch' = << >>
    /\ UNCHANGED <<heap, given, err>>

\* with_huffman_tree: the scripts become leaves on the heap; without any there
\* is no tree to build.
with_huffman_tree(ws) ==
    /\ Building /\ given = << >>
    /\ err' = IF ws = << >> THEN "EmptyTree" ELSE ""
    /\ heap' = [i \in DOMAIN ws |-> [p |-> ws[i].weight, node |-> new_leaf(ws[i].leaf)]]
    /\ given' = [i \in DOMAIN ws |-> [depth |-> -1, node |-> new_leaf(ws[i].leaf),
                                      weight |-> ws[i].weight]]
    /\ UNCHANGED <<branch, info>>

\* The heap pops the least weight, and of equal weights the greatest node.
IsPopped(i, S) ==
    \A j \in S : \/ heap[i].p < heap[j].p
                 \/ heap[i].p = heap[j].p /\ ~HashLess(heap[i].node.hash, heap[j].node.hash)

\* The heap without two of its entries.
Without(i, k) == RemoveAt(RemoveAt(heap, Max({i, k})), Min({i, k}))

\* Mutant: the heap pops the greatest weight (the Reverse is forgotten).
HuffmanCombine_MaxHeap ==
    \E i \in DOMAIN heap : \E k \in DOMAIN heap \ {i} :
        /\ \A j \in DOMAIN heap : heap[i].p >= heap[j].p
        /\ \A j \in DOMAIN heap \ {i} : heap[k].p >= heap[j].p
        /\ \E node \in {combine(heap[i].node, heap[k].node)} :
              IF node = FailedNode
                THEN heap' = << >> /\ err' = "InvalidMerkleTreeDepth"
                ELSE /\ heap' = Append(Without(i, k), [p |-> heap[i].p + heap[k].p, node |-> node])
                     /\ UNCHANGED err
        /\ UNCHANGED <<branch, given, info>>

\* Mutant: the two nodes are looked at, not popped.
HuffmanCombine_Peek ==
    \E i \in DOMAIN heap : \E k \in DOMAIN heap \ {i} :
        /\ IsPopped(i, DOMAIN heap) /\ IsPopped(k, DOMAIN heap \ {i})
        /\ heap' = [heap EXCEPT ![i].p = Min({heap[i].p + heap[k].p, MaxU32})]
        /\ UNCHANGED <<branch, given, info, err>>

HuffmanCombine ==
    \E i \in DOMAIN heap : \E k \in DOMAIN heap \ {i} :
        /\ IsPopped(i, DOMAIN heap) /\ IsPopped(k, DOMAIN heap \ {i})
        /\ \E node \in {combine(heap[i].node, heap[k].node)} :
              IF node = FailedNode
                THEN heap' = << >> /\ err' = "InvalidMerkleTreeDepth"
                ELSE /\ heap' = Append(Without(i, k),
                          [p |-> Min({heap[i].p + heap[k].p, MaxU32}), node |-> node])
                     /\ UNCHANGED err
        /\ UNCHANGED <<branch, given, info>>

HuffmanDone ==
    /\ Len(heap) = 1
    /\ branch' = <<heap[1].node>>
    /\ heap' = << >>
    /\ UNCHANGED <<given, info, err>>

\* try_into_node_info, try_into_taptree: a tree without hidden nodes, or the
\* builder as it was, in the error.
try_into_taptree(b) ==
    CASE Len(b) # 1 -> [err |-> "NotFinalized", builder |-> b]
      [] b[1].has_hidden_nodes -> [err |-> "HiddenParts", builder |-> b]
      [] OTHER -> [err |-> "", taptree |-> b[1]]

\* A new builder, after the last one was consumed or dropped.
New ==
    /\ given # << >> \/ info # NoInfo \/ err # ""
    /\ heap = << >>
    /\ branch' = << >> /\ heap' = << >> /\ given' = << >>
    /\ info' = NoInfo /\ err' = ""

\* Lists of weighted scripts, in one order each: the heap forgets the order.
ScriptWeights ==
    {ws \in UNION {[1 .. n -> [weight : Weights, leaf : Leaves]] : n \in 0 .. MaxHuffman} :
        \A i \in 1 .. Len(ws) - 1 :
            \/ ws[i].leaf < ws[i + 1].leaf
            \/ ws[i].leaf = ws[i + 1].leaf /\ ws[i].weight <= ws[i + 1].weight}

BuilderNext ==
    \/ \E depth \in 0 .. MAX_NODE_COUNT + 1, l \in WalkLeaves : add_leaf(depth, l)
    \/ \E depth \in 0 .. MAX_NODE_COUNT + 1, h \in Hidden : add_hidden_node(depth, h)
    \/ given = << >> /\ \E ws \in ScriptWeights : with_huffman_tree(ws)
    \/ HuffmanCombine
    \/ HuffmanDone
    \/ finalize
    \/ New

-----------------------------------------------------------------------------
(* Properties *)

NodeOK(n) ==
    /\ n.hash \in Nat /\ n.has_hidden_nodes \in BOOLEAN
    /\ \A l \in ToSet(n.leaves) : l.leaf \in Leaves /\ Len(l.merkle_branch) <= MAX_NODE_COUNT

BuilderTyped ==
    /\ \A i \in DOMAIN branch : NodeOK(branch[i]) /\ branch[i] # FailedNode
    /\ \A i \in DOMAIN heap : NodeOK(heap[i].node) /\ heap[i].p \in 0 .. MaxU32
    /\ err \in BuilderErrors

\* The invariants of the comment on TaprootBuilder::branch: no None at the
\* end, empty only before the first node, and one entry exactly when done:
\* only a walk that went on after its end has a root and more.
BranchShape ==
    /\ branch # << >> => Last(branch) # NoNode
    /\ Building => (branch = << >> <=> given = << >>)
    /\ Len(branch) = 1 => branch[1] # NoNode

\* The builder comes from with_huffman_tree.
FromHuffman == given # << >> /\ given[1].depth = -1

\* Script leaves given so far, with their depths; the depths of a Huffman
\* tree are chosen by the construction.
Scripts == SelectSeq(given, LAMBDA g : g.node.leaves # << >>)
GivenLeaves == [i \in DOMAIN Scripts |-> <<Scripts[i].node.hash, Scripts[i].depth>>]

\* The leaves of a node at level d, with their depths.
NodeLeaves(n, d) ==
    [i \in DOMAIN n.leaves |-> <<n.leaves[i].leaf, d + Len(n.leaves[i].merkle_branch)>>]

\* No leaf is lost, repeated or moved: the builder holds exactly the scripts
\* it was given, each at the depth it was given for.
LeavesKept ==
    Building =>
        LET held == FlattenSeq([i \in DOMAIN branch |-> NodeLeaves(branch[i], i - 1)])
            AsGiven(leaves) == [i \in DOMAIN leaves |-> IF FromHuffman THEN leaves[i][1] ELSE leaves[i]]
        IN  ToBag(AsGiven(held)) = ToBag(AsGiven(GivenLeaves))

\* The merkle branch of every leaf leads from the leaf to the hash of the
\* node that holds it, in the builder as on the Huffman heap.
BranchesCommit ==
    \A n \in ToSet(branch) \cup {heap[i].node : i \in DOMAIN heap} :
        \A l \in ToSet(n.leaves) : FoldLeft(from_node_hashes, l.leaf, l.merkle_branch) = n.hash

\* What a spender may present for the bytes of a control block: those bytes
\* with another first byte, another key or another last byte, and shorter or
\* longer ones.
FirstBytes == {0, 1, TAPROOT_ANNEX_PREFIX, TAPROOT_ANNEX_PREFIX + 1, 192, 193, 194, 195}
Presented(bs) ==
    {[bs EXCEPT ![1] = v] : v \in FirstBytes}
    \cup {[bs EXCEPT ![2] = @ + 1], [bs EXCEPT ![Len(bs)] = @ + 1],
          Front(bs), Front(Front(bs)), Append(bs, 0)}
    \cup {bs \o <<0, 1>> : n \in {Len(bs)} \cap {BASE_SIZE, BASE_SIZE + NODE_SIZE * MAX_NODE_COUNT}}

\* Bytes that decode are the bytes of the control block they give, and one
\* that verifies for a script is a path of the tree to that script.
PresentedSound(bs, script) ==
    \A r \in {DecodeControl(bs)} :
        r.err = "" =>
            /\ EncodeControl(r.control) = bs /\ Len(bs) = size(r.control)
            /\ verify_taproot_commitment(r.control, info.output_key, script) =>
                  LET l == from_script(script, r.control.leaf_version)
                  IN  /\ l \in DOMAIN info.script_map
                      /\ r.control.merkle_branch \in info.script_map[l]

\* The control block of every script of a finished tree survives its byte form
\* and is accepted for the output key, no other branch of that script is
\* shorter, and no other bytes prove what is not in the tree.
ControlBlocksVerify ==
    info # NoInfo => \A s \in DOMAIN info.script_map :
        \A cb \in {control_block(info, s)} :
            /\ DecodeControl(EncodeControl(cb)) = [err |-> "", control |-> cb]
            /\ verify_taproot_commitment(cb, info.output_key, LeafScripts[s].script)
            /\ \A b \in info.script_map[s] : Len(cb.merkle_branch) <= Len(b)
            /\ \A bs \in Presented(EncodeControl(cb)) : PresentedSound(bs, LeafScripts[s].script)

\* Every script that was given, and no other, can be spent by its path once the
\* builder is finalized, with a control block that verifies; until then every
\* leaf's branch leads to the node that holds it.
ScriptsSpendable ==
    /\ BranchesCommit
    /\ ControlBlocksVerify
    /\ info # NoInfo =>
          DOMAIN info.script_map = {g.node.hash : g \in {x \in ToSet(given) : x.node.leaves # << >>}}

\* A builder becomes a TapTree exactly when its tree is complete and no hidden
\* node went into it, and is handed back as it was otherwise.  The tree has
\* every script and survives serialization: the reader's builder accepts the
\* leaves in the order of the hashes and finds the root.
SerdeRoundTrip ==
    Building => \A r \in {try_into_taptree(branch)} :
        /\ r.err = "" <=> is_finalizable /\ \A i \in DOMAIN given : given[i].node.leaves # << >>
        /\ r.err # "" => r.builder = branch
        /\ r.err = "" => Deserialize(Serialize(r.taptree)) = [err |-> "", branch |-> branch]

\* What the builder keeps: a branch of the documented shape that holds every
\* leaf, and that becomes a TapTree and its serde form when it is complete.
BuilderKeeps == BuilderTyped /\ BranchShape /\ LeavesKept /\ SerdeRoundTrip

\* The least weighted path length of a script tree over the given scripts.
OptimalCost ==
    LET cost[S \in SUBSET DOMAIN given] ==
            IF Cardinality(S) <= 1 THEN 0
            ELSE FoldSet(LAMBDA i, n : given[i].weight + n, 0, S)
                 + Min({cost[T] + cost[S \ T] : T \in (SUBSET S) \ {{}, S}})
    IN  cost[DOMAIN given]

\* with_huffman_tree minimises the average cost of satisfaction: while no
\* weight saturates (its comment gives up the optimum then), the weights of the scripts times their depths add up to
\* the least that any tree over these scripts can have.
HuffmanOptimal ==
    LET total == FoldLeft(LAMBDA n, g : n + g.weight, 0, given)
        weight(leaf) == (CHOOSE g \in ToSet(given) : g.node.hash = leaf).weight
    IN  /\ FromHuffman /\ Len(branch) = 1 /\ total <= MaxU32
        /\ \A i, j \in DOMAIN given : given[i].node = given[j].node => i = j
        => OptimalCost = FoldLeft(LAMBDA n, l : n + Len(l.merkle_branch) * weight(l.leaf),
                                  0, branch[1].leaves)

\* Whatever the builder holds can be finished as documented, and a tree made from
\* weights is as cheap to spend as any (add_node, insert, combine,
\* with_huffman_tree, try_into_taptree).
BuilderInvariant == BuilderKeeps /\ HuffmanOptimal

\* The Huffman loop always ends with a tree or an error.
HuffmanEnds == (heap # << >>) ~> (heap = << >>)
=============================================================================
