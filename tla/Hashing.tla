------------------------------ MODULE Hashing ------------------------------
(***************************************************************************)
(* The hash engines of the hashes crate: the block buffer shared by SHA-1, *)
(* SHA-256, SHA-512 and RIPEMD-160 (hashes/src/util.rs), their padding,    *)
(* midstates, tagged hashes, HMAC, and the word buffer of SipHash.  What   *)
(* the compression functions compute is left free: a state is its          *)
(* algorithm and the blocks it absorbed, so two digests are equal exactly  *)
(* when the same blocks went in.  Block stands for 64 bytes (128 for the   *)
(* SHA-512 family) and Field for the 8 (16) bytes of the length.           *)
(***************************************************************************)
EXTENDS Integers, Sequences, SequencesExt, FiniteSetsExt, Bitwise

CONSTANTS
    Block,              \* BLOCK_SIZE of SHA-256, scaled
    Field,              \* bytes of its length field, scaled
    Word,               \* bytes of a SipHash word
    KeyLens,            \* lengths of HMAC keys
    MaxFed              \* bound: bytes fed to an engine

ASSUME HashingAssumption ==
    /\ Block \in Nat /\ Field \in 1..(Block - 2) /\ Word \in Nat \ {0}
    /\ KeyLens \subseteq Nat /\ MaxFed \in Nat

VARIABLES
    engine,             \* the engine being fed
    fed                 \* bytes fed so far: the i-th has the value i

hash_vars == <<engine, fed>>

Byte(n) == <<"byte", n>>
Filler(n) == [i \in 1..n |-> Byte(0)]
Bytes(n) == [i \in 1..n |-> Byte(i)]

Long(algo) == algo \in {"sha512", "sha384", "sha512_256"}
BLOCK_SIZE(algo) == IF Long(algo) THEN 2 * Block ELSE Block
FieldOf(algo) == IF Long(algo) THEN 2 * Field ELSE Field
LEN(algo) == CASE algo \in {"sha256", "sha512_256"} -> Block \div 2
               [] algo = "sha384" -> Block - 1
               [] algo = "sha512" -> Block
               [] OTHER -> Block \div 2 - 1

(***************************************************************************)
(* Block engines.                                                          *)
(***************************************************************************)
new(algo) == [algo |-> algo, h |-> [iv |-> algo, blocks |-> << >>],
              buffer |-> Filler(BLOCK_SIZE(algo)), length |-> 0]

\* The compression function, left free.
process_block(e) == [e EXCEPT !.h.blocks = Append(@, e.buffer)]

\* The part of the loop of input that copies `n` bytes behind the buffered ones.
Copied(e, inp, at, n) ==
    [e EXCEPT !.buffer = [i \in DOMAIN @ |-> IF i \in (at + 1)..(at + n) THEN inp[i - at] ELSE @[i]],
              !.length = @ + n]
Processed(e) == IF e.length % BLOCK_SIZE(e.algo) = 0 THEN process_block(e) ELSE e

\* Mutant: the buffer is processed only when more input follows.
RECURSIVE input_Late(_, _)
input_Late(e, inp) ==
    IF inp = << >> THEN e
    ELSE LET at == e.length % BLOCK_SIZE(e.algo)
             n == Min({BLOCK_SIZE(e.algo) - at, Len(inp)})
             rest == SubSeq(inp, n + 1, Len(inp))
         IN input_Late(IF rest = << >> THEN Copied(e, inp, at, n) ELSE Processed(Copied(e, inp, at, n)), rest)

\* engine_input_impl.
RECURSIVE input(_, _)
input(e, inp) ==
    IF inp = << >> THEN e
    ELSE LET at == e.length % BLOCK_SIZE(e.algo)
             n == Min({BLOCK_SIZE(e.algo) - at, Len(inp)})
         IN input(Processed(Copied(e, inp, at, n)), SubSeq(inp, n + 1, Len(inp)))

\* midstate and from_midstate: the state as bytes, and an engine with an empty
\* buffer from it; the length must be a whole number of blocks.
midstate(e) == [i \in 1..LEN(e.algo) |-> <<"digest", e.h, i>>]
from_midstate(bytes, length) ==
    [algo |-> "sha256", h |-> bytes[1][2], buffer |-> Filler(Block), length |-> length]

\* The length in bits, at the end of the last block: big-endian, little-endian
\* for RIPEMD-160, and twice as wide for the SHA-512 family.
LengthField(algo, bits) ==
    LET be == [i \in 1..FieldOf(algo) |-> Byte((bits \div 256 ^ (FieldOf(algo) - i)) % 256)]
    IN IF algo = "ripemd160" THEN Reverse(be) ELSE be

\* from_engine: one set bit, zeroes up to the length field, the length.
Room(e) == BLOCK_SIZE(e.algo) - FieldOf(e.algo)
Skipped(e) == IF e.length % BLOCK_SIZE(e.algo) > Room(e) THEN input(e, Filler(Room(e))) ELSE e
Filled(e) == input(e, Filler(Room(e) - (e.length % BLOCK_SIZE(e.algo))))
from_engine(e) ==
    midstate(input(Filled(Skipped(input(e, <<Byte(128)>>))), LengthField(e.algo, 8 * e.length)))
hash(algo, data) == from_engine(input(new(algo), data))

\* The hashes of hashes: sha256d::from_engine, hash160::from_engine, hash_again.
sha256d_from_engine(e) == hash("sha256", from_engine(e))
hash160_from_engine(e) == hash("ripemd160", from_engine(e))

(***************************************************************************)
(* Midstate::const_hash and tagged hashes.                                 *)
(***************************************************************************)
ConstBlock(bytes, chunk, num_chunks) ==
    LET at == chunk * Block
        left == Max({0, Min({Block, Len(bytes) - at})})
        marked == Len(bytes) % Block <= Block - (Field + 1) \/ chunk + 2 = num_chunks
        field == LengthField("sha256", 8 * Len(bytes))
    IN [i \in 1..Block |->
            CASE i <= left -> bytes[at + i]
              [] i > left /\ chunk + 1 = num_chunks /\ i > Block - Field -> field[i - (Block - Field)]
              [] i = left + 1 /\ marked /\ ~(chunk + 1 = num_chunks /\ i > Block - Field) -> Byte(128)
              [] OTHER -> Byte(0)]
const_hash(bytes, finalize) ==
    LET num_chunks == (Len(bytes) + (Field + 1) + (Block - 1)) \div Block
        done == IF finalize THEN num_chunks ELSE num_chunks - 1
    IN midstate([new("sha256") EXCEPT !.h.blocks =
                    [c \in 1..done |-> ConstBlock(bytes, c - 1, num_chunks)]])
hash_tag(tag) ==
    LET h == const_hash(tag, TRUE)
    IN const_hash([i \in 1..Block |-> h[((i - 1) % Len(h)) + 1]], FALSE)
Tag == <<Byte(77)>>
TaggedEngine == from_midstate(hash_tag(Tag), Block)

(***************************************************************************)
(* HMAC.                                                                   *)
(***************************************************************************)
XorPad(pad, b) == IF b[1] = "byte" THEN Byte(pad ^^ b[2]) ELSE <<"xor", pad, b>>
Pad(algo, pad, key) ==
    [i \in 1..BLOCK_SIZE(algo) |-> IF i <= Len(key) THEN XorPad(pad, key[i]) ELSE Byte(pad)]
KeyFor(algo, key) == IF Len(key) > BLOCK_SIZE(algo) THEN hash(algo, key) ELSE key

hmac_new(algo, key) ==
    [iengine |-> input(new(algo), Pad(algo, 54, KeyFor(algo, key))),
     oengine |-> input(new(algo), Pad(algo, 92, KeyFor(algo, key)))]
hmac_from_engine(e) == from_engine(input(e.oengine, from_engine(e.iengine)))

(***************************************************************************)
(* SipHash: whole words are absorbed, the rest waits in `tail`.            *)
(***************************************************************************)
siphash_new == [length |-> 0, words |-> << >>, tail |-> Filler(Word), ntail |-> 0]

\* u8to64_le: four bytes, two and one, as far as `len` reaches; the rest is zero.
u8to64_le(buf, start, len) ==
    LET i == IF 3 < len THEN 4 ELSE 0
        j == IF i + 1 < len THEN i + 2 ELSE i
        k == IF j < len THEN j + 1 ELSE j
    IN [x \in 1..Word |-> IF x <= k THEN buf[start + x] ELSE Byte(0)]

\* tail |= word << (8 * ntail).
ShiftedWord(tail, word, ntail) == [x \in 1..Word |-> IF x <= ntail THEN tail[x] ELSE word[x - ntail]]

\* The loop over whole words from `start` while it is below `limit`, and the
\* `left` bytes behind them.
SipWords(e, msg, start, limit, left) ==
    LET count == Cardinality({j \in 0..Len(msg) : start + Word * j < limit})
        i == start + Word * count
    IN [e EXCEPT !.words = @ \o [w \in 1..count |-> SubSeq(msg, start + (w - 1) * Word + 1, start + w * Word)],
                 !.tail = u8to64_le(msg, i, left),
                 !.ntail = left]

siphash_input(e, msg) ==
    LET counted == [e EXCEPT !.length = @ + Len(msg)]
        needed == IF e.ntail # 0 THEN Word - e.ntail ELSE 0
        tail == ShiftedWord(e.tail, u8to64_le(msg, 0, Min({Len(msg), needed})), e.ntail)
        len == Len(msg) - needed
        left == len % Word
    IN IF e.ntail # 0 /\ Len(msg) < needed
       THEN [counted EXCEPT !.tail = tail, !.ntail = @ + Len(msg)]
       ELSE SipWords(IF e.ntail # 0 THEN [counted EXCEPT !.words = Append(@, tail)] ELSE counted,
                     msg, needed, len - left, left)

siphash_from_engine(e) ==
    Append(e.words, [e.tail EXCEPT ![Word] = Byte(e.length % 256)])

(***************************************************************************)
(* Sessions: an engine of some kind is fed in pieces, and may be rebuilt   *)
(* from its midstate between blocks.                                       *)
(***************************************************************************)
BlockAlgos == {"sha1", "sha256", "sha384", "sha512", "sha512_256", "ripemd160"}

HashInit ==
    /\ fed = 0
    /\ engine \in
        {[kind |-> "block", e |-> new(algo)] : algo \in BlockAlgos}
        \cup {[kind |-> "hmac", key |-> n, e |-> hmac_new(algo, Bytes(n))] :
                 n \in KeyLens, algo \in {"sha256", "sha512"}}
        \cup {[kind |-> "tagged", e |-> TaggedEngine], [kind |-> "siphash", e |-> siphash_new]}

\* HashEngine::input of each kind.
Input(x, bytes) ==
    CASE x.kind \in {"block", "tagged"} -> [x EXCEPT !.e = input(@, bytes)]
      [] x.kind = "hmac" -> [x EXCEPT !.e.iengine = input(@, bytes)]
      [] x.kind = "siphash" -> [x EXCEPT !.e = siphash_input(@, bytes)]

Feed ==
    \E n \in 0..(MaxFed - fed) :
        /\ fed' = fed + n
        /\ engine' = Input(engine, SubSeq(Bytes(fed + n), fed + 1, fed + n))

Resume ==
    /\ engine.kind \in {"block", "tagged"}
    /\ engine.e.algo = "sha256"
    /\ engine.e.length % Block = 0
    /\ engine' = [engine EXCEPT !.e = from_midstate(midstate(@), @.length)]
    /\ UNCHANGED fed

HashNext == Feed \/ Resume

(***************************************************************************)
(* The properties.                                                         *)
(***************************************************************************)

\* What the standards say: the message, one set bit, the fewest zeroes, the
\* length, cut into blocks.
Cut(bytes, size) == [b \in 1..(Len(bytes) \div size) |-> SubSeq(bytes, (b - 1) * size + 1, b * size)]
Padded(algo, msg) ==
    LET zeroes == CHOOSE k \in 0..(2 * Block) : (Len(msg) + 1 + k + FieldOf(algo)) % BLOCK_SIZE(algo) = 0
                     /\ \A j \in 0..(k - 1) : (Len(msg) + 1 + j + FieldOf(algo)) % BLOCK_SIZE(algo) # 0
    IN msg \o <<Byte(128)>> \o Filler(zeroes) \o LengthField(algo, 8 * Len(msg))
Standard(algo, msg) ==
    LET h == [iv |-> algo, blocks |-> Cut(Padded(algo, msg), BLOCK_SIZE(algo))]
    IN [i \in 1..LEN(algo) |-> <<"digest", h, i>>]
StandardHmac(algo, key, msg) ==
    LET k == IF Len(key) > BLOCK_SIZE(algo) THEN Standard(algo, key) ELSE key
    IN Standard(algo, Pad(algo, 92, k) \o Standard(algo, Pad(algo, 54, k) \o msg))
StandardSip(msg) ==
    LET zeroes == Filler(Word - 1 - (Len(msg) % Word))
    IN Cut(msg \o zeroes \o <<Byte(Len(msg) % 256)>>, Word)
TagHash == Standard("sha256", Tag)

\* However the input is cut into pieces, and wherever an engine is rebuilt from
\* its midstate, the digest is the one the standard gives for all the bytes fed:
\* the padding of from_engine at every fill of the buffer, the buffered bytes of
\* SipHash, keys longer than a block in HMAC, the tag's midstate computed at
\* compile time, and the hashes of hashes.
DigestsStandard ==
    CASE engine.kind = "block" ->
            /\ from_engine(engine.e) = Standard(engine.e.algo, Bytes(fed))
            /\ engine.e.algo = "sha256" =>
                /\ const_hash(Bytes(fed), TRUE) = from_engine(engine.e)
                /\ sha256d_from_engine(engine.e) = Standard("sha256", Standard("sha256", Bytes(fed)))
                /\ hash160_from_engine(engine.e) = Standard("ripemd160", Standard("sha256", Bytes(fed)))
      [] engine.kind = "tagged" ->
            from_engine(engine.e) = Standard("sha256", TagHash \o TagHash \o Bytes(fed))
      [] engine.kind = "hmac" ->
            hmac_from_engine(engine.e) = StandardHmac(engine.e.iengine.algo, Bytes(engine.key), Bytes(fed))
      [] engine.kind = "siphash" -> siphash_from_engine(engine.e) = StandardSip(Bytes(fed))
=============================================================================
